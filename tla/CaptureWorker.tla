--------------------------- MODULE CaptureWorker ---------------------------
(***************************************************************************)
(* The worker thread of crates/app (NativeWorker) and the two native       *)
(* sources it owns (NativePipeline, SourceHandle).  One turn of its loop   *)
(* takes a request or none, handles the source events that have arrived,   *)
(* retries the rebuilds that are due and looks at the link's events; it    *)
(* goes through the places of `pc` in that order.                          *)
(*                                                                         *)
(* A native stream belongs to macOS: it reports the loss of its device     *)
(* from threads of its own, while it is being started and after that; a    *)
(* start succeeds while the device is `present` (plugged in, permitted,    *)
(* answering).  A stream whose stop is refused when its handle is dropped, *)
(* or whose start is not answered in time, may run on.  The worker has no  *)
(* handle of it, and it leaves the model with what it may still report:    *)
(* nothing here says that a kind has one native stream at most.            *)
(* A meeting is its generation; 0 is None.                                 *)
(* Samples, levels, the recorder and the requests that keep no source are  *)
(* left out.                                                               *)
(***************************************************************************)
EXTENDS Naturals, Sequences, SequencesExt

CONSTANTS
  MaxGeneration,  \* bound: meetings started
  MaxDelay,       \* MAX_DELAY, where MIN_DELAY is 1
  Reports         \* bound: losses and breaks reported in one meeting

ASSUME BoundsAssumption ==
  /\ MaxGeneration \in Nat
  /\ MaxDelay \in Nat \ {0}
  /\ Reports \in Nat

VARIABLES
  pc,          \* where the worker is in its turn
  session,     \* active_generation
  started,     \* the last generation the shell has started
  source,      \* the two SourceHandles and the stream each has
  reports,     \* bound: what the streams may still report in this meeting
  present,     \* devices that would start
  events,      \* source events not yet collected
  batch,       \* source events collected in this turn
  due,         \* kinds whose retry is due in this turn
  retry,       \* rebuild_retries: the delay, and how much of it is left
  link,        \* the meeting of the link
  linkEvents,  \* the receiver of link events: its meeting, an ERROR in it
  failure      \* history: the last meeting failed, the meeting of the cause,
               \* and whether the meeting's link had been started

sourceVars == <<source, reports, events>>
turnVars == <<batch, due, retry>>
linkVars == <<link, linkEvents>>
vars == <<pc, session, started, sourceVars, present, turnVars, linkVars, failure>>

Kinds == {"System", "Microphone"}
Meetings == 1 .. MaxGeneration
EventTypes == {"Started", "RebuildRequired", "Error"}
Event(type, kind, m) == [type |-> type, kind |-> kind, of |-> m]
Events == [type : EventTypes, kind : Kinds, of : Meetings]
NoRetry == [delay |-> 0, left |-> 0]
NoSource == [handle |-> "none", stream |-> "none"]
NoReceiver == [of |-> 0, error |-> FALSE]

TypeOK ==
  /\ pc \in {"request", "collect", "batch", "due", "link", "gone"}
  /\ session \in 0 .. started
  /\ started \in 0 .. MaxGeneration
  /\ source \in [Kinds -> [handle : {"none", "up", "down"},
                           stream : {"none", "live", "lost"}]]
  /\ reports \in 0 .. Reports
  /\ present \in [Kinds -> BOOLEAN]
  /\ events \in Seq(Events)
  /\ batch \in Seq(Events)
  /\ due \subseteq Kinds
  /\ retry \in [Kinds -> [delay : 0 .. MaxDelay, left : 0 .. MaxDelay]]
  /\ link \in 0 .. MaxGeneration
  /\ linkEvents \in [of : 0 .. MaxGeneration, error : BOOLEAN]
  /\ failure \in [meeting : 0 .. MaxGeneration, cause : 0 .. MaxGeneration,
                 linked : BOOLEAN]

Init ==
  /\ pc = "request"
  /\ session = 0 /\ started = 0
  /\ source = [k \in Kinds |-> NoSource]
  /\ present = [k \in Kinds |-> TRUE]
  /\ reports = 0
  /\ events = <<>> /\ batch = <<>> /\ due = {}
  /\ retry = [k \in Kinds |-> NoRetry]
  /\ link = 0 /\ linkEvents = NoReceiver
  /\ failure = [meeting |-> 0, cause |-> 0, linked |-> FALSE]

-----------------------------------------------------------------------------
(* macOS *)

\* A device comes, goes, or loses its permission.
Plug(k) ==
  /\ present' = [present EXCEPT ![k] = ~@]
  /\ UNCHANGED <<pc, session, started, sourceVars, turnVars, linkVars, failure>>

Report(type, k) ==
  /\ source[k].handle = "up" /\ reports > 0
  /\ reports' = reports - 1
  /\ events' = Append(events, Event(type, k, session))

\* The stream stops with an error, or its DeviceWatcher sees the default
\* device change or the selected one go.
Disconnect(k) ==
  /\ Report("RebuildRequired", k)
  /\ \E stream \in {source[k].stream, "lost"} :
       source' = [source EXCEPT ![k].stream = stream]
  /\ UNCHANGED <<pc, session, started, present, turnVars, linkVars, failure>>

\* A callback is given a buffer it cannot read.
Break(k) ==
  /\ Report("Error", k)
  /\ UNCHANGED <<pc, session, started, source, present, turnVars, linkVars, failure>>

\* NativeStream::stop: ScreenCaptureKit may refuse, or not answer in time; a
\* microphone always stops, but may say that its tap was not removed.  Stopped
\* and CleanupWarning, events the worker takes no notice of, are left out.
StopFails(k) == source[k].handle = "up"
Refuses(k) == k = "System" /\ StopFails(k)

\* NativeStreamProvider::start succeeds.
ScreenStarts == present["System"]
MicrophoneStarts == present["Microphone"]
Starts(k) == IF k = "System" THEN ScreenStarts ELSE MicrophoneStarts

\* What the stream's watcher and callbacks, installed before the stream runs,
\* send while it is being started.
Early(bound) == BoundedSeq({"RebuildRequired", "Error"}, bound)
Sent(early, k, m) == [i \in 1 .. Len(early) |-> Event(early[i], k, m)]

\* A start that succeeds, and one that fails: the source it leaves, the events
\* and what may still be reported.  Started is sent when the start has returned;
\* a stream that is lost by then has said so.
Opened(k, m, bound) ==
  {[as |-> [handle |-> "up", stream |-> stream],
    event |-> Append(Sent(early, k, m), Event("Started", k, m)),
    left |-> bound - Len(early)] :
     early \in Early(bound), stream \in {"live", "lost"}}
LossReported(new) ==
  new.as.stream = "lost" => \E i \in DOMAIN new.event : new.event[i].type = "RebuildRequired"
Refused(k, m, bound) ==
  {[as |-> [handle |-> "down", stream |-> "none"],
    event |-> Sent(early, k, m), left |-> bound - Len(early)] : early \in Early(bound)}

Openings(k, m, bound) ==
  IF Starts(k) THEN {new \in Opened(k, m, bound) : LossReported(new)}
               ELSE Refused(k, m, bound)

-----------------------------------------------------------------------------
(* Rebuilding a source *)

Least(a, b) == IF a < b THEN a ELSE b

\* schedule_rebuild.  The delay counts from the start of the turn, so the
\* attempt itself may use it up.
Scheduled(k) ==
  LET delay == IF retry[k] = NoRetry THEN 1 ELSE Least(2 * retry[k].delay, MaxDelay)
  IN  {[delay |-> delay, left |-> left] : left \in 0 .. delay}

ClearRebuild(k) == retry' = [retry EXCEPT ![k] = NoRetry]

\* SourceHandle::rebuild, once the stream there was has stopped.
Restart(k) ==
  \E new \in Openings(k, session, reports) :
    /\ source' = [source EXCEPT ![k] = new.as]
    /\ reports' = new.left
    /\ events' = events \o new.event

\* Mutant of Rebuild: a source that cannot be started is not tried again.
RebuildOnce(k) == Restart(k) /\ ClearRebuild(k)

\* Mutant of Rebuild: a retry that succeeds stays scheduled.
RebuildUncleared(k) ==
  /\ Restart(k)
  /\ \E next \in IF Starts(k) THEN {retry[k]} ELSE Scheduled(k) :
       retry' = [retry EXCEPT ![k] = next]

\* attempt_rebuild, unless the stop is refused.
Rebuild(k) ==
  /\ Restart(k)
  /\ \E next \in IF Starts(k) THEN {NoRetry} ELSE Scheduled(k) :
       retry' = [retry EXCEPT ![k] = next]

-----------------------------------------------------------------------------
(* The end of a session *)

\* NativePipeline::stop_sources: both are asked to stop, once more when their
\* handles are dropped, and forgotten whatever they answer.  Their channel goes
\* with them.
ForgetSources ==
  /\ session' = 0
  /\ source' = [k \in Kinds |-> NoSource] /\ reports' = 0
  /\ events' = <<>> /\ batch' = <<>> /\ due' = {}
  /\ retry' = [k \in Kinds |-> NoRetry]

CloseSession == ForgetSources /\ link' = 0 /\ linkEvents' = NoReceiver

\* fail_session, for something that belonged to meeting m.
FailSession(m) ==
  /\ CloseSession
  /\ failure' = IF session = 0 THEN failure
                ELSE [meeting |-> session, cause |-> m, linked |-> link = session]

-----------------------------------------------------------------------------
(* Requests of AppCapture.  It ends the link before it stops or starts       *)
(* sources (KeepsBook and NoMixedAudio of CaptureBook).                      *)

At(place) == pc = place
Goto(place) == pc' = place

Timeout ==
  /\ At("request") /\ Goto("collect")
  /\ UNCHANGED <<session, started, sourceVars, present, turnVars, linkVars, failure>>

\* MacSource::start, of both kinds for meeting m on a new channel.
StartBoth(m) ==
  \E system \in Openings("System", m, Reports) :
    \E microphone \in Openings("Microphone", m, system.left) :
      /\ source' = [k \in Kinds |-> IF k = "System" THEN system.as ELSE microphone.as]
      /\ reports' = microphone.left
      /\ events' = system.event \o microphone.event

\* start_sources stops what runs, and returns there if that fails; then it
\* starts both on a new channel.  Unless both start, both are dropped.
StartSources ==
  /\ At("request") /\ Goto("collect")
  /\ started < MaxGeneration /\ link = 0
  /\ started' = started + 1
  /\ \/ (\E k \in Kinds : StopFails(k)) /\ ForgetSources
     \/ (\E k \in Kinds : ~Starts(k)) /\ ForgetSources
     \/ /\ \A k \in Kinds : Starts(k)
        /\ session' = started + 1
        /\ StartBoth(started + 1)
        /\ batch' = <<>> /\ due' = {}
        /\ retry' = [k \in Kinds |-> NoRetry]
  /\ UNCHANGED <<present, linkVars, failure>>

\* Mutant of StartLink: a receiver that is there is kept.
StartLinkSubscribed ==
  /\ At("request") /\ Goto("collect")
  /\ session # 0
  /\ link' = session
  /\ linkEvents' = IF linkEvents.of = 0 THEN [of |-> session, error |-> FALSE] ELSE linkEvents
  /\ UNCHANGED <<session, started, sourceVars, present, turnVars, failure>>

\* StartLink: refused when the sources are not the meeting's.
StartLink ==
  /\ At("request") /\ Goto("collect")
  /\ session # 0
  /\ link' = session
  /\ linkEvents' = [of |-> session, error |-> FALSE]
  /\ UNCHANGED <<session, started, sourceVars, present, turnVars, failure>>

\* End takes the link and keeps the receiver of its events.
End ==
  /\ At("request") /\ Goto("collect")
  /\ link' = 0
  /\ UNCHANGED <<session, started, sourceVars, present, turnVars, linkEvents, failure>>

StopSources ==
  /\ At("request") /\ Goto("collect")
  /\ link = 0
  /\ ForgetSources
  /\ UNCHANGED <<started, present, linkVars, failure>>

Shutdown ==
  /\ At("request") /\ Goto("gone")
  /\ CloseSession
  /\ UNCHANGED <<started, present, failure>>

Request == Timeout \/ StartSources \/ StartLink \/ End \/ StopSources \/ Shutdown

-----------------------------------------------------------------------------
(* A turn *)

Collect ==
  /\ At("collect") /\ Goto("batch")
  /\ batch' = events /\ events' = <<>>
  /\ UNCHANGED <<session, started, source, reports, present, due, retry, linkVars, failure>>

First == Head(batch)

HandleRebuild ==
  /\ At("batch") /\ batch # <<>> /\ First.type = "RebuildRequired"
  /\ \/ Rebuild(First.kind) /\ batch' = Tail(batch)
        /\ UNCHANGED <<pc, session, due, linkVars, failure>>
     \/ Refuses(First.kind) /\ FailSession(First.of) /\ Goto("link")
  /\ UNCHANGED <<started, present>>

HandleError ==
  /\ At("batch") /\ batch # <<>> /\ First.type = "Error"
  /\ FailSession(First.of) /\ Goto("link")
  /\ UNCHANGED <<started, present>>

HandleStarted ==
  /\ At("batch") /\ batch # <<>> /\ First.type = "Started"
  /\ ClearRebuild(First.kind)
  /\ batch' = Tail(batch)
  /\ UNCHANGED <<pc, session, started, sourceVars, present, due, linkVars, failure>>

\* Mutant of FindDue: a retry that has reached the ceiling is given up.
FindDueBelowCeiling ==
  /\ At("batch") /\ batch = <<>> /\ Goto("due")
  /\ due' = {k \in Kinds : retry[k] # NoRetry /\ retry[k].left = 0 /\ retry[k].delay < MaxDelay}
  /\ UNCHANGED <<session, started, sourceVars, present, batch, retry, linkVars, failure>>

FindDue ==
  /\ At("batch") /\ batch = <<>> /\ Goto("due")
  /\ due' = {k \in Kinds : retry[k] # NoRetry /\ retry[k].left = 0}
  /\ UNCHANGED <<session, started, sourceVars, present, batch, retry, linkVars, failure>>

Retry(k) ==
  /\ At("due") /\ k \in due
  /\ \/ Rebuild(k) /\ due' = due \ {k}
        /\ UNCHANGED <<pc, session, batch, linkVars, failure>>
     \/ Refuses(k) /\ FailSession(session) /\ Goto("link")
  /\ UNCHANGED <<started, present>>

DueDone ==
  /\ At("due") /\ due = {} /\ Goto("link")
  /\ UNCHANGED <<session, started, sourceVars, present, turnVars, linkVars, failure>>

\* process_link_events: an ERROR that is not a reset of the provider's stream
\* fails whatever session there is.
ReadLink ==
  /\ At("link") /\ Goto("request")
  /\ IF linkEvents.error
       THEN FailSession(linkEvents.of)
       ELSE UNCHANGED <<session, sourceVars, turnVars, linkVars, failure>>
  /\ UNCHANGED <<started, present>>

Turn ==
  \/ Collect \/ HandleRebuild \/ HandleError \/ HandleStarted
  \/ FindDue \/ (\E k \in Kinds : Retry(k)) \/ DueDone \/ ReadLink

-----------------------------------------------------------------------------
(* The clock and the link *)

Pass ==
  /\ \E k \in Kinds : retry[k].left > 0
  /\ retry' = [k \in Kinds |->
       [retry[k] EXCEPT !.left = IF @ = 0 THEN 0 ELSE @ - 1]]
  /\ UNCHANGED <<pc, session, started, sourceVars, present, batch, due, linkVars, failure>>

\* The link passes on an ERROR of the sidecar.  Its task may still do so after
\* End, which it reads when what it is sending has left.
LinkError ==
  /\ linkEvents.of # 0
  /\ linkEvents' = [linkEvents EXCEPT !.error = TRUE]
  /\ UNCHANGED <<pc, session, started, sourceVars, present, turnVars, link, failure>>

Next ==
  \/ Request \/ Turn \/ Pass \/ LinkError
  \/ \E k \in Kinds : Plug(k) \/ Disconnect(k) \/ Break(k)

Spec == Init /\ [][Next]_vars

\* The thread runs and time passes; macOS, the sidecar and the user owe nothing.
FairSpec == Spec /\ WF_vars(Timeout) /\ WF_vars(Turn) /\ WF_vars(Pass)

-----------------------------------------------------------------------------
(* Properties *)

\* The worker knows how kind k fares: its stream runs, or a report of it is on
\* its way, or a retry is scheduled.
Accounted(k) ==
  \/ source[k].handle = "up" /\ source[k].stream = "live"
  \/ retry[k] # NoRetry
  \/ \E e \in ToSet(events) \cup ToSet(batch) :
       e.kind = k /\ e.type \in {"RebuildRequired", "Error"}

\* What the documentation promises of a meeting that runs: a source that has
\* lost its stream is retried.
LostMeansPending == session # 0 => \A k \in Kinds : Accounted(k)

\* While a meeting runs, the worker loses sight of a source at one place only:
\* where a Started of that source clears a retry scheduled since.
LostOnlyByStarted ==
  [][\A k \in Kinds :
       /\ session' # 0 /\ ~Accounted(k)'
       /\ Accounted(k) \/ session' # session
       => /\ pc = "batch" /\ batch # <<>>
          /\ First.type = "Started" /\ First.kind = k /\ retry[k] # NoRetry]_vars

\* A retry is scheduled only for a source that has no stream: one that has come
\* back is never stopped by a retry of the time it was away.
RetriesOnlyLost ==
  \A k \in Kinds : (retry[k] # NoRetry \/ k \in due) => source[k].handle = "down"

\* A meeting that streams is failed by its own sources and its own link, never
\* by an ERROR that the link of the meeting before it has left behind.
FailsItsOwn == failure.linked => failure.meeting = failure.cause

\* A source whose device is back for good comes back, or the meeting ends,
\* unless the worker has lost sight of it (LostOnlyByStarted says where).
SourceReturns ==
  \A k \in Kinds :
    <>[](present[k])
      => []<>(session = 0 \/ source[k].handle = "up" \/ ~Accounted(k))
=============================================================================
