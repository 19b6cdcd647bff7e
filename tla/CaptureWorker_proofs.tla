---------------------- MODULE CaptureWorker_proofs ----------------------
(***************************************************************************)
(* Theorems about the capture worker, for any number of meetings and of    *)
(* reports of their sources and every ceiling of the retry delay.          *)
(***************************************************************************)
EXTENDS CaptureWorker, SequenceTheorems, TLAPS

-----------------------------------------------------------------------------
(* The inductive invariant *)

Places == {"request", "collect", "batch", "due", "link", "gone"}
Handles == [handle : {"none", "up", "down"}, stream : {"none", "live", "lost"}]
Delays == [delay : 0 .. MaxDelay, left : 0 .. MaxDelay]
Retries == {r \in Delays : r = NoRetry \/ r.delay > 0}
EventsOf(m) == {e \in Events : e.of = m}

\* Without a session there is no source to report anything, and nothing to retry.
NoSessionMeansNothing ==
  session = 0 =>
    /\ events = <<>> /\ batch = <<>> /\ due = {}
    /\ \A k \in Kinds : source[k] = NoSource /\ retry[k] = NoRetry

\* The channel of source events is the session's: none of another is in it.
OfThisSession == events \in Seq(EventsOf(session)) /\ batch \in Seq(EventsOf(session))

\* A turn leaves nothing of a place behind when it goes on.
EmptyElsewhere == (pc # "batch" => batch = <<>>) /\ (pc # "due" => due = {})

\* A retry that is scheduled has a delay.
Delayed == retry \in [Kinds -> Retries]

\* The receiver is that of the link, as long as there is one.
ReceiverOfLink == link # 0 => linkEvents.of = link

IInv ==
  /\ TypeOK
  /\ NoSessionMeansNothing /\ OfThisSession /\ EmptyElsewhere /\ Delayed
  /\ ReceiverOfLink /\ RetriesOnlyLost /\ FailsItsOwn

\* The part of it that the handling of source events keeps.
SInv ==
  /\ NoSessionMeansNothing /\ OfThisSession /\ EmptyElsewhere /\ Delayed /\ RetriesOnlyLost

-----------------------------------------------------------------------------
(* Lemmas *)

LEMMA EventIsOf ==
  ASSUME NEW type \in EventTypes, NEW k \in Kinds, NEW m \in Meetings
  PROVE  Event(type, k, m) \in EventsOf(m)
BY DEF Event, Events, EventsOf

\* What a start sends before it returns.
LEMMA EarlyIsTyped ==
  ASSUME NEW k \in Kinds, NEW m \in Meetings, NEW bound \in 0 .. Reports,
         NEW early \in Early(bound)
  PROVE  /\ Sent(early, k, m) \in Seq(EventsOf(m))
         /\ bound - Len(early) \in 0 .. Reports
         /\ \A i \in DOMAIN Sent(early, k, m) : Sent(early, k, m)[i].kind = k
<1>1. PICK n \in 0 .. bound : early \in [1 .. n -> {"RebuildRequired", "Error"}]
  BY DEF Early, BoundedSeq, SeqOf
<1>2. n \in Nat /\ bound \in Nat /\ n <= bound
  BY BoundsAssumption
<1>3. early \in Seq({"RebuildRequired", "Error"}) /\ Len(early) = n
  BY <1>1, <1>2
<1>4. \A i \in 1 .. n : Event(early[i], k, m) \in EventsOf(m)
  BY <1>1, EventIsOf DEF EventTypes
<1>5. Sent(early, k, m) = [i \in 1 .. n |-> Event(early[i], k, m)]
  BY <1>3 DEF Sent
<1>6. Sent(early, k, m) \in [1 .. n -> EventsOf(m)]
  BY <1>4, <1>5
<1>7. Sent(early, k, m) \in Seq(EventsOf(m))
  BY <1>2, <1>6
<1>8. bound - Len(early) \in 0 .. Reports
  BY <1>2, <1>3, BoundsAssumption
<1>9. \A i \in DOMAIN Sent(early, k, m) : Sent(early, k, m)[i].kind = k
  BY <1>5 DEF Event
<1> QED BY <1>7, <1>8, <1>9

\* A start leaves a source that runs, or one that is down and has no stream.
LEMMA OpeningIsTyped ==
  ASSUME NEW k \in Kinds, NEW m \in Meetings, NEW bound \in 0 .. Reports,
         NEW new \in Openings(k, m, bound)
  PROVE  /\ new.as \in Handles /\ new.left \in 0 .. Reports
         /\ new.event \in Seq(EventsOf(m))
         /\ new.as.handle = IF Starts(k) THEN "up" ELSE "down"
<1>1. CASE Starts(k)
  <2>1. new \in Opened(k, m, bound)
    BY <1>1 DEF Openings
  <2>2. PICK early \in Early(bound), stream \in {"live", "lost"} :
          new = [as |-> [handle |-> "up", stream |-> stream],
                 event |-> Append(Sent(early, k, m), Event("Started", k, m)),
                 left |-> bound - Len(early)]
    BY <2>1 DEF Opened
  <2>3. Event("Started", k, m) \in EventsOf(m)
    BY EventIsOf DEF EventTypes
  <2>4. Append(Sent(early, k, m), Event("Started", k, m)) \in Seq(EventsOf(m))
    BY <2>3, EarlyIsTyped, AppendProperties
  <2>5. bound - Len(early) \in 0 .. Reports
    BY EarlyIsTyped
  <2> QED BY <1>1, <2>2, <2>4, <2>5 DEF Handles
<1>2. CASE ~Starts(k)
  <2>1. new \in Refused(k, m, bound)
    BY <1>2 DEF Openings
  <2>2. PICK early \in Early(bound) :
          new = [as |-> [handle |-> "down", stream |-> "none"],
                 event |-> Sent(early, k, m), left |-> bound - Len(early)]
    BY <2>1 DEF Refused
  <2>3. Sent(early, k, m) \in Seq(EventsOf(m)) /\ bound - Len(early) \in 0 .. Reports
    BY EarlyIsTyped
  <2> QED BY <1>2, <2>2, <2>3 DEF Handles
<1> QED BY <1>1, <1>2

\* A rebuild that fails schedules a retry that has a delay.
LEMMA ScheduledIsTyped ==
  ASSUME Delayed, NEW k \in Kinds, NEW next \in Scheduled(k)
  PROVE  next \in Retries /\ next # NoRetry
<1> DEFINE delay == IF retry[k] = NoRetry THEN 1 ELSE Least(2 * retry[k].delay, MaxDelay)
<1>1. retry[k] = NoRetry \/ retry[k].delay \in 1 .. MaxDelay
  BY DEF Delayed, Retries, Delays
<1>2. delay \in 1 .. MaxDelay
  BY <1>1, BoundsAssumption DEF Least
<1>3. PICK left \in 0 .. delay : next = [delay |-> delay, left |-> left]
  BY DEF Scheduled
<1> HIDE DEF delay
<1>4. left \in 0 .. MaxDelay /\ delay \in 0 .. MaxDelay /\ delay > 0
  BY <1>2, <1>3, BoundsAssumption
<1> QED BY <1>3, <1>4 DEF Delays, Retries, NoRetry

LEMMA NoRetryIsTyped == NoRetry \in Retries
BY BoundsAssumption DEF NoRetry, Retries, Delays

\* What a rebuild of source k leaves.
LEMMA RebuildKeeps ==
  ASSUME TypeOK, OfThisSession, Delayed, session # 0, NEW k \in Kinds, Rebuild(k)
  PROVE  /\ source' \in [Kinds -> Handles] /\ reports' \in 0 .. Reports
         /\ events' \in Seq(EventsOf(session))
         /\ Delayed'
         /\ \A j \in Kinds \ {k} : source'[j] = source[j] /\ retry'[j] = retry[j]
         /\ \/ source'[k].handle = "up" /\ retry'[k] = NoRetry
            \/ source'[k].handle = "down" /\ retry'[k] # NoRetry
<1>1. session \in Meetings
  BY BoundsAssumption DEF TypeOK, Meetings
<1>2. PICK new \in Openings(k, session, reports) :
        /\ source' = [source EXCEPT ![k] = new.as]
        /\ reports' = new.left
        /\ events' = events \o new.event
  BY DEF Rebuild, Restart
<1>3. /\ new.as \in Handles /\ new.left \in 0 .. Reports
      /\ new.event \in Seq(EventsOf(session))
      /\ new.as.handle = IF Starts(k) THEN "up" ELSE "down"
  BY <1>1, OpeningIsTyped DEF TypeOK
<1>4. PICK next \in IF Starts(k) THEN {NoRetry} ELSE Scheduled(k) :
        retry' = [retry EXCEPT ![k] = next]
  BY DEF Rebuild
<1>5. next \in Retries /\ (Starts(k) => next = NoRetry) /\ (~Starts(k) => next # NoRetry)
  BY <1>4, ScheduledIsTyped, NoRetryIsTyped
<1>6. source' \in [Kinds -> Handles] /\ reports' \in 0 .. Reports
  BY <1>2, <1>3 DEF TypeOK, Handles
<1>7. events' \in Seq(EventsOf(session))
  BY <1>2, <1>3, ConcatProperties DEF OfThisSession
<1>8. retry \in [Kinds -> Retries] /\ Delayed'
  BY <1>4, <1>5 DEF Delayed
<1>9. source \in [Kinds -> Handles]
  BY DEF TypeOK, Handles
<1>10. source'[k] = new.as /\ retry'[k] = next
  BY <1>2, <1>4, <1>8, <1>9
<1>11. \A j \in Kinds \ {k} : source'[j] = source[j] /\ retry'[j] = retry[j]
  BY <1>2, <1>4, <1>8, <1>9
<1> QED BY <1>3, <1>5, <1>6, <1>7, <1>8, <1>10, <1>11

\* ForgetSources leaves nothing of a session.
LEMMA ForgetKeeps ==
  ASSUME ForgetSources
  PROVE  /\ session' = 0
         /\ source' \in [Kinds -> Handles] /\ reports' \in 0 .. Reports
         /\ events' = <<>> /\ batch' = <<>> /\ due' = {}
         /\ SInv'
<1>1. NoSource \in Handles /\ NoRetry \in Retries
  BY NoRetryIsTyped DEF NoSource, Handles
<1>2. 0 \in 0 .. Reports
  BY BoundsAssumption
<1>3. /\ session' = 0 /\ source' = [k \in Kinds |-> NoSource] /\ reports' = 0
      /\ events' = <<>> /\ batch' = <<>> /\ due' = {}
      /\ retry' = [k \in Kinds |-> NoRetry]
  BY DEF ForgetSources
<1>4. NoSessionMeansNothing' /\ OfThisSession' /\ EmptyElsewhere' /\ Delayed'
  BY <1>1, <1>3 DEF NoSessionMeansNothing, OfThisSession, EmptyElsewhere, Delayed
<1>5. RetriesOnlyLost'
  BY <1>3 DEF RetriesOnlyLost
<1> QED BY <1>1, <1>2, <1>3, <1>4, <1>5 DEF SInv

LEMMA RetriesAreDelays == Delayed => retry \in [Kinds -> Delays]
BY DEF Delayed, Retries

\* A session is failed by something of its own, unless its link never started.
LEMMA FailKeeps ==
  ASSUME IInv, NEW m \in 0 .. MaxGeneration, FailSession(m), pc' \in Places,
         session # 0 /\ link = session => m = session,
         UNCHANGED <<started, present>>
  PROVE  IInv'
<1>1. ForgetSources /\ link' = 0 /\ linkEvents' = NoReceiver
  BY DEF FailSession, CloseSession
<1>2. /\ session' = 0
      /\ source' \in [Kinds -> Handles] /\ reports' \in 0 .. Reports
      /\ events' = <<>> /\ batch' = <<>> /\ due' = {}
      /\ SInv'
  BY <1>1, ForgetKeeps
<1>3. /\ failure' \in [meeting : 0 .. MaxGeneration, cause : 0 .. MaxGeneration,
                       linked : BOOLEAN]
      /\ FailsItsOwn'
  <2>1. CASE session = 0
    BY <2>1 DEF FailSession, IInv, TypeOK, FailsItsOwn
  <2>2. CASE session # 0
    <3>1. failure' = [meeting |-> session, cause |-> m, linked |-> link = session]
      BY <2>2 DEF FailSession
    <3>2. session \in 0 .. MaxGeneration
      BY BoundsAssumption DEF IInv, TypeOK
    <3> QED BY <2>2, <3>1, <3>2 DEF FailsItsOwn
  <2> QED BY <2>1, <2>2
<1>4. linkEvents' \in [of : 0 .. MaxGeneration, error : BOOLEAN] /\ ReceiverOfLink'
  BY <1>1, BoundsAssumption DEF NoReceiver, ReceiverOfLink
<1>5. TypeOK'
  <2>1. session' \in 0 .. started' /\ link' \in 0 .. MaxGeneration
    BY <1>1, <1>2, BoundsAssumption DEF IInv, TypeOK
  <2>2. events' \in Seq(Events) /\ batch' \in Seq(Events) /\ due' \subseteq Kinds
    BY <1>2
  <2>3. retry' \in [Kinds -> Delays]
    BY <1>2 DEF SInv, Delayed, Retries
  <2> QED BY <1>2, <1>3, <1>4, <2>1, <2>2, <2>3 DEF IInv, TypeOK, Places, Handles, Delays
<1> QED BY <1>2, <1>3, <1>4, <1>5 DEF IInv, SInv

-----------------------------------------------------------------------------
(* macOS and the clock *)

\* A report is of the session whose stream makes it.
LEMMA ReportKeeps ==
  ASSUME IInv, NEW k \in Kinds, Disconnect(k) \/ Break(k)
  PROVE  IInv'
<1>1. PICK type \in EventTypes : Report(type, k)
  BY DEF Disconnect, Break, EventTypes
<1>2. /\ source[k].handle = "up" /\ reports > 0 /\ reports' = reports - 1
      /\ events' = Append(events, Event(type, k, session))
      /\ UNCHANGED <<pc, session, started, present, batch, due, retry, link, linkEvents,
                     failure>>
  BY <1>1 DEF Report, Disconnect, Break, turnVars, linkVars
<1>3. session \in Meetings
  <2>1. session # 0
    BY <1>2 DEF IInv, NoSessionMeansNothing, NoSource
  <2> QED BY <2>1, BoundsAssumption DEF IInv, TypeOK, Meetings
<1>4. Event(type, k, session) \in EventsOf(session)
  BY <1>3, EventIsOf
<1>5. OfThisSession' /\ events' \in Seq(Events)
  <2>1. events' \in Seq(EventsOf(session))
    BY <1>2, <1>4, AppendProperties DEF IInv, OfThisSession
  <2> QED BY <1>2, <2>1 DEF IInv, OfThisSession, EventsOf
<1>6. /\ source' \in [Kinds -> Handles]
      /\ \A j \in Kinds : source'[j].handle = source[j].handle
  <2>1. source \in [Kinds -> Handles]
    BY DEF IInv, TypeOK, Handles
  <2>2. PICK stream \in {"live", "lost", source[k].stream} :
          source' = [source EXCEPT ![k] = [source[k] EXCEPT !.stream = stream]]
    BY <2>1 DEF Disconnect, Break, Handles
  <2> QED BY <2>1, <2>2 DEF Handles
<1>7. reports' \in 0 .. Reports
  BY <1>2, BoundsAssumption DEF IInv, TypeOK
<1>8. TypeOK'
  BY <1>2, <1>5, <1>6, <1>7 DEF IInv, TypeOK, Handles
<1>9. RetriesOnlyLost'
  BY <1>2, <1>6 DEF IInv, RetriesOnlyLost
<1> QED BY <1>2, <1>3, <1>5, <1>8, <1>9 DEF IInv, NoSessionMeansNothing, EmptyElsewhere, Delayed,
          ReceiverOfLink, FailsItsOwn, Meetings

\* Time leaves a retry scheduled, and what is not scheduled unscheduled.
LEMMA PassKeepsRetries ==
  ASSUME Delayed, Pass, NEW k \in Kinds
  PROVE  Delayed' /\ (retry'[k] = NoRetry <=> retry[k] = NoRetry)
<1>1. retry' = [j \in Kinds |->
        [retry[j] EXCEPT !.left = IF retry[j].left = 0 THEN 0 ELSE retry[j].left - 1]]
  BY DEF Pass
<1>2. ASSUME NEW j \in Kinds
      PROVE  retry'[j] \in Retries /\ (retry'[j] = NoRetry <=> retry[j] = NoRetry)
  <2>1. retry[j] \in Delays /\ (retry[j] = NoRetry \/ retry[j].delay > 0)
    BY DEF Delayed, Retries
  <2> DEFINE left == IF retry[j].left = 0 THEN 0 ELSE retry[j].left - 1
  <2>2. left \in 0 .. MaxDelay /\ (retry[j].left = 0 => left = 0)
    BY <2>1, BoundsAssumption DEF Delays
  <2>3. retry'[j] = [delay |-> retry[j].delay, left |-> left]
    BY <1>1, <2>1 DEF Delays
  <2> HIDE DEF left
  <2>4. CASE retry[j] = NoRetry
    BY <2>2, <2>3, <2>4, NoRetryIsTyped DEF NoRetry
  <2>5. CASE retry[j] # NoRetry
    <3>1. retry[j].delay > 0 /\ retry[j].delay \in 0 .. MaxDelay
      BY <2>1, <2>5 DEF Delays
    <3>2. retry'[j].delay = retry[j].delay /\ retry'[j] \in Delays
      BY <2>2, <2>3, <3>1 DEF Delays
    <3>3. retry'[j] # NoRetry
      BY <3>1, <3>2 DEF NoRetry
    <3> QED BY <2>5, <3>1, <3>2, <3>3 DEF Retries
  <2> QED BY <2>4, <2>5
<1> QED BY <1>1, <1>2 DEF Delayed

LEMMA OutsideKeeps ==
  ASSUME IInv, Pass \/ LinkError \/ \E k \in Kinds : Plug(k)
  PROVE  IInv'
<1>1. CASE Pass
  <2>1. UNCHANGED <<pc, session, started, source, reports, events, present, batch, due, link,
                    linkEvents, failure>>
    BY <1>1 DEF Pass, sourceVars, linkVars
  <2>2. Delayed' /\ \A k \in Kinds : retry'[k] = NoRetry <=> retry[k] = NoRetry
    BY <1>1, PassKeepsRetries DEF IInv, Kinds
  <2>3. TypeOK'
    BY <2>1, <2>2 DEF IInv, TypeOK, Delayed, Retries, Delays
  <2> QED BY <2>1, <2>2, <2>3 DEF IInv, NoSessionMeansNothing, OfThisSession, EmptyElsewhere,
            ReceiverOfLink, RetriesOnlyLost, FailsItsOwn
<1>2. CASE LinkError
  <2>1. /\ linkEvents' = [linkEvents EXCEPT !.error = TRUE]
        /\ UNCHANGED <<pc, session, started, source, reports, events, present, batch, due, retry,
                       link, failure>>
    BY <1>2 DEF LinkError, sourceVars, turnVars
  <2>2. /\ linkEvents' \in [of : 0 .. MaxGeneration, error : BOOLEAN]
        /\ linkEvents'.of = linkEvents.of
    BY <2>1 DEF IInv, TypeOK
  <2> QED BY <2>1, <2>2 DEF IInv, TypeOK, NoSessionMeansNothing, OfThisSession, EmptyElsewhere,
            Delayed, ReceiverOfLink, RetriesOnlyLost, FailsItsOwn
<1>3. CASE \E k \in Kinds : Plug(k)
  <2>1. /\ present' \in [Kinds -> BOOLEAN]
        /\ UNCHANGED <<pc, session, started, source, reports, events, batch, due, retry, link,
                       linkEvents, failure>>
    BY <1>3 DEF Plug, IInv, TypeOK, sourceVars, turnVars, linkVars
  <2> QED BY <2>1 DEF IInv, TypeOK, NoSessionMeansNothing, OfThisSession, EmptyElsewhere,
            Delayed, ReceiverOfLink, RetriesOnlyLost, FailsItsOwn
<1> QED BY <1>1, <1>2, <1>3

-----------------------------------------------------------------------------
(* Requests *)

\* What start_sources does when both sources start.
BothStart ==
  /\ \A k \in Kinds : Starts(k)
  /\ session' = started + 1
  /\ StartBoth(started + 1)
  /\ batch' = <<>> /\ due' = {}
  /\ retry' = [k \in Kinds |-> NoRetry]

LEMMA BothStartKeeps ==
  ASSUME IInv, BothStart, started + 1 \in Meetings, started' = started + 1, pc' = "collect",
         link = 0, UNCHANGED <<present, link, linkEvents, failure>>
  PROVE  IInv'
<1>1. PICK system \in Openings("System", started + 1, Reports) :
      \E microphone \in Openings("Microphone", started + 1, system.left) :
        /\ source' = [k \in Kinds |-> IF k = "System" THEN system.as ELSE microphone.as]
        /\ reports' = microphone.left
        /\ events' = system.event \o microphone.event
  BY DEF BothStart, StartBoth
<1>2. Reports \in 0 .. Reports
  BY BoundsAssumption
<1>3. /\ system.as \in Handles /\ system.left \in 0 .. Reports
      /\ system.event \in Seq(EventsOf(started + 1))
  BY <1>1, <1>2, OpeningIsTyped DEF Kinds
<1>4. PICK microphone \in Openings("Microphone", started + 1, system.left) :
        /\ source' = [k \in Kinds |-> IF k = "System" THEN system.as ELSE microphone.as]
        /\ reports' = microphone.left
        /\ events' = system.event \o microphone.event
  BY <1>1
<1>5. /\ microphone.as \in Handles /\ microphone.left \in 0 .. Reports
      /\ microphone.event \in Seq(EventsOf(started + 1))
  BY <1>3, <1>4, OpeningIsTyped DEF Kinds
<1>6. source' \in [Kinds -> Handles] /\ reports' \in 0 .. Reports
  BY <1>3, <1>4, <1>5
<1>7. session' = started + 1 /\ batch' = <<>> /\ due' = {} /\ retry' = [k \in Kinds |-> NoRetry]
  BY DEF BothStart
<1>8. events' \in Seq(EventsOf(session')) /\ batch' \in Seq(EventsOf(session'))
  BY <1>3, <1>4, <1>5, <1>7, ConcatProperties
<1>9. events' \in Seq(Events) /\ batch' \in Seq(Events)
  BY <1>7, <1>8 DEF EventsOf
<1>10. Delayed' /\ retry' \in [Kinds -> Delays]
  BY <1>7, NoRetryIsTyped DEF Delayed, Retries
<1>11. session' # 0 /\ session' \in 0 .. started'
  BY <1>7 DEF Meetings
<1>12. TypeOK'
  BY <1>6, <1>7, <1>9, <1>10, <1>11, BoundsAssumption
  DEF IInv, TypeOK, Handles, Delays, Meetings
<1>13. RetriesOnlyLost'
  BY <1>7 DEF RetriesOnlyLost
<1> QED BY <1>7, <1>8, <1>10, <1>11, <1>12, <1>13 DEF IInv, NoSessionMeansNothing, OfThisSession,
          EmptyElsewhere, ReceiverOfLink, FailsItsOwn

\* Sources are started for a new session, or none are left.
LEMMA StartSourcesKeeps ==
  ASSUME IInv, StartSources
  PROVE  IInv'
<1>1. /\ pc' = "collect" /\ started' = started + 1 /\ started + 1 \in Meetings /\ link = 0
      /\ UNCHANGED <<present, link, linkEvents, failure>>
  BY BoundsAssumption DEF StartSources, Goto, IInv, TypeOK, Meetings, linkVars
<1>2. CASE BothStart
  BY <1>1, <1>2, BothStartKeeps
<1>3. CASE ForgetSources
  <2>1. /\ session' = 0
        /\ source' \in [Kinds -> Handles] /\ reports' \in 0 .. Reports
        /\ events' = <<>> /\ batch' = <<>> /\ due' = {}
        /\ SInv'
    BY <1>3, ForgetKeeps
  <2>2. /\ session' \in 0 .. started' /\ started' \in 0 .. MaxGeneration
        /\ events' \in Seq(Events) /\ batch' \in Seq(Events) /\ due' \subseteq Kinds
        /\ retry' \in [Kinds -> Delays]
    BY <1>1, <2>1, BoundsAssumption DEF Meetings, SInv, Delayed, Retries
  <2>3. TypeOK'
    BY <1>1, <2>1, <2>2 DEF IInv, TypeOK, Handles, Delays
  <2> QED BY <1>1, <2>1, <2>3 DEF IInv, SInv, ReceiverOfLink, FailsItsOwn
<1> QED BY <1>2, <1>3 DEF StartSources, BothStart

\* The link is that of the session, and so is its receiver.
LEMMA LinkRequestKeeps ==
  ASSUME IInv, Timeout \/ StartLink \/ End
  PROVE  IInv'
<1>1. /\ pc' = "collect" /\ pc = "request"
      /\ UNCHANGED <<session, started, source, reports, events, present, batch, due, retry,
                     failure>>
  BY DEF Timeout, StartLink, End, At, Goto, sourceVars, turnVars
<1>2. /\ link' \in 0 .. MaxGeneration
      /\ linkEvents' \in [of : 0 .. MaxGeneration, error : BOOLEAN]
      /\ ReceiverOfLink'
  <2>1. session \in 0 .. MaxGeneration /\ 0 \in 0 .. MaxGeneration
    BY BoundsAssumption DEF IInv, TypeOK
  <2>2. CASE Timeout
    BY <2>2 DEF Timeout, linkVars, IInv, TypeOK, ReceiverOfLink
  <2>3. CASE StartLink
    BY <2>1, <2>3 DEF StartLink, ReceiverOfLink
  <2>4. CASE End
    BY <2>1, <2>4 DEF End, IInv, TypeOK, ReceiverOfLink
  <2> QED BY <2>2, <2>3, <2>4
<1>3. TypeOK'
  BY <1>1, <1>2 DEF IInv, TypeOK
<1> QED BY <1>1, <1>2, <1>3 DEF IInv, NoSessionMeansNothing, OfThisSession, EmptyElsewhere,
          Delayed, RetriesOnlyLost, FailsItsOwn

LEMMA StopRequestKeeps ==
  ASSUME IInv, StopSources \/ Shutdown
  PROVE  IInv'
<1>1. /\ ForgetSources /\ pc' \in Places
      /\ UNCHANGED <<started, present, failure>>
  BY DEF StopSources, Shutdown, CloseSession, Goto, Places
<1>2. /\ session' = 0
      /\ source' \in [Kinds -> Handles] /\ reports' \in 0 .. Reports
      /\ events' = <<>> /\ batch' = <<>> /\ due' = {}
      /\ SInv'
  BY <1>1, ForgetKeeps
<1>3. /\ link' \in 0 .. MaxGeneration
      /\ linkEvents' \in [of : 0 .. MaxGeneration, error : BOOLEAN]
      /\ ReceiverOfLink'
  <2>1. 0 \in 0 .. MaxGeneration
    BY BoundsAssumption
  <2>2. CASE StopSources
    BY <2>2 DEF StopSources, linkVars, IInv, TypeOK, ReceiverOfLink
  <2>3. CASE Shutdown
    <3>1. link' = 0 /\ linkEvents' = NoReceiver
      BY <2>3 DEF Shutdown, CloseSession
    <3> QED BY <2>1, <3>1 DEF NoReceiver, ReceiverOfLink
  <2> QED BY <2>2, <2>3
<1>4. /\ session' \in 0 .. started' /\ retry' \in [Kinds -> Delays]
      /\ events' \in Seq(Events) /\ batch' \in Seq(Events) /\ due' \subseteq Kinds
  BY <1>1, <1>2, BoundsAssumption DEF IInv, TypeOK, SInv, Delayed, Retries
<1>5. TypeOK'
  BY <1>1, <1>2, <1>3, <1>4 DEF IInv, TypeOK, Places, Handles, Delays
<1> QED BY <1>1, <1>2, <1>3, <1>5 DEF IInv, SInv, FailsItsOwn

-----------------------------------------------------------------------------
(* A turn *)

\* The first of the events collected, when there is one, is the session's.
LEMMA FirstIsOfSession ==
  ASSUME IInv, batch # <<>>
  PROVE  /\ session \in Meetings
         /\ First \in EventsOf(session)
         /\ Tail(batch) \in Seq(EventsOf(session))
<1>1. session # 0
  BY DEF IInv, NoSessionMeansNothing
<1>2. session \in Meetings
  BY <1>1, BoundsAssumption DEF IInv, TypeOK, Meetings
<1> QED BY <1>2, HeadTailProperties DEF IInv, OfThisSession, First

\* A step that rebuilds a source of the session.
LEMMA RebuildStepKeeps ==
  ASSUME IInv, session # 0, NEW k \in Kinds, Rebuild(k),
         batch' \in Seq(EventsOf(session)), pc # "batch" => batch' = <<>>,
         due' = due \ {k},
         UNCHANGED <<pc, session, started, present, link, linkEvents, failure>>
  PROVE  IInv'
<1>1. /\ source' \in [Kinds -> Handles] /\ reports' \in 0 .. Reports
      /\ events' \in Seq(EventsOf(session))
      /\ Delayed'
      /\ \A j \in Kinds \ {k} : source'[j] = source[j] /\ retry'[j] = retry[j]
      /\ \/ source'[k].handle = "up" /\ retry'[k] = NoRetry
         \/ source'[k].handle = "down" /\ retry'[k] # NoRetry
  BY RebuildKeeps DEF IInv
<1>2. /\ events' \in Seq(Events) /\ batch' \in Seq(Events) /\ due' \subseteq Kinds
      /\ retry' \in [Kinds -> Delays]
  BY <1>1 DEF EventsOf, IInv, TypeOK, Delayed, Retries
<1>3. TypeOK'
  BY <1>1, <1>2 DEF IInv, TypeOK, Handles, Delays
<1>4. RetriesOnlyLost'
  <2>1. ASSUME NEW j \in Kinds, retry'[j] # NoRetry \/ j \in due'
        PROVE  source'[j].handle = "down"
    <3>1. CASE j = k
      BY <1>1, <2>1, <3>1
    <3>2. CASE j # k
      BY <1>1, <2>1, <3>2 DEF IInv, RetriesOnlyLost
    <3> QED BY <3>1, <3>2
  <2> QED BY <2>1 DEF RetriesOnlyLost
<1>5. EmptyElsewhere'
  BY DEF IInv, EmptyElsewhere
<1> QED BY <1>1, <1>3, <1>4, <1>5 DEF IInv, NoSessionMeansNothing, OfThisSession, ReceiverOfLink,
          FailsItsOwn

LEMMA HandleRebuildKeeps ==
  ASSUME IInv, HandleRebuild
  PROVE  IInv'
<1>1. /\ pc = "batch" /\ batch # <<>> /\ UNCHANGED <<started, present>>
  BY DEF HandleRebuild, At
<1>2. /\ session \in Meetings /\ session # 0
      /\ First.kind \in Kinds /\ First.of = session
      /\ Tail(batch) \in Seq(EventsOf(session))
  BY <1>1, FirstIsOfSession DEF EventsOf, Events, Meetings
<1>3. CASE /\ Rebuild(First.kind) /\ batch' = Tail(batch)
           /\ UNCHANGED <<pc, session, due, linkVars, failure>>
  <2>1. due' = due \ {First.kind}
    BY <1>1, <1>3 DEF IInv, EmptyElsewhere
  <2> QED BY <1>1, <1>2, <1>3, <2>1, RebuildStepKeeps DEF linkVars
<1>4. CASE FailSession(First.of) /\ Goto("link")
  <2>1. pc' \in Places /\ First.of \in 0 .. MaxGeneration
    BY <1>2, <1>4 DEF Goto, Places, Meetings
  <2> QED BY <1>1, <1>2, <1>4, <2>1, FailKeeps
<1> QED BY <1>3, <1>4 DEF HandleRebuild

LEMMA HandleErrorKeeps ==
  ASSUME IInv, HandleError
  PROVE  IInv'
<1>1. /\ batch # <<>> /\ UNCHANGED <<started, present>>
      /\ FailSession(First.of) /\ pc' \in Places
  BY DEF HandleError, Goto, Places
<1>2. First.of = session /\ First.of \in 0 .. MaxGeneration
  BY <1>1, FirstIsOfSession DEF EventsOf, Meetings
<1> QED BY <1>1, <1>2, FailKeeps

LEMMA HandleStartedKeeps ==
  ASSUME IInv, HandleStarted
  PROVE  IInv'
<1>1. /\ pc = "batch" /\ batch # <<>> /\ batch' = Tail(batch)
      /\ retry' = [retry EXCEPT ![First.kind] = NoRetry]
      /\ UNCHANGED <<pc, session, started, source, reports, events, present, due, link,
                     linkEvents, failure>>
  BY DEF HandleStarted, ClearRebuild, At, sourceVars, linkVars
<1>2. /\ session \in Meetings /\ session # 0 /\ First.kind \in Kinds
      /\ batch' \in Seq(EventsOf(session)) /\ batch' \in Seq(Events)
  <2>1. /\ session \in Meetings /\ session # 0
        /\ batch' \in Seq(EventsOf(session)) /\ First.kind \in Kinds
    BY <1>1, FirstIsOfSession DEF EventsOf, Events, Meetings
  <2>2. batch' \in Seq(Events)
    BY <1>1, HeadTailProperties DEF IInv, TypeOK
  <2> QED BY <2>1, <2>2
<1>3. Delayed' /\ retry' \in [Kinds -> Delays]
  BY <1>1, NoRetryIsTyped DEF IInv, Delayed, Retries
<1>4. TypeOK'
  BY <1>1, <1>2, <1>3 DEF IInv, TypeOK, Delays
<1>5. RetriesOnlyLost'
  BY <1>1 DEF IInv, RetriesOnlyLost, Delayed
<1> QED BY <1>1, <1>2, <1>3, <1>4, <1>5 DEF IInv, NoSessionMeansNothing, OfThisSession,
          EmptyElsewhere, ReceiverOfLink, FailsItsOwn

LEMMA RetryKeeps ==
  ASSUME IInv, NEW k \in Kinds, Retry(k)
  PROVE  IInv'
<1>1. pc = "due" /\ k \in due /\ UNCHANGED <<started, present>>
  BY DEF Retry, At
<1>2. session # 0 /\ session \in 0 .. MaxGeneration
  BY <1>1, BoundsAssumption DEF IInv, NoSessionMeansNothing, TypeOK
<1>3. CASE Rebuild(k) /\ due' = due \ {k} /\ UNCHANGED <<pc, session, batch, linkVars, failure>>
  <2>1. batch' \in Seq(EventsOf(session)) /\ batch' = <<>>
    BY <1>1, <1>3 DEF IInv, OfThisSession, EmptyElsewhere
  <2> QED BY <1>1, <1>2, <1>3, <2>1, RebuildStepKeeps DEF linkVars
<1>4. CASE FailSession(session) /\ Goto("link")
  <2>1. pc' \in Places
    BY <1>4 DEF Goto, Places
  <2> QED BY <1>1, <1>2, <1>4, <2>1, FailKeeps
<1> QED BY <1>3, <1>4 DEF Retry

\* The steps between the places of a turn.
LEMMA MoveKeeps ==
  ASSUME IInv, Collect \/ FindDue \/ DueDone
  PROVE  IInv'
<1>1. UNCHANGED <<session, started, source, reports, present, retry, link, linkEvents, failure>>
  BY DEF Collect, FindDue, DueDone, sourceVars, turnVars, linkVars
<1>2. CASE Collect
  <2>1. pc = "collect" /\ pc' = "batch" /\ batch' = events /\ events' = <<>> /\ due' = due
    BY <1>2 DEF Collect, At, Goto
  <2>2. TypeOK' /\ OfThisSession'
    BY <1>1, <2>1 DEF IInv, TypeOK, OfThisSession
  <2> QED BY <1>1, <2>1, <2>2 DEF IInv, NoSessionMeansNothing, EmptyElsewhere, Delayed,
            RetriesOnlyLost, ReceiverOfLink, FailsItsOwn
<1>3. CASE FindDue
  <2>1. /\ pc = "batch" /\ pc' = "due" /\ batch = <<>> /\ batch' = batch /\ events' = events
        /\ due' = {k \in Kinds : retry[k] # NoRetry /\ retry[k].left = 0}
    BY <1>3 DEF FindDue, At, Goto, sourceVars
  <2>2. TypeOK' /\ OfThisSession'
    BY <1>1, <2>1 DEF IInv, TypeOK, OfThisSession
  <2>3. NoSessionMeansNothing' /\ RetriesOnlyLost'
    BY <1>1, <2>1 DEF IInv, NoSessionMeansNothing, RetriesOnlyLost
  <2> QED BY <1>1, <2>1, <2>2, <2>3 DEF IInv, EmptyElsewhere, Delayed, ReceiverOfLink, FailsItsOwn
<1>4. CASE DueDone
  <2>1. /\ pc = "due" /\ pc' = "link" /\ due = {} /\ due' = due /\ batch' = batch
        /\ events' = events
    BY <1>4 DEF DueDone, At, Goto, sourceVars, turnVars
  <2>2. TypeOK' /\ OfThisSession'
    BY <1>1, <2>1 DEF IInv, TypeOK, OfThisSession
  <2> QED BY <1>1, <2>1, <2>2 DEF IInv, NoSessionMeansNothing, EmptyElsewhere, Delayed,
            RetriesOnlyLost, ReceiverOfLink, FailsItsOwn
<1> QED BY <1>2, <1>3, <1>4

\* The ERROR of a link that is still there is its own meeting's.
LEMMA ReadLinkKeeps ==
  ASSUME IInv, ReadLink
  PROVE  IInv'
<1>1. pc = "link" /\ pc' = "request" /\ pc' \in Places /\ UNCHANGED <<started, present>>
  BY DEF ReadLink, At, Goto, Places
<1>2. CASE linkEvents.error
  <2>1. FailSession(linkEvents.of)
    BY <1>2 DEF ReadLink
  <2>2. /\ linkEvents.of \in 0 .. MaxGeneration
        /\ session # 0 /\ link = session => linkEvents.of = session
    BY DEF IInv, TypeOK, ReceiverOfLink
  <2> QED BY <1>1, <2>1, <2>2, FailKeeps
<1>3. CASE ~linkEvents.error
  <2>1. UNCHANGED <<session, source, reports, events, batch, due, retry, link, linkEvents, failure>>
    BY <1>3 DEF ReadLink, sourceVars, turnVars, linkVars
  <2> QED BY <1>1, <2>1 DEF IInv, TypeOK, Places, NoSessionMeansNothing, OfThisSession,
            EmptyElsewhere, Delayed, ReceiverOfLink, RetriesOnlyLost, FailsItsOwn
<1> QED BY <1>2, <1>3

-----------------------------------------------------------------------------
(* Invariance *)

LEMMA InitHolds == Init => IInv
<1> SUFFICES ASSUME Init PROVE IInv
  OBVIOUS
<1>1. /\ source \in [Kinds -> Handles] /\ retry \in [Kinds -> Delays] /\ Delayed
      /\ NoSessionMeansNothing
  BY NoRetryIsTyped DEF Init, NoSource, Handles, Delayed, Retries, NoSessionMeansNothing
<1>2. /\ events \in Seq(Events) /\ batch \in Seq(Events) /\ due \subseteq Kinds
      /\ OfThisSession
  BY DEF Init, OfThisSession
<1>3. /\ session \in 0 .. started /\ started \in 0 .. MaxGeneration
      /\ link \in 0 .. MaxGeneration /\ reports \in 0 .. Reports
      /\ linkEvents \in [of : 0 .. MaxGeneration, error : BOOLEAN]
      /\ failure \in [meeting : 0 .. MaxGeneration, cause : 0 .. MaxGeneration, linked : BOOLEAN]
  BY BoundsAssumption DEF Init, NoReceiver
<1>4. present \in [Kinds -> BOOLEAN] /\ pc = "request"
  BY DEF Init
<1>5. TypeOK
  BY <1>1, <1>2, <1>3, <1>4 DEF TypeOK, Handles, Delays
<1> QED BY <1>1, <1>2, <1>5 DEF IInv, Init, EmptyElsewhere, ReceiverOfLink, RetriesOnlyLost,
          FailsItsOwn

LEMMA StepKeeps == IInv /\ [Next]_vars => IInv'
<1> SUFFICES ASSUME IInv, [Next]_vars PROVE IInv'
  OBVIOUS
<1>1. CASE UNCHANGED vars
  BY <1>1 DEF vars, sourceVars, turnVars, linkVars, IInv, TypeOK, NoSessionMeansNothing,
              OfThisSession, EmptyElsewhere, Delayed, ReceiverOfLink, RetriesOnlyLost, FailsItsOwn
<1>2. CASE Request
  BY <1>2, StartSourcesKeeps, LinkRequestKeeps, StopRequestKeeps DEF Request
<1>3. CASE Turn
  BY <1>3, HandleRebuildKeeps, HandleErrorKeeps, HandleStartedKeeps, RetryKeeps, MoveKeeps,
     ReadLinkKeeps DEF Turn
<1>4. CASE Pass \/ LinkError \/ \E k \in Kinds : Plug(k)
  BY <1>4, OutsideKeeps
<1>5. CASE \E k \in Kinds : Disconnect(k) \/ Break(k)
  BY <1>5, ReportKeeps
<1> QED BY <1>1, <1>2, <1>3, <1>4, <1>5 DEF Next

\* IInv holds in every reachable state.
THEOREM Invariance == Spec => []IInv
BY InitHolds, StepKeeps, PTL DEF Spec

-----------------------------------------------------------------------------
(* Where the worker loses sight of a source *)

Awaited(k, queue) ==
  \E e \in ToSet(queue) : e.kind = k /\ e.type \in {"RebuildRequired", "Error"}

LEMMA AccountedParts ==
  ASSUME NEW k \in Kinds
  PROVE  Accounted(k) <=> \/ source[k].handle = "up" /\ source[k].stream = "live"
                          \/ retry[k] # NoRetry
                          \/ Awaited(k, events) \/ Awaited(k, batch)
BY Zenon DEF Accounted, Awaited

\* A queue keeps what it has when it grows, and only its first when it is read.
LEMMA AwaitedInConcat ==
  ASSUME NEW k \in Kinds, NEW m \in Meetings \cup {0},
         NEW one \in Seq(EventsOf(m)), NEW other \in Seq(EventsOf(m)),
         Awaited(k, one) \/ Awaited(k, other)
  PROVE  Awaited(k, one \o other)
<1>1. PICK e : /\ e \in ToSet(one) \/ e \in ToSet(other)
               /\ e.kind = k /\ e.type \in {"RebuildRequired", "Error"}
  BY DEF Awaited
<1>2. e \in ToSet(one \o other)
  <2>1. CASE e \in ToSet(one)
    <3>1. PICK i \in 1 .. Len(one) : e = one[i]
      BY <2>1 DEF ToSet
    <3>2. i \in 1 .. Len(one \o other) /\ (one \o other)[i] = e
      BY <3>1, ConcatProperties
    <3> QED BY <3>2, ConcatProperties DEF ToSet
  <2>2. CASE e \in ToSet(other)
    <3>1. PICK i \in 1 .. Len(other) : e = other[i]
      BY <2>2 DEF ToSet
    <3>2. i + Len(one) \in 1 .. Len(one \o other) /\ (one \o other)[i + Len(one)] = e
      BY <3>1, ConcatProperties
    <3> QED BY <3>2, ConcatProperties DEF ToSet
  <2> QED BY <1>1, <2>1, <2>2
<1> QED BY <1>1, <1>2 DEF Awaited

LEMMA AwaitedInTail ==
  ASSUME NEW k \in Kinds, NEW m \in Meetings \cup {0}, NEW queue \in Seq(EventsOf(m)),
         queue # <<>>, Awaited(k, queue)
  PROVE  \/ Head(queue).kind = k /\ Head(queue).type \in {"RebuildRequired", "Error"}
         \/ Awaited(k, Tail(queue))
<1>1. PICK i \in 1 .. Len(queue) :
        queue[i].kind = k /\ queue[i].type \in {"RebuildRequired", "Error"}
  BY DEF Awaited, ToSet
<1>2. CASE i = 1
  BY <1>1, <1>2
<1>3. CASE i # 1
  <2>1. i - 1 \in 1 .. Len(Tail(queue)) /\ Tail(queue)[i - 1] = queue[i]
    BY <1>1, <1>3, HeadTailProperties
  <2>2. queue[i] \in ToSet(Tail(queue))
    <3>1. Tail(queue) \in Seq(EventsOf(m))
      BY HeadTailProperties
    <3>2. DOMAIN Tail(queue) = 1 .. Len(Tail(queue))
      BY <3>1
    <3> QED BY <2>1, <3>2 DEF ToSet
  <2> QED BY <1>1, <2>2 DEF Awaited
<1> QED BY <1>2, <1>3

\* A source that has just been started is accounted for: it runs, or has said
\* that it is lost.
LEMMA OpeningIsKnown ==
  ASSUME NEW k \in Kinds, NEW m \in Meetings, NEW bound \in 0 .. Reports,
         NEW new \in Openings(k, m, bound), Starts(k)
  PROVE  \/ new.as.handle = "up" /\ new.as.stream = "live"
         \/ Awaited(k, new.event)
<1>1. new \in Opened(k, m, bound) /\ LossReported(new)
  BY DEF Openings
<1>2. PICK early \in Early(bound), stream \in {"live", "lost"} :
        new = [as |-> [handle |-> "up", stream |-> stream],
               event |-> Append(Sent(early, k, m), Event("Started", k, m)),
               left |-> bound - Len(early)]
  BY <1>1 DEF Opened
<1>3. CASE stream = "live"
  BY <1>2, <1>3
<1>4. CASE stream = "lost"
  <2>1. PICK i \in DOMAIN new.event : new.event[i].type = "RebuildRequired"
    BY <1>1, <1>2, <1>4 DEF LossReported
  <2>2. /\ Sent(early, k, m) \in Seq(EventsOf(m))
        /\ \A n \in DOMAIN Sent(early, k, m) : Sent(early, k, m)[n].kind = k
    BY EarlyIsTyped
  <2>3. Event("Started", k, m) \in EventsOf(m) /\ Event("Started", k, m).kind = k
    BY EventIsOf DEF EventTypes, Event
  <2>4. new.event[i].kind = k
    BY <1>2, <2>1, <2>2, <2>3, AppendProperties
  <2>5. new.event[i] \in ToSet(new.event)
    BY <2>1 DEF ToSet
  <2> QED BY <2>1, <2>4, <2>5 DEF Awaited
<1> QED BY <1>2, <1>3, <1>4

\* A rebuild leaves its own source and the other accounted for, but for what it
\* has taken from the batch.
LEMMA RebuildAccounts ==
  ASSUME IInv, session # 0, NEW k \in Kinds, Rebuild(k), NEW j \in Kinds,
         j = k \/ (Accounted(j) /\ (Awaited(j, batch) => Awaited(j, batch')))
  PROVE  Accounted(j)'
<1>1. session \in Meetings
  BY BoundsAssumption DEF IInv, TypeOK, Meetings
<1>2. PICK new \in Openings(k, session, reports) :
        /\ source' = [source EXCEPT ![k] = new.as]
        /\ events' = events \o new.event
  BY DEF Rebuild, Restart
<1>3. new.event \in Seq(EventsOf(session)) /\ events \in Seq(EventsOf(session))
  BY <1>1, <1>2, OpeningIsTyped DEF IInv, TypeOK, OfThisSession
<1>4. /\ \A i \in Kinds \ {k} : source'[i] = source[i] /\ retry'[i] = retry[i]
      /\ \/ source'[k].handle = "up" /\ retry'[k] = NoRetry
         \/ source'[k].handle = "down" /\ retry'[k] # NoRetry
  BY RebuildKeeps DEF IInv
<1>5. Accounted(j)' <=> \/ source'[j].handle = "up" /\ source'[j].stream = "live"
                        \/ retry'[j] # NoRetry
                        \/ Awaited(j, events') \/ Awaited(j, batch')
  BY Zenon DEF Accounted, Awaited
<1>6. CASE j = k
  <2>1. CASE Starts(k)
    <3>1. \/ new.as.handle = "up" /\ new.as.stream = "live"
          \/ Awaited(k, new.event)
      BY <1>1, <1>2, <2>1, OpeningIsKnown DEF IInv, TypeOK
    <3>2. source'[k] = new.as
      BY <1>2 DEF IInv, TypeOK
    <3>3. Awaited(k, new.event) => Awaited(k, events')
      BY <1>1, <1>2, <1>3, AwaitedInConcat
    <3> QED BY <1>5, <1>6, <3>1, <3>2, <3>3
  <2>2. CASE ~Starts(k)
    <3>1. new.as.handle = "down"
      BY <1>1, <1>2, <2>2, OpeningIsTyped DEF IInv, TypeOK
    <3>2. source'[k] = new.as
      BY <1>2 DEF IInv, TypeOK
    <3> QED BY <1>4, <1>5, <1>6, <3>1, <3>2
  <2> QED BY <2>1, <2>2
<1>7. CASE j # k
  <2>1. source'[j] = source[j] /\ retry'[j] = retry[j]
    BY <1>4, <1>7
  <2>2. Awaited(j, events) => Awaited(j, events')
    BY <1>1, <1>2, <1>3, AwaitedInConcat
  <2> QED BY <1>5, <1>7, <2>1, <2>2, AccountedParts
<1> QED BY <1>6, <1>7

\* The sources of a meeting that starts are accounted for.
LEMMA StartAccounts ==
  ASSUME IInv, BothStart, started + 1 \in Meetings, NEW k \in Kinds
  PROVE  Accounted(k)'
<1>1. PICK system \in Openings("System", started + 1, Reports) :
      \E microphone \in Openings("Microphone", started + 1, system.left) :
        /\ source' = [i \in Kinds |-> IF i = "System" THEN system.as ELSE microphone.as]
        /\ events' = system.event \o microphone.event
  BY DEF BothStart, StartBoth
<1>2. Reports \in 0 .. Reports /\ Starts("System") /\ Starts("Microphone")
  BY BoundsAssumption DEF BothStart, Kinds
<1>3. /\ system.left \in 0 .. Reports /\ system.event \in Seq(EventsOf(started + 1))
      /\ \/ system.as.handle = "up" /\ system.as.stream = "live"
         \/ Awaited("System", system.event)
  BY <1>1, <1>2, OpeningIsTyped, OpeningIsKnown DEF Kinds
<1>4. PICK microphone \in Openings("Microphone", started + 1, system.left) :
        /\ source' = [i \in Kinds |-> IF i = "System" THEN system.as ELSE microphone.as]
        /\ events' = system.event \o microphone.event
  BY <1>1
<1>5. /\ microphone.event \in Seq(EventsOf(started + 1))
      /\ \/ microphone.as.handle = "up" /\ microphone.as.stream = "live"
         \/ Awaited("Microphone", microphone.event)
  BY <1>2, <1>3, <1>4, OpeningIsTyped, OpeningIsKnown DEF Kinds
<1>6. Accounted(k)' <=> \/ source'[k].handle = "up" /\ source'[k].stream = "live"
                        \/ retry'[k] # NoRetry
                        \/ Awaited(k, events') \/ Awaited(k, batch')
  BY Zenon DEF Accounted, Awaited
<1>7. \/ source'[k].handle = "up" /\ source'[k].stream = "live"
      \/ Awaited(k, system.event) \/ Awaited(k, microphone.event)
  BY <1>3, <1>4, <1>5 DEF Kinds
<1> QED BY <1>3, <1>4, <1>5, <1>6, <1>7, AwaitedInConcat

\* Steps that leave what the account is made of.
LEMMA OthersAccount ==
  ASSUME IInv, NEW k \in Kinds, Accounted(k),
         UNCHANGED <<source, events, batch>>,
         retry[k] # NoRetry => retry'[k] # NoRetry
  PROVE  Accounted(k)'
<1>1. Accounted(k)' <=> \/ source'[k].handle = "up" /\ source'[k].stream = "live"
                        \/ retry'[k] # NoRetry
                        \/ Awaited(k, events') \/ Awaited(k, batch')
  BY Zenon DEF Accounted, Awaited
<1> QED BY <1>1, AccountedParts

LEMMA ReportAccounts ==
  ASSUME IInv, NEW j \in Kinds, Disconnect(j) \/ Break(j), NEW k \in Kinds, Accounted(k)
  PROVE  Accounted(k)'
<1>1. PICK type \in {"RebuildRequired", "Error"} : Report(type, j)
  BY DEF Disconnect, Break
<1>2. /\ source[j].handle = "up" /\ events' = Append(events, Event(type, j, session))
      /\ UNCHANGED <<batch, retry>>
  BY <1>1 DEF Report, Disconnect, Break, turnVars
<1>3. session \in Meetings
  <2>1. session # 0
    BY <1>2 DEF IInv, NoSessionMeansNothing, NoSource
  <2> QED BY <2>1, BoundsAssumption DEF IInv, TypeOK, Meetings
<1>4. /\ events \in Seq(EventsOf(session))
      /\ <<Event(type, j, session)>> \in Seq(EventsOf(session))
  BY <1>3, EventIsOf DEF IInv, OfThisSession, EventTypes
<1>5. events' = events \o <<Event(type, j, session)>>
  BY <1>2, <1>4
<1>6. Awaited(j, <<Event(type, j, session)>>)
  <2>1. Event(type, j, session) \in ToSet(<<Event(type, j, session)>>)
    BY DEF ToSet
  <2> QED BY <1>1, <2>1 DEF Awaited, Event
<1>7. Awaited(j, events') /\ (Awaited(k, events) => Awaited(k, events'))
  BY <1>3, <1>4, <1>5, <1>6, AwaitedInConcat
<1>8. Accounted(k)' <=> \/ source'[k].handle = "up" /\ source'[k].stream = "live"
                        \/ retry'[k] # NoRetry
                        \/ Awaited(k, events') \/ Awaited(k, batch')
  BY Zenon DEF Accounted, Awaited
<1>9. k # j => source'[k] = source[k]
  BY DEF Disconnect, Break, IInv, TypeOK
<1> QED BY <1>2, <1>7, <1>8, <1>9, AccountedParts

\* The one place: a Started clears a retry of its source.
Forgets(k) ==
  /\ pc = "batch" /\ batch # <<>>
  /\ First.type = "Started" /\ First.kind = k /\ retry[k] # NoRetry

LEMMA StartedAccounts ==
  ASSUME IInv, HandleStarted, NEW k \in Kinds, Accounted(k), ~Forgets(k)
  PROVE  Accounted(k)'
<1>1. /\ pc = "batch" /\ batch # <<>> /\ First.type = "Started" /\ batch' = Tail(batch)
      /\ retry' = [retry EXCEPT ![First.kind] = NoRetry]
      /\ UNCHANGED <<source, events>>
  BY DEF HandleStarted, ClearRebuild, At, sourceVars
<1>2. retry[k] # NoRetry => retry'[k] # NoRetry
  BY <1>1 DEF Forgets, IInv, TypeOK
<1>3. Awaited(k, batch) => Awaited(k, batch')
  <2>1. session \in Meetings /\ batch \in Seq(EventsOf(session))
    BY <1>1, FirstIsOfSession DEF IInv, OfThisSession
  <2> QED BY <1>1, <2>1, AwaitedInTail DEF First
<1>4. Accounted(k)' <=> \/ source'[k].handle = "up" /\ source'[k].stream = "live"
                        \/ retry'[k] # NoRetry
                        \/ Awaited(k, events') \/ Awaited(k, batch')
  BY Zenon DEF Accounted, Awaited
<1> QED BY <1>1, <1>2, <1>3, <1>4, AccountedParts

LEMMA HandleRebuildAccounts ==
  ASSUME IInv, HandleRebuild, session' # 0, NEW k \in Kinds, Accounted(k)
  PROVE  Accounted(k)'
<1>1. batch # <<>> /\ First.type = "RebuildRequired"
  BY DEF HandleRebuild
<1>2. /\ session \in Meetings /\ session # 0 /\ First.kind \in Kinds
      /\ batch \in Seq(EventsOf(session))
  BY <1>1, FirstIsOfSession DEF EventsOf, Events, Meetings, IInv, OfThisSession
<1>3. Rebuild(First.kind) /\ batch' = Tail(batch)
  BY DEF HandleRebuild, FailSession, CloseSession, ForgetSources
<1>4. k # First.kind /\ Awaited(k, batch) => Awaited(k, batch')
  BY <1>1, <1>2, <1>3, AwaitedInTail DEF First
<1> QED BY <1>2, <1>3, <1>4, RebuildAccounts

LEMMA CollectAccounts ==
  ASSUME IInv, Collect, NEW k \in Kinds, Accounted(k)
  PROVE  Accounted(k)'
<1>1. /\ batch = <<>> /\ batch' = events /\ UNCHANGED <<source, retry>>
  BY DEF Collect, At, IInv, EmptyElsewhere
<1>2. ~Awaited(k, batch)
  BY <1>1 DEF Awaited, ToSet
<1>3. Accounted(k)' <=> \/ source'[k].handle = "up" /\ source'[k].stream = "live"
                        \/ retry'[k] # NoRetry
                        \/ Awaited(k, events') \/ Awaited(k, batch')
  BY Zenon DEF Accounted, Awaited
<1> QED BY <1>1, <1>2, <1>3, AccountedParts

\* Within a session every step but that one keeps the account.
LEMMA StepAccounts ==
  ASSUME IInv, Next, session' # 0, NEW k \in Kinds,
         Accounted(k) \/ session' # session, ~Forgets(k)
  PROVE  Accounted(k)'
<1>1. CASE StartSources
  <2>1. BothStart
    BY <1>1 DEF StartSources, BothStart, ForgetSources
  <2>2. started + 1 \in Meetings
    BY <1>1, BoundsAssumption DEF StartSources, IInv, TypeOK, Meetings
  <2> QED BY <2>1, <2>2, StartAccounts
<1>2. CASE Timeout \/ StartLink \/ End \/ LinkError \/ FindDue \/ DueDone
           \/ \E j \in Kinds : Plug(j)
  <2>1. UNCHANGED <<session, source, events, batch, retry>>
    BY <1>2 DEF Timeout, StartLink, End, LinkError, FindDue, DueDone, Plug, sourceVars, turnVars
  <2> QED BY <2>1, OthersAccount
<1>3. CASE StopSources \/ Shutdown \/ HandleError
  BY <1>3 DEF StopSources, Shutdown, HandleError, FailSession, CloseSession, ForgetSources
<1>4. CASE ReadLink
  <2>1. UNCHANGED <<session, source, events, batch, retry>>
    BY <1>4 DEF ReadLink, FailSession, CloseSession, ForgetSources, sourceVars, turnVars
  <2> QED BY <2>1, OthersAccount
<1>5. CASE Pass
  <2>1. UNCHANGED <<session, source, events, batch>>
    BY <1>5 DEF Pass, sourceVars
  <2>2. retry[k] # NoRetry => retry'[k] # NoRetry
    BY <1>5, PassKeepsRetries DEF IInv
  <2> QED BY <2>1, <2>2, OthersAccount
<1>6. CASE \E j \in Kinds : Disconnect(j) \/ Break(j)
  <2>1. session' = session
    BY <1>6 DEF Disconnect, Break
  <2> QED BY <1>6, <2>1, ReportAccounts
<1>7. CASE Collect
  <2>1. session' = session
    BY <1>7 DEF Collect
  <2> QED BY <1>7, <2>1, CollectAccounts
<1>8. CASE HandleStarted
  <2>1. session' = session
    BY <1>8 DEF HandleStarted
  <2> QED BY <1>8, <2>1, StartedAccounts
<1>9. CASE HandleRebuild
  <2>1. session' = session
    BY <1>9 DEF HandleRebuild, FailSession, CloseSession, ForgetSources
  <2> QED BY <1>9, <2>1, HandleRebuildAccounts
<1>10. CASE \E j \in Kinds : Retry(j)
  <2>1. PICK j \in Kinds : Retry(j)
    BY <1>10
  <2>2. Rebuild(j) /\ UNCHANGED <<session, batch>>
    BY <2>1 DEF Retry, FailSession, CloseSession, ForgetSources
  <2> QED BY <2>2, RebuildAccounts
<1> QED BY <1>1, <1>2, <1>3, <1>4, <1>5, <1>6, <1>7, <1>8, <1>9, <1>10 DEF Next, Request, Turn

\* While a meeting runs, the worker loses sight of a source only where a Started
\* of that source clears a retry scheduled since.
THEOREM LostAtOnePlace == Spec => LostOnlyByStarted
<1>1. IInv /\ [Next]_vars =>
        [\A k \in Kinds :
           /\ session' # 0 /\ ~Accounted(k)'
           /\ Accounted(k) \/ session' # session
           => /\ pc = "batch" /\ batch # <<>>
              /\ First.type = "Started" /\ First.kind = k /\ retry[k] # NoRetry]_vars
  BY StepAccounts DEF Forgets
<1> QED BY <1>1, Invariance, PTL DEF Spec, LostOnlyByStarted

-----------------------------------------------------------------------------
(* The theorems *)

\* Every variable keeps its type.
THEOREM TypeCorrect == Spec => []TypeOK
<1>1. IInv => TypeOK
  BY DEF IInv
<1> QED BY <1>1, Invariance, PTL

\* Every source event the worker will read belongs to the session it has.
THEOREM EventsOfSession == Spec => []OfThisSession
<1>1. IInv => OfThisSession
  BY DEF IInv
<1> QED BY <1>1, Invariance, PTL

\* A retry never stops a source that has come back.
THEOREM RetriedWhenLost == Spec => []RetriesOnlyLost
<1>1. IInv => RetriesOnlyLost
  BY DEF IInv
<1> QED BY <1>1, Invariance, PTL

\* A meeting that streams is failed by its own sources and its own link.
THEOREM FailedByItsOwn == Spec => []FailsItsOwn
<1>1. IInv => FailsItsOwn
  BY DEF IInv
<1> QED BY <1>1, Invariance, PTL
=============================================================================
