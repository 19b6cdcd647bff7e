--------------------------- MODULE SidecarSession ---------------------------
(***************************************************************************)
(* One connection of the sidecar (`Session` in session.py) with the        *)
(* Deepgram result stream it reads (deepgram.py).                          *)
(*                                                                         *)
(* A single event loop runs the connection's main task, which handles one  *)
(* message at a time, and one pump task per START, which reads provider    *)
(* results and restarts the provider's stream when it resets.  An action   *)
(* is the code between two awaits.  Nothing stops a pump but a cancel, so  *)
(* a pump may outlive the meeting it was started for.                      *)
(*                                                                         *)
(* Audio is reduced to the meeting it was spoken in, one result per chunk; *)
(* offsets, the recorder (off unless LMA_RECORD_MEETING=1), the deletes of *)
(* stale partials and the stateless messages are left out.                 *)
(***************************************************************************)
EXTENDS Naturals, Sequences

CONSTANTS
  Meetings,        \* call ids
  Nothing,         \* no meeting
  MaxConsecutive,  \* resets in a row the reconnect policy forgives
  MaxStarts,       \* bound: START messages on the connection
  MaxAudio,        \* bound: chunks
  MaxFaults        \* bound: what the provider does wrong

ASSUME BoundsAssumption ==
  /\ MaxConsecutive \in Nat
  /\ MaxStarts \in Nat
  /\ MaxAudio \in Nat
  /\ MaxFaults \in Nat
ASSUME NothingAssumption == Nothing \notin Meetings

VARIABLES
  socket,      \* the client is still connected
  speaking,    \* the meeting the client has started and not ended
  starts, chunks, faults, \* counted for the bounds
  main,        \* the main task, and the stream and pump it is closing
  session,     \* the fields of the Session object
  streams,     \* every provider stream opened; 0 is None
  pumps,       \* every pump task; 0 is None
  status,      \* the meetings table
  transcript   \* transcript[m]: in which meetings the segments of m were spoken

clientVars == <<socket, speaking, starts, chunks>>
storeVars == <<status, transcript>>
vars == <<clientVars, faults, main, session, streams, pumps, storeVars>>

Streams == [closing : BOOLEAN, dead : BOOLEAN, due : Seq(Meetings)]
Pumps ==
  [pc : {"fresh", "reading", "backoff", "swapping", "done"},
   stream : Nat, spare : Nat, call : Meetings, barren : Nat]
Statuses == {"none", "RECORDING", "COMPLETED", "FAILED"}

TypeOK ==
  /\ socket \in BOOLEAN
  /\ speaking \in Meetings \cup {Nothing}
  /\ starts \in 0 .. MaxStarts
  /\ chunks \in 0 .. MaxAudio
  /\ faults \in 0 .. MaxFaults
  /\ main \in [pc : {"run", "closing", "draining", "starting", "done"},
               next : Meetings \cup {Nothing},
               stream : 0 .. Len(streams), pump : 0 .. Len(pumps)]
  /\ session \in [call : Meetings \cup {Nothing},
                  stream : 0 .. Len(streams), pump : 0 .. Len(pumps),
                  paused : BOOLEAN, reconnecting : BOOLEAN,
                  failures : 0 .. MaxConsecutive]
  /\ streams \in Seq(Streams)
  /\ pumps \in Seq(Pumps)
  /\ \A p \in DOMAIN pumps :
       pumps[p].stream \in DOMAIN streams /\ pumps[p].spare \in 0 .. Len(streams)
  /\ status \in [Meetings -> Statuses]
  /\ transcript \in [Meetings -> Seq(Meetings)]

Idle == [pc |-> "run", next |-> Nothing, stream |-> 0, pump |-> 0]

Init ==
  /\ socket = TRUE
  /\ speaking = Nothing
  /\ starts = 0 /\ chunks = 0 /\ faults = 0
  /\ main = Idle
  /\ session = [call |-> Nothing, stream |-> 0, pump |-> 0, paused |-> FALSE,
                reconnecting |-> FALSE, failures |-> 0]
  /\ streams = <<>>
  /\ pumps = <<>>
  /\ status = [m \in Meetings |-> "none"]
  /\ transcript = [m \in Meetings |-> <<>>]

Fault == faults < MaxFaults /\ faults' = faults + 1

-----------------------------------------------------------------------------
(* The provider's stream and the meetings table *)

NewStream == [closing |-> FALSE, dead |-> FALSE, due |-> <<>>]

Open(s) == s # 0 /\ ~streams[s].closing

\* close() is idempotent: the first call marks the stream, a later one returns.
Closing(s) == [streams EXCEPT ![s].closing = TRUE]
Closed(s) == [streams EXCEPT ![s].closing = TRUE, ![s].dead = TRUE]

\* An ended meeting stays FAILED; a meeting that has no row is not written.
Ended(m) == [status EXCEPT ![m] = IF @ = "RECORDING" THEN "COMPLETED" ELSE @]
Failed(m) == [status EXCEPT ![m] = IF @ = "none" THEN @ ELSE "FAILED"]

\* The provider's connection dies.
ProviderDies ==
  /\ Fault
  /\ \E s \in DOMAIN streams :
       ~streams[s].dead /\ streams' = [streams EXCEPT ![s].dead = TRUE]
  /\ UNCHANGED <<clientVars, main, session, pumps, storeVars>>

-----------------------------------------------------------------------------
(* The main task *)

Running == main.pc = "run"

\* The part of _start_session before it awaits the engine, or back to the loop.
Proceed(next, object) ==
  IF next = Nothing
    THEN main' = Idle /\ session' = object
    ELSE /\ main' = [Idle EXCEPT !.pc = "starting", !.next = next]
         /\ session' = [object EXCEPT !.call = next, !.paused = FALSE,
                                      !.reconnecting = FALSE]

\* _close_session takes the meeting out of the session before its first await.
Emptied == [session EXCEPT !.stream = 0, !.pump = 0, !.paused = FALSE]

\* Mutant of BeginClose: END is written before the stream is closed.
BeginCloseEnding(next) ==
  /\ session' = Emptied
  /\ main' = [pc |-> IF Open(session.stream) THEN "closing" ELSE "draining",
              next |-> next, stream |-> session.stream, pump |-> session.pump]
  /\ streams' = Closing(session.stream)
  /\ status' = Ended(session.call)

\* A stream that is being closed already is not closed again.
BeginClose(next) ==
  /\ session' = Emptied
  /\ main' = [pc |-> IF Open(session.stream) THEN "closing" ELSE "draining",
              next |-> next, stream |-> session.stream, pump |-> session.pump]
  /\ streams' = Closing(session.stream)
  /\ UNCHANGED status

\* _close_session(drain=True), which returns at once when it has nothing to
\* close, or nothing to wait for.
Close(next) ==
  IF session.pump = 0 /\ ~Open(session.stream)
    THEN Proceed(next, Emptied) /\ UNCHANGED <<streams, status>>
    ELSE BeginClose(next)

ReceiveStart(m) ==
  /\ Running /\ starts < MaxStarts
  /\ starts' = starts + 1
  /\ speaking' = m
  /\ Close(m)
  /\ UNCHANGED <<socket, chunks, faults, pumps, transcript>>

ReceiveEnd ==
  /\ Running /\ speaking # Nothing
  /\ speaking' = Nothing
  /\ Close(Nothing)
  /\ UNCHANGED <<socket, starts, chunks, faults, pumps, transcript>>

ReceivePause(paused) ==
  /\ Running /\ session.stream # 0
  /\ session.paused # paused
  /\ session' = [session EXCEPT !.paused = paused]
  /\ UNCHANGED <<clientVars, faults, main, streams, pumps, storeVars>>

\* Audio is discarded while paused, while reconnecting and by a dead stream.
Discards ==
  session.paused \/ session.reconnecting \/ streams[session.stream].dead

ReceiveAudio ==
  /\ Running /\ speaking # Nothing
  /\ session.stream # 0
  /\ chunks < MaxAudio
  /\ chunks' = chunks + 1
  /\ streams' = IF Discards THEN streams
                ELSE [streams EXCEPT ![session.stream].due = Append(@, speaking)]
  /\ UNCHANGED <<socket, speaking, starts, faults, main, session, pumps, storeVars>>

\* The client goes away, or a frame that may not be sent has it closed.  What
\* it sent before is still received.
Disconnect ==
  /\ socket
  /\ socket' = FALSE
  /\ UNCHANGED <<speaking, starts, chunks, faults, main, session, streams, pumps, storeVars>>

\* Mutant of Cancelled: a pump that misses the deadline is left alone.
CancelForgotten(p) == pumps

Cancelled(p) == [pumps EXCEPT ![p].pc = "done"]

\* A cancelled pump leaves through its finally clause.
AfterCancel(p, object) ==
  IF p # 0 /\ pumps[p].pc \in {"backoff", "swapping"}
    THEN [object EXCEPT !.reconnecting = FALSE]
    ELSE object

\* The provider answers the closing handshake.
CloseReturns ==
  /\ main.pc = "closing" /\ ~streams[main.stream].dead
  /\ streams' = Closed(main.stream)
  /\ IF main.pump = 0
       THEN Proceed(main.next, session)
       ELSE main' = [main EXCEPT !.pc = "draining"] /\ UNCHANGED session
  /\ UNCHANGED <<clientVars, faults, pumps, storeVars>>

\* On a dead connection close() raises: the pump is not waited for.
CloseRaises ==
  /\ main.pc = "closing" /\ streams[main.stream].dead
  /\ status' = IF main.pump = 0 THEN status ELSE Ended(session.call)
  /\ Proceed(main.next, session)
  /\ UNCHANGED <<clientVars, faults, streams, pumps, transcript>>

Drained ==
  /\ main.pc = "draining" /\ pumps[main.pump].pc = "done"
  /\ status' = Ended(session.call)
  /\ Proceed(main.next, session)
  /\ UNCHANGED <<clientVars, faults, streams, pumps, transcript>>

\* Mutant of DrainTimesOut: the drain has no deadline.
DrainWaitsOn == FALSE /\ UNCHANGED vars

\* wait_for cancels the pump that misses the deadline.
DrainTimesOut ==
  /\ main.pc = "draining" /\ pumps[main.pump].pc # "done"
  /\ pumps' = Cancelled(main.pump)
  /\ status' = Ended(session.call)
  /\ Proceed(main.next, AfterCancel(main.pump, session))
  /\ UNCHANGED <<clientVars, faults, streams, transcript>>

EngineStarts ==
  /\ main.pc = "starting"
  /\ streams' = Append(streams, NewStream)
  /\ pumps' = Append(pumps, [pc |-> "fresh", stream |-> Len(streams) + 1,
                             spare |-> 0, call |-> main.next, barren |-> 0])
  /\ session' = [session EXCEPT !.stream = Len(streams) + 1, !.pump = Len(pumps) + 1]
  /\ status' = [status EXCEPT ![main.next] = "RECORDING"]
  /\ main' = Idle
  /\ UNCHANGED <<clientVars, faults, transcript>>

\* shutdown: the pump is cancelled and the stream closed, without END.
Shutdown ==
  /\ session' = AfterCancel(session.pump, Emptied)
  /\ pumps' = IF session.pump = 0 THEN pumps ELSE Cancelled(session.pump)
  /\ streams' = IF Open(session.stream) THEN Closed(session.stream) ELSE streams
  /\ main' = [Idle EXCEPT !.pc = "done"]

\* The engine raises: the handler dies, and the socket is closed with 1011.
EngineFails ==
  /\ main.pc = "starting" /\ Fault
  /\ Shutdown
  /\ socket' = FALSE
  /\ UNCHANGED <<speaking, starts, chunks, storeVars>>

Leave ==
  /\ Running /\ ~socket
  /\ Shutdown
  /\ UNCHANGED <<clientVars, faults, storeVars>>

Main ==
  \/ CloseReturns \/ CloseRaises \/ Drained \/ DrainTimesOut
  \/ EngineStarts \/ EngineFails \/ Leave

Client ==
  \/ \E m \in Meetings : ReceiveStart(m)
  \/ ReceiveEnd
  \/ \E paused \in BOOLEAN : ReceivePause(paused)
  \/ ReceiveAudio
  \/ Disconnect

-----------------------------------------------------------------------------
(* The pump task p *)

At(p, pc) == pumps[p].pc = pc
Goto(p, pc) == pumps' = [pumps EXCEPT ![p].pc = pc]

\* Where __anext__ finds itself with stream s: it ends once s is closing.
Again(s) == IF streams[s].closing THEN "done" ELSE "reading"

Begins(p) ==
  /\ At(p, "fresh")
  /\ session' = [session EXCEPT !.failures = 0]
  /\ Goto(p, Again(pumps[p].stream))
  /\ UNCHANGED <<clientVars, faults, main, streams, storeVars>>

\* Mutant of Forgiven: results do not count as success.
NeverForgiven == session

Forgiven == [session EXCEPT !.failures = 0]

\* A result: written first, then sent; a failed send ends the pump.
Hears(p) ==
  LET s == pumps[p].stream
  IN  /\ At(p, "reading") /\ ~streams[s].dead /\ streams[s].due # <<>>
      /\ streams' = [streams EXCEPT ![s].due = Tail(@)]
      /\ transcript' = [transcript EXCEPT
                          ![pumps[p].call] = Append(@, Head(streams[s].due))]
      /\ session' = Forgiven
      /\ pumps' = [pumps EXCEPT ![p].pc = IF socket THEN Again(s) ELSE "done",
                                ![p].barren = 0]
      /\ UNCHANGED <<clientVars, faults, main, status>>

Exhausted == session.failures >= MaxConsecutive

\* A reset within the budget: tell the client, then wait.  A pending receive
\* fails when the connection is closed, by the session's own close() too.
Resets(p) ==
  /\ At(p, "reading")
  /\ IF streams[pumps[p].stream].dead THEN UNCHANGED faults ELSE Fault
  /\ ~Exhausted
  /\ session' = [session EXCEPT !.failures = @ + 1, !.reconnecting = socket]
  /\ pumps' = [pumps EXCEPT ![p].pc = IF socket THEN "backoff" ELSE "done",
                            ![p].barren = @ + 1]
  /\ UNCHANGED <<clientVars, main, streams, storeVars>>

\* _fail_meeting, for whichever meeting the session is in.
FailsMeeting(p) ==
  /\ At(p, "reading")
  /\ IF streams[pumps[p].stream].dead THEN UNCHANGED faults ELSE Fault
  /\ Exhausted
  /\ status' = Failed(session.call)
  /\ socket' = FALSE
  /\ session' = [session EXCEPT !.reconnecting = FALSE]
  /\ pumps' = [pumps EXCEPT ![p].pc = "done", ![p].barren = @ + 1]
  /\ UNCHANGED <<speaking, starts, chunks, main, streams, transcript>>

\* Mutant of RestartFails: the finally clause is missing.
RestartFailsForgetting(p) ==
  /\ At(p, "backoff") /\ Fault
  /\ Goto(p, Again(pumps[p].stream))
  /\ UNCHANGED <<clientVars, main, session, streams, storeVars>>

\* The engine does not start: back to the old stream.
RestartFails(p) ==
  /\ At(p, "backoff") /\ Fault
  /\ Goto(p, Again(pumps[p].stream))
  /\ session' = [session EXCEPT !.reconnecting = FALSE]
  /\ UNCHANGED <<clientVars, main, streams, storeVars>>

\* Mutant of Installed: only the pump changes streams.
InstalledInPump(s) == [session EXCEPT !.reconnecting = FALSE]

\* The pump's new stream becomes the session's, whatever became of the session.
Installed(s) == [session EXCEPT !.stream = s, !.reconnecting = FALSE]

Reads(p, s) ==
  pumps' = [pumps EXCEPT ![p].pc = "reading", ![p].stream = s, ![p].spare = 0]

\* The engine starts: the old stream is closed before the new one is installed.
Restarts(p) ==
  LET old == pumps[p].stream
      new == Len(streams) + 1
  IN  /\ At(p, "backoff")
      /\ streams' = Append(Closing(old), NewStream)
      /\ IF Open(old)
           THEN /\ pumps' = [pumps EXCEPT ![p].pc = "swapping", ![p].spare = new]
                /\ UNCHANGED session
           ELSE Reads(p, new) /\ session' = Installed(new)
      /\ UNCHANGED <<clientVars, faults, main, storeVars>>

Swaps(p) ==
  /\ At(p, "swapping")
  /\ streams' = Closed(pumps[p].stream)
  /\ Reads(p, pumps[p].spare)
  /\ session' = Installed(pumps[p].spare)
  /\ UNCHANGED <<clientVars, faults, main, storeVars>>

\* An unexpected error, from the provider or the database, ends the pump alone.
GivesUp(p) ==
  /\ pumps[p].pc \in {"reading", "backoff"} /\ Fault
  /\ Goto(p, "done")
  /\ session' = AfterCancel(p, session)
  /\ UNCHANGED <<clientVars, main, streams, storeVars>>

Pump(p) ==
  \/ Begins(p) \/ Hears(p) \/ Resets(p) \/ FailsMeeting(p)
  \/ RestartFails(p) \/ Restarts(p) \/ Swaps(p) \/ GivesUp(p)

-----------------------------------------------------------------------------
Next == Client \/ Main \/ ProviderDies \/ \E p \in DOMAIN pumps : Pump(p)

Spec == Init /\ [][Next]_vars

\* An await of the session's own making ends: an engine starts or fails, a
\* closing handshake is answered, sleeps and the drain's deadline elapse, a
\* closed socket is noticed.  No client owes a message, no provider a result.
FairSpec ==
  /\ Spec
  /\ WF_vars(Main)
  /\ \A p \in 1 .. MaxStarts :
       WF_vars(p \in DOMAIN pumps /\ (Begins(p) \/ RestartFails(p) \/ Restarts(p) \/ Swaps(p)))

-----------------------------------------------------------------------------
(* Properties *)

\* Audio is fed to the stream that is read: across resets and restarts the
\* session's stream and the pump's are the same, unless a swap is under way.
AudioGoesWhereItIsRead ==
  (session.pump # 0 /\ pumps[session.pump].pc \in {"fresh", "reading", "backoff"})
    => session.stream = pumps[session.pump].stream

\* Nothing is added to the transcript of a meeting that ended or failed.
EndedTranscriptIsFinal ==
  [][\A m \in Meetings :
       transcript'[m] # transcript[m] => status[m] = "RECORDING"]_vars

\* The budget of the code: a meeting fails only after more than MaxConsecutive
\* resets of its own provider with no result between them, over failed and
\* successful restarts.  A stream that lasts without a result earns nothing here;
\* the documents say that it does (ResetPolicy).
FailsAfterBarrenResets ==
  [][\A m \in Meetings :
       (status'[m] = "FAILED" /\ status[m] # "FAILED")
         => \E p \in DOMAIN pumps' :
              pumps'[p].call = m /\ pumps'[p].barren > MaxConsecutive]_vars

\* The transcript of a meeting holds only what was spoken in it.
TranscriptOfItsMeeting ==
  \A m \in Meetings : \A i \in DOMAIN transcript[m] : transcript[m][i] = m

\* A meeting whose END was received is finalized in the end.
EndFinalizes ==
  \A m \in Meetings :
    (main.pc \in {"closing", "draining"} /\ main.pump # 0 /\ session.call = m)
      ~> status[m] \in {"COMPLETED", "FAILED"}

\* A reset never leaves the session discarding audio for ever.
ReconnectingEnds == session.reconnecting ~> ~session.reconnecting

=============================================================================
