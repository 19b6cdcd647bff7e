---------------------------- MODULE MeetingStore ----------------------------
(***************************************************************************)
(* The rows of one meeting in lma.db, across reconnects of the link,       *)
(* resets of the provider, crashes of the sidecar and a deletion by the    *)
(* shell: what each session of the sidecar (session.py, with writers.py    *)
(* and crash_recovery.py) writes of it and at which time offset.           *)
(*                                                                         *)
(* Each connection of the link has a Session of its own, and the sidecar   *)
(* notices that a connection is gone only some time after the link does.   *)
(* Time is counted in chunks.  A segment is what was heard of a provider's *)
(* stream between two finals; its text, speaker and channel are left out,  *)
(* and the pauses.  A restart of the provider that fails is time spent in  *)
(* its backoff.                                                            *)
(***************************************************************************)
EXTENDS Integers, FiniteSets, FiniteSetsExt

CONSTANTS
  Capacity,     \* of the link's ReconnectBuffer, in chunks
  MaxConsecutive,  \* resets in a row the reconnect policy forgives
  MaxSessions,  \* bound: connections that send START
  MaxStreams,   \* bound: streams of the provider
  MaxRuns,      \* bound: starts of the sidecar
  MaxTime,      \* bound: chunks spoken
  MaxDeletions  \* bound: deletions of the meeting

ASSUME BoundsAssumption ==
  /\ Capacity \in Nat /\ MaxConsecutive \in Nat
  /\ MaxSessions \in Nat /\ MaxStreams \in Nat
  /\ MaxRuns \in Nat /\ MaxTime \in Nat /\ MaxDeletions \in Nat

VARIABLES
  up, runs,     \* the sidecar runs, and how often it was started
  time,         \* chunks spoken
  streams,      \* streams opened
  speaking,     \* the shell has not ended the meeting
  connection,   \* the session the link is connected to, 0 if none
  waiting,      \* chunks on their way: in the link's buffer or its socket
  sessions,     \* the Session of each connection
  pending,      \* PendingDeletes of this run
  row,          \* of the meetings table
  segments,     \* of the segments table
  deletions,    \* deletions by the shell
  lost,         \* history: stale partials whose deletion was never carried out
  erased        \* history: segments the shell has deleted

clientVars == <<time, speaking, connection, waiting>>
tableVars == <<row, segments>>
pastVars == <<deletions, lost, erased>>
vars == <<up, runs, clientVars, streams, sessions, pending, tableVars, pastVars>>

Ids == (1 .. MaxStreams) \X (0 .. MaxTime)
Sessions == 1 .. MaxSessions
Times == 0 .. MaxTime * (MaxStreams + 1)
Unused ==
  [pc |-> "unused", deletes |-> {}, stream |-> 0, offset |-> 0, elapsed |-> 0,
   fed |-> 0, heard |-> 0, finals |-> 0, failures |-> 0, alone |-> TRUE]
NoRow == [status |-> "none", offset |-> 0]

TypeOK ==
  /\ up \in BOOLEAN /\ runs \in 0 .. MaxRuns
  /\ time \in 0 .. MaxTime /\ streams \in 0 .. MaxStreams
  /\ speaking \in BOOLEAN
  /\ connection \in 0 .. MaxSessions
  /\ waiting \in 0 .. MaxTime
  /\ sessions \in [Sessions ->
       [pc : {"unused", "deleting", "reading", "backoff", "draining", "deaf", "gone"},
        deletes : SUBSET Ids, stream : 0 .. streams, offset : Times,
        elapsed : 0 .. MaxTime, fed : 0 .. MaxTime, heard : 0 .. MaxTime,
        finals : 0 .. MaxTime, failures : 0 .. MaxConsecutive, alone : BOOLEAN]]
  /\ pending \subseteq Ids
  /\ row \in [status : {"none", "RECORDING", "COMPLETED", "FAILED"}, offset : Times]
  /\ \A s \in segments :
       s \in [id : Ids, session : Sessions, start : Times, end : Times, partial : {0, 1, -1}]
  /\ deletions \in 0 .. MaxDeletions
  /\ lost \subseteq Ids /\ erased \subseteq Ids

Init ==
  /\ up = FALSE /\ runs = 0
  /\ time = 0 /\ streams = 0
  /\ speaking = TRUE /\ connection = 0 /\ waiting = 0
  /\ sessions = [c \in Sessions |-> Unused]
  /\ pending = {}
  /\ row = NoRow /\ segments = {}
  /\ deletions = 0 /\ lost = {} /\ erased = {}

At(c, pcs) == sessions[c].pc \in pcs
Goto(c, pc) == sessions' = [sessions EXCEPT ![c].pc = pc]
Gone == [c \in Sessions |->
          IF At(c, {"unused"}) THEN Unused
          ELSE [Unused EXCEPT !.pc = "gone", !.alone = sessions[c].alone]]
Alive == {c \in Sessions : ~At(c, {"unused", "gone"})}
Undone == UNION {sessions[c].deletes : c \in Sessions}

-----------------------------------------------------------------------------
(* The sidecar's process *)

\* Mutant of Boot: the sweep tells nobody.
BootForgetting ==
  /\ ~up /\ runs < MaxRuns
  /\ up' = TRUE /\ runs' = runs + 1
  /\ segments' = IF row.status # "RECORDING" THEN segments
                 ELSE {[s EXCEPT !.partial = IF @ = 1 THEN -1 ELSE @] : s \in segments}
  /\ pending' = {}
  /\ UNCHANGED <<clientVars, streams, sessions, row, pastVars>>

\* main: sweep_stale_partials, of meetings that were being recorded.
Boot ==
  /\ ~up /\ runs < MaxRuns
  /\ up' = TRUE /\ runs' = runs + 1
  /\ LET stale == IF row.status = "RECORDING" THEN {s \in segments : s.partial = 1} ELSE {}
     IN  /\ segments' = (segments \ stale) \cup {[s EXCEPT !.partial = -1] : s \in stale}
         /\ pending' = {s.id : s \in stale}
  /\ UNCHANGED <<clientVars, streams, sessions, row, pastVars>>

\* The process dies, or is told to stop: no session writes END.
Exit ==
  /\ up /\ up' = FALSE
  /\ connection' = 0
  /\ sessions' = Gone
  /\ pending' = {}
  /\ lost' = lost \cup pending \cup Undone
  /\ UNCHANGED <<runs, time, speaking, waiting, streams, tableVars, deletions, erased>>

-----------------------------------------------------------------------------
(* The link and the clock *)

Least(a, b) == IF a < b THEN a ELSE b

\* A chunk of time passes; the microphone never rests.
Tick ==
  /\ time < MaxTime /\ time' = time + 1
  /\ waiting' = IF ~speaking THEN 0
                ELSE IF connection = 0 THEN Least(waiting + 1, Capacity) ELSE waiting + 1
  /\ sessions' = [c \in Sessions |->
       IF At(c, {"reading", "backoff", "draining", "deaf"})
         THEN [sessions[c] EXCEPT !.elapsed = @ + 1] ELSE sessions[c]]
  /\ UNCHANGED <<up, runs, speaking, connection, streams, pending, tableVars, pastVars>>

\* The link connects and sends START: the pending deletes are this session's.
Start(c) ==
  /\ up /\ speaking /\ connection = 0
  /\ At(c, {"unused"}) /\ \A d \in 1 .. c - 1 : ~At(d, {"unused"})
  /\ connection' = c
  /\ sessions' = [sessions EXCEPT ![c].pc = "deleting", ![c].deletes = pending]
  /\ pending' = {}
  /\ UNCHANGED <<up, runs, time, speaking, waiting, streams, tableVars, pastVars>>

\* The link loses its connection.
Drop ==
  /\ connection # 0
  /\ connection' = 0
  /\ UNCHANGED <<up, runs, time, speaking, waiting, streams, sessions, pending, tableVars,
                 pastVars>>

\* The sidecar notices, or a send of the session fails: shutdown, without END.
\* While it awaits the engine, a session notices nothing.
Notice(c) ==
  /\ c \in Alive /\ connection # c
  /\ ~At(c, {"deleting"}) \/ sessions[c].deletes # {}
  /\ sessions' = [sessions EXCEPT ![c] = Gone[c]]
  /\ lost' = lost \cup sessions[c].deletes
  /\ UNCHANGED <<up, runs, clientVars, streams, pending, tableVars, deletions, erased>>

-----------------------------------------------------------------------------
(* START *)

\* _emit_pending_deletes deletes a row and tells the client, one by one.
DeleteStale(c) ==
  /\ At(c, {"deleting"})
  /\ \E id \in sessions[c].deletes :
       /\ segments' = {s \in segments : s.id # id}
       /\ sessions' = [sessions EXCEPT ![c].deletes = @ \ {id}]
  /\ UNCHANGED <<up, runs, clientVars, streams, pending, row, pastVars>>

\* Mutant of Resumed: the offset is what the last reset has stored.
ResumedStored == row.offset

\* The time a session starts at: read_max_segment_end_ms, or what is stored.
Resumed == Max({row.offset} \cup {s.end : s \in segments})

\* The engine starts and write_meeting_started opens or reopens the row.
EngineStarts(c) ==
  /\ At(c, {"deleting"}) /\ sessions[c].deletes = {}
  /\ streams < MaxStreams /\ streams' = streams + 1
  /\ sessions' = [sessions EXCEPT
       ![c].pc = "reading", ![c].stream = streams + 1, ![c].offset = Resumed,
       ![c].alone = Alive = {c}]
  /\ row' = [row EXCEPT !.status = "RECORDING"]
  /\ UNCHANGED <<up, runs, clientVars, pending, segments, pastVars>>

\* The engine raises: the handler dies, and the socket is closed with 1011.
EngineFails(c) ==
  /\ At(c, {"deleting"}) /\ sessions[c].deletes = {}
  /\ sessions' = [sessions EXCEPT ![c] = Gone[c]]
  /\ connection' = IF connection = c THEN 0 ELSE connection
  /\ UNCHANGED <<up, runs, time, speaking, waiting, streams, pending, tableVars, pastVars>>

\* Audio arrives; while the provider is restarted, or after END, it is lost.
Feed(c) ==
  /\ connection = c /\ waiting > 0 /\ At(c, {"reading", "backoff", "deaf"})
  /\ waiting' = 0
  /\ sessions' = IF At(c, {"backoff"}) THEN sessions
                 ELSE [sessions EXCEPT ![c].fed = @ + waiting]
  /\ UNCHANGED <<up, runs, time, speaking, connection, streams, pending, tableVars, pastVars>>

-----------------------------------------------------------------------------
(* The pump *)

Segment(c, end, partial) ==
  [id |-> <<sessions[c].stream, sessions[c].finals>>, session |-> c,
   start |-> sessions[c].offset + sessions[c].heard, end |-> sessions[c].offset + end,
   partial |-> partial]

\* write_segment replaces the segment of the same id.
Write(segment) == segments' = {s \in segments : s.id # segment.id} \cup {segment}

\* A result: a partial of the current utterance, or its final.
Hear(c) ==
  /\ At(c, {"reading", "draining"}) /\ row.status # "none"
  /\ \E end \in sessions[c].heard + 1 .. sessions[c].fed, partial \in {0, 1} :
       /\ Write(Segment(c, end, partial))
       /\ sessions' = [sessions EXCEPT
            ![c].heard = IF partial = 0 THEN end ELSE @,
            ![c].finals = IF partial = 0 THEN @ + 1 ELSE @,
            ![c].failures = 0]
  /\ UNCHANGED <<up, runs, clientVars, streams, pending, row, pastVars>>

\* A segment of a meeting that has no row violates its foreign key, which ends
\* the pump.
HearRefused(c) ==
  /\ At(c, {"reading"}) /\ row.status = "none" /\ sessions[c].heard < sessions[c].fed
  /\ Goto(c, "deaf")
  /\ UNCHANGED <<up, runs, clientVars, streams, pending, tableVars, pastVars>>

Reset(c) ==
  /\ At(c, {"reading"}) /\ sessions[c].failures < MaxConsecutive
  /\ sessions' = [sessions EXCEPT ![c].pc = "backoff", ![c].failures = @ + 1]
  /\ UNCHANGED <<up, runs, clientVars, streams, pending, tableVars, pastVars>>

\* _handle_provider_reset: the new stream starts where the old one, by the
\* clock, has come to.
Restarts(c) ==
  /\ At(c, {"backoff"})
  /\ streams < MaxStreams /\ streams' = streams + 1
  /\ sessions' = [sessions EXCEPT
       ![c].pc = "reading", ![c].stream = streams + 1,
       ![c].offset = @ + sessions[c].elapsed, ![c].elapsed = 0, ![c].fed = 0,
       ![c].heard = 0, ![c].finals = 0]
  /\ row' = IF row.status = "none" THEN row
            ELSE [row EXCEPT !.offset = sessions'[c].offset]
  /\ UNCHANGED <<up, runs, clientVars, pending, segments, pastVars>>

\* _fail_meeting writes END and FAILED, and closes the connection.
FailMeeting(c) ==
  /\ At(c, {"reading"}) /\ sessions[c].failures = MaxConsecutive
  /\ row' = IF row.status = "none" THEN row ELSE [row EXCEPT !.status = "FAILED"]
  /\ sessions' = [sessions EXCEPT ![c] = Gone[c]]
  /\ connection' = IF connection = c THEN 0 ELSE connection
  /\ UNCHANGED <<up, runs, time, speaking, waiting, streams, pending, segments, pastVars>>

-----------------------------------------------------------------------------
(* The end of the meeting, and the shell's view of it *)

\* END: the session closes its stream and drains what is due.
End(c) ==
  /\ connection = c /\ speaking /\ At(c, {"reading", "backoff", "deaf"})
  /\ speaking' = FALSE /\ waiting' = 0
  /\ Goto(c, "draining")
  /\ UNCHANGED <<up, runs, time, connection, streams, pending, tableVars, pastVars>>

\* The drain ends: write_meeting_ended.
Ended(c) ==
  /\ At(c, {"draining"})
  /\ row' = IF row.status = "RECORDING" THEN [row EXCEPT !.status = "COMPLETED"] ELSE row
  /\ sessions' = [sessions EXCEPT ![c] = Gone[c]]
  /\ connection' = 0
  /\ UNCHANGED <<up, runs, time, speaking, waiting, streams, pending, segments, pastVars>>

\* What list_meeting_segments finds.
Listed == {s.id : s \in segments}

\* Mutant of Cascaded: a connection that does not enforce foreign keys.
Uncascaded == segments

\* MeetingsRepository::open turns foreign keys on: of a meeting that is deleted
\* no segment is left.
Cascaded == {}

\* delete_meeting.
Delete ==
  /\ row.status # "none" /\ deletions < MaxDeletions
  /\ deletions' = deletions + 1
  /\ row' = NoRow /\ segments' = Cascaded
  /\ erased' = erased \cup Listed
  /\ UNCHANGED <<up, runs, clientVars, streams, sessions, pending, lost>>

-----------------------------------------------------------------------------
Session(c) ==
  \/ Start(c) \/ Notice(c) \/ DeleteStale(c) \/ EngineStarts(c) \/ EngineFails(c)
  \/ Feed(c) \/ Hear(c) \/ HearRefused(c) \/ Reset(c) \/ Restarts(c)
  \/ FailMeeting(c) \/ End(c) \/ Ended(c)

Next == Boot \/ Exit \/ Tick \/ Drop \/ Delete \/ \E c \in Sessions : Session(c)

Spec == Init /\ [][Next]_vars

-----------------------------------------------------------------------------
(* Properties *)

\* What a session writes comes after all that earlier sessions have written,
\* across reconnects, resets, failed meetings, crashes and deletions, when none
\* of them was still there as it started.
LaterSessionsFollow ==
  \A a, b \in segments :
    (a.session < b.session /\ sessions[b.session].alone) => a.end <= b.start

\* A partial that a crash has left is deleted by the meeting's next START, but
\* for those whose START was cut off, or that waited for one in a run that ended.
StaleIsDeleted ==
  \A s \in segments : s.partial = -1 => s.id \in pending \cup Undone \cup lost

\* A segment the shell has deleted does not come back, whatever the link and the
\* sidecar do after that, while no two sessions of the meeting overlap.
DeletedStaysDeleted ==
  (\A c \in Sessions : sessions[c].alone) => erased \cap Listed = {}
=============================================================================
