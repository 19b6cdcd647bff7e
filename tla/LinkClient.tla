----------------------------- MODULE LinkClient -----------------------------
(***************************************************************************)
(* The websocket client of crates/lma-link: one task (`run` in client.rs)  *)
(* that owns the session, the reconnect buffer and the frame assembler,    *)
(* serves an unbounded command channel and reconnects with backoff.        *)
(*                                                                         *)
(* Audio is a stream of numbered units; a chunk is a sequence of units and *)
(* a wire frame has exactly FrameUnits of them.  A chunk whose byte count  *)
(* disagrees with its frame count is dropped whole by the assembler, which *)
(* is what a chunk of no units does here.  Text messages from the sidecar  *)
(* and pings change nothing in this task and are left out.                 *)
(*                                                                         *)
(* The connection is external: it is up, or lost (the peer is gone, not    *)
(* yet noticed).  A send on a lost connection may still succeed, and then  *)
(* nobody hears it; a send that fails has not delivered its message.       *)
(***************************************************************************)
EXTENDS Naturals, Sequences

CONSTANTS
  Sessions,      \* the sessions a caller may start: call id, port, token, rate
  Nothing,       \* Option::None
  FrameUnits,    \* units in one wire frame (100 ms of audio)
  Capacity,      \* frames the reconnect buffer holds (3 s of audio)
  BaseDelay,     \* first retry delay (500 ms)
  DelayCeiling,  \* largest retry delay (10 s)
  ChunkSizes,    \* units a caller may pass in one chunk
  MaxCalls,      \* bound: calls made on the handle
  MaxFaults,     \* bound: connection losses and refused connections
  EndpointDies   \* whether the sidecar behind the endpoint may exit for good

ASSUME SizesAssumption ==
  /\ FrameUnits \in Nat \ {0}
  /\ Capacity \in Nat \ {0}
  /\ MaxCalls \in Nat
  /\ MaxFaults \in Nat
  /\ ChunkSizes \subseteq Nat
  /\ EndpointDies \in BOOLEAN
ASSUME DelayAssumption ==
  /\ BaseDelay \in Nat \ {0}
  /\ DelayCeiling \in Nat
  /\ BaseDelay <= DelayCeiling
ASSUME NothingAssumption ==
  /\ Nothing \notin Sessions
  /\ Nothing \notin Seq(Nat)
  /\ Nothing \notin Seq(Seq(Nat))

VARIABLES
  commands,   \* the unbounded command channel
  open,       \* some handle of this client is still alive
  awaiting,   \* the caller is inside start(), awaiting its reply
  current,    \* the session the caller started last and has not ended
  owner,      \* owner[n]: the caller's session when it passed unit n
  since,      \* the first unit passed since `current` was started
  pausing,    \* the caller's last word since then was pause()
  calls,      \* calls made so far
  pc,         \* where the task is
  session, buffer, assembler, \* its locals, each an Option
  sending,    \* the frames left to send in send_frames
  retryDelay,
  conn,       \* the connection: "none", "up" or "lost"
  alive,      \* the endpoint still accepts connections
  peer,       \* the session the sidecar was given by START on this connection
  peerPaused, \* the sidecar's pause flag for it
  heard,      \* every unit the sidecar received, with the session it was in
  faults

callerVars == <<open, awaiting, current, owner, since, pausing, calls>>
netVars == <<conn, alive, faults>>
peerVars == <<peer, peerPaused, heard>>
taskVars == <<pc, session, buffer, assembler, sending, retryDelay>>
vars == <<commands, callerVars, taskVars, netVars, peerVars>>

Frames == [1 .. FrameUnits -> Nat]
Commands ==
  [op : {"Start"}, session : Sessions]
    \cup [op : {"Chunk"}, pcm : Seq(Nat)]
    \cup [op : {"Pause", "Resume", "End"}]
Places ==
  {"idle", "connect", "starting", "flush", "live", "sending", "wait",
   "done", "panicked"}
Running == pc \notin {"done", "panicked"}

TypeOK ==
  /\ commands \in Seq(Commands)
  /\ open \in BOOLEAN
  /\ awaiting \in BOOLEAN
  /\ current \in Sessions \cup {Nothing}
  /\ owner \in Seq(Sessions \cup {Nothing})
  /\ since \in Nat
  /\ pausing \in BOOLEAN
  /\ calls \in 0 .. MaxCalls
  /\ pc \in Places
  /\ session \in Sessions \cup {Nothing}
  /\ buffer \in Seq(Frames) \cup {Nothing}
  /\ assembler \in Seq(Nat) \cup {Nothing}
  /\ sending \in Seq(Frames)
  /\ retryDelay \in BaseDelay .. DelayCeiling
  /\ conn \in {"none", "up", "lost"}
  /\ alive \in BOOLEAN
  /\ peer \in Sessions \cup {Nothing}
  /\ peerPaused \in BOOLEAN
  /\ heard \in Seq([unit : Nat, call : Sessions \cup {Nothing}])
  /\ faults \in 0 .. MaxFaults

Init ==
  /\ commands = <<>>
  /\ open = TRUE
  /\ awaiting = FALSE
  /\ current = Nothing
  /\ owner = <<>>
  /\ since = 1
  /\ pausing = FALSE
  /\ calls = 0
  /\ pc = "idle"
  /\ session = Nothing
  /\ buffer = Nothing
  /\ assembler = Nothing
  /\ sending = <<>>
  /\ retryDelay = BaseDelay
  /\ conn = "none"
  /\ alive = TRUE
  /\ peer = Nothing
  /\ peerPaused = FALSE
  /\ heard = <<>>
  /\ faults = 0

-----------------------------------------------------------------------------
(* The assembler and the buffer *)

\* FrameAssembler::push: every whole frame leaves, the remainder stays.
Cut(pcm) ==
  [i \in 1 .. Len(pcm) \div FrameUnits |->
     [j \in 1 .. FrameUnits |-> pcm[(i - 1) * FrameUnits + j]]]

\* Mutants of Rest: the remainder is not carried over; the frames stay in it.
RestDropped(pcm) == <<>>
RestKept(pcm) == pcm

Rest(pcm) == SubSeq(pcm, FrameUnits * (Len(pcm) \div FrameUnits) + 1, Len(pcm))

\* ReconnectBuffer::push of each frame in turn: the oldest make room.  Frames
\* of one session have one size, so the byte budget is a count of frames.
Push(held, frames) ==
  LET all == held \o frames
  IN  IF Len(all) > Capacity
        THEN SubSeq(all, Len(all) - Capacity + 1, Len(all))
        ELSE all

Doubled == IF 2 * retryDelay < DelayCeiling THEN 2 * retryDelay ELSE DelayCeiling

-----------------------------------------------------------------------------
(* The caller *)

Call(command) ==
  /\ open /\ Running /\ ~awaiting
  /\ calls < MaxCalls
  /\ calls' = calls + 1
  /\ commands' = Append(commands, command)
  /\ UNCHANGED <<open, taskVars, netVars, peerVars>>

CallStart(s) ==
  /\ Call([op |-> "Start", session |-> s])
  /\ awaiting' = TRUE
  /\ current' = s
  /\ since' = IF s = current THEN since ELSE Len(owner) + 1
  /\ pausing' = (s = current /\ pausing)
  /\ UNCHANGED owner

CallChunk(size) ==
  /\ Call([op |-> "Chunk", pcm |-> [i \in 1 .. size |-> Len(owner) + i]])
  /\ owner' = owner \o [i \in 1 .. size |-> current]
  /\ UNCHANGED <<awaiting, current, since, pausing>>

CallPause ==
  /\ Call([op |-> "Pause"])
  /\ pausing' = TRUE
  /\ UNCHANGED <<awaiting, current, owner, since>>

CallResume ==
  /\ Call([op |-> "Resume"])
  /\ pausing' = FALSE
  /\ UNCHANGED <<awaiting, current, owner, since>>

CallEnd ==
  /\ Call([op |-> "End"])
  /\ current' = Nothing
  /\ pausing' = FALSE
  /\ UNCHANGED <<awaiting, owner, since>>

\* The last clone of the handle goes away.
DropHandle ==
  /\ open /\ ~awaiting
  /\ open' = FALSE
  /\ UNCHANGED <<commands, awaiting, current, owner, since, pausing, calls>>
  /\ UNCHANGED <<taskVars, netVars, peerVars>>

Caller ==
  \/ \E s \in Sessions : CallStart(s)
  \/ \E size \in ChunkSizes : CallChunk(size)
  \/ CallPause \/ CallResume \/ CallEnd
  \/ DropHandle

-----------------------------------------------------------------------------
(* The network and the sidecar's end of it *)

Lose ==
  /\ conn = "up"
  /\ faults < MaxFaults
  /\ conn' = "lost"
  /\ faults' = faults + 1
  /\ UNCHANGED <<commands, alive, callerVars, taskVars, peerVars>>

\* The sidecar process is gone; its successor listens on another port.
Die ==
  /\ EndpointDies /\ alive
  /\ alive' = FALSE
  /\ conn' = IF conn = "up" THEN "lost" ELSE conn
  /\ UNCHANGED <<commands, faults, callerVars, taskVars, peerVars>>

\* Units that reach the sidecar when a frame is sent: all of them if the
\* connection is up, none if it is lost.
Hear(frame) ==
  heard' = IF conn = "up"
             THEN heard \o [i \in 1 .. FrameUnits |->
                              [unit |-> frame[i], call |-> peer]]
             ELSE heard

-----------------------------------------------------------------------------
(* The task, with no session *)

Receive(op) ==
  /\ commands # <<>>
  /\ Head(commands).op = op
  /\ commands' = Tail(commands)

Exhausted == commands = <<>> /\ ~open

\* Mutant of Reply: the reply is kept back.
ReplyWithheld == UNCHANGED callerVars

Reply == awaiting' = FALSE /\ UNCHANGED <<open, current, owner, since, pausing, calls>>

\* Mutant of Open: the assembler keeps the last session's remainder.
OpenKeepingRemainder(s) ==
  /\ session' = s
  /\ buffer' = <<>>
  /\ assembler' = IF assembler = Nothing THEN <<>> ELSE assembler

Open(s) ==
  /\ session' = s
  /\ buffer' = <<>>
  /\ assembler' = <<>>

Close ==
  /\ session' = Nothing
  /\ buffer' = Nothing
  /\ assembler' = Nothing

IdleStart ==
  /\ pc = "idle"
  /\ Receive("Start")
  /\ Open(Head(commands).session)
  /\ retryDelay' = BaseDelay
  /\ pc' = "connect"
  /\ Reply
  /\ UNCHANGED <<sending, netVars, peerVars>>

IdleIgnore ==
  /\ pc = "idle"
  /\ \E op \in {"Chunk", "Pause", "Resume", "End"} : Receive(op)
  /\ UNCHANGED <<callerVars, taskVars, netVars, peerVars>>

IdleExit ==
  /\ pc = "idle" /\ Exhausted
  /\ pc' = "done"
  /\ UNCHANGED <<commands, session, buffer, assembler, sending, retryDelay>>
  /\ UNCHANGED <<callerVars, netVars, peerVars>>

-----------------------------------------------------------------------------
(* The task, connecting: START, then what the buffer holds *)

Connect ==
  /\ pc = "connect" /\ alive
  /\ conn' = "up"
  /\ peer' = Nothing
  /\ pc' = "starting"
  /\ UNCHANGED <<commands, alive, faults, peerPaused, heard, callerVars>>
  /\ UNCHANGED <<session, buffer, assembler, sending, retryDelay>>

ConnectFails ==
  /\ pc = "connect"
  /\ \/ ~alive /\ UNCHANGED faults
     \/ alive /\ faults < MaxFaults /\ faults' = faults + 1
  /\ pc' = "wait"
  /\ UNCHANGED <<commands, conn, alive, callerVars, peerVars>>
  /\ UNCHANGED <<session, buffer, assembler, sending, retryDelay>>

\* Mutant of SendStart: the backlog is not flushed.
SendStartOnly ==
  /\ pc = "starting"
  /\ IF conn = "up" THEN peer' = session /\ peerPaused' = FALSE
                    ELSE UNCHANGED <<peer, peerPaused>>
  /\ retryDelay' = BaseDelay
  /\ pc' = "live"
  /\ UNCHANGED <<commands, heard, callerVars, netVars>>
  /\ UNCHANGED <<session, buffer, assembler, sending>>

SendStart ==
  /\ pc = "starting"
  /\ IF conn = "up" THEN peer' = session /\ peerPaused' = FALSE
                    ELSE UNCHANGED <<peer, peerPaused>>
  /\ retryDelay' = BaseDelay
  /\ pc' = "flush"
  /\ UNCHANGED <<commands, heard, callerVars, netVars>>
  /\ UNCHANGED <<session, buffer, assembler, sending>>

SendStartFails ==
  /\ pc = "starting" /\ conn = "lost"
  /\ pc' = "wait"
  /\ UNCHANGED <<commands, session, buffer, assembler, sending, retryDelay>>
  /\ UNCHANGED <<callerVars, netVars, peerVars>>

\* A frame leaves the buffer only after its send returned.
FlushFrame ==
  /\ pc = "flush"
  /\ buffer # <<>>
  /\ Hear(Head(buffer))
  /\ buffer' = Tail(buffer)
  /\ UNCHANGED <<commands, peer, peerPaused, callerVars, netVars>>
  /\ UNCHANGED <<pc, session, assembler, sending, retryDelay>>

FlushFails ==
  /\ pc = "flush" /\ conn = "lost"
  /\ buffer # <<>>
  /\ pc' = "wait"
  /\ UNCHANGED <<commands, session, buffer, assembler, sending, retryDelay>>
  /\ UNCHANGED <<callerVars, netVars, peerVars>>

\* Mutant of FlushEnds: one frame is flushed where all should be.
FlushEndsEarly ==
  /\ pc = "flush"
  /\ pc' = "live"
  /\ UNCHANGED <<commands, session, buffer, assembler, sending, retryDelay>>
  /\ UNCHANGED <<callerVars, netVars, peerVars>>

FlushEnds ==
  /\ pc = "flush"
  /\ buffer = <<>>
  /\ pc' = "live"
  /\ UNCHANGED <<commands, session, buffer, assembler, sending, retryDelay>>
  /\ UNCHANGED <<callerVars, netVars, peerVars>>

-----------------------------------------------------------------------------
(* The task, connected *)

LiveStartSame ==
  /\ pc = "live"
  /\ Receive("Start")
  /\ Head(commands).session = session
  /\ Reply
  /\ UNCHANGED <<taskVars, netVars, peerVars>>

\* A different session: its predecessor gets no END, and the old socket lives
\* on until the retry delay has passed.
LiveStartOther ==
  /\ pc = "live"
  /\ Receive("Start")
  /\ Head(commands).session # session
  /\ Open(Head(commands).session)
  /\ pc' = "wait"
  /\ Reply
  /\ UNCHANGED <<sending, retryDelay, netVars, peerVars>>

LiveChunk ==
  /\ pc = "live"
  /\ Receive("Chunk")
  /\ LET pcm == assembler \o Head(commands).pcm
     IN  /\ assembler' = Rest(pcm)
         /\ sending' = Cut(pcm)
  /\ pc' = IF sending' = <<>> THEN "live" ELSE "sending"
  /\ UNCHANGED <<callerVars, session, buffer, retryDelay, netVars, peerVars>>

SendFrame ==
  /\ pc = "sending"
  /\ Hear(Head(sending))
  /\ sending' = Tail(sending)
  /\ pc' = IF sending' = <<>> THEN "live" ELSE "sending"
  /\ UNCHANGED <<commands, peer, peerPaused, callerVars, netVars>>
  /\ UNCHANGED <<session, buffer, assembler, retryDelay>>

SendFrameFails ==
  /\ pc = "sending" /\ conn = "lost"
  /\ buffer' = Push(buffer, sending)
  /\ sending' = <<>>
  /\ pc' = "wait"
  /\ UNCHANGED <<commands, session, assembler, retryDelay>>
  /\ UNCHANGED <<callerVars, netVars, peerVars>>

LivePause(op, paused) ==
  /\ pc = "live"
  /\ Receive(op)
  /\ \/ pc' = "live"
     \/ conn = "lost" /\ pc' = "wait"
  /\ peerPaused' = IF conn = "up" THEN paused ELSE peerPaused
  /\ UNCHANGED <<session, buffer, assembler, sending, retryDelay>>
  /\ UNCHANGED <<callerVars, netVars, peer, heard>>

\* END is sent at most once; a failure to send it is ignored.
LiveEnd ==
  /\ pc = "live"
  /\ Receive("End")
  /\ Close
  /\ conn' = "none"
  /\ peer' = Nothing
  /\ pc' = "idle"
  /\ UNCHANGED <<alive, faults, peerPaused, heard>>
  /\ UNCHANGED <<callerVars, sending, retryDelay>>

\* Mutant of LiveExit: a closed channel is taken for a closed socket.
LiveExitRetries ==
  /\ pc = "live" /\ Exhausted
  /\ pc' = "wait"
  /\ UNCHANGED <<commands, session, buffer, assembler, sending, retryDelay>>
  /\ UNCHANGED <<callerVars, netVars, peerVars>>

LiveExit ==
  /\ pc = "live" /\ Exhausted
  /\ conn' = "none"
  /\ pc' = "done"
  /\ UNCHANGED <<commands, session, buffer, assembler, sending, retryDelay>>
  /\ UNCHANGED <<callerVars, alive, faults, peerVars>>

LiveSocketCloses ==
  /\ pc = "live" /\ conn = "lost"
  /\ pc' = "wait"
  /\ UNCHANGED <<commands, session, buffer, assembler, sending, retryDelay>>
  /\ UNCHANGED <<callerVars, netVars, peerVars>>

-----------------------------------------------------------------------------
(* The task, in wait_for_retry *)

LeaveWait ==
  /\ pc = "wait"
  /\ pc' = IF session = Nothing THEN "idle" ELSE "connect"
  /\ retryDelay' = Doubled
  /\ conn' = "none"
  /\ UNCHANGED <<commands, session, buffer, assembler, sending>>
  /\ UNCHANGED <<callerVars, alive, faults, peerVars>>

WaitElapses == LeaveWait

\* A closed command channel ends the wait at once, whatever is left of it.
WaitAbandoned == Exhausted /\ LeaveWait

WaitStart ==
  /\ pc = "wait"
  /\ Receive("Start")
  /\ IF Head(commands).session = session
       THEN UNCHANGED <<session, buffer, assembler>>
       ELSE Open(Head(commands).session)
  /\ Reply
  /\ UNCHANGED <<pc, sending, retryDelay, netVars, peerVars>>

WaitChunk ==
  /\ pc = "wait"
  /\ assembler # Nothing
  /\ Receive("Chunk")
  /\ LET pcm == assembler \o Head(commands).pcm
     IN  /\ assembler' = Rest(pcm)
         /\ buffer' = Push(buffer, Cut(pcm))
  /\ UNCHANGED <<pc, session, sending, retryDelay>>
  /\ UNCHANGED <<callerVars, netVars, peerVars>>

\* expect("assembler follows session") on None: the task dies, its receiver
\* with it, and a start() that is waiting gets Unavailable.
WaitChunkPanics ==
  /\ pc = "wait"
  /\ assembler = Nothing
  /\ commands # <<>> /\ Head(commands).op = "Chunk"
  /\ commands' = <<>>
  /\ pc' = "panicked"
  /\ conn' = "none"
  /\ Reply
  /\ UNCHANGED <<session, buffer, assembler, sending, retryDelay>>
  /\ UNCHANGED <<alive, faults, peerVars>>

WaitEnd ==
  /\ pc = "wait"
  /\ Receive("End")
  /\ Close
  /\ UNCHANGED <<pc, sending, retryDelay, callerVars, netVars, peerVars>>

WaitIgnore ==
  /\ pc = "wait"
  /\ \E op \in {"Pause", "Resume"} : Receive(op)
  /\ UNCHANGED <<callerVars, taskVars, netVars, peerVars>>

-----------------------------------------------------------------------------
\* A wait that reads the command channel.
WaitReceives == WaitStart \/ WaitChunk \/ WaitChunkPanics \/ WaitEnd \/ WaitIgnore

Task ==
  \/ IdleStart \/ IdleIgnore \/ IdleExit
  \/ Connect \/ ConnectFails \/ SendStart \/ SendStartFails
  \/ FlushFrame \/ FlushFails \/ FlushEnds
  \/ LiveStartSame \/ LiveStartOther \/ LiveChunk \/ SendFrame \/ SendFrameFails
  \/ LivePause("Pause", TRUE) \/ LivePause("Resume", FALSE)
  \/ LiveEnd \/ LiveExit \/ LiveSocketCloses
  \/ WaitElapses \/ WaitAbandoned \/ WaitReceives

Next == Caller \/ Task \/ Lose \/ Die

Spec == Init /\ [][Next]_vars

\* The runtime keeps polling the task: a ready await is eventually served and
\* timers fire.  A command that waits is ready when the wait begins, its timer
\* half a second later at the earliest: the timer does not win every time.
\* Callers and the network owe nothing.
FairSpec == Spec /\ WF_vars(Task) /\ SF_vars(WaitReceives)

-----------------------------------------------------------------------------
(* Properties *)

\* The three Options of `run` are Some together or None together, and from the
\* first connection attempt to the last send there is a session: what the
\* expect() calls on session and buffer take for granted.
OptionsFollowSession ==
  /\ session = Nothing <=> buffer = Nothing
  /\ session = Nothing <=> assembler = Nothing
  /\ pc \in {"connect", "starting", "flush", "live", "sending"}
       => session # Nothing

\* The reconnect buffer never holds more than its three seconds, whichever of
\* send_frames and wait_for_retry fills it.
BufferBounded == buffer # Nothing => Len(buffer) <= Capacity

\* Live audio goes out only after the whole backlog has: flush empties the
\* buffer before the task reads its next command, and a failed send leaves.
BacklogFirst == pc \in {"live", "sending"} => buffer = <<>>

\* No audio of one meeting reaches the sidecar under another meeting's START:
\* neither through the buffer nor through the assembler's remainder.
HeardInItsMeeting ==
  \A i \in 1 .. Len(heard) : owner[heard[i].unit] = heard[i].call

\* Without a network fault nothing is lost, not even over the retry delay that
\* precedes a replaced session, as long as the meeting's audio fits the buffer:
\* once the task has caught up, every unit was heard or waits for its frame to
\* fill.
LosslessWithoutFault ==
  (/\ faults = 0 /\ alive
   /\ pc = "live" /\ commands = <<>> /\ session = current
   /\ Len(owner) - since < Capacity * FrameUnits)
    => \A n \in since .. Len(owner) :
         \/ \E i \in 1 .. Len(heard) : heard[i].unit = n
         \/ \E i \in 1 .. Len(assembler) : assembler[i] = n

\* A caller inside start() gets its reply, connected or not.
StartAnswered == awaiting ~> ~awaiting

\* A backlog is flushed, or its session ended, once the network stops failing,
\* as long as the sidecar is there.
BacklogFlushed ==
  (buffer # Nothing /\ buffer # <<>>) ~> (buffer = Nothing \/ buffer = <<>> \/ ~alive)

\* Once every handle is gone the task works off what it was sent and returns,
\* unless it was left in a meeting not ended whose sidecar is gone: then it
\* connects for ever, and a wait no longer delays it (WaitAbandoned).
OrphanReturns == ~open ~> (~Running \/ (~alive /\ current # Nothing))

=============================================================================
