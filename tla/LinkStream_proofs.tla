-------------------------- MODULE LinkStream_proofs -------------------------
(***************************************************************************)
(* Theorems about the link client and about where its audio ends up, for   *)
(* every set of sessions, every frame size, buffer capacity, chunk size,   *)
(* delay and bound: what the task keeps to, and that audio arrives under   *)
(* the START of its own meeting, in order and once, and all of it while    *)
(* the network does not fail.                                              *)
(***************************************************************************)
EXTENDS LinkStream, SequenceTheorems, FiniteSetTheorems, TLAPS

-----------------------------------------------------------------------------
(* What the assembler and the buffer return *)

\* The whole frames in a stretch of units take up no more than it has, and leave
\* less than one frame over: the drain in FrameAssembler::push.
LEMMA DivisionBounds ==
  ASSUME NEW a \in Nat, NEW b \in Nat \ {0}
  PROVE  /\ a \div b \in Nat
         /\ b * (a \div b) \in Nat
         /\ b * (a \div b) <= a
         /\ a < b * (a \div b) + b
BY Z3

\* Cut returns whole frames: one for every FrameUnits units it is given.
LEMMA CutType ==
  ASSUME NEW pcm \in Seq(Nat)
  PROVE  /\ Cut(pcm) \in Seq(Frames)
         /\ Len(Cut(pcm)) = Len(pcm) \div FrameUnits
<1> DEFINE n == Len(pcm) \div FrameUnits
           frame(i) == [j \in 1 .. FrameUnits |-> pcm[(i - 1) * FrameUnits + j]]
<1>1. Len(pcm) \in Nat /\ FrameUnits \in Nat \ {0}
  BY SizesAssumption, LenProperties
<1>2. n \in Nat /\ FrameUnits * n <= Len(pcm)
  BY <1>1, DivisionBounds
<1>3. ASSUME NEW i \in 1 .. n
      PROVE  frame(i) \in Frames
  <2>1. ASSUME NEW j \in 1 .. FrameUnits
        PROVE  (i - 1) * FrameUnits + j \in 1 .. Len(pcm)
    <3>0. n \in Nat /\ FrameUnits \in Nat /\ i \in 1 .. n
      BY <1>1, <1>2
    <3>1. (i - 1) * FrameUnits + FrameUnits = i * FrameUnits
      BY <3>0
    <3>2. i * FrameUnits <= n * FrameUnits
      <4> HIDE DEF n
      <4> QED BY <3>0
    <3>3. (i - 1) * FrameUnits \in Nat
      BY <3>0
    <3> DEFINE a == (i - 1) * FrameUnits
               b == i * FrameUnits
               d == n * FrameUnits
    <3>4. d = FrameUnits * n /\ d <= Len(pcm) /\ b \in Int
      BY <1>1, <1>2
    <3>5. a + FrameUnits = b /\ b <= d /\ a \in Nat /\ d \in Int
      BY <1>1, <1>2, <3>1, <3>2, <3>3
    <3> HIDE DEF a, b, d
    <3>6. a + j \in 1 .. Len(pcm)
      BY <1>1, <3>4, <3>5
    <3> QED BY <3>6 DEF a
  <2>2. \A j \in 1 .. FrameUnits : pcm[(i - 1) * FrameUnits + j] \in Nat
    BY <2>1, ElementOfSeq
  <2> QED BY <2>2 DEF Frames
<1>4. Cut(pcm) = [i \in 1 .. n |-> frame(i)]
  BY DEF Cut
<1> HIDE DEF n, frame
<1>5. [i \in 1 .. n |-> frame(i)] \in Seq(Frames)
  BY <1>2, <1>3, IsASeq
<1>6. Len([i \in 1 .. n |-> frame(i)]) = n
  BY <1>2
<1> QED BY <1>4, <1>5, <1>6 DEF n

\* Rest keeps less than a frame.
LEMMA RestType ==
  ASSUME NEW pcm \in Seq(Nat)
  PROVE  /\ Rest(pcm) \in Seq(Nat)
         /\ Len(Rest(pcm)) < FrameUnits
<1> DEFINE m == FrameUnits * (Len(pcm) \div FrameUnits) + 1
<1>1. Len(pcm) \in Nat /\ FrameUnits \in Nat \ {0}
  BY SizesAssumption, LenProperties
<1>2. /\ FrameUnits * (Len(pcm) \div FrameUnits) \in Nat
      /\ FrameUnits * (Len(pcm) \div FrameUnits) <= Len(pcm)
      /\ Len(pcm) < FrameUnits * (Len(pcm) \div FrameUnits) + FrameUnits
  BY <1>1, DivisionBounds
<1>3. m \in Int /\ m >= 1 /\ Len(pcm) - m + 1 < FrameUnits
  BY <1>1, <1>2
<1> HIDE DEF m
<1>4. \A i \in m .. Len(pcm) : pcm[i] \in Nat
  BY <1>1, <1>3, ElementOfSeq
<1>5. /\ SubSeq(pcm, m, Len(pcm)) \in Seq(Nat)
      /\ Len(SubSeq(pcm, m, Len(pcm))) = IF m <= Len(pcm) THEN Len(pcm) - m + 1 ELSE 0
  BY <1>1, <1>3, <1>4, SubSeqProperties
<1>6. Rest(pcm) = SubSeq(pcm, m, Len(pcm))
  BY DEF Rest, m
<1> QED BY <1>1, <1>3, <1>5, <1>6

\* Push keeps at most Capacity frames, and all of them if they fit.
LEMMA PushType ==
  ASSUME NEW held \in Seq(Frames), NEW frames \in Seq(Frames)
  PROVE  /\ Push(held, frames) \in Seq(Frames)
         /\ Len(Push(held, frames)) <= Capacity
         /\ Len(held) + Len(frames) <= Capacity => Push(held, frames) = held \o frames
<1> DEFINE all == held \o frames
           m == Len(all) - Capacity + 1
<1>1. /\ all \in Seq(Frames)
      /\ Len(all) \in Nat
      /\ Len(all) = Len(held) + Len(frames)
      /\ Capacity \in Nat \ {0}
  BY SizesAssumption, ConcatProperties, LenProperties
<1> HIDE DEF all
<1>2. Push(held, frames) = IF Len(all) > Capacity THEN SubSeq(all, m, Len(all)) ELSE all
  BY DEF Push, all
<1>3. CASE Len(all) > Capacity
  <2>1. m \in Int /\ m >= 1 /\ m <= Len(all) /\ Len(all) - m + 1 = Capacity
    BY <1>1, <1>3
  <2>2. \A i \in m .. Len(all) : all[i] \in Frames
    BY <1>1, <2>1, ElementOfSeq
  <2>3. /\ SubSeq(all, m, Len(all)) \in Seq(Frames)
        /\ Len(SubSeq(all, m, Len(all))) = Len(all) - m + 1
    BY <1>1, <2>1, <2>2, SubSeqProperties
  <2> QED BY <1>1, <1>2, <1>3, <2>1, <2>3
<1>4. CASE Len(all) <= Capacity
  BY <1>1, <1>2, <1>4 DEF all
<1> QED BY <1>1, <1>3, <1>4

\* An Option that holds a sequence is not None: the expect() calls of client.rs.
LEMMA NothingIsNoSequence ==
  /\ Nothing \notin Seq(Nat)
  /\ Nothing \notin Seq(Frames)
  /\ Nothing # <<>>
<1>1. FrameUnits \in Nat
  BY SizesAssumption
<1>2. \A frame \in Frames : frame \in Seq(Nat)
  BY <1>1 DEF Frames
<1>3. \A s \in Seq(Frames) : s \in Seq(Seq(Nat))
  BY <1>2, SeqMonotonic
<1>4. <<>> \in Seq(Nat)
  OBVIOUS
<1> QED BY <1>3, <1>4, NothingAssumption

\* Hearing a frame, or losing it, leaves a log of heard units.
LEMMA HearType ==
  ASSUME TypeOK, NEW frame \in Frames, Hear(frame)
  PROVE  heard' \in Seq([unit : Nat, call : Sessions \cup {Nothing}])
<1> DEFINE Heard == [unit : Nat, call : Sessions \cup {Nothing}]
           e(i) == [unit |-> frame[i], call |-> peer]
<1>1. FrameUnits \in Nat /\ heard \in Seq(Heard) /\ peer \in Sessions \cup {Nothing}
  BY SizesAssumption DEF TypeOK
<1>2. \A i \in 1 .. FrameUnits : e(i) \in Heard
  BY <1>1 DEF Frames
<1>3. [i \in 1 .. FrameUnits |-> e(i)] \in Seq(Heard)
  <2> HIDE DEF Heard, e
  <2> QED BY <1>1, <1>2, IsASeq
<1>4. heard \o [i \in 1 .. FrameUnits |-> e(i)] \in Seq(Heard)
  <2> HIDE DEF Heard, e
  <2> QED BY <1>1, <1>3, ConcatProperties
<1> QED BY <1>1, <1>4 DEF Hear

-----------------------------------------------------------------------------
(* The inductive invariant *)

\* A batch of frames is being sent exactly while there are frames to send.
SendingFrames == pc = "sending" <=> sending # <<>>

IInv ==
  /\ TypeOK
  /\ OptionsFollowSession
  /\ BufferBounded
  /\ BacklogFirst
  /\ SendingFrames

\* The task starts with no session, no buffer and no assembler.
LEMMA InitIInv == Init => IInv
<1> SUFFICES ASSUME Init PROVE IInv
  OBVIOUS
<1>1. TypeOK
  <2>1. retryDelay \in BaseDelay .. DelayCeiling
    BY DelayAssumption DEF Init
  <2>2. /\ calls \in 0 .. MaxCalls
        /\ faults \in 0 .. MaxFaults
        /\ since \in Nat
    BY SizesAssumption DEF Init
  <2>3. /\ commands \in Seq(Commands)
        /\ owner \in Seq(Sessions \cup {Nothing})
        /\ sending \in Seq(Frames)
        /\ heard \in Seq([unit : Nat, call : Sessions \cup {Nothing}])
    BY DEF Init
  <2> QED BY <2>1, <2>2, <2>3 DEF Init, TypeOK, Places
<1>2. OptionsFollowSession /\ BufferBounded /\ BacklogFirst /\ SendingFrames
  BY DEF Init, OptionsFollowSession, BufferBounded, BacklogFirst, SendingFrames
<1> QED BY <1>1, <1>2 DEF IInv

\* What the caller does leaves the task's own variables alone.
LEMMA CallerKeepsIInv ==
  ASSUME IInv, Caller
  PROVE  IInv'
<1> USE DEF IInv
<1>1. taskVars' = taskVars /\ netVars' = netVars /\ peerVars' = peerVars
  BY DEF Caller, CallStart, CallChunk, CallPause, CallResume, CallEnd, Call, DropHandle
<1>2. TypeOK'
  <2> USE SizesAssumption DEF TypeOK
  <2>1. CASE \E s \in Sessions : CallStart(s)
    <3>1. PICK s \in Sessions : CallStart(s)
      BY <2>1
    <3>2. [op |-> "Start", session |-> s] \in Commands
      BY DEF Commands
    <3>3. commands' \in Seq(Commands)
      BY <3>1, <3>2, AppendProperties DEF CallStart, Call
    <3>4. since' \in Nat
      BY <3>1, LenProperties DEF CallStart
    <3> QED BY <1>1, <3>1, <3>3, <3>4 DEF CallStart, Call, taskVars, netVars, peerVars
  <2>2. CASE \E size \in ChunkSizes : CallChunk(size)
    <3>1. PICK size \in ChunkSizes : CallChunk(size)
      BY <2>2
    <3>2. [i \in 1 .. size |-> Len(owner) + i] \in Seq(Nat)
      BY LenProperties
    <3>3. [op |-> "Chunk", pcm |-> [i \in 1 .. size |-> Len(owner) + i]] \in Commands
      BY <3>2 DEF Commands
    <3>4. commands' \in Seq(Commands)
      BY <3>1, <3>3, AppendProperties DEF CallChunk, Call
    <3>5. [i \in 1 .. size |-> current] \in Seq(Sessions \cup {Nothing})
      OBVIOUS
    <3>6. owner' \in Seq(Sessions \cup {Nothing})
      BY <3>1, <3>5, ConcatProperties DEF CallChunk
    <3> QED BY <1>1, <3>1, <3>4, <3>6 DEF CallChunk, Call, taskVars, netVars, peerVars
  <2>3. ASSUME NEW op \in {"Pause", "Resume", "End"}, Call([op |-> op])
        PROVE  commands' \in Seq(Commands) /\ calls' \in 0 .. MaxCalls /\ open' \in BOOLEAN
    <3>1. [op |-> op] \in Commands
      BY DEF Commands
    <3> QED BY <2>3, <3>1, AppendProperties DEF Call
  <2>4. CASE CallPause
    BY <1>1, <2>3, <2>4 DEF CallPause, taskVars, netVars, peerVars
  <2>5. CASE CallResume
    BY <1>1, <2>3, <2>5 DEF CallResume, taskVars, netVars, peerVars
  <2>6. CASE CallEnd
    BY <1>1, <2>3, <2>6 DEF CallEnd, taskVars, netVars, peerVars
  <2>7. CASE DropHandle
    BY <1>1, <2>7 DEF DropHandle, taskVars, netVars, peerVars
  <2> QED BY <2>1, <2>2, <2>4, <2>5, <2>6, <2>7 DEF Caller
<1>3. OptionsFollowSession' /\ BufferBounded' /\ BacklogFirst' /\ SendingFrames'
  BY <1>1 DEF OptionsFollowSession, BufferBounded, BacklogFirst, SendingFrames, taskVars
<1> QED BY <1>2, <1>3

\* Nor does the network touch them.
LEMMA NetworkKeepsIInv ==
  ASSUME IInv, Lose \/ Die
  PROVE  IInv'
<1> USE DEF IInv
<1>1. TypeOK'
  <2>1. conn' \in {"none", "up", "lost"}
    BY DEF Lose, Die, TypeOK
  <2>2. alive' \in BOOLEAN
    BY DEF Lose, Die, TypeOK
  <2>3. faults' \in 0 .. MaxFaults
    BY SizesAssumption DEF Lose, Die, TypeOK
  <2>4. UNCHANGED <<commands, callerVars, taskVars, peerVars>>
    BY DEF Lose, Die
  <2> QED BY <2>1, <2>2, <2>3, <2>4 DEF TypeOK, callerVars, taskVars, peerVars
<1>2. OptionsFollowSession' /\ BufferBounded' /\ BacklogFirst' /\ SendingFrames'
  BY DEF Lose, Die, OptionsFollowSession, BufferBounded, BacklogFirst, SendingFrames, taskVars
<1> QED BY <1>1, <1>2

\* A received command was in the channel; the rest of the channel stays.
LEMMA ReceiveType ==
  ASSUME TypeOK, NEW op, Receive(op)
  PROVE  /\ commands' \in Seq(Commands)
         /\ Head(commands) \in Commands
         /\ op = "Start" => Head(commands).session \in Sessions
         /\ op = "Chunk" => Head(commands).pcm \in Seq(Nat)
<1>1. commands \in Seq(Commands) /\ commands # <<>>
  BY DEF TypeOK, Receive
<1>2. Head(commands) \in Commands /\ Tail(commands) \in Seq(Commands)
  BY <1>1, HeadTailProperties
<1>3. Head(commands).op = op /\ commands' = Tail(commands)
  BY DEF Receive
<1>4. op = "Start" => Head(commands).session \in Sessions
  BY <1>2, <1>3 DEF Commands
<1>5. op = "Chunk" => Head(commands).pcm \in Seq(Nat)
  BY <1>2, <1>3 DEF Commands
<1> QED BY <1>2, <1>3, <1>4, <1>5

\* With no session: a start opens one, everything else is ignored.
LEMMA IdleKeepsIInv ==
  ASSUME IInv, IdleStart \/ IdleIgnore \/ IdleExit
  PROVE  IInv'
<1> USE DEF IInv
<1>0. /\ BaseDelay \in BaseDelay .. DelayCeiling
      /\ Capacity \in Nat
  BY SizesAssumption, DelayAssumption
<1>1. CASE IdleStart
  <2>1. commands' \in Seq(Commands) /\ Head(commands).session \in Sessions
    BY <1>1, ReceiveType DEF IdleStart
  <2>2. /\ session' \in Sessions
        /\ buffer' \in Seq(Frames)
        /\ assembler' \in Seq(Nat)
        /\ buffer' = <<>> /\ assembler' = <<>>
    BY <1>1, <2>1 DEF IdleStart, Open
  <2>4. /\ UNCHANGED <<sending, conn, alive, faults, peer, peerPaused, heard>>
        /\ UNCHANGED <<open, current, owner, since, pausing, calls>>
        /\ pc' = "connect" /\ awaiting' = FALSE /\ retryDelay' = BaseDelay
    BY <1>1 DEF IdleStart, Reply, netVars, peerVars
  <2>5. TypeOK'
    BY <1>0, <2>1, <2>2, <2>4 DEF TypeOK, Places
  <2>3. OptionsFollowSession' /\ BufferBounded' /\ BacklogFirst' /\ SendingFrames'
    BY <1>0, <1>1, <2>1, NothingIsNoSequence, NothingAssumption
       DEF IdleStart, Open, OptionsFollowSession, BufferBounded, BacklogFirst, SendingFrames
  <2> QED BY <2>3, <2>5
<1>2. CASE IdleIgnore
  <2>1. TypeOK'
    BY NothingIsNoSequence, <1>0, ReceiveType, <1>2 DEF IdleIgnore, TypeOK, Places, callerVars, netVars, peerVars, taskVars
  <2>2. OptionsFollowSession' /\ BufferBounded' /\ BacklogFirst' /\ SendingFrames'
    BY NothingIsNoSequence, <1>0, ReceiveType, <1>2 DEF IdleIgnore, TypeOK, OptionsFollowSession, BufferBounded, BacklogFirst, SendingFrames, callerVars, netVars, peerVars, taskVars
  <2> QED BY <2>1, <2>2
<1>3. CASE IdleExit
  <2>1. TypeOK'
    BY NothingIsNoSequence, <1>0, <1>3 DEF IdleExit, TypeOK, Places, callerVars, netVars, peerVars, taskVars
  <2>2. OptionsFollowSession' /\ BufferBounded' /\ BacklogFirst' /\ SendingFrames'
    BY NothingIsNoSequence, <1>0, <1>3 DEF IdleExit, TypeOK, OptionsFollowSession, BufferBounded, BacklogFirst, SendingFrames, callerVars, netVars, peerVars, taskVars
  <2> QED BY <2>1, <2>2
<1> QED BY <1>1, <1>2, <1>3

\* While it connects, sends START and flushes, the session stays, and only an
\* empty buffer lets the task go live.
LEMMA ConnectKeepsIInv ==
  ASSUME IInv,
         \/ Connect \/ ConnectFails \/ SendStart \/ SendStartFails
         \/ FlushFrame \/ FlushFails \/ FlushEnds
  PROVE  IInv'
<1> USE DEF IInv
<1>0. /\ BaseDelay \in BaseDelay .. DelayCeiling
      /\ Capacity \in Nat
      /\ MaxFaults \in Nat
  BY SizesAssumption, DelayAssumption
<1>1. CASE Connect
  <2>1. TypeOK'
    BY NothingIsNoSequence, <1>0, <1>1 DEF Connect, TypeOK, Places, callerVars, netVars, peerVars, taskVars
  <2>2. OptionsFollowSession' /\ BufferBounded' /\ BacklogFirst' /\ SendingFrames'
    BY NothingIsNoSequence, <1>0, <1>1 DEF Connect, TypeOK, OptionsFollowSession, BufferBounded, BacklogFirst, SendingFrames, callerVars, netVars, peerVars, taskVars
  <2> QED BY <2>1, <2>2
<1>2. CASE ConnectFails
  <2>1. TypeOK'
    BY NothingIsNoSequence, <1>0, <1>2 DEF ConnectFails, TypeOK, Places, callerVars, netVars, peerVars, taskVars
  <2>2. OptionsFollowSession' /\ BufferBounded' /\ BacklogFirst' /\ SendingFrames'
    BY NothingIsNoSequence, <1>0, <1>2 DEF ConnectFails, TypeOK, OptionsFollowSession, BufferBounded, BacklogFirst, SendingFrames, callerVars, netVars, peerVars, taskVars
  <2> QED BY <2>1, <2>2
<1>3. CASE SendStart
  <2>1. TypeOK'
    <3>1. peer' \in Sessions \cup {Nothing} /\ peerPaused' \in BOOLEAN
      BY <1>3 DEF SendStart, TypeOK
    <3> QED BY <1>0, <1>3, <3>1 DEF SendStart, TypeOK, Places, callerVars, netVars
  <2>2. OptionsFollowSession' /\ BufferBounded' /\ BacklogFirst' /\ SendingFrames'
    BY NothingIsNoSequence, <1>0, <1>3 DEF SendStart, TypeOK, OptionsFollowSession, BufferBounded, BacklogFirst, SendingFrames, callerVars, netVars, peerVars, taskVars
  <2> QED BY <2>1, <2>2
<1>4. CASE SendStartFails
  <2>1. TypeOK'
    BY NothingIsNoSequence, <1>0, <1>4 DEF SendStartFails, TypeOK, Places, callerVars, netVars, peerVars, taskVars
  <2>2. OptionsFollowSession' /\ BufferBounded' /\ BacklogFirst' /\ SendingFrames'
    BY NothingIsNoSequence, <1>0, <1>4 DEF SendStartFails, TypeOK, OptionsFollowSession, BufferBounded, BacklogFirst, SendingFrames, callerVars, netVars, peerVars, taskVars
  <2> QED BY <2>1, <2>2
<1>5. CASE FlushFrame
  <2>1. buffer \in Seq(Frames) /\ buffer # <<>>
    BY <1>5 DEF FlushFrame, TypeOK, OptionsFollowSession
  <2>2. Head(buffer) \in Frames /\ Tail(buffer) \in Seq(Frames) /\ Len(Tail(buffer)) = Len(buffer) - 1
    BY <2>1, HeadTailProperties
  <2>3. heard' \in Seq([unit : Nat, call : Sessions \cup {Nothing}])
    BY <1>5, <2>2, HearType DEF FlushFrame
  <2>4. TypeOK'
    BY <1>5, <2>2, <2>3 DEF FlushFrame, TypeOK, callerVars, netVars
  <2>5. BufferBounded'
    <3>1. buffer' = Tail(buffer) /\ Len(buffer) \in Nat /\ Len(buffer) <= Capacity
      BY <1>5, <2>1, NothingIsNoSequence, LenProperties DEF FlushFrame, OptionsFollowSession, BufferBounded
    <3> QED BY <1>0, <2>2, <3>1 DEF BufferBounded
  <2>6. OptionsFollowSession' /\ BacklogFirst' /\ SendingFrames'
    BY <1>5, <2>2, NothingIsNoSequence
       DEF FlushFrame, OptionsFollowSession, BacklogFirst, SendingFrames
  <2> QED BY <2>4, <2>5, <2>6
<1>6. CASE FlushFails
  <2>1. TypeOK'
    BY NothingIsNoSequence, <1>0, <1>6 DEF FlushFails, TypeOK, Places, callerVars, netVars, peerVars, taskVars
  <2>2. OptionsFollowSession' /\ BufferBounded' /\ BacklogFirst' /\ SendingFrames'
    BY NothingIsNoSequence, <1>0, <1>6 DEF FlushFails, TypeOK, OptionsFollowSession, BufferBounded, BacklogFirst, SendingFrames, callerVars, netVars, peerVars, taskVars
  <2> QED BY <2>1, <2>2
<1>7. CASE FlushEnds
  <2>1. TypeOK'
    BY NothingIsNoSequence, <1>0, <1>7 DEF FlushEnds, TypeOK, Places, callerVars, netVars, peerVars, taskVars
  <2>2. OptionsFollowSession' /\ BufferBounded' /\ BacklogFirst' /\ SendingFrames'
    BY NothingIsNoSequence, <1>0, <1>7 DEF FlushEnds, TypeOK, OptionsFollowSession, BufferBounded, BacklogFirst, SendingFrames, callerVars, netVars, peerVars, taskVars
  <2> QED BY <2>1, <2>2
<1> QED BY <1>1, <1>2, <1>3, <1>4, <1>5, <1>6, <1>7

\* A chunk joins the remainder: whole frames leave, less than a frame stays.
LEMMA ChunkType ==
  ASSUME TypeOK, Receive("Chunk"), assembler # Nothing
  PROVE  /\ commands' \in Seq(Commands)
         /\ Cut(assembler \o Head(commands).pcm) \in Seq(Frames)
         /\ Rest(assembler \o Head(commands).pcm) \in Seq(Nat)
<1>1. assembler \in Seq(Nat)
  BY DEF TypeOK
<1>2. commands' \in Seq(Commands) /\ Head(commands).pcm \in Seq(Nat)
  BY ReceiveType
<1>3. assembler \o Head(commands).pcm \in Seq(Nat)
  BY <1>1, <1>2, ConcatProperties
<1> QED BY <1>2, <1>3, CutType, RestType

\* Connected: a batch that could not be sent goes to the buffer, within its
\* capacity, and the task leaves the live loop.
LEMMA LiveKeepsIInv ==
  ASSUME IInv,
         \/ LiveStartSame \/ LiveStartOther \/ LiveChunk \/ SendFrame \/ SendFrameFails
         \/ LivePause("Pause", TRUE) \/ LivePause("Resume", FALSE)
         \/ LiveEnd \/ LiveExit \/ LiveSocketCloses
  PROVE  IInv'
<1> USE DEF IInv
<1>0. /\ Capacity \in Nat \ {0}
      /\ MaxFaults \in Nat
  BY SizesAssumption
<1>1. CASE LiveStartSame
  <2>1. commands' \in Seq(Commands)
    BY <1>1, ReceiveType DEF LiveStartSame
  <2>2. TypeOK'
    <3>1. /\ awaiting' = FALSE /\ UNCHANGED <<open, current, owner, since, pausing, calls>>
          /\ UNCHANGED <<taskVars, netVars, peerVars>>
      BY <1>1 DEF LiveStartSame, Reply
    <3> QED BY <2>1, <3>1 DEF TypeOK, netVars, peerVars, taskVars
  <2>3. OptionsFollowSession' /\ BufferBounded' /\ BacklogFirst' /\ SendingFrames'
    BY <1>1 DEF LiveStartSame, OptionsFollowSession, BufferBounded, BacklogFirst,
       SendingFrames, taskVars
  <2> QED BY <2>2, <2>3
<1>2. CASE LiveStartOther
  <2>1. commands' \in Seq(Commands) /\ Head(commands).session \in Sessions
    BY <1>2, ReceiveType DEF LiveStartOther
  <2>2. /\ session' \in Sessions
        /\ buffer' \in Seq(Frames)
        /\ assembler' \in Seq(Nat)
        /\ buffer' = <<>> /\ assembler' = <<>>
    BY <1>2, <2>1 DEF LiveStartOther, Open
  <2>3. TypeOK'
    BY <1>2, <2>1, <2>2 DEF LiveStartOther, Reply, TypeOK, Places, netVars, peerVars
  <2>4. OptionsFollowSession' /\ BufferBounded' /\ BacklogFirst' /\ SendingFrames'
    BY <1>0, <1>2, <2>2, NothingIsNoSequence, NothingAssumption
       DEF LiveStartOther, OptionsFollowSession, BufferBounded, BacklogFirst, SendingFrames
  <2> QED BY <2>3, <2>4
<1>3. CASE LiveChunk
  <2>1. assembler # Nothing
    BY <1>3 DEF LiveChunk, OptionsFollowSession
  <2>2. /\ commands' \in Seq(Commands)
        /\ assembler' \in Seq(Nat)
        /\ sending' \in Seq(Frames)
        /\ pc' = IF sending' = <<>> THEN "live" ELSE "sending"
    BY <1>3, <2>1, ChunkType DEF LiveChunk
  <2>3. TypeOK'
    BY <1>3, <2>2 DEF LiveChunk, TypeOK, Places, callerVars, netVars, peerVars
  <2>4. OptionsFollowSession' /\ BufferBounded' /\ BacklogFirst' /\ SendingFrames'
    BY <1>3, <2>2, NothingIsNoSequence
       DEF LiveChunk, OptionsFollowSession, BufferBounded, BacklogFirst, SendingFrames
  <2> QED BY <2>3, <2>4
<1>4. CASE SendFrame
  <2>1. sending \in Seq(Frames) /\ sending # <<>>
    BY <1>4 DEF SendFrame, SendingFrames, TypeOK
  <2>2. Head(sending) \in Frames /\ Tail(sending) \in Seq(Frames)
    BY <2>1, HeadTailProperties
  <2>3. heard' \in Seq([unit : Nat, call : Sessions \cup {Nothing}])
    BY <1>4, <2>2, HearType DEF SendFrame
  <2>4. TypeOK'
    BY <1>4, <2>2, <2>3 DEF SendFrame, TypeOK, Places, callerVars, netVars
  <2>5. OptionsFollowSession' /\ BufferBounded' /\ BacklogFirst' /\ SendingFrames'
    BY <1>4 DEF SendFrame, OptionsFollowSession, BufferBounded, BacklogFirst, SendingFrames
  <2> QED BY <2>4, <2>5
<1>5. CASE SendFrameFails
  <2>1. buffer \in Seq(Frames) /\ sending \in Seq(Frames)
    BY <1>5 DEF SendFrameFails, TypeOK, OptionsFollowSession
  <2>2. buffer' \in Seq(Frames) /\ Len(buffer') <= Capacity
    BY <1>5, <2>1, PushType DEF SendFrameFails
  <2>3. sending' \in Seq(Frames)
    BY <1>5 DEF SendFrameFails
  <2>4. TypeOK'
    BY <1>5, <2>2, <2>3 DEF SendFrameFails, TypeOK, Places, callerVars, netVars, peerVars
  <2>5. OptionsFollowSession' /\ BufferBounded' /\ BacklogFirst' /\ SendingFrames'
    BY <1>5, <2>2, NothingIsNoSequence
       DEF SendFrameFails, OptionsFollowSession, BufferBounded, BacklogFirst, SendingFrames
  <2> QED BY <2>4, <2>5
<1>6. ASSUME NEW op, NEW paused \in BOOLEAN, LivePause(op, paused)
      PROVE  IInv'
  <2>1. commands' \in Seq(Commands)
    BY <1>6, ReceiveType DEF LivePause
  <2>2. peerPaused' \in BOOLEAN
    BY <1>6 DEF LivePause, TypeOK
  <2>3. pc' \in {"live", "wait"}
    BY <1>6 DEF LivePause
  <2>4. TypeOK'
    BY <1>6, <2>1, <2>2, <2>3 DEF LivePause, TypeOK, Places, callerVars, netVars
  <2>5. OptionsFollowSession' /\ BufferBounded' /\ BacklogFirst' /\ SendingFrames'
    BY <1>6, <2>3
       DEF LivePause, OptionsFollowSession, BufferBounded, BacklogFirst, SendingFrames
  <2> QED BY <2>4, <2>5
<1>7. CASE LiveEnd
  <2>1. commands' \in Seq(Commands)
    BY <1>7, ReceiveType DEF LiveEnd
  <2>2. session' = Nothing /\ buffer' = Nothing /\ assembler' = Nothing
    BY <1>7 DEF LiveEnd, Close
  <2>3. TypeOK'
    BY <1>7, <2>1, <2>2 DEF LiveEnd, TypeOK, Places, callerVars
  <2>4. OptionsFollowSession' /\ BufferBounded' /\ BacklogFirst' /\ SendingFrames'
    BY <1>7, <2>2
       DEF LiveEnd, OptionsFollowSession, BufferBounded, BacklogFirst, SendingFrames
  <2> QED BY <2>3, <2>4
<1>8. CASE LiveExit
  <2>1. TypeOK'
    BY <1>0, NothingIsNoSequence, <1>8 DEF LiveExit, Exhausted, TypeOK, Places, callerVars, netVars, peerVars, taskVars
  <2>2. OptionsFollowSession' /\ BufferBounded' /\ BacklogFirst' /\ SendingFrames'
    BY <1>0, NothingIsNoSequence, <1>8 DEF LiveExit, Exhausted, TypeOK, OptionsFollowSession, BufferBounded, BacklogFirst, SendingFrames, callerVars, netVars, peerVars, taskVars
  <2> QED BY <2>1, <2>2
<1>9. CASE LiveSocketCloses
  <2>1. TypeOK'
    BY <1>0, NothingIsNoSequence, <1>9 DEF LiveSocketCloses, TypeOK, Places, callerVars, netVars, peerVars, taskVars
  <2>2. OptionsFollowSession' /\ BufferBounded' /\ BacklogFirst' /\ SendingFrames'
    BY <1>0, NothingIsNoSequence, <1>9 DEF LiveSocketCloses, TypeOK, OptionsFollowSession, BufferBounded, BacklogFirst, SendingFrames, callerVars, netVars, peerVars, taskVars
  <2> QED BY <2>1, <2>2
<1> QED BY <1>1, <1>2, <1>3, <1>4, <1>5, <1>6, <1>7, <1>8, <1>9

\* Waiting: start and end replace the three Options together, chunks fill the
\* buffer within its capacity.
LEMMA WaitKeepsIInv ==
  ASSUME IInv,
         \/ WaitElapses \/ WaitAbandoned \/ WaitStart \/ WaitChunk \/ WaitChunkPanics
         \/ WaitEnd \/ WaitIgnore
  PROVE  IInv'
<1> USE DEF IInv
<1>0. Capacity \in Nat \ {0}
  BY SizesAssumption
<1>1. ASSUME LeaveWait
      PROVE  IInv'
  <2>1. retryDelay' \in BaseDelay .. DelayCeiling
    BY <1>1, DelayAssumption DEF LeaveWait, Doubled, TypeOK
  <2>2. pc' \in {"idle", "connect"} /\ (session = Nothing => pc' = "idle")
    BY <1>1 DEF LeaveWait
  <2>3. TypeOK'
    BY <1>1, <2>1, <2>2 DEF LeaveWait, TypeOK, Places, callerVars, peerVars
  <2>4. OptionsFollowSession' /\ BufferBounded' /\ BacklogFirst' /\ SendingFrames'
    BY <1>1, <2>2
       DEF LeaveWait, OptionsFollowSession, BufferBounded, BacklogFirst, SendingFrames
  <2> QED BY <2>3, <2>4
<1>2. CASE WaitStart
  <2>1. commands' \in Seq(Commands) /\ Head(commands).session \in Sessions
    BY <1>2, ReceiveType DEF WaitStart
  <2>2. CASE Head(commands).session = session
    <3>1. UNCHANGED <<session, buffer, assembler>>
      BY <1>2, <2>2 DEF WaitStart
    <3>2. TypeOK'
      <4>1. /\ awaiting' = FALSE /\ UNCHANGED <<open, current, owner, since, pausing, calls>>
            /\ UNCHANGED <<pc, sending, retryDelay, netVars, peerVars>>
        BY <1>2 DEF WaitStart, Reply
      <4> QED BY <2>1, <3>1, <4>1 DEF TypeOK, netVars, peerVars
    <3>3. OptionsFollowSession' /\ BufferBounded' /\ BacklogFirst' /\ SendingFrames'
      BY <1>2, <3>1
         DEF WaitStart, OptionsFollowSession, BufferBounded, BacklogFirst, SendingFrames
    <3> QED BY <3>2, <3>3
  <2>3. CASE Head(commands).session # session
    <3>1. /\ session' \in Sessions
          /\ buffer' \in Seq(Frames)
          /\ assembler' \in Seq(Nat)
          /\ buffer' = <<>> /\ assembler' = <<>>
      BY <1>2, <2>1, <2>3 DEF WaitStart, Open
    <3>2. TypeOK'
      <4>1. /\ awaiting' = FALSE /\ UNCHANGED <<open, current, owner, since, pausing, calls>>
            /\ UNCHANGED <<pc, sending, retryDelay, netVars, peerVars>>
        BY <1>2 DEF WaitStart, Reply
      <4> QED BY <2>1, <3>1, <4>1 DEF TypeOK, netVars, peerVars
    <3>3. OptionsFollowSession' /\ BufferBounded' /\ BacklogFirst' /\ SendingFrames'
      BY <1>0, <1>2, <3>1, NothingIsNoSequence, NothingAssumption
         DEF WaitStart, OptionsFollowSession, BufferBounded, BacklogFirst, SendingFrames
    <3> QED BY <3>2, <3>3
  <2> QED BY <2>2, <2>3
<1>3. CASE WaitChunk
  <2>1. /\ commands' \in Seq(Commands)
        /\ Cut(assembler \o Head(commands).pcm) \in Seq(Frames)
        /\ assembler' \in Seq(Nat)
        /\ buffer' = Push(buffer, Cut(assembler \o Head(commands).pcm))
    BY <1>3, ChunkType DEF WaitChunk
  <2>2. buffer \in Seq(Frames)
    BY <1>3 DEF WaitChunk, TypeOK, OptionsFollowSession
  <2>3. buffer' \in Seq(Frames) /\ Len(buffer') <= Capacity
    BY <2>1, <2>2, PushType
  <2>4. TypeOK'
    BY <1>3, <2>1, <2>3 DEF WaitChunk, TypeOK, callerVars, netVars, peerVars
  <2>5. OptionsFollowSession' /\ BufferBounded' /\ BacklogFirst' /\ SendingFrames'
    BY <1>3, <2>1, <2>2, <2>3, NothingIsNoSequence
       DEF WaitChunk, OptionsFollowSession, BufferBounded, BacklogFirst, SendingFrames
  <2> QED BY <2>4, <2>5
<1>4. CASE WaitChunkPanics
  <2>1. TypeOK'
    <3>1. commands' = <<>> /\ awaiting' = FALSE
      BY <1>4 DEF WaitChunkPanics, Reply
    <3>2. commands' \in Seq(Commands)
      BY <3>1
    <3>3. UNCHANGED <<open, current, owner, since, pausing, calls>>
      BY <1>4 DEF WaitChunkPanics, Reply
    <3> QED BY <1>4, <3>1, <3>2, <3>3 DEF WaitChunkPanics, TypeOK, Places, peerVars
  <2>2. OptionsFollowSession' /\ BufferBounded' /\ BacklogFirst' /\ SendingFrames'
    BY <1>4
       DEF WaitChunkPanics, OptionsFollowSession, BufferBounded, BacklogFirst, SendingFrames
  <2> QED BY <2>1, <2>2
<1>5. CASE WaitEnd
  <2>1. commands' \in Seq(Commands)
    BY <1>5, ReceiveType DEF WaitEnd
  <2>2. session' = Nothing /\ buffer' = Nothing /\ assembler' = Nothing
    BY <1>5 DEF WaitEnd, Close
  <2>3. TypeOK'
    BY <1>5, <2>1, <2>2 DEF WaitEnd, TypeOK, callerVars, netVars, peerVars
  <2>4. OptionsFollowSession' /\ BufferBounded' /\ BacklogFirst' /\ SendingFrames'
    BY <1>5, <2>2
       DEF WaitEnd, OptionsFollowSession, BufferBounded, BacklogFirst, SendingFrames
  <2> QED BY <2>3, <2>4
<1>6. CASE WaitIgnore
  <2>1. commands' \in Seq(Commands)
    BY <1>6, ReceiveType DEF WaitIgnore
  <2>2. TypeOK'
    BY <1>6, <2>1 DEF WaitIgnore, TypeOK, callerVars, taskVars, netVars, peerVars
  <2>3. OptionsFollowSession' /\ BufferBounded' /\ BacklogFirst' /\ SendingFrames'
    BY <1>6
       DEF WaitIgnore, OptionsFollowSession, BufferBounded, BacklogFirst, SendingFrames, taskVars
  <2> QED BY <2>2, <2>3
<1> QED BY <1>1, <1>2, <1>3, <1>4, <1>5, <1>6 DEF WaitElapses, WaitAbandoned

\* One step of anyone keeps the invariant.
LEMMA NextKeepsIInv == IInv /\ [Next]_vars => IInv'
<1> SUFFICES ASSUME IInv, [Next]_vars PROVE IInv'
  OBVIOUS
<1>1. CASE Task
  BY <1>1, IdleKeepsIInv, ConnectKeepsIInv, LiveKeepsIInv, WaitKeepsIInv DEF Task, WaitReceives
<1>2. CASE UNCHANGED vars
  BY <1>2 DEF IInv, TypeOK, OptionsFollowSession, BufferBounded, BacklogFirst, SendingFrames,
     vars, callerVars, taskVars, netVars, peerVars
<1> QED BY <1>1, <1>2, CallerKeepsIInv, NetworkKeepsIInv DEF Next

-----------------------------------------------------------------------------
(* What follows for every behaviour *)

\* The conjunction below is kept by every step of the caller, the network and
\* the task in client.rs.
THEOREM Invariance == Spec => []IInv
BY InitIInv, NextKeepsIInv, PTL DEF Spec

\* Every variable keeps its type: frames stay whole, whatever chunks are sent.
THEOREM TypeCorrect == Spec => []TypeOK
<1>1. IInv => TypeOK
  BY DEF IInv
<1> QED BY <1>1, Invariance, PTL

\* session, buffer and assembler of `run` are Some together, and Some wherever
\* it calls expect() on them while connecting, flushing or sending.
THEOREM OptionsAgree == Spec => []OptionsFollowSession
<1>1. IInv => OptionsFollowSession
  BY DEF IInv
<1> QED BY <1>1, Invariance, PTL

\* ReconnectBuffer::push keeps the buffer within its capacity, after any number
\* of chunks, failed batches and reconnects.
THEOREM BacklogBounded == Spec => []BufferBounded
<1>1. IInv => BufferBounded
  BY DEF IInv
<1> QED BY <1>1, Invariance, PTL

\* flush leaves nothing behind: no live frame overtakes the backlog.
THEOREM BacklogLeavesFirst == Spec => []BacklogFirst
<1>1. IInv => BacklogFirst
  BY DEF IInv
<1> QED BY <1>1, Invariance, PTL

-----------------------------------------------------------------------------
(* Units in order *)

Below(a, b) == \A x \in a : \A y \in b : x < y

\* Units, and the units of frames, one after the other.
Rising(pcm) == \A i, j \in 1 .. Len(pcm) : i < j => pcm[i] < pcm[j]
FramesRising(frames) ==
  /\ \A i \in 1 .. Len(frames) : Rising(frames[i])
  /\ \A i, j \in 1 .. Len(frames) : i < j => Below(UnitsOf(frames[i]), UnitsOf(frames[j]))

\* A frame is a sequence of FrameUnits units.
LEMMA FrameFacts ==
  ASSUME NEW frame \in Frames
  PROVE  /\ frame \in Seq(Nat) /\ Len(frame) = FrameUnits
         /\ UnitsOf(frame) \subseteq Nat
<1>1. FrameUnits \in Nat
  BY SizesAssumption
<1>2. frame \in Seq(Nat) /\ Len(frame) = FrameUnits
  BY <1>1 DEF Frames
<1> QED BY <1>2, ElementOfSeq DEF UnitsOf

LEMMA UnitsFacts ==
  ASSUME NEW frames \in Seq(Frames)
  PROVE  /\ UnitsIn(frames) \subseteq Nat
         /\ \A i \in 1 .. Len(frames) : frames[i] \in Frames /\ UnitsOf(frames[i]) \subseteq UnitsIn(frames)
         /\ \A x \in UnitsIn(frames) : \E i \in 1 .. Len(frames) : x \in UnitsOf(frames[i])
<1>1. \A i \in 1 .. Len(frames) : frames[i] \in Frames
  BY ElementOfSeq
<1> QED BY <1>1, FrameFacts DEF UnitsIn

\* Two stretches in order make one.
LEMMA ConcatUnits ==
  ASSUME NEW a \in Seq(Nat), NEW b \in Seq(Nat)
  PROVE  /\ a \o b \in Seq(Nat)
         /\ UnitsOf(a \o b) = UnitsOf(a) \cup UnitsOf(b)
         /\ (Rising(a) /\ Rising(b) /\ Below(UnitsOf(a), UnitsOf(b))) => Rising(a \o b)
<1>1. /\ Len(a) \in Nat /\ Len(b) \in Nat /\ a \o b \in Seq(Nat)
      /\ Len(a \o b) = Len(a) + Len(b)
      /\ \A i \in 1 .. Len(a) + Len(b) :
           (a \o b)[i] = IF i <= Len(a) THEN a[i] ELSE b[i - Len(a)]
  BY ConcatProperties, LenProperties
<1> DEFINE c == a \o b
<1> HIDE DEF c
<1>2. UnitsOf(c) = UnitsOf(a) \cup UnitsOf(b)
  <2>1. \A i \in 1 .. Len(c) : c[i] \in UnitsOf(a) \cup UnitsOf(b)
    BY <1>1 DEF UnitsOf, c
  <2>2. \A i \in 1 .. Len(a) : a[i] = c[i] /\ i \in 1 .. Len(c)
    BY <1>1 DEF c
  <2>3. \A i \in 1 .. Len(b) : b[i] = c[i + Len(a)] /\ i + Len(a) \in 1 .. Len(c)
    BY <1>1 DEF c
  <2>4. UnitsOf(a) \subseteq UnitsOf(c)
    BY <2>2 DEF UnitsOf
  <2>5. UnitsOf(b) \subseteq UnitsOf(c)
    BY <2>3 DEF UnitsOf
  <2>6. UnitsOf(c) \subseteq UnitsOf(a) \cup UnitsOf(b)
    BY <2>1 DEF UnitsOf
  <2> QED BY <2>4, <2>5, <2>6
<1>3. ASSUME Rising(a), Rising(b), Below(UnitsOf(a), UnitsOf(b)),
             NEW i \in 1 .. Len(c), NEW j \in 1 .. Len(c), i < j
      PROVE  c[i] < c[j]
  <2>1. CASE j <= Len(a)
    BY <1>1, <1>3, <2>1 DEF Rising, c
  <2>2. CASE i > Len(a)
    <3>1. /\ i - Len(a) \in 1 .. Len(b) /\ j - Len(a) \in 1 .. Len(b)
          /\ i - Len(a) < j - Len(a)
      BY <1>1, <1>3, <2>2 DEF c
    <3>2. b[i - Len(a)] < b[j - Len(a)]
      BY <1>3, <3>1 DEF Rising
    <3>3. c[i] = b[i - Len(a)] /\ c[j] = b[j - Len(a)]
      BY <1>1, <1>3, <2>2 DEF c
    <3> QED BY <3>2, <3>3
  <2>3. CASE i <= Len(a) /\ j > Len(a)
    <3>1. c[i] \in UnitsOf(a) /\ c[j] \in UnitsOf(b)
      BY <1>1, <2>3 DEF UnitsOf, c
    <3> QED BY <1>3, <3>1 DEF Below
  <2>4. i \in Nat /\ j \in Nat
    BY <1>1 DEF c
  <2> QED BY <1>1, <2>1, <2>2, <2>3, <2>4
<1>4. (Rising(a) /\ Rising(b) /\ Below(UnitsOf(a), UnitsOf(b))) => Rising(c)
  BY <1>3 DEF Rising
<1> QED BY <1>1, <1>2, <1>4 DEF c

LEMMA ConcatFrames ==
  ASSUME NEW a \in Seq(Frames), NEW b \in Seq(Frames)
  PROVE  /\ a \o b \in Seq(Frames)
         /\ UnitsIn(a \o b) = UnitsIn(a) \cup UnitsIn(b)
         /\ (FramesRising(a) /\ FramesRising(b) /\ Below(UnitsIn(a), UnitsIn(b)))
              => FramesRising(a \o b)
<1>1. /\ Len(a) \in Nat /\ Len(b) \in Nat /\ a \o b \in Seq(Frames)
      /\ Len(a \o b) = Len(a) + Len(b)
      /\ \A i \in 1 .. Len(a) + Len(b) :
           (a \o b)[i] = IF i <= Len(a) THEN a[i] ELSE b[i - Len(a)]
  BY ConcatProperties, LenProperties
<1> DEFINE c == a \o b
<1> HIDE DEF c
<1>2. UnitsIn(c) = UnitsIn(a) \cup UnitsIn(b)
  <2>1. \A i \in 1 .. Len(c) : UnitsOf(c[i]) \subseteq UnitsIn(a) \cup UnitsIn(b)
    BY <1>1, UnitsFacts DEF c
  <2>2. \A i \in 1 .. Len(a) : a[i] = c[i] /\ i \in 1 .. Len(c)
    BY <1>1 DEF c
  <2>3. \A i \in 1 .. Len(b) : b[i] = c[i + Len(a)] /\ i + Len(a) \in 1 .. Len(c)
    BY <1>1 DEF c
  <2>4. UnitsIn(a) \subseteq UnitsIn(c)
    BY <2>2 DEF UnitsIn
  <2>5. UnitsIn(b) \subseteq UnitsIn(c)
    BY <2>3 DEF UnitsIn
  <2>6. UnitsIn(c) \subseteq UnitsIn(a) \cup UnitsIn(b)
    BY <2>1 DEF UnitsIn
  <2> QED BY <2>4, <2>5, <2>6
<1>3. ASSUME FramesRising(a), FramesRising(b), Below(UnitsIn(a), UnitsIn(b))
      PROVE  FramesRising(c)
  <2>1. \A i \in 1 .. Len(c) : Rising(c[i])
    BY <1>1, <1>3 DEF FramesRising, c
  <2>2. ASSUME NEW i \in 1 .. Len(c), NEW j \in 1 .. Len(c), i < j
        PROVE  Below(UnitsOf(c[i]), UnitsOf(c[j]))
    <3>1. CASE j <= Len(a)
      <4>1. i \in 1 .. Len(a) /\ j \in 1 .. Len(a) /\ c[i] = a[i] /\ c[j] = a[j]
        BY <1>1, <2>2, <3>1 DEF c
      <4> QED BY <1>3, <2>2, <4>1 DEF FramesRising
    <3>2. CASE i > Len(a)
      <4>1. /\ i - Len(a) \in 1 .. Len(b) /\ j - Len(a) \in 1 .. Len(b)
            /\ i - Len(a) < j - Len(a)
        BY <1>1, <2>2, <3>2 DEF c
      <4>2. c[i] = b[i - Len(a)] /\ c[j] = b[j - Len(a)]
        BY <1>1, <2>2, <3>2 DEF c
      <4>3. \A k, l \in 1 .. Len(b) : k < l => Below(UnitsOf(b[k]), UnitsOf(b[l]))
        BY <1>3 DEF FramesRising
      <4> QED BY <4>1, <4>2, <4>3
    <3>3. CASE i <= Len(a) /\ j > Len(a)
      <4>1. i \in 1 .. Len(a) /\ j - Len(a) \in 1 .. Len(b)
            /\ c[i] = a[i] /\ c[j] = b[j - Len(a)]
        BY <1>1, <3>3 DEF c
      <4>2. UnitsOf(c[i]) \subseteq UnitsIn(a) /\ UnitsOf(c[j]) \subseteq UnitsIn(b)
        BY <4>1, UnitsFacts
      <4> QED BY <1>3, <4>2 DEF Below
    <3> QED BY <1>1, <3>1, <3>2, <3>3 DEF c
  <2> QED BY <2>1, <2>2 DEF FramesRising
<1> QED BY <1>1, <1>2, <1>3 DEF c

\* The oldest frame goes, the others stay behind it.
LEMMA FirstFrame ==
  ASSUME NEW frames \in Seq(Frames), frames # <<>>, FramesRising(frames)
  PROVE  /\ Head(frames) \in Frames /\ Tail(frames) \in Seq(Frames)
         /\ Rising(Head(frames)) /\ FramesRising(Tail(frames))
         /\ UnitsIn(frames) = UnitsOf(Head(frames)) \cup UnitsIn(Tail(frames))
         /\ Below(UnitsOf(Head(frames)), UnitsIn(Tail(frames)))
<1>1. /\ Len(frames) \in Nat \ {0} /\ Head(frames) = frames[1]
      /\ Head(frames) \in Frames /\ Tail(frames) \in Seq(Frames)
      /\ Len(Tail(frames)) = Len(frames) - 1
      /\ \A i \in 1 .. Len(Tail(frames)) : Tail(frames)[i] = frames[i + 1]
  BY HeadTailProperties, EmptySeq
<1> DEFINE h == Head(frames)
           t == Tail(frames)
<1> HIDE DEF h, t
<1>2. Rising(h) /\ FramesRising(t)
  BY <1>1 DEF FramesRising, h, t
<1>3. UnitsIn(frames) = UnitsOf(h) \cup UnitsIn(t)
  <2>1. \A i \in 1 .. Len(frames) : i = 1 \/ (frames[i] = t[i - 1] /\ i - 1 \in 1 .. Len(t))
    BY <1>1 DEF t
  <2>2. UnitsIn(frames) \subseteq UnitsOf(h) \cup UnitsIn(t)
    BY <1>1, <2>1 DEF UnitsIn, h
  <2>3. \A i \in 1 .. Len(t) : t[i] = frames[i + 1] /\ i + 1 \in 1 .. Len(frames)
    BY <1>1 DEF t
  <2>4. 1 \in 1 .. Len(frames) /\ h = frames[1]
    BY <1>1 DEF h
  <2> QED BY <2>2, <2>3, <2>4 DEF UnitsIn
<1>4. Below(UnitsOf(h), UnitsIn(t))
  <2>1. \A i \in 1 .. Len(t) : Below(UnitsOf(h), UnitsOf(t[i]))
    BY <1>1 DEF FramesRising, h, t
  <2> QED BY <2>1 DEF Below, UnitsIn
<1> QED BY <1>1, <1>2, <1>3, <1>4 DEF h, t

\* ReconnectBuffer::push drops the oldest frames and reorders none.
LEMMA PushUnits ==
  ASSUME NEW held \in Seq(Frames), NEW frames \in Seq(Frames),
         FramesRising(held), FramesRising(frames), Below(UnitsIn(held), UnitsIn(frames))
  PROVE  /\ Push(held, frames) \in Seq(Frames)
         /\ UnitsIn(Push(held, frames)) \subseteq UnitsIn(held) \cup UnitsIn(frames)
         /\ FramesRising(Push(held, frames))
<1> DEFINE all == held \o frames
           m == Len(all) - Capacity + 1
<1>1. /\ all \in Seq(Frames) /\ Len(all) \in Nat /\ Capacity \in Nat \ {0}
      /\ UnitsIn(all) = UnitsIn(held) \cup UnitsIn(frames) /\ FramesRising(all)
  BY SizesAssumption, ConcatFrames, LenProperties
<1> HIDE DEF all
<1>2. Push(held, frames) = IF Len(all) > Capacity THEN SubSeq(all, m, Len(all)) ELSE all
  BY DEF Push, all
<1>3. CASE Len(all) > Capacity
  <2> DEFINE kept == SubSeq(all, m, Len(all))
  <2>1. m \in Int /\ m >= 1 /\ m <= Len(all)
    BY <1>1, <1>3
  <2>2. \A i \in m .. Len(all) : all[i] \in Frames
    BY <1>1, <2>1, ElementOfSeq
  <2>3. /\ kept \in Seq(Frames) /\ Len(kept) = Len(all) - m + 1
        /\ \A i \in 1 .. Len(all) - m + 1 : kept[i] = all[m + i - 1]
    BY <1>1, <2>1, <2>2, SubSeqProperties
  <2> HIDE DEF kept, m
  <2>4. \A i \in 1 .. Len(kept) : kept[i] = all[m + i - 1] /\ m + i - 1 \in 1 .. Len(all)
    BY <1>1, <2>1, <2>3
  <2>5. UnitsIn(kept) \subseteq UnitsIn(all)
    BY <2>4 DEF UnitsIn
  <2>6. FramesRising(kept)
    <3>1. \A i, j \in 1 .. Len(kept) : i < j => m + i - 1 < m + j - 1
      BY <1>1, <2>1, <2>3
    <3> QED BY <1>1, <2>4, <3>1 DEF FramesRising
  <2> QED BY <1>1, <1>2, <1>3, <2>3, <2>5, <2>6 DEF kept, m
<1>4. CASE Len(all) <= Capacity
  BY <1>1, <1>2, <1>4
<1> QED BY <1>1, <1>3, <1>4

\* FrameAssembler::push: the frames and the remainder are what it was given, and
\* the remainder comes last.
LEMMA CutUnits ==
  ASSUME NEW pcm \in Seq(Nat), Rising(pcm)
  PROVE  /\ Cut(pcm) \in Seq(Frames) /\ Rest(pcm) \in Seq(Nat)
         /\ UnitsIn(Cut(pcm)) \cup UnitsOf(Rest(pcm)) = UnitsOf(pcm)
         /\ FramesRising(Cut(pcm)) /\ Rising(Rest(pcm))
         /\ Below(UnitsIn(Cut(pcm)), UnitsOf(Rest(pcm)))
<1> DEFINE n == Len(pcm) \div FrameUnits
           m == FrameUnits * n
           frames == Cut(pcm)
           left == Rest(pcm)
<1>1. /\ Len(pcm) \in Nat /\ FrameUnits \in Nat \ {0}
      /\ n \in Nat /\ m \in Nat /\ m <= Len(pcm)
      /\ frames \in Seq(Frames) /\ Len(frames) = n
      /\ left \in Seq(Nat)
  BY SizesAssumption, LenProperties, DivisionBounds, CutType, RestType
<1>2. \A i \in 1 .. n : \A j \in 1 .. FrameUnits : frames[i][j] = pcm[(i - 1) * FrameUnits + j]
  BY DEF Cut
<1>3. ASSUME NEW i \in 1 .. n, NEW j \in 1 .. FrameUnits
      PROVE  /\ (i - 1) * FrameUnits + j \in 1 .. m
             /\ (i - 1) * FrameUnits + j <= i * FrameUnits
             /\ (i - 1) * FrameUnits \in Nat
  <2>0. n \in Nat /\ FrameUnits \in Nat /\ i \in 1 .. n /\ j \in 1 .. FrameUnits /\ m = FrameUnits * n
    BY <1>1
  <2> HIDE DEF n, m
  <2>1. /\ (i - 1) * FrameUnits + FrameUnits = i * FrameUnits
        /\ i * FrameUnits <= n * FrameUnits
        /\ n * FrameUnits = m
        /\ (i - 1) * FrameUnits \in Nat
    BY <2>0
  <2> DEFINE a == (i - 1) * FrameUnits
             b == i * FrameUnits
             c == n * FrameUnits
  <2>2. a + FrameUnits = b /\ b <= c /\ c = m /\ a \in Nat /\ m \in Nat
    BY <1>1, <2>1
  <2>3. b \in Int
    BY <2>0
  <2> HIDE DEF a, b, c
  <2>4. a + j \in 1 .. m /\ a + j <= b /\ a \in Nat
    BY <2>0, <2>2, <2>3
  <2> QED BY <2>4 DEF a, b
<1>4. /\ Len(left) = Len(pcm) - m
      /\ \A i \in 1 .. Len(left) : left[i] = pcm[m + i]
  <2>1. left = SubSeq(pcm, m + 1, Len(pcm))
    BY DEF Rest
  <2> HIDE DEF n, m, left
  <2>2. \A i \in m + 1 .. Len(pcm) : pcm[i] \in Nat
    BY <1>1, ElementOfSeq
  <2>3. /\ Len(left) = IF m + 1 <= Len(pcm) THEN Len(pcm) - (m + 1) + 1 ELSE 0
        /\ \A i \in 1 .. Len(pcm) - (m + 1) + 1 : left[i] = pcm[m + 1 + i - 1]
    BY <1>1, <2>1, <2>2, SubSeqProperties
  <2>4. m \in Nat /\ Len(pcm) \in Nat /\ m <= Len(pcm)
    BY <1>1
  <2>5. Len(left) = Len(pcm) - m
    BY <2>3, <2>4
  <2>6. \A i \in 1 .. Len(left) : i \in 1 .. Len(pcm) - (m + 1) + 1 /\ m + 1 + i - 1 = m + i
    BY <2>4, <2>5
  <2> QED BY <2>3, <2>5, <2>6
<1> HIDE DEF n, m, frames, left
<1>5. ASSUME NEW i \in 1 .. n
      PROVE  /\ frames[i] \in Frames /\ Len(frames[i]) = FrameUnits
             /\ \A j \in 1 .. FrameUnits :
                  frames[i][j] = pcm[(i - 1) * FrameUnits + j]
  BY <1>1, <1>2, ElementOfSeq, FrameFacts
<1>0. m \in Nat /\ Len(pcm) \in Nat /\ m <= Len(pcm)
  BY <1>1
<1>6. \A x \in UnitsIn(frames) : \E k \in 1 .. m : x = pcm[k]
  <2> SUFFICES ASSUME NEW x \in UnitsIn(frames) PROVE \E k \in 1 .. m : x = pcm[k]
    OBVIOUS
  <2>1. PICK i \in 1 .. n : x \in UnitsOf(frames[i])
    BY <1>1, UnitsFacts
  <2>2. PICK j \in 1 .. FrameUnits : x = frames[i][j]
    BY <1>5, <2>1 DEF UnitsOf
  <2>3. x = pcm[(i - 1) * FrameUnits + j]
    BY <1>5, <2>2
  <2>4. (i - 1) * FrameUnits + j \in 1 .. m
    BY <1>3
  <2> QED BY <2>3, <2>4
<1>7. \A x \in UnitsOf(left) : \E k \in m + 1 .. Len(pcm) : x = pcm[k]
  <2>1. \A i \in 1 .. Len(left) : m + i \in m + 1 .. Len(pcm)
    BY <1>0, <1>4
  <2> QED BY <1>4, <2>1 DEF UnitsOf
<1>8. UnitsIn(frames) \cup UnitsOf(left) \subseteq UnitsOf(pcm)
  <2>1. 1 .. m \subseteq 1 .. Len(pcm) /\ m + 1 .. Len(pcm) \subseteq 1 .. Len(pcm)
    BY <1>0
  <2> QED BY <1>6, <1>7, <2>1 DEF UnitsOf
<1>9. Below(UnitsIn(frames), UnitsOf(left))
  <2> SUFFICES ASSUME NEW k \in 1 .. m, NEW l \in m + 1 .. Len(pcm) PROVE pcm[k] < pcm[l]
    BY <1>6, <1>7 DEF Below
  <2>1. k \in 1 .. Len(pcm) /\ l \in 1 .. Len(pcm) /\ k < l
    BY <1>0
  <2> QED BY <2>1 DEF Rising
<1>10. Rising(left)
  <2> SUFFICES ASSUME NEW i \in 1 .. Len(left), NEW j \in 1 .. Len(left), i < j
               PROVE  left[i] < left[j]
    BY DEF Rising
  <2>1. m + i \in 1 .. Len(pcm) /\ m + j \in 1 .. Len(pcm) /\ m + i < m + j
    BY <1>0, <1>4
  <2>2. pcm[m + i] < pcm[m + j]
    BY <2>1 DEF Rising
  <2> QED BY <1>4, <2>2
<1>11. FramesRising(frames)
  <2>1. ASSUME NEW i \in 1 .. n PROVE Rising(frames[i])
    <3> SUFFICES ASSUME NEW j \in 1 .. FrameUnits, NEW k \in 1 .. FrameUnits, j < k
                 PROVE  frames[i][j] < frames[i][k]
      BY <1>5 DEF Rising
    <3> DEFINE a == (i - 1) * FrameUnits
    <3>1. a \in Nat /\ a + j \in 1 .. m /\ a + k \in 1 .. m
      BY <1>3
    <3>2. frames[i][j] = pcm[a + j] /\ frames[i][k] = pcm[a + k]
      BY <1>5
    <3> HIDE DEF a
    <3>3. a + j \in 1 .. Len(pcm) /\ a + k \in 1 .. Len(pcm) /\ a + j < a + k
      BY <1>0, <1>1, <3>1
    <3> QED BY <3>2, <3>3 DEF Rising
  <2>2. ASSUME NEW i \in 1 .. n, NEW k \in 1 .. n, i < k
        PROVE  Below(UnitsOf(frames[i]), UnitsOf(frames[k]))
    <3>0. /\ UnitsOf(frames[i]) = {frames[i][j] : j \in 1 .. FrameUnits}
          /\ UnitsOf(frames[k]) = {frames[k][l] : l \in 1 .. FrameUnits}
      BY <1>5 DEF UnitsOf
    <3> SUFFICES ASSUME NEW j \in 1 .. FrameUnits, NEW l \in 1 .. FrameUnits
                 PROVE  frames[i][j] < frames[k][l]
      BY <3>0 DEF Below
    <3> DEFINE a == (i - 1) * FrameUnits + j
               b == (k - 1) * FrameUnits + l
    <3>1. a \in 1 .. m /\ b \in 1 .. m /\ a <= i * FrameUnits /\ (k - 1) * FrameUnits \in Nat
      BY <1>3
    <3>2. i * FrameUnits <= (k - 1) * FrameUnits
      BY <1>1, <2>2
    <3>3. i * FrameUnits \in Nat
      BY <1>1
    <3> DEFINE d == (k - 1) * FrameUnits
               e == i * FrameUnits
    <3>6. a \in Nat /\ e \in Nat /\ d \in Nat /\ a <= e /\ e <= d /\ b = d + l /\ l \in Nat \ {0}
      BY <1>1, <3>1, <3>2, <3>3
    <3> HIDE DEF a, b, d, e
    <3>4. a < b
      BY <3>6
    <3> USE DEF a, b
    <3>5. frames[i][j] = pcm[a] /\ frames[k][l] = pcm[b]
      BY <1>5
    <3> HIDE DEF a, b
    <3>7. a \in 1 .. Len(pcm) /\ b \in 1 .. Len(pcm)
      BY <1>0, <3>1
    <3> QED BY <3>4, <3>5, <3>7 DEF Rising
  <2> QED BY <1>1, <2>1, <2>2 DEF FramesRising
<1>12. ASSUME NEW k \in 1 .. Len(pcm)
       PROVE  pcm[k] \in UnitsIn(frames) \cup UnitsOf(left)
  <2>1. CASE k > m
    <3>1. k - m \in 1 .. Len(left) /\ m + (k - m) = k
      BY <1>0, <1>4, <2>1
    <3>2. left[k - m] = pcm[k]
      BY <1>4, <3>1
    <3> QED BY <3>1, <3>2 DEF UnitsOf
  <2>2. CASE k <= m
    <3> DEFINE q == (k - 1) \div FrameUnits
               a == FrameUnits * q
    <3>0. k - 1 \in Nat
      BY <1>0
    <3>1. q \in Nat /\ a \in Nat /\ a <= k - 1 /\ k - 1 < a + FrameUnits
      BY <1>1, <3>0, DivisionBounds
    <3>2. ((q + 1) - 1) * FrameUnits = a
      <4> HIDE DEF q
      <4>1. (q + 1) - 1 = q
        BY <3>1
      <4> QED BY <1>1, <3>1, <4>1
    <3>3. q < n
      <4>1. CASE n <= q
        <5>1. FrameUnits * n <= FrameUnits * q
          <6> HIDE DEF q
          <6> QED BY <1>1, <3>1, <4>1
        <5>2. m <= a
          BY <5>1 DEF m
        <5> QED BY <1>0, <2>2, <3>1, <5>2
      <4> QED BY <1>1, <3>1, <4>1
    <3> HIDE DEF q, a
    <3>4. q + 1 \in 1 .. n /\ k - a \in 1 .. FrameUnits /\ a + (k - a) = k
      BY <1>1, <3>1, <3>3
    <3>5. frames[q + 1] \in Frames /\ Len(frames[q + 1]) = FrameUnits
          /\ frames[q + 1][k - a] = pcm[k]
      BY <1>5, <3>2, <3>4
    <3>6. pcm[k] \in UnitsOf(frames[q + 1])
      BY <3>4, <3>5 DEF UnitsOf
    <3> QED BY <1>1, <3>4, <3>6 DEF UnitsIn
  <2> QED BY <1>0, <2>1, <2>2
<1>13. UnitsOf(pcm) \subseteq UnitsIn(frames) \cup UnitsOf(left)
  BY <1>12 DEF UnitsOf
<1> QED BY <1>1, <1>8, <1>9, <1>10, <1>11, <1>13 DEF frames, left

-----------------------------------------------------------------------------
(* The command channel *)

QueueRising(queue) ==
  /\ \A i \in Chunks(queue) : Rising(queue[i].pcm)
  /\ \A i, j \in Chunks(queue) : i < j => Below(UnitsOf(queue[i].pcm), UnitsOf(queue[j].pcm))

\* The commands that change the task's session, and to which.
Boundary(command) == command.op \in {"Start", "End"}
After(command) == IF command.op = "Start" THEN command.session ELSE Nothing

\* A task in session `from` is in session s when it comes to the i-th command.
Finds(queue, from, i, s) ==
  /\ \A j \in 1 .. i - 1 :
       (Boundary(queue[j]) /\ \A k \in j + 1 .. i - 1 : ~Boundary(queue[k]))
         => s = After(queue[j])
  /\ (\A j \in 1 .. i - 1 : ~Boundary(queue[j])) => s = from

\* A command leaves the channel.
LEMMA FirstCommand ==
  ASSUME NEW queue \in Seq(Commands), queue # <<>>
  PROVE  /\ UnitsQueued(Tail(queue)) \subseteq UnitsQueued(queue)
         /\ Head(queue).op = "Chunk" => UnitsOf(Head(queue).pcm) \subseteq UnitsQueued(queue)
         /\ QueueRising(queue) =>
              /\ QueueRising(Tail(queue))
              /\ Head(queue).op = "Chunk" =>
                   /\ Rising(Head(queue).pcm)
                   /\ Below(UnitsOf(Head(queue).pcm), UnitsQueued(Tail(queue)))
<1> DEFINE h == Head(queue)
           t == Tail(queue)
<1>1. /\ Len(queue) \in Nat \ {0} /\ h = queue[1] /\ Len(t) = Len(queue) - 1
      /\ \A i \in 1 .. Len(t) : t[i] = queue[i + 1] /\ i + 1 \in 1 .. Len(queue)
  BY HeadTailProperties, EmptySeq
<1> HIDE DEF h, t
<1>2. \A i \in Chunks(t) : i \in Nat /\ i + 1 \in Chunks(queue) /\ t[i] = queue[i + 1]
  BY <1>1 DEF Chunks
<1>3. h.op = "Chunk" => 1 \in Chunks(queue) /\ h = queue[1]
  BY <1>1 DEF Chunks
<1>4. UnitsQueued(t) \subseteq UnitsQueued(queue)
  BY <1>2 DEF UnitsQueued
<1>5. h.op = "Chunk" => UnitsOf(h.pcm) \subseteq UnitsQueued(queue)
  BY <1>3 DEF UnitsQueued
<1>6. ASSUME QueueRising(queue)
      PROVE  QueueRising(t)
  <2>1. \A i, j \in Chunks(t) : i < j => i + 1 < j + 1
    BY <1>2
  <2> QED BY <1>2, <1>6, <2>1 DEF QueueRising
<1>7. ASSUME QueueRising(queue), h.op = "Chunk"
      PROVE  Rising(h.pcm) /\ Below(UnitsOf(h.pcm), UnitsQueued(t))
  <2>1. \A i \in Chunks(t) : 1 < i + 1
    BY <1>1 DEF Chunks
  <2>2. \A i \in Chunks(t) : Below(UnitsOf(h.pcm), UnitsOf(t[i].pcm))
    BY <1>2, <1>3, <1>7, <2>1 DEF QueueRising
  <2>3. Below(UnitsOf(h.pcm), UnitsQueued(t))
    BY <2>2 DEF UnitsQueued, Below
  <2> QED BY <1>3, <1>7, <2>3 DEF QueueRising
<1> QED BY <1>4, <1>5, <1>6, <1>7 DEF h, t

\* A command enters the channel.
LEMMA LastCommand ==
  ASSUME NEW queue \in Seq(Commands), NEW c \in Commands
  PROVE  LET longer == Append(queue, c) IN
         /\ c.op # "Chunk" =>
              /\ UnitsQueued(longer) = UnitsQueued(queue)
              /\ QueueRising(queue) => QueueRising(longer)
         /\ c.op = "Chunk" =>
              /\ UnitsQueued(longer) = UnitsQueued(queue) \cup UnitsOf(c.pcm)
              /\ (QueueRising(queue) /\ Rising(c.pcm) /\ Below(UnitsQueued(queue), UnitsOf(c.pcm)))
                   => QueueRising(longer)
<1> DEFINE longer == Append(queue, c)
           n == Len(queue)
<1>1. /\ n \in Nat /\ Len(longer) = n + 1 /\ longer[n + 1] = c
      /\ \A i \in 1 .. n : longer[i] = queue[i]
  BY LenProperties, AppendProperties
<1> HIDE DEF longer, n
<1>2. Chunks(queue) \subseteq 1 .. n
  BY DEF Chunks, n
<1>3. CASE c.op # "Chunk"
  <2>1. Chunks(longer) = Chunks(queue)
    BY <1>1, <1>3 DEF Chunks, n
  <2>2. \A i \in Chunks(queue) : longer[i] = queue[i]
    BY <1>1, <1>2
  <2>3. UnitsQueued(longer) = UnitsQueued(queue)
    BY <2>1, <2>2 DEF UnitsQueued
  <2>4. QueueRising(queue) => QueueRising(longer)
    BY <2>1, <2>2 DEF QueueRising
  <2> QED BY <1>3, <2>3, <2>4 DEF longer
<1>4. CASE c.op = "Chunk"
  <2>1. Chunks(longer) = Chunks(queue) \cup {n + 1}
    BY <1>1, <1>4 DEF Chunks, n
  <2>2. \A i \in Chunks(queue) : longer[i] = queue[i] /\ i < n + 1 /\ i \in Nat
    BY <1>1, <1>2
  <2>3. UnitsQueued(longer) = UnitsQueued(queue) \cup UnitsOf(c.pcm)
    <3>1. UnitsQueued(longer) \subseteq UnitsQueued(queue) \cup UnitsOf(c.pcm)
      BY <1>1, <2>1, <2>2 DEF UnitsQueued
    <3>2. UnitsQueued(queue) \cup UnitsOf(c.pcm) \subseteq UnitsQueued(longer)
      BY <1>1, <2>1, <2>2 DEF UnitsQueued
    <3> QED BY <3>1, <3>2
  <2>4. ASSUME QueueRising(queue), Rising(c.pcm), Below(UnitsQueued(queue), UnitsOf(c.pcm))
        PROVE  QueueRising(longer)
    <3>1. \A i \in Chunks(longer) : Rising(longer[i].pcm)
      BY <1>1, <2>1, <2>2, <2>4 DEF QueueRising
    <3>2. ASSUME NEW i \in Chunks(longer), NEW j \in Chunks(longer), i < j
          PROVE  Below(UnitsOf(longer[i].pcm), UnitsOf(longer[j].pcm))
      <4>1. i \in Chunks(queue)
        BY <1>1, <2>1, <2>2, <3>2
      <4>2. CASE j \in Chunks(queue)
        BY <2>2, <2>4, <3>2, <4>1, <4>2 DEF QueueRising
      <4>3. CASE j = n + 1
        <5>1. UnitsOf(longer[i].pcm) \subseteq UnitsQueued(queue)
          BY <2>2, <4>1 DEF UnitsQueued
        <5> QED BY <1>1, <2>4, <4>3, <5>1 DEF Below
      <4> QED BY <2>1, <4>2, <4>3
    <3> QED BY <3>1, <3>2 DEF QueueRising
  <2> QED BY <1>4, <2>3, <2>4 DEF longer
<1> QED BY <1>3, <1>4

\* What a command finds does not change as those before it are read.
LEMMA FindsNext ==
  ASSUME NEW queue \in Seq(Commands), queue # <<>>, NEW from, NEW s,
         NEW i \in 2 .. Len(queue) + 1, Finds(queue, from, i, s)
  PROVE  Finds(Tail(queue), IF Boundary(Head(queue)) THEN After(Head(queue)) ELSE from,
               i - 1, s)
<1> DEFINE h == Head(queue)
           t == Tail(queue)
           start == IF Boundary(h) THEN After(h) ELSE from
<1>1. /\ Len(queue) \in Nat \ {0} /\ h = queue[1] /\ Len(t) = Len(queue) - 1
      /\ \A k \in 1 .. Len(t) : t[k] = queue[k + 1]
      /\ i \in Nat /\ i <= Len(queue) + 1 /\ i >= 2
  BY HeadTailProperties, EmptySeq
<1> HIDE DEF h, t
<1>2. \A k \in 1 .. i - 1 - 1 : t[k] = queue[k + 1] /\ k + 1 \in 1 .. i - 1
  BY <1>1
<1>3. ASSUME NEW j \in 1 .. i - 1 - 1, Boundary(t[j]),
             \A k \in j + 1 .. i - 1 - 1 : ~Boundary(t[k])
      PROVE  s = After(t[j])
  <2>1. ASSUME NEW k \in j + 1 + 1 .. i - 1 PROVE ~Boundary(queue[k])
    <3>1. k - 1 \in j + 1 .. i - 1 - 1 /\ k - 1 \in 1 .. i - 1 - 1 /\ k - 1 + 1 = k
      BY <1>1
    <3> QED BY <1>2, <1>3, <3>1
  <2> QED BY <1>2, <1>3, <2>1 DEF Finds
<1>4. ASSUME \A j \in 1 .. i - 1 - 1 : ~Boundary(t[j])
      PROVE  s = start
  <2>1. ASSUME NEW k \in 1 + 1 .. i - 1 PROVE ~Boundary(queue[k])
    <3>1. k - 1 \in 1 .. i - 1 - 1 /\ k - 1 + 1 = k
      BY <1>1
    <3> QED BY <1>2, <1>4, <3>1
  <2>2. 1 \in 1 .. i - 1
    BY <1>1
  <2>3. CASE Boundary(h)
    BY <1>1, <2>1, <2>2, <2>3 DEF Finds
  <2>4. CASE ~Boundary(h)
    <3>1. \A k \in 1 .. i - 1 : k = 1 \/ k \in 1 + 1 .. i - 1
      BY <1>1
    <3>2. \A k \in 1 .. i - 1 : ~Boundary(queue[k])
      BY <1>1, <2>1, <2>4, <3>1
    <3> QED BY <2>4, <3>2 DEF Finds
  <2> QED BY <2>3, <2>4
<1> HIDE DEF start
<1>5. Finds(t, start, i - 1, s)
  BY <1>3, <1>4 DEF Finds
<1> QED BY <1>5 DEF start, h, t

\* Nor as others are queued behind it.
LEMMA FindsLonger ==
  ASSUME NEW queue \in Seq(Commands), NEW c \in Commands, NEW from, NEW s,
         NEW i \in 1 .. Len(queue) + 1, Finds(queue, from, i, s)
  PROVE  Finds(Append(queue, c), from, i, s)
<1> DEFINE longer == Append(queue, c)
<1>1. \A k \in 1 .. Len(queue) : longer[k] = queue[k]
  BY AppendProperties
<1>2. Len(queue) \in Nat
  BY LenProperties
<1>3. \A k \in 1 .. i - 1 : k \in 1 .. Len(queue)
  BY <1>2
<1>4. \A j \in 1 .. i - 1 : \A k \in j + 1 .. i - 1 : k \in 1 .. i - 1
  BY <1>2
<1> HIDE DEF longer
<1>5. \A k \in 1 .. i - 1 : longer[k] = queue[k]
  BY <1>1, <1>3
<1>6. \A j \in 1 .. i - 1 : \A k \in j + 1 .. i - 1 : longer[k] = queue[k]
  BY <1>4, <1>5
<1>7. Finds(longer, from, i, s)
  BY <1>5, <1>6 DEF Finds
<1> QED BY <1>7 DEF longer

\* The next command to be queued will find what the last boundary leaves.
LEMMA FindsLast ==
  ASSUME NEW queue \in Seq(Commands), NEW c \in Commands, NEW from, NEW s,
         Finds(queue, from, Len(queue) + 1, s)
  PROVE  Finds(Append(queue, c), from, Len(queue) + 2, IF Boundary(c) THEN After(c) ELSE s)
<1> DEFINE longer == Append(queue, c)
           n == Len(queue)
           last == IF Boundary(c) THEN After(c) ELSE s
<1>1. /\ n \in Nat /\ longer[n + 1] = c
      /\ \A k \in 1 .. n : longer[k] = queue[k]
  BY AppendProperties, LenProperties
<1> HIDE DEF longer
<1>2. (n + 2) - 1 = n + 1 /\ (n + 1) - 1 = n
  BY <1>1
<1>3. ASSUME NEW j \in 1 .. n + 1, Boundary(longer[j]),
             \A k \in j + 1 .. n + 1 : ~Boundary(longer[k])
      PROVE  last = After(longer[j])
  <2>1. CASE j = n + 1
    BY <1>1, <1>3, <2>1
  <2>2. CASE j \in 1 .. n
    <3>1. n + 1 \in j + 1 .. n + 1 /\ \A k \in j + 1 .. n : k \in j + 1 .. n + 1 /\ k \in 1 .. n
      BY <1>1, <2>2
    <3>2. ~Boundary(c) /\ \A k \in j + 1 .. n : ~Boundary(queue[k])
      BY <1>1, <1>3, <3>1
    <3>3. longer[j] = queue[j] /\ Boundary(queue[j])
      BY <1>1, <1>3, <2>2
    <3>4. s = After(queue[j])
      BY <1>2, <2>2, <3>2, <3>3 DEF Finds
    <3> QED BY <3>2, <3>3, <3>4
  <2>3. j = n + 1 \/ j \in 1 .. n
    BY <1>1
  <2> QED BY <2>1, <2>2, <2>3
<1>4. ASSUME \A j \in 1 .. n + 1 : ~Boundary(longer[j])
      PROVE  last = from
  <2>1. n + 1 \in 1 .. n + 1 /\ \A j \in 1 .. n : j \in 1 .. n + 1
    BY <1>1
  <2>2. ~Boundary(c) /\ \A j \in 1 .. n : ~Boundary(queue[j])
    BY <1>1, <1>4, <2>1
  <2>3. s = from
    BY <1>2, <2>2 DEF Finds
  <2> QED BY <2>2, <2>3
<1> HIDE DEF last, n
<1>5. Finds(longer, from, n + 2, last)
  <2>1. \A j \in 1 .. (n + 2) - 1 :
          (Boundary(longer[j]) /\ \A k \in j + 1 .. (n + 2) - 1 : ~Boundary(longer[k]))
            => last = After(longer[j])
    BY <1>2, <1>3
  <2>2. (\A j \in 1 .. (n + 2) - 1 : ~Boundary(longer[j])) => last = from
    BY <1>2, <1>4
  <2> QED BY <2>1, <2>2 DEF Finds
<1> QED BY <1>5 DEF longer, n, last

-----------------------------------------------------------------------------
(* What the task has in hand *)

Buffered == OrEmpty(buffer)
Left == OrEmpty(assembler)
Framed == UnitsIn(Buffered) \cup UnitsIn(sending)
InHand == Framed \cup UnitsOf(Left)

\* From the backlog to the end of the channel, units are in order.
Hands ==
  /\ FramesRising(Buffered) /\ FramesRising(sending) /\ Rising(Left) /\ QueueRising(commands)
  /\ Below(Framed, UnitsOf(Left))
  /\ Below(InHand, UnitsQueued(commands))

\* What is in hand was spoken in the task's session, and what is queued in the
\* session the task will be in when it comes to it.
QueueTheirs ==
  \A i \in Chunks(commands) :
    \E s \in Sessions \cup {Nothing} :
      /\ Finds(commands, session, i, s)
      /\ \A n \in UnitsOf(commands[i].pcm) : owner[n] = s
CurrentIsLast == Running => Finds(commands, session, Len(commands) + 1, current)
HandTheirs == \A n \in InHand : owner[n] = session
Theirs == QueueTheirs /\ CurrentIsLast /\ HandTheirs

LEMMA EmptyUnits ==
  /\ UnitsOf(<<>>) = {} /\ UnitsIn(<<>>) = {} /\ Rising(<<>>) /\ FramesRising(<<>>)
  /\ OrEmpty(<<>>) = <<>> /\ OrEmpty(Nothing) = <<>>
BY DEF UnitsOf, UnitsIn, Rising, FramesRising, OrEmpty

LEMMA HandTypes ==
  ASSUME TypeOK
  PROVE  /\ Buffered \in Seq(Frames) /\ Left \in Seq(Nat) /\ sending \in Seq(Frames)
         /\ commands \in Seq(Commands)
         /\ buffer # Nothing => Buffered = buffer
         /\ assembler # Nothing => Left = assembler
<1>1. <<>> \in Seq(Frames) /\ <<>> \in Seq(Nat)
  OBVIOUS
<1> QED BY <1>1 DEF TypeOK, Buffered, Left, OrEmpty

\* The task reads a command, and is in the session that command leaves.
LEMMA TakesCommand ==
  ASSUME TypeOK, Hands, Theirs, Running, commands # <<>>, commands' = Tail(commands),
         session' = IF Boundary(Head(commands)) THEN After(Head(commands)) ELSE session,
         UNCHANGED <<owner, current>>
  PROVE  /\ QueueRising(commands') /\ UnitsQueued(commands') \subseteq UnitsQueued(commands)
         /\ QueueTheirs' /\ CurrentIsLast'
         /\ Head(commands).op = "Chunk" =>
              LET units == UnitsOf(Head(commands).pcm) IN
              /\ Head(commands).pcm \in Seq(Nat) /\ Rising(Head(commands).pcm)
              /\ Below(InHand, units) /\ Below(units, UnitsQueued(commands'))
              /\ units \subseteq UnitsQueued(commands)
              /\ \A n \in units : owner[n] = session
<1> DEFINE h == Head(commands)
           t == Tail(commands)
<1>1. /\ commands \in Seq(Commands) /\ h = commands[1] /\ h \in Commands
      /\ Len(commands) \in Nat \ {0} /\ Len(t) = Len(commands) - 1
      /\ \A i \in 1 .. Len(t) : t[i] = commands[i + 1]
  BY HeadTailProperties, EmptySeq DEF TypeOK
<1>2. QueueRising(t) /\ UnitsQueued(t) \subseteq UnitsQueued(commands)
  BY <1>1, FirstCommand DEF Hands
<1>3. QueueTheirs'
  <2> SUFFICES ASSUME NEW i \in Chunks(t)
               PROVE  \E s \in Sessions \cup {Nothing} :
                        /\ Finds(t, session', i, s)
                        /\ \A n \in UnitsOf(t[i].pcm) : owner[n] = s
    BY DEF QueueTheirs
  <2>1. /\ i \in Nat /\ i + 1 \in 2 .. Len(commands) + 1 /\ (i + 1) - 1 = i
        /\ i + 1 \in Chunks(commands) /\ t[i] = commands[i + 1]
    BY <1>1 DEF Chunks
  <2>2. PICK s \in Sessions \cup {Nothing} :
          /\ Finds(commands, session, i + 1, s)
          /\ \A n \in UnitsOf(commands[i + 1].pcm) : owner[n] = s
    BY <2>1 DEF Theirs, QueueTheirs
  <2>3. Finds(t, session', (i + 1) - 1, s)
    BY <1>1, <2>1, <2>2, FindsNext
  <2> QED BY <2>1, <2>2, <2>3
<1>4. CurrentIsLast'
  <2>1. Finds(commands, session, Len(commands) + 1, current)
    BY DEF Theirs, CurrentIsLast
  <2>2. /\ Len(commands) + 1 \in 2 .. Len(commands) + 1
        /\ (Len(commands) + 1) - 1 = Len(t) + 1
    BY <1>1
  <2>3. Finds(t, session', (Len(commands) + 1) - 1, current)
    BY <1>1, <2>1, <2>2, FindsNext
  <2> QED BY <2>2, <2>3 DEF CurrentIsLast
<1>5. ASSUME h.op = "Chunk"
      PROVE  LET units == UnitsOf(h.pcm) IN
             /\ h.pcm \in Seq(Nat) /\ Rising(h.pcm)
             /\ Below(InHand, units) /\ Below(units, UnitsQueued(t))
             /\ units \subseteq UnitsQueued(commands)
             /\ \A n \in units : owner[n] = session
  <2>1. h.pcm \in Seq(Nat)
    BY <1>1, <1>5 DEF Commands
  <2>2. /\ Rising(h.pcm) /\ Below(UnitsOf(h.pcm), UnitsQueued(t))
        /\ UnitsOf(h.pcm) \subseteq UnitsQueued(commands)
    BY <1>1, <1>5, FirstCommand DEF Hands
  <2>3. Below(InHand, UnitsOf(h.pcm))
    BY <2>2 DEF Hands, Below
  <2>4. 1 \in Chunks(commands)
    BY <1>1, <1>5 DEF Chunks
  <2>5. PICK s \in Sessions \cup {Nothing} :
          /\ Finds(commands, session, 1, s)
          /\ \A n \in UnitsOf(commands[1].pcm) : owner[n] = s
    BY <2>4 DEF Theirs, QueueTheirs
  <2>6. s = session
    BY <2>5 DEF Finds
  <2> QED BY <1>1, <2>1, <2>2, <2>3, <2>5, <2>6
<1> QED BY <1>2, <1>3, <1>4, <1>5

\* What every step of the task does to what it has in hand, other than sending.
Keeps ==
  /\ Hands' /\ Theirs' /\ HeldUnits' \subseteq HeldUnits
  /\ heard' = heard /\ owner' = owner

\* Steps that leave the hands alone.
LEMMA StillKeeps ==
  ASSUME Hands, Theirs, Running' => Running,
         UNCHANGED <<commands, session, buffer, assembler, sending, owner, current, heard>>
  PROVE  Keeps
<1>1. /\ Buffered' = Buffered /\ Left' = Left /\ Framed' = Framed /\ InHand' = InHand
      /\ HeldUnits' = HeldUnits
  BY DEF Buffered, Left, Framed, InHand, HeldUnits
<1>2. Hands'
  BY <1>1 DEF Hands
<1>3. Theirs'
  BY <1>1 DEF Theirs, QueueTheirs, CurrentIsLast, HandTheirs
<1> QED BY <1>1, <1>2, <1>3 DEF Keeps

\* Steps that read a command, and keep the hands or empty them.
LEMMA ReadingKeeps ==
  ASSUME TypeOK, Hands, Theirs, Running, commands # <<>>, commands' = Tail(commands),
         session' = IF Boundary(Head(commands)) THEN After(Head(commands)) ELSE session,
         UNCHANGED <<owner, current, heard, sending>>,
         \/ UNCHANGED <<session, buffer, assembler>>
         \/ /\ sending = <<>>
            /\ buffer' \in {<<>>, Nothing} /\ assembler' \in {<<>>, Nothing}
  PROVE  Keeps
<1>1. /\ QueueRising(commands') /\ UnitsQueued(commands') \subseteq UnitsQueued(commands)
      /\ QueueTheirs' /\ CurrentIsLast'
  BY TakesCommand
<1>2. CASE UNCHANGED <<session, buffer, assembler>>
  <2>1. Buffered' = Buffered /\ Left' = Left /\ Framed' = Framed /\ InHand' = InHand
    BY <1>2 DEF Buffered, Left, Framed, InHand
  <2>2. Hands'
    BY <1>1, <2>1 DEF Hands, Below
  <2>3. HandTheirs'
    BY <1>2, <2>1 DEF Theirs, HandTheirs
  <2>4. HeldUnits' \subseteq HeldUnits
    BY <1>1, <2>1 DEF HeldUnits, InHand, Framed, Buffered, Left
  <2> QED BY <1>1, <2>2, <2>3, <2>4 DEF Keeps, Theirs
<1>3. CASE /\ sending = <<>>
           /\ buffer' \in {<<>>, Nothing} /\ assembler' \in {<<>>, Nothing}
  <2>1. Buffered' = <<>> /\ Left' = <<>> /\ sending' = <<>>
    BY <1>3, EmptyUnits DEF Buffered, Left
  <2>2. Framed' = {} /\ InHand' = {}
    BY <2>1, EmptyUnits DEF Framed, InHand
  <2>3. Hands'
    BY <1>1, <2>1, <2>2, EmptyUnits DEF Hands, Below
  <2>4. HandTheirs'
    BY <2>2 DEF HandTheirs
  <2>5. HeldUnits' = UnitsQueued(commands')
    BY <2>1, EmptyUnits DEF HeldUnits, Buffered, Left
  <2> QED BY <1>1, <2>3, <2>4, <2>5 DEF Keeps, Theirs, HeldUnits
<1> QED BY <1>2, <1>3

\* Steps that read a chunk into the assembler: its frames are sent or buffered.
LEMMA ChunkKeeps ==
  ASSUME TypeOK, Hands, Theirs, Running, Receive("Chunk"), assembler # Nothing, buffer # Nothing,
         UNCHANGED <<session, owner, current, heard>>,
         assembler' = Rest(assembler \o Head(commands).pcm),
         \/ /\ sending = <<>> /\ sending' = Cut(assembler \o Head(commands).pcm)
            /\ buffer' = buffer
            /\ buffer = <<>>
         \/ /\ buffer' = Push(buffer, Cut(assembler \o Head(commands).pcm))
            /\ sending' = sending /\ sending = <<>>,
         TypeOK'
  PROVE  Keeps
<1> DEFINE pcm == assembler \o Head(commands).pcm
           new == UnitsOf(Head(commands).pcm)
<1>1. /\ commands # <<>> /\ commands' = Tail(commands) /\ Head(commands).op = "Chunk"
      /\ ~Boundary(Head(commands))
  BY DEF Receive, Boundary
<1>2. /\ QueueRising(commands') /\ UnitsQueued(commands') \subseteq UnitsQueued(commands)
      /\ QueueTheirs' /\ CurrentIsLast'
      /\ Head(commands).pcm \in Seq(Nat) /\ Rising(Head(commands).pcm)
      /\ Below(InHand, new) /\ Below(new, UnitsQueued(commands'))
      /\ new \subseteq UnitsQueued(commands)
      /\ \A n \in new : owner[n] = session
  BY <1>1, TakesCommand
<1>3. /\ Buffered = buffer /\ Left = assembler /\ Buffered \in Seq(Frames) /\ Left \in Seq(Nat)
      /\ sending \in Seq(Frames)
  BY HandTypes
<1>4. /\ Rising(pcm) /\ pcm \in Seq(Nat) /\ UnitsOf(pcm) = UnitsOf(Left) \cup new
  <2>1. Rising(Left) /\ Below(UnitsOf(Left), new)
    BY <1>2 DEF Hands, InHand, Below
  <2> QED BY <1>2, <1>3, <2>1, ConcatUnits
<1>5. /\ Cut(pcm) \in Seq(Frames) /\ Rest(pcm) \in Seq(Nat)
      /\ UnitsIn(Cut(pcm)) \cup UnitsOf(Rest(pcm)) \subseteq UnitsOf(pcm)
      /\ FramesRising(Cut(pcm)) /\ Rising(Rest(pcm))
      /\ Below(UnitsIn(Cut(pcm)), UnitsOf(Rest(pcm)))
  BY <1>4, CutUnits
<1>6. /\ assembler' = Rest(pcm)
      /\ \/ sending = <<>> /\ sending' = Cut(pcm) /\ buffer' = buffer /\ buffer = <<>>
         \/ buffer' = Push(buffer, Cut(pcm)) /\ sending' = sending /\ sending = <<>>
  OBVIOUS
<1>7. Below(UnitsIn(Buffered), UnitsOf(pcm))
  BY <1>2, <1>4 DEF Hands, Framed, InHand, Below
<1> HIDE DEF pcm
<1>8. Left' = Rest(pcm)
  BY <1>5, <1>6, NothingIsNoSequence DEF Left, OrEmpty
<1>9. /\ FramesRising(Buffered') /\ FramesRising(sending')
      /\ Framed' \subseteq Framed \cup UnitsIn(Cut(pcm))
      /\ Below(Framed', UnitsOf(Rest(pcm)))
  <2>1. CASE sending = <<>> /\ sending' = Cut(pcm) /\ buffer' = buffer /\ buffer = <<>>
    <3>1. Buffered' = <<>>
      BY <2>1, EmptyUnits DEF Buffered
    <3>2. Framed' = UnitsIn(Cut(pcm))
      BY <2>1, <3>1, EmptyUnits DEF Framed
    <3> QED BY <1>5, <2>1, <3>1, <3>2, EmptyUnits
  <2>2. CASE buffer' = Push(buffer, Cut(pcm)) /\ sending' = sending /\ sending = <<>>
    <3>1. Below(UnitsIn(Buffered), UnitsIn(Cut(pcm))) /\ FramesRising(Buffered)
      BY <1>5, <1>7 DEF Hands, Below
    <3>2. /\ Push(Buffered, Cut(pcm)) \in Seq(Frames)
          /\ UnitsIn(Push(Buffered, Cut(pcm))) \subseteq UnitsIn(Buffered) \cup UnitsIn(Cut(pcm))
          /\ FramesRising(Push(Buffered, Cut(pcm)))
      BY <1>3, <1>5, <3>1, PushUnits
    <3>3. Buffered' = Push(Buffered, Cut(pcm))
      BY <1>3, <2>2, <3>2, NothingIsNoSequence DEF Buffered, OrEmpty
    <3>4. Framed' \subseteq UnitsIn(Buffered) \cup UnitsIn(Cut(pcm))
      BY <2>2, <3>2, <3>3, EmptyUnits DEF Framed
    <3>5. Below(UnitsIn(Buffered), UnitsOf(Rest(pcm)))
      BY <1>5, <1>7 DEF Below
    <3>6. Below(Framed', UnitsOf(Rest(pcm)))
      BY <1>5, <3>4, <3>5 DEF Below
    <3> QED BY <2>2, <3>2, <3>3, <3>4, <3>6, EmptyUnits DEF Framed
  <2> QED BY <1>6, <2>1, <2>2
<1>10. InHand' \subseteq InHand \cup new
  BY <1>4, <1>5, <1>8, <1>9 DEF InHand
<1>11. Hands'
  <2>1. Below(InHand \cup new, UnitsQueued(commands'))
    BY <1>2 DEF Hands, Below
  <2>2. Below(InHand', UnitsQueued(commands'))
    BY <1>10, <2>1 DEF Below
  <2> QED BY <1>2, <1>5, <1>8, <1>9, <2>2 DEF Hands
<1>12. HandTheirs'
  BY <1>2, <1>10 DEF Theirs, HandTheirs
<1>13. HeldUnits' \subseteq HeldUnits
  <2>1. HeldUnits' = InHand' \cup UnitsQueued(commands') /\ HeldUnits = InHand \cup UnitsQueued(commands)
    BY DEF HeldUnits, InHand, Framed, Buffered, Left
  <2> QED BY <1>2, <1>10, <2>1
<1> QED BY <1>2, <1>11, <1>12, <1>13 DEF Keeps, Theirs

-----------------------------------------------------------------------------
(* The steps of the task that send nothing *)

\* A task with no session in its loop has none in its locals either.
IdleHasNone == pc = "idle" => session = Nothing

\* A chunk's frames that could not be sent go to the empty buffer.
LEMMA ResendKeeps ==
  ASSUME IInv, Hands, Theirs, SendFrameFails
  PROVE  Keeps
<1>1. /\ buffer = <<>> /\ buffer' = Push(buffer, sending) /\ sending' = <<>>
      /\ pc = "sending" /\ pc' = "wait"
      /\ UNCHANGED <<commands, session, assembler, owner, current, heard>>
  BY DEF SendFrameFails, IInv, BacklogFirst, callerVars, peerVars
<1>2. /\ Buffered = <<>> /\ Left' = Left
      /\ FramesRising(sending) /\ sending \in Seq(Frames) /\ <<>> \in Seq(Frames)
      /\ Rising(Left) /\ QueueRising(commands)
      /\ Below(Framed, UnitsOf(Left)) /\ Below(InHand, UnitsQueued(commands))
  BY <1>1, EmptyUnits DEF Buffered, Left, Hands, IInv, TypeOK
<1>3. /\ Push(<<>>, sending) \in Seq(Frames) /\ FramesRising(Push(<<>>, sending))
      /\ UnitsIn(Push(<<>>, sending)) \subseteq UnitsIn(sending)
  BY <1>2, EmptyUnits, PushUnits DEF Below
<1>4. Buffered' = Push(<<>>, sending)
  BY <1>1, <1>3, NothingIsNoSequence DEF Buffered, OrEmpty
<1>5. Framed' \subseteq Framed /\ InHand' \subseteq InHand
  BY <1>1, <1>2, <1>3, <1>4, EmptyUnits DEF Framed, InHand
<1>6. Hands'
  <2>1. FramesRising(Buffered') /\ FramesRising(sending') /\ Rising(Left') /\ QueueRising(commands')
    BY <1>1, <1>2, <1>3, <1>4, EmptyUnits
  <2>2. Below(Framed', UnitsOf(Left')) /\ Below(InHand', UnitsQueued(commands'))
    BY <1>1, <1>2, <1>5 DEF Below
  <2> QED BY <2>1, <2>2 DEF Hands
<1>7. Theirs'
  <2>1. QueueTheirs' /\ CurrentIsLast'
    BY <1>1 DEF Theirs, QueueTheirs, CurrentIsLast, Running
  <2>2. HandTheirs'
    BY <1>1, <1>5 DEF Theirs, HandTheirs
  <2> QED BY <2>1, <2>2 DEF Theirs
<1>8. HeldUnits' \subseteq HeldUnits
  <2>1. HeldUnits' = InHand' \cup UnitsQueued(commands') /\ HeldUnits = InHand \cup UnitsQueued(commands)
    BY DEF HeldUnits, InHand, Framed, Buffered, Left
  <2> QED BY <1>1, <1>5, <2>1
<1> QED BY <1>1, <1>6, <1>7, <1>8 DEF Keeps

\* A chunk that kills the task is lost with everything queued behind it.
LEMMA PanicKeeps ==
  ASSUME Hands, Theirs, WaitChunkPanics
  PROVE  Keeps
<1>1. /\ commands' = <<>> /\ pc' = "panicked"
      /\ UNCHANGED <<session, buffer, assembler, sending, owner, current, heard>>
  BY DEF WaitChunkPanics, Reply, peerVars
<1>2. /\ Buffered' = Buffered /\ Left' = Left /\ Framed' = Framed /\ InHand' = InHand
  BY <1>1 DEF Buffered, Left, Framed, InHand
<1>3. Chunks(<<>>) = {}
  BY DEF Chunks
<1>4. QueueRising(<<>>) /\ UnitsQueued(<<>>) = {}
  BY <1>3 DEF QueueRising, UnitsQueued
<1>5. Hands'
  BY <1>1, <1>2, <1>4 DEF Hands, Below
<1>6. QueueTheirs' /\ CurrentIsLast'
  BY <1>1, <1>3 DEF QueueTheirs, CurrentIsLast, Running
<1>7. HandTheirs'
  BY <1>1, <1>2 DEF Theirs, HandTheirs
<1>8. HeldUnits' \subseteq HeldUnits
  BY <1>1, <1>2, <1>4 DEF HeldUnits, InHand, Framed, Buffered, Left
<1> QED BY <1>1, <1>5, <1>6, <1>7, <1>8 DEF Keeps, Theirs

\* Whatever it reads, waits for or gives up, the task reorders nothing it has
\* in hand, takes nothing over into another session and invents nothing.
LEMMA TaskKeeps ==
  ASSUME IInv, IInv', IdleHasNone, Hands, Theirs, Task, ~FlushFrame, ~SendFrame
  PROVE  Keeps
<1>0. TypeOK /\ TypeOK' /\ OptionsFollowSession /\ BacklogFirst /\ SendingFrames
  BY DEF IInv
<1>1. CASE \/ IdleExit \/ Connect \/ ConnectFails \/ SendStart \/ SendStartFails \/ FlushFails
           \/ FlushEnds \/ LiveExit \/ LiveSocketCloses \/ WaitElapses \/ WaitAbandoned
  <2>1. /\ Running
        /\ UNCHANGED <<commands, session, buffer, assembler, sending, owner, current, heard>>
    BY <1>1 DEF IdleExit, Connect, ConnectFails, SendStart, SendStartFails, FlushFails,
         FlushEnds, LiveExit, LiveSocketCloses, WaitElapses, WaitAbandoned, LeaveWait,
         Running, callerVars, peerVars
  <2> QED BY <2>1, StillKeeps
<1>2. CASE IdleIgnore
  <2>1. /\ Running /\ commands # <<>> /\ commands' = Tail(commands)
        /\ Head(commands).op \in {"Chunk", "Pause", "Resume", "End"}
        /\ UNCHANGED <<session, buffer, assembler, sending, owner, current, heard>>
        /\ session = Nothing
    BY <1>2 DEF IdleIgnore, IdleHasNone, Receive, Running, callerVars, taskVars, peerVars
  <2>2. session' = IF Boundary(Head(commands)) THEN After(Head(commands)) ELSE session
    BY <2>1 DEF Boundary, After
  <2> QED BY <1>0, <2>1, <2>2, ReadingKeeps
<1>3. CASE IdleStart \/ LiveStartOther
  <2>1. /\ Running /\ commands # <<>> /\ commands' = Tail(commands)
        /\ Head(commands).op = "Start"
        /\ session' = Head(commands).session /\ buffer' = <<>> /\ assembler' = <<>>
        /\ UNCHANGED <<sending, owner, current, heard>>
        /\ sending = <<>>
    BY <1>0, <1>3 DEF IdleStart, LiveStartOther, Open, Reply, Receive, Running, SendingFrames, peerVars
  <2>2. session' = IF Boundary(Head(commands)) THEN After(Head(commands)) ELSE session
    BY <2>1 DEF Boundary, After
  <2> QED BY <1>0, <2>1, <2>2, ReadingKeeps
<1>4. CASE LiveStartSame
  <2>1. /\ Running /\ commands # <<>> /\ commands' = Tail(commands)
        /\ Head(commands).op = "Start" /\ Head(commands).session = session
        /\ UNCHANGED <<session, buffer, assembler, sending, owner, current, heard>>
    BY <1>4 DEF LiveStartSame, Reply, Receive, Running, taskVars, peerVars
  <2>2. session' = IF Boundary(Head(commands)) THEN After(Head(commands)) ELSE session
    BY <2>1 DEF Boundary, After
  <2> QED BY <1>0, <2>1, <2>2, ReadingKeeps
<1>5. CASE LivePause("Pause", TRUE) \/ LivePause("Resume", FALSE)
  <2>1. /\ Running /\ commands # <<>> /\ commands' = Tail(commands)
        /\ Head(commands).op \in {"Pause", "Resume"}
        /\ UNCHANGED <<session, buffer, assembler, sending, owner, current, heard>>
    BY <1>5 DEF LivePause, Receive, Running, callerVars
  <2>2. session' = IF Boundary(Head(commands)) THEN After(Head(commands)) ELSE session
    BY <2>1 DEF Boundary, After
  <2> QED BY <1>0, <2>1, <2>2, ReadingKeeps
<1>6. CASE LiveEnd \/ WaitEnd
  <2>1. /\ Running /\ commands # <<>> /\ commands' = Tail(commands)
        /\ Head(commands).op = "End"
        /\ session' = Nothing /\ buffer' = Nothing /\ assembler' = Nothing
        /\ UNCHANGED <<sending, owner, current, heard>>
        /\ sending = <<>>
    BY <1>0, <1>6 DEF LiveEnd, WaitEnd, Close, Receive, Running, SendingFrames, callerVars, peerVars
  <2>2. session' = IF Boundary(Head(commands)) THEN After(Head(commands)) ELSE session
    BY <2>1 DEF Boundary, After
  <2> QED BY <1>0, <2>1, <2>2, ReadingKeeps
<1>7. CASE LiveChunk
  <2>1. /\ Running /\ Receive("Chunk") /\ pc = "live"
        /\ assembler' = Rest(assembler \o Head(commands).pcm)
        /\ sending' = Cut(assembler \o Head(commands).pcm)
        /\ UNCHANGED <<session, buffer, owner, current, heard>>
    BY <1>7 DEF LiveChunk, Running, callerVars, peerVars
  <2>2. assembler # Nothing /\ buffer # Nothing /\ buffer = <<>> /\ sending = <<>>
    BY <1>0, <2>1, NothingIsNoSequence DEF OptionsFollowSession, BacklogFirst, SendingFrames
  <2> QED BY <1>0, <2>1, <2>2, ChunkKeeps
<1>8. CASE WaitStart
  <2>1. /\ Running /\ commands # <<>> /\ commands' = Tail(commands)
        /\ Head(commands).op = "Start"
        /\ UNCHANGED <<sending, owner, current, heard>>
        /\ sending = <<>>
    BY <1>0, <1>8 DEF WaitStart, Reply, Receive, Running, SendingFrames, peerVars
  <2>2. /\ session' = Head(commands).session
        /\ \/ UNCHANGED <<session, buffer, assembler>>
           \/ buffer' = <<>> /\ assembler' = <<>>
    BY <1>8 DEF WaitStart, Open
  <2>3. session' = IF Boundary(Head(commands)) THEN After(Head(commands)) ELSE session
    BY <2>1, <2>2 DEF Boundary, After
  <2> QED BY <1>0, <2>1, <2>2, <2>3, ReadingKeeps
<1>9. CASE WaitChunk
  <2>1. /\ Running /\ Receive("Chunk") /\ pc = "wait" /\ assembler # Nothing
        /\ assembler' = Rest(assembler \o Head(commands).pcm)
        /\ buffer' = Push(buffer, Cut(assembler \o Head(commands).pcm))
        /\ UNCHANGED <<session, sending, owner, current, heard>>
    BY <1>9 DEF WaitChunk, Running, callerVars, peerVars
  <2>2. buffer # Nothing /\ sending = <<>>
    BY <1>0, <2>1 DEF OptionsFollowSession, SendingFrames
  <2> QED BY <1>0, <2>1, <2>2, ChunkKeeps
<1>10. CASE WaitIgnore
  <2>1. /\ Running /\ commands # <<>> /\ commands' = Tail(commands)
        /\ Head(commands).op \in {"Pause", "Resume"}
        /\ UNCHANGED <<session, buffer, assembler, sending, owner, current, heard>>
    BY <1>10 DEF WaitIgnore, Receive, Running, callerVars, taskVars, peerVars
  <2>2. session' = IF Boundary(Head(commands)) THEN After(Head(commands)) ELSE session
    BY <2>1 DEF Boundary, After
  <2> QED BY <1>0, <2>1, <2>2, ReadingKeeps
<1>11. CASE SendFrameFails
  BY <1>11, ResendKeeps
<1>12. CASE WaitChunkPanics
  BY <1>12, PanicKeeps
<1> QED BY <1>1, <1>2, <1>3, <1>4, <1>5, <1>6, <1>7, <1>8, <1>9, <1>10, <1>11, <1>12 DEF Task, WaitReceives

-----------------------------------------------------------------------------
(* The steps that send a frame *)

\* The sidecar of a connection that was told a session is in that session.
PeerIsTold == (pc \in {"flush", "live", "sending"} /\ conn = "up") => peer = session

\* Nothing is heard after what was passed later, nor twice; what was not passed
\* yet is nowhere.
InOrder ==
  /\ Rising(HeardUnits)
  /\ Below(UnitsOf(HeardUnits), HeldUnits)
  /\ UnitsOf(HeardUnits) \cup HeldUnits \subseteq 1 .. Len(owner)


Hearings == [unit : Nat, call : Sessions \cup {Nothing}]
UnitsHeard(hearings) == [i \in 1 .. Len(hearings) |-> hearings[i].unit]

LEMMA HeardFacts ==
  ASSUME NEW hearings \in Seq(Hearings)
  PROVE  /\ UnitsHeard(hearings) \in Seq(Nat)
         /\ Len(UnitsHeard(hearings)) = Len(hearings) /\ Len(hearings) \in Nat
         /\ \A i \in 1 .. Len(hearings) : UnitsHeard(hearings)[i] = hearings[i].unit
<1> DEFINE n == Len(hearings)
           e(i) == hearings[i].unit
<1>1. n \in Nat
  BY LenProperties
<1>2. \A i \in 1 .. n : hearings[i] \in Hearings
  BY ElementOfSeq
<1>3. \A i \in 1 .. n : e(i) \in Nat
  BY <1>2 DEF Hearings
<1>4. UnitsHeard(hearings) = [i \in 1 .. n |-> e(i)]
  BY DEF UnitsHeard
<1> HIDE DEF n
<1>5. UnitsHeard(hearings) \in Seq(Nat)
  <2> HIDE DEF e
  <2> QED BY <1>1, <1>3, <1>4, IsASeq
<1>6. /\ DOMAIN UnitsHeard(hearings) = 1 .. n
      /\ \A i \in 1 .. n : UnitsHeard(hearings)[i] = hearings[i].unit
  BY <1>4
<1>7. Len(UnitsHeard(hearings)) = n
  BY <1>1, <1>5, <1>6, LenProperties
<1> QED BY <1>1, <1>5, <1>6, <1>7 DEF n

\* A frame that is heard joins what was heard.
LEMMA FrameHeard ==
  ASSUME TypeOK, TypeOK', NEW frame \in Frames, Hear(frame), conn = "up"
  PROVE  /\ HeardUnits' = HeardUnits \o frame
         /\ Len(heard') = Len(heard) + FrameUnits
         /\ \A i \in 1 .. Len(heard) : heard'[i] = heard[i]
         /\ \A i \in Len(heard) + 1 .. Len(heard') :
              /\ heard'[i].call = peer
              /\ heard'[i].unit \in UnitsOf(frame)
<1> DEFINE Heard == Hearings
           e(i) == [unit |-> frame[i], call |-> peer]
           new == [i \in 1 .. FrameUnits |-> e(i)]
<1>1. FrameUnits \in Nat /\ heard \in Seq(Heard) /\ peer \in Sessions \cup {Nothing}
  BY SizesAssumption DEF TypeOK, Hearings
<1>2. \A i \in 1 .. FrameUnits : e(i) \in Heard
  BY <1>1 DEF Frames, Hearings
<1>3. heard' = heard \o new
  BY DEF Hear
<1>4. new \in Seq(Heard)
  <2> HIDE DEF Heard, e
  <2> QED BY <1>1, <1>2, IsASeq
<1>5. new = [i \in 1 .. FrameUnits |-> e(i)]
  OBVIOUS
<1> HIDE DEF new, Heard
<1>6. Len(new) = FrameUnits /\ \A i \in 1 .. FrameUnits : new[i] = e(i)
  <2> HIDE DEF e
  <2>1. DOMAIN new = 1 .. FrameUnits
    BY <1>5
  <2> QED BY <1>1, <1>4, <1>5, <2>1, LenProperties
<1>7. /\ Len(heard) \in Nat /\ Len(heard') = Len(heard) + FrameUnits
      /\ \A i \in 1 .. Len(heard) + FrameUnits :
           heard'[i] = IF i <= Len(heard) THEN heard[i] ELSE new[i - Len(heard)]
  BY <1>1, <1>3, <1>4, <1>6, ConcatProperties, LenProperties
<1>8. \A i \in 1 .. Len(heard) : heard'[i] = heard[i]
  BY <1>1, <1>7
<1>9. ASSUME NEW i \in Len(heard) + 1 .. Len(heard')
      PROVE  /\ heard'[i].call = peer /\ heard'[i].unit = frame[i - Len(heard)]
             /\ i - Len(heard) \in 1 .. FrameUnits
  <2>1. i - Len(heard) \in 1 .. FrameUnits /\ heard'[i] = new[i - Len(heard)]
    BY <1>1, <1>7
  <2> QED BY <1>6, <2>1
<1>10. HeardUnits' = HeardUnits \o frame
  <2>0. /\ HeardUnits = UnitsHeard(heard) /\ HeardUnits' = UnitsHeard(heard')
        /\ heard \in Seq(Hearings) /\ heard' \in Seq(Hearings)
    BY DEF HeardUnits, UnitsHeard, Hearings, TypeOK
  <2>1. /\ HeardUnits \in Seq(Nat) /\ Len(HeardUnits) = Len(heard)
        /\ \A i \in 1 .. Len(heard) : HeardUnits[i] = heard[i].unit
    BY <2>0, HeardFacts
  <2>2. /\ HeardUnits' \in Seq(Nat) /\ Len(HeardUnits') = Len(heard')
        /\ \A i \in 1 .. Len(heard') : HeardUnits'[i] = heard'[i].unit
    BY <2>0, HeardFacts
  <2>3. frame \in Seq(Nat) /\ Len(frame) = FrameUnits
    BY FrameFacts
  <2> DEFINE both == HeardUnits \o frame
  <2>4. /\ both \in Seq(Nat) /\ Len(both) = Len(HeardUnits) + Len(frame)
        /\ \A i \in 1 .. Len(HeardUnits) + Len(frame) :
             both[i] = IF i <= Len(HeardUnits) THEN HeardUnits[i]
                                               ELSE frame[i - Len(HeardUnits)]
    BY <2>1, <2>3, ConcatProperties
  <2> HIDE DEF both
  <2>5. /\ Len(both) = Len(heard') /\ Len(heard') \in Nat
        /\ \A i \in 1 .. Len(heard') : /\ i <= Len(heard) => both[i] = HeardUnits[i]
                                       /\ i > Len(heard) => both[i] = frame[i - Len(heard)]
    BY <1>1, <1>7, <2>1, <2>3, <2>4
  <2>6. ASSUME NEW i \in 1 .. Len(heard')
        PROVE  HeardUnits'[i] = both[i]
    <3>1. CASE i <= Len(heard)
      <4>1. i \in 1 .. Len(heard)
        BY <1>7, <3>1
      <4> QED BY <1>8, <2>1, <2>2, <2>5, <3>1, <4>1
    <3>2. CASE i > Len(heard)
      <4>1. i \in Len(heard) + 1 .. Len(heard')
        BY <1>7, <3>2
      <4> QED BY <1>9, <2>2, <2>5, <3>2, <4>1
    <3> QED BY <1>7, <2>5, <3>1, <3>2
  <2>7. HeardUnits' = both
    BY <2>2, <2>4, <2>5, <2>6, SeqEqual
  <2> QED BY <2>7 DEF both
<1>11. \A j \in 1 .. FrameUnits : frame[j] \in UnitsOf(frame)
  BY FrameFacts DEF UnitsOf
<1> QED BY <1>7, <1>8, <1>9, <1>10, <1>11

\* The oldest frame in hand is sent: it is heard in its session, or lost.
LEMMA FrameSent ==
  ASSUME TypeOK, TypeOK', InOrder, PeerIsTold, HeardInItsMeeting,
         NEW frame \in Frames, Hear(frame), pc \in {"flush", "sending"},
         Rising(frame), UnitsOf(frame) \subseteq HeldUnits, HeldUnits' \subseteq HeldUnits,
         Below(UnitsOf(frame), HeldUnits'), \A n \in UnitsOf(frame) : owner[n] = session,
         owner' = owner
  PROVE  InOrder' /\ HeardInItsMeeting'
<1>1. CASE conn = "up"
  <2>1. /\ HeardUnits' = HeardUnits \o frame
        /\ Len(heard') = Len(heard) + FrameUnits
        /\ \A i \in 1 .. Len(heard) : heard'[i] = heard[i]
        /\ \A i \in Len(heard) + 1 .. Len(heard') :
             /\ heard'[i].call = peer
             /\ heard'[i].unit \in UnitsOf(frame)
    BY <1>1, FrameHeard
  <2>2. HeardUnits \in Seq(Nat) /\ Len(heard) \in Nat /\ frame \in Seq(Nat) /\ FrameUnits \in Nat
    <3>1. HeardUnits = UnitsHeard(heard) /\ heard \in Seq(Hearings)
      BY DEF HeardUnits, UnitsHeard, Hearings, TypeOK
    <3> QED BY <3>1, HeardFacts, FrameFacts, SizesAssumption
  <2>3. Below(UnitsOf(HeardUnits), UnitsOf(frame))
    BY DEF InOrder, Below
  <2>4. /\ UnitsOf(HeardUnits') = UnitsOf(HeardUnits) \cup UnitsOf(frame)
        /\ Rising(HeardUnits')
    BY <2>1, <2>2, <2>3, ConcatUnits DEF InOrder
  <2>5. InOrder'
    BY <2>4 DEF InOrder, Below
  <2>6. peer = session
    BY <1>1 DEF PeerIsTold
  <2>7. \A i \in 1 .. Len(heard') : i \in 1 .. Len(heard) \/ i \in Len(heard) + 1 .. Len(heard')
    BY <2>1, <2>2
  <2>8. HeardInItsMeeting'
    BY <2>1, <2>6, <2>7 DEF HeardInItsMeeting
  <2> QED BY <2>5, <2>8
<1>2. CASE conn # "up"
  <2>1. heard' = heard /\ HeardUnits' = HeardUnits
    BY <1>2 DEF Hear, HeardUnits
  <2> QED BY <2>1 DEF InOrder, Below, HeardInItsMeeting
<1> QED BY <1>1, <1>2

\* What a step that sends a frame does: the frame is the oldest in hand.
Sends(frame) ==
  /\ frame \in Frames /\ Hear(frame)
  /\ Rising(frame) /\ UnitsOf(frame) \subseteq InHand /\ InHand' \subseteq InHand
  /\ HeldUnits = UnitsOf(frame) \cup HeldUnits' /\ Below(UnitsOf(frame), HeldUnits')
  /\ Hands' /\ Theirs' /\ owner' = owner

LEMMA FrameLeaves ==
  ASSUME TypeOK, Hands, Theirs, NEW frames, frames \in Seq(Frames), frames # <<>>,
         FramesRising(frames), Framed = UnitsIn(frames), Framed' = UnitsIn(Tail(frames)),
         FramesRising(Tail(frames)) => (FramesRising(Buffered') /\ FramesRising(sending')),
         Hear(Head(frames)), Running,
         UNCHANGED <<commands, session, assembler, owner, current>>
  PROVE  Sends(Head(frames))
<1> DEFINE frame == Head(frames)
<1>1. /\ frame \in Frames /\ Rising(frame) /\ FramesRising(Tail(frames))
      /\ Framed = UnitsOf(frame) \cup Framed' /\ Below(UnitsOf(frame), Framed')
  BY FirstFrame
<1> HIDE DEF frame
<1>2. Left' = Left /\ UnitsQueued(commands') = UnitsQueued(commands)
  BY DEF Left
<1>3. InHand = UnitsOf(frame) \cup InHand' /\ Framed' \subseteq Framed
  BY <1>1, <1>2 DEF InHand
<1>4. Hands'
  <2>1. Below(Framed', UnitsOf(Left')) /\ Below(InHand', UnitsQueued(commands'))
    BY <1>2, <1>3 DEF Hands, Below
  <2>2. QueueRising(commands') /\ Rising(Left')
    BY <1>2 DEF Hands
  <2> QED BY <1>1, <2>1, <2>2 DEF Hands
<1>5. HandTheirs'
  BY <1>3 DEF Theirs, HandTheirs
<1>6. QueueTheirs' /\ CurrentIsLast'
  BY DEF Theirs, QueueTheirs, CurrentIsLast
<1>7. HeldUnits = UnitsOf(frame) \cup HeldUnits'
  BY <1>2, <1>3 DEF HeldUnits, InHand, Framed, Buffered, Left
<1>8. Below(UnitsOf(frame), HeldUnits')
  <2>1. Below(UnitsOf(frame), UnitsOf(Left)) /\ Below(UnitsOf(frame), UnitsQueued(commands))
    BY <1>1, <1>3 DEF Hands, Below
  <2>2. HeldUnits' = Framed' \cup UnitsOf(Left) \cup UnitsQueued(commands)
    BY <1>2 DEF HeldUnits, Framed, Buffered, Left
  <2> QED BY <1>1, <2>1, <2>2 DEF Below
<1>9. UnitsOf(frame) \subseteq InHand /\ InHand' \subseteq InHand
  BY <1>3
<1>10. Hear(frame)
  BY DEF frame
<1> QED BY <1>1, <1>4, <1>5, <1>6, <1>7, <1>8, <1>9, <1>10 DEF Sends, Theirs, frame

\* flush() sends the head of the backlog, send_frames the head of its batch.
LEMMA SendingSends ==
  ASSUME IInv, IInv', Hands, Theirs, FlushFrame \/ SendFrame
  PROVE  \E frame \in Frames : Sends(frame)
<1>0. TypeOK /\ TypeOK' /\ OptionsFollowSession /\ BacklogFirst /\ SendingFrames
  BY DEF IInv
<1>1. CASE FlushFrame
  <2>1. /\ pc = "flush" /\ buffer # <<>> /\ Hear(Head(buffer)) /\ buffer' = Tail(buffer) /\ Running
        /\ UNCHANGED <<commands, session, assembler, sending, owner, current>>
    BY <1>1 DEF FlushFrame, Running, callerVars
  <2>2. sending = <<>> /\ buffer # Nothing /\ Buffered = buffer /\ buffer \in Seq(Frames)
    BY <1>0, <2>1, HandTypes DEF SendingFrames, OptionsFollowSession
  <2>3. Tail(buffer) \in Seq(Frames) /\ Buffered' = Tail(buffer)
    BY <2>1, <2>2, HeadTailProperties, NothingIsNoSequence DEF Buffered, OrEmpty
  <2>4. FramesRising(buffer) /\ Framed = UnitsIn(buffer) /\ Framed' = UnitsIn(Tail(buffer))
    BY <2>1, <2>2, <2>3, EmptyUnits DEF Hands, Framed
  <2>5. FramesRising(Tail(buffer)) => (FramesRising(Buffered') /\ FramesRising(sending'))
    BY <2>1, <2>2, <2>3, EmptyUnits
  <2>6. Sends(Head(buffer))
    BY <1>0, <2>1, <2>2, <2>4, <2>5, FrameLeaves
  <2> QED BY <2>6 DEF Sends
<1>2. CASE SendFrame
  <2>1. /\ pc = "sending" /\ Hear(Head(sending)) /\ sending' = Tail(sending) /\ Running
        /\ UNCHANGED <<commands, session, assembler, buffer, owner, current>>
    BY <1>2 DEF SendFrame, Running, callerVars
  <2>2. sending # <<>> /\ buffer = <<>> /\ Buffered = <<>> /\ Buffered' = <<>> /\ sending \in Seq(Frames)
    BY <1>0, <2>1, EmptyUnits, HandTypes DEF SendingFrames, BacklogFirst, Buffered
  <2>3. FramesRising(sending) /\ Framed = UnitsIn(sending) /\ Framed' = UnitsIn(Tail(sending))
    BY <2>1, <2>2, EmptyUnits DEF Hands, Framed
  <2>4. FramesRising(Tail(sending)) => (FramesRising(Buffered') /\ FramesRising(sending'))
    BY <2>1, <2>2, EmptyUnits
  <2>5. Sends(Head(sending))
    BY <1>0, <2>1, <2>2, <2>3, <2>4, FrameLeaves
  <2> QED BY <2>5 DEF Sends
<1> QED BY <1>1, <1>2

-----------------------------------------------------------------------------
(* The steps of the caller *)

\* A command that is queued changes nothing for those before it, and a chunk
\* comes after everything that is held.
LEMMA QueueKeeps ==
  ASSUME TypeOK, Hands, Theirs, Running, NEW c \in Commands, commands' = Append(commands, c),
         current' = IF Boundary(c) THEN After(c) ELSE current,
         UNCHANGED <<session, buffer, assembler, sending, pc>>,
         \A n \in HeldUnits : owner'[n] = owner[n],
         c.op = "Chunk" => /\ Rising(c.pcm) /\ Below(HeldUnits, UnitsOf(c.pcm))
                           /\ \A n \in UnitsOf(c.pcm) : owner'[n] = current
  PROVE  /\ Hands' /\ Theirs'
         /\ c.op # "Chunk" => HeldUnits' = HeldUnits
         /\ c.op = "Chunk" => HeldUnits' = HeldUnits \cup UnitsOf(c.pcm)
<1> DEFINE n == Len(commands)
<1>1. /\ commands \in Seq(Commands) /\ n \in Nat /\ Len(commands') = n + 1
      /\ commands'[n + 1] = c /\ \A i \in 1 .. n : commands'[i] = commands[i]
      /\ current \in Sessions \cup {Nothing}
  BY LenProperties, AppendProperties DEF TypeOK
<1>2. Buffered' = Buffered /\ Left' = Left /\ Framed' = Framed /\ InHand' = InHand
  BY DEF Buffered, Left, Framed, InHand
<1>3. /\ c.op # "Chunk" => UnitsQueued(commands') = UnitsQueued(commands)
      /\ c.op = "Chunk" => UnitsQueued(commands') = UnitsQueued(commands) \cup UnitsOf(c.pcm)
  BY <1>1, LastCommand
<1>4. HeldUnits = InHand \cup UnitsQueued(commands) /\ HeldUnits' = InHand \cup UnitsQueued(commands')
  BY <1>2 DEF HeldUnits, InHand, Framed, Buffered, Left
<1>5. Hands'
  <2>1. QueueRising(commands)
    BY DEF Hands
  <2>2. c.op = "Chunk" => /\ Below(UnitsQueued(commands), UnitsOf(c.pcm))
                          /\ Below(InHand, UnitsOf(c.pcm))
    BY <1>4 DEF Below
  <2>3. QueueRising(commands')
    BY <1>1, <2>1, <2>2, LastCommand
  <2>4. Below(InHand, UnitsQueued(commands'))
    BY <1>3, <2>2 DEF Hands, Below
  <2> QED BY <1>2, <2>3, <2>4 DEF Hands
<1>6. QueueTheirs'
  <2> SUFFICES ASSUME NEW i \in Chunks(commands')
               PROVE  \E s \in Sessions \cup {Nothing} :
                        /\ Finds(commands', session, i, s)
                        /\ \A u \in UnitsOf(commands'[i].pcm) : owner'[u] = s
    BY DEF QueueTheirs
  <2>1. CASE i = n + 1
    <3>1. Finds(commands, session, n + 1, current) /\ n + 1 \in 1 .. n + 1
      BY <1>1 DEF Theirs, CurrentIsLast
    <3>2. Finds(commands', session, n + 1, current)
      BY <1>1, <3>1, FindsLonger
    <3>3. c.op = "Chunk" /\ commands'[i] = c
      BY <1>1, <2>1 DEF Chunks
    <3> QED BY <1>1, <2>1, <3>2, <3>3
  <2>2. CASE i # n + 1
    <3>1. i \in 1 .. n /\ i \in Chunks(commands) /\ commands'[i] = commands[i] /\ i \in 1 .. n + 1
      BY <1>1, <2>2 DEF Chunks
    <3>2. PICK s \in Sessions \cup {Nothing} :
            /\ Finds(commands, session, i, s)
            /\ \A u \in UnitsOf(commands[i].pcm) : owner[u] = s
      BY <3>1 DEF Theirs, QueueTheirs
    <3>3. Finds(commands', session, i, s)
      BY <1>1, <3>1, <3>2, FindsLonger
    <3>4. UnitsOf(commands[i].pcm) \subseteq HeldUnits
      BY <1>4, <3>1 DEF UnitsQueued
    <3> QED BY <3>1, <3>2, <3>3, <3>4
  <2> QED BY <2>1, <2>2
<1>7. CurrentIsLast'
  <2>1. Finds(commands, session, n + 1, current)
    BY DEF Theirs, CurrentIsLast
  <2>2. Finds(commands', session, n + 2, current')
    BY <1>1, <2>1, FindsLast
  <2>3. Len(commands') + 1 = n + 2
    BY <1>1
  <2> QED BY <2>2, <2>3 DEF CurrentIsLast
<1>8. HandTheirs'
  BY <1>2, <1>4 DEF Theirs, HandTheirs
<1> QED BY <1>3, <1>4, <1>5, <1>6, <1>7, <1>8 DEF Theirs

\* The units of a new chunk are numbered on, and are the caller's session's.
LEMMA NewUnits ==
  ASSUME TypeOK, NEW size \in Nat, owner' = owner \o [i \in 1 .. size |-> current]
  PROVE  LET pcm == [i \in 1 .. size |-> Len(owner) + i] IN
         /\ pcm \in Seq(Nat) /\ Rising(pcm)
         /\ UnitsOf(pcm) = Len(owner) + 1 .. Len(owner) + size
         /\ Len(owner') = Len(owner) + size /\ Len(owner) \in Nat
         /\ \A n \in 1 .. Len(owner) : owner'[n] = owner[n]
         /\ \A n \in Len(owner) + 1 .. Len(owner) + size : owner'[n] = current
<1> DEFINE m == Len(owner)
           e(i) == m + i
           f(i) == current
           pcm == [i \in 1 .. size |-> e(i)]
           names == [i \in 1 .. size |-> f(i)]
           S == Sessions \cup {Nothing}
<1>1. owner \in Seq(S) /\ current \in S /\ m \in Nat
  BY LenProperties DEF TypeOK
<1>2. \A i \in 1 .. size : e(i) \in Nat /\ f(i) \in S
  BY <1>1
<1>3. pcm \in Seq(Nat) /\ names \in Seq(S)
  <2> HIDE DEF m, e, f, S
  <2> QED BY <1>2, IsASeq
<1>4. /\ DOMAIN pcm = 1 .. size /\ \A i \in 1 .. size : pcm[i] = m + i
      /\ DOMAIN names = 1 .. size /\ \A i \in 1 .. size : names[i] = current
  OBVIOUS
<1>5. owner' = owner \o names
  OBVIOUS
<1> HIDE DEF m, e, f, pcm, names, S
<1>6. Len(pcm) = size /\ Len(names) = size
  BY <1>3, <1>4, LenProperties
<1>7. Rising(pcm)
  BY <1>1, <1>4, <1>6 DEF Rising
<1>8. UnitsOf(pcm) = m + 1 .. m + size
  <2>1. UnitsOf(pcm) \subseteq m + 1 .. m + size
    BY <1>1, <1>4, <1>6 DEF UnitsOf
  <2>2. ASSUME NEW u \in m + 1 .. m + size PROVE u \in UnitsOf(pcm)
    <3>1. u - m \in 1 .. size /\ m + (u - m) = u
      BY <1>1
    <3> QED BY <1>4, <1>6, <3>1 DEF UnitsOf
  <2> QED BY <2>1, <2>2
<1>9. /\ Len(owner') = m + size
      /\ \A i \in 1 .. m + size : owner'[i] = IF i <= m THEN owner[i] ELSE names[i - m]
  BY <1>1, <1>3, <1>5, <1>6, ConcatProperties DEF m
<1>10. \A n \in 1 .. m : owner'[n] = owner[n]
  BY <1>1, <1>9
<1>11. ASSUME NEW n \in m + 1 .. m + size PROVE owner'[n] = current
  <2>1. n \in 1 .. m + size /\ ~(n <= m) /\ n - m \in 1 .. size
    BY <1>1
  <2> QED BY <1>4, <1>9, <2>1
<1>12. pcm = [i \in 1 .. size |-> Len(owner) + i]
  BY DEF pcm, e, m
<1> QED BY <1>1, <1>3, <1>7, <1>8, <1>9, <1>10, <1>11, <1>12 DEF m

-----------------------------------------------------------------------------
(* The invariant, and what a step does to the stream *)

UInv == IdleHasNone /\ Hands /\ Theirs /\ PeerIsTold /\ InOrder /\ HeardInItsMeeting

\* At first nothing was passed, held or heard.
LEMMA InitUInv == Init => UInv /\ HeldUnits = {} /\ HeardUnits = <<>>
<1> SUFFICES ASSUME Init PROVE UInv /\ HeldUnits = {} /\ HeardUnits = <<>>
  OBVIOUS
<1>1. /\ pc = "idle" /\ session = Nothing /\ current = Nothing /\ commands = <<>>
      /\ buffer = Nothing /\ assembler = Nothing /\ sending = <<>>
      /\ heard = <<>> /\ owner = <<>>
  BY DEF Init
<1>2. Chunks(<<>>) = {}
  BY DEF Chunks
<1>3. QueueRising(<<>>) /\ UnitsQueued(<<>>) = {}
  BY <1>2 DEF QueueRising, UnitsQueued
<1>4. Buffered = <<>> /\ Left = <<>> /\ Framed = {} /\ InHand = {}
  BY <1>1, EmptyUnits DEF Buffered, Left, Framed, InHand
<1>5. Hands
  BY <1>1, <1>3, <1>4, EmptyUnits DEF Hands, Below
<1>6. Theirs
  <2>1. QueueTheirs /\ HandTheirs
    BY <1>1, <1>2, <1>4 DEF QueueTheirs, HandTheirs
  <2>2. 1 .. Len(commands) + 1 - 1 = {}
    BY <1>1
  <2>3. CurrentIsLast
    BY <1>1, <2>2 DEF CurrentIsLast, Finds
  <2> QED BY <2>1, <2>3 DEF Theirs
<1>7. HeldUnits = {}
  BY <1>1, <1>3, <1>4, EmptyUnits DEF HeldUnits, Buffered, Left
<1>8. HeardUnits = <<>>
  <2>1. heard \in Seq(Hearings) /\ Len(heard) = 0 /\ HeardUnits = UnitsHeard(heard)
    BY <1>1 DEF HeardUnits, UnitsHeard
  <2>2. HeardUnits \in Seq(Nat) /\ Len(HeardUnits) = 0
    BY <2>1, HeardFacts
  <2> QED BY <2>2, EmptySeq
<1>9. InOrder /\ HeardInItsMeeting
  <2>1. 1 .. Len(heard) = {}
    BY <1>1
  <2> QED BY <1>7, <1>8, <2>1, EmptyUnits DEF InOrder, HeardInItsMeeting, Below
<1>10. IdleHasNone /\ PeerIsTold
  BY <1>1 DEF IdleHasNone, PeerIsTold
<1> QED BY <1>5, <1>6, <1>7, <1>8, <1>9, <1>10 DEF UInv

\* Once it was told a session, a sidecar stays in it while the task is with it.
LEMMA PeerStaysTold ==
  ASSUME IInv, PeerIsTold, IdleHasNone, [Next]_vars
  PROVE  PeerIsTold' /\ IdleHasNone'
<1>1. CASE Caller \/ Lose \/ Die
  BY <1>1 DEF PeerIsTold, IdleHasNone, Caller, CallStart, CallChunk, CallPause, CallResume,
       CallEnd, Call, DropHandle, Lose, Die, taskVars, netVars, peerVars
<1>2. CASE \/ IdleStart \/ IdleIgnore \/ IdleExit
           \/ Connect \/ ConnectFails \/ SendStart \/ SendStartFails
           \/ FlushFrame \/ FlushFails \/ FlushEnds
  BY <1>2 DEF PeerIsTold, IdleHasNone, IdleStart, Open, IdleIgnore, IdleExit, Connect,
       ConnectFails, SendStart, SendStartFails, FlushFrame, FlushFails, FlushEnds,
       taskVars, netVars, peerVars
<1>3. CASE \/ LiveStartSame \/ LiveStartOther \/ LiveChunk \/ SendFrame \/ SendFrameFails
           \/ LivePause("Pause", TRUE) \/ LivePause("Resume", FALSE)
           \/ LiveEnd \/ LiveExit \/ LiveSocketCloses
  BY <1>3 DEF PeerIsTold, IdleHasNone, LiveStartSame, LiveStartOther, Open, LiveChunk,
       SendFrame, SendFrameFails, LivePause, LiveEnd, Close, LiveExit, LiveSocketCloses,
       taskVars, netVars, peerVars
<1>4. CASE \/ WaitElapses \/ WaitAbandoned \/ WaitStart \/ WaitChunk \/ WaitChunkPanics
           \/ WaitEnd \/ WaitIgnore
  BY <1>4 DEF PeerIsTold, IdleHasNone, WaitElapses, WaitAbandoned, LeaveWait, WaitStart, Open,
       WaitChunk, WaitChunkPanics, WaitEnd, Close, WaitIgnore, taskVars, netVars, peerVars
<1>5. CASE UNCHANGED vars
  BY <1>5 DEF PeerIsTold, IdleHasNone, vars, taskVars, netVars, peerVars
<1> QED BY <1>1, <1>2, <1>3, <1>4, <1>5 DEF Next, Task, WaitReceives

\* A step that hears nothing and passes nothing leaves the order as it is.
LEMMA UnheardKeeps ==
  ASSUME InOrder, HeardInItsMeeting, HeldUnits' \subseteq HeldUnits,
         heard' = heard, owner' = owner
  PROVE  InOrder' /\ HeardInItsMeeting' /\ Stream!Lose
<1>1. HeardUnits' = HeardUnits
  BY DEF HeardUnits
<1> QED BY <1>1 DEF InOrder, HeardInItsMeeting, Below, Stream!Lose

\* CallChunk: the abstract stream accepts the chunk's units.
LEMMA ChunkAccepts ==
  ASSUME IInv, UInv, NEW size \in ChunkSizes, CallChunk(size)
  PROVE  Hands' /\ Theirs' /\ InOrder' /\ HeardInItsMeeting' /\ [Stream!Next]_(Stream!vars)
<1> DEFINE pcm == [i \in 1 .. size |-> Len(owner) + i]
           c == [op |-> "Chunk", pcm |-> pcm]
           m == Len(owner)
<1>0. TypeOK /\ size \in Nat
  BY SizesAssumption DEF IInv
<1>1. /\ commands' = Append(commands, c) /\ Running
      /\ owner' = owner \o [i \in 1 .. size |-> current]
      /\ UNCHANGED <<session, buffer, assembler, sending, pc, heard, current>>
  BY DEF CallChunk, Call, taskVars, peerVars
<1>2. /\ pcm \in Seq(Nat) /\ Rising(pcm) /\ UnitsOf(pcm) = m + 1 .. m + size
      /\ Len(owner') = m + size /\ m \in Nat
      /\ \A n \in 1 .. m : owner'[n] = owner[n]
      /\ \A n \in m + 1 .. m + size : owner'[n] = current
  BY <1>0, <1>1, NewUnits
<1> HIDE DEF pcm, m
<1>3. c \in Commands /\ c.op = "Chunk" /\ c.pcm = pcm /\ ~Boundary(c)
  BY <1>2 DEF Commands, Boundary
<1> HIDE DEF c
<1>4. UnitsOf(HeardUnits) \cup HeldUnits \subseteq 1 .. m /\ Rising(HeardUnits)
      /\ Below(UnitsOf(HeardUnits), HeldUnits)
  BY DEF UInv, InOrder, m
<1>5. Below(HeldUnits, UnitsOf(pcm)) /\ Below(UnitsOf(HeardUnits), UnitsOf(pcm))
  BY <1>0, <1>2, <1>4 DEF Below
<1>6. Hands' /\ Theirs' /\ HeldUnits' = HeldUnits \cup UnitsOf(pcm)
  BY <1>0, <1>1, <1>2, <1>3, <1>4, <1>5, QueueKeeps DEF UInv
<1>7. HeardUnits' = HeardUnits
  BY <1>1 DEF HeardUnits
<1>8. InOrder'
  <2>1. 1 .. m \subseteq 1 .. m + size /\ m + 1 .. m + size \subseteq 1 .. m + size
    BY <1>0, <1>2
  <2>2. UnitsOf(HeardUnits') \cup HeldUnits' \subseteq 1 .. Len(owner')
    BY <1>2, <1>4, <1>6, <1>7, <2>1
  <2>3. Below(UnitsOf(HeardUnits'), HeldUnits')
    BY <1>4, <1>5, <1>6, <1>7 DEF Below
  <2> QED BY <1>4, <1>7, <2>2, <2>3 DEF InOrder
<1>9. /\ HeardUnits \in Seq(Nat) /\ Len(HeardUnits) = Len(heard)
      /\ \A i \in 1 .. Len(heard) : HeardUnits[i] = heard[i].unit
  <2>1. HeardUnits = UnitsHeard(heard) /\ heard \in Seq(Hearings)
    BY <1>0 DEF HeardUnits, UnitsHeard, Hearings, TypeOK
  <2> QED BY <2>1, HeardFacts
<1>10. HeardInItsMeeting'
  <2>1. \A i \in 1 .. Len(heard) : heard[i].unit \in 1 .. m
    BY <1>4, <1>9 DEF UnitsOf
  <2> QED BY <1>1, <1>2, <2>1 DEF UInv, HeardInItsMeeting
<1>11. [Stream!Next]_(Stream!vars)
  <2>1. CASE size = 0
    <3>1. UnitsOf(pcm) = {}
      BY <1>2, <2>1
    <3> QED BY <1>6, <1>7, <3>1 DEF Stream!vars
  <2>2. CASE size # 0
    <3> DEFINE new == HeldUnits' \ HeldUnits
    <3>1. new = UnitsOf(pcm)
      BY <1>0, <1>2, <1>4, <1>6
    <3>2. m + 1 \in UnitsOf(pcm)
      BY <1>0, <1>2, <2>2
    <3>3. \A u \in UnitsOf(pcm) : (\A v \in HeldUnits : v < u)
                                  /\ \A i \in 1 .. Len(HeardUnits) : HeardUnits[i] < u
      BY <1>5 DEF Below, UnitsOf
    <3>4. \A a, b \in UnitsOf(pcm) : a .. b \subseteq UnitsOf(pcm)
      BY <1>0, <1>2
    <3>5. Stream!Accept
      BY <1>6, <1>7, <3>1, <3>2, <3>3, <3>4 DEF Stream!Accept
    <3> QED BY <3>5 DEF Stream!Next
  <2> QED BY <2>1, <2>2
<1> QED BY <1>6, <1>8, <1>10, <1>11

\* A frame that is sent on a live connection is delivered, and lost otherwise.
LEMMA FrameDelivers ==
  ASSUME IInv, IInv', UInv, NEW frame \in Frames, Sends(frame), pc \in {"flush", "sending"}
  PROVE  InOrder' /\ HeardInItsMeeting' /\ [Stream!Next]_(Stream!vars)
<1>0. TypeOK /\ TypeOK' /\ InOrder /\ PeerIsTold /\ HeardInItsMeeting /\ Theirs
  BY DEF IInv, UInv
<1>1. /\ Hear(frame) /\ Rising(frame) /\ UnitsOf(frame) \subseteq InHand
      /\ HeldUnits = UnitsOf(frame) \cup HeldUnits' /\ Below(UnitsOf(frame), HeldUnits')
      /\ owner' = owner
  BY DEF Sends
<1>2. \A n \in UnitsOf(frame) : owner[n] = session
  BY <1>0, <1>1 DEF Theirs, HandTheirs
<1>3. InOrder' /\ HeardInItsMeeting'
  BY <1>0, <1>1, <1>2, FrameSent
<1>4. CASE conn # "up"
  <2>1. HeardUnits' = HeardUnits
    BY <1>1, <1>4 DEF Hear, HeardUnits
  <2> QED BY <1>1, <1>3, <2>1 DEF Stream!Next, Stream!Lose
<1>5. CASE conn = "up"
  <2> DEFINE n == Len(HeardUnits)
  <2>1. HeardUnits' = HeardUnits \o frame
    BY <1>0, <1>1, <1>5, FrameHeard
  <2>2. HeardUnits \in Seq(Nat) /\ n \in Nat
    <3>1. HeardUnits = UnitsHeard(heard) /\ heard \in Seq(Hearings)
      BY <1>0 DEF HeardUnits, UnitsHeard, Hearings, TypeOK
    <3> QED BY <3>1, HeardFacts, LenProperties
  <2>3. /\ frame \in Seq(Nat) /\ Len(frame) = FrameUnits /\ FrameUnits \in Nat \ {0}
        /\ UnitsOf(frame) \subseteq Nat
    BY FrameFacts, SizesAssumption
  <2> DEFINE both == HeardUnits'
  <2>4. /\ Len(both) = n + FrameUnits
        /\ \A i \in 1 .. n + FrameUnits : both[i] = IF i <= n THEN HeardUnits[i] ELSE frame[i - n]
    BY <2>1, <2>2, <2>3, ConcatProperties
  <2>5. Rising(both)
    BY <1>3 DEF InOrder
  <2> HIDE DEF both, n
  <2>6. \A i \in 1 .. n : both[i] = HeardUnits[i]
    BY <2>2, <2>3, <2>4
  <2>7. \A i, j \in n + 1 .. Len(both) : i < j => both[i] < both[j]
    <3>1. n + 1 .. Len(both) \subseteq 1 .. Len(both)
      BY <2>2, <2>3, <2>4
    <3> QED BY <2>5, <3>1 DEF Rising
  <2>8. {both[i] : i \in n + 1 .. Len(both)} = UnitsOf(frame)
    <3>1. \A i \in n + 1 .. Len(both) : i - n \in 1 .. FrameUnits /\ both[i] = frame[i - n]
      BY <2>2, <2>3, <2>4
    <3>2. \A j \in 1 .. FrameUnits : n + j \in n + 1 .. Len(both) /\ both[n + j] = frame[j]
      <4>1. \A j \in 1 .. FrameUnits : n + j \in n + 1 .. Len(both) /\ (n + j) - n = j
        BY <2>2, <2>3, <2>4
      <4> QED BY <3>1, <4>1
    <3>3. {both[i] : i \in n + 1 .. Len(both)} \subseteq UnitsOf(frame)
      BY <2>3, <3>1 DEF UnitsOf
    <3>4. UnitsOf(frame) \subseteq {both[i] : i \in n + 1 .. Len(both)}
      BY <2>3, <3>2 DEF UnitsOf
    <3> QED BY <3>3, <3>4
  <2>9. HeldUnits' = HeldUnits \ UnitsOf(frame)
    <3>1. \A x \in UnitsOf(frame) : x \notin HeldUnits'
      BY <1>1, <2>3 DEF Below
    <3> QED BY <1>1, <3>1
  <2>10. Len(both) > n
    BY <2>2, <2>3, <2>4
  <2>11. UnitsOf(frame) \subseteq HeldUnits /\ \A a \in UnitsOf(frame) : \A u \in HeldUnits' : a < u
    BY <1>1 DEF Below
  <2>12. Stream!Deliver
    BY <2>6, <2>7, <2>8, <2>9, <2>10, <2>11 DEF Stream!Deliver, both, n
  <2> QED BY <1>3, <2>12 DEF Stream!Next
<1> QED BY <1>4, <1>5

\* Every step of the client keeps the invariant, and is one of the stream's.
LEMMA NextStreams ==
  IInv /\ UInv /\ [Next]_vars => UInv' /\ [Stream!Next]_(Stream!vars)
<1> SUFFICES ASSUME IInv, UInv, [Next]_vars
             PROVE  UInv' /\ [Stream!Next]_(Stream!vars)
  OBVIOUS
<1>0. /\ TypeOK /\ IInv' /\ IdleHasNone /\ Hands /\ Theirs /\ PeerIsTold /\ InOrder
      /\ HeardInItsMeeting
  BY NextKeepsIInv DEF IInv, UInv
<1>1. PeerIsTold' /\ IdleHasNone'
  BY <1>0, PeerStaysTold
<1>2. ASSUME Keeps
      PROVE  UInv' /\ [Stream!Next]_(Stream!vars)
  <2>1. Hands' /\ Theirs' /\ InOrder' /\ HeardInItsMeeting' /\ Stream!Lose
    BY <1>0, <1>2, UnheardKeeps DEF Keeps
  <2> QED BY <1>1, <2>1 DEF UInv, Stream!Next
<1>3. CASE Task /\ ~FlushFrame /\ ~SendFrame
  BY <1>0, <1>2, <1>3, TaskKeeps
<1>4. CASE FlushFrame \/ SendFrame
  <2>1. PICK frame \in Frames : Sends(frame)
    BY <1>0, <1>4, SendingSends
  <2>2. pc \in {"flush", "sending"}
    BY <1>4 DEF FlushFrame, SendFrame
  <2>3. InOrder' /\ HeardInItsMeeting' /\ [Stream!Next]_(Stream!vars)
    BY <1>0, <2>1, <2>2, FrameDelivers
  <2> QED BY <1>1, <2>1, <2>3 DEF UInv, Sends
<1>5. ASSUME NEW size \in ChunkSizes, CallChunk(size)
      PROVE  UInv' /\ [Stream!Next]_(Stream!vars)
  <2>1. Hands' /\ Theirs' /\ InOrder' /\ HeardInItsMeeting' /\ [Stream!Next]_(Stream!vars)
    BY <1>5, ChunkAccepts
  <2> QED BY <1>1, <2>1 DEF UInv
<1>6. ASSUME \/ \E s \in Sessions : CallStart(s)
             \/ CallPause \/ CallResume \/ CallEnd
      PROVE  UInv' /\ [Stream!Next]_(Stream!vars)
  <2>1. PICK c \in Commands :
          /\ c.op # "Chunk" /\ commands' = Append(commands, c) /\ Running
          /\ current' = IF Boundary(c) THEN After(c) ELSE current
          /\ UNCHANGED <<session, buffer, assembler, sending, pc, owner, heard>>
    <3>1. ASSUME NEW s \in Sessions, CallStart(s)
          PROVE  \E c \in Commands :
                   /\ c.op # "Chunk" /\ commands' = Append(commands, c) /\ Running
                   /\ current' = IF Boundary(c) THEN After(c) ELSE current
                   /\ UNCHANGED <<session, buffer, assembler, sending, pc, owner, heard>>
      <4> DEFINE c == [op |-> "Start", session |-> s]
      <4>1. c \in Commands /\ c.op = "Start" /\ Boundary(c) /\ After(c) = s
        BY DEF Commands, Boundary, After
      <4>2. /\ commands' = Append(commands, c) /\ Running /\ current' = s
            /\ UNCHANGED <<session, buffer, assembler, sending, pc, owner, heard>>
        BY <3>1 DEF CallStart, Call, taskVars, peerVars
      <4> HIDE DEF c
      <4> QED BY <4>1, <4>2
    <3>2. CASE CallPause \/ CallResume
      <4> DEFINE c(op) == [op |-> op]
      <4>1. \A op \in {"Pause", "Resume"} : c(op) \in Commands /\ c(op).op = op /\ ~Boundary(c(op))
        BY DEF Commands, Boundary
      <4>2. PICK op \in {"Pause", "Resume"} :
              /\ commands' = Append(commands, c(op)) /\ Running /\ current' = current
              /\ UNCHANGED <<session, buffer, assembler, sending, pc, owner, heard>>
        BY <3>2 DEF CallPause, CallResume, Call, taskVars, peerVars
      <4> HIDE DEF c
      <4> QED BY <4>1, <4>2
    <3>3. CASE CallEnd
      <4> DEFINE c == [op |-> "End"]
      <4>1. c \in Commands /\ c.op = "End" /\ Boundary(c) /\ After(c) = Nothing
        BY DEF Commands, Boundary, After
      <4>2. /\ commands' = Append(commands, c) /\ Running /\ current' = Nothing
            /\ UNCHANGED <<session, buffer, assembler, sending, pc, owner, heard>>
        BY <3>3 DEF CallEnd, Call, taskVars, peerVars
      <4> HIDE DEF c
      <4> QED BY <4>1, <4>2
    <3> QED BY <1>6, <3>1, <3>2, <3>3
  <2>2. Hands' /\ Theirs' /\ HeldUnits' = HeldUnits
    BY <1>0, <2>1, QueueKeeps
  <2>3. Keeps
    BY <2>1, <2>2 DEF Keeps
  <2> QED BY <1>2, <2>3
<1>7. CASE DropHandle \/ Lose \/ Die
  <2>1. /\ UNCHANGED <<commands, session, buffer, assembler, sending, owner, current, heard>>
        /\ Running' => Running
    BY <1>7 DEF DropHandle, Lose, Die, Running, callerVars, taskVars, peerVars
  <2> QED BY <1>0, <1>2, <2>1, StillKeeps
<1>8. CASE UNCHANGED vars
  <2>1. /\ UNCHANGED <<commands, session, buffer, assembler, sending, owner, current, heard>>
        /\ Running' => Running
    BY <1>8 DEF Running, vars, callerVars, taskVars, peerVars
  <2> QED BY <1>0, <1>2, <2>1, StillKeeps
<1> QED BY <1>3, <1>4, <1>5, <1>6, <1>7, <1>8 DEF Next, Caller

LEMMA StreamInvariance == Spec => [](IInv /\ UInv)
<1>1. Init => IInv /\ UInv
  BY InitIInv, InitUInv
<1>2. IInv /\ UInv /\ [Next]_vars => (IInv /\ UInv)'
  BY NextKeepsIInv, NextStreams
<1> QED BY <1>1, <1>2, PTL DEF Spec

\* HeardInItsMeeting holds for every set of sessions, frame and chunk size and
\* number of faults: however a meeting is replaced, re-buffered or flushed,
\* audio is heard only under the START of the meeting it was spoken in.
THEOREM AudioStaysInItsMeeting == Spec => []HeardInItsMeeting
<1>1. UInv => HeardInItsMeeting
  BY DEF UInv
<1> QED BY <1>1, StreamInvariance, PTL

\* What the sidecars hear of a capture they hear in order and once, over every
\* lost connection, half-sent batch and flushed backlog.
THEOREM HeardInOrder == Spec => []Rising(HeardUnits)
<1>1. UInv => Rising(HeardUnits)
  BY DEF UInv, InOrder
<1> QED BY <1>1, StreamInvariance, PTL

\* The client implements AudioStream: each step of the client, its caller and
\* the network accepts, loses or delivers audio, or leaves it alone.
THEOREM StreamImplemented == Spec => ImplementsStream
<1>1. Init => Stream!Init
  BY InitUInv DEF Stream!Init
<1>2. IInv /\ UInv /\ [Next]_vars => [Stream!Next]_(Stream!vars)
  BY NextStreams
<1> QED BY <1>1, <1>2, StreamInvariance, PTL DEF Spec, ImplementsStream, Stream!Spec

-----------------------------------------------------------------------------
(* How long the buffer holds audio *)

\* Frames in order fill as many places as they have units.
LEMMA FramesTakeRoom ==
  ASSUME NEW frames \in Seq(Frames), FramesRising(frames), NEW lo \in Nat, NEW hi \in Nat,
         lo <= hi + 1, UnitsIn(frames) \subseteq lo .. hi
  PROVE  Len(frames) * FrameUnits <= (hi - lo) + 1
<1> DEFINE rows == 1 .. Len(frames)
           columns == 1 .. FrameUnits
           places == rows \X columns
           unit == [p \in places |-> frames[p[1]][p[2]]]
<1>1. Len(frames) \in Nat /\ FrameUnits \in Nat
  BY SizesAssumption, LenProperties
<1>2. \A i \in rows : frames[i] \in Frames /\ Len(frames[i]) = FrameUnits
                      /\ UnitsOf(frames[i]) \subseteq lo .. hi
  BY UnitsFacts, FrameFacts
<1>3. \A i \in rows : \A j \in columns : frames[i][j] \in lo .. hi /\ frames[i][j] \in UnitsOf(frames[i])
  BY <1>2 DEF UnitsOf
<1>4. ASSUME NEW i \in rows, NEW j \in columns, NEW k \in rows, NEW l \in columns,
             frames[i][j] = frames[k][l]
      PROVE  i = k /\ j = l
  <2>1. \A a, b \in rows : a < b => Below(UnitsOf(frames[a]), UnitsOf(frames[b]))
    BY DEF FramesRising
  <2>2. \A a \in rows : Rising(frames[a])
    BY DEF FramesRising
  <2>3. ~(i < k) /\ ~(k < i)
    <3> DEFINE u == frames[i][j]
    <3>1. u \in lo .. hi /\ u \in UnitsOf(frames[i]) /\ u \in UnitsOf(frames[k])
      BY <1>3, <1>4
    <3> HIDE DEF u
    <3>2. ~(u < u)
      BY <3>1
    <3> QED BY <2>1, <3>1, <3>2 DEF Below
  <2>4. i = k
    BY <1>1, <2>3
  <2>5. \A a, b \in columns : a < b => frames[i][a] < frames[i][b]
    BY <1>2, <2>2 DEF Rising
  <2>6. ~(j < l) /\ ~(l < j)
    <3>1. frames[i][j] \in lo .. hi /\ frames[i][l] = frames[i][j]
      BY <1>3, <1>4, <2>4
    <3>2. ~(frames[i][j] < frames[i][j])
      BY <3>1
    <3> QED BY <2>5, <3>1, <3>2
  <2> QED BY <1>1, <2>4, <2>6
<1>5. unit \in [places -> lo .. hi]
  BY <1>3
<1>6. ASSUME NEW p \in places, NEW q \in places, unit[p] = unit[q]
      PROVE  p = q
  <2>1. /\ p[1] \in rows /\ p[2] \in columns /\ q[1] \in rows /\ q[2] \in columns
        /\ p = <<p[1], p[2]>> /\ q = <<q[1], q[2]>>
    OBVIOUS
  <2>2. frames[p[1]][p[2]] = frames[q[1]][q[2]]
    BY <1>6
  <2>3. p[1] = q[1] /\ p[2] = q[2]
    BY <1>4, <2>1, <2>2
  <2> QED BY <2>1, <2>3
<1> HIDE DEF unit
<1>7. unit \in Injection(places, lo .. hi)
  <2>1. DOMAIN unit = places
    BY <1>5
  <2>2. IsInjective(unit)
    <3> HIDE DEF places
    <3> QED BY <1>6, <2>1 DEF IsInjective
  <2> QED BY <1>5, <2>2 DEF Injection
<1>8. IsFiniteSet(lo .. hi) /\ Cardinality(lo .. hi) = (hi - lo) + 1
  <2>1. Cardinality(lo .. hi) = IF lo > hi THEN 0 ELSE (hi - lo) + 1
    BY FS_Interval
  <2> QED BY <2>1, FS_Interval
<1>9. /\ IsFiniteSet(rows) /\ Cardinality(rows) = Len(frames)
      /\ IsFiniteSet(columns) /\ Cardinality(columns) = FrameUnits
  <2>1. /\ IsFiniteSet(rows) /\ Cardinality(rows) = IF 1 > Len(frames) THEN 0 ELSE (Len(frames) - 1) + 1
        /\ IsFiniteSet(columns) /\ Cardinality(columns) = IF 1 > FrameUnits THEN 0 ELSE (FrameUnits - 1) + 1
    BY <1>1, FS_Interval
  <2> QED BY <1>1, <2>1
<1>10. Cardinality(places) = Len(frames) * FrameUnits
  <2> HIDE DEF rows, columns
  <2> QED BY <1>9, FS_Product
<1>11. Cardinality(places) <= Cardinality(lo .. hi)
  <2> HIDE DEF places
  <2> QED BY <1>7, <1>8, FS_Injection
<1> QED BY <1>8, <1>10, <1>11

\* What ReconnectBuffer::push drops is so old that the buffer had no room for
\* it and for all that was passed since.
LEMMA PushKeepsRecent ==
  ASSUME NEW held \in Seq(Frames), NEW frames \in Seq(Frames),
         FramesRising(held), FramesRising(frames), Below(UnitsIn(held), UnitsIn(frames)),
         NEW lo \in Nat, NEW hi \in Nat, hi - lo < Capacity * FrameUnits,
         UnitsIn(held) \cup UnitsIn(frames) \subseteq 1 .. hi
  PROVE  \A x \in UnitsIn(held) \cup UnitsIn(frames) :
           lo <= x => x \in UnitsIn(Push(held, frames))
<1> DEFINE all == held \o frames
           m == (Len(all) - Capacity) + 1
           kept == Push(held, frames)
<1>1. /\ all \in Seq(Frames) /\ Len(all) \in Nat /\ Capacity \in Nat \ {0} /\ FrameUnits \in Nat
      /\ UnitsIn(all) = UnitsIn(held) \cup UnitsIn(frames) /\ FramesRising(all)
  BY SizesAssumption, ConcatFrames, LenProperties
<1>2. kept = IF Len(all) > Capacity THEN SubSeq(all, m, Len(all)) ELSE all
  BY DEF Push
<1>3. kept \in Seq(Frames) /\ FramesRising(kept)
  BY PushUnits
<1> HIDE DEF all, kept
<1> SUFFICES ASSUME NEW x \in UnitsIn(all), lo <= x, Len(all) > Capacity
             PROVE  x \in UnitsIn(kept)
  BY <1>1, <1>2 DEF kept
<1>4. m \in Nat /\ m >= 1 /\ m <= Len(all) /\ (Len(all) - m) + 1 = Capacity
  BY <1>1
<1> HIDE DEF m
<1>5. /\ Len(kept) = Capacity
      /\ \A i \in 1 .. Capacity : kept[i] = all[(m + i) - 1] /\ (m + i) - 1 \in m .. Len(all)
  <2>1. \A i \in m .. Len(all) : all[i] \in Frames
    BY <1>1, <1>4, ElementOfSeq
  <2>2. /\ Len(kept) = (Len(all) - m) + 1
        /\ \A i \in 1 .. (Len(all) - m) + 1 : kept[i] = all[m + i - 1]
    BY <1>1, <1>2, <1>4, <2>1, SubSeqProperties
  <2>3. \A i \in 1 .. Capacity : m + i - 1 = (m + i) - 1 /\ (m + i) - 1 \in m .. Len(all)
    BY <1>1, <1>4
  <2> QED BY <1>4, <2>2, <2>3
<1>6. PICK k \in 1 .. Len(all) : x \in UnitsOf(all[k])
  BY <1>1, UnitsFacts
<1>7. CASE k >= m
  <2>1. (k - m) + 1 \in 1 .. Capacity /\ (m + ((k - m) + 1)) - 1 = k
    BY <1>1, <1>4, <1>7
  <2>2. kept[(k - m) + 1] = all[k]
    BY <1>5, <2>1
  <2> QED BY <1>5, <1>6, <2>1, <2>2 DEF UnitsIn
<1>8. CASE k < m
  <2>1. x \in Nat /\ x <= hi
    BY <1>1
  <2>2. ASSUME NEW y \in UnitsIn(kept) PROVE y \in x + 1 .. hi
    <3>1. PICK i \in 1 .. Capacity : y \in UnitsOf(kept[i])
      BY <1>3, <1>5, UnitsFacts
    <3>2. kept[i] = all[(m + i) - 1] /\ (m + i) - 1 \in 1 .. Len(all) /\ k < (m + i) - 1
      BY <1>1, <1>4, <1>5, <1>8
    <3>3. x < y
      BY <1>1, <1>6, <3>1, <3>2 DEF FramesRising, Below
    <3>4. y \in 1 .. hi
      BY <1>1, <3>1, <3>2, UnitsFacts
    <3> QED BY <2>1, <3>3, <3>4
  <2>3. Len(kept) * FrameUnits <= (hi - (x + 1)) + 1
    <3> DEFINE next == x + 1
    <3>0. UnitsIn(kept) \subseteq x + 1 .. hi
      BY <2>2, Zenon
    <3>1. next \in Nat /\ next <= hi + 1 /\ UnitsIn(kept) \subseteq next .. hi
      BY <2>1, <3>0
    <3> HIDE DEF next
    <3>2. Len(kept) * FrameUnits <= (hi - next) + 1
      BY <1>3, <3>1, FramesTakeRoom, Zenon
    <3> QED BY <3>2 DEF next
  <2>4. Capacity * FrameUnits <= hi - x
    BY <1>5, <2>1, <2>3
  <2> DEFINE room == Capacity * FrameUnits
  <2>5. room \in Nat
    BY <1>1
  <2>6. hi - lo < room /\ room <= hi - x
    BY <2>4
  <2> HIDE DEF room
  <2> QED BY <2>1, <2>5, <2>6
<1> QED BY <1>1, <1>4, <1>7, <1>8

-----------------------------------------------------------------------------
(* Without a network fault *)

Calm == faults = 0 /\ alive

\* What was passed since the caller's session was started fits the buffer.
Fits == Len(owner) - since < Capacity * FrameUnits

\* What the caller passed to the session it is in.
Ours == IF Running /\ current # Nothing THEN since .. Len(owner) ELSE {}

\* No command from one of the queue's on leads to a session other than s.
Steady(queue, from, s) ==
  \A j \in from .. Len(queue) : Boundary(queue[j]) => After(queue[j]) = s

\* A connection that is used has been made, and only a fault loses it.
ConnectedIsUp ==
  /\ pc \in {"starting", "flush", "live", "sending"} => conn # "none"
  /\ Calm => conn # "lost"

\* It passed them in that session.
OursIsCurrent == \A n \in Ours : owner[n] = current

\* The task meets no other session behind what is the caller's.
SteadyAhead ==
  /\ InHand \cap Ours # {} => Steady(commands, 1, current)
  /\ \A k \in Chunks(commands) :
       UnitsOf(commands[k].pcm) \cap Ours # {} => Steady(commands, k + 1, current)

\* In calm, what is the caller's and fits the buffer is heard or held.
AllThere == Calm /\ Fits => Ours \subseteq UnitsOf(HeardUnits) \cup HeldUnits

\* The invariant of a calm network.
Ahead == OursIsCurrent /\ SteadyAhead /\ AllThere

CInv == ConnectedIsUp /\ since # 0 /\ Ahead

\* What is held is in hand or queued.
LEMMA HeldIs ==
  HeldUnits = InHand \cup UnitsQueued(commands)
BY DEF HeldUnits, InHand, Framed, Buffered, Left

\* What a command brings to the task's hands.
Brought(c) == IF c.op = "Chunk" THEN UnitsOf(c.pcm) ELSE {}

\* A command that leaves the channel brings what is not queued any more.
LEMMA TakenOrQueued ==
  ASSUME NEW queue \in Seq(Commands), queue # <<>>
  PROVE  UnitsQueued(queue) \subseteq Brought(Head(queue)) \cup UnitsQueued(Tail(queue))
<1> DEFINE h == Head(queue)
           t == Tail(queue)
<1>1. /\ Len(queue) \in Nat \ {0} /\ h = queue[1] /\ Len(t) = Len(queue) - 1
      /\ \A i \in 1 .. Len(t) : t[i] = queue[i + 1]
  BY HeadTailProperties, EmptySeq
<1> HIDE DEF h, t
<1>2. ASSUME NEW i \in Chunks(queue)
      PROVE  UnitsOf(queue[i].pcm) \subseteq Brought(h) \cup UnitsQueued(t)
  <2>1. CASE i = 1
    BY <1>1, <2>1 DEF Chunks, Brought
  <2>2. CASE i # 1
    <3>1. i - 1 \in 1 .. Len(t) /\ (i - 1) + 1 = i
      BY <1>1, <2>2 DEF Chunks
    <3>2. t[i - 1] = queue[i] /\ i - 1 \in Chunks(t)
      BY <1>1, <3>1 DEF Chunks
    <3> QED BY <3>2 DEF UnitsQueued
  <2> QED BY <2>1, <2>2
<1> QED BY <1>2 DEF UnitsQueued, h, t

\* Reading a command leads nowhere new.
LEMMA SteadyTail ==
  ASSUME NEW queue \in Seq(Commands), queue # <<>>, NEW from \in Nat \ {0}, NEW s,
         Steady(queue, from + 1, s)
  PROVE  Steady(Tail(queue), from, s)
<1> DEFINE t == Tail(queue)
<1>1. /\ Len(queue) \in Nat \ {0} /\ Len(t) = Len(queue) - 1
      /\ \A i \in 1 .. Len(t) : t[i] = queue[i + 1]
  BY HeadTailProperties, EmptySeq
<1> HIDE DEF t
<1>2. ASSUME NEW j \in from .. Len(t)
      PROVE  t[j] = queue[j + 1] /\ j + 1 \in from + 1 .. Len(queue)
  <2>1. j \in 1 .. Len(t) /\ j + 1 \in from + 1 .. Len(queue)
    BY <1>1
  <2> QED BY <1>1, <2>1
<1> QED BY <1>2 DEF Steady, t

\* Where nothing is the caller's there is nothing to lose.
LEMMA NoneAhead ==
  ASSUME Ours' = {}
  PROVE  Ahead'
BY DEF Ahead, OursIsCurrent, SteadyAhead, AllThere

\* A step that reads no command, and in calm loses nothing.
LEMMA ShrinksAhead ==
  ASSUME Ahead, Running' => Running, UNCHANGED <<commands, owner, current, since>>,
         InHand' \subseteq InHand,
         Calm' => /\ Calm
                  /\ UnitsOf(HeardUnits) \cup HeldUnits
                       \subseteq UnitsOf(HeardUnits') \cup HeldUnits'
  PROVE  Ahead'
<1>1. Ours' \subseteq Ours /\ (Fits' <=> Fits)
  BY DEF Ours, Fits
<1>2. OursIsCurrent'
  BY <1>1 DEF Ahead, OursIsCurrent
<1>3. SteadyAhead'
  <2>1. InHand' \cap Ours' # {} => InHand \cap Ours # {}
    BY <1>1
  <2>2. ASSUME NEW k \in Chunks(commands)
        PROVE  UnitsOf(commands[k].pcm) \cap Ours' # {} => UnitsOf(commands[k].pcm) \cap Ours # {}
    BY <1>1
  <2> QED BY <2>1, <2>2 DEF Ahead, SteadyAhead
<1>4. AllThere'
  BY <1>1 DEF Ahead, AllThere
<1> QED BY <1>2, <1>3, <1>4 DEF Ahead

\* A step that touches no audio.
LEMMA StillAhead ==
  ASSUME Ahead, Running' => Running, Calm' => Calm,
         UNCHANGED <<commands, buffer, assembler, sending, owner, current, since, heard>>
  PROVE  Ahead'
<1>1. InHand' = InHand /\ HeldUnits' = HeldUnits /\ HeardUnits' = HeardUnits
  BY DEF InHand, Framed, Buffered, Left, HeldUnits, HeardUnits
<1> QED BY <1>1, ShrinksAhead

\* A step that reads a command, and in calm keeps in hand what is the caller's.
LEMMA TakesAhead ==
  ASSUME TypeOK, Ahead, commands # <<>>, commands' = Tail(commands), Running, Calm' => Calm,
         UNCHANGED <<owner, current, since, heard>>,
         InHand' \subseteq InHand \cup Brought(Head(commands)),
         Calm /\ Fits => (InHand \cup Brought(Head(commands))) \cap Ours \subseteq InHand'
  PROVE  Ahead'
<1> DEFINE h == Head(commands)
           t == Tail(commands)
<1>1. /\ commands \in Seq(Commands) /\ h = commands[1]
      /\ Len(commands) \in Nat \ {0} /\ Len(t) = Len(commands) - 1
      /\ \A i \in 1 .. Len(t) : t[i] = commands[i + 1]
  BY HeadTailProperties, EmptySeq DEF TypeOK
<1>2. Ours' \subseteq Ours /\ (Fits' <=> Fits) /\ HeardUnits' = HeardUnits
  BY DEF Ours, Fits, HeardUnits
<1>3. OursIsCurrent'
  BY <1>2 DEF Ahead, OursIsCurrent
<1>4. ASSUME Steady(commands, 1, current)
      PROVE  Steady(commands, 1 + 1, current)
  BY <1>4 DEF Steady
<1>5. h.op = "Chunk" => 1 \in Chunks(commands)
  BY <1>1 DEF Chunks
<1>6. ASSUME InHand' \cap Ours' # {}
      PROVE  Steady(t, 1, current)
  <2>1. PICK n \in Ours : n \in InHand \/ n \in Brought(h)
    BY <1>2, <1>6
  <2>2. Steady(commands, 1 + 1, current)
    <3>1. CASE n \in InHand
      BY <1>4, <2>1, <3>1 DEF Ahead, SteadyAhead
    <3>2. CASE n \in Brought(h)
      <4>1. 1 \in Chunks(commands) /\ n \in UnitsOf(commands[1].pcm)
        BY <1>1, <1>5, <3>2 DEF Brought
      <4> QED BY <2>1, <4>1 DEF Ahead, SteadyAhead
    <3> QED BY <2>1, <3>1, <3>2
  <2> QED BY <1>1, <2>2, SteadyTail
<1>7. ASSUME NEW k \in Chunks(t), UnitsOf(t[k].pcm) \cap Ours' # {}
      PROVE  Steady(t, k + 1, current)
  <2>1. k \in 1 .. Len(t) /\ k \in Nat /\ k + 1 \in Nat \ {0} /\ k + 1 \in 1 .. Len(commands)
    BY <1>1 DEF Chunks
  <2>2. t[k] = commands[k + 1] /\ k + 1 \in Chunks(commands)
    BY <1>1, <2>1 DEF Chunks
  <2>3. UnitsOf(commands[k + 1].pcm) \cap Ours # {}
    BY <1>2, <1>7, <2>2
  <2>4. Steady(commands, (k + 1) + 1, current)
    BY <2>2, <2>3 DEF Ahead, SteadyAhead
  <2> QED BY <1>1, <2>1, <2>4, SteadyTail
<1>8. SteadyAhead'
  BY <1>6, <1>7 DEF SteadyAhead
<1>9. AllThere'
  <2> SUFFICES ASSUME Calm, Fits, NEW n \in Ours
               PROVE  n \in UnitsOf(HeardUnits) \cup HeldUnits'
    BY <1>2 DEF AllThere
  <2>1. n \in UnitsOf(HeardUnits) \cup InHand \cup UnitsQueued(commands)
    BY HeldIs DEF Ahead, AllThere
  <2>2. UnitsQueued(commands) \subseteq Brought(h) \cup UnitsQueued(t)
    BY <1>1, TakenOrQueued
  <2>3. HeldUnits' = InHand' \cup UnitsQueued(t)
    BY DEF HeldUnits, InHand, Framed, Buffered, Left
  <2> QED BY <2>1, <2>2, <2>3
<1> QED BY <1>3, <1>8, <1>9 DEF Ahead

\* What is the caller's is not in hand when a command leads elsewhere, nor where
\* the task has no session.
LEMMA NoneOfOurs ==
  ASSUME TypeOK, Ahead, Theirs, commands # <<>>,
         \/ session = Nothing
         \/ Boundary(Head(commands)) /\ After(Head(commands)) # session
  PROVE  InHand \cap Ours = {}
<1> SUFFICES ASSUME NEW n \in InHand, n \in Ours PROVE FALSE
  OBVIOUS
<1>1. owner[n] = session /\ owner[n] = current /\ current # Nothing
  BY DEF Theirs, HandTheirs, Ahead, OursIsCurrent, Ours
<1>2. /\ Head(commands) = commands[1] /\ 1 \in 1 .. Len(commands)
  BY HeadTailProperties, EmptySeq DEF TypeOK
<1>3. Boundary(Head(commands)) => After(Head(commands)) = current
  BY <1>2 DEF Ahead, SteadyAhead, Steady
<1> QED BY <1>1, <1>3

\* Opening or closing a session empties the hands.
LEMMA DropsAhead ==
  ASSUME TypeOK, Ahead, Theirs, commands # <<>>, commands' = Tail(commands), Running,
         Head(commands).op # "Chunk", Calm' => Calm,
         UNCHANGED <<owner, current, since, heard, sending>>, sending = <<>>,
         buffer' \in {<<>>, Nothing}, assembler' \in {<<>>, Nothing},
         \/ session = Nothing
         \/ Boundary(Head(commands)) /\ After(Head(commands)) # session
  PROVE  Ahead'
<1>1. InHand' = {}
  BY EmptyUnits DEF InHand, Framed, Buffered, Left
<1>2. InHand \cap Ours = {}
  BY NoneOfOurs
<1>3. Brought(Head(commands)) = {}
  BY DEF Brought
<1> QED BY <1>1, <1>2, <1>3, TakesAhead

\* A chunk goes from the channel into frames and the remainder.
LEMMA ChunkAhead ==
  ASSUME TypeOK, OptionsFollowSession, BacklogFirst, SendingFrames, InOrder, Hands, Theirs, Ahead,
         LiveChunk \/ WaitChunk
  PROVE  Ahead'
<1> DEFINE new == Head(commands).pcm
           pcm == assembler \o new
<1>1. /\ commands # <<>> /\ commands' = Tail(commands) /\ Head(commands).op = "Chunk"
      /\ Running /\ Calm' = Calm /\ assembler # Nothing /\ buffer # Nothing
      /\ UNCHANGED <<session, owner, current, since, heard>>
      /\ assembler' = Rest(pcm)
  <2>1. CASE LiveChunk
    BY <2>1 DEF LiveChunk, Receive, Running, Calm, OptionsFollowSession, callerVars, netVars, peerVars
  <2>2. CASE WaitChunk
    BY <2>2 DEF WaitChunk, Receive, Running, Calm, OptionsFollowSession, callerVars, netVars, peerVars
  <2> QED BY <2>1, <2>2
<1>2. ~Boundary(Head(commands))
  BY <1>1 DEF Boundary
<1>3. /\ new \in Seq(Nat) /\ Rising(new) /\ Below(InHand, UnitsOf(new))
      /\ UnitsOf(new) \subseteq UnitsQueued(commands)
  BY <1>1, <1>2, TakesCommand
<1>4. /\ assembler \in Seq(Nat) /\ Left = assembler /\ buffer \in Seq(Frames) /\ Buffered = buffer
      /\ Rising(assembler) /\ FramesRising(buffer)
      /\ UnitsOf(assembler) \subseteq InHand /\ UnitsIn(buffer) \subseteq InHand
      /\ Below(UnitsIn(buffer), UnitsOf(assembler))
  <2>1. /\ assembler \in Seq(Nat) /\ Left = assembler /\ buffer \in Seq(Frames) /\ Buffered = buffer
    BY <1>1, HandTypes DEF TypeOK
  <2>2. UnitsOf(assembler) \subseteq InHand /\ UnitsIn(buffer) \subseteq Framed /\ Framed \subseteq InHand
    BY <2>1 DEF InHand, Framed
  <2> QED BY <2>1, <2>2 DEF Hands, Below
<1>5. /\ pcm \in Seq(Nat) /\ UnitsOf(pcm) = UnitsOf(assembler) \cup UnitsOf(new) /\ Rising(pcm)
  <2>1. Below(UnitsOf(assembler), UnitsOf(new))
    BY <1>3, <1>4 DEF Below
  <2> QED BY <1>3, <1>4, <2>1, ConcatUnits
<1> HIDE DEF pcm
<1>6. /\ Cut(pcm) \in Seq(Frames) /\ Rest(pcm) \in Seq(Nat) /\ FramesRising(Cut(pcm))
      /\ UnitsIn(Cut(pcm)) \cup UnitsOf(Rest(pcm)) = UnitsOf(pcm)
  BY <1>5, CutUnits
<1>7. Left' = Rest(pcm)
  BY <1>1, <1>6, NothingIsNoSequence DEF Left, OrEmpty
<1>8. Brought(Head(commands)) = UnitsOf(new)
  BY <1>1 DEF Brought
<1> HIDE DEF new
<1>9. CASE LiveChunk
  <2>1. pc = "live" /\ sending' = Cut(pcm) /\ buffer' = buffer
    BY <1>9 DEF LiveChunk, pcm, new
  <2>2. buffer = <<>> /\ sending = <<>> /\ Buffered' = <<>>
    BY <1>4, <2>1, EmptyUnits DEF BacklogFirst, SendingFrames, Buffered
  <2>3. InHand = UnitsOf(assembler) /\ InHand' = UnitsIn(Cut(pcm)) \cup UnitsOf(Rest(pcm))
    BY <1>4, <1>7, <2>1, <2>2, EmptyUnits DEF InHand, Framed
  <2>4. InHand' = InHand \cup Brought(Head(commands))
    BY <1>5, <1>6, <1>8, <2>3
  <2> QED BY <1>1, <2>4, TakesAhead
<1>10. CASE WaitChunk
  <2>1. pc = "wait" /\ sending' = sending /\ buffer' = Push(buffer, Cut(pcm))
    BY <1>10 DEF WaitChunk, pcm, new
  <2>2. sending = <<>>
    BY <2>1 DEF SendingFrames
  <2>3. Below(UnitsIn(buffer), UnitsIn(Cut(pcm)))
    BY <1>3, <1>4, <1>5, <1>6 DEF Below
  <2>4. /\ Push(buffer, Cut(pcm)) \in Seq(Frames)
        /\ UnitsIn(Push(buffer, Cut(pcm))) \subseteq UnitsIn(buffer) \cup UnitsIn(Cut(pcm))
    BY <1>4, <1>6, <2>3, PushUnits
  <2>5. Buffered' = Push(buffer, Cut(pcm))
    BY <2>1, <2>4, NothingIsNoSequence DEF Buffered, OrEmpty
  <2>6. /\ InHand = UnitsIn(buffer) \cup UnitsOf(assembler)
        /\ InHand' = UnitsIn(Push(buffer, Cut(pcm))) \cup UnitsOf(Rest(pcm))
    BY <1>4, <1>7, <2>1, <2>2, <2>5, EmptyUnits DEF InHand, Framed
  <2>7. InHand' \subseteq InHand \cup Brought(Head(commands))
    BY <1>5, <1>6, <1>8, <2>4, <2>6
  <2>8. ASSUME Fits
        PROVE  (InHand \cup Brought(Head(commands))) \cap Ours \subseteq InHand'
    <3>1. since \in Nat /\ Len(owner) \in Nat /\ Len(owner) - since < Capacity * FrameUnits
      BY <2>8, LenProperties DEF TypeOK, Fits
    <3>2. InHand \cup UnitsOf(new) \subseteq 1 .. Len(owner)
      BY <1>3, HeldIs DEF InOrder
    <3>3. UnitsIn(buffer) \cup UnitsIn(Cut(pcm)) \subseteq 1 .. Len(owner)
      BY <1>4, <1>5, <1>6, <3>2
    <3>4. \A x \in UnitsIn(buffer) \cup UnitsIn(Cut(pcm)) :
            since <= x => x \in UnitsIn(Push(buffer, Cut(pcm)))
      BY <1>4, <1>6, <2>3, <3>1, <3>3, PushKeepsRecent
    <3>5. \A x \in Ours : since <= x
      BY <3>1 DEF Ours
    <3> QED BY <1>5, <1>6, <1>8, <2>6, <3>4, <3>5
  <2> QED BY <1>1, <2>7, <2>8, TakesAhead
<1> QED BY <1>9, <1>10

\* A frame that is sent in calm is heard.
LEMMA FrameAhead ==
  ASSUME IInv, IInv', UInv, CInv, FlushFrame \/ SendFrame
  PROVE  Ahead'
<1>1. PICK frame \in Frames : Sends(frame)
  BY SendingSends DEF UInv
<1>2. /\ UNCHANGED <<commands, owner, current, since>> /\ Running /\ Calm' = Calm
      /\ pc \in {"flush", "sending"}
  BY DEF FlushFrame, SendFrame, Running, Calm, callerVars, netVars
<1>3. /\ InHand' \subseteq InHand /\ HeldUnits = UnitsOf(frame) \cup HeldUnits' /\ Hear(frame)
  BY <1>1 DEF Sends
<1>4. ASSUME Calm
      PROVE  UnitsOf(HeardUnits) \cup HeldUnits \subseteq UnitsOf(HeardUnits') \cup HeldUnits'
  <2>1. conn = "up"
    BY <1>2, <1>4 DEF CInv, ConnectedIsUp, IInv, TypeOK
  <2>2. HeardUnits' = HeardUnits \o frame
    BY <1>3, <2>1, FrameHeard DEF IInv
  <2>3. HeardUnits \in Seq(Nat) /\ frame \in Seq(Nat)
    <3>1. HeardUnits = UnitsHeard(heard) /\ heard \in Seq(Hearings)
      BY DEF HeardUnits, UnitsHeard, Hearings, IInv, TypeOK
    <3> QED BY <3>1, HeardFacts, FrameFacts
  <2>4. UnitsOf(HeardUnits') = UnitsOf(HeardUnits) \cup UnitsOf(frame)
    BY <2>2, <2>3, ConcatUnits
  <2> QED BY <1>3, <2>4
<1> QED BY <1>2, <1>3, <1>4, ShrinksAhead DEF CInv

\* A batch that cannot be sent is buffered, and that is not in calm.
LEMMA FailureAhead ==
  ASSUME IInv, UInv, CInv, SendFrameFails
  PROVE  Ahead'
<1>1. /\ buffer = <<>> /\ buffer' = Push(buffer, sending) /\ sending' = <<>>
      /\ UNCHANGED <<commands, owner, current, since, assembler>> /\ Running /\ ~Calm'
  BY DEF SendFrameFails, IInv, BacklogFirst, Running, CInv, ConnectedIsUp, Calm, callerVars, netVars
<1>2. /\ sending \in Seq(Frames) /\ <<>> \in Seq(Frames) /\ FramesRising(sending)
      /\ Below(UnitsIn(<<>>), UnitsIn(sending))
  BY EmptyUnits DEF IInv, TypeOK, UInv, Hands, Below
<1>3. buffer' \in Seq(Frames) /\ UnitsIn(buffer') \subseteq UnitsIn(sending)
  BY <1>1, <1>2, EmptyUnits, PushUnits
<1>4. Buffered' = buffer' /\ Buffered = <<>>
  BY <1>1, <1>3, EmptyUnits, NothingIsNoSequence DEF Buffered, OrEmpty
<1>5. InHand' \subseteq InHand
  BY <1>1, <1>3, <1>4, EmptyUnits DEF InHand, Framed, Left
<1> QED BY <1>1, <1>5, ShrinksAhead DEF CInv

\* The steps of the task.
LEMMA TaskAhead ==
  ASSUME IInv, IInv', UInv, CInv, Task
  PROVE  Ahead'
<1>0. /\ TypeOK /\ OptionsFollowSession /\ BacklogFirst /\ SendingFrames
      /\ IdleHasNone /\ InOrder /\ Hands /\ Theirs /\ Ahead
  BY DEF IInv, UInv, CInv
<1>1. ASSUME \/ IdleExit \/ Connect \/ ConnectFails \/ SendStart \/ SendStartFails
             \/ FlushFails \/ FlushEnds \/ LiveExit \/ LiveSocketCloses
             \/ WaitElapses \/ WaitAbandoned
      PROVE  Ahead'
  <2>1. /\ Running /\ (Calm' => Calm)
        /\ UNCHANGED <<commands, buffer, assembler, sending, owner, current, since, heard>>
    BY <1>0, <1>1 DEF IdleExit, Connect, ConnectFails, SendStart, SendStartFails, FlushFails,
         FlushEnds, LiveExit, LiveSocketCloses, WaitElapses, WaitAbandoned, LeaveWait,
         Running, Calm, TypeOK, callerVars, netVars, peerVars
  <2> QED BY <1>0, <2>1, StillAhead
<1>2. ASSUME \/ LiveStartSame \/ LivePause("Pause", TRUE) \/ LivePause("Resume", FALSE)
             \/ WaitIgnore \/ IdleIgnore
             \/ WaitStart /\ Head(commands).session = session
      PROVE  Ahead'
  <2>1. /\ Running /\ Calm' = Calm /\ commands # <<>> /\ commands' = Tail(commands)
        /\ UNCHANGED <<session, buffer, assembler, sending, owner, current, since, heard>>
        /\ Head(commands).op = "Chunk" => pc = "idle"
        /\ Head(commands).op = "End" => pc = "idle"
        /\ Head(commands).op = "Start" => Head(commands).session = session
    <3>1. CASE LiveStartSame \/ (WaitStart /\ Head(commands).session = session)
      BY <3>1 DEF LiveStartSame, WaitStart, Receive, Reply, Running, Calm,
           callerVars, taskVars, netVars, peerVars
    <3>2. CASE LivePause("Pause", TRUE)
      BY <3>2 DEF LivePause, Receive, Running, Calm, callerVars, netVars
    <3>5. CASE LivePause("Resume", FALSE)
      BY <3>5 DEF LivePause, Receive, Running, Calm, callerVars, netVars
    <3>3. CASE WaitIgnore
      BY <3>3 DEF WaitIgnore, Receive, Running, Calm, callerVars, taskVars, netVars, peerVars
    <3>4. CASE IdleIgnore
      BY <3>4 DEF IdleIgnore, Receive, Running, Calm, callerVars, taskVars, netVars, peerVars
    <3> QED BY <1>2, <3>1, <3>2, <3>3, <3>4, <3>5
  <2>2. InHand' = InHand
    BY <2>1 DEF InHand, Framed, Buffered, Left
  <2>3. Brought(Head(commands)) \cap Ours = {}
    <3> SUFFICES ASSUME Head(commands).op = "Chunk", NEW n \in UnitsOf(Head(commands).pcm), n \in Ours
                 PROVE  FALSE
      BY DEF Brought
    <3>1. ~Boundary(Head(commands))
      BY DEF Boundary
    <3>2. owner[n] = session
      BY <1>0, <2>1, <3>1, TakesCommand
    <3>3. session = Nothing
      BY <1>0, <2>1 DEF IdleHasNone
    <3>4. owner[n] = current /\ current # Nothing
      BY <1>0 DEF Ahead, OursIsCurrent, Ours
    <3> QED BY <3>2, <3>3, <3>4
  <2> QED BY <1>0, <2>1, <2>2, <2>3, TakesAhead
<1>3. ASSUME \/ IdleStart \/ LiveStartOther \/ LiveEnd \/ WaitEnd
             \/ WaitStart /\ Head(commands).session # session
      PROVE  Ahead'
  <2>1. /\ Running /\ Calm' = Calm /\ commands # <<>> /\ commands' = Tail(commands)
        /\ pc # "sending" /\ Head(commands).op \in {"Start", "End"}
        /\ UNCHANGED <<owner, current, since, heard, sending>>
        /\ buffer' \in {<<>>, Nothing} /\ assembler' \in {<<>>, Nothing}
    BY <1>3 DEF IdleStart, LiveStartOther, LiveEnd, WaitEnd, WaitStart, Receive, Reply, Open, Close,
         Running, Calm, callerVars, netVars, peerVars
  <2>2. \/ session = Nothing
        \/ Boundary(Head(commands)) /\ After(Head(commands)) # session
    BY <1>0, <1>3 DEF IdleStart, LiveStartOther, LiveEnd, WaitEnd, WaitStart, Receive,
         IdleHasNone, Boundary, After
  <2>3. sending = <<>> /\ Head(commands).op # "Chunk"
    BY <1>0, <2>1 DEF SendingFrames
  <2> QED BY <1>0, <2>1, <2>2, <2>3, DropsAhead
<1>4. CASE WaitChunkPanics
  <2>1. Ours' = {}
    BY <1>4 DEF WaitChunkPanics, Ours, Running
  <2> QED BY <2>1, NoneAhead
<1> QED BY <1>0, <1>1, <1>2, <1>3, <1>4, ChunkAhead, FrameAhead, FailureAhead DEF Task, WaitReceives

-----------------------------------------------------------------------------
(* The steps of the caller *)

\* A command that is queued last comes behind everything that is the caller's.
LEMMA SteadyLonger ==
  ASSUME NEW queue \in Seq(Commands), NEW c \in Commands, NEW from \in Nat \ {0}, NEW s,
         Steady(queue, from, s), Boundary(c) => After(c) = s
  PROVE  Steady(Append(queue, c), from, s)
<1>1. /\ Len(queue) \in Nat /\ Len(Append(queue, c)) = Len(queue) + 1
      /\ Append(queue, c)[Len(queue) + 1] = c
      /\ \A i \in 1 .. Len(queue) : Append(queue, c)[i] = queue[i]
  BY LenProperties, AppendProperties
<1> DEFINE longer == Append(queue, c)
<1> HIDE DEF longer
<1>2. ASSUME NEW j \in from .. Len(queue) + 1
      PROVE  Boundary(longer[j]) => After(longer[j]) = s
  <2>1. CASE j = Len(queue) + 1
    BY <1>1, <2>1 DEF longer
  <2>2. CASE j # Len(queue) + 1
    <3>1. j \in 1 .. Len(queue) /\ j \in from .. Len(queue)
      BY <1>1, <2>2
    <3> QED BY <1>1, <3>1 DEF Steady, longer
  <2> QED BY <2>1, <2>2
<1> QED BY <1>1, <1>2 DEF Steady, longer

\* The caller queues a command that is no chunk.
LEMMA CommandAhead ==
  ASSUME TypeOK, Ahead, NEW c \in Commands, c.op # "Chunk",
         commands' = Append(commands, c), Running' => Running, Calm' => Calm,
         UNCHANGED <<buffer, assembler, sending, owner, heard>>,
         Ours' # {} => /\ current' = current /\ since' = since
                       /\ Boundary(c) => After(c) = current
  PROVE  Ahead'
<1> SUFFICES ASSUME Ours' # {} PROVE Ahead'
  BY NoneAhead
<1> DEFINE longer == Append(commands, c)
<1>1. /\ commands \in Seq(Commands) /\ Len(commands) \in Nat
      /\ Len(longer) = Len(commands) + 1 /\ longer[Len(commands) + 1] = c
      /\ \A i \in 1 .. Len(commands) : longer[i] = commands[i]
      /\ UnitsQueued(longer) = UnitsQueued(commands)
  BY LenProperties, AppendProperties, LastCommand DEF TypeOK
<1> HIDE DEF longer
<1>2. /\ Ours' \subseteq Ours /\ (Fits' <=> Fits) /\ current' = current
      /\ InHand' = InHand /\ HeardUnits' = HeardUnits
      /\ HeldUnits' = InHand \cup UnitsQueued(longer)
  BY DEF Ours, Fits, HeardUnits, InHand, Framed, Buffered, Left, HeldUnits, longer
<1>3. OursIsCurrent'
  BY <1>2 DEF Ahead, OursIsCurrent
<1>4. ASSUME InHand' \cap Ours' # {}
      PROVE  Steady(longer, 1, current)
  <2>1. Steady(commands, 1, current)
    BY <1>2, <1>4 DEF Ahead, SteadyAhead
  <2>2. Boundary(c) => After(c) = current
    OBVIOUS
  <2> QED BY <1>1, <2>1, <2>2, SteadyLonger DEF longer
<1>5. ASSUME NEW k \in Chunks(longer), UnitsOf(longer[k].pcm) \cap Ours' # {}
      PROVE  Steady(longer, k + 1, current)
  <2>1. k \in 1 .. Len(commands) /\ k \in Chunks(commands) /\ longer[k] = commands[k]
        /\ k + 1 \in Nat \ {0}
    BY <1>1 DEF Chunks
  <2>2. Steady(commands, k + 1, current)
    BY <1>2, <1>5, <2>1 DEF Ahead, SteadyAhead
  <2>3. Boundary(c) => After(c) = current
    OBVIOUS
  <2> QED BY <1>1, <2>1, <2>2, <2>3, SteadyLonger DEF longer
<1>6. SteadyAhead'
  BY <1>2, <1>4, <1>5 DEF SteadyAhead, longer
<1>7. AllThere'
  BY <1>1, <1>2, HeldIs DEF Ahead, AllThere
<1> QED BY <1>3, <1>6, <1>7 DEF Ahead

\* What the caller passes is its own, and queued behind every other command.
LEMMA PassedAhead ==
  ASSUME IInv, UInv, CInv, NEW size \in ChunkSizes, CallChunk(size)
  PROVE  Ahead'
<1> DEFINE pcm == [i \in 1 .. size |-> Len(owner) + i]
           c == [op |-> "Chunk", pcm |-> pcm]
           m == Len(owner)
           longer == Append(commands, c)
<1>0. TypeOK /\ InOrder /\ size \in Nat /\ since \in Nat \ {0} /\ Ahead
  BY SizesAssumption DEF IInv, UInv, CInv, TypeOK
<1>1. /\ commands' = longer /\ Running /\ Calm' = Calm
      /\ owner' = owner \o [i \in 1 .. size |-> current]
      /\ UNCHANGED <<buffer, assembler, sending, pc, heard, current, since>>
  BY DEF CallChunk, Call, taskVars, netVars, peerVars, Calm
<1>2. /\ pcm \in Seq(Nat) /\ UnitsOf(pcm) = m + 1 .. m + size
      /\ Len(owner') = m + size /\ m \in Nat
      /\ \A n \in 1 .. m : owner'[n] = owner[n]
      /\ \A n \in m + 1 .. m + size : owner'[n] = current
  BY <1>0, <1>1, NewUnits
<1>3. c \in Commands /\ c.op = "Chunk" /\ c.pcm = pcm /\ ~Boundary(c)
  BY <1>2 DEF Commands, Boundary
<1> HIDE DEF pcm, c
<1>4. /\ commands \in Seq(Commands) /\ Len(commands) \in Nat
      /\ Len(longer) = Len(commands) + 1 /\ longer[Len(commands) + 1] = c
      /\ \A i \in 1 .. Len(commands) : longer[i] = commands[i]
      /\ UnitsQueued(longer) = UnitsQueued(commands) \cup UnitsOf(pcm)
  BY <1>0, <1>3, LenProperties, AppendProperties, LastCommand DEF TypeOK
<1> HIDE DEF m, longer
<1>5. /\ InHand' = InHand /\ HeardUnits' = HeardUnits /\ current' = current
      /\ HeldUnits' = InHand \cup UnitsQueued(longer)
  BY <1>1 DEF HeardUnits, InHand, Framed, Buffered, Left, HeldUnits
<1>6. UnitsOf(HeardUnits) \cup HeldUnits \subseteq 1 .. m
  BY <1>0 DEF InOrder, m
<1>7. ASSUME NEW n \in Ours'
      PROVE  /\ n \in m + 1 .. m + size \/ (n \in 1 .. m /\ n \in Ours)
             /\ n \in Ours \/ n \in UnitsOf(pcm)
  <2>1. Running /\ current # Nothing /\ n \in since .. m + size
    BY <1>1, <1>2, <1>7 DEF Ours, Running
  <2>2. Ours = since .. m
    BY <2>1 DEF Ours, m
  <2> QED BY <1>0, <1>2, <2>1, <2>2
<1>8. Fits' => Fits
  <2> DEFINE room == Capacity * FrameUnits
  <2>1. room \in Nat
    BY SizesAssumption
  <2>2. /\ Fits <=> m - since < room
        /\ Fits' <=> (m + size) - since < room
    BY <1>1, <1>2 DEF Fits, m
  <2> HIDE DEF room
  <2> QED BY <1>0, <1>2, <2>1, <2>2
<1>9. OursIsCurrent'
  <2>1. \A n \in Ours : owner[n] = current
    BY <1>0 DEF Ahead, OursIsCurrent
  <2>2. ASSUME NEW n \in Ours' PROVE owner'[n] = current
    BY <1>2, <1>7, <2>1
  <2> QED BY <1>5, <2>2 DEF OursIsCurrent
<1>10. ASSUME InHand' \cap Ours' # {}
       PROVE  Steady(longer, 1, current)
  <2>1. PICK n \in Ours' : n \in InHand /\ n \in 1 .. m
    <3>1. InHand \subseteq 1 .. m
      BY <1>6, HeldIs
    <3> QED BY <1>5, <1>10, <3>1
  <2>2. n \in Ours
    BY <1>2, <1>7, <2>1
  <2>3. Steady(commands, 1, current)
    BY <1>0, <2>1, <2>2 DEF Ahead, SteadyAhead
  <2> QED BY <1>3, <1>4, <2>3, SteadyLonger DEF longer
<1>11. ASSUME NEW k \in Chunks(longer), UnitsOf(longer[k].pcm) \cap Ours' # {}
       PROVE  Steady(longer, k + 1, current)
  <2>1. CASE k = Len(commands) + 1
    <3>1. k + 1 .. Len(longer) = {}
      BY <1>4, <2>1
    <3> QED BY <3>1 DEF Steady
  <2>2. CASE k # Len(commands) + 1
    <3>1. k \in 1 .. Len(commands) /\ k \in Chunks(commands) /\ longer[k] = commands[k]
          /\ k + 1 \in Nat \ {0}
      BY <1>4, <2>2 DEF Chunks
    <3>2. UnitsOf(commands[k].pcm) \subseteq 1 .. m
      <4>1. UnitsOf(commands[k].pcm) \subseteq HeldUnits
        BY <3>1 DEF HeldUnits, UnitsQueued
      <4> QED BY <1>6, <4>1
    <3>3. PICK n \in Ours' : n \in UnitsOf(commands[k].pcm) /\ n \in 1 .. m
      BY <1>11, <3>1, <3>2
    <3>4. n \in Ours
      BY <1>2, <1>7, <3>3
    <3>5. Steady(commands, k + 1, current)
      BY <1>0, <3>1, <3>3, <3>4 DEF Ahead, SteadyAhead
    <3> QED BY <1>3, <1>4, <3>1, <3>5, SteadyLonger DEF longer
  <2> QED BY <2>1, <2>2
<1>12. SteadyAhead'
  BY <1>1, <1>5, <1>10, <1>11 DEF SteadyAhead
<1>13. AllThere'
  <2> SUFFICES ASSUME Calm', Fits', NEW n \in Ours'
               PROVE  n \in UnitsOf(HeardUnits) \cup InHand \cup UnitsQueued(longer)
    BY <1>5 DEF AllThere
  <2>1. n \in Ours => n \in UnitsOf(HeardUnits) \cup HeldUnits
    BY <1>0, <1>1, <1>8 DEF Ahead, AllThere
  <2> QED BY <1>4, <1>7, <2>1, HeldIs
<1> QED BY <1>9, <1>12, <1>13 DEF Ahead

\* A connection is made before it is used, and lost only by a fault.
LEMMA ConnectedStaysUp ==
  ASSUME TypeOK, CInv, [Next]_vars
  PROVE  ConnectedIsUp' /\ since' # 0 /\ (Calm' => Calm)
<1>0. ConnectedIsUp /\ since \in Nat \ {0} /\ faults \in Nat /\ Len(owner) \in Nat
  BY SizesAssumption, LenProperties DEF TypeOK, CInv
<1>1. CASE Caller
  <2>1. UNCHANGED <<pc, conn, alive, faults>> /\ (since' = since \/ since' = Len(owner) + 1)
    BY <1>1 DEF Caller, CallStart, CallChunk, CallPause, CallResume,
         CallEnd, Call, DropHandle, taskVars, netVars
  <2> QED BY <1>0, <2>1 DEF ConnectedIsUp, Calm
<1>2. CASE Lose \/ Die
  BY <1>0, <1>2 DEF ConnectedIsUp, Calm, Lose, Die, callerVars, taskVars
<1>3. CASE \/ IdleStart \/ IdleIgnore \/ IdleExit \/ SendStart \/ SendStartFails
           \/ FlushFrame \/ FlushFails \/ FlushEnds
  <2>1. /\ UNCHANGED <<conn, alive, faults, since>>
        /\ pc' \in {"starting", "flush", "live", "sending"} => pc \in {"starting", "flush", "live", "sending"}
    BY <1>3 DEF IdleStart, Reply, IdleIgnore, IdleExit, SendStart, SendStartFails,
         FlushFrame, FlushFails, FlushEnds, callerVars, taskVars, netVars
  <2> QED BY <1>0, <2>1 DEF ConnectedIsUp, Calm
<1>4. CASE Connect
  BY <1>0, <1>4 DEF ConnectedIsUp, Calm, Connect, callerVars
<1>5. CASE ConnectFails
  BY <1>0, <1>5 DEF ConnectedIsUp, Calm, ConnectFails, callerVars
<1>6. CASE \/ LiveStartSame \/ LiveStartOther \/ LiveChunk \/ SendFrame \/ SendFrameFails
           \/ LivePause("Pause", TRUE) \/ LivePause("Resume", FALSE)
           \/ LiveSocketCloses
  <2>1. /\ UNCHANGED <<conn, alive, faults, since>>
        /\ pc \in {"starting", "flush", "live", "sending"}
    BY <1>6 DEF LiveStartSame, LiveStartOther, Reply, LiveChunk,
         SendFrame, SendFrameFails, LivePause, LiveSocketCloses, callerVars, taskVars, netVars
  <2> QED BY <1>0, <2>1 DEF ConnectedIsUp, Calm
<1>7. CASE LiveEnd \/ LiveExit
  BY <1>0, <1>7 DEF ConnectedIsUp, Calm, LiveEnd, LiveExit, callerVars
<1>8. CASE \/ WaitElapses \/ WaitAbandoned \/ WaitStart \/ WaitChunk \/ WaitChunkPanics
           \/ WaitEnd \/ WaitIgnore
  BY <1>0, <1>8 DEF ConnectedIsUp, Calm, WaitElapses, WaitAbandoned, LeaveWait, WaitStart, Reply,
       WaitChunk, WaitChunkPanics, WaitEnd, WaitIgnore, callerVars, taskVars, netVars
<1>9. CASE UNCHANGED vars
  BY <1>0, <1>9 DEF ConnectedIsUp, Calm, vars, callerVars, taskVars, netVars
<1> QED BY <1>1, <1>2, <1>3, <1>6, <1>8, <1>9, <1>4, <1>5, <1>7 DEF Next, Task, WaitReceives

\* Every step keeps what is the caller's ahead of any other session.
LEMMA NextAhead ==
  ASSUME IInv, UInv, CInv, [Next]_vars
  PROVE  CInv'
<1>0. TypeOK /\ IInv' /\ Ahead /\ since \in Nat /\ Len(owner) \in Nat
  BY NextKeepsIInv, LenProperties DEF IInv, CInv, TypeOK
<1>1. ConnectedIsUp' /\ since' # 0 /\ (Calm' => Calm)
  BY <1>0, ConnectedStaysUp
<1>2. CASE Task
  BY <1>0, <1>1, <1>2, TaskAhead DEF CInv
<1>3. ASSUME NEW size \in ChunkSizes, CallChunk(size)
      PROVE  CInv'
  BY <1>1, <1>3, PassedAhead DEF CInv
<1>4. ASSUME NEW s \in Sessions, CallStart(s)
      PROVE  CInv'
  <2> DEFINE c == [op |-> "Start", session |-> s]
  <2>1. c \in Commands /\ c.op # "Chunk" /\ After(c) = s
    BY DEF Commands, After
  <2>2. /\ commands' = Append(commands, c) /\ (Running' => Running)
        /\ UNCHANGED <<buffer, assembler, sending, owner, heard>>
        /\ current' = s /\ since' = IF s = current THEN since ELSE Len(owner) + 1
    BY <1>4 DEF CallStart, Call, taskVars, peerVars
  <2>3. s # current => Ours' = {}
    <3>1. Len(owner) + 1 .. Len(owner) = {}
      BY <1>0
    <3> QED BY <2>2, <3>1 DEF Ours
  <2>4. Ours' # {} => /\ current' = current /\ since' = since
                      /\ Boundary(c) => After(c) = current
    BY <2>1, <2>2, <2>3
  <2> HIDE DEF c
  <2>5. Ahead'
    BY <1>0, <1>1, <2>1, <2>2, <2>4, CommandAhead
  <2> QED BY <1>1, <2>5 DEF CInv
<1>5. CASE CallPause \/ CallResume
  <2> DEFINE c(op) == [op |-> op]
  <2>1. \A op \in {"Pause", "Resume"} : c(op) \in Commands /\ c(op).op = op /\ ~Boundary(c(op))
    BY DEF Commands, Boundary
  <2>2. PICK op \in {"Pause", "Resume"} :
          /\ commands' = Append(commands, c(op)) /\ (Running' => Running)
          /\ UNCHANGED <<buffer, assembler, sending, owner, heard, current, since>>
    BY <1>5 DEF CallPause, CallResume, Call, Running, taskVars, peerVars
  <2> DEFINE d == c(op)
  <2>3. d \in Commands /\ d.op # "Chunk" /\ ~Boundary(d) /\ commands' = Append(commands, d)
    BY <2>1, <2>2
  <2> HIDE DEF c, d
  <2>4. Ahead'
    BY <1>0, <1>1, <2>2, <2>3, CommandAhead
  <2> QED BY <1>1, <2>4 DEF CInv
<1>6. CASE CallEnd
  <2>1. Ours' = {}
    BY <1>6 DEF CallEnd, Ours
  <2> QED BY <1>1, <2>1, NoneAhead DEF CInv
<1>7. CASE DropHandle \/ Lose \/ Die \/ UNCHANGED vars
  <2>1. /\ UNCHANGED <<commands, buffer, assembler, sending, owner, current, since, heard>>
        /\ (Running' => Running)
    BY <1>7 DEF DropHandle, Lose, Die, Running, vars, callerVars, taskVars, peerVars
  <2> QED BY <1>0, <1>1, <2>1, StillAhead DEF CInv
<1> QED BY <1>2, <1>3, <1>4, <1>5, <1>6, <1>7 DEF Next, Caller

\* The invariant that NothingLost rests on.
LEMMA CalmInvariance == Spec => [](IInv /\ UInv /\ CInv)
<1>1. Init => IInv /\ UInv /\ CInv
  <2> SUFFICES ASSUME Init PROVE IInv /\ UInv /\ CInv
    OBVIOUS
  <2>1. Ours = {} /\ ConnectedIsUp /\ since # 0
    BY DEF Init, Ours, ConnectedIsUp
  <2>2. Ahead
    BY <2>1 DEF Ahead, OursIsCurrent, SteadyAhead, AllThere
  <2> QED BY <2>1, <2>2, InitIInv, InitUInv DEF CInv
<1>2. IInv /\ UInv /\ CInv /\ [Next]_vars => (IInv /\ UInv /\ CInv)'
  BY NextKeepsIInv, NextStreams, NextAhead
<1> QED BY <1>1, <1>2, PTL DEF Spec

\* LosslessWithoutFault holds for every set of sessions, frame size, buffer
\* capacity and chunk size: while the network does not fail, what was passed
\* since the caller's session started is heard or waits for its frame to fill,
\* if it fits the buffer that holds it over a retry delay.
THEOREM NothingLost == Spec => []LosslessWithoutFault
<1>1. IInv /\ UInv /\ CInv => LosslessWithoutFault
  <2> SUFFICES ASSUME IInv, UInv, CInv, faults = 0, alive, pc = "live", commands = <<>>,
                      session = current, Len(owner) - since < Capacity * FrameUnits,
                      NEW n \in since .. Len(owner)
               PROVE  \/ \E i \in 1 .. Len(heard) : heard[i].unit = n
                      \/ \E i \in 1 .. Len(assembler) : assembler[i] = n
    BY DEF LosslessWithoutFault
  <2>1. Calm /\ Fits /\ Running /\ session # Nothing /\ assembler # Nothing
    BY DEF Calm, Fits, Running, IInv, OptionsFollowSession
  <2>2. n \in UnitsOf(HeardUnits) \cup HeldUnits
    BY <2>1 DEF CInv, Ahead, AllThere, Ours
  <2>3. buffer = <<>> /\ sending = <<>> /\ UnitsQueued(<<>>) = {}
    <3>1. Chunks(<<>>) = {}
      BY DEF Chunks
    <3> QED BY <3>1 DEF IInv, BacklogFirst, SendingFrames, UnitsQueued
  <2>4. HeldUnits = UnitsOf(assembler)
    BY <2>1, <2>3, EmptyUnits DEF HeldUnits, OrEmpty
  <2>5. CASE n \in UnitsOf(HeardUnits)
    <3>1. /\ Len(HeardUnits) = Len(heard)
          /\ \A i \in 1 .. Len(heard) : HeardUnits[i] = heard[i].unit
      <4>1. HeardUnits = UnitsHeard(heard) /\ heard \in Seq(Hearings)
        BY DEF HeardUnits, UnitsHeard, Hearings, IInv, TypeOK
      <4> QED BY <4>1, HeardFacts
    <3> QED BY <2>5, <3>1 DEF UnitsOf
  <2>6. CASE n \in UnitsOf(assembler)
    BY <2>6 DEF UnitsOf
  <2> QED BY <2>2, <2>4, <2>5, <2>6
<1> QED BY <1>1, CalmInvariance, PTL
=============================================================================
