---------------------- MODULE MeetingStore_proofs ----------------------
(***************************************************************************)
(* Theorems about the rows of a meeting, for any number of sessions,       *)
(* streams, runs and deletions: the partials that a crash leaves behind,   *)
(* the times of what later sessions write, and what the shell deletes.     *)
(***************************************************************************)
EXTENDS MeetingStore, FiniteSetTheorems, TLAPS

-----------------------------------------------------------------------------
(* The inductive invariant *)

\* Sessions and segments have the fields that the steps below change.
Shaped ==
  /\ sessions = [c \in Sessions |-> sessions[c]]
  /\ \A c \in Sessions : {"pc", "deletes"} \subseteq DOMAIN sessions[c]
  /\ \A s \in segments : {"id", "partial"} \subseteq DOMAIN s

\* A session owes deletes only while it answers START.
OwesWhileDeleting ==
  \A c \in Sessions : sessions[c].deletes # {} => sessions[c].pc = "deleting"

\* What the sidecar owes goes with it.
NothingOwedWhileDown ==
  ~up => pending = {} /\ \A c \in Sessions : sessions[c].deletes = {}

IInv == Shaped /\ OwesWhileDeleting /\ NothingOwedWhileDown /\ StaleIsDeleted

-----------------------------------------------------------------------------
(* Lemmas *)

\* A stale partial is deleted later, or never.
Owed(id) == id \in pending \/ id \in lost \/ \E c \in Sessions : id \in sessions[c].deletes

LEMMA StaleIsOwed ==
  /\ StaleIsDeleted <=> \A s \in segments : s.partial = -1 => Owed(s.id)
  /\ StaleIsDeleted' <=> \A s \in segments' : s.partial = -1 => Owed(s.id)'
BY DEF StaleIsDeleted, Owed, Undone

\* The steps that leave every debt where it is.
Untouched ==
  /\ UNCHANGED <<up, pending, lost>>
  /\ sessions' = [c \in Sessions |-> sessions'[c]]
  /\ \A c \in Sessions :
       /\ {"pc", "deletes"} \subseteq DOMAIN sessions'[c]
       /\ sessions'[c].deletes = sessions[c].deletes
       /\ sessions[c].deletes # {} => sessions'[c].pc = sessions[c].pc

LEMMA UntouchedKeeps ==
  ASSUME IInv, Untouched,
         \A s \in segments' : /\ {"id", "partial"} \subseteq DOMAIN s
                              /\ s.partial = -1 => s \in segments
  PROVE  IInv'
<1>1. \A s \in segments' : s.partial = -1 => Owed(s.id)'
  BY StaleIsOwed DEF IInv, Untouched, Owed
<1>2. StaleIsDeleted'
  BY <1>1, StaleIsOwed
<1>3. Shaped'
  BY DEF Untouched, Shaped
<1>4. OwesWhileDeleting' /\ NothingOwedWhileDown'
  BY DEF IInv, Untouched, OwesWhileDeleting, NothingOwedWhileDown
<1> QED BY <1>2, <1>3, <1>4 DEF IInv

\* The steps that change one session, which owes nothing, and no segment.
LEMMA OneSessionKeeps ==
  ASSUME IInv, NEW c \in Sessions, sessions[c].deletes = {},
         UNCHANGED <<up, pending, lost, segments>>,
         sessions' = [sessions EXCEPT ![c] = sessions'[c]],
         {"pc", "deletes"} \subseteq DOMAIN sessions'[c],
         sessions'[c].deletes = {}
  PROVE  IInv'
<1>1. Untouched
  BY DEF IInv, Shaped, Untouched
<1> QED BY <1>1, UntouchedKeeps DEF IInv, Shaped

LEMMA GoneOwesNothing ==
  ASSUME NEW c \in Sessions
  PROVE  /\ {"pc", "deletes"} \subseteq DOMAIN Gone[c]
         /\ Gone[c].deletes = {}
BY DEF Gone, Unused

-----------------------------------------------------------------------------
(* The process, the link and the clock *)

LEMMA BootKeeps ==
  ASSUME IInv, Boot
  PROVE  IInv'
<1> DEFINE stale == IF row.status = "RECORDING" THEN {s \in segments : s.partial = 1} ELSE {}
<1>1. /\ ~up /\ up' = TRUE
      /\ segments' = (segments \ stale) \cup {[s EXCEPT !.partial = -1] : s \in stale}
      /\ pending' = {s.id : s \in stale}
      /\ UNCHANGED <<sessions, lost>>
  BY DEF Boot, pastVars
<1>2. pending = {}
  BY <1>1 DEF IInv, NothingOwedWhileDown
<1>3. stale \subseteq segments
  OBVIOUS
<1> HIDE DEF stale
<1>4. ASSUME NEW s \in segments'
      PROVE  /\ {"id", "partial"} \subseteq DOMAIN s
             /\ s.partial = -1 => Owed(s.id)'
  <2>1. CASE s \in segments
    BY <1>1, <1>2, <2>1, StaleIsOwed DEF IInv, Shaped, Owed
  <2>2. CASE s \in {[t EXCEPT !.partial = -1] : t \in stale}
    <3>1. PICK t \in stale : s = [t EXCEPT !.partial = -1]
      BY <2>2
    <3>2. {"id", "partial"} \subseteq DOMAIN t
      BY <1>3 DEF IInv, Shaped
    <3>3. DOMAIN s = DOMAIN t /\ s.id = t.id
      BY <3>1, <3>2
    <3>4. s.id \in pending'
      BY <1>1, <3>3
    <3> QED BY <3>2, <3>3, <3>4 DEF Owed
  <2> QED BY <1>1, <2>1, <2>2
<1>5. StaleIsDeleted'
  BY <1>4, StaleIsOwed
<1> QED BY <1>1, <1>4, <1>5 DEF IInv, Shaped, OwesWhileDeleting, NothingOwedWhileDown

LEMMA ExitKeeps ==
  ASSUME IInv, Exit
  PROVE  IInv'
<1>1. /\ sessions' = Gone /\ pending' = {} /\ lost' = lost \cup pending \cup Undone
      /\ segments' = segments
  BY DEF Exit, tableVars
<1>2. /\ sessions' = [c \in Sessions |-> sessions'[c]]
      /\ \A c \in Sessions : {"pc", "deletes"} \subseteq DOMAIN sessions'[c]
                             /\ sessions'[c].deletes = {}
  BY <1>1, GoneOwesNothing DEF Gone
<1>3. \A id : Owed(id) => Owed(id)'
  BY <1>1 DEF Owed, Undone
<1>4. StaleIsDeleted'
  BY <1>1, <1>3, StaleIsOwed DEF IInv
<1> QED BY <1>1, <1>2, <1>4 DEF IInv, Shaped, OwesWhileDeleting, NothingOwedWhileDown

LEMMA TickKeeps ==
  ASSUME IInv, Tick
  PROVE  IInv'
<1>1. /\ UNCHANGED <<up, pending, lost, segments>>
      /\ sessions' = [c \in Sessions |->
           IF At(c, {"reading", "backoff", "draining", "deaf"})
             THEN [sessions[c] EXCEPT !.elapsed = sessions[c].elapsed + 1] ELSE sessions[c]]
  BY DEF Tick, tableVars, pastVars
<1>2. Untouched
  BY <1>1 DEF IInv, Shaped, Untouched
<1> QED BY <1>1, <1>2, UntouchedKeeps DEF IInv, Shaped

\* The pending deletes become the session's.
LEMMA StartKeeps ==
  ASSUME IInv, NEW c \in Sessions, Start(c)
  PROVE  IInv'
<1>1. /\ up /\ up' = up /\ pending' = {} /\ UNCHANGED <<lost, segments>>
      /\ At(c, {"unused"})
      /\ sessions' = [sessions EXCEPT ![c].pc = "deleting", ![c].deletes = pending]
  BY DEF Start, tableVars, pastVars
<1>2. sessions[c].deletes = {}
  BY <1>1 DEF IInv, OwesWhileDeleting, At
<1>3. /\ sessions' = [d \in Sessions |-> sessions'[d]]
      /\ \A d \in Sessions : {"pc", "deletes"} \subseteq DOMAIN sessions'[d]
      /\ sessions'[c].pc = "deleting" /\ sessions'[c].deletes = pending
      /\ \A d \in Sessions \ {c} : sessions'[d] = sessions[d]
  BY <1>1 DEF IInv, Shaped
<1>4. \A id : Owed(id) => Owed(id)'
  BY <1>1, <1>2, <1>3 DEF Owed
<1>5. StaleIsDeleted'
  BY <1>1, <1>4, StaleIsOwed DEF IInv
<1> QED BY <1>1, <1>3, <1>5 DEF IInv, Shaped, OwesWhileDeleting, NothingOwedWhileDown

\* A session that is cut off loses what it owes.
LEMMA NoticeKeeps ==
  ASSUME IInv, NEW c \in Sessions, Notice(c)
  PROVE  IInv'
<1>1. /\ UNCHANGED <<up, pending, segments>>
      /\ lost' = lost \cup sessions[c].deletes
      /\ sessions' = [sessions EXCEPT ![c] = Gone[c]]
  BY DEF Notice, tableVars
<1>2. /\ sessions' = [d \in Sessions |-> sessions'[d]]
      /\ \A d \in Sessions : {"pc", "deletes"} \subseteq DOMAIN sessions'[d]
      /\ sessions'[c].deletes = {}
      /\ \A d \in Sessions \ {c} : sessions'[d] = sessions[d]
  BY <1>1, GoneOwesNothing DEF IInv, Shaped
<1>3. \A id : Owed(id) => Owed(id)'
  BY <1>1, <1>2 DEF Owed
<1>4. StaleIsDeleted'
  BY <1>1, <1>3, StaleIsOwed DEF IInv
<1> QED BY <1>1, <1>2, <1>4 DEF IInv, Shaped, OwesWhileDeleting, NothingOwedWhileDown

\* A delete that is done is owed no longer, and its segment is gone.
LEMMA DeleteStaleKeeps ==
  ASSUME IInv, NEW c \in Sessions, DeleteStale(c)
  PROVE  IInv'
<1>1. PICK id \in sessions[c].deletes :
        /\ segments' = {s \in segments : s.id # id}
        /\ sessions' = [sessions EXCEPT ![c].deletes = sessions[c].deletes \ {id}]
  BY DEF DeleteStale
<1>2. UNCHANGED <<up, pending, lost>>
  BY DEF DeleteStale, pastVars
<1>3. /\ sessions' = [d \in Sessions |-> sessions'[d]]
      /\ \A d \in Sessions : {"pc", "deletes"} \subseteq DOMAIN sessions'[d]
                             /\ sessions'[d].pc = sessions[d].pc
      /\ sessions'[c].deletes = sessions[c].deletes \ {id}
      /\ \A d \in Sessions \ {c} : sessions'[d] = sessions[d]
  BY <1>1 DEF IInv, Shaped
<1>4. \A other : other # id /\ Owed(other) => Owed(other)'
  BY <1>2, <1>3 DEF Owed
<1>5. StaleIsDeleted'
  BY <1>1, <1>4, StaleIsOwed DEF IInv
<1> QED BY <1>1, <1>2, <1>3, <1>5 DEF IInv, Shaped, OwesWhileDeleting, NothingOwedWhileDown

-----------------------------------------------------------------------------
(* A session that has started *)

\* Steps of a session that has answered START, on no segment.
LEMMA SessionKeeps ==
  ASSUME IInv, NEW c \in Sessions,
         \/ EngineStarts(c) \/ EngineFails(c) \/ Feed(c) \/ HearRefused(c) \/ Reset(c)
         \/ Restarts(c) \/ FailMeeting(c) \/ End(c) \/ Ended(c)
  PROVE  IInv'
<1>1. UNCHANGED <<up, pending, lost, segments>>
  BY DEF EngineStarts, EngineFails, Feed, HearRefused, Reset, Restarts, FailMeeting, End, Ended,
         tableVars, pastVars
<1>2. sessions[c].deletes = {}
  BY DEF EngineStarts, EngineFails, Feed, HearRefused, Reset, Restarts, FailMeeting, End, Ended,
         At, IInv, OwesWhileDeleting
<1>3. CASE sessions' = [sessions EXCEPT ![c] = Gone[c]]
  <2>1. sessions'[c] = Gone[c]
    BY <1>3 DEF IInv, Shaped
  <2> QED BY <1>1, <1>2, <1>3, <2>1, GoneOwesNothing, OneSessionKeeps
<1>4. CASE EngineStarts(c) \/ Feed(c) \/ HearRefused(c) \/ Reset(c) \/ Restarts(c) \/ End(c)
  <2>1. /\ sessions' = [sessions EXCEPT ![c] = sessions'[c]]
        /\ {"pc", "deletes"} \subseteq DOMAIN sessions'[c]
        /\ sessions'[c].deletes = sessions[c].deletes
    <3> USE DEF IInv, Shaped
    <3>1. CASE EngineStarts(c)
      BY <3>1 DEF EngineStarts
    <3>2. CASE Feed(c)
      BY <3>2 DEF Feed
    <3>3. CASE HearRefused(c) \/ End(c)
      BY <3>3 DEF HearRefused, End, Goto
    <3>4. CASE Reset(c)
      BY <3>4 DEF Reset
    <3>5. CASE Restarts(c)
      BY <3>5 DEF Restarts
    <3> QED BY <1>4, <3>1, <3>2, <3>3, <3>4, <3>5
  <2> QED BY <1>1, <1>2, <2>1, OneSessionKeeps
<1> QED BY <1>3, <1>4 DEF EngineFails, FailMeeting, Ended

\* What is heard is never stale.
LEMMA HearKeeps ==
  ASSUME IInv, NEW c \in Sessions, Hear(c)
  PROVE  IInv'
<1>1. PICK end \in sessions[c].heard + 1 .. sessions[c].fed, partial \in {0, 1} :
        /\ Write(Segment(c, end, partial))
        /\ sessions' = [sessions EXCEPT
             ![c].heard = IF partial = 0 THEN end ELSE sessions[c].heard,
             ![c].finals = IF partial = 0 THEN sessions[c].finals + 1 ELSE sessions[c].finals,
             ![c].failures = 0]
  BY DEF Hear
<1>2. UNCHANGED <<up, pending, lost>> /\ sessions[c].deletes = {}
  BY DEF Hear, At, pastVars, IInv, OwesWhileDeleting
<1>3. Untouched
  BY <1>1, <1>2 DEF IInv, Shaped, Untouched
<1>4. \A s \in segments' : /\ {"id", "partial"} \subseteq DOMAIN s
                           /\ s.partial = -1 => s \in segments
  <2>1. /\ {"id", "partial"} \subseteq DOMAIN Segment(c, end, partial)
        /\ Segment(c, end, partial).partial # -1
    BY DEF Segment
  <2> QED BY <1>1, <2>1 DEF Write, IInv, Shaped
<1> QED BY <1>3, <1>4, UntouchedKeeps

\* Steps that touch no session.
LEMMA AwayKeeps ==
  ASSUME IInv, Drop \/ Delete
  PROVE  IInv'
<1>1. UNCHANGED <<up, pending, lost, sessions>> /\ segments' \in {segments, {}}
  BY DEF Drop, Delete, Cascaded, tableVars, pastVars
<1>2. Untouched
  BY <1>1 DEF IInv, Shaped, Untouched
<1> QED BY <1>1, <1>2, UntouchedKeeps DEF IInv, Shaped

-----------------------------------------------------------------------------
(* The theorem *)

LEMMA InitHolds == Init => IInv
<1> SUFFICES ASSUME Init PROVE IInv
  OBVIOUS
<1>1. /\ sessions = [c \in Sessions |-> sessions[c]]
      /\ \A c \in Sessions : {"pc", "deletes"} \subseteq DOMAIN sessions[c]
                             /\ sessions[c].deletes = {}
      /\ segments = {} /\ pending = {}
  BY DEF Init, Unused
<1> QED BY <1>1 DEF IInv, Shaped, OwesWhileDeleting, NothingOwedWhileDown, StaleIsDeleted

LEMMA StepKeeps == IInv /\ [Next]_vars => IInv'
<1> SUFFICES ASSUME IInv, [Next]_vars PROVE IInv'
  OBVIOUS
<1>1. CASE UNCHANGED vars
  BY <1>1 DEF vars, tableVars, pastVars, IInv, Shaped, OwesWhileDeleting, NothingOwedWhileDown,
              StaleIsDeleted, Undone
<1>2. CASE \E c \in Sessions : Session(c)
  BY <1>2, StartKeeps, NoticeKeeps, DeleteStaleKeeps, SessionKeeps, HearKeeps DEF Session
<1>3. CASE Boot \/ Exit \/ Tick \/ Drop \/ Delete
  BY <1>3, BootKeeps, ExitKeeps, TickKeeps, AwayKeeps
<1> QED BY <1>1, <1>2, <1>3 DEF Next

\* IInv holds in every reachable state.
THEOREM Invariance == Spec => []IInv
BY InitHolds, StepKeeps, PTL DEF Spec

\* A partial that a crash has left is deleted by the meeting's next START, or
\* that START was cut off or never came.
THEOREM StalePartialsAreDeleted == Spec => []StaleIsDeleted
<1>1. IInv => StaleIsDeleted
  BY DEF IInv
<1> QED BY <1>1, Invariance, PTL

-----------------------------------------------------------------------------
(* Types, counts and times *)

Open == {"reading", "backoff", "draining", "deaf"}
Streams == 0 .. MaxStreams

\* A session r that has heard no more than it was fed, nor been fed more than
\* was spoken until t, when n streams are open and w chunks wait: each stream
\* moves the time on by MaxTime at most.
Sound(r, n, w, t) ==
  /\ r \in [pc : {"unused", "deleting", "reading", "backoff", "draining", "deaf", "gone"},
            deletes : SUBSET Ids, stream : 0 .. n, offset : Times,
            elapsed : 0 .. MaxTime, fed : 0 .. MaxTime, heard : 0 .. MaxTime,
            finals : 0 .. MaxTime, failures : 0 .. MaxConsecutive, alone : BOOLEAN]
  /\ r.finals <= r.heard /\ r.heard <= r.fed /\ r.fed + w <= t /\ r.elapsed <= t
  /\ r.pc \in Open => r.stream >= 1 /\ r.offset + MaxTime <= MaxTime * n
  /\ r.pc \in {"unused", "deleting"} => r.alone

SoundSegment(s, n) ==
  /\ s \in [id : Ids, session : Sessions, start : Times, end : Times, partial : {0, 1, -1}]
  /\ s.id[1] <= n /\ s.end <= MaxTime * n

SessionsAreSound ==
  /\ sessions = [c \in Sessions |-> sessions[c]]
  /\ \A c \in Sessions : Sound(sessions[c], streams, waiting, time)

RowIsSound ==
  /\ row \in [status : {"none", "RECORDING", "COMPLETED", "FAILED"}, offset : Times]
  /\ row.offset <= MaxTime * streams

Typed ==
  /\ up \in BOOLEAN /\ runs \in 0 .. MaxRuns
  /\ time \in 0 .. MaxTime /\ streams \in Streams
  /\ speaking \in BOOLEAN /\ connection \in 0 .. MaxSessions
  /\ waiting \in 0 .. time
  /\ pending \subseteq Ids /\ lost \subseteq Ids
  /\ erased \subseteq Ids /\ \A id \in erased : id[1] <= streams
  /\ deletions \in 0 .. MaxDeletions

TInv ==
  /\ Typed /\ SessionsAreSound /\ RowIsSound
  /\ \A s \in segments : SoundSegment(s, streams)

LEMMA Products ==
  ASSUME NEW n \in Streams
  PROVE  /\ MaxTime * n \in Nat /\ MaxTime * n \in Times
         /\ MaxTime * (n + 1) = MaxTime * n + MaxTime
<1>1. MaxTime \in Nat /\ MaxStreams \in Nat /\ n \in Nat /\ n <= MaxStreams
  BY BoundsAssumption DEF Streams
<1>2. MaxTime * n \in Nat /\ MaxTime * (MaxStreams + 1) \in Nat
  BY <1>1
<1>3. MaxTime * (MaxStreams + 1) = MaxTime * n + MaxTime * ((MaxStreams + 1) - n)
  BY <1>1
<1>4. MaxTime * ((MaxStreams + 1) - n) \in Nat
  BY <1>1
<1>5. MaxTime * n <= MaxTime * (MaxStreams + 1)
  BY <1>2, <1>3, <1>4
<1> QED BY <1>1, <1>2, <1>5 DEF Times

LEMMA ReachGrows ==
  ASSUME NEW n \in Streams, NEW m \in Streams, m \in {n, n + 1}
  PROVE  MaxTime * n \in Nat /\ MaxTime * m \in Nat /\ MaxTime * n <= MaxTime * m
BY Products, BoundsAssumption DEF Streams

LEMMA TimesBelow ==
  ASSUME NEW t \in Times, NEW n \in Nat, n <= t
  PROVE  n \in Times
<1> DEFINE top == MaxTime * (MaxStreams + 1)
<1>1. top \in Nat
  BY BoundsAssumption
<1>2. t \in 0 .. top
  BY DEF Times
<1> HIDE DEF top
<1>3. n \in 0 .. top
  BY <1>1, <1>2
<1> QED BY <1>3 DEF Times, top

LEMMA TypedIsTypeOK == TInv => TypeOK
<1> SUFFICES ASSUME TInv PROVE TypeOK
  OBVIOUS
<1>1. /\ up \in BOOLEAN /\ runs \in 0 .. MaxRuns
      /\ time \in 0 .. MaxTime /\ streams \in 0 .. MaxStreams
      /\ speaking \in BOOLEAN /\ connection \in 0 .. MaxSessions
      /\ waiting \in 0 .. MaxTime
      /\ pending \subseteq Ids /\ lost \subseteq Ids /\ erased \subseteq Ids
      /\ deletions \in 0 .. MaxDeletions
  BY BoundsAssumption DEF TInv, Typed, Streams
<1>2. row \in [status : {"none", "RECORDING", "COMPLETED", "FAILED"}, offset : Times]
  BY DEF TInv, RowIsSound
<1>3. \A s \in segments :
        s \in [id : Ids, session : Sessions, start : Times, end : Times, partial : {0, 1, -1}]
  BY DEF TInv, SoundSegment
<1>4. sessions \in [Sessions ->
       [pc : {"unused", "deleting", "reading", "backoff", "draining", "deaf", "gone"},
        deletes : SUBSET Ids, stream : 0 .. streams, offset : Times,
        elapsed : 0 .. MaxTime, fed : 0 .. MaxTime, heard : 0 .. MaxTime,
        finals : 0 .. MaxTime, failures : 0 .. MaxConsecutive, alone : BOOLEAN]]
  BY DEF TInv, SessionsAreSound, Sound
<1> QED BY <1>1, <1>2, <1>3, <1>4 DEF TypeOK

\* What is sound stays sound as streams are opened, time passes and chunks are
\* taken.
LEMMA SoundLater ==
  ASSUME NEW r, NEW n \in Streams, NEW m \in Streams, m \in {n, n + 1},
         NEW w \in Nat, NEW v \in Nat, NEW t \in Nat, NEW u \in Nat,
         t <= u, v - w <= u - t, Sound(r, n, w, t)
  PROVE  Sound(r, m, v, u)
<1> DEFINE here == MaxTime * n
           there == MaxTime * m
<1>1. here \in Nat /\ there \in Nat /\ here <= there
  BY ReachGrows
<1> HIDE DEF here, there
<1>2. n \in Nat /\ m \in Nat /\ n <= m /\ MaxTime \in Nat
  BY BoundsAssumption DEF Streams
<1>3. r.stream \in 0 .. m
  BY <1>2 DEF Sound
<1>4. r.pc \in Open => r.stream >= 1 /\ r.offset + MaxTime <= here
  BY DEF Sound, here
<1>5. r.offset \in Nat /\ r.fed \in Nat /\ r.elapsed \in Nat
  BY Products, BoundsAssumption DEF Sound, Times
<1>6. r.pc \in Open => r.stream >= 1 /\ r.offset + MaxTime <= there
  BY <1>1, <1>2, <1>4, <1>5
<1>7. r.fed + v <= u /\ r.elapsed <= u
  BY <1>5 DEF Sound
<1> QED BY <1>3, <1>6, <1>7 DEF Sound, there

LEMMA SegmentsLater ==
  ASSUME NEW s, NEW n \in Streams, NEW m \in Streams, m \in {n, n + 1}, SoundSegment(s, n)
  PROVE  SoundSegment(s, m)
<1> DEFINE here == MaxTime * n
           there == MaxTime * m
<1>1. here \in Nat /\ there \in Nat /\ here <= there
  BY ReachGrows
<1>2. s.end \in Nat /\ s.id[1] \in Nat /\ s.end <= here /\ s.id[1] <= n
  BY BoundsAssumption DEF SoundSegment, Times, Ids
<1> HIDE DEF here, there
<1>3. s.end <= there /\ s.id[1] <= m
  BY <1>1, <1>2, BoundsAssumption DEF Streams
<1> QED BY <1>3 DEF SoundSegment, there

\* A set of numbers that are at most n has a largest.
LEMMA BoundedHasMax ==
  ASSUME NEW n \in Nat, NEW S, S \subseteq 0 .. n, S # {}
  PROVE  Max(S) \in S /\ \A x \in S : x <= Max(S)
<1> DEFINE T == {x .. n : x \in S}
           R == StrictSubsetOrdering(Nat)
           F == FiniteSubsetsOf(Nat)
<1>1. T \subseteq F /\ T # {}
  <2>1. \A x \in S : x .. n \subseteq Nat /\ IsFiniteSet(x .. n)
    BY FS_Interval
  <2> QED BY <2>1 DEF FiniteSubsetsOf
<1>2. IsWellFoundedOn(R, F)
  BY FS_StrictSubsetOrderingWellFounded
<1>3. PICK t \in T : \A u \in T : ~(<<u, t>> \in R)
  <2> HIDE DEF T, R, F
  <2> QED BY <1>1, <1>2, WFMin
<1>4. PICK m \in S : t = m .. n
  BY <1>3
<1>5. ASSUME NEW x \in S, ~(m >= x)
      PROVE  FALSE
  <2>1. x .. n \subseteq m .. n /\ m \in m .. n /\ m \notin x .. n
    BY <1>5
  <2>2. <<x .. n, m .. n>> \in R
    BY <2>1 DEF StrictSubsetOrdering
  <2> QED BY <1>3, <1>4, <2>2
<1>6. \A x \in S : m >= x
  BY <1>5
<1> QED BY <1>6 DEF Max

\* A session starts where all that was written ends.
LEMMA ResumedIsLast ==
  ASSUME TInv
  PROVE  /\ Resumed \in 0 .. MaxTime * streams
         /\ \A s \in segments : s.end <= Resumed
<1> DEFINE S == {row.offset} \cup {s.end : s \in segments}
           last == MaxTime * streams
<1>1. last \in Nat
  BY Products DEF TInv, Typed
<1>2. S \subseteq 0 .. last
  BY BoundsAssumption DEF TInv, RowIsSound, SoundSegment, Times
<1> HIDE DEF last
<1>3. Max(S) \in S /\ \A x \in S : x <= Max(S)
  BY <1>1, <1>2, BoundedHasMax
<1>4. Resumed = Max(S)
  BY DEF Resumed
<1> HIDE DEF S
<1>5. Resumed \in 0 .. last /\ \A x \in S : x <= Resumed
  BY <1>2, <1>3, <1>4
<1> QED BY <1>5 DEF last, S

\* A step that changes one session, and opens a stream or takes the chunks.
LEMMA SessionStaysSound ==
  ASSUME TInv, NEW c \in Sessions, NEW r, sessions' = [sessions EXCEPT ![c] = r],
         streams' \in Streams, streams' \in {streams, streams + 1},
         time' = time, waiting' \in {waiting, 0},
         Sound(r, streams', waiting', time')
  PROVE  SessionsAreSound'
<1>1. /\ sessions' = [d \in Sessions |-> sessions'[d]]
      /\ sessions'[c] = r /\ \A d \in Sessions \ {c} : sessions'[d] = sessions[d]
  BY DEF TInv, SessionsAreSound
<1>2. streams \in Streams /\ time \in Nat /\ waiting \in Nat
  BY BoundsAssumption DEF TInv, Typed
<1>3. waiting' \in Nat /\ waiting' - waiting <= 0 /\ time' - time = 0 /\ time' \in Nat
  <2>1. CASE waiting' = waiting
    BY <1>2, <2>1
  <2>2. CASE waiting' = 0
    BY <1>2, <2>2
  <2> QED BY <2>1, <2>2
<1>4. ASSUME NEW d \in Sessions \ {c}
      PROVE  Sound(sessions'[d], streams', waiting', time')
  <2>1. Sound(sessions[d], streams, waiting, time)
    BY DEF TInv, SessionsAreSound
  <2> QED BY <1>1, <1>2, <1>3, <2>1, SoundLater
<1> QED BY <1>1, <1>4 DEF SessionsAreSound

LEMMA TablesStaySound ==
  ASSUME TInv, UNCHANGED tableVars, streams' \in Streams, streams' \in {streams, streams + 1}
  PROVE  RowIsSound' /\ \A s \in segments' : SoundSegment(s, streams')
<1>1. \A s \in segments' : SoundSegment(s, streams')
  BY SegmentsLater DEF TInv, Typed, tableVars
<1> DEFINE here == MaxTime * streams
           there == MaxTime * streams'
<1>2. here \in Nat /\ there \in Nat /\ here <= there
  <2>1. streams \in Streams
    BY DEF TInv, Typed
  <2> QED BY <2>1, ReachGrows
<1>3. row.offset \in Nat /\ row.offset <= here
  BY BoundsAssumption DEF TInv, RowIsSound, Times
<1> HIDE DEF here, there
<1>4. row.offset <= there
  BY <1>2, <1>3
<1> QED BY <1>1, <1>4 DEF RowIsSound, TInv, tableVars, there

\* A session that is gone has nothing left.
LEMMA GoneIsSound ==
  ASSUME TInv, NEW c \in Sessions
  PROVE  Sound(Gone[c], streams, waiting, time)
<1>1. /\ 0 \in Times /\ 0 \in 0 .. MaxTime /\ 0 \in 0 .. streams /\ 0 \in 0 .. MaxConsecutive
      /\ waiting <= time /\ waiting \in Nat /\ time \in Nat
  BY BoundsAssumption DEF TInv, Typed, Times, Streams
<1>2. sessions[c].alone \in BOOLEAN
  BY DEF TInv, SessionsAreSound, Sound
<1>3. Gone[c] \in [pc : {"unused", "gone"}, deletes : {{}}, stream : {0}, offset : {0},
                   elapsed : {0}, fed : {0}, heard : {0}, finals : {0}, failures : {0},
                   alone : BOOLEAN]
  BY <1>2 DEF Gone, Unused
<1>4. Gone[c].pc = "unused" => Gone[c].alone
  BY DEF Gone, Unused
<1> QED BY <1>1, <1>3, <1>4 DEF Sound, Open

\* The session c of a step is sound, and all its fields have their types.
LEMMA SessionIsSound ==
  ASSUME TInv, NEW c \in Sessions
  PROVE  /\ Sound(sessions[c], streams, waiting, time)
         /\ streams \in Nat /\ time \in Nat /\ waiting \in Nat /\ time <= MaxTime
         /\ sessions[c].offset \in Nat /\ sessions[c].elapsed \in Nat /\ sessions[c].fed \in Nat
         /\ sessions[c].heard \in Nat /\ sessions[c].finals \in Nat
         /\ sessions[c].failures \in Nat
<1>1. Sound(sessions[c], streams, waiting, time)
  BY DEF TInv, SessionsAreSound
<1>2. streams \in Nat /\ time \in Nat /\ waiting \in Nat /\ time <= MaxTime
  BY BoundsAssumption DEF TInv, Typed, Streams
<1>3. Times \subseteq Nat /\ 0 .. MaxTime \subseteq Nat /\ 0 .. MaxConsecutive \subseteq Nat
  BY BoundsAssumption DEF Times
<1>4. /\ sessions[c].offset \in Times /\ sessions[c].elapsed \in 0 .. MaxTime
      /\ sessions[c].fed \in 0 .. MaxTime /\ sessions[c].heard \in 0 .. MaxTime
      /\ sessions[c].finals \in 0 .. MaxTime /\ sessions[c].failures \in 0 .. MaxConsecutive
  BY <1>1 DEF Sound
<1> QED BY <1>1, <1>2, <1>3, <1>4

LEMMA BootSound ==
  ASSUME TInv, Boot
  PROVE  TInv'
<1> DEFINE stale == IF row.status = "RECORDING" THEN {s \in segments : s.partial = 1} ELSE {}
<1>1. /\ up' = TRUE /\ ~up /\ runs < MaxRuns /\ runs' = runs + 1
      /\ segments' = (segments \ stale) \cup {[s EXCEPT !.partial = -1] : s \in stale}
      /\ pending' = {s.id : s \in stale}
      /\ UNCHANGED <<time, speaking, connection, waiting, streams, sessions, row, deletions, lost,
                     erased>>
  BY DEF Boot, pastVars, clientVars
<1>2. \A s \in stale : SoundSegment(s, streams)
  BY DEF TInv
<1> HIDE DEF stale
<1>3. pending' \subseteq Ids
  BY <1>1, <1>2 DEF SoundSegment
<1>4. \A s \in stale : SoundSegment([s EXCEPT !.partial = -1], streams)
  BY <1>2 DEF SoundSegment
<1>5. \A s \in segments' : SoundSegment(s, streams')
  BY <1>1, <1>4 DEF TInv
<1>6. runs' \in 0 .. MaxRuns
  BY <1>1, BoundsAssumption DEF TInv, Typed
<1>7. Typed'
  BY <1>1, <1>3, <1>6 DEF TInv, Typed
<1> QED BY <1>1, <1>5, <1>7 DEF TInv, SessionsAreSound, RowIsSound

LEMMA ExitSound ==
  ASSUME TInv, Exit
  PROVE  TInv'
<1>1. /\ up' = FALSE /\ connection' = 0 /\ sessions' = Gone /\ pending' = {}
      /\ lost' = lost \cup pending \cup Undone
      /\ UNCHANGED <<runs, time, speaking, waiting, streams, row, segments, deletions, erased>>
  BY DEF Exit, tableVars
<1>2. SessionsAreSound'
  BY <1>1, GoneIsSound DEF SessionsAreSound, Gone
<1>3. Undone \subseteq Ids
  BY DEF Undone, TInv, SessionsAreSound, Sound
<1>4. lost' \subseteq Ids
  BY <1>1, <1>3 DEF TInv, Typed
<1>5. Typed'
  <2>1. up' \in BOOLEAN /\ pending' \subseteq Ids
    BY <1>1
  <2>2. connection' \in 0 .. MaxSessions
    BY <1>1, BoundsAssumption
  <2> QED BY <1>1, <1>4, <2>1, <2>2 DEF TInv, Typed
<1> QED BY <1>1, <1>2, <1>5 DEF TInv, RowIsSound

LEMMA TickSound ==
  ASSUME TInv, Tick
  PROVE  TInv'
<1>1. /\ time < MaxTime /\ time' = time + 1
      /\ sessions' = [c \in Sessions |->
           IF At(c, Open) THEN [sessions[c] EXCEPT !.elapsed = sessions[c].elapsed + 1]
                          ELSE sessions[c]]
      /\ UNCHANGED <<up, runs, speaking, connection, streams, pending, row, segments, deletions,
                     lost, erased>>
  BY DEF Tick, tableVars, pastVars, Open
<1>2. time \in Nat /\ waiting \in 0 .. time /\ MaxTime \in Nat /\ streams \in Streams
  BY BoundsAssumption DEF TInv, Typed
<1>3. waiting' \in 0 .. waiting + 1
  BY <1>2, BoundsAssumption DEF Tick, Least
<1>4. Typed'
  BY <1>1, <1>2, <1>3 DEF TInv, Typed
<1>5. ASSUME NEW c \in Sessions
      PROVE  Sound(sessions'[c], streams', waiting', time')
  <2>1. Sound(sessions[c], streams, waiting, time) /\ sessions[c].elapsed \in Nat
    BY SessionIsSound
  <2>2. Sound(sessions[c], streams', waiting', time')
    BY <1>1, <1>2, <1>3, <2>1, SoundLater
  <2>3. sessions[c].elapsed + 1 <= time' /\ sessions[c].elapsed + 1 \in 0 .. MaxTime
    BY <1>1, <1>2, <2>1 DEF Sound
  <2>4. CASE At(c, Open)
    <3>1. sessions'[c] = [sessions[c] EXCEPT !.elapsed = sessions[c].elapsed + 1]
      BY <1>1, <2>4
    <3> QED BY <2>2, <2>3, <3>1 DEF Sound
  <2>5. CASE ~At(c, Open)
    BY <1>1, <2>2, <2>5
  <2> QED BY <2>4, <2>5
<1>6. SessionsAreSound'
  BY <1>1, <1>5 DEF SessionsAreSound
<1> QED BY <1>1, <1>4, <1>6 DEF TInv, RowIsSound

LEMMA AwaySound ==
  ASSUME TInv, Drop \/ Delete
  PROVE  TInv'
<1>1. CASE Drop
  <2>1. /\ connection' = 0
        /\ UNCHANGED <<up, runs, time, speaking, waiting, streams, sessions, pending, row, segments,
                       deletions, lost, erased>>
    BY <1>1 DEF Drop, tableVars, pastVars
  <2>2. connection' \in 0 .. MaxSessions
    BY <2>1, BoundsAssumption
  <2> QED BY <2>1, <2>2 DEF TInv, Typed, SessionsAreSound, RowIsSound
<1>2. CASE Delete
  <2>1. /\ deletions < MaxDeletions /\ deletions' = deletions + 1
        /\ row' = NoRow /\ segments' = {} /\ erased' = erased \cup Listed
        /\ UNCHANGED <<up, runs, time, speaking, connection, waiting, streams, sessions, pending,
                       lost>>
    BY <1>2 DEF Delete, Cascaded, clientVars
  <2>2. streams \in Streams /\ 0 \in Times /\ MaxTime * streams \in Nat
    BY Products, BoundsAssumption DEF TInv, Typed, Times
  <2>3. RowIsSound'
    BY <2>1, <2>2 DEF RowIsSound, NoRow
  <2>4. Listed \subseteq Ids /\ \A id \in Listed : id[1] <= streams
    BY DEF TInv, Listed, SoundSegment
  <2>5. deletions' \in 0 .. MaxDeletions
    BY <2>1, BoundsAssumption DEF TInv, Typed
  <2>6. erased' \subseteq Ids /\ \A id \in erased' : id[1] <= streams'
    BY <2>1, <2>4 DEF TInv, Typed
  <2> QED BY <2>1, <2>3, <2>5, <2>6 DEF TInv, Typed, SessionsAreSound
<1> QED BY <1>1, <1>2

LEMMA StartSound ==
  ASSUME TInv, NEW c \in Sessions, Start(c)
  PROVE  TInv'
<1>1. /\ connection' = c /\ pending' = {}
      /\ sessions' = [sessions EXCEPT ![c] = [sessions[c] EXCEPT !.pc = "deleting",
                                                                 !.deletes = pending]]
      /\ UNCHANGED <<up, runs, time, speaking, waiting, streams, row, segments, deletions, lost,
                     erased>>
      /\ sessions[c].pc = "unused"
  BY DEF Start, At, tableVars, pastVars, TInv, SessionsAreSound
<1>2. Sound(sessions[c], streams, waiting, time) /\ pending \subseteq Ids /\ streams \in Streams
  BY SessionIsSound DEF TInv, Typed
<1>3. Sound([sessions[c] EXCEPT !.pc = "deleting", !.deletes = pending], streams, waiting, time)
  BY <1>1, <1>2 DEF Sound, Open
<1>4. SessionsAreSound'
  BY <1>1, <1>2, <1>3, SessionStaysSound
<1>5. connection' \in 0 .. MaxSessions /\ pending' \subseteq Ids
  BY <1>1, BoundsAssumption DEF Sessions
<1>6. Typed'
  BY <1>1, <1>5 DEF TInv, Typed
<1> QED BY <1>1, <1>4, <1>6 DEF TInv, RowIsSound

\* A session that ends may change the status of the row.
LEMMA GoingSound ==
  ASSUME TInv, NEW c \in Sessions, Notice(c) \/ EngineFails(c) \/ FailMeeting(c) \/ Ended(c)
  PROVE  TInv'
<1>1. /\ sessions' = [sessions EXCEPT ![c] = Gone[c]]
      /\ UNCHANGED <<up, runs, time, speaking, waiting, streams, pending, segments, deletions,
                     erased>>
      /\ connection' \in {0, connection}
      /\ lost' \in {lost, lost \cup sessions[c].deletes}
  BY DEF Notice, EngineFails, FailMeeting, Ended, clientVars, tableVars, pastVars
<1>2. \/ row' = row
      \/ \E status \in {"COMPLETED", "FAILED"} : row' = [row EXCEPT !.status = status]
  BY DEF Notice, EngineFails, FailMeeting, Ended, tableVars
<1>3. RowIsSound'
  BY <1>1, <1>2 DEF TInv, RowIsSound
<1>4. SessionsAreSound'
  <2>1. streams \in Streams
    BY DEF TInv, Typed
  <2> QED BY <1>1, <2>1, GoneIsSound, SessionStaysSound
<1>5. lost' \subseteq Ids
  BY <1>1, SessionIsSound DEF TInv, Typed, Sound
<1>6. connection' \in 0 .. MaxSessions
  BY <1>1, BoundsAssumption DEF TInv, Typed
<1>7. Typed'
  BY <1>1, <1>5, <1>6 DEF TInv, Typed
<1> QED BY <1>1, <1>3, <1>4, <1>7 DEF TInv

\* Steps of a session that open no stream and write nothing.
LEMMA SessionStepSound ==
  ASSUME TInv, NEW c \in Sessions, Feed(c) \/ HearRefused(c) \/ Reset(c) \/ End(c)
  PROVE  TInv'
<1> DEFINE r == sessions[c]
<1>1. /\ Sound(r, streams, waiting, time) /\ streams \in Streams
      /\ time \in Nat /\ waiting \in Nat /\ streams \in Nat /\ MaxTime \in Nat
      /\ time <= MaxTime
  BY SessionIsSound, BoundsAssumption DEF TInv, Typed
<1>2. r.fed \in Nat /\ r.heard \in Nat /\ r.elapsed \in Nat /\ r.failures \in Nat
  BY SessionIsSound
<1>3. /\ UNCHANGED <<up, runs, time, connection, streams, pending, row, segments, deletions, lost,
                     erased>>
      /\ waiting' \in {waiting, 0} /\ speaking' \in {speaking, FALSE}
  BY DEF Feed, HearRefused, Reset, End, clientVars, tableVars, pastVars
<1>4. Sound(r, streams, waiting', time)
  BY <1>1, <1>2, <1>3 DEF Sound
<1>5. \E q : sessions' = [sessions EXCEPT ![c] = q] /\ Sound(q, streams, waiting', time)
  <2>1. CASE HearRefused(c) \/ End(c)
    <3>1. \E pc \in {"deaf", "draining"} : sessions' = [sessions EXCEPT ![c] = [r EXCEPT !.pc = pc]]
      BY <2>1 DEF HearRefused, End, Goto
    <3>2. r.pc \in Open
      BY <2>1 DEF HearRefused, End, At, Open
    <3>3. \A pc \in {"deaf", "draining"} : Sound([r EXCEPT !.pc = pc], streams, waiting', time)
      BY <1>4, <3>2 DEF Sound, Open
    <3> QED BY <3>1, <3>3
  <2>2. CASE Reset(c)
    <3> DEFINE q == [r EXCEPT !.pc = "backoff", !.failures = r.failures + 1]
    <3>1. /\ sessions' = [sessions EXCEPT ![c] = q]
          /\ r.pc = "reading" /\ r.failures < MaxConsecutive
      BY <2>2 DEF Reset, At
    <3>2. r.failures + 1 \in 0 .. MaxConsecutive
      BY <1>2, <3>1, BoundsAssumption
    <3>3. Sound(q, streams, waiting', time)
      BY <1>4, <3>1, <3>2 DEF Sound, Open
    <3> QED BY <3>1, <3>3
  <2>3. CASE Feed(c) /\ ~At(c, {"backoff"})
    <3> DEFINE q == [r EXCEPT !.fed = r.fed + waiting]
    <3>1. sessions' = [sessions EXCEPT ![c] = q] /\ waiting' = 0
      BY <2>3 DEF Feed
    <3>2. r.fed + waiting <= time /\ r.heard <= r.fed
      BY <1>1 DEF Sound
    <3>3. /\ r.fed + waiting \in 0 .. MaxTime /\ (r.fed + waiting) + 0 <= time
          /\ r.heard <= r.fed + waiting
      BY <1>1, <1>2, <3>2
    <3>4. Sound(q, streams, 0, time)
      BY <1>1, <3>3 DEF Sound
    <3> QED BY <3>1, <3>4
  <2>4. CASE Feed(c) /\ At(c, {"backoff"})
    <3>1. sessions' = [sessions EXCEPT ![c] = r]
      BY <2>4 DEF Feed, TInv, SessionsAreSound
    <3> QED BY <1>4, <3>1
  <2> QED BY <2>1, <2>2, <2>3, <2>4
<1>6. SessionsAreSound'
  <2>1. PICK q : sessions' = [sessions EXCEPT ![c] = q] /\ Sound(q, streams, waiting', time)
    BY <1>5
  <2>2. Sound(q, streams', waiting', time') /\ streams' \in Streams
    BY <1>1, <1>3, <2>1
  <2> QED BY <1>3, <2>1, <2>2, SessionStaysSound
<1>7. waiting' \in 0 .. time' /\ speaking' \in BOOLEAN
  <2>1. waiting \in 0 .. time /\ speaking \in BOOLEAN
    BY DEF TInv, Typed
  <2>2. waiting' \in 0 .. time'
    BY <1>1, <1>3, <2>1
  <2>3. speaking' \in BOOLEAN
    BY <1>3, <2>1, Zenon
  <2> QED BY <2>2, <2>3
<1>8. Typed'
  BY <1>3, <1>7 DEF TInv, Typed
<1> QED BY <1>3, <1>6, <1>8 DEF TInv, RowIsSound

LEMMA DeleteStaleSound ==
  ASSUME TInv, NEW c \in Sessions, DeleteStale(c)
  PROVE  TInv'
<1>1. PICK id \in sessions[c].deletes :
        /\ segments' = {s \in segments : s.id # id}
        /\ sessions' = [sessions EXCEPT ![c] =
                          [sessions[c] EXCEPT !.deletes = sessions[c].deletes \ {id}]]
  BY DEF DeleteStale, TInv, SessionsAreSound
<1>2. UNCHANGED <<up, runs, time, speaking, connection, waiting, streams, pending, row, deletions,
                  lost, erased>>
  BY DEF DeleteStale, clientVars, pastVars
<1>3. Sound(sessions[c], streams, waiting, time) /\ streams \in Streams
  BY SessionIsSound DEF TInv, Typed
<1>4. Sound([sessions[c] EXCEPT !.deletes = sessions[c].deletes \ {id}], streams, waiting, time)
  BY <1>3 DEF Sound
<1>5. SessionsAreSound'
  BY <1>1, <1>2, <1>3, <1>4, SessionStaysSound
<1> QED BY <1>1, <1>2, <1>5 DEF TInv, Typed, RowIsSound

\* A stream that is opened has all of MaxTime before it.
LEMMA OpensSound ==
  ASSUME TInv, NEW c \in Sessions, streams < MaxStreams, streams' = streams + 1,
         NEW q, sessions' = [sessions EXCEPT ![c] = q], Sound(q, streams', waiting', time'),
         UNCHANGED <<up, runs, time, speaking, connection, waiting, pending, segments, deletions,
                     lost, erased>>,
         \/ row' = row
         \/ row' = [row EXCEPT !.status = "RECORDING"]
         \/ row' = [row EXCEPT !.offset = q.offset] /\ q.pc = "reading"
  PROVE  TInv'
<1>1. streams \in Streams /\ streams' \in Streams /\ streams \in Nat
  BY BoundsAssumption DEF TInv, Typed, Streams
<1>2. SessionsAreSound'
  BY <1>1, SessionStaysSound
<1>3. \A s \in segments' : SoundSegment(s, streams')
  BY <1>1, SegmentsLater DEF TInv
<1>4. RowIsSound'
  <2> DEFINE here == MaxTime * streams
             there == MaxTime * streams'
  <2>1. here \in Nat /\ there \in Nat /\ here <= there
    BY <1>1, ReachGrows
  <2>2. row.offset \in Nat /\ row.offset <= here
    BY BoundsAssumption DEF TInv, RowIsSound, Times
  <2>3. q.pc = "reading" => q.offset + MaxTime <= there
    BY DEF Sound, Open
  <2>4. q.offset \in Times /\ q.offset \in Nat /\ MaxTime \in Nat
    BY BoundsAssumption DEF Sound, Times
  <2> HIDE DEF here, there
  <2>5. row.offset <= there /\ (q.pc = "reading" => q.offset <= there)
    BY <2>1, <2>2, <2>3, <2>4
  <2> QED BY <2>4, <2>5 DEF RowIsSound, TInv, there
<1>5. \A id \in erased : id[1] <= streams'
  <2>1. \A id \in erased : id[1] \in Nat /\ id[1] <= streams
    BY DEF TInv, Typed, Ids
  <2> QED BY <1>1, <2>1
<1>6. Typed'
  BY <1>1, <1>5 DEF TInv, Typed
<1> QED BY <1>2, <1>3, <1>4, <1>6 DEF TInv

LEMMA EngineStartsSound ==
  ASSUME TInv, NEW c \in Sessions, EngineStarts(c)
  PROVE  TInv'
<1> DEFINE r == sessions[c]
           q == [r EXCEPT !.pc = "reading", !.stream = streams + 1, !.offset = Resumed,
                          !.alone = Alive = {c}]
           here == MaxTime * streams
           there == MaxTime * (streams + 1)
<1>1. /\ streams < MaxStreams /\ streams' = streams + 1
      /\ sessions' = [sessions EXCEPT ![c] = q]
      /\ row' = [row EXCEPT !.status = "RECORDING"]
      /\ UNCHANGED <<up, runs, time, speaking, connection, waiting, pending, segments, deletions,
                     lost, erased>>
  BY DEF EngineStarts, clientVars, pastVars, TInv, SessionsAreSound
<1>2. /\ Sound(r, streams, waiting, time)
      /\ streams \in Streams /\ streams + 1 \in Streams /\ streams \in Nat
  BY <1>1, SessionIsSound, BoundsAssumption DEF TInv, Typed, Streams
<1>3. Resumed \in 0 .. here /\ here \in Nat /\ there = here + MaxTime
  BY <1>2, ResumedIsLast, Products
<1>4. here \in Times /\ MaxTime \in Nat
  BY <1>2, Products, BoundsAssumption
<1> HIDE DEF here, there
<1>5. Resumed \in Times /\ Resumed + MaxTime <= there
  BY <1>3, <1>4, TimesBelow
<1>6. streams + 1 \in 0 .. streams + 1 /\ streams + 1 >= 1
  BY <1>2
<1>7. Sound(q, streams + 1, waiting, time)
  BY <1>2, <1>5, <1>6 DEF Sound, Open, there
<1> QED BY <1>1, <1>7, OpensSound

LEMMA RestartsSound ==
  ASSUME TInv, NEW c \in Sessions, Restarts(c)
  PROVE  TInv'
<1> DEFINE r == sessions[c]
           q == [r EXCEPT !.pc = "reading", !.stream = streams + 1,
                          !.offset = r.offset + r.elapsed, !.elapsed = 0, !.fed = 0,
                          !.heard = 0, !.finals = 0]
           here == MaxTime * streams
           there == MaxTime * (streams + 1)
<1>1. /\ streams < MaxStreams /\ streams' = streams + 1 /\ r.pc = "backoff"
      /\ sessions' = [sessions EXCEPT ![c] = q]
      /\ UNCHANGED <<up, runs, time, speaking, connection, waiting, pending, segments, deletions,
                     lost, erased>>
  BY DEF Restarts, At, clientVars, pastVars, TInv, SessionsAreSound
<1>2. /\ Sound(r, streams, waiting, time)
      /\ streams \in Streams /\ streams + 1 \in Streams /\ streams \in Nat
      /\ time \in Nat /\ waiting \in 0 .. time /\ time <= MaxTime /\ MaxTime \in Nat
  BY <1>1, SessionIsSound, BoundsAssumption DEF TInv, Typed, Streams
<1>3. r.offset \in Nat /\ r.elapsed \in Nat
  BY SessionIsSound
<1>4. r.offset + MaxTime <= here /\ r.elapsed <= time
  BY <1>1, <1>2 DEF Sound, Open
<1>5. here \in Nat /\ there = here + MaxTime /\ here \in Times
  BY <1>2, Products
<1> HIDE DEF here, there
<1>6. r.offset + r.elapsed \in Times /\ (r.offset + r.elapsed) + MaxTime <= there
  <2>1. r.offset + r.elapsed \in Nat /\ r.offset + r.elapsed <= here
    BY <1>2, <1>3, <1>4, <1>5
  <2> QED BY <1>2, <1>5, <2>1, TimesBelow
<1>7. /\ streams + 1 \in 0 .. streams + 1 /\ streams + 1 >= 1
      /\ 0 \in 0 .. MaxTime /\ 0 + waiting <= time /\ 0 <= time
  BY <1>2
<1>8. Sound(q, streams + 1, waiting, time)
  <2>1. q.pc \in Open => q.stream >= 1 /\ q.offset + MaxTime <= MaxTime * (streams + 1)
    BY <1>2, <1>6, <1>7 DEF Sound, there
  <2>2. /\ q.finals <= q.heard /\ q.heard <= q.fed /\ q.fed + waiting <= time /\ q.elapsed <= time
        /\ q.pc = "reading"
    BY <1>2, <1>7 DEF Sound
  <2>3. q \in [pc : {"unused", "deleting", "reading", "backoff", "draining", "deaf", "gone"},
               deletes : SUBSET Ids, stream : 0 .. streams + 1, offset : Times,
               elapsed : 0 .. MaxTime, fed : 0 .. MaxTime, heard : 0 .. MaxTime,
               finals : 0 .. MaxTime, failures : 0 .. MaxConsecutive, alone : BOOLEAN]
    BY <1>2, <1>6, <1>7 DEF Sound
  <2> HIDE DEF q
  <2> QED BY <2>1, <2>2, <2>3 DEF Sound
<1>9. row' = row \/ (row' = [row EXCEPT !.offset = q.offset] /\ q.pc = "reading")
  <2>1. sessions'[c].offset = q.offset
    BY <1>1 DEF TInv, SessionsAreSound
  <2>2. q.pc = "reading"
    BY <1>2 DEF Sound
  <2> QED BY <2>1, <2>2 DEF Restarts
<1> HIDE DEF q
<1> QED BY <1>1, <1>8, <1>9, OpensSound

\* A result ends before the session's time does.
LEMMA HearSound ==
  ASSUME TInv, NEW c \in Sessions, Hear(c)
  PROVE  TInv'
<1> DEFINE r == sessions[c]
           here == MaxTime * streams
<1>1. PICK end \in r.heard + 1 .. r.fed, partial \in {0, 1} :
        /\ Write(Segment(c, end, partial))
        /\ sessions' = [sessions EXCEPT
             ![c].heard = IF partial = 0 THEN end ELSE r.heard,
             ![c].finals = IF partial = 0 THEN r.finals + 1 ELSE r.finals,
             ![c].failures = 0]
  BY DEF Hear
<1> DEFINE q == [r EXCEPT !.heard = IF partial = 0 THEN end ELSE r.heard,
                          !.finals = IF partial = 0 THEN r.finals + 1 ELSE r.finals,
                          !.failures = 0]
           new == Segment(c, end, partial)
<1>2. /\ UNCHANGED <<up, runs, time, speaking, connection, waiting, streams, pending, row,
                     deletions, lost, erased>>
      /\ r.pc \in Open
  BY DEF Hear, At, Open, clientVars, pastVars
<1>3. /\ Sound(r, streams, waiting, time) /\ streams \in Streams /\ streams \in Nat
      /\ time \in Nat /\ waiting \in Nat /\ MaxTime \in Nat /\ MaxConsecutive \in Nat
      /\ r.offset \in Nat /\ r.fed \in Nat /\ r.heard \in Nat /\ r.finals \in Nat
      /\ time <= MaxTime
  BY SessionIsSound, BoundsAssumption DEF TInv, Typed
<1>4. r.finals <= r.heard /\ r.fed + waiting <= time /\ r.offset + MaxTime <= here /\ r.stream >= 1
  BY <1>2, <1>3 DEF Sound
<1>5. /\ end \in Nat /\ end \in 0 .. MaxTime /\ r.heard < end /\ end <= r.fed
      /\ r.finals + 1 \in 0 .. MaxTime /\ r.finals + 1 <= end
  BY <1>3, <1>4
<1>6. Sound(q, streams, waiting, time)
  <2> DEFINE heard == IF partial = 0 THEN end ELSE r.heard
             finals == IF partial = 0 THEN r.finals + 1 ELSE r.finals
  <2>1. heard \in 0 .. MaxTime /\ finals \in 0 .. MaxTime /\ finals <= heard /\ heard <= r.fed
    <3>1. /\ r.heard \in 0 .. MaxTime /\ r.finals \in 0 .. MaxTime
          /\ r.finals <= r.heard /\ r.heard <= r.fed
      BY <1>3 DEF Sound
    <3> QED BY <1>5, <3>1
  <2> HIDE DEF heard, finals
  <2>2. q = [r EXCEPT !.heard = heard, !.finals = finals, !.failures = 0]
    BY DEF heard, finals
  <2>3. 0 \in 0 .. MaxConsecutive
    BY <1>3
  <2> HIDE DEF q
  <2> QED BY <1>3, <2>1, <2>2, <2>3 DEF Sound
<1>7. SessionsAreSound'
  <2>1. sessions' = [sessions EXCEPT ![c] = q]
    BY <1>1 DEF TInv, SessionsAreSound
  <2> HIDE DEF q
  <2> QED BY <1>2, <1>3, <1>6, <2>1, SessionStaysSound
<1>8. SoundSegment(new, streams)
  <2>1. here \in Nat /\ here \in Times
    BY <1>3, Products
  <2>2. r.stream \in 0 .. streams /\ r.stream \in 1 .. MaxStreams /\ r.finals \in 0 .. MaxTime
    BY <1>3, <1>4, BoundsAssumption DEF Sound, Streams
  <2>3. /\ r.offset + r.heard <= here /\ r.offset + end <= here
        /\ r.offset + r.heard \in Nat /\ r.offset + end \in Nat
    <3> HIDE DEF here
    <3> QED BY <1>3, <1>4, <1>5, <2>1
  <2>4. r.offset + r.heard \in Times /\ r.offset + end \in Times
    <3> HIDE DEF here
    <3> QED BY <2>1, <2>3, TimesBelow
  <2>5. <<r.stream, r.finals>> \in Ids /\ r.stream <= streams
    BY <1>3, <2>2 DEF Ids
  <2> QED BY <2>3, <2>4, <2>5 DEF SoundSegment, Segment
<1>9. \A s \in segments' : SoundSegment(s, streams')
  BY <1>1, <1>2, <1>8 DEF Write, TInv
<1> QED BY <1>2, <1>7, <1>9 DEF TInv, Typed, RowIsSound

LEMMA InitSound == Init => TInv
<1> SUFFICES ASSUME Init PROVE TInv
  OBVIOUS
<1>1. /\ 0 \in Times /\ 0 \in 0 .. MaxTime /\ 0 \in Streams /\ 0 \in 0 .. MaxConsecutive
      /\ MaxTime * 0 = 0 /\ 0 \in 0 .. MaxRuns /\ 0 \in 0 .. MaxSessions /\ 0 \in 0 .. MaxDeletions
  BY BoundsAssumption DEF Times, Streams
<1>2. \A c \in Sessions : Sound(sessions[c], streams, waiting, time)
  BY <1>1 DEF Init, Unused, Sound, Open
<1>3. SessionsAreSound /\ RowIsSound
  BY <1>1, <1>2 DEF Init, SessionsAreSound, RowIsSound, NoRow
<1>4. Typed
  <2>1. up \in BOOLEAN /\ speaking \in BOOLEAN
    BY DEF Init
  <2>2. waiting \in 0 .. time /\ erased = {} /\ pending \subseteq Ids /\ lost \subseteq Ids
    BY DEF Init
  <2> QED BY <1>1, <2>1, <2>2 DEF Init, Typed
<1> QED BY <1>3, <1>4 DEF Init, TInv

LEMMA StepSound == TInv /\ [Next]_vars => TInv'
<1> SUFFICES ASSUME TInv, [Next]_vars PROVE TInv'
  OBVIOUS
<1>1. CASE UNCHANGED vars
  BY <1>1 DEF vars, clientVars, tableVars, pastVars, TInv, Typed, SessionsAreSound, RowIsSound
<1>2. CASE \E c \in Sessions : Session(c)
  BY <1>2, StartSound, GoingSound, DeleteStaleSound, EngineStartsSound, SessionStepSound,
     HearSound, RestartsSound DEF Session
<1>3. CASE Boot \/ Exit \/ Tick \/ Drop \/ Delete
  BY <1>3, BootSound, ExitSound, TickSound, AwaySound
<1> QED BY <1>1, <1>2, <1>3 DEF Next

-----------------------------------------------------------------------------
(* What a session writes, and what the shell deletes *)

\* Sessions start one after the other.
UsedInOrder ==
  \A c \in Sessions : ~At(c, {"unused"}) => \A d \in 1 .. c - 1 : ~At(d, {"unused"})

\* When session c started alone, all that came before it are gone.
Settled(c) == sessions[c].alone => \A d \in 1 .. c - 1 : At(d, {"gone"})

OpenIsSettled == \A c \in Sessions : At(c, Open) => Settled(c)
WrittenIsSettled == \A s \in segments : Settled(s.session)

\* Its time starts where theirs has ended.
OpenFollows ==
  \A c \in Sessions : At(c, Open) /\ sessions[c].alone =>
    \A s \in segments : s.session < c => s.end <= sessions[c].offset

\* A session that can write does so under ids that were never deleted.
StreamsAreFresh ==
  (\A c \in Sessions : sessions[c].alone) /\ row.status # "none" =>
    \A c \in Sessions : At(c, Open) => \A id \in erased : id[1] # sessions[c].stream

OInv ==
  /\ UsedInOrder /\ OpenIsSettled /\ WrittenIsSettled /\ OpenFollows /\ StreamsAreFresh
  /\ LaterSessionsFollow /\ DeletedStaysDeleted

\* No session is opened, and nothing is written or deleted by the shell.
Keeps(c) ==
  /\ sessions'[c].alone = sessions[c].alone
  /\ sessions[c].pc = "gone" => sessions'[c].pc = "gone"
  /\ sessions[c].pc # "unused" => sessions'[c].pc # "unused"
  /\ sessions'[c].pc # "unused" =>
       sessions[c].pc # "unused" \/ \A d \in 1 .. c - 1 : sessions[d].pc # "unused"
  /\ sessions'[c].pc \in Open =>
       /\ sessions[c].pc \in Open
       /\ sessions'[c].offset \in Nat /\ sessions[c].offset <= sessions'[c].offset
       /\ sessions'[c].stream \in {sessions[c].stream, streams + 1}
Kept ==
  \A s \in segments' : \E t \in segments :
    t.id = s.id /\ t.session = s.session /\ t.start = s.start /\ t.end = s.end

LEMMA SessionsBefore ==
  ASSUME NEW c \in Sessions, NEW d \in 1 .. c - 1
  PROVE  d \in Sessions /\ d \in Nat /\ c \in Nat /\ d < c
BY BoundsAssumption DEF Sessions

LEMMA KeptIsOwned ==
  ASSUME TInv, OInv, \A c \in Sessions : Keeps(c), Kept, erased' = erased,
         row'.status # "none" => row.status # "none"
  PROVE  OInv'
<1>1. UsedInOrder'
  <2> SUFFICES ASSUME NEW c \in Sessions, NEW d \in 1 .. c - 1, sessions'[c].pc # "unused"
               PROVE  sessions'[d].pc # "unused"
    BY DEF UsedInOrder, At
  <2>1. sessions[d].pc # "unused" /\ d \in Sessions
    BY SessionsBefore DEF OInv, UsedInOrder, At, Keeps
  <2> QED BY <2>1 DEF Keeps
<1>2. \A c \in Sessions : Settled(c) => Settled(c)'
  BY SessionsBefore DEF Settled, At, Keeps
<1>3. OpenIsSettled'
  BY <1>2 DEF OInv, OpenIsSettled, At, Keeps
<1>4. \A s \in segments : /\ s.session \in Sessions /\ s.session \in Nat
                          /\ s.start \in Nat /\ s.end \in Nat
  BY BoundsAssumption DEF TInv, SoundSegment, Sessions, Times
<1>5. WrittenIsSettled'
  BY <1>2, <1>4 DEF OInv, WrittenIsSettled, Kept
<1>6. OpenFollows'
  <2> SUFFICES ASSUME NEW c \in Sessions, sessions'[c].pc \in Open, sessions'[c].alone,
                      NEW s \in segments', s.session < c
               PROVE  s.end <= sessions'[c].offset
    BY DEF OpenFollows, At
  <2>1. PICK t \in segments : t.session = s.session /\ t.end = s.end
    BY DEF Kept
  <2>2. t.end <= sessions[c].offset
    BY <2>1 DEF Keeps, OInv, OpenFollows, At
  <2>3. sessions[c].offset \in Nat /\ sessions'[c].offset \in Nat
    BY SessionIsSound DEF Keeps
  <2>4. sessions[c].offset <= sessions'[c].offset
    BY DEF Keeps
  <2> QED BY <1>4, <2>1, <2>2, <2>3, <2>4
<1>7. StreamsAreFresh'
  <2> SUFFICES ASSUME \A c \in Sessions : sessions'[c].alone, row'.status # "none",
                      NEW c \in Sessions, sessions'[c].pc \in Open, NEW id \in erased
               PROVE  id[1] # sessions'[c].stream
    BY DEF StreamsAreFresh, At
  <2>1. id[1] # sessions[c].stream
    BY DEF Keeps, OInv, StreamsAreFresh, At
  <2>2. id[1] <= streams /\ id[1] \in Nat /\ streams \in Nat
    BY BoundsAssumption DEF TInv, Typed, Ids, Streams
  <2>3. id[1] # streams + 1
    BY <2>2
  <2> QED BY <2>1, <2>3 DEF Keeps
<1>8. LaterSessionsFollow'
  <2> SUFFICES ASSUME NEW a \in segments', NEW b \in segments',
                      a.session < b.session, sessions'[b.session].alone
               PROVE  a.end <= b.start
    BY DEF LaterSessionsFollow
  <2>1. PICK s \in segments : s.session = a.session /\ s.end = a.end
    BY DEF Kept
  <2>2. PICK t \in segments : t.session = b.session /\ t.start = b.start
    BY DEF Kept
  <2>3. sessions[t.session].alone
    BY <1>4, <2>2 DEF Keeps
  <2> QED BY <2>1, <2>2, <2>3 DEF OInv, LaterSessionsFollow
<1>9. DeletedStaysDeleted'
  <2>1. Listed' \subseteq Listed
    BY DEF Listed, Kept
  <2>2. (\A c \in Sessions : sessions'[c].alone) => \A c \in Sessions : sessions[c].alone
    BY DEF Keeps
  <2> QED BY <2>1, <2>2 DEF OInv, DeletedStaysDeleted
<1> QED BY <1>1, <1>3, <1>5, <1>6, <1>7, <1>8, <1>9 DEF OInv

\* A session that is left alone keeps what it has, and so does one that ends.
LEMMA SameKeeps ==
  ASSUME TInv, NEW c \in Sessions, sessions'[c] = sessions[c]
  PROVE  Keeps(c)
BY SessionIsSound DEF Keeps

LEMMA GoneKeeps ==
  ASSUME TInv, NEW c \in Sessions, sessions'[c] = Gone[c]
  PROVE  Keeps(c)
<1>1. sessions[c].pc = "unused" => sessions[c].alone = TRUE
  BY SessionIsSound DEF Sound
<1>2. CASE sessions[c].pc = "unused"
  <2>1. sessions'[c].pc = "unused" /\ sessions'[c].alone = TRUE
    BY <1>2 DEF Gone, Unused, At
  <2> QED BY <1>1, <1>2, <2>1 DEF Keeps, Open
<1>3. CASE sessions[c].pc # "unused"
  <2>1. sessions'[c].pc = "gone" /\ sessions'[c].alone = sessions[c].alone
    BY <1>3 DEF Gone, Unused, At
  <2> QED BY <1>3, <2>1 DEF Keeps, Open
<1> QED BY <1>2, <1>3

\* A session that goes on, from one open place to another, or still at START.
LEMMA GoesOnKeeps ==
  ASSUME TInv, NEW c \in Sessions,
         sessions'[c].alone = sessions[c].alone,
         \/ sessions[c].pc \in Open /\ sessions'[c].pc \in Open
         \/ sessions[c].pc = "deleting" /\ sessions'[c].pc = "deleting",
         sessions'[c].offset = sessions[c].offset, sessions'[c].stream = sessions[c].stream
  PROVE  Keeps(c)
BY SessionIsSound DEF Keeps, Open

LEMMA SameSegmentsKept ==
  ASSUME segments' \subseteq segments
  PROVE  Kept
BY DEF Kept

LEMMA EveryoneOwned ==
  ASSUME TInv, OInv, Boot \/ Exit \/ Tick \/ Drop
  PROVE  OInv'
<1>1. erased' = erased /\ row' = row
  BY DEF Boot, Exit, Tick, Drop, tableVars, pastVars
<1>2. Kept
  <2>1. CASE Boot
    <3> DEFINE stale == IF row.status = "RECORDING" THEN {s \in segments : s.partial = 1} ELSE {}
    <3>1. segments' = (segments \ stale) \cup {[s EXCEPT !.partial = -1] : s \in stale}
      BY <2>1 DEF Boot
    <3>2. \A s \in stale :
            /\ s \in segments
            /\ [s EXCEPT !.partial = -1].id = s.id /\ [s EXCEPT !.partial = -1].start = s.start
            /\ [s EXCEPT !.partial = -1].session = s.session /\ [s EXCEPT !.partial = -1].end = s.end
      BY DEF TInv, SoundSegment
    <3> HIDE DEF stale
    <3>3. ASSUME NEW s \in segments'
          PROVE  \E t \in segments :
                   t.id = s.id /\ t.session = s.session /\ t.start = s.start /\ t.end = s.end
      <4>1. CASE s \in segments
        BY <4>1
      <4>2. CASE s \notin segments
        <5>1. PICK t \in stale : s = [t EXCEPT !.partial = -1]
          BY <3>1, <4>2
        <5> QED BY <3>2, <5>1
      <4> QED BY <4>1, <4>2
    <3> QED BY <3>3 DEF Kept
  <2>2. CASE Exit \/ Tick \/ Drop
    BY <2>2, SameSegmentsKept DEF Exit, Tick, Drop, tableVars
  <2> QED BY <2>1, <2>2
<1>3. ASSUME NEW c \in Sessions
      PROVE  Keeps(c)
  <2>1. CASE Boot \/ Drop
    BY <2>1, SameKeeps DEF Boot, Drop
  <2>2. CASE Exit
    BY <2>2, GoneKeeps DEF Exit
  <2>3. CASE Tick
    <3>1. sessions'[c] = IF At(c, Open) THEN [sessions[c] EXCEPT !.elapsed = sessions[c].elapsed + 1]
                         ELSE sessions[c]
      BY <2>3 DEF Tick, Open
    <3>2. CASE At(c, Open)
      <4>1. /\ sessions'[c].pc = sessions[c].pc /\ sessions'[c].alone = sessions[c].alone
            /\ sessions'[c].offset = sessions[c].offset /\ sessions'[c].stream = sessions[c].stream
        BY <3>1, <3>2, SessionIsSound DEF Sound
      <4> QED BY <3>2, <4>1, GoesOnKeeps DEF At
    <3>3. CASE ~At(c, Open)
      BY <3>1, <3>3, SameKeeps
    <3> QED BY <3>2, <3>3
  <2> QED BY <2>1, <2>2, <2>3
<1> QED BY <1>1, <1>2, <1>3, KeptIsOwned

\* The steps of one session that open no stream of a new session.
LEMMA SessionOwned ==
  ASSUME TInv, OInv, NEW c \in Sessions,
         \/ Start(c) \/ Notice(c) \/ DeleteStale(c) \/ EngineFails(c) \/ Feed(c) \/ HearRefused(c)
         \/ Reset(c) \/ Restarts(c) \/ FailMeeting(c) \/ End(c) \/ Ended(c)
  PROVE  OInv'
<1> DEFINE r == sessions[c]
<1> USE DEF TInv, SessionsAreSound
<1>1. erased' = erased /\ (row'.status # "none" => row.status # "none")
  BY DEF Start, Notice, DeleteStale, EngineFails, Feed, HearRefused, Reset, Restarts, FailMeeting,
         End, Ended, RowIsSound, tableVars, pastVars
<1>2. Kept
  <2>1. segments' \subseteq segments
    BY DEF Start, Notice, DeleteStale, EngineFails, Feed, HearRefused, Reset, Restarts,
           FailMeeting, End, Ended, tableVars
  <2> QED BY <2>1, SameSegmentsKept
<1>3. ASSUME NEW d \in Sessions \ {c}
      PROVE  sessions'[d] = sessions[d]
  BY DEF Start, Notice, DeleteStale, EngineFails, Feed, HearRefused, Reset, Restarts, FailMeeting,
         End, Ended, Goto
<1>4. Sound(r, streams, waiting, time)
  BY SessionIsSound
<1>5. Keeps(c)
  <2>1. CASE Notice(c) \/ EngineFails(c) \/ FailMeeting(c) \/ Ended(c)
    <3>1. sessions'[c] = Gone[c]
      BY <2>1 DEF Notice, EngineFails, FailMeeting, Ended
    <3> QED BY <3>1, GoneKeeps
  <2>2. CASE Start(c)
    <3>1. sessions'[c].pc = "deleting" /\ sessions'[c].alone = r.alone
      BY <2>2, <1>4 DEF Start, Sound
    <3>2. r.pc = "unused" /\ \A d \in 1 .. c - 1 : sessions[d].pc # "unused"
      BY <2>2 DEF Start, At
    <3> QED BY <3>1, <3>2 DEF Keeps, Open
  <2>3. CASE DeleteStale(c)
    <3>1. /\ sessions'[c].pc = r.pc /\ sessions'[c].alone = r.alone /\ r.pc = "deleting"
          /\ sessions'[c].offset = r.offset /\ sessions'[c].stream = r.stream
      BY <2>3, <1>4 DEF DeleteStale, At, Sound
    <3> QED BY <3>1, GoesOnKeeps
  <2>4. CASE Feed(c) \/ HearRefused(c) \/ Reset(c) \/ End(c)
    <3>1. /\ r.pc \in Open /\ sessions'[c].pc \in Open /\ sessions'[c].alone = r.alone
          /\ sessions'[c].offset = r.offset /\ sessions'[c].stream = r.stream
      BY <2>4, <1>4 DEF Feed, HearRefused, Reset, End, Goto, At, Open, Sound
    <3> QED BY <3>1, GoesOnKeeps
  <2>5. CASE Restarts(c)
    <3>1. /\ r.pc = "backoff" /\ sessions'[c].pc = "reading" /\ sessions'[c].alone = r.alone
          /\ sessions'[c].offset = r.offset + r.elapsed /\ sessions'[c].stream = streams + 1
      BY <2>5, <1>4 DEF Restarts, At, Sound
    <3>2. r.offset + r.elapsed \in Nat /\ r.offset <= r.offset + r.elapsed
      BY SessionIsSound
    <3> QED BY <3>1, <3>2 DEF Keeps, Open
  <2> QED BY <2>1, <2>2, <2>3, <2>4, <2>5
<1>6. \A d \in Sessions : Keeps(d)
  BY <1>3, <1>5, SameKeeps
<1> QED BY <1>1, <1>2, <1>6, KeptIsOwned

\* A session that starts alone comes after all that are gone, and after all
\* that they wrote, on a stream of its own.
LEMMA EngineStartsOwned ==
  ASSUME TInv, OInv, NEW c \in Sessions, EngineStarts(c)
  PROVE  OInv'
<1>1. /\ sessions[c].pc = "deleting" /\ segments' = segments /\ erased' = erased
      /\ streams' = streams + 1
  BY DEF EngineStarts, At, pastVars
<1>2. /\ sessions'[c].pc = "reading" /\ sessions'[c].stream = streams + 1
      /\ sessions'[c].offset = Resumed /\ sessions'[c].alone = (Alive = {c})
      /\ \A d \in Sessions \ {c} : sessions'[d] = sessions[d]
      /\ sessions[c].alone
  BY <1>1, SessionIsSound DEF EngineStarts, TInv, SessionsAreSound, Sound
<1>3. UsedInOrder'
  BY <1>1, <1>2, SessionsBefore DEF OInv, UsedInOrder, At
<1>4. Settled(c)'
  <2> SUFFICES ASSUME Alive = {c}, NEW d \in 1 .. c - 1 PROVE sessions'[d].pc = "gone"
    BY <1>2 DEF Settled, At
  <2>1. d \in Sessions /\ d # c
    BY SessionsBefore
  <2>2. sessions[d].pc # "unused"
    BY <1>1 DEF OInv, UsedInOrder, At
  <2>3. sessions[d].pc = "gone"
    BY <2>1, <2>2 DEF Alive, At
  <2> QED BY <1>2, <2>1, <2>3
<1>5. ASSUME NEW d \in Sessions \ {c}, Settled(d)
      PROVE  Settled(d)'
  BY <1>1, <1>2, <1>5, SessionsBefore DEF Settled, At
<1>6. OpenIsSettled'
  <2> SUFFICES ASSUME NEW d \in Sessions, sessions'[d].pc \in Open PROVE Settled(d)'
    BY DEF OpenIsSettled, At
  <2>1. CASE d # c
    BY <1>2, <1>5, <2>1 DEF OInv, OpenIsSettled, At
  <2> QED BY <1>4, <2>1
<1>7. \A s \in segments : s.session \in Sessions
  BY DEF TInv, SoundSegment
<1>8. WrittenIsSettled'
  BY <1>1, <1>4, <1>5, <1>7 DEF OInv, WrittenIsSettled
<1>9. OpenFollows'
  <2> SUFFICES ASSUME NEW d \in Sessions, sessions'[d].pc \in Open, sessions'[d].alone,
                      NEW s \in segments, s.session < d
               PROVE  s.end <= sessions'[d].offset
    BY <1>1 DEF OpenFollows, At
  <2>1. CASE d = c
    BY <1>2, <2>1, ResumedIsLast
  <2>2. CASE d # c
    BY <1>2, <2>2 DEF OInv, OpenFollows, At
  <2> QED BY <2>1, <2>2
<1>10. StreamsAreFresh'
  <2> SUFFICES ASSUME \A d \in Sessions : sessions'[d].alone,
                      NEW d \in Sessions, sessions'[d].pc \in Open, NEW id \in erased
               PROVE  id[1] # sessions'[d].stream
    BY <1>1 DEF StreamsAreFresh, At
  <2>1. d = c
    <3>1. Alive = {c}
      BY <1>2
    <3> QED BY <1>2, <3>1 DEF Alive, At, Open
  <2>2. id[1] <= streams /\ id[1] \in Nat /\ streams \in Nat
    BY BoundsAssumption DEF TInv, Typed, Ids, Streams
  <2>3. id[1] # streams + 1
    BY <2>2
  <2> QED BY <1>2, <2>1, <2>3
<1>11. \A d \in Sessions : sessions'[d].alone => sessions[d].alone
  BY <1>2
<1>12. LaterSessionsFollow'
  BY <1>1, <1>7, <1>11 DEF OInv, LaterSessionsFollow
<1>13. DeletedStaysDeleted'
  BY <1>1, <1>11 DEF OInv, DeletedStaysDeleted, Listed
<1> QED BY <1>3, <1>6, <1>8, <1>9, <1>10, <1>12, <1>13 DEF OInv

\* What is heard comes after all that is gone, and no session that started
\* alone comes after the one that hears it.
LEMMA HearOwned ==
  ASSUME TInv, OInv, NEW c \in Sessions, Hear(c)
  PROVE  OInv'
<1> DEFINE r == sessions[c]
<1>1. PICK end \in r.heard + 1 .. r.fed, partial \in {0, 1} :
        /\ Write(Segment(c, end, partial))
        /\ sessions' = [sessions EXCEPT
             ![c].heard = IF partial = 0 THEN end ELSE r.heard,
             ![c].finals = IF partial = 0 THEN r.finals + 1 ELSE r.finals,
             ![c].failures = 0]
  BY DEF Hear
<1> DEFINE new == Segment(c, end, partial)
<1>2. /\ r.pc \in Open /\ row.status # "none"
      /\ UNCHANGED <<streams, row, erased>>
  BY DEF Hear, At, Open, pastVars
<1>3. ASSUME NEW d \in Sessions
      PROVE  /\ sessions'[d].pc = sessions[d].pc /\ sessions'[d].alone = sessions[d].alone
             /\ sessions'[d].offset = sessions[d].offset /\ sessions'[d].stream = sessions[d].stream
  <2>1. Sound(sessions[d], streams, waiting, time) /\ Sound(r, streams, waiting, time)
    BY SessionIsSound
  <2> QED BY <1>1, <2>1 DEF TInv, SessionsAreSound, Sound
<1>4. segments' \subseteq segments \cup {new}
  BY <1>1 DEF Write
<1>5. /\ new.session = c /\ new.start = r.offset + r.heard /\ new.id[1] = r.stream
      /\ r.offset \in Nat /\ r.heard \in Nat
  BY SessionIsSound DEF Segment
<1>6. \A d \in Sessions : Settled(d)' <=> Settled(d)
  BY <1>3, SessionsBefore DEF Settled, At
<1>7. UsedInOrder' /\ OpenIsSettled'
  BY <1>3, <1>6, SessionsBefore DEF OInv, UsedInOrder, OpenIsSettled, At
<1>8. Settled(c) /\ (\A s \in segments : Settled(s.session) /\ s.session \in Sessions)
  BY <1>2 DEF OInv, OpenIsSettled, WrittenIsSettled, At, TInv, SoundSegment
<1>9. WrittenIsSettled'
  BY <1>4, <1>5, <1>6, <1>8 DEF WrittenIsSettled
<1>10. ASSUME NEW d \in Sessions, Settled(d), sessions[d].alone
       PROVE  ~(c < d)
  <2>1. c < d => c \in 1 .. d - 1
    BY BoundsAssumption DEF Sessions
  <2> QED BY <1>2, <1>10, <2>1 DEF Settled, At, Open
<1>11. OpenFollows'
  <2> SUFFICES ASSUME NEW d \in Sessions, sessions[d].pc \in Open, sessions[d].alone,
                      NEW s \in segments', s.session < d
               PROVE  s.end <= sessions[d].offset
    BY <1>3 DEF OpenFollows, At
  <2>1. s # new
    BY <1>5, <1>10 DEF OInv, OpenIsSettled, At
  <2> QED BY <1>4, <2>1 DEF OInv, OpenFollows, At
<1>12. StreamsAreFresh'
  BY <1>2, <1>3 DEF OInv, StreamsAreFresh, At
<1>13. LaterSessionsFollow'
  <2> SUFFICES ASSUME NEW a \in segments', NEW b \in segments',
                      a.session < b.session, sessions'[b.session].alone
               PROVE  a.end <= b.start
    BY DEF LaterSessionsFollow
  <2>1. b.session \in Sessions /\ sessions[b.session].alone
    BY <1>3, <1>4, <1>5, <1>8
  <2>2. a # new
    BY <1>4, <1>5, <1>8, <1>10, <2>1
  <2>3. a \in segments /\ a.end \in Nat
    BY <1>4, <2>2, BoundsAssumption DEF TInv, SoundSegment, Times
  <2>4. CASE b = new
    <3>1. a.end <= r.offset
      BY <1>2, <1>5, <2>1, <2>3, <2>4 DEF OInv, OpenFollows, At
    <3> QED BY <1>5, <2>3, <2>4, <3>1
  <2>5. CASE b # new
    BY <1>4, <2>1, <2>3, <2>5 DEF OInv, LaterSessionsFollow
  <2> QED BY <2>4, <2>5
<1>14. DeletedStaysDeleted'
  <2> SUFFICES ASSUME \A d \in Sessions : sessions[d].alone, NEW s \in segments', s.id \in erased
               PROVE  FALSE
    BY <1>2, <1>3 DEF DeletedStaysDeleted, Listed
  <2>1. \A id \in erased : id[1] # r.stream
    BY <1>2 DEF OInv, StreamsAreFresh, At
  <2>2. s \in segments
    BY <1>4, <1>5, <2>1
  <2> QED BY <2>2 DEF OInv, DeletedStaysDeleted, Listed
<1> QED BY <1>7, <1>9, <1>11, <1>12, <1>13, <1>14 DEF OInv

LEMMA DeleteOwned ==
  ASSUME TInv, OInv, Delete
  PROVE  OInv'
<1>1. row'.status = "none" /\ segments' = {} /\ sessions' = sessions
  BY DEF Delete, Cascaded, NoRow
<1>2. UsedInOrder' /\ OpenIsSettled'
  BY <1>1 DEF OInv, UsedInOrder, OpenIsSettled, Settled, At
<1>3. WrittenIsSettled' /\ OpenFollows' /\ StreamsAreFresh'
  BY <1>1 DEF WrittenIsSettled, OpenFollows, StreamsAreFresh
<1>4. LaterSessionsFollow' /\ DeletedStaysDeleted'
  BY <1>1 DEF LaterSessionsFollow, DeletedStaysDeleted, Listed
<1> QED BY <1>2, <1>3, <1>4 DEF OInv

LEMMA InitOwned == Init => OInv
<1> SUFFICES ASSUME Init PROVE OInv
  OBVIOUS
<1>1. segments = {} /\ erased = {} /\ \A c \in Sessions : sessions[c].pc = "unused"
  BY DEF Init, Unused
<1>2. UsedInOrder /\ OpenIsSettled /\ WrittenIsSettled
  BY <1>1 DEF UsedInOrder, OpenIsSettled, WrittenIsSettled, At, Open
<1>3. OpenFollows /\ StreamsAreFresh /\ LaterSessionsFollow /\ DeletedStaysDeleted
  BY <1>1 DEF OpenFollows, StreamsAreFresh, LaterSessionsFollow, DeletedStaysDeleted
<1> QED BY <1>2, <1>3 DEF OInv

LEMMA StepOwned == TInv /\ OInv /\ [Next]_vars => OInv'
<1> SUFFICES ASSUME TInv, OInv, [Next]_vars PROVE OInv'
  OBVIOUS
<1>1. CASE UNCHANGED vars
  BY <1>1, SameKeeps, SameSegmentsKept, KeptIsOwned DEF vars, tableVars, pastVars
<1>2. CASE \E c \in Sessions : Session(c)
  BY <1>2, SessionOwned, EngineStartsOwned, HearOwned DEF Session
<1>3. CASE Boot \/ Exit \/ Tick \/ Drop \/ Delete
  BY <1>3, EveryoneOwned, DeleteOwned
<1> QED BY <1>1, <1>2, <1>3 DEF Next

\* TInv and OInv hold in every reachable state.
LEMMA Ownership == Spec => [](TInv /\ OInv)
<1>1. Init => TInv /\ OInv
  BY InitSound, InitOwned
<1>2. (TInv /\ OInv) /\ [Next]_vars => (TInv /\ OInv)'
  BY StepSound, StepOwned
<1> QED BY <1>1, <1>2, PTL DEF Spec

\* Every variable keeps its type: in particular no time of a session or a
\* segment is beyond what the streams that were opened can have brought.
THEOREM TypeCorrect == Spec => []TypeOK
<1>1. TInv /\ OInv => TypeOK
  BY TypedIsTypeOK
<1> QED BY <1>1, Ownership, PTL

\* What a session writes comes after all that earlier sessions have written,
\* when none of them was still there as it started.
THEOREM SessionsFollow == Spec => []LaterSessionsFollow
<1>1. TInv /\ OInv => LaterSessionsFollow
  BY DEF OInv
<1> QED BY <1>1, Ownership, PTL

\* A segment the shell has deleted does not come back, while no two sessions
\* of the meeting overlap.
THEOREM DeletedNeverReturns == Spec => []DeletedStaysDeleted
<1>1. TInv /\ OInv => DeletedStaysDeleted
  BY DEF OInv
<1> QED BY <1>1, Ownership, PTL
=============================================================================
