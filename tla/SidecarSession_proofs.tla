------------------------ MODULE SidecarSession_proofs ------------------------
(***************************************************************************)
(* Theorems about a connection of the sidecar, for every set of meetings,  *)
(* every budget of resets and every bound.                                 *)
(*                                                                         *)
(* Nothing stops a pump but a cancel: when close() raises on a dead        *)
(* connection, the pump of an ended meeting is left to run, and the        *)
(* properties below hold for as long as no later START finds it running    *)
(* (Alone).  The last section shows when that is so: when no closing is    *)
(* abandoned, when the provider makes no fault, and for the first meeting  *)
(* of a connection.                                                        *)
(***************************************************************************)
EXTENDS SidecarSession, SequenceTheorems, TLAPS

-----------------------------------------------------------------------------
(* The operators on streams and pumps *)

\* Opening a stream leaves the others as they are.
LEMMA OpenedStream ==
  ASSUME NEW ss \in Seq(Streams)
  PROVE  /\ Append(ss, NewStream) \in Seq(Streams)
         /\ Len(Append(ss, NewStream)) = Len(ss) + 1
         /\ DOMAIN Append(ss, NewStream) = 1 .. Len(ss) + 1
         /\ \A s \in 1 .. Len(ss) : Append(ss, NewStream)[s] = ss[s]
         /\ Append(ss, NewStream)[Len(ss) + 1] = NewStream
<1>1. NewStream \in Streams
  <2>1. <<>> \in Seq(Meetings)
    OBVIOUS
  <2> QED BY <2>1 DEF NewStream, Streams
<1> QED BY <1>1, AppendProperties, LenProperties

\* close() changes the two marks of its stream, and of no other.
LEMMA ClosedStream ==
  ASSUME streams \in Seq(Streams), NEW s \in Nat
  PROVE  /\ Closing(s) \in Seq(Streams) /\ Closed(s) \in Seq(Streams)
         /\ Len(Closing(s)) = Len(streams) /\ Len(Closed(s)) = Len(streams)
         /\ DOMAIN Closing(s) = 1 .. Len(streams) /\ DOMAIN Closed(s) = 1 .. Len(streams)
         /\ \A k \in 1 .. Len(streams) :
              /\ Closing(s)[k].due = streams[k].due
              /\ Closing(s)[k].dead = streams[k].dead
              /\ Closing(s)[k].closing = (streams[k].closing \/ k = s)
              /\ Closed(s)[k].due = streams[k].due
              /\ Closed(s)[k].dead = (streams[k].dead \/ k = s)
              /\ Closed(s)[k].closing = (streams[k].closing \/ k = s)
<1>1. /\ DOMAIN streams = 1 .. Len(streams)
      /\ \A k \in 1 .. Len(streams) : streams[k] \in Streams
  BY LenProperties, ElementOfSeq
<1> DEFINE n == Len(streams)
           C(x) == [x EXCEPT !.closing = TRUE]
           D(x) == [x EXCEPT !.closing = TRUE, !.dead = TRUE]
<1>2. ASSUME NEW x \in Streams
      PROVE  /\ C(x) \in Streams /\ D(x) \in Streams
             /\ C(x).due = x.due /\ C(x).dead = x.dead /\ C(x).closing = TRUE
             /\ D(x).due = x.due /\ D(x).dead = TRUE /\ D(x).closing = TRUE
             /\ x.closing \in BOOLEAN /\ x.dead \in BOOLEAN
  BY DEF Streams
<1>3. n \in Nat /\ streams \in [1 .. n -> Streams]
  BY LenProperties
<1>4. \A k \in 1 .. n :
        /\ Closing(s)[k] = IF k = s THEN C(streams[k]) ELSE streams[k]
        /\ Closed(s)[k] = IF k = s THEN D(streams[k]) ELSE streams[k]
  BY <1>3 DEF Closing, Closed
<1> HIDE DEF n, C, D
<1>5. Closing(s) \in [1 .. n -> Streams] /\ Closed(s) \in [1 .. n -> Streams]
  <2>1. \A k \in 1 .. n : Closing(s)[k] \in Streams /\ Closed(s)[k] \in Streams
    <3> SUFFICES ASSUME NEW k \in 1 .. n
                 PROVE  Closing(s)[k] \in Streams /\ Closed(s)[k] \in Streams
      OBVIOUS
    <3>1. streams[k] \in Streams
      BY <1>3
    <3>2. C(streams[k]) \in Streams /\ D(streams[k]) \in Streams
      BY <1>2, <3>1
    <3> QED BY <1>4, <3>1, <3>2
  <2>2. Closing(s) = [k \in 1 .. n |-> Closing(s)[k]] /\ Closed(s) = [k \in 1 .. n |-> Closed(s)[k]]
    BY <1>3 DEF Closing, Closed
  <2> QED BY <2>1, <2>2
<1>6. /\ Closing(s) \in Seq(Streams) /\ Closed(s) \in Seq(Streams)
      /\ Len(Closing(s)) = n /\ Len(Closed(s)) = n
  BY <1>3, <1>5, IsASeq, LenProperties
<1>7. ASSUME NEW k \in 1 .. n
      PROVE  /\ Closing(s)[k].due = streams[k].due
             /\ Closing(s)[k].dead = streams[k].dead
             /\ Closing(s)[k].closing = (streams[k].closing \/ k = s)
             /\ Closed(s)[k].due = streams[k].due
             /\ Closed(s)[k].dead = (streams[k].dead \/ k = s)
             /\ Closed(s)[k].closing = (streams[k].closing \/ k = s)
  <2>1. streams[k] \in Streams
    BY <1>3
  <2>2. /\ C(streams[k]).due = streams[k].due /\ C(streams[k]).dead = streams[k].dead
        /\ C(streams[k]).closing = TRUE
        /\ D(streams[k]).due = streams[k].due /\ D(streams[k]).dead = TRUE
        /\ D(streams[k]).closing = TRUE
        /\ streams[k].closing \in BOOLEAN /\ streams[k].dead \in BOOLEAN
    BY <1>2, <2>1, Zenon
  <2>3. CASE k = s
    <3>1. Closing(s)[k] = C(streams[k]) /\ Closed(s)[k] = D(streams[k])
      BY <1>4, <2>3, Zenon
    <3> QED BY <2>2, <2>3, <3>1, Zenon
  <2>4. CASE k # s
    <3>1. Closing(s)[k] = streams[k] /\ Closed(s)[k] = streams[k]
      BY <1>4, <2>4, Zenon
    <3> QED BY <2>2, <2>4, <3>1
  <2> QED BY <2>3, <2>4
<1> QED BY <1>5, <1>6, <1>7 DEF n

\* Closing a stream takes nothing back.
LEMMA ClosedIsWorse ==
  ASSUME streams \in Seq(Streams), NEW s \in Nat, streams' = Closed(s)
  PROVE  /\ streams' \in Seq(Streams) /\ Len(streams') = Len(streams)
         /\ DOMAIN streams' = DOMAIN streams
         /\ \A k \in DOMAIN streams :
              /\ streams'[k].due = streams[k].due
              /\ streams[k].dead => streams'[k].dead
              /\ streams[k].closing => streams'[k].closing
              /\ streams'[k].dead => streams[k].dead \/ streams'[k].closing
<1>1. DOMAIN streams = 1 .. Len(streams)
  BY LenProperties
<1> QED BY <1>1, ClosedStream

\* A step of one pump leaves the others as they are.
LEMMA MovedPump ==
  ASSUME pumps \in Seq(Pumps), NEW p \in DOMAIN pumps, NEW r \in Pumps
  PROVE  /\ [pumps EXCEPT ![p] = r] \in Seq(Pumps)
         /\ Len([pumps EXCEPT ![p] = r]) = Len(pumps)
         /\ DOMAIN [pumps EXCEPT ![p] = r] = DOMAIN pumps
         /\ [pumps EXCEPT ![p] = r][p] = r
         /\ \A q \in DOMAIN pumps : q # p => [pumps EXCEPT ![p] = r][q] = pumps[q]
BY ExceptSeq, LenProperties

\* A cancelled pump is done, and the same pump otherwise.
LEMMA CancelledPump ==
  ASSUME pumps \in Seq(Pumps), NEW p \in DOMAIN pumps
  PROVE  /\ Cancelled(p) \in Seq(Pumps)
         /\ Len(Cancelled(p)) = Len(pumps)
         /\ DOMAIN Cancelled(p) = DOMAIN pumps
         /\ Cancelled(p)[p].pc = "done"
         /\ Cancelled(p)[p].stream = pumps[p].stream
         /\ Cancelled(p)[p].spare = pumps[p].spare
         /\ \A q \in DOMAIN pumps : q # p => Cancelled(p)[q] = pumps[q]
<1> DEFINE r == [pumps[p] EXCEPT !.pc = "done"]
<1>1. pumps[p] \in Pumps
  BY ElementOfSeq, LenProperties
<1>2. /\ r \in Pumps /\ r.pc = "done"
      /\ r.stream = pumps[p].stream /\ r.spare = pumps[p].spare
  BY <1>1 DEF Pumps
<1>3. Cancelled(p) = [pumps EXCEPT ![p] = r]
  BY DEF Cancelled
<1> HIDE DEF r
<1> QED BY <1>2, <1>3, MovedPump

-----------------------------------------------------------------------------
(* Types *)

Mains ==
  [pc : {"run", "closing", "draining", "starting", "done"},
   next : Meetings \cup {Nothing}, stream : Nat, pump : Nat]
Objects ==
  [call : Meetings \cup {Nothing}, stream : Nat, pump : Nat,
   paused : BOOLEAN, reconnecting : BOOLEAN, failures : 0 .. MaxConsecutive]

\* The type invariant by variable: what each may be, and what it points to.
Typed ==
  /\ socket \in BOOLEAN
  /\ speaking \in Meetings \cup {Nothing}
  /\ starts \in 0 .. MaxStarts
  /\ chunks \in 0 .. MaxAudio
  /\ faults \in 0 .. MaxFaults
  /\ main \in Mains /\ main.stream \in 0 .. Len(streams) /\ main.pump \in 0 .. Len(pumps)
  /\ session \in Objects
  /\ session.stream \in 0 .. Len(streams) /\ session.pump \in 0 .. Len(pumps)
  /\ streams \in Seq(Streams)
  /\ pumps \in Seq(Pumps)
  /\ \A p \in DOMAIN pumps :
       pumps[p].stream \in DOMAIN streams /\ pumps[p].spare \in 0 .. Len(streams)
  /\ status \in [Meetings -> Statuses]
  /\ transcript \in [Meetings -> Seq(Meetings)]

LEMMA TypedIsTypeOK == Typed <=> TypeOK
<1>1. ASSUME streams \in Seq(Streams), pumps \in Seq(Pumps)
      PROVE  /\ main \in [pc : {"run", "closing", "draining", "starting", "done"},
                          next : Meetings \cup {Nothing},
                          stream : 0 .. Len(streams), pump : 0 .. Len(pumps)]
                <=> /\ main \in Mains
                    /\ main.stream \in 0 .. Len(streams) /\ main.pump \in 0 .. Len(pumps)
             /\ session \in [call : Meetings \cup {Nothing},
                             stream : 0 .. Len(streams), pump : 0 .. Len(pumps),
                             paused : BOOLEAN, reconnecting : BOOLEAN,
                             failures : 0 .. MaxConsecutive]
                <=> /\ session \in Objects
                    /\ session.stream \in 0 .. Len(streams)
                    /\ session.pump \in 0 .. Len(pumps)
  <2>1. Len(streams) \in Nat /\ Len(pumps) \in Nat
    BY <1>1, LenProperties
  <2> QED BY <2>1 DEF Mains, Objects
<1> QED BY <1>1 DEF TypeOK, Typed

\* What the steps need to know of a typed state.
LEMMA TypedFacts ==
  ASSUME Typed
  PROVE  /\ Len(streams) \in Nat /\ DOMAIN streams = 1 .. Len(streams)
         /\ Len(pumps) \in Nat /\ DOMAIN pumps = 1 .. Len(pumps)
         /\ \A s \in DOMAIN streams : streams[s] \in Streams
         /\ \A p \in DOMAIN pumps : pumps[p] \in Pumps
         /\ MaxConsecutive \in Nat /\ MaxStarts \in Nat /\ MaxAudio \in Nat /\ MaxFaults \in Nat
BY LenProperties, ElementOfSeq, BoundsAssumption DEF Typed

\* Back to the loop, or on to the engine.
LEMMA ProceedIsTyped ==
  ASSUME NEW next \in Meetings \cup {Nothing}, NEW object \in Objects,
         IF next = Nothing
           THEN main' = Idle /\ session' = object
           ELSE /\ main' = [Idle EXCEPT !.pc = "starting", !.next = next]
                /\ session' = [object EXCEPT !.call = next, !.paused = FALSE,
                                             !.reconnecting = FALSE]
  PROVE  /\ main' \in Mains /\ main'.stream = 0 /\ main'.pump = 0 /\ main'.next = next
         /\ main'.pc = IF next = Nothing THEN "run" ELSE "starting"
         /\ session' \in Objects
         /\ session'.stream = object.stream /\ session'.pump = object.pump
         /\ session'.failures = object.failures
         /\ session'.call = IF next = Nothing THEN object.call ELSE next
<1>1. CASE next = Nothing
  <2>1. session' = object /\ main' = Idle
    BY <1>1
  <2>2. Idle \in Mains /\ Idle.stream = 0 /\ Idle.pump = 0 /\ Idle.next = Nothing /\ Idle.pc = "run"
    BY DEF Idle, Mains
  <2> QED BY <1>1, <2>1, <2>2
<1>2. CASE next # Nothing
  <2>1. /\ main' = [pc |-> "starting", next |-> next, stream |-> 0, pump |-> 0]
        /\ session' = [object EXCEPT !.call = next, !.paused = FALSE, !.reconnecting = FALSE]
    BY <1>2 DEF Idle
  <2>2. main' \in Mains
    BY <2>1 DEF Mains
  <2>3. /\ session' \in Objects
        /\ session'.stream = object.stream /\ session'.pump = object.pump
        /\ session'.failures = object.failures /\ session'.call = next
    BY <2>1 DEF Objects
  <2> QED BY <1>2, <2>1, <2>2, <2>3
<1> QED BY <1>1, <1>2

LEMMA EmptiedIsTyped ==
  ASSUME session \in Objects
  PROVE  /\ Emptied \in Objects /\ Emptied.stream = 0 /\ Emptied.pump = 0
         /\ Emptied.call = session.call /\ Emptied.failures = session.failures
BY DEF Emptied, Objects

LEMMA AfterCancelIsTyped ==
  ASSUME NEW object \in Objects, NEW p
  PROVE  /\ AfterCancel(p, object) \in Objects
         /\ AfterCancel(p, object).stream = object.stream
         /\ AfterCancel(p, object).pump = object.pump
         /\ AfterCancel(p, object).call = object.call
         /\ AfterCancel(p, object).failures = object.failures
BY DEF AfterCancel, Objects

\* Meetings end and fail in the table.
LEMMA TableIsTyped ==
  ASSUME status \in [Meetings -> Statuses], NEW m
  PROVE  Ended(m) \in [Meetings -> Statuses] /\ Failed(m) \in [Meetings -> Statuses]
BY DEF Ended, Failed, Statuses

LEMMA CloseIsTyped ==
  ASSUME Typed, NEW next \in Meetings \cup {Nothing}, Close(next)
  PROVE  /\ main' \in Mains /\ main'.stream \in 0 .. Len(streams) /\ main'.pump \in 0 .. Len(pumps)
         /\ main'.next = next
         /\ session' \in Objects /\ session'.stream = 0 /\ session'.pump = 0
         /\ session'.failures = session.failures
         /\ streams' \in Seq(Streams) /\ Len(streams') = Len(streams)
         /\ \A s \in 1 .. Len(streams) :
              streams'[s].due = streams[s].due /\ streams'[s].dead = streams[s].dead
         /\ status' = status
<1>1. /\ main \in Mains /\ session \in Objects /\ streams \in Seq(Streams)
      /\ session.stream \in 0 .. Len(streams) /\ session.pump \in 0 .. Len(pumps)
      /\ Len(streams) \in Nat /\ Len(pumps) \in Nat
  BY TypedFacts DEF Typed
<1>2. /\ Emptied \in Objects /\ Emptied.stream = 0 /\ Emptied.pump = 0
      /\ Emptied.call = session.call /\ Emptied.failures = session.failures
  BY <1>1, EmptiedIsTyped
<1>3. CASE session.pump = 0 /\ ~Open(session.stream)
  <2>1. Proceed(next, Emptied) /\ UNCHANGED <<streams, status>>
    BY <1>3 DEF Close
  <2>2. /\ main' \in Mains /\ main'.stream = 0 /\ main'.pump = 0 /\ main'.next = next
        /\ session' \in Objects
        /\ session'.stream = 0 /\ session'.pump = 0 /\ session'.failures = session.failures
    BY <1>2, <2>1, ProceedIsTyped DEF Proceed
  <2> QED BY <1>1, <2>1, <2>2
<1>4. CASE ~(session.pump = 0 /\ ~Open(session.stream))
  <2>1. /\ session' = Emptied /\ streams' = Closing(session.stream) /\ status' = status
        /\ main' = [pc |-> IF Open(session.stream) THEN "closing" ELSE "draining",
                    next |-> next, stream |-> session.stream, pump |-> session.pump]
    BY <1>4 DEF Close, BeginClose
  <2>2. /\ Closing(session.stream) \in Seq(Streams)
        /\ Len(Closing(session.stream)) = Len(streams)
        /\ \A k \in 1 .. Len(streams) :
             /\ Closing(session.stream)[k].due = streams[k].due
             /\ Closing(session.stream)[k].dead = streams[k].dead
    BY <1>1, ClosedStream
  <2>3. main' \in Mains /\ main'.stream = session.stream /\ main'.pump = session.pump
        /\ main'.next = next
    BY <1>1, <2>1 DEF Mains
  <2> QED BY <1>1, <1>2, <2>1, <2>2, <2>3
<1> QED BY <1>3, <1>4

-----------------------------------------------------------------------------
(* The steps of the client and of the main task *)

\* A step that leaves streams and pumps as long as they were keeps what points
\* to them.
LEMMA SameLengths ==
  ASSUME Typed, UNCHANGED <<faults, pumps, status, transcript>>,
         socket' \in BOOLEAN, speaking' \in Meetings \cup {Nothing},
         starts' \in 0 .. MaxStarts, chunks' \in 0 .. MaxAudio,
         main' \in Mains, main'.stream \in 0 .. Len(streams), main'.pump \in 0 .. Len(pumps),
         session' \in Objects,
         session'.stream \in 0 .. Len(streams), session'.pump \in 0 .. Len(pumps),
         streams' \in Seq(Streams), Len(streams') = Len(streams)
  PROVE  Typed'
<1>1. DOMAIN streams' = DOMAIN streams
  BY LenProperties DEF Typed
<1>2. \A p \in DOMAIN pumps' :
        pumps'[p].stream \in DOMAIN streams' /\ pumps'[p].spare \in 0 .. Len(streams')
  BY <1>1 DEF Typed
<1>3. /\ faults' \in 0 .. MaxFaults /\ pumps' \in Seq(Pumps)
      /\ status' \in [Meetings -> Statuses] /\ transcript' \in [Meetings -> Seq(Meetings)]
  BY DEF Typed
<1> QED BY <1>2, <1>3 DEF Typed

\* What the client does keeps the types.
LEMMA ClientIsTyped ==
  ASSUME Typed, Client
  PROVE  Typed'
<1> USE TypedFacts DEF Typed
<1>1. ASSUME NEW m \in Meetings, ReceiveStart(m)
      PROVE  Typed'
  <2>1. Close(m) /\ starts' = starts + 1 /\ starts < MaxStarts /\ speaking' = m
        /\ UNCHANGED <<socket, chunks, faults, pumps, transcript>>
    BY <1>1 DEF ReceiveStart
  <2>2. /\ main' \in Mains /\ main'.stream \in 0 .. Len(streams) /\ main'.pump \in 0 .. Len(pumps)
        /\ session' \in Objects /\ session'.stream = 0 /\ session'.pump = 0
        /\ streams' \in Seq(Streams) /\ Len(streams') = Len(streams) /\ status' = status
    BY <2>1, CloseIsTyped
  <2>3. /\ starts' \in 0 .. MaxStarts /\ chunks' \in 0 .. MaxAudio
        /\ socket' \in BOOLEAN /\ speaking' \in Meetings \cup {Nothing}
    BY <2>1
  <2>4. session'.stream \in 0 .. Len(streams) /\ session'.pump \in 0 .. Len(pumps)
    BY <2>2
  <2> HIDE DEF Typed
  <2> QED BY <2>1, <2>2, <2>3, <2>4, SameLengths
<1>2. CASE ReceiveEnd
  <2>1. Close(Nothing) /\ speaking' = Nothing
        /\ UNCHANGED <<socket, starts, chunks, faults, pumps, transcript>>
    BY <1>2 DEF ReceiveEnd
  <2>2. /\ main' \in Mains /\ main'.stream \in 0 .. Len(streams) /\ main'.pump \in 0 .. Len(pumps)
        /\ session' \in Objects /\ session'.stream = 0 /\ session'.pump = 0
        /\ streams' \in Seq(Streams) /\ Len(streams') = Len(streams) /\ status' = status
    BY <2>1, CloseIsTyped
  <2>3. /\ starts' \in 0 .. MaxStarts /\ chunks' \in 0 .. MaxAudio
        /\ socket' \in BOOLEAN /\ speaking' \in Meetings \cup {Nothing}
    BY <2>1
  <2>4. session'.stream \in 0 .. Len(streams) /\ session'.pump \in 0 .. Len(pumps)
    BY <2>2
  <2> HIDE DEF Typed
  <2> QED BY <2>1, <2>2, <2>3, <2>4, SameLengths
<1>3. ASSUME NEW paused \in BOOLEAN, ReceivePause(paused)
      PROVE  Typed'
  <2>1. session' \in Objects /\ session'.stream = session.stream /\ session'.pump = session.pump
    BY <1>3 DEF ReceivePause, Objects
  <2>2. UNCHANGED <<clientVars, faults, main, streams, pumps, storeVars>>
    BY <1>3 DEF ReceivePause
  <2> QED BY <2>1, <2>2 DEF clientVars, storeVars
<1>4. CASE ReceiveAudio
  <2>1. /\ speaking \in Meetings /\ session.stream \in DOMAIN streams
        /\ chunks' = chunks + 1 /\ chunks < MaxAudio
        /\ UNCHANGED <<socket, speaking, starts, faults, main, session, pumps, storeVars>>
    BY <1>4 DEF ReceiveAudio
  <2>2. streams' \in Seq(Streams) /\ Len(streams') = Len(streams)
    <3>1. CASE streams' = streams
      BY <3>1
    <3>2. CASE streams' # streams
      <4> DEFINE r == [streams[session.stream] EXCEPT !.due = Append(@, speaking)]
      <4>1. streams' = [streams EXCEPT ![session.stream] = r]
        BY <1>4, <3>2 DEF ReceiveAudio
      <4>2. streams[session.stream] \in Streams
        BY <2>1
      <4>3. Append(streams[session.stream].due, speaking) \in Seq(Meetings)
        BY <2>1, <4>2, AppendProperties DEF Streams
      <4>4. r \in Streams
        BY <4>2, <4>3 DEF Streams
      <4> HIDE DEF r
      <4> QED BY <2>1, <4>1, <4>4, ExceptSeq
    <3> QED BY <3>1, <3>2
  <2>3. /\ starts' \in 0 .. MaxStarts /\ chunks' \in 0 .. MaxAudio
        /\ socket' \in BOOLEAN /\ speaking' \in Meetings \cup {Nothing}
        /\ main' \in Mains /\ main'.stream \in 0 .. Len(streams) /\ main'.pump \in 0 .. Len(pumps)
        /\ session' \in Objects
        /\ session'.stream \in 0 .. Len(streams) /\ session'.pump \in 0 .. Len(pumps)
        /\ UNCHANGED <<faults, pumps, status, transcript>>
    BY <2>1 DEF storeVars
  <2> HIDE DEF Typed
  <2> QED BY <2>2, <2>3, SameLengths
<1>5. CASE Disconnect
  BY <1>5 DEF Disconnect, storeVars
<1> QED BY <1>1, <1>2, <1>3, <1>4, <1>5 DEF Client

\* Shutdown empties the session, and ends its pump and its stream.
LEMMA ShutdownIsTyped ==
  ASSUME Typed, Shutdown
  PROVE  /\ main' = [Idle EXCEPT !.pc = "done"]
         /\ session' \in Objects /\ session'.stream = 0 /\ session'.pump = 0
         /\ session'.call = session.call /\ session'.failures = session.failures
         /\ streams' \in Seq(Streams) /\ Len(streams') = Len(streams)
         /\ \A s \in DOMAIN streams :
              /\ streams'[s].due = streams[s].due
              /\ streams[s].dead => streams'[s].dead
              /\ streams[s].closing => streams'[s].closing
              /\ streams'[s].dead => streams[s].dead \/ streams'[s].closing
         /\ pumps' \in Seq(Pumps) /\ Len(pumps') = Len(pumps)
         /\ \A p \in DOMAIN pumps :
              /\ pumps'[p].stream = pumps[p].stream /\ pumps'[p].spare = pumps[p].spare
              /\ IF p = session.pump THEN pumps'[p].pc = "done" ELSE pumps'[p] = pumps[p]
<1> USE TypedFacts DEF Typed
<1>1. /\ session' = AfterCancel(session.pump, Emptied)
      /\ pumps' = IF session.pump = 0 THEN pumps ELSE Cancelled(session.pump)
      /\ streams' = IF Open(session.stream) THEN Closed(session.stream) ELSE streams
      /\ main' = [Idle EXCEPT !.pc = "done"]
  BY DEF Shutdown
<1>2. /\ session' \in Objects /\ session'.stream = 0 /\ session'.pump = 0
      /\ session'.call = session.call /\ session'.failures = session.failures
  BY <1>1, EmptiedIsTyped, AfterCancelIsTyped
<1>3. /\ streams' \in Seq(Streams) /\ Len(streams') = Len(streams)
      /\ \A s \in DOMAIN streams :
              /\ streams'[s].due = streams[s].due
              /\ streams[s].dead => streams'[s].dead
              /\ streams[s].closing => streams'[s].closing
              /\ streams'[s].dead => streams[s].dead \/ streams'[s].closing
  <2>1. CASE Open(session.stream)
    <3>1. streams' = Closed(session.stream) /\ session.stream \in Nat /\ streams \in Seq(Streams)
      BY <1>1, <2>1
    <3> HIDE DEF Typed
    <3> QED BY <3>1, ClosedIsWorse
  <2>2. CASE ~Open(session.stream)
    BY <1>1, <2>2
  <2> QED BY <2>1, <2>2
<1>4. /\ pumps' \in Seq(Pumps) /\ Len(pumps') = Len(pumps)
      /\ \A p \in DOMAIN pumps :
           /\ pumps'[p].stream = pumps[p].stream /\ pumps'[p].spare = pumps[p].spare
           /\ IF p = session.pump THEN pumps'[p].pc = "done" ELSE pumps'[p] = pumps[p]
  <2>1. CASE session.pump = 0
    BY <1>1, <2>1
  <2>2. CASE session.pump # 0
    <3>1. pumps' = Cancelled(session.pump) /\ session.pump \in DOMAIN pumps
      BY <1>1, <2>2
    <3> QED BY <3>1, CancelledPump
  <2> QED BY <2>1, <2>2
<1> QED BY <1>1, <1>2, <1>3, <1>4

\* A session that takes a stream and its pump, and one that is installed a stream.
LEMMA TakesStream ==
  ASSUME NEW o \in Objects, NEW s \in Nat, NEW q \in Nat
  PROVE  /\ [o EXCEPT !.stream = s, !.pump = q] \in Objects
         /\ [o EXCEPT !.stream = s, !.pump = q].stream = s
         /\ [o EXCEPT !.stream = s, !.pump = q].pump = q
         /\ [o EXCEPT !.stream = s, !.pump = q].call = o.call
BY DEF Objects

LEMMA InstalledStream ==
  ASSUME session \in Objects, NEW s \in Nat
  PROVE  /\ Installed(s) \in Objects
         /\ Installed(s).stream = s /\ Installed(s).pump = session.pump
         /\ Installed(s).call = session.call /\ Installed(s).failures = session.failures
BY DEF Objects, Installed

LEMMA MainIsTyped ==
  ASSUME Typed, main.pc = "starting" => main.next # Nothing, main.pc = "draining" => main.pump # 0, Main
  PROVE  Typed'
<1>0. /\ socket \in BOOLEAN /\ speaking \in Meetings \cup {Nothing}
      /\ starts \in 0 .. MaxStarts /\ chunks \in 0 .. MaxAudio /\ faults \in 0 .. MaxFaults
      /\ transcript \in [Meetings -> Seq(Meetings)]
      /\ main \in Mains /\ main.stream \in 0 .. Len(streams) /\ main.pump \in 0 .. Len(pumps)
      /\ session \in Objects
      /\ session.stream \in 0 .. Len(streams) /\ session.pump \in 0 .. Len(pumps)
      /\ streams \in Seq(Streams) /\ pumps \in Seq(Pumps)
      /\ \A p \in DOMAIN pumps :
           pumps[p].stream \in DOMAIN streams /\ pumps[p].spare \in 0 .. Len(streams)
      /\ status \in [Meetings -> Statuses]
      /\ Len(streams) \in Nat /\ DOMAIN streams = 1 .. Len(streams)
      /\ Len(pumps) \in Nat /\ DOMAIN pumps = 1 .. Len(pumps)
  BY TypedFacts DEF Typed
<1>1. main.next \in Meetings \cup {Nothing}
  BY <1>0 DEF Mains
<1>2. CASE CloseReturns
  <2>1. /\ streams' = Closed(main.stream)
        /\ \/ Proceed(main.next, session)
           \/ main' = [main EXCEPT !.pc = "draining"] /\ UNCHANGED session
        /\ UNCHANGED <<clientVars, faults, pumps, storeVars>>
    BY <1>2 DEF CloseReturns
  <2>2. /\ main' \in Mains /\ main'.stream \in 0 .. Len(streams) /\ main'.pump \in 0 .. Len(pumps)
        /\ session' \in Objects /\ session'.stream = session.stream
        /\ session'.pump = session.pump
    <3>1. CASE Proceed(main.next, session)
      <4>1. /\ main' \in Mains /\ main'.stream = 0 /\ main'.pump = 0
            /\ session' \in Objects /\ session'.stream = session.stream
            /\ session'.pump = session.pump
        <5>1. session \in Objects
          BY <1>0
        <5> QED BY <1>1, <3>1, <5>1, ProceedIsTyped DEF Proceed
      <4> QED BY <1>0, <4>1
    <3>2. CASE main' = [main EXCEPT !.pc = "draining"] /\ UNCHANGED session
      BY <1>0, <3>2 DEF Mains
    <3> QED BY <1>0, <2>1, <3>1, <3>2
  <2>3. streams' \in Seq(Streams) /\ Len(streams') = Len(streams) /\ DOMAIN streams' = DOMAIN streams
    BY <1>0, <2>1, ClosedStream
  <2> QED BY <1>0, <2>1, <2>2, <2>3 DEF clientVars, storeVars, Typed
<1>3. ASSUME NEW object \in Objects, object.stream = session.stream, object.pump = session.pump,
             IF main.next = Nothing
               THEN main' = Idle /\ session' = object
               ELSE /\ main' = [Idle EXCEPT !.pc = "starting", !.next = main.next]
                    /\ session' = [object EXCEPT !.call = main.next, !.paused = FALSE,
                                                 !.reconnecting = FALSE],
             status' \in [Meetings -> Statuses],
             UNCHANGED <<clientVars, faults, streams, transcript>>,
             pumps' \in Seq(Pumps), Len(pumps') = Len(pumps),
             \A p \in DOMAIN pumps : /\ pumps'[p].stream = pumps[p].stream
                                     /\ pumps'[p].spare = pumps[p].spare
      PROVE  Typed'
  <2>1. /\ main' \in Mains /\ main'.stream = 0 /\ main'.pump = 0
        /\ session' \in Objects
        /\ session'.stream = session.stream /\ session'.pump = session.pump
    BY <1>0, <1>1, <1>3, ProceedIsTyped
  <2>2. DOMAIN pumps' = DOMAIN pumps
    BY <1>0, <1>3, LenProperties
  <2>3. /\ pumps' \in Seq(Pumps) /\ status' \in [Meetings -> Statuses] /\ Len(pumps') = Len(pumps)
        /\ UNCHANGED <<socket, speaking, starts, chunks, faults, streams, transcript>>
        /\ \A p \in DOMAIN pumps :
             pumps'[p].stream = pumps[p].stream /\ pumps'[p].spare = pumps[p].spare
    BY <1>3 DEF clientVars
  <2>4. /\ socket' \in BOOLEAN /\ speaking' \in Meetings \cup {Nothing}
        /\ starts' \in 0 .. MaxStarts /\ chunks' \in 0 .. MaxAudio /\ faults' \in 0 .. MaxFaults
        /\ transcript' \in [Meetings -> Seq(Meetings)] /\ streams' \in Seq(Streams)
    BY <1>0, <2>3
  <2>5. /\ main' \in Mains /\ main'.stream \in 0 .. Len(streams') /\ main'.pump \in 0 .. Len(pumps')
        /\ session' \in Objects
        /\ session'.stream \in 0 .. Len(streams') /\ session'.pump \in 0 .. Len(pumps')
    BY <1>0, <2>1, <2>3
  <2>6. \A p \in DOMAIN pumps' :
          pumps'[p].stream \in DOMAIN streams' /\ pumps'[p].spare \in 0 .. Len(streams')
    BY <1>0, <2>2, <2>3
  <2> QED BY <2>3, <2>4, <2>5, <2>6 DEF Typed
<1>4. CASE CloseRaises
  <2>1. Proceed(main.next, session) /\ UNCHANGED <<clientVars, faults, streams, pumps, transcript>>
    BY <1>4 DEF CloseRaises
  <2>2. status' \in [Meetings -> Statuses]
    BY <1>0, <1>4, TableIsTyped DEF CloseRaises
  <2> QED BY <1>3, <2>1, <2>2 DEF Proceed, Typed
<1>5. CASE Drained
  <2>1. Proceed(main.next, session) /\ UNCHANGED <<clientVars, faults, streams, pumps, transcript>>
    BY <1>5 DEF Drained
  <2>2. status' \in [Meetings -> Statuses]
    BY <1>0, <1>5, TableIsTyped DEF Drained
  <2> QED BY <1>3, <2>1, <2>2 DEF Proceed, Typed
<1>6. CASE DrainTimesOut
  <2>1. /\ Proceed(main.next, AfterCancel(main.pump, session))
        /\ UNCHANGED <<clientVars, faults, streams, transcript>>
        /\ pumps' = Cancelled(main.pump) /\ main.pump \in DOMAIN pumps
    BY <1>0, <1>6 DEF DrainTimesOut
  <2>2. status' \in [Meetings -> Statuses]
    BY <1>0, <1>6, TableIsTyped DEF DrainTimesOut
  <2>3. /\ AfterCancel(main.pump, session) \in Objects
        /\ AfterCancel(main.pump, session).stream = session.stream
        /\ AfterCancel(main.pump, session).pump = session.pump
    BY <1>0, AfterCancelIsTyped
  <2>4. /\ pumps' \in Seq(Pumps) /\ Len(pumps') = Len(pumps)
        /\ \A p \in DOMAIN pumps : /\ pumps'[p].stream = pumps[p].stream
                                   /\ pumps'[p].spare = pumps[p].spare
    BY <1>0, <2>1, CancelledPump
  <2> QED BY <1>3, <2>1, <2>2, <2>3, <2>4 DEF Proceed, Typed
<1>7. CASE EngineStarts
  <2>1. /\ main.next \in Meetings
        /\ streams' = Append(streams, NewStream)
        /\ pumps' = Append(pumps, [pc |-> "fresh", stream |-> Len(streams) + 1,
                                   spare |-> 0, call |-> main.next, barren |-> 0])
        /\ session' = [session EXCEPT !.stream = Len(streams) + 1, !.pump = Len(pumps) + 1]
        /\ status' = [status EXCEPT ![main.next] = "RECORDING"]
        /\ main' = Idle
        /\ UNCHANGED <<clientVars, faults, transcript>>
    BY <1>0, <1>1, <1>7 DEF EngineStarts
  <2>2. streams' \in Seq(Streams) /\ Len(streams') = Len(streams) + 1
        /\ DOMAIN streams' = 1 .. Len(streams) + 1
    BY <1>0, <2>1, OpenedStream
  <2>3. [pc |-> "fresh", stream |-> Len(streams) + 1,
         spare |-> 0, call |-> main.next, barren |-> 0] \in Pumps
    BY <1>0, <2>1 DEF Pumps
  <2>4. /\ pumps' \in Seq(Pumps) /\ Len(pumps') = Len(pumps) + 1
        /\ DOMAIN pumps' = 1 .. Len(pumps) + 1
        /\ \A p \in DOMAIN pumps : pumps'[p] = pumps[p]
        /\ pumps'[Len(pumps) + 1].stream = Len(streams) + 1
        /\ pumps'[Len(pumps) + 1].spare = 0
    BY <1>0, <2>1, <2>3, AppendProperties, LenProperties
  <2>5. session' \in Objects /\ session'.stream = Len(streams) + 1 /\ session'.pump = Len(pumps) + 1
    <3>1. /\ session \in Objects /\ Len(streams) + 1 \in Nat /\ Len(pumps) + 1 \in Nat
          /\ session' = [session EXCEPT !.stream = Len(streams) + 1, !.pump = Len(pumps) + 1]
      BY <1>0, <2>1
    <3> QED BY <3>1 DEF Objects
  <2>6. main' \in Mains /\ main'.stream = 0 /\ main'.pump = 0
    BY <1>0, <2>1 DEF Idle, Mains
  <2>7. status' \in [Meetings -> Statuses]
    BY <1>0, <2>1 DEF Statuses
  <2>8. \A p \in DOMAIN pumps' :
          pumps'[p].stream \in DOMAIN streams' /\ pumps'[p].spare \in 0 .. Len(streams')
    <3> SUFFICES ASSUME NEW p \in DOMAIN pumps'
                 PROVE  pumps'[p].stream \in DOMAIN streams' /\ pumps'[p].spare \in 0 .. Len(streams')
      OBVIOUS
    <3>0. Len(streams) \in Nat /\ Len(pumps) \in Nat /\ DOMAIN pumps = 1 .. Len(pumps)
          /\ DOMAIN streams = 1 .. Len(streams)
      BY <1>0
    <3>1. CASE p \in DOMAIN pumps
      <4>1. pumps[p].stream \in DOMAIN streams /\ pumps[p].spare \in 0 .. Len(streams)
        BY <3>1 DEF Typed
      <4>2. DOMAIN streams \subseteq DOMAIN streams' /\ 0 .. Len(streams) \subseteq 0 .. Len(streams')
        BY <2>2, <3>0
      <4> QED BY <2>4, <3>1, <4>1, <4>2
    <3>2. CASE p = Len(pumps) + 1
      <4>1. Len(streams) + 1 \in DOMAIN streams' /\ 0 \in 0 .. Len(streams')
        BY <2>2, <3>0
      <4> QED BY <2>4, <3>2, <4>1
    <3>3. p \in DOMAIN pumps \/ p = Len(pumps) + 1
      BY <2>4, <3>0
    <3> QED BY <3>1, <3>2, <3>3
  <2>9. /\ main'.stream \in 0 .. Len(streams') /\ main'.pump \in 0 .. Len(pumps')
        /\ session'.stream \in 0 .. Len(streams') /\ session'.pump \in 0 .. Len(pumps')
    <3>1. Len(streams) \in Nat /\ Len(pumps) \in Nat
      BY <1>0
    <3> QED BY <2>2, <2>4, <2>5, <2>6, <3>1
  <2>10. /\ socket' \in BOOLEAN /\ speaking' \in Meetings \cup {Nothing}
         /\ starts' \in 0 .. MaxStarts /\ chunks' \in 0 .. MaxAudio /\ faults' \in 0 .. MaxFaults
         /\ transcript' \in [Meetings -> Seq(Meetings)]
    BY <2>1 DEF clientVars, Typed
  <2> QED BY <2>2, <2>4, <2>5, <2>6, <2>7, <2>8, <2>9, <2>10 DEF Typed
<1>8. ASSUME Shutdown, socket' \in BOOLEAN, faults' \in 0 .. MaxFaults,
             UNCHANGED <<speaking, starts, chunks, storeVars>>
      PROVE  Typed'
  <2>1. main' \in Mains /\ main'.stream = 0 /\ main'.pump = 0
    BY <1>8 DEF Shutdown, Idle, Mains
  <2>2. /\ session' \in Objects /\ session'.stream = 0 /\ session'.pump = 0
        /\ streams' \in Seq(Streams) /\ Len(streams') = Len(streams)
        /\ pumps' \in Seq(Pumps) /\ Len(pumps') = Len(pumps)
        /\ \A p \in DOMAIN pumps :
             pumps'[p].stream = pumps[p].stream /\ pumps'[p].spare = pumps[p].spare
    BY <1>8, ShutdownIsTyped
  <2>3. DOMAIN pumps' = DOMAIN pumps /\ DOMAIN streams' = DOMAIN streams
    BY <1>0, <2>2, LenProperties
  <2>4. /\ UNCHANGED <<speaking, starts, chunks, status, transcript>>
        /\ socket' \in BOOLEAN /\ faults' \in 0 .. MaxFaults
    BY <1>8 DEF storeVars
  <2>5. /\ socket' \in BOOLEAN /\ speaking' \in Meetings \cup {Nothing}
        /\ starts' \in 0 .. MaxStarts /\ chunks' \in 0 .. MaxAudio /\ faults' \in 0 .. MaxFaults
        /\ transcript' \in [Meetings -> Seq(Meetings)] /\ status' \in [Meetings -> Statuses]
    BY <1>0, <2>4
  <2>6. /\ main'.stream \in 0 .. Len(streams') /\ main'.pump \in 0 .. Len(pumps')
        /\ session'.stream \in 0 .. Len(streams') /\ session'.pump \in 0 .. Len(pumps')
    BY <1>0, <2>1, <2>2
  <2>7. \A p \in DOMAIN pumps' :
          pumps'[p].stream \in DOMAIN streams' /\ pumps'[p].spare \in 0 .. Len(streams')
    BY <1>0, <2>2, <2>3
  <2> QED BY <2>1, <2>2, <2>5, <2>6, <2>7 DEF Typed
<1>9. CASE EngineFails
  <2>1. Shutdown /\ socket' = FALSE /\ faults < MaxFaults /\ faults' = faults + 1
        /\ UNCHANGED <<speaking, starts, chunks, storeVars>>
    BY <1>9 DEF EngineFails, Fault
  <2>2. faults' \in 0 .. MaxFaults /\ socket' \in BOOLEAN
    <3>1. faults \in 0 .. MaxFaults
      BY DEF Typed
    <3>2. faults' \in 0 .. MaxFaults
      BY <2>1, <3>1, BoundsAssumption
    <3>3. socket' \in BOOLEAN
      BY <2>1, Zenon
    <3> QED BY <3>2, <3>3
  <2> QED BY <1>8, <2>1, <2>2
<1>10. CASE Leave
  BY <1>0, <1>8, <1>10 DEF Typed, Leave, clientVars
<1> QED BY <1>2, <1>4, <1>5, <1>6, <1>7, <1>9, <1>10 DEF Main

-----------------------------------------------------------------------------
(* The steps of a pump *)

Live(p) == pumps[p].pc # "done"

\* What every step of pump p leaves alone.
MovesOnly(p) ==
  /\ UNCHANGED <<speaking, starts, chunks, main>>
  /\ pumps' \in Seq(Pumps) /\ Len(pumps') = Len(pumps) /\ DOMAIN pumps' = DOMAIN pumps
  /\ \A q \in DOMAIN pumps : q # p => pumps'[q] = pumps[q]
  /\ pumps'[p].call = pumps[p].call
  /\ session' \in Objects
  /\ session'.call = session.call /\ session'.pump = session.pump

\* A step after which pump p reads the stream it read.
Stays(p) ==
  /\ pumps'[p].stream = pumps[p].stream /\ pumps'[p].spare = pumps[p].spare
  /\ session'.stream = session.stream

LEMMA SteppedPump ==
  ASSUME pumps \in Seq(Pumps), NEW p \in DOMAIN pumps, NEW r \in Pumps,
         pumps' = [pumps EXCEPT ![p] = r]
  PROVE  /\ pumps' \in Seq(Pumps) /\ Len(pumps') = Len(pumps) /\ DOMAIN pumps' = DOMAIN pumps
         /\ pumps'[p] = r
         /\ \A q \in DOMAIN pumps : q # p => pumps'[q] = pumps[q]
BY MovedPump

LEMMA PumpOf ==
  ASSUME Typed, NEW p \in DOMAIN pumps
  PROVE  /\ pumps[p] \in Pumps /\ pumps \in Seq(Pumps) /\ session \in Objects
         /\ streams \in Seq(Streams)
         /\ pumps[p].stream \in DOMAIN streams /\ pumps[p].stream \in Nat
         /\ pumps[p].spare \in 0 .. Len(streams)
         /\ Len(streams) \in Nat /\ DOMAIN streams = 1 .. Len(streams)
<1>1. /\ pumps \in Seq(Pumps) /\ session \in Objects /\ streams \in Seq(Streams)
      /\ pumps[p].stream \in DOMAIN streams /\ pumps[p].spare \in 0 .. Len(streams)
  BY DEF Typed
<1>2. /\ pumps[p] \in Pumps /\ Len(streams) \in Nat /\ DOMAIN streams = 1 .. Len(streams)
  BY TypedFacts
<1> QED BY <1>1, <1>2

LEMMA BeginsDoes ==
  ASSUME Typed, NEW p \in DOMAIN pumps, Begins(p)
  PROVE  /\ MovesOnly(p) /\ Stays(p) /\ Live(p)
         /\ UNCHANGED <<socket, faults, streams, status, transcript>>
         /\ session'.failures = 0
         /\ pumps[p].pc = "fresh" /\ pumps'[p].pc \in {"reading", "done"}
         /\ pumps'[p].barren = pumps[p].barren
<1> DEFINE r == [pumps[p] EXCEPT !.pc = Again(pumps[p].stream)]
<1>1. /\ pumps' = [pumps EXCEPT ![p] = r]
      /\ session' = [session EXCEPT !.failures = 0]
      /\ UNCHANGED <<clientVars, faults, main, streams, storeVars>> /\ pumps[p].pc = "fresh"
  BY DEF Begins, Goto, At
<1>2. /\ r \in Pumps /\ r.pc \in {"reading", "done"} /\ r.stream = pumps[p].stream
      /\ r.spare = pumps[p].spare /\ r.call = pumps[p].call /\ r.barren = pumps[p].barren
  BY PumpOf DEF Pumps, Again
<1>3. /\ session' \in Objects /\ session'.failures = 0 /\ session'.call = session.call
      /\ session'.stream = session.stream /\ session'.pump = session.pump
  <2>1. session \in Objects /\ session' = [session EXCEPT !.failures = 0]
    BY <1>1, PumpOf
  <2>2. 0 \in 0 .. MaxConsecutive
    BY BoundsAssumption
  <2> QED BY <2>1, <2>2 DEF Objects
<1> HIDE DEF r
<1>4. /\ pumps' \in Seq(Pumps) /\ Len(pumps') = Len(pumps) /\ DOMAIN pumps' = DOMAIN pumps
      /\ pumps'[p] = r
      /\ \A q \in DOMAIN pumps : q # p => pumps'[q] = pumps[q]
  BY <1>1, <1>2, PumpOf, SteppedPump
<1> QED BY <1>1, <1>2, <1>3, <1>4 DEF MovesOnly, Stays, Live, clientVars, storeVars

LEMMA HearsDoes ==
  ASSUME Typed, NEW p \in DOMAIN pumps, Hears(p)
  PROVE  LET s == pumps[p].stream IN
         /\ MovesOnly(p) /\ Stays(p) /\ Live(p)
         /\ UNCHANGED <<socket, faults, status>>
         /\ session'.failures = 0
         /\ pumps[p].pc = "reading" /\ pumps'[p].pc \in {"reading", "done"}
         /\ pumps'[p].barren = 0
         /\ ~streams[s].dead /\ streams[s].due # <<>>
         /\ streams' \in Seq(Streams) /\ Len(streams') = Len(streams)
         /\ DOMAIN streams' = DOMAIN streams
         /\ \A k \in DOMAIN streams : k # s => streams'[k] = streams[k]
         /\ streams'[s].due = Tail(streams[s].due)
         /\ streams'[s].dead = streams[s].dead /\ streams'[s].closing = streams[s].closing
         /\ transcript' = [transcript EXCEPT ![pumps[p].call] = Append(@, Head(streams[s].due))]
<1> DEFINE s == pumps[p].stream
           r == [pumps[p] EXCEPT !.pc = IF socket THEN Again(s) ELSE "done", !.barren = 0]
           t == [streams[s] EXCEPT !.due = Tail(@)]
<1>1. /\ pumps' = [pumps EXCEPT ![p] = r]
      /\ session' = [session EXCEPT !.failures = 0]
      /\ UNCHANGED <<clientVars, faults, main, status>> /\ pumps[p].pc = "reading"
      /\ ~streams[s].dead /\ streams[s].due # <<>>
      /\ streams' = [streams EXCEPT ![s] = t]
      /\ transcript' = [transcript EXCEPT ![pumps[p].call] = Append(@, Head(streams[s].due))]
  BY DEF Hears, Forgiven, At
<1>2. /\ r \in Pumps /\ r.pc \in {"reading", "done"} /\ r.stream = pumps[p].stream
      /\ r.spare = pumps[p].spare /\ r.call = pumps[p].call /\ r.barren = 0
  BY PumpOf DEF Pumps, Again
<1>3. /\ session' \in Objects /\ session'.failures = 0 /\ session'.call = session.call
      /\ session'.stream = session.stream /\ session'.pump = session.pump
  <2>1. session \in Objects /\ session' = [session EXCEPT !.failures = 0]
    BY <1>1, PumpOf
  <2>2. 0 \in 0 .. MaxConsecutive
    BY BoundsAssumption
  <2> QED BY <2>1, <2>2 DEF Objects
<1>4. streams[s] \in Streams /\ s \in DOMAIN streams
  BY PumpOf, ElementOfSeq
<1>5. Tail(streams[s].due) \in Seq(Meetings)
  BY <1>1, <1>4, HeadTailProperties DEF Streams
<1>6. /\ t \in Streams /\ t.due = Tail(streams[s].due)
      /\ t.dead = streams[s].dead /\ t.closing = streams[s].closing
  BY <1>4, <1>5 DEF Streams
<1> HIDE DEF r, t
<1>7. /\ pumps' \in Seq(Pumps) /\ Len(pumps') = Len(pumps) /\ DOMAIN pumps' = DOMAIN pumps
      /\ pumps'[p] = r
      /\ \A q \in DOMAIN pumps : q # p => pumps'[q] = pumps[q]
  BY <1>1, <1>2, PumpOf, SteppedPump
<1>8. /\ streams' \in Seq(Streams) /\ Len(streams') = Len(streams)
      /\ DOMAIN streams' = DOMAIN streams /\ streams'[s] = t
      /\ \A k \in DOMAIN streams : k # s => streams'[k] = streams[k]
  BY <1>1, <1>4, <1>6, PumpOf, ExceptSeq, LenProperties
<1> HIDE DEF s
<1> QED BY <1>1, <1>2, <1>3, <1>6, <1>7, <1>8 DEF MovesOnly, Stays, Live, clientVars, s

LEMMA ResetsDoes ==
  ASSUME Typed, NEW p \in DOMAIN pumps, Resets(p)
  PROVE  /\ MovesOnly(p) /\ Stays(p) /\ Live(p)
         /\ UNCHANGED <<socket, streams, status, transcript>>
         /\ faults' \in 0 .. MaxFaults
         /\ session'.failures = session.failures + 1
         /\ pumps[p].pc = "reading" /\ pumps'[p].pc \in {"backoff", "done"}
         /\ pumps'[p].barren = pumps[p].barren + 1
<1> DEFINE r == [pumps[p] EXCEPT !.pc = IF socket THEN "backoff" ELSE "done", !.barren = @ + 1]
<1>1. /\ pumps' = [pumps EXCEPT ![p] = r]
      /\ session' = [session EXCEPT !.failures = @ + 1, !.reconnecting = socket]
      /\ UNCHANGED <<clientVars, main, streams, storeVars>> /\ pumps[p].pc = "reading"
      /\ ~(session.failures >= MaxConsecutive)
      /\ faults' = faults \/ (faults < MaxFaults /\ faults' = faults + 1)
  BY DEF Resets, At, Exhausted, Fault
<1>2. /\ r \in Pumps /\ r.pc \in {"backoff", "done"} /\ r.stream = pumps[p].stream
      /\ r.spare = pumps[p].spare /\ r.call = pumps[p].call /\ r.barren = pumps[p].barren + 1
  <2>1. pumps[p] \in Pumps /\ pumps[p].barren + 1 \in Nat
    BY PumpOf DEF Pumps
  <2> QED BY <2>1 DEF Pumps
<1>3. /\ session' \in Objects /\ session'.failures = session.failures + 1
      /\ session'.call = session.call
      /\ session'.stream = session.stream /\ session'.pump = session.pump
  <2>1. session \in Objects /\ socket \in BOOLEAN
    BY DEF Typed
  <2>2. session.failures + 1 \in 0 .. MaxConsecutive
    BY <1>1, <2>1, BoundsAssumption DEF Objects
  <2> QED BY <1>1, <2>1, <2>2 DEF Objects
<1>4. faults' \in 0 .. MaxFaults
  <2>1. faults \in 0 .. MaxFaults
    BY DEF Typed
  <2> QED BY <1>1, <2>1, BoundsAssumption
<1> HIDE DEF r
<1>5. /\ pumps' \in Seq(Pumps) /\ Len(pumps') = Len(pumps) /\ DOMAIN pumps' = DOMAIN pumps
      /\ pumps'[p] = r
      /\ \A q \in DOMAIN pumps : q # p => pumps'[q] = pumps[q]
  BY <1>1, <1>2, PumpOf, SteppedPump
<1> QED BY <1>1, <1>2, <1>3, <1>4, <1>5 DEF MovesOnly, Stays, Live, clientVars, storeVars

LEMMA FailsMeetingDoes ==
  ASSUME Typed, NEW p \in DOMAIN pumps, FailsMeeting(p)
  PROVE  /\ MovesOnly(p) /\ Stays(p) /\ Live(p)
         /\ UNCHANGED <<streams, transcript>>
         /\ faults' \in 0 .. MaxFaults /\ socket' = FALSE
         /\ status' = Failed(session.call)
         /\ session'.failures = session.failures /\ session.failures >= MaxConsecutive
         /\ pumps[p].pc = "reading" /\ pumps'[p].pc = "done"
         /\ pumps'[p].barren = pumps[p].barren + 1
<1> DEFINE r == [pumps[p] EXCEPT !.pc = "done", !.barren = @ + 1]
<1>1. /\ pumps' = [pumps EXCEPT ![p] = r]
      /\ session' = [session EXCEPT !.reconnecting = FALSE]
      /\ UNCHANGED <<speaking, starts, chunks, main, streams, transcript>>
      /\ pumps[p].pc = "reading" /\ session.failures >= MaxConsecutive
      /\ status' = Failed(session.call) /\ socket' = FALSE
      /\ faults' = faults \/ (faults < MaxFaults /\ faults' = faults + 1)
  BY DEF FailsMeeting, At, Exhausted, Fault
<1>2. /\ r \in Pumps /\ r.pc = "done" /\ r.stream = pumps[p].stream
      /\ r.spare = pumps[p].spare /\ r.call = pumps[p].call /\ r.barren = pumps[p].barren + 1
  <2>1. pumps[p] \in Pumps /\ pumps[p].barren + 1 \in Nat
    BY PumpOf DEF Pumps
  <2> QED BY <2>1 DEF Pumps
<1>3. /\ session' \in Objects /\ session'.failures = session.failures
      /\ session'.call = session.call
      /\ session'.stream = session.stream /\ session'.pump = session.pump
  BY <1>1, PumpOf DEF Objects
<1>4. faults' \in 0 .. MaxFaults
  <2>1. faults \in 0 .. MaxFaults
    BY DEF Typed
  <2> QED BY <1>1, <2>1, BoundsAssumption
<1> HIDE DEF r
<1>5. /\ pumps' \in Seq(Pumps) /\ Len(pumps') = Len(pumps) /\ DOMAIN pumps' = DOMAIN pumps
      /\ pumps'[p] = r
      /\ \A q \in DOMAIN pumps : q # p => pumps'[q] = pumps[q]
  BY <1>1, <1>2, PumpOf, SteppedPump
<1> QED BY <1>1, <1>2, <1>3, <1>4, <1>5 DEF MovesOnly, Stays, Live

\* RestartFails and GivesUp: back to the old stream, or out.
LEMMA ReturnsDoes ==
  ASSUME Typed, NEW p \in DOMAIN pumps, RestartFails(p) \/ GivesUp(p)
  PROVE  /\ MovesOnly(p) /\ Stays(p) /\ Live(p)
         /\ UNCHANGED <<socket, streams, status, transcript>>
         /\ faults' \in 0 .. MaxFaults
         /\ session'.failures = session.failures
         /\ pumps[p].pc \in {"reading", "backoff"} /\ pumps'[p].pc \in {"reading", "done"}
         /\ pumps'[p].barren = pumps[p].barren
<1>1. /\ \/ pumps' = [pumps EXCEPT ![p].pc = Again(pumps[p].stream)]
         \/ pumps' = [pumps EXCEPT ![p].pc = "done"]
      /\ \/ session' = [session EXCEPT !.reconnecting = FALSE]
         \/ session' = AfterCancel(p, session)
      /\ UNCHANGED <<clientVars, main, streams, storeVars>>
      /\ pumps[p].pc \in {"reading", "backoff"}
      /\ faults < MaxFaults /\ faults' = faults + 1
  BY DEF RestartFails, GivesUp, Goto, At, Fault
<1>2. PICK c \in {"reading", "done"} : pumps' = [pumps EXCEPT ![p].pc = c]
  BY <1>1 DEF Again
<1> DEFINE r == [pumps[p] EXCEPT !.pc = c]
<1>3. /\ r \in Pumps /\ r.pc = c /\ r.stream = pumps[p].stream
      /\ r.spare = pumps[p].spare /\ r.call = pumps[p].call /\ r.barren = pumps[p].barren
  BY PumpOf DEF Pumps
<1>4. pumps' = [pumps EXCEPT ![p] = r]
  BY <1>2
<1>5. /\ session' \in Objects /\ session'.failures = session.failures
      /\ session'.call = session.call
      /\ session'.stream = session.stream /\ session'.pump = session.pump
  BY <1>1, PumpOf DEF Objects, AfterCancel
<1>6. faults' \in 0 .. MaxFaults
  <2>1. faults \in 0 .. MaxFaults
    BY DEF Typed
  <2> QED BY <1>1, <2>1, BoundsAssumption
<1> HIDE DEF r
<1>7. /\ pumps' \in Seq(Pumps) /\ Len(pumps') = Len(pumps) /\ DOMAIN pumps' = DOMAIN pumps
      /\ pumps'[p] = r
      /\ \A q \in DOMAIN pumps : q # p => pumps'[q] = pumps[q]
  BY <1>3, <1>4, PumpOf, SteppedPump
<1> QED BY <1>1, <1>3, <1>5, <1>6, <1>7 DEF MovesOnly, Stays, Live, clientVars, storeVars

LEMMA RestartsDoes ==
  ASSUME Typed, NEW p \in DOMAIN pumps, Restarts(p)
  PROVE  LET old == pumps[p].stream
             new == Len(streams) + 1
         IN
         /\ MovesOnly(p) /\ Live(p)
         /\ UNCHANGED <<socket, faults, status, transcript>>
         /\ session'.failures = session.failures
         /\ pumps[p].pc = "backoff" /\ pumps'[p].barren = pumps[p].barren
         /\ streams' \in Seq(Streams) /\ Len(streams') = new /\ DOMAIN streams' = 1 .. new
         /\ \A k \in DOMAIN streams :
              /\ streams'[k].due = streams[k].due /\ streams'[k].dead = streams[k].dead
              /\ streams'[k].closing = (streams[k].closing \/ k = old)
         /\ streams'[new] = NewStream
         /\ \/ /\ ~streams[old].closing
               /\ pumps'[p].pc = "swapping" /\ pumps'[p].stream = old /\ pumps'[p].spare = new
               /\ session'.stream = session.stream
            \/ /\ pumps'[p].pc = "reading" /\ pumps'[p].stream = new /\ pumps'[p].spare = 0
               /\ session'.stream = new
<1> DEFINE old == pumps[p].stream
           new == Len(streams) + 1
           r == [pumps[p] EXCEPT !.pc = "swapping", !.spare = new]
           q == [pumps[p] EXCEPT !.pc = "reading", !.stream = new, !.spare = 0]
<1>1. /\ pumps[p].pc = "backoff"
      /\ streams' = Append(Closing(old), NewStream)
      /\ \/ /\ ~streams[old].closing
            /\ pumps' = [pumps EXCEPT ![p] = r] /\ session' = session
         \/ pumps' = [pumps EXCEPT ![p] = q] /\ session' = Installed(new)
      /\ UNCHANGED <<clientVars, faults, main, storeVars>>
  BY DEF Restarts, At, Open, Reads
<1>2. /\ pumps[p] \in Pumps /\ new \in Nat /\ old \in DOMAIN streams /\ old \in Nat
      /\ session \in Objects /\ streams \in Seq(Streams) /\ Len(streams) \in Nat
      /\ DOMAIN streams = 1 .. Len(streams)
  BY PumpOf
<1>3. /\ r \in Pumps /\ r.pc = "swapping" /\ r.stream = old /\ r.spare = new
      /\ r.call = pumps[p].call /\ r.barren = pumps[p].barren
      /\ q \in Pumps /\ q.pc = "reading" /\ q.stream = new /\ q.spare = 0
      /\ q.call = pumps[p].call /\ q.barren = pumps[p].barren
  <2> HIDE DEF new
  <2> QED BY <1>2 DEF Pumps
<1>4. /\ streams' \in Seq(Streams) /\ Len(streams') = new /\ DOMAIN streams' = 1 .. new
      /\ \A k \in DOMAIN streams :
           /\ streams'[k].due = streams[k].due /\ streams'[k].dead = streams[k].dead
           /\ streams'[k].closing = (streams[k].closing \/ k = old)
      /\ streams'[new] = NewStream
  <2>1. /\ Closing(old) \in Seq(Streams) /\ Len(Closing(old)) = Len(streams)
        /\ \A k \in 1 .. Len(streams) :
             /\ Closing(old)[k].due = streams[k].due /\ Closing(old)[k].dead = streams[k].dead
             /\ Closing(old)[k].closing = (streams[k].closing \/ k = old)
    <3>1. streams \in Seq(Streams) /\ old \in Nat
      BY <1>2
    <3> HIDE DEF old, new, r, q
    <3> QED BY <3>1, ClosedStream
  <2>2. /\ streams' \in Seq(Streams) /\ Len(streams') = new /\ DOMAIN streams' = 1 .. new
        /\ \A k \in 1 .. Len(streams) : streams'[k] = Closing(old)[k]
        /\ streams'[new] = NewStream
    BY <1>1, <2>1, OpenedStream
  <2> QED BY <1>2, <2>1, <2>2
<1>5. /\ Installed(new) \in Objects
      /\ Installed(new).stream = new /\ Installed(new).pump = session.pump
      /\ Installed(new).call = session.call /\ Installed(new).failures = session.failures
  BY <1>2, InstalledStream
<1> HIDE DEF r, q
<1>6. /\ pumps' \in Seq(Pumps) /\ Len(pumps') = Len(pumps) /\ DOMAIN pumps' = DOMAIN pumps
      /\ pumps'[p] = r \/ pumps'[p] = q
      /\ \A x \in DOMAIN pumps : x # p => pumps'[x] = pumps[x]
  BY <1>1, <1>3, PumpOf, SteppedPump
<1>7. MovesOnly(p)
  <2>1. /\ session' \in Objects /\ session'.call = session.call /\ session'.pump = session.pump
    BY <1>1, <1>2, <1>5
  <2>2. UNCHANGED <<speaking, starts, chunks, main>>
    BY <1>1 DEF clientVars
  <2> QED BY <1>3, <1>6, <2>1, <2>2 DEF MovesOnly
<1>8. \/ /\ ~streams[old].closing
         /\ pumps'[p].pc = "swapping" /\ pumps'[p].stream = old /\ pumps'[p].spare = new
         /\ session'.stream = session.stream
      \/ /\ pumps'[p].pc = "reading" /\ pumps'[p].stream = new /\ pumps'[p].spare = 0
         /\ session'.stream = new
  <2>1. CASE ~streams[old].closing /\ pumps' = [pumps EXCEPT ![p] = r] /\ session' = session
    <3>1. pumps'[p] = r
      BY <1>3, <2>1, PumpOf, SteppedPump
    <3> QED BY <1>3, <2>1, <3>1
  <2>2. CASE pumps' = [pumps EXCEPT ![p] = q] /\ session' = Installed(new)
    <3>1. pumps'[p] = q
      BY <1>3, <2>2, PumpOf, SteppedPump
    <3> QED BY <1>3, <1>5, <2>2, <3>1
  <2> QED BY <1>1, <2>1, <2>2
<1>9. session'.failures = session.failures /\ pumps'[p].barren = pumps[p].barren
  BY <1>1, <1>3, <1>5, <1>6
<1> HIDE DEF old, new
<1>10. UNCHANGED <<socket, faults, status, transcript>>
  BY <1>1 DEF clientVars, storeVars
<1> QED BY <1>1, <1>4, <1>7, <1>8, <1>9, <1>10 DEF Live, old, new

LEMMA SwapsDoes ==
  ASSUME Typed, NEW p \in DOMAIN pumps, pumps[p].spare # 0, Swaps(p)
  PROVE  LET old == pumps[p].stream IN
         /\ MovesOnly(p) /\ Live(p)
         /\ UNCHANGED <<socket, faults, status, transcript>>
         /\ session'.failures = session.failures
         /\ pumps[p].pc = "swapping" /\ pumps'[p].barren = pumps[p].barren
         /\ streams' \in Seq(Streams) /\ Len(streams') = Len(streams)
         /\ DOMAIN streams' = DOMAIN streams
         /\ \A k \in DOMAIN streams :
              /\ streams'[k].due = streams[k].due
              /\ streams'[k].dead = (streams[k].dead \/ k = old)
              /\ streams'[k].closing = (streams[k].closing \/ k = old)
         /\ pumps[p].spare \in DOMAIN streams
         /\ pumps'[p].pc = "reading" /\ pumps'[p].stream = pumps[p].spare /\ pumps'[p].spare = 0
         /\ session'.stream = pumps[p].spare
<1> DEFINE old == pumps[p].stream
           new == pumps[p].spare
           q == [pumps[p] EXCEPT !.pc = "reading", !.stream = new, !.spare = 0]
<1>1. /\ pumps[p].pc = "swapping"
      /\ streams' = Closed(old)
      /\ pumps' = [pumps EXCEPT ![p] = q] /\ session' = Installed(new)
      /\ UNCHANGED <<clientVars, faults, main, storeVars>>
  BY DEF Swaps, At, Reads
<1>2. /\ pumps[p] \in Pumps /\ new \in Nat /\ old \in DOMAIN streams /\ old \in Nat
      /\ session \in Objects /\ streams \in Seq(Streams) /\ Len(streams) \in Nat
      /\ DOMAIN streams = 1 .. Len(streams) /\ new \in DOMAIN streams
  BY PumpOf
<1>3. /\ q \in Pumps /\ q.pc = "reading" /\ q.stream = new /\ q.spare = 0
      /\ q.call = pumps[p].call /\ q.barren = pumps[p].barren
  <2> HIDE DEF new
  <2> QED BY <1>2 DEF Pumps
<1>4. /\ streams' \in Seq(Streams) /\ Len(streams') = Len(streams)
      /\ DOMAIN streams' = DOMAIN streams
      /\ \A k \in DOMAIN streams :
           /\ streams'[k].due = streams[k].due
           /\ streams'[k].dead = (streams[k].dead \/ k = old)
           /\ streams'[k].closing = (streams[k].closing \/ k = old)
  BY <1>1, <1>2, ClosedStream
<1>5. /\ session' \in Objects
      /\ session'.stream = new /\ session'.pump = session.pump
      /\ session'.call = session.call /\ session'.failures = session.failures
  BY <1>1, <1>2, InstalledStream
<1> HIDE DEF q
<1>6. /\ pumps' \in Seq(Pumps) /\ Len(pumps') = Len(pumps) /\ DOMAIN pumps' = DOMAIN pumps
      /\ pumps'[p] = q
      /\ \A x \in DOMAIN pumps : x # p => pumps'[x] = pumps[x]
  BY <1>1, <1>3, PumpOf, SteppedPump
<1>7. UNCHANGED <<speaking, starts, chunks, main>> /\ UNCHANGED <<socket, faults, status, transcript>>
  BY <1>1 DEF clientVars, storeVars
<1>8. MovesOnly(p)
  BY <1>3, <1>5, <1>6, <1>7 DEF MovesOnly
<1> QED BY <1>1, <1>2, <1>3, <1>4, <1>5, <1>6, <1>7, <1>8 DEF Live

LEMMA MovesTyped ==
  ASSUME Typed, NEW p \in DOMAIN pumps, MovesOnly(p),
         streams' \in Seq(Streams), Len(streams') >= Len(streams),
         pumps'[p].stream \in DOMAIN streams', pumps'[p].spare \in 0 .. Len(streams'),
         session'.stream \in 0 .. Len(streams'),
         socket' \in BOOLEAN, faults' \in 0 .. MaxFaults,
         status' \in [Meetings -> Statuses], transcript' \in [Meetings -> Seq(Meetings)]
  PROVE  Typed'
<1>1. /\ UNCHANGED <<speaking, starts, chunks, main>>
      /\ pumps' \in Seq(Pumps) /\ Len(pumps') = Len(pumps) /\ DOMAIN pumps' = DOMAIN pumps
      /\ \A q \in DOMAIN pumps : q # p => pumps'[q] = pumps[q]
      /\ session' \in Objects /\ session'.pump = session.pump
  BY DEF MovesOnly
<1>2. /\ Len(streams') \in Nat /\ DOMAIN streams' = 1 .. Len(streams')
      /\ Len(streams) \in Nat /\ DOMAIN streams = 1 .. Len(streams)
  BY PumpOf, LenProperties
<1>3. \A q \in DOMAIN pumps' :
        pumps'[q].stream \in DOMAIN streams' /\ pumps'[q].spare \in 0 .. Len(streams')
  <2> SUFFICES ASSUME NEW q \in DOMAIN pumps
               PROVE  pumps'[q].stream \in DOMAIN streams' /\ pumps'[q].spare \in 0 .. Len(streams')
    BY <1>1
  <2>1. pumps[q].stream \in DOMAIN streams /\ pumps[q].spare \in 0 .. Len(streams)
    BY DEF Typed
  <2>2. CASE q = p
    BY <2>2
  <2>3. CASE q # p
    <3>1. pumps'[q] = pumps[q]
      BY <1>1, <2>3
    <3> QED BY <1>2, <2>1, <3>1
  <2> QED BY <2>2, <2>3
<1>4. /\ speaking' \in Meetings \cup {Nothing} /\ starts' \in 0 .. MaxStarts
      /\ chunks' \in 0 .. MaxAudio
      /\ main' \in Mains /\ main'.pump \in 0 .. Len(pumps')
      /\ session'.pump \in 0 .. Len(pumps')
  BY <1>1 DEF Typed
<1>5. main'.stream \in 0 .. Len(streams')
  <2>1. main.stream \in 0 .. Len(streams) /\ main' = main
    BY <1>1 DEF Typed
  <2> QED BY <1>2, <2>1
<1> QED BY <1>1, <1>3, <1>4, <1>5 DEF Typed

\* A pump that swaps has a stream to swap to.
SwapsReady == \A p \in DOMAIN pumps : pumps[p].pc = "swapping" => pumps[p].spare # 0

LEMMA PumpIsTyped ==
  ASSUME Typed, SwapsReady, NEW p \in DOMAIN pumps, Pump(p)
  PROVE  Typed' /\ SwapsReady'
<1>1. /\ pumps[p].stream \in DOMAIN streams /\ pumps[p].spare \in 0 .. Len(streams)
      /\ Len(streams) \in Nat /\ DOMAIN streams = 1 .. Len(streams)
      /\ pumps \in Seq(Pumps) /\ streams \in Seq(Streams)
  BY PumpOf
<1>2. /\ socket \in BOOLEAN /\ faults \in 0 .. MaxFaults
      /\ status \in [Meetings -> Statuses] /\ transcript \in [Meetings -> Seq(Meetings)]
      /\ session.stream \in 0 .. Len(streams)
  BY DEF Typed
<1>3. ASSUME MovesOnly(p), Stays(p), streams' \in Seq(Streams), Len(streams') = Len(streams),
             DOMAIN streams' = DOMAIN streams,
             pumps'[p].pc # "swapping", socket' \in BOOLEAN,
             faults' \in 0 .. MaxFaults, status' \in [Meetings -> Statuses],
             transcript' \in [Meetings -> Seq(Meetings)]
      PROVE  Typed' /\ SwapsReady'
  <2>1. /\ pumps'[p].stream \in DOMAIN streams' /\ pumps'[p].spare \in 0 .. Len(streams')
        /\ session'.stream \in 0 .. Len(streams') /\ Len(streams') >= Len(streams)
    BY <1>1, <1>2, <1>3 DEF Stays
  <2>2. Typed'
    BY <1>3, <2>1, MovesTyped
  <2>3. SwapsReady'
    BY <1>3 DEF MovesOnly, SwapsReady
  <2> QED BY <2>2, <2>3
<1>4. CASE Begins(p)
  <2>1. MovesOnly(p) /\ Stays(p) /\ pumps'[p].pc \in {"reading", "done"}
        /\ UNCHANGED <<socket, faults, streams, status, transcript>>
    BY <1>4, BeginsDoes
  <2> QED BY <1>1, <1>2, <1>3, <2>1
<1>5. CASE Hears(p)
  <2> DEFINE s == pumps[p].stream
  <2>1. /\ MovesOnly(p) /\ Stays(p) /\ pumps'[p].pc \in {"reading", "done"}
        /\ UNCHANGED <<socket, faults, status>>
        /\ streams' \in Seq(Streams) /\ Len(streams') = Len(streams)
        /\ DOMAIN streams' = DOMAIN streams /\ streams[s].due # <<>>
        /\ transcript' = [transcript EXCEPT ![pumps[p].call] = Append(@, Head(streams[s].due))]
    BY <1>5, HearsDoes
  <2>2. streams[s].due \in Seq(Meetings)
    <3>1. streams[s] \in Streams
      BY <1>1, ElementOfSeq
    <3> QED BY <3>1 DEF Streams
  <2>3. Head(streams[s].due) \in Meetings
    BY <2>1, <2>2, HeadTailProperties
  <2> HIDE DEF s
  <2>4. transcript' \in [Meetings -> Seq(Meetings)]
    <3>1. \A m \in Meetings : Append(transcript[m], Head(streams[s].due)) \in Seq(Meetings)
      BY <1>2, <2>3, AppendProperties
    <3> QED BY <1>2, <2>1, <3>1
  <2> QED BY <1>1, <1>2, <1>3, <2>1, <2>4
<1>6. CASE Resets(p)
  <2>1. MovesOnly(p) /\ Stays(p) /\ pumps'[p].pc \in {"backoff", "done"}
        /\ faults' \in 0 .. MaxFaults /\ UNCHANGED <<socket, streams, status, transcript>>
    BY <1>6, ResetsDoes
  <2> QED BY <1>1, <1>2, <1>3, <2>1
<1>7. CASE FailsMeeting(p)
  <2>1. MovesOnly(p) /\ Stays(p) /\ pumps'[p].pc = "done"
        /\ faults' \in 0 .. MaxFaults /\ UNCHANGED <<streams, transcript>>
        /\ socket' = FALSE /\ status' = Failed(session.call)
    BY <1>7, FailsMeetingDoes
  <2>2. status' \in [Meetings -> Statuses]
    BY <1>2, <2>1, TableIsTyped
  <2>3. socket' \in BOOLEAN
    BY <2>1, Zenon
  <2> QED BY <1>1, <1>2, <1>3, <2>1, <2>2, <2>3
<1>8. CASE RestartFails(p) \/ GivesUp(p)
  <2>1. MovesOnly(p) /\ Stays(p) /\ pumps'[p].pc \in {"reading", "done"}
        /\ faults' \in 0 .. MaxFaults /\ UNCHANGED <<socket, streams, status, transcript>>
    BY <1>8, ReturnsDoes
  <2> QED BY <1>1, <1>2, <1>3, <2>1
<1>9. CASE Restarts(p)
  <2> DEFINE new == Len(streams) + 1
  <2>1. /\ MovesOnly(p) /\ UNCHANGED <<socket, faults, status, transcript>>
        /\ streams' \in Seq(Streams) /\ Len(streams') = new /\ DOMAIN streams' = 1 .. new
        /\ \/ /\ pumps'[p].pc = "swapping" /\ pumps'[p].stream = pumps[p].stream
              /\ pumps'[p].spare = new /\ session'.stream = session.stream
           \/ /\ pumps'[p].pc = "reading" /\ pumps'[p].stream = new /\ pumps'[p].spare = 0
              /\ session'.stream = new
    BY <1>9, RestartsDoes
  <2>2. /\ pumps'[p].stream \in DOMAIN streams' /\ pumps'[p].spare \in 0 .. Len(streams')
        /\ session'.stream \in 0 .. Len(streams') /\ Len(streams') >= Len(streams)
        /\ pumps'[p].pc = "swapping" => pumps'[p].spare # 0
    BY <1>1, <1>2, <2>1
  <2>3. Typed'
    BY <1>2, <2>1, <2>2, MovesTyped
  <2>4. SwapsReady'
    BY <2>1, <2>2 DEF MovesOnly, SwapsReady
  <2> QED BY <2>3, <2>4
<1>10. CASE Swaps(p)
  <2>0. pumps[p].spare # 0
    BY <1>10 DEF SwapsReady, Swaps, At
  <2>1. /\ MovesOnly(p) /\ UNCHANGED <<socket, faults, status, transcript>>
        /\ streams' \in Seq(Streams) /\ Len(streams') = Len(streams)
        /\ DOMAIN streams' = DOMAIN streams
        /\ pumps[p].spare \in DOMAIN streams
        /\ pumps'[p].pc = "reading" /\ pumps'[p].stream = pumps[p].spare /\ pumps'[p].spare = 0
        /\ session'.stream = pumps[p].spare
    BY <1>10, <2>0, SwapsDoes
  <2>2. /\ pumps'[p].stream \in DOMAIN streams' /\ pumps'[p].spare \in 0 .. Len(streams')
        /\ session'.stream \in 0 .. Len(streams') /\ Len(streams') >= Len(streams)
    BY <1>1, <2>1
  <2>3. Typed'
    BY <1>2, <2>1, <2>2, MovesTyped
  <2>4. SwapsReady'
    BY <2>1 DEF MovesOnly, SwapsReady
  <2> QED BY <2>3, <2>4
<1> QED BY <1>4, <1>5, <1>6, <1>7, <1>8, <1>9, <1>10 DEF Pump

-----------------------------------------------------------------------------
(* The main task is in order *)

\* What the main task is about to do is what its last START or END asked for.
MainInOrder ==
  /\ main.pc = "starting" => main.next # Nothing /\ session.call = main.next
  /\ main.pc = "closing" => main.stream # 0
  /\ main.pc = "draining" => main.pump # 0
  /\ main.pc \in {"closing", "draining", "starting"} => main.next = speaking

\* Only the pump started last belongs to the session, or is being drained.
LastOwned == main.pump \in {0, Len(pumps)} /\ session.pump \in {0, Len(pumps)}

Order == Typed /\ MainInOrder /\ SwapsReady /\ LastOwned

\* _close_session either starts the closing, or is done with it.
LEMMA CloseDoes ==
  ASSUME Typed, NEW next \in Meetings \cup {Nothing}, Close(next)
  PROVE  \/ /\ session.pump = 0 /\ ~Open(session.stream) /\ UNCHANGED streams
            /\ main' = IF next = Nothing THEN Idle ELSE [Idle EXCEPT !.pc = "starting", !.next = next]
            /\ session'.call = IF next = Nothing THEN session.call ELSE next
         \/ /\ main' = [pc |-> IF Open(session.stream) THEN "closing" ELSE "draining",
                        next |-> next, stream |-> session.stream, pump |-> session.pump]
            /\ streams' = Closing(session.stream)
            /\ session.pump # 0 \/ Open(session.stream)
            /\ session'.call = session.call
<1>1. session \in Objects /\ Emptied.call = session.call /\ Emptied \in Objects
  BY EmptiedIsTyped DEF Typed
<1>2. CASE session.pump = 0 /\ ~Open(session.stream)
  <2>1. Proceed(next, Emptied) /\ UNCHANGED streams
    BY <1>2 DEF Close
  <2>2. /\ main' = IF next = Nothing THEN Idle ELSE [Idle EXCEPT !.pc = "starting", !.next = next]
        /\ next = Nothing => session' = Emptied
        /\ next # Nothing => session' = [Emptied EXCEPT !.call = next, !.paused = FALSE,
                                                        !.reconnecting = FALSE]
    BY <2>1 DEF Proceed
  <2>3. session'.call = IF next = Nothing THEN session.call ELSE next
    BY <1>1, <2>2 DEF Objects
  <2> QED BY <1>2, <2>1, <2>2, <2>3
<1>3. CASE ~(session.pump = 0 /\ ~Open(session.stream))
  BY <1>1, <1>3 DEF Close, BeginClose
<1> QED BY <1>2, <1>3

\* The closing is over: back to the loop, or on to the engine.
LEMMA ProceedDoes ==
  ASSUME main.next \in Meetings \cup {Nothing}, NEW object \in Objects,
         IF main.next = Nothing
           THEN main' = Idle /\ session' = object
           ELSE /\ main' = [Idle EXCEPT !.pc = "starting", !.next = main.next]
                /\ session' = [object EXCEPT !.call = main.next, !.paused = FALSE,
                                             !.reconnecting = FALSE]
  PROVE  /\ main'.pc = IF main.next = Nothing THEN "run" ELSE "starting"
         /\ main'.next = main.next /\ main'.pump = 0 /\ main'.stream = 0
         /\ session'.call = IF main.next = Nothing THEN object.call ELSE main.next
         /\ session'.pump = object.pump /\ session'.stream = object.stream
         /\ session'.failures = object.failures
<1>1. CASE main.next = Nothing
  <2>1. main' = Idle /\ session' = object
    BY <1>1
  <2> QED BY <1>1, <2>1 DEF Idle
<1>2. CASE main.next # Nothing
  <2>1. /\ main' = [pc |-> "starting", next |-> main.next, stream |-> 0, pump |-> 0]
        /\ session' = [object EXCEPT !.call = main.next, !.paused = FALSE, !.reconnecting = FALSE]
    BY <1>2 DEF Idle
  <2>2. /\ session'.call = main.next
        /\ session'.pump = object.pump /\ session'.stream = object.stream
        /\ session'.failures = object.failures
    BY <2>1 DEF Objects
  <2> QED BY <1>2, <2>1, <2>2
<1> QED BY <1>1, <1>2

\* Which of the main task's steps end a closing, and what they leave alone.
LEMMA MainDoes ==
  ASSUME Order, CloseReturns \/ CloseRaises \/ Drained \/ DrainTimesOut
  PROVE  /\ \/ /\ main'.pc = "draining" /\ main.pc = "closing" /\ main.pump # 0
               /\ main'.next = main.next /\ main'.pump = main.pump
               /\ session' = session /\ CloseReturns
            \/ /\ main'.pc = IF main.next = Nothing THEN "run" ELSE "starting"
               /\ main'.next = main.next /\ main'.pump = 0
               /\ session'.call = IF main.next = Nothing THEN session.call ELSE main.next
         /\ main.pc \in {"closing", "draining"}
         /\ session'.pump = session.pump /\ session'.stream = session.stream
         /\ session'.failures = session.failures
         /\ UNCHANGED <<clientVars, faults, transcript>>
         /\ DOMAIN streams' = DOMAIN streams
         /\ \A k \in DOMAIN streams :
              /\ streams'[k].due = streams[k].due
              /\ streams[k].dead => streams'[k].dead
              /\ streams[k].closing => streams'[k].closing
         /\ Len(pumps') = Len(pumps) /\ DOMAIN pumps' = DOMAIN pumps
         /\ \A p \in DOMAIN pumps :
              pumps'[p] = pumps[p] \/ (pumps'[p].pc = "done" /\ p = main.pump)
<1>1. /\ main \in Mains /\ session \in Objects /\ streams \in Seq(Streams) /\ pumps \in Seq(Pumps)
      /\ main.next \in Meetings \cup {Nothing} /\ main.stream \in Nat
      /\ DOMAIN pumps = 1 .. Len(pumps) /\ DOMAIN streams = 1 .. Len(streams)
      /\ main.pump \in 0 .. Len(pumps)
  BY TypedFacts DEF Order, Typed, Mains
<1>0. session \in Objects /\ main.next \in Meetings \cup {Nothing}
  BY <1>1
<1>2. CASE CloseReturns
  <2>1. /\ main.pc = "closing" /\ streams' = Closed(main.stream)
        /\ UNCHANGED <<clientVars, faults, pumps, storeVars>>
    BY <1>2 DEF CloseReturns
  <2>2. /\ DOMAIN streams' = DOMAIN streams
        /\ \A k \in DOMAIN streams :
              /\ streams'[k].due = streams[k].due
              /\ streams[k].dead => streams'[k].dead
              /\ streams[k].closing => streams'[k].closing
    <3>1. streams \in Seq(Streams) /\ main.stream \in Nat /\ streams' = Closed(main.stream)
      BY <1>1, <2>1
    <3> QED BY <3>1, ClosedIsWorse
  <2>3. CASE main.pump = 0
    <3>1. IF main.next = Nothing
           THEN main' = Idle /\ session' = session
           ELSE /\ main' = [Idle EXCEPT !.pc = "starting", !.next = main.next]
                /\ session' = [session EXCEPT !.call = main.next, !.paused = FALSE,
                                             !.reconnecting = FALSE]
      BY <1>2, <2>3 DEF CloseReturns, Proceed
    <3>2. /\ main'.pc = IF main.next = Nothing THEN "run" ELSE "starting"
          /\ main'.next = main.next /\ main'.pump = 0
          /\ session'.call = IF main.next = Nothing THEN session.call ELSE main.next
          /\ session'.pump = session.pump /\ session'.stream = session.stream
          /\ session'.failures = session.failures
      BY <1>0, <3>1, ProceedDoes
    <3> QED BY <2>1, <2>2, <3>2 DEF storeVars
  <2>4. CASE main.pump # 0
    <3>1. main' = [main EXCEPT !.pc = "draining"] /\ session' = session
      BY <1>2, <2>4 DEF CloseReturns
    <3>2. main'.pc = "draining" /\ main'.next = main.next /\ main'.pump = main.pump
      BY <1>1, <3>1 DEF Mains
    <3> QED BY <1>2, <2>1, <2>2, <2>4, <3>1, <3>2 DEF storeVars
  <2> QED BY <2>3, <2>4
<1>3. CASE CloseRaises \/ Drained
  <2>1. /\ main.pc \in {"closing", "draining"}
        /\ UNCHANGED <<clientVars, faults, streams, pumps, transcript>>
        /\ IF main.next = Nothing
             THEN main' = Idle /\ session' = session
             ELSE /\ main' = [Idle EXCEPT !.pc = "starting", !.next = main.next]
                  /\ session' = [session EXCEPT !.call = main.next, !.paused = FALSE,
                                                !.reconnecting = FALSE]
    BY <1>3 DEF CloseRaises, Drained, Proceed
  <2>2. /\ main'.pc = IF main.next = Nothing THEN "run" ELSE "starting"
        /\ main'.next = main.next /\ main'.pump = 0
        /\ session'.call = IF main.next = Nothing THEN session.call ELSE main.next
        /\ session'.pump = session.pump /\ session'.stream = session.stream
        /\ session'.failures = session.failures
    BY <1>0, <2>1, ProceedDoes
  <2> QED BY <2>1, <2>2
<1>4. CASE DrainTimesOut
  <2>1. /\ main.pc = "draining" /\ pumps' = Cancelled(main.pump)
        /\ UNCHANGED <<clientVars, faults, streams, transcript>>
        /\ IF main.next = Nothing
             THEN main' = Idle /\ session' = AfterCancel(main.pump, session)
             ELSE /\ main' = [Idle EXCEPT !.pc = "starting", !.next = main.next]
                  /\ session' = [AfterCancel(main.pump, session) EXCEPT
                                    !.call = main.next, !.paused = FALSE, !.reconnecting = FALSE]
    BY <1>4 DEF DrainTimesOut, Proceed
  <2>2. /\ AfterCancel(main.pump, session) \in Objects
        /\ AfterCancel(main.pump, session).call = session.call
        /\ AfterCancel(main.pump, session).pump = session.pump
        /\ AfterCancel(main.pump, session).stream = session.stream
        /\ AfterCancel(main.pump, session).failures = session.failures
    BY <1>1, AfterCancelIsTyped
  <2>3. /\ main'.pc = IF main.next = Nothing THEN "run" ELSE "starting"
        /\ main'.next = main.next /\ main'.pump = 0
        /\ session'.call = IF main.next = Nothing THEN session.call ELSE main.next
        /\ session'.pump = session.pump /\ session'.stream = session.stream
        /\ session'.failures = session.failures
    BY <1>0, <2>1, <2>2, ProceedDoes
  <2>4. main.pump \in DOMAIN pumps
    BY <1>1, <2>1 DEF Order, MainInOrder
  <2>5. /\ Len(pumps') = Len(pumps) /\ DOMAIN pumps' = DOMAIN pumps
        /\ \A p \in DOMAIN pumps :
              pumps'[p] = pumps[p] \/ (pumps'[p].pc = "done" /\ p = main.pump)
    BY <1>1, <2>1, <2>4, CancelledPump
  <2> QED BY <2>1, <2>3, <2>5
<1> QED BY <1>2, <1>3, <1>4

\* Starts of the engine: a stream and a pump of its own, for the meeting started.
LEMMA EngineStartsDoes ==
  ASSUME Typed, MainInOrder, EngineStarts
  PROVE  LET new == Len(streams) + 1
             last == Len(pumps) + 1
         IN
         /\ main.pc = "starting" /\ main.next \in Meetings /\ main.next = speaking
         /\ main' = Idle /\ UNCHANGED <<clientVars, faults, transcript>>
         /\ Len(streams') = new /\ DOMAIN streams' = 1 .. new
         /\ \A k \in DOMAIN streams : streams'[k] = streams[k]
         /\ streams'[new] = NewStream
         /\ Len(pumps') = last /\ DOMAIN pumps' = 1 .. last
         /\ \A p \in DOMAIN pumps : pumps'[p] = pumps[p]
         /\ pumps'[last] = [pc |-> "fresh", stream |-> new, spare |-> 0,
                            call |-> main.next, barren |-> 0]
         /\ session'.stream = new /\ session'.pump = last
         /\ session'.call = main.next /\ session'.failures = session.failures
         /\ status' = [status EXCEPT ![main.next] = "RECORDING"]
<1> DEFINE new == Len(streams) + 1
           last == Len(pumps) + 1
           r == [pc |-> "fresh", stream |-> new, spare |-> 0,
                            call |-> main.next, barren |-> 0]
<1>1. /\ main.pc = "starting" /\ main' = Idle /\ UNCHANGED <<clientVars, faults, transcript>>
      /\ streams' = Append(streams, NewStream)
      /\ pumps' = Append(pumps, r)
      /\ session' = [session EXCEPT !.stream = new, !.pump = last]
      /\ status' = [status EXCEPT ![main.next] = "RECORDING"]
  BY DEF EngineStarts
<1>2. /\ main \in Mains /\ session \in Objects
      /\ streams \in Seq(Streams) /\ pumps \in Seq(Pumps)
      /\ Len(streams) \in Nat /\ Len(pumps) \in Nat
      /\ DOMAIN streams = 1 .. Len(streams) /\ DOMAIN pumps = 1 .. Len(pumps)
  BY TypedFacts DEF Typed
<1>3. main.next \in Meetings /\ main.next = speaking /\ session.call = main.next
  BY <1>1, <1>2 DEF MainInOrder, Mains
<1>4. new \in Nat /\ last \in Nat
  BY <1>2
<1>5. r \in Pumps
  <2> HIDE DEF new
  <2> QED BY <1>3, <1>4 DEF Pumps
<1> HIDE DEF r
<1>6. /\ Len(pumps') = last /\ DOMAIN pumps' = 1 .. last
      /\ \A p \in DOMAIN pumps : pumps'[p] = pumps[p]
      /\ pumps'[last] = r
  BY <1>1, <1>2, <1>5, AppendProperties, LenProperties
<1>7. /\ Len(streams') = new /\ DOMAIN streams' = 1 .. new
      /\ \A k \in DOMAIN streams : streams'[k] = streams[k]
      /\ streams'[new] = NewStream
  BY <1>1, <1>2, OpenedStream
<1> HIDE DEF new, last
<1>8. /\ session'.stream = new /\ session'.pump = last
      /\ session'.call = session.call /\ session'.failures = session.failures
  BY <1>1, <1>2, <1>4 DEF Objects
<1> QED BY <1>1, <1>3, <1>6, <1>7, <1>8 DEF new, last, r

LEMMA ProviderDiesDoes ==
  ASSUME Typed, ProviderDies
  PROVE  /\ UNCHANGED <<clientVars, main, session, pumps, storeVars>>
         /\ streams' \in Seq(Streams) /\ Len(streams') = Len(streams)
         /\ DOMAIN streams' = DOMAIN streams
         /\ \A k \in DOMAIN streams :
              /\ streams'[k].due = streams[k].due
              /\ streams[k].dead => streams'[k].dead
              /\ streams'[k].closing = streams[k].closing
         /\ faults < MaxFaults /\ faults' \in 0 .. MaxFaults
<1>1. PICK s \in DOMAIN streams : streams' = [streams EXCEPT ![s].dead = TRUE]
  BY DEF ProviderDies
<1> DEFINE r == [streams[s] EXCEPT !.dead = TRUE]
<1>2. /\ streams \in Seq(Streams) /\ streams[s] \in Streams /\ faults \in 0 .. MaxFaults
      /\ DOMAIN streams = 1 .. Len(streams)
  BY TypedFacts DEF Typed
<1>3. r \in Streams /\ r.due = streams[s].due /\ r.dead = TRUE /\ r.closing = streams[s].closing
  BY <1>2 DEF Streams
<1>4. streams' = [streams EXCEPT ![s] = r]
  BY <1>1
<1> HIDE DEF r
<1>5. /\ streams' \in Seq(Streams) /\ Len(streams') = Len(streams)
      /\ DOMAIN streams' = DOMAIN streams /\ streams'[s] = r
      /\ \A k \in DOMAIN streams : k # s => streams'[k] = streams[k]
  BY <1>2, <1>3, <1>4, ExceptSeq, LenProperties
<1>6. /\ UNCHANGED <<clientVars, main, session, pumps, storeVars>>
      /\ faults < MaxFaults /\ faults' = faults + 1
  BY DEF ProviderDies, Fault
<1>7. faults' \in 0 .. MaxFaults
  BY <1>2, <1>6, BoundsAssumption
<1>8. \A k \in DOMAIN streams :
        /\ streams'[k].due = streams[k].due
        /\ streams[k].dead => streams'[k].dead
        /\ streams'[k].closing = streams[k].closing
  BY <1>3, <1>5
<1> QED BY <1>5, <1>6, <1>7, <1>8

LEMMA OrderInitially == Init => Order
<1> SUFFICES ASSUME Init PROVE Order
  OBVIOUS
<1>1. /\ streams = <<>> /\ pumps = <<>> /\ Len(streams) = 0 /\ Len(pumps) = 0
      /\ streams \in Seq(Streams) /\ pumps \in Seq(Pumps)
      /\ DOMAIN pumps = {} /\ DOMAIN streams = {}
  BY DEF Init
<1>2. /\ main \in Mains /\ session \in Objects /\ main.stream = 0 /\ main.pump = 0
      /\ main.pc = "run" /\ session.stream = 0 /\ session.pump = 0
  <2>1. 0 \in 0 .. MaxConsecutive
    BY BoundsAssumption
  <2> QED BY <2>1 DEF Init, Idle, Mains, Objects
<1>3. /\ speaking \in Meetings \cup {Nothing} /\ starts \in 0 .. MaxStarts
      /\ chunks \in 0 .. MaxAudio /\ faults \in 0 .. MaxFaults
      /\ status \in [Meetings -> Statuses]
  BY BoundsAssumption DEF Init, Statuses
<1>4. socket \in BOOLEAN
  BY Zenon DEF Init
<1>5. transcript \in [Meetings -> Seq(Meetings)]
  <2>1. <<>> \in Seq(Meetings)
    OBVIOUS
  <2> QED BY <2>1 DEF Init
<1>6. Typed
  BY <1>1, <1>2, <1>3, <1>4, <1>5 DEF Typed
<1> QED BY <1>1, <1>2, <1>6 DEF Order, MainInOrder, SwapsReady, LastOwned

LEMMA OrderStep == Order /\ [Next]_vars => Order'
<1> SUFFICES ASSUME Order, [Next]_vars PROVE Order'
  OBVIOUS
<1>0. Typed /\ MainInOrder /\ SwapsReady /\ LastOwned
  BY DEF Order
<1>1. CASE Client
  <2>1. Typed'
    BY <1>0, <1>1, ClientIsTyped
  <2>2. pumps' = pumps
    BY <1>1 DEF Client, ReceiveStart, ReceiveEnd, ReceivePause, ReceiveAudio, Disconnect
  <2>3. SwapsReady'
    BY <1>0, <2>2 DEF SwapsReady
  <2>4. ASSUME NEW next \in Meetings \cup {Nothing}, Close(next), speaking' = next
        PROVE  MainInOrder' /\ LastOwned'
    <3>1. session'.pump = 0 /\ session.stream \in 0 .. Len(streams)
      BY <1>0, <2>4, CloseIsTyped DEF Typed
    <3>2. \/ /\ main' = IF next = Nothing THEN Idle ELSE [Idle EXCEPT !.pc = "starting", !.next = next]
             /\ session'.call = IF next = Nothing THEN session.call ELSE next
          \/ /\ main' = [pc |-> IF Open(session.stream) THEN "closing" ELSE "draining",
                         next |-> next, stream |-> session.stream, pump |-> session.pump]
             /\ session.pump # 0 \/ Open(session.stream)
      BY <1>0, <2>4, CloseDoes
    <3>3. MainInOrder' /\ main'.pump \in {0, session.pump}
      <4>1. CASE /\ main' = IF next = Nothing THEN Idle
                            ELSE [Idle EXCEPT !.pc = "starting", !.next = next]
                 /\ session'.call = IF next = Nothing THEN session.call ELSE next
        <5>1. CASE next = Nothing
          BY <4>1, <5>1 DEF MainInOrder, Idle
        <5>2. CASE next # Nothing
          BY <2>4, <4>1, <5>2 DEF MainInOrder, Idle
        <5> QED BY <5>1, <5>2
      <4>2. CASE /\ main' = [pc |-> IF Open(session.stream) THEN "closing" ELSE "draining",
                             next |-> next, stream |-> session.stream, pump |-> session.pump]
                 /\ session.pump # 0 \/ Open(session.stream)
        <5>1. CASE Open(session.stream)
          BY <2>4, <4>2, <5>1 DEF MainInOrder, Open
        <5>2. CASE ~Open(session.stream)
          BY <2>4, <4>2, <5>2 DEF MainInOrder
        <5> QED BY <5>1, <5>2
      <4> QED BY <3>2, <4>1, <4>2
    <3> QED BY <1>0, <2>2, <3>1, <3>3 DEF LastOwned
  <2>5. CASE \E m \in Meetings : ReceiveStart(m)
    <3>1. PICK m \in Meetings : Close(m) /\ speaking' = m
      BY <2>5 DEF ReceiveStart
    <3> QED BY <2>1, <2>3, <2>4, <3>1 DEF Order
  <2>6. CASE ReceiveEnd
    <3>1. Close(Nothing) /\ speaking' = Nothing
      BY <2>6 DEF ReceiveEnd
    <3> QED BY <2>1, <2>3, <2>4, <3>1 DEF Order
  <2>7. CASE (\E paused \in BOOLEAN : ReceivePause(paused)) \/ ReceiveAudio \/ Disconnect
    <3>1. main' = main /\ speaking' = speaking
      BY <2>7 DEF ReceivePause, ReceiveAudio, Disconnect, clientVars
    <3>2. session'.call = session.call /\ session'.pump = session.pump
      <4>1. session \in Objects
        BY <1>0 DEF Typed
      <4> QED BY <2>7, <4>1 DEF ReceivePause, ReceiveAudio, Disconnect, Objects
    <3>3. MainInOrder' /\ LastOwned'
      BY <1>0, <2>2, <3>1, <3>2 DEF MainInOrder, LastOwned
    <3> QED BY <2>1, <2>3, <3>3 DEF Order
  <2> QED BY <1>1, <2>5, <2>6, <2>7 DEF Client
<1>2. CASE Main
  <2>1. Typed'
    BY <1>0, <1>2, MainIsTyped DEF MainInOrder
  <2>2. CASE CloseReturns \/ CloseRaises \/ Drained \/ DrainTimesOut
    <3>1. /\ \/ /\ main'.pc = "draining" /\ main.pc = "closing" /\ main.pump # 0
                /\ main'.next = main.next /\ main'.pump = main.pump
                /\ session' = session
             \/ /\ main'.pc = IF main.next = Nothing THEN "run" ELSE "starting"
                /\ main'.next = main.next /\ main'.pump = 0
                /\ session'.call = IF main.next = Nothing THEN session.call ELSE main.next
          /\ main.pc \in {"closing", "draining"}
          /\ session'.pump = session.pump
          /\ UNCHANGED clientVars
          /\ Len(pumps') = Len(pumps) /\ DOMAIN pumps' = DOMAIN pumps
          /\ \A p \in DOMAIN pumps :
               pumps'[p] = pumps[p] \/ (pumps'[p].pc = "done" /\ p = main.pump)
      BY <2>2, MainDoes
    <3>2. MainInOrder'
      BY <1>0, <3>1 DEF MainInOrder, clientVars
    <3>3. LastOwned' /\ SwapsReady'
      BY <1>0, <3>1 DEF LastOwned, SwapsReady
    <3> QED BY <2>1, <3>2, <3>3 DEF Order
  <2>3. CASE EngineStarts
    <3>1. /\ main' = Idle /\ Len(pumps') = Len(pumps) + 1 /\ DOMAIN pumps' = 1 .. Len(pumps) + 1
          /\ \A p \in DOMAIN pumps : pumps'[p] = pumps[p]
          /\ pumps'[Len(pumps) + 1].pc = "fresh"
          /\ session'.pump = Len(pumps) + 1
      BY <1>0, <2>3, EngineStartsDoes
    <3>2. MainInOrder' /\ LastOwned'
      BY <3>1 DEF MainInOrder, LastOwned, Idle
    <3>3. SwapsReady'
      <4>1. DOMAIN pumps = 1 .. Len(pumps) /\ Len(pumps) \in Nat
        BY <1>0, TypedFacts
      <4> QED BY <1>0, <3>1, <4>1 DEF SwapsReady
    <3> QED BY <2>1, <3>2, <3>3 DEF Order
  <2>4. CASE EngineFails \/ Leave
    <3>1. Shutdown
      BY <2>4 DEF EngineFails, Leave
    <3>2. /\ main' = [Idle EXCEPT !.pc = "done"] /\ session'.pump = 0
          /\ pumps' \in Seq(Pumps) /\ Len(pumps') = Len(pumps)
          /\ \A p \in DOMAIN pumps :
               IF p = session.pump THEN pumps'[p].pc = "done" ELSE pumps'[p] = pumps[p]
      BY <1>0, <3>1, ShutdownIsTyped
    <3>3. DOMAIN pumps' = DOMAIN pumps
      BY <1>0, <3>2, TypedFacts, LenProperties
    <3>4. MainInOrder' /\ LastOwned' /\ SwapsReady'
      BY <1>0, <3>2, <3>3 DEF MainInOrder, LastOwned, SwapsReady, Idle
    <3> QED BY <2>1, <3>4 DEF Order
  <2> QED BY <1>2, <2>2, <2>3, <2>4 DEF Main
<1>3. CASE ProviderDies
  <2>1. /\ UNCHANGED <<clientVars, main, session, pumps, storeVars>>
        /\ streams' \in Seq(Streams) /\ Len(streams') = Len(streams)
        /\ DOMAIN streams' = DOMAIN streams /\ faults' \in 0 .. MaxFaults
    BY <1>0, <1>3, ProviderDiesDoes
  <2>2. Typed'
    BY <1>0, <2>1 DEF Typed, clientVars, storeVars
  <2>3. MainInOrder' /\ LastOwned' /\ SwapsReady'
    BY <1>0, <2>1 DEF MainInOrder, LastOwned, SwapsReady, clientVars
  <2> QED BY <2>2, <2>3 DEF Order
<1>4. ASSUME NEW p \in DOMAIN pumps, Pump(p)
      PROVE  Order'
  <2>1. Typed' /\ SwapsReady'
    BY <1>0, <1>4, PumpIsTyped
  <2>2. UNCHANGED <<speaking, main>> /\ session'.call = session.call
        /\ session'.pump = session.pump /\ Len(pumps') = Len(pumps)
    <3>1. CASE ~Swaps(p)
      <4>1. MovesOnly(p)
        BY <1>0, <1>4, <3>1, BeginsDoes, HearsDoes, ResetsDoes, FailsMeetingDoes,
           ReturnsDoes, RestartsDoes DEF Pump
      <4> QED BY <4>1 DEF MovesOnly
    <3>2. CASE Swaps(p)
      <4>1. pumps[p].spare # 0
        BY <1>0, <3>2 DEF SwapsReady, Swaps, At
      <4>2. MovesOnly(p)
        BY <1>0, <3>2, <4>1, SwapsDoes
      <4> QED BY <4>2 DEF MovesOnly
    <3> QED BY <3>1, <3>2
  <2>3. MainInOrder' /\ LastOwned'
    BY <1>0, <2>2 DEF MainInOrder, LastOwned
  <2> QED BY <2>1, <2>3 DEF Order
<1>5. CASE UNCHANGED vars
  <2>1. UNCHANGED <<clientVars, faults, main, session, streams, pumps, storeVars>>
    BY <1>5 DEF vars
  <2>2. Typed'
    BY <1>0, <2>1 DEF Typed, clientVars, storeVars
  <2> QED BY <1>0, <2>1, <2>2 DEF Order, MainInOrder, LastOwned, SwapsReady, clientVars
<1> QED BY <1>1, <1>2, <1>3, <1>4, <1>5 DEF Next

\* The type invariant of a connection.
THEOREM TypeCorrect == Spec => []TypeOK
<1>1. Order => TypeOK
  BY TypedIsTypeOK DEF Order
<1> QED BY <1>1, OrderInitially, OrderStep, PTL DEF Spec

-----------------------------------------------------------------------------
(* One pump at a time *)

\* A START finds no pump of a meeting before it still running.
Alone == main.pc = "starting" => \A p \in DOMAIN pumps : ~Live(p)

\* Every pump but the one started last is done.
OnlyTheLast == \A p \in DOMAIN pumps : Live(p) => p = Len(pumps)

\* The stream a pump will swap to has not been fed yet.
SpareUnused ==
  \A p \in DOMAIN pumps : (Live(p) /\ pumps[p].spare # 0) =>
    session.stream # pumps[p].spare /\ streams[pumps[p].spare].due = <<>>

\* The session feeds the stream its pump reads, and a pump swaps only from a
\* stream that takes no more.
SameStream ==
  \A p \in DOMAIN pumps : Live(p) =>
    /\ p = session.pump => session.stream = pumps[p].stream
    /\ pumps[p].pc = "swapping" => streams[pumps[p].stream].closing

\* What a pump has yet to read was spoken in its own meeting.
ReadsOwnAudio ==
  \A p \in DOMAIN pumps : Live(p) =>
    \A i \in DOMAIN streams[pumps[p].stream].due :
      streams[pumps[p].stream].due[i] = pumps[p].call

\* A running pump is of the meeting the session is in.
SameMeeting == \A p \in DOMAIN pumps : Live(p) => pumps[p].call = session.call

\* The budget counts no more resets than the pump had without a result.
CountsBarren ==
  \A p \in DOMAIN pumps : (Live(p) /\ pumps[p].pc # "fresh") =>
    session.failures <= pumps[p].barren

\* While the client speaks, the pump started last is of the meeting it speaks
\* in, and that meeting is being recorded unless the pump is done.
SpokenIsHeard ==
  (Running /\ speaking # Nothing) =>
    /\ Len(pumps) # 0
    /\ pumps[Len(pumps)].call = speaking
    /\ Live(Len(pumps)) => status[speaking] = "RECORDING"

\* While the session's stream closes, its pump reads that stream, or a new one
\* on which there is nothing.
ClosedIsRead ==
  (main.pc = "closing" /\ main.pump # 0) =>
    \A p \in DOMAIN pumps : Live(p) =>
      pumps[p].stream = main.stream \/ streams[pumps[p].stream].due = <<>>

\* A pump that outlives the recording of its meeting has nothing to add to it.
NothingToAdd ==
  \A p \in DOMAIN pumps : Live(p) =>
    \/ status[pumps[p].call] = "RECORDING"
    \/ streams[pumps[p].stream].dead
    \/ streams[pumps[p].stream].due = <<>>

OnePump == OnlyTheLast /\ SpareUnused /\ SameStream /\ ReadsOwnAudio /\ SameMeeting /\ CountsBarren
Tables == SpokenIsHeard /\ ClosedIsRead /\ NothingToAdd

IInv == Order /\ OnePump /\ Tables

\* A step by which no pump moves, though one may end.
Aside ==
  /\ Len(pumps') = Len(pumps) /\ DOMAIN pumps' = DOMAIN pumps
  /\ \A p \in DOMAIN pumps : pumps'[p] = pumps[p] \/ pumps'[p].pc = "done"
  /\ DOMAIN streams' = DOMAIN streams
  /\ \A k \in DOMAIN streams :
       /\ streams'[k].due = streams[k].due
       /\ streams[k].dead => streams'[k].dead
       /\ streams[k].closing => streams'[k].closing
  /\ session'.failures = session.failures
  /\ session'.call = session.call \/ main'.pc = "starting"
  /\ \/ session'.stream = session.stream /\ session'.pump = session.pump
     \/ session'.stream = 0 /\ session'.pump = 0

LEMMA AsideKeeps ==
  ASSUME Order, OnePump, Alone', Aside
  PROVE  /\ OnePump'
         /\ (NothingToAdd /\ status' = status) => NothingToAdd'
<1>1. /\ \A p \in DOMAIN pumps : pumps[p].stream \in DOMAIN streams /\ pumps[p].spare \in 0 .. Len(streams)
      /\ DOMAIN streams = 1 .. Len(streams) /\ Len(streams) \in Nat
      /\ DOMAIN pumps = 1 .. Len(pumps) /\ Len(pumps) \in Nat
  BY TypedFacts DEF Order, Typed
<1>2. ASSUME NEW p \in DOMAIN pumps, pumps'[p].pc # "done"
      PROVE  /\ pumps'[p] = pumps[p] /\ Live(p)
             /\ pumps[p].stream \in DOMAIN streams /\ pumps[p].spare \in 0 .. Len(streams)
             /\ session'.call = session.call
             /\ streams'[pumps[p].stream].due = streams[pumps[p].stream].due
             /\ streams[pumps[p].stream].dead => streams'[pumps[p].stream].dead
             /\ streams[pumps[p].stream].closing => streams'[pumps[p].stream].closing
             /\ pumps[p].spare # 0 =>
                  streams'[pumps[p].spare].due = streams[pumps[p].spare].due
  <2>1. pumps'[p] = pumps[p] /\ Live(p)
    BY <1>2 DEF Aside, Live
  <2>2. session'.call = session.call
    BY <1>2 DEF Aside, Alone, Live
  <2> QED BY <1>1, <2>1, <2>2 DEF Aside
<1>3. OnlyTheLast'
  BY <1>2 DEF OnePump, OnlyTheLast, Live, Aside
<1>4. SpareUnused'
  BY <1>2 DEF OnePump, SpareUnused, Live, Aside
<1>5. SameStream'
  BY <1>1, <1>2 DEF OnePump, SameStream, Live, Aside
<1>6. ReadsOwnAudio'
  BY <1>2 DEF OnePump, ReadsOwnAudio, Live, Aside
<1>7. SameMeeting'
  BY <1>2 DEF OnePump, SameMeeting, Live, Aside
<1>8. CountsBarren'
  BY <1>2 DEF OnePump, CountsBarren, Live, Aside
<1>9. ASSUME NothingToAdd, status' = status
      PROVE  NothingToAdd'
  BY <1>2, <1>9 DEF NothingToAdd, Live, Aside
<1> QED BY <1>3, <1>4, <1>5, <1>6, <1>7, <1>8, <1>9 DEF OnePump

LEMMA CloseKeeps ==
  ASSUME IInv, Alone', NEW next \in Meetings \cup {Nothing}, Close(next),
         speaking' = next, pumps' = pumps
  PROVE  OnePump' /\ Tables'
<1>0. /\ Order /\ OnePump /\ Tables /\ Typed
      /\ DOMAIN streams = 1 .. Len(streams) /\ Len(streams) \in Nat
      /\ DOMAIN pumps = 1 .. Len(pumps)
      /\ session.stream \in Nat /\ streams \in Seq(Streams)
  <2>1. Order /\ OnePump /\ Tables /\ Typed
    BY DEF IInv, Order
  <2>2. session.stream \in 0 .. Len(streams) /\ streams \in Seq(Streams)
    BY <2>1 DEF Typed
  <2> QED BY <2>1, <2>2, TypedFacts
<1>1. /\ session'.stream = 0 /\ session'.pump = 0
      /\ session'.failures = session.failures /\ status' = status
      /\ DOMAIN streams' = DOMAIN streams
      /\ \A s \in DOMAIN streams :
           streams'[s].due = streams[s].due /\ streams'[s].dead = streams[s].dead
  <2>1. /\ session'.stream = 0 /\ session'.pump = 0
        /\ session'.failures = session.failures /\ status' = status
        /\ streams' \in Seq(Streams) /\ Len(streams') = Len(streams)
        /\ \A s \in DOMAIN streams :
             streams'[s].due = streams[s].due /\ streams'[s].dead = streams[s].dead
    BY <1>0, CloseIsTyped
  <2>2. DOMAIN streams' = DOMAIN streams
    BY <1>0, <2>1, LenProperties
  <2> QED BY <2>1, <2>2
<1>2. \/ /\ UNCHANGED streams
         /\ main' = IF next = Nothing THEN Idle ELSE [Idle EXCEPT !.pc = "starting", !.next = next]
         /\ session'.call = IF next = Nothing THEN session.call ELSE next
      \/ /\ main' = [pc |-> IF Open(session.stream) THEN "closing" ELSE "draining",
                     next |-> next, stream |-> session.stream, pump |-> session.pump]
         /\ streams' = Closing(session.stream)
         /\ session'.call = session.call
  BY <1>0, CloseDoes
<1>3. \A s \in DOMAIN streams : streams[s].closing => streams'[s].closing
  <2>1. CASE UNCHANGED streams
    BY <2>1
  <2>2. CASE streams' = Closing(session.stream)
    <3>1. /\ streams \in Seq(Streams) /\ session.stream \in Nat
          /\ DOMAIN streams = 1 .. Len(streams)
      BY <1>0
    <3> QED BY <2>2, <3>1, ClosedStream
  <2> QED BY <1>2, <2>1, <2>2
<1>4. /\ session'.call = session.call \/ main'.pc = "starting"
      /\ Running' => next = Nothing
      /\ main'.pc = "closing" => main'.stream = session.stream /\ main'.pump = session.pump
  <2>1. CASE /\ main' = IF next = Nothing THEN Idle
                        ELSE [Idle EXCEPT !.pc = "starting", !.next = next]
             /\ session'.call = IF next = Nothing THEN session.call ELSE next
    <3>1. CASE next = Nothing
      BY <2>1, <3>1 DEF Idle
    <3>2. CASE next # Nothing
      BY <2>1, <3>2 DEF Idle, Running
    <3> QED BY <3>1, <3>2
  <2>2. CASE /\ main' = [pc |-> IF Open(session.stream) THEN "closing" ELSE "draining",
                         next |-> next, stream |-> session.stream, pump |-> session.pump]
             /\ session'.call = session.call
    BY <2>2 DEF Running
  <2> QED BY <1>2, <2>1, <2>2
<1>5. Aside
  BY <1>1, <1>3, <1>4 DEF Aside
<1>6. OnePump' /\ NothingToAdd'
  BY <1>0, <1>1, <1>5, AsideKeeps DEF Tables
<1>7. SpokenIsHeard'
  BY <1>4 DEF SpokenIsHeard
<1>8. ClosedIsRead'
  <2> SUFFICES ASSUME main'.pc = "closing", main'.pump # 0, NEW p \in DOMAIN pumps, Live(p)
               PROVE  pumps[p].stream = main'.stream
    BY DEF ClosedIsRead, Live
  <2>1. p = session.pump
    BY <1>0, <1>4 DEF Order, LastOwned, OnePump, OnlyTheLast
  <2> QED BY <1>0, <1>4, <2>1 DEF OnePump, SameStream
<1> QED BY <1>6, <1>7, <1>8 DEF Tables

\* A chunk goes to the session's stream: when a pump reads that stream, it is the
\* one of the meeting the chunk was spoken in.
LEMMA AudioKeeps ==
  ASSUME IInv, ReceiveAudio
  PROVE  OnePump' /\ Tables'
<1>0. /\ OnePump /\ Tables /\ Typed
      /\ DOMAIN streams = 1 .. Len(streams) /\ Len(streams) \in Nat
      /\ DOMAIN pumps = 1 .. Len(pumps)
      /\ session.stream \in 0 .. Len(streams) /\ streams \in Seq(Streams)
      /\ \A s \in DOMAIN streams : streams[s] \in Streams
      /\ \A p \in DOMAIN pumps : pumps[p].stream \in DOMAIN streams /\ pumps[p].spare \in 0 .. Len(streams)
  BY TypedFacts DEF IInv, Order, Typed
<1> DEFINE own == session.stream
<1>1. /\ Running /\ speaking # Nothing /\ own \in DOMAIN streams
      /\ UNCHANGED <<socket, speaking, starts, faults, main, session, pumps, status, transcript>>
      /\ streams' = streams \/ streams' = [streams EXCEPT ![own].due = Append(@, speaking)]
  BY <1>0 DEF ReceiveAudio, storeVars
<1>2. speaking \in Meetings
  BY <1>1, <1>0 DEF Typed
<1>3. /\ DOMAIN streams' = DOMAIN streams
      /\ \A k \in DOMAIN streams :
           /\ streams'[k].dead = streams[k].dead /\ streams'[k].closing = streams[k].closing
           /\ k # own => streams'[k].due = streams[k].due
      /\ streams'[own].due = streams[own].due \/ streams'[own].due = Append(streams[own].due, speaking)
  <2>1. CASE streams' = streams
    BY <2>1
  <2>2. CASE streams' = [streams EXCEPT ![own].due = Append(@, speaking)]
    <3> DEFINE r == [streams[own] EXCEPT !.due = Append(@, speaking)]
    <3>1. streams' = [streams EXCEPT ![own] = r]
      BY <2>2
    <3>2. r.due = Append(streams[own].due, speaking) /\ r.dead = streams[own].dead
          /\ r.closing = streams[own].closing
      BY <1>0, <1>1 DEF Streams
    <3> HIDE DEF r, own
    <3>3. DOMAIN streams' = DOMAIN streams
      BY <3>1
    <3>4. streams'[own] = r /\ \A k \in DOMAIN streams : k # own => streams'[k] = streams[k]
      BY <1>1, <3>1
    <3> QED BY <3>2, <3>3, <3>4
  <2> QED BY <1>1, <2>1, <2>2
<1>4. streams[own].due \in Seq(Meetings)
  BY <1>0, <1>1 DEF Streams
<1>5. \A i \in DOMAIN streams'[own].due :
        \/ i \in DOMAIN streams[own].due /\ streams'[own].due[i] = streams[own].due[i]
        \/ streams'[own].due[i] = speaking
  <2> DEFINE d == streams[own].due
             e == streams'[own].due
  <2>1. d \in Seq(Meetings) /\ (e = d \/ e = Append(d, speaking))
    BY <1>3, <1>4
  <2> HIDE DEF d, e
  <2>2. \A i \in DOMAIN e : (i \in DOMAIN d /\ e[i] = d[i]) \/ e[i] = speaking
    <3>1. CASE e = d
      BY <3>1
    <3>2. CASE e = Append(d, speaking)
      BY <1>2, <2>1, <3>2, AppendProperties, LenProperties
    <3> QED BY <2>1, <3>1, <3>2
  <2> QED BY <2>2 DEF d, e
<1> HIDE DEF own
<1>6. ASSUME NEW p \in DOMAIN pumps, Live(p)
      PROVE  /\ p = Len(pumps) /\ pumps[p].call = speaking /\ status[speaking] = "RECORDING"
  BY <1>0, <1>1, <1>6 DEF OnePump, OnlyTheLast, Tables, SpokenIsHeard
<1>7. OnlyTheLast' /\ SameMeeting' /\ CountsBarren' /\ SpokenIsHeard'
  BY <1>0, <1>1 DEF OnePump, OnlyTheLast, SameMeeting, CountsBarren, Tables, SpokenIsHeard, Live, Running
<1>8. SpareUnused'
  <2> SUFFICES ASSUME NEW p \in DOMAIN pumps, Live(p), pumps[p].spare # 0
               PROVE  own # pumps[p].spare /\ streams'[pumps[p].spare].due = <<>>
    BY <1>1 DEF SpareUnused, Live, own
  <2>1. own # pumps[p].spare /\ streams[pumps[p].spare].due = <<>>
        /\ pumps[p].spare \in DOMAIN streams
    BY <1>0 DEF OnePump, SpareUnused, own
  <2> QED BY <1>3, <2>1
<1>9. SameStream'
  BY <1>0, <1>1, <1>3 DEF OnePump, SameStream, Live
<1>10. ReadsOwnAudio'
  <2> SUFFICES ASSUME NEW p \in DOMAIN pumps, Live(p), NEW i \in DOMAIN streams'[pumps[p].stream].due
               PROVE  streams'[pumps[p].stream].due[i] = pumps[p].call
    BY <1>1 DEF ReadsOwnAudio, Live
  <2>1. \A j \in DOMAIN streams[pumps[p].stream].due : streams[pumps[p].stream].due[j] = pumps[p].call
    BY <1>0 DEF OnePump, ReadsOwnAudio
  <2>2. CASE pumps[p].stream = own
    BY <1>5, <1>6, <2>1, <2>2
  <2>3. CASE pumps[p].stream # own
    BY <1>0, <1>3, <2>1, <2>3
  <2> QED BY <2>2, <2>3
<1>11. ClosedIsRead' /\ NothingToAdd'
  BY <1>1, <1>6 DEF ClosedIsRead, NothingToAdd, Running, Live
<1> QED BY <1>7, <1>8, <1>9, <1>10, <1>11 DEF OnePump, Tables

\* The rest of what the client and the provider do leaves the pumps aside.
LEMMA OutsideKeeps ==
  ASSUME IInv, Alone', Client \/ ProviderDies
  PROVE  OnePump' /\ Tables'
<1>0. Order /\ OnePump /\ Tables /\ Typed /\ session \in Objects
  BY DEF IInv, Order, Typed
<1>1. CASE \E m \in Meetings : ReceiveStart(m)
  <2>1. PICK m \in Meetings : Close(m) /\ speaking' = m /\ pumps' = pumps
    BY <1>1 DEF ReceiveStart
  <2> QED BY <2>1, CloseKeeps
<1>2. CASE ReceiveEnd
  <2>1. Close(Nothing) /\ speaking' = Nothing /\ pumps' = pumps
    BY <1>2 DEF ReceiveEnd
  <2> QED BY <2>1, CloseKeeps
<1>3. ASSUME UNCHANGED <<speaking, main, pumps, status>>,
             session'.call = session.call, session'.failures = session.failures,
             session'.stream = session.stream, session'.pump = session.pump,
             DOMAIN streams' = DOMAIN streams,
             \A k \in DOMAIN streams :
               /\ streams'[k].due = streams[k].due
               /\ streams[k].dead => streams'[k].dead
               /\ streams[k].closing => streams'[k].closing
      PROVE  OnePump' /\ Tables'
  <2>1. Aside
    BY <1>3 DEF Aside
  <2>2. OnePump' /\ NothingToAdd'
    BY <1>0, <1>3, <2>1, AsideKeeps DEF Tables
  <2>3. SpokenIsHeard'
    BY <1>0, <1>3 DEF Tables, SpokenIsHeard, Running, Live
  <2>4. ClosedIsRead'
    <3>1. \A p \in DOMAIN pumps : pumps[p].stream \in DOMAIN streams
      BY <1>0 DEF Typed
    <3> QED BY <1>0, <1>3, <3>1 DEF Tables, ClosedIsRead, Live
  <2> QED BY <2>2, <2>3, <2>4 DEF Tables
<1>4. CASE (\E paused \in BOOLEAN : ReceivePause(paused)) \/ Disconnect
  <2>1. /\ UNCHANGED <<speaking, main, pumps, status, streams>>
        /\ session'.call = session.call /\ session'.failures = session.failures
        /\ session'.stream = session.stream /\ session'.pump = session.pump
    BY <1>0, <1>4 DEF ReceivePause, Disconnect, Objects, clientVars, storeVars
  <2> QED BY <1>3, <2>1
<1>5. CASE ProviderDies
  <2>1. /\ UNCHANGED <<speaking, main, session, pumps, status>>
        /\ DOMAIN streams' = DOMAIN streams
        /\ \A k \in DOMAIN streams :
              /\ streams'[k].due = streams[k].due
              /\ streams[k].dead => streams'[k].dead
              /\ streams'[k].closing = streams[k].closing
    BY <1>0, <1>5, ProviderDiesDoes DEF clientVars, storeVars
  <2> QED BY <1>3, <2>1
<1> QED BY <1>1, <1>2, <1>4, <1>5, AudioKeeps DEF Client

LEMMA EngineStartsKeeps ==
  ASSUME IInv, Alone, EngineStarts
  PROVE  OnePump' /\ Tables'
<1> DEFINE new == Len(streams) + 1
           last == Len(pumps) + 1
<1>0. /\ Typed /\ MainInOrder
      /\ DOMAIN pumps = 1 .. Len(pumps) /\ Len(pumps) \in Nat
      /\ status \in [Meetings -> Statuses]
  BY TypedFacts DEF IInv, Order, Typed
<1>1. /\ main.pc = "starting" /\ main.next \in Meetings /\ main.next = speaking
      /\ main' = Idle /\ speaking' = speaking
      /\ streams'[new] = NewStream
      /\ Len(pumps') = last /\ DOMAIN pumps' = 1 .. last
      /\ \A p \in DOMAIN pumps : pumps'[p] = pumps[p]
      /\ pumps'[last] = [pc |-> "fresh", stream |-> new, spare |-> 0,
                         call |-> main.next, barren |-> 0]
      /\ session'.stream = new /\ session'.pump = last /\ session'.call = main.next
      /\ status' = [status EXCEPT ![main.next] = "RECORDING"]
  BY <1>0, EngineStartsDoes DEF clientVars
<1> HIDE DEF new, last
<1>2. \A p \in DOMAIN pumps' : pumps'[p].pc # "done" => p = last
  <2> SUFFICES ASSUME NEW p \in DOMAIN pumps', p # last
               PROVE  pumps'[p].pc = "done"
    OBVIOUS
  <2>1. p \in DOMAIN pumps
    BY <1>0, <1>1 DEF last
  <2> QED BY <1>1, <2>1 DEF Alone, Live
<1>3. /\ pumps'[last].pc = "fresh" /\ pumps'[last].stream = new /\ pumps'[last].spare = 0
      /\ pumps'[last].call = main.next
      /\ streams'[new].due = <<>>
      /\ main'.pc = "run" /\ last # 0
  BY <1>0, <1>1 DEF NewStream, Idle, last
<1>4. OnlyTheLast'
  BY <1>1, <1>2 DEF OnlyTheLast, Live
<1>5. SpareUnused'
  BY <1>2, <1>3 DEF SpareUnused, Live
<1>6. SameStream'
  BY <1>1, <1>2, <1>3 DEF SameStream, Live
<1>7. ReadsOwnAudio'
  BY <1>2, <1>3 DEF ReadsOwnAudio, Live
<1>8. SameMeeting' /\ CountsBarren'
  BY <1>1, <1>2, <1>3 DEF SameMeeting, CountsBarren, Live
<1>9. SpokenIsHeard'
  BY <1>0, <1>1, <1>3 DEF SpokenIsHeard, Running
<1>10. ClosedIsRead' /\ NothingToAdd'
  BY <1>2, <1>3 DEF ClosedIsRead, NothingToAdd, Live
<1> QED BY <1>4, <1>5, <1>6, <1>7, <1>8, <1>9, <1>10 DEF OnePump, Tables

LEMMA MainKeeps ==
  ASSUME IInv, Alone, Alone', Main
  PROVE  OnePump' /\ Tables'
<1>0. /\ Order /\ OnePump /\ Tables /\ Typed /\ MainInOrder /\ LastOwned
      /\ DOMAIN pumps = 1 .. Len(pumps)
      /\ main.pump \in 0 .. Len(pumps) /\ status \in [Meetings -> Statuses]
      /\ \A p \in DOMAIN pumps : pumps[p].stream \in DOMAIN streams
  BY TypedFacts DEF IInv, Order, Typed
<1>1. CASE CloseReturns \/ CloseRaises \/ Drained \/ DrainTimesOut
  <2>1. /\ \/ /\ main'.pc = "draining" /\ main.pc = "closing" /\ main.pump # 0
              /\ main'.next = main.next /\ main'.pump = main.pump
              /\ session' = session /\ CloseReturns
           \/ /\ main'.pc = IF main.next = Nothing THEN "run" ELSE "starting"
              /\ main'.next = main.next /\ main'.pump = 0
              /\ session'.call = IF main.next = Nothing THEN session.call ELSE main.next
        /\ main.pc \in {"closing", "draining"}
        /\ session'.pump = session.pump /\ session'.stream = session.stream
        /\ session'.failures = session.failures
        /\ UNCHANGED <<clientVars, faults, transcript>>
        /\ DOMAIN streams' = DOMAIN streams
        /\ \A k \in DOMAIN streams :
             /\ streams'[k].due = streams[k].due
             /\ streams[k].dead => streams'[k].dead
             /\ streams[k].closing => streams'[k].closing
        /\ Len(pumps') = Len(pumps) /\ DOMAIN pumps' = DOMAIN pumps
        /\ \A p \in DOMAIN pumps :
             pumps'[p] = pumps[p] \/ (pumps'[p].pc = "done" /\ p = main.pump)
    BY <1>0, <1>1, MainDoes
  <2>2. Aside
    BY <2>1 DEF Aside
  <2>3. OnePump' /\ ((NothingToAdd /\ status' = status) => NothingToAdd')
    BY <1>0, <2>2, AsideKeeps
  <2>4. SpokenIsHeard' /\ ClosedIsRead'
    <3>1. main.next = speaking /\ speaking' = speaking
      BY <1>0, <2>1 DEF MainInOrder, clientVars
    <3> QED BY <2>1, <3>1 DEF SpokenIsHeard, ClosedIsRead, Running
  <2>5. CASE status' = status
    BY <1>0, <2>3, <2>4, <2>5 DEF Tables
  <2>6. CASE Drained \/ DrainTimesOut
    <3>1. main.pc = "draining" /\ (pumps'[main.pump].pc = "done" \/ main.pump \notin DOMAIN pumps)
      <4>1. CASE Drained
        BY <4>1 DEF Drained
      <4>2. CASE DrainTimesOut
        <5>1. main.pc = "draining" /\ pumps' = Cancelled(main.pump) /\ pumps \in Seq(Pumps)
          BY <1>0, <4>2 DEF DrainTimesOut, Typed
        <5> QED BY <5>1, CancelledPump
      <4> QED BY <2>6, <4>1, <4>2
    <3>2. main.pump = Len(pumps)
      BY <1>0, <3>1 DEF MainInOrder, LastOwned
    <3>3. \A p \in DOMAIN pumps : pumps'[p].pc = "done"
      <4> SUFFICES ASSUME NEW p \in DOMAIN pumps PROVE pumps'[p].pc = "done"
        OBVIOUS
      <4>1. p = Len(pumps) \/ pumps[p].pc = "done"
        BY <1>0 DEF OnePump, OnlyTheLast, Live
      <4> QED BY <2>1, <3>1, <3>2, <4>1
    <3>4. NothingToAdd'
      BY <2>1, <3>3 DEF NothingToAdd, Live
    <3> QED BY <2>3, <2>4, <3>4 DEF Tables
  <2>7. CASE CloseRaises /\ main.pump # 0
    <3>1. /\ main.pc = "closing" /\ streams[main.stream].dead
          /\ UNCHANGED <<streams, pumps>>
      BY <2>7 DEF CloseRaises
    <3>2. ASSUME NEW p \in DOMAIN pumps, Live(p)
          PROVE  streams[pumps[p].stream].dead \/ streams[pumps[p].stream].due = <<>>
      BY <1>0, <2>7, <3>1, <3>2 DEF Tables, ClosedIsRead
    <3>3. NothingToAdd'
      BY <3>1, <3>2 DEF NothingToAdd, Live
    <3> QED BY <2>3, <2>4, <3>3 DEF Tables
  <2> QED BY <1>1, <2>5, <2>6, <2>7 DEF CloseReturns, CloseRaises, storeVars
<1>2. CASE EngineFails \/ Leave
  <2>1. Shutdown /\ status' = status
    BY <1>2 DEF EngineFails, Leave, storeVars
  <2>2. /\ main' = [Idle EXCEPT !.pc = "done"]
        /\ session'.stream = 0 /\ session'.pump = 0
        /\ session'.call = session.call /\ session'.failures = session.failures
        /\ streams' \in Seq(Streams) /\ Len(streams') = Len(streams)
        /\ \A s \in DOMAIN streams :
             /\ streams'[s].due = streams[s].due
             /\ streams[s].dead => streams'[s].dead
             /\ streams[s].closing => streams'[s].closing
        /\ pumps' \in Seq(Pumps) /\ Len(pumps') = Len(pumps)
        /\ \A p \in DOMAIN pumps :
             IF p = session.pump THEN pumps'[p].pc = "done" ELSE pumps'[p] = pumps[p]
    BY <1>0, <2>1, ShutdownIsTyped
  <2>3. DOMAIN pumps' = DOMAIN pumps /\ DOMAIN streams' = DOMAIN streams
    BY <1>0, <2>2, TypedFacts, LenProperties
  <2>4. Aside
    BY <2>2, <2>3 DEF Aside
  <2>5. OnePump' /\ NothingToAdd'
    BY <1>0, <2>1, <2>4, AsideKeeps DEF Tables
  <2>6. SpokenIsHeard' /\ ClosedIsRead'
    BY <2>2 DEF SpokenIsHeard, ClosedIsRead, Running, Idle
  <2> QED BY <2>5, <2>6 DEF Tables
<1> QED BY <1>1, <1>2, EngineStartsKeeps DEF Main

\* After a step of the running pump it is the only one that may still run.
LEMMA OnlyMoves ==
  ASSUME Typed, OnlyTheLast, NEW p \in DOMAIN pumps, Live(p), MovesOnly(p)
  PROVE  /\ OnlyTheLast' /\ p = Len(pumps) /\ Len(pumps') = p
         /\ DOMAIN pumps' = DOMAIN pumps
         /\ \A q \in DOMAIN pumps' : pumps'[q].pc # "done" => q = p
         /\ UNCHANGED <<speaking, main>> /\ pumps'[p].call = pumps[p].call
         /\ session'.call = session.call /\ session'.pump = session.pump
<1>1. p = Len(pumps) /\ \A q \in DOMAIN pumps : q # p => pumps[q].pc = "done"
  BY DEF OnlyTheLast, Live
<1>2. \A q \in DOMAIN pumps' : pumps'[q].pc # "done" => q = p
  BY <1>1 DEF MovesOnly
<1> QED BY <1>1, <1>2 DEF MovesOnly, OnlyTheLast, Live

\* A step after which the pump reads the stream it read, and nothing was added.
LEMMA StaysKeeps ==
  ASSUME IInv, NEW p \in DOMAIN pumps, Live(p), MovesOnly(p), Stays(p),
         pumps'[p].pc # "swapping",
         LET s == pumps[p].stream IN
         /\ DOMAIN streams' = DOMAIN streams
         /\ \A k \in DOMAIN streams : k # s => streams'[k] = streams[k]
         /\ streams'[s].dead = streams[s].dead
         /\ streams[s].due = <<>> => streams'[s].due = <<>>
         /\ \A i \in DOMAIN streams'[s].due : streams'[s].due[i] = pumps[p].call,
         pumps'[p].pc \notin {"fresh", "done"} => session'.failures <= pumps'[p].barren,
         status' = status \/ pumps'[p].pc = "done"
  PROVE  OnePump' /\ Tables'
<1> DEFINE s == pumps[p].stream
<1>0. /\ Typed /\ OnePump /\ Tables
      /\ s \in DOMAIN streams /\ pumps[p].spare \in 0 .. Len(streams)
      /\ DOMAIN streams = 1 .. Len(streams) /\ Len(streams) \in Nat
  BY TypedFacts DEF IInv, Order, Typed
<1>1. /\ OnlyTheLast' /\ p = Len(pumps) /\ Len(pumps') = p
      /\ DOMAIN pumps' = DOMAIN pumps
      /\ \A q \in DOMAIN pumps' : pumps'[q].pc # "done" => q = p
      /\ UNCHANGED <<speaking, main>> /\ pumps'[p].call = pumps[p].call
      /\ session'.call = session.call /\ session'.pump = session.pump
  BY <1>0, OnlyMoves DEF OnePump
<1>2. pumps'[p].stream = s /\ pumps'[p].spare = pumps[p].spare /\ session'.stream = session.stream
  BY DEF Stays
<1>3. SpareUnused'
  <2> SUFFICES ASSUME pumps[p].spare # 0
               PROVE  /\ session.stream # pumps[p].spare
                      /\ streams'[pumps[p].spare].due = <<>>
    BY <1>1, <1>2 DEF SpareUnused, Live
  <2>1. /\ session.stream # pumps[p].spare /\ streams[pumps[p].spare].due = <<>>
        /\ pumps[p].spare \in DOMAIN streams
    BY <1>0 DEF OnePump, SpareUnused
  <2> QED BY <1>0, <2>1
<1>4. SameStream'
  BY <1>0, <1>1, <1>2 DEF OnePump, SameStream, Live
<1>5. ReadsOwnAudio'
  BY <1>1, <1>2 DEF ReadsOwnAudio, Live
<1>6. SameMeeting' /\ CountsBarren'
  BY <1>0, <1>1 DEF OnePump, SameMeeting, CountsBarren, Live
<1>7. SpokenIsHeard'
  BY <1>0, <1>1 DEF Tables, SpokenIsHeard, Live, Running
<1>8. ClosedIsRead'
  BY <1>0, <1>1, <1>2 DEF Tables, ClosedIsRead, Live
<1>9. NothingToAdd'
  BY <1>0, <1>1, <1>2 DEF Tables, NothingToAdd, Live
<1> QED BY <1>1, <1>3, <1>4, <1>5, <1>6, <1>7, <1>8, <1>9 DEF OnePump, Tables

\* A step after which the pump reads a stream, or is about to, that holds nothing.
LEMMA MovesOnKeeps ==
  ASSUME IInv, NEW p \in DOMAIN pumps, Live(p), MovesOnly(p),
         pumps'[p].pc = "reading" /\ pumps'[p].spare = 0,
         pumps[p].pc # "fresh",
         session'.stream = pumps'[p].stream, streams'[pumps'[p].stream].due = <<>>,
         session'.failures = session.failures, pumps'[p].barren = pumps[p].barren,
         status' = status
  PROVE  OnePump' /\ Tables'
<1>0. Typed /\ OnePump /\ Tables
  BY DEF IInv, Order
<1>1. /\ OnlyTheLast' /\ p = Len(pumps) /\ Len(pumps') = p
      /\ DOMAIN pumps' = DOMAIN pumps
      /\ \A q \in DOMAIN pumps' : pumps'[q].pc # "done" => q = p
      /\ UNCHANGED <<speaking, main>> /\ pumps'[p].call = pumps[p].call
      /\ session'.call = session.call /\ session'.pump = session.pump
  BY <1>0, OnlyMoves DEF OnePump
<1>2. SpareUnused' /\ SameStream' /\ ReadsOwnAudio'
  BY <1>1 DEF SpareUnused, SameStream, ReadsOwnAudio, Live
<1>3. SameMeeting' /\ CountsBarren'
  BY <1>0, <1>1 DEF OnePump, SameMeeting, CountsBarren, Live
<1>4. SpokenIsHeard'
  BY <1>0, <1>1 DEF Tables, SpokenIsHeard, Live, Running
<1>5. ClosedIsRead' /\ NothingToAdd'
  BY <1>1 DEF ClosedIsRead, NothingToAdd, Live
<1> QED BY <1>1, <1>2, <1>3, <1>4, <1>5 DEF OnePump, Tables

LEMMA PumpKeeps ==
  ASSUME IInv, NEW p \in DOMAIN pumps, Pump(p)
  PROVE  OnePump' /\ Tables'
<1> DEFINE s == pumps[p].stream
<1>0. /\ Typed /\ OnePump /\ Tables /\ SwapsReady
      /\ s \in DOMAIN streams /\ pumps[p].spare \in 0 .. Len(streams)
      /\ DOMAIN streams = 1 .. Len(streams) /\ Len(streams) \in Nat
      /\ streams[s].due \in Seq(Meetings) /\ pumps[p].barren \in Nat
      /\ session.failures \in Nat /\ session.stream \in 0 .. Len(streams)
  <2>1. /\ Typed /\ OnePump /\ Tables /\ SwapsReady
        /\ s \in DOMAIN streams /\ pumps[p].spare \in 0 .. Len(streams)
        /\ DOMAIN streams = 1 .. Len(streams) /\ Len(streams) \in Nat
        /\ streams[s] \in Streams /\ pumps[p] \in Pumps /\ session \in Objects
        /\ session.stream \in 0 .. Len(streams)
    BY TypedFacts DEF IInv, Order, Typed
  <2> QED BY <2>1, BoundsAssumption DEF Streams, Pumps, Objects
<1>1. Live(p) => \A i \in DOMAIN streams[s].due : streams[s].due[i] = pumps[p].call
  BY <1>0 DEF OnePump, ReadsOwnAudio
<1>2. (Live(p) /\ pumps[p].pc # "fresh") => session.failures <= pumps[p].barren
  BY <1>0 DEF OnePump, CountsBarren
<1>3. CASE Begins(p)
  <2>1. /\ MovesOnly(p) /\ Stays(p) /\ Live(p) /\ UNCHANGED <<streams, status>>
        /\ session'.failures = 0 /\ pumps'[p].pc \in {"reading", "done"}
        /\ pumps'[p].barren = pumps[p].barren
    BY <1>0, <1>3, BeginsDoes
  <2> QED BY <1>0, <1>1, <2>1, StaysKeeps
<1>4. CASE Hears(p)
  <2>1. /\ MovesOnly(p) /\ Stays(p) /\ Live(p) /\ UNCHANGED status
        /\ session'.failures = 0 /\ pumps'[p].pc \in {"reading", "done"}
        /\ pumps'[p].barren = 0 /\ streams[s].due # <<>>
        /\ DOMAIN streams' = DOMAIN streams
        /\ \A k \in DOMAIN streams : k # s => streams'[k] = streams[k]
        /\ streams'[s].due = Tail(streams[s].due)
        /\ streams'[s].dead = streams[s].dead
    BY <1>0, <1>4, HearsDoes
  <2>2. \A i \in DOMAIN streams'[s].due : streams'[s].due[i] = pumps[p].call
    <3> DEFINE d == streams[s].due
    <3>1. d \in Seq(Meetings) /\ d # <<>> /\ \A i \in DOMAIN d : d[i] = pumps[p].call
      BY <1>0, <1>1, <2>1
    <3> HIDE DEF d
    <3>2. \A i \in DOMAIN Tail(d) : Tail(d)[i] = pumps[p].call
      BY <3>1, HeadTailProperties, LenProperties
    <3> QED BY <2>1, <3>2 DEF d
  <2>3. /\ pumps'[p].pc # "swapping" /\ session'.failures <= pumps'[p].barren
        /\ streams[s].due = <<>> => streams'[s].due = <<>>
    BY <2>1
  <2> QED BY <2>1, <2>2, <2>3, StaysKeeps
<1>5. CASE Resets(p)
  <2>1. /\ MovesOnly(p) /\ Stays(p) /\ Live(p) /\ UNCHANGED <<streams, status>>
        /\ session'.failures = session.failures + 1 /\ pumps[p].pc = "reading"
        /\ pumps'[p].pc \in {"backoff", "done"} /\ pumps'[p].barren = pumps[p].barren + 1
    BY <1>0, <1>5, ResetsDoes
  <2>2. session'.failures <= pumps'[p].barren
    BY <1>0, <1>2, <2>1
  <2> QED BY <1>0, <1>1, <2>1, <2>2, StaysKeeps
<1>6. CASE FailsMeeting(p)
  <2>1. /\ MovesOnly(p) /\ Stays(p) /\ Live(p) /\ UNCHANGED <<streams>> /\ pumps'[p].pc = "done"
    BY <1>0, <1>6, FailsMeetingDoes
  <2> QED BY <1>0, <1>1, <2>1, StaysKeeps
<1>7. CASE RestartFails(p) \/ GivesUp(p)
  <2>1. /\ MovesOnly(p) /\ Stays(p) /\ Live(p) /\ UNCHANGED <<streams, status>>
        /\ session'.failures = session.failures
        /\ pumps[p].pc \in {"reading", "backoff"} /\ pumps'[p].pc \in {"reading", "done"}
        /\ pumps'[p].barren = pumps[p].barren
    BY <1>0, <1>7, ReturnsDoes
  <2> QED BY <1>0, <1>1, <1>2, <2>1, StaysKeeps
<1>8. CASE Restarts(p)
  <2> DEFINE new == Len(streams) + 1
  <2>1. /\ MovesOnly(p) /\ Live(p) /\ UNCHANGED status
        /\ session'.failures = session.failures
        /\ pumps[p].pc = "backoff" /\ pumps'[p].barren = pumps[p].barren
        /\ DOMAIN streams' = 1 .. new
        /\ \A k \in DOMAIN streams :
             /\ streams'[k].due = streams[k].due /\ streams'[k].dead = streams[k].dead
             /\ streams'[k].closing = (streams[k].closing \/ k = s)
        /\ streams'[new].due = <<>>
        /\ \/ /\ pumps'[p].pc = "swapping" /\ pumps'[p].stream = s /\ pumps'[p].spare = new
              /\ session'.stream = session.stream
           \/ /\ pumps'[p].pc = "reading" /\ pumps'[p].stream = new /\ pumps'[p].spare = 0
              /\ session'.stream = new
    BY <1>0, <1>8, RestartsDoes DEF NewStream
  <2> HIDE DEF new
  <2>2. CASE pumps'[p].pc = "reading"
    BY <2>1, <2>2, MovesOnKeeps
  <2>3. CASE pumps'[p].pc = "swapping"
    <3>1. pumps'[p].stream = s /\ pumps'[p].spare = new /\ session'.stream = session.stream
      BY <2>1, <2>3
    <3>2. /\ OnlyTheLast' /\ p = Len(pumps) /\ Len(pumps') = p
          /\ DOMAIN pumps' = DOMAIN pumps
          /\ \A q \in DOMAIN pumps' : pumps'[q].pc # "done" => q = p
          /\ UNCHANGED <<speaking, main>> /\ pumps'[p].call = pumps[p].call
          /\ session'.call = session.call /\ session'.pump = session.pump
      BY <1>0, <2>1, OnlyMoves DEF OnePump
    <3>3. SpareUnused'
      <4>1. session.stream # new
        BY <1>0 DEF new
      <4> QED BY <2>1, <3>1, <3>2, <4>1 DEF SpareUnused, Live
    <3>4. SameStream' /\ ReadsOwnAudio'
      <4>1. streams'[s].due = streams[s].due /\ streams'[s].closing
        BY <1>0, <2>1
      <4> QED BY <1>0, <1>1, <2>1, <3>1, <3>2, <4>1 DEF OnePump, SameStream, ReadsOwnAudio, Live
    <3>5. SameMeeting' /\ CountsBarren'
      BY <1>0, <2>1, <3>2 DEF OnePump, SameMeeting, CountsBarren, Live
    <3>6. SpokenIsHeard'
      BY <1>0, <2>1, <3>2 DEF Tables, SpokenIsHeard, Live, Running
    <3>7. ClosedIsRead' /\ NothingToAdd'
      <4>1. streams'[s].due = streams[s].due /\ streams'[s].dead = streams[s].dead
        BY <1>0, <2>1
      <4> QED BY <1>0, <2>1, <3>1, <3>2, <4>1 DEF Tables, ClosedIsRead, NothingToAdd, Live
    <3> QED BY <3>2, <3>3, <3>4, <3>5, <3>6, <3>7 DEF OnePump, Tables
  <2> QED BY <2>1, <2>2, <2>3
<1>9. CASE Swaps(p)
  <2>1. pumps[p].spare # 0
    BY <1>0, <1>9 DEF SwapsReady, Swaps, At
  <2>2. /\ MovesOnly(p) /\ Live(p) /\ UNCHANGED status
        /\ session'.failures = session.failures
        /\ pumps[p].pc = "swapping" /\ pumps'[p].barren = pumps[p].barren
        /\ \A k \in DOMAIN streams : streams'[k].due = streams[k].due
        /\ pumps[p].spare \in DOMAIN streams
        /\ pumps'[p].pc = "reading" /\ pumps'[p].stream = pumps[p].spare /\ pumps'[p].spare = 0
        /\ session'.stream = pumps[p].spare
    BY <1>0, <1>9, <2>1, SwapsDoes
  <2>3. streams'[pumps[p].spare].due = <<>>
    BY <1>0, <2>1, <2>2 DEF OnePump, SpareUnused
  <2> QED BY <2>2, <2>3, MovesOnKeeps
<1> QED BY <1>3, <1>4, <1>5, <1>6, <1>7, <1>8, <1>9 DEF Pump

LEMMA IInvInitially == Init => IInv
<1> SUFFICES ASSUME Init PROVE IInv
  OBVIOUS
<1>1. Order
  BY OrderInitially
<1>2. DOMAIN pumps = {} /\ main.pc = "run" /\ speaking = Nothing
  BY DEF Init, Idle
<1>3. OnePump
  BY <1>2 DEF OnePump, OnlyTheLast, SpareUnused, SameStream, ReadsOwnAudio, SameMeeting, CountsBarren
<1>4. Tables
  BY <1>2 DEF Tables, SpokenIsHeard, ClosedIsRead, NothingToAdd
<1> QED BY <1>1, <1>3, <1>4 DEF IInv

LEMMA IInvStep == IInv /\ Alone /\ Alone' /\ [Next]_vars => IInv'
<1> SUFFICES ASSUME IInv, Alone, Alone', [Next]_vars PROVE IInv'
  OBVIOUS
<1>1. Order'
  BY OrderStep DEF IInv
<1>2. OnePump' /\ Tables'
  <2>1. CASE Client \/ ProviderDies
    BY <2>1, OutsideKeeps
  <2>2. CASE Main
    BY <2>2, MainKeeps
  <2>3. ASSUME NEW p \in DOMAIN pumps, Pump(p)
        PROVE  OnePump' /\ Tables'
    BY <2>3, PumpKeeps
  <2>4. CASE UNCHANGED vars
    <3>1. UNCHANGED <<speaking, main, session, streams, pumps, status>>
      BY <2>4 DEF vars, clientVars, storeVars
    <3>2. OnePump'
      BY <3>1 DEF IInv, OnePump, OnlyTheLast, SpareUnused, SameStream, ReadsOwnAudio,
                  SameMeeting, CountsBarren, Live
    <3>3. Tables'
      BY <3>1 DEF IInv, Tables, SpokenIsHeard, ClosedIsRead, NothingToAdd, Running, Live
    <3> QED BY <3>2, <3>3
  <2> QED BY <2>1, <2>2, <2>3, <2>4 DEF Next
<1> QED BY <1>1, <1>2 DEF IInv

LEMMA AloneKeepsIInv == Spec /\ []Alone => []IInv
BY IInvInitially, IInvStep, PTL DEF Spec

\* However often the provider resets and its stream is restarted, the session
\* feeds the stream that its pump reads.
THEOREM AudioIsRead == Spec /\ []Alone => []AudioGoesWhereItIsRead
<1>1. IInv => AudioGoesWhereItIsRead
  <2> SUFFICES ASSUME IInv, session.pump # 0,
                      pumps[session.pump].pc \in {"fresh", "reading", "backoff"}
               PROVE  session.stream = pumps[session.pump].stream
    BY DEF AudioGoesWhereItIsRead
  <2>1. session.pump \in DOMAIN pumps
    BY TypedFacts DEF IInv, Order, Typed
  <2> QED BY <2>1 DEF IInv, OnePump, SameStream, Live
<1> QED BY <1>1, AloneKeepsIInv, PTL

\* A result is written by the running pump, to the meeting that pump is of.
LEMMA WhoWrites ==
  ASSUME IInv, [Next]_vars, transcript' # transcript
  PROVE  \E p \in DOMAIN pumps :
           LET due == streams[pumps[p].stream].due IN
           /\ Live(p) /\ pumps[p].call \in Meetings
           /\ due # <<>> /\ due \in Seq(Meetings) /\ ~streams[pumps[p].stream].dead
           /\ transcript' = [transcript EXCEPT ![pumps[p].call] = Append(@, Head(due))]
           /\ UNCHANGED status
<1>0. Typed
  BY DEF IInv, Order
<1>1. PICK p \in DOMAIN pumps : Hears(p)
  <2>1. ASSUME NEW p \in DOMAIN pumps, Pump(p), ~Hears(p)
        PROVE  transcript' = transcript
    BY <2>1 DEF Pump, Begins, Resets, FailsMeeting, RestartFails, Restarts, Swaps, GivesUp, storeVars
  <2>2. CASE Main
    BY <2>2 DEF Main, CloseReturns, CloseRaises, Drained, DrainTimesOut, EngineStarts,
                EngineFails, Leave, storeVars
  <2>3. CASE Client \/ ProviderDies \/ UNCHANGED vars
    BY <2>3 DEF Client, ReceiveStart, ReceiveEnd, ReceivePause, ReceiveAudio, Disconnect,
                ProviderDies, storeVars, vars
  <2> QED BY <2>1, <2>2, <2>3 DEF Next
<1>2. /\ Live(p) /\ streams[pumps[p].stream].due # <<>> /\ ~streams[pumps[p].stream].dead
      /\ transcript' = [transcript EXCEPT ![pumps[p].call] =
                          Append(@, Head(streams[pumps[p].stream].due))]
      /\ UNCHANGED status
  BY <1>0, <1>1, HearsDoes
<1>3. pumps[p].call \in Meetings /\ streams[pumps[p].stream].due \in Seq(Meetings)
  <2>1. pumps[p] \in Pumps /\ streams[pumps[p].stream] \in Streams
    BY <1>0, TypedFacts DEF Typed
  <2> QED BY <2>1 DEF Pumps, Streams
<1> QED BY <1>1, <1>2, <1>3

\* The transcript of a meeting holds only what was spoken in it, whatever the
\* order of its starts, ends, resets and restarts.
THEOREM TranscriptIsOfItsMeeting == Spec /\ []Alone => []TranscriptOfItsMeeting
<1>1. Init => TranscriptOfItsMeeting
  BY DEF Init, TranscriptOfItsMeeting
<1>2. IInv /\ TranscriptOfItsMeeting /\ [Next]_vars => TranscriptOfItsMeeting'
  <2> SUFFICES ASSUME IInv, TranscriptOfItsMeeting, [Next]_vars,
                      transcript' # transcript,
                      NEW m \in Meetings, NEW i \in DOMAIN transcript'[m]
               PROVE  transcript'[m][i] = m
    BY DEF TranscriptOfItsMeeting
  <2>1. PICK p \in DOMAIN pumps :
           LET due == streams[pumps[p].stream].due IN
           /\ Live(p) /\ pumps[p].call \in Meetings /\ due # <<>> /\ due \in Seq(Meetings)
           /\ transcript' = [transcript EXCEPT ![pumps[p].call] = Append(@, Head(due))]
    BY WhoWrites
  <2> DEFINE c == pumps[p].call
             h == Head(streams[pumps[p].stream].due)
  <2>2. h = c
    <3> DEFINE due == streams[pumps[p].stream].due
    <3>1. due # <<>> /\ due \in Seq(Meetings) /\ \A k \in DOMAIN due : due[k] = c
      BY <2>1 DEF IInv, OnePump, ReadsOwnAudio
    <3> HIDE DEF due, c
    <3>2. 1 \in DOMAIN due /\ Head(due) = due[1]
      BY <3>1, HeadTailProperties, LenProperties, EmptySeq
    <3> QED BY <3>1, <3>2 DEF due
  <2>3. transcript \in [Meetings -> Seq(Meetings)]
    BY DEF IInv, Order, Typed
  <2>4. CASE m = c
    <3>1. transcript'[m] = Append(transcript[m], m) /\ transcript[m] \in Seq(Meetings)
      BY <2>1, <2>2, <2>3, <2>4
    <3>2. \A k \in DOMAIN transcript[m] : transcript[m][k] = m
      BY DEF TranscriptOfItsMeeting
    <3> QED BY <3>1, <3>2, AppendProperties, LenProperties
  <2>5. CASE m # c
    <3>1. transcript'[m] = transcript[m]
      BY <2>1, <2>3, <2>5
    <3> QED BY <3>1 DEF TranscriptOfItsMeeting
  <2> QED BY <2>4, <2>5
<1> QED BY <1>1, <1>2, AloneKeepsIInv, PTL DEF Spec

\* Nothing is added to the transcript of a meeting that ended or failed.
THEOREM EndedIsFinal == Spec /\ []Alone => EndedTranscriptIsFinal
<1>1. IInv /\ [Next]_vars =>
        [\A m \in Meetings : transcript'[m] # transcript[m] => status[m] = "RECORDING"]_vars
  <2> SUFFICES ASSUME IInv, [Next]_vars, NEW m \in Meetings, transcript'[m] # transcript[m]
               PROVE  status[m] = "RECORDING"
    OBVIOUS
  <2>1. PICK p \in DOMAIN pumps :
           LET due == streams[pumps[p].stream].due IN
           /\ Live(p) /\ due # <<>> /\ ~streams[pumps[p].stream].dead
           /\ transcript' = [transcript EXCEPT ![pumps[p].call] = Append(@, Head(due))]
    BY WhoWrites
  <2>2. m = pumps[p].call
    BY <2>1 DEF IInv, Order, Typed
  <2> QED BY <2>1, <2>2 DEF IInv, Tables, NothingToAdd
<1> QED BY <1>1, AloneKeepsIInv, PTL DEF EndedTranscriptIsFinal, Spec

\* Only a reset beyond the budget fails a meeting.
LEMMA WhoFails ==
  ASSUME IInv, [Next]_vars, NEW m \in Meetings, status'[m] = "FAILED", status[m] # "FAILED"
  PROVE  \E p \in DOMAIN pumps : FailsMeeting(p)
<1>0. status \in [Meetings -> Statuses]
  BY DEF IInv, Order, Typed
<1>1. ASSUME NEW p \in DOMAIN pumps, Pump(p), ~FailsMeeting(p)
      PROVE  status' = status
  BY <1>1 DEF Pump, Begins, Hears, Resets, RestartFails, Restarts, Swaps, GivesUp, storeVars
<1>2. CASE Main
  <2>1. \/ status' = status \/ status' = Ended(session.call)
        \/ status' = [status EXCEPT ![main.next] = "RECORDING"]
    BY <1>2 DEF Main, CloseReturns, CloseRaises, Drained, DrainTimesOut, EngineStarts,
                EngineFails, Leave, storeVars
  <2> QED BY <1>0, <2>1 DEF Ended
<1>3. CASE Client \/ ProviderDies \/ UNCHANGED vars
  <2>1. ASSUME NEW next, Close(next) PROVE status' = status
    BY <2>1 DEF Close, BeginClose
  <2> QED BY <1>3, <2>1 DEF Client, ReceiveStart, ReceiveEnd, ReceivePause, ReceiveAudio, Disconnect,
                ProviderDies, storeVars, vars
<1> QED BY <1>1, <1>2, <1>3 DEF Next

\* A meeting fails only after more than MaxConsecutive resets of its own provider
\* with no result between them: the budget of the code, not that of the documents
\* (ResetPolicy).
THEOREM FailedLate == Spec /\ []Alone => FailsAfterBarrenResets
<1>1. IInv /\ [Next]_vars =>
        [\A m \in Meetings : (status'[m] = "FAILED" /\ status[m] # "FAILED") =>
           \E p \in DOMAIN pumps' : pumps'[p].call = m /\ pumps'[p].barren > MaxConsecutive]_vars
  <2> SUFFICES ASSUME IInv, [Next]_vars, NEW m \in Meetings,
                      status'[m] = "FAILED", status[m] # "FAILED"
               PROVE  \E p \in DOMAIN pumps' :
                        pumps'[p].call = m /\ pumps'[p].barren > MaxConsecutive
    OBVIOUS
  <2>1. PICK p \in DOMAIN pumps : FailsMeeting(p)
    BY WhoFails
  <2>2. /\ MovesOnly(p) /\ Live(p) /\ status' = Failed(session.call)
        /\ session.failures >= MaxConsecutive /\ pumps[p].pc = "reading"
        /\ pumps'[p].barren = pumps[p].barren + 1
    BY <2>1, FailsMeetingDoes DEF IInv, Order
  <2>3. m = session.call
    BY <2>2 DEF Failed, IInv, Order, Typed
  <2>4. pumps'[p].call = m /\ p \in DOMAIN pumps'
    BY <2>2, <2>3 DEF MovesOnly, IInv, OnePump, SameMeeting
  <2>5. session.failures <= pumps[p].barren
    BY <2>2 DEF IInv, OnePump, CountsBarren
  <2>6. pumps[p].barren \in Nat /\ session.failures \in Nat
    <3>1. pumps[p] \in Pumps /\ session \in Objects
      BY TypedFacts DEF IInv, Order, Typed
    <3> QED BY <3>1, BoundsAssumption DEF Pumps, Objects
  <2> QED BY <2>2, <2>4, <2>5, <2>6, BoundsAssumption
<1> QED BY <1>1, AloneKeepsIInv, PTL DEF FailsAfterBarrenResets, Spec

-----------------------------------------------------------------------------
(* When a START finds no pump running *)

\* A closing that raises on a dead connection leaves its pump behind.
Abandons == CloseRaises /\ main.pump # 0

\* A pump is running for the session, or is being waited for.
Owned ==
  \A p \in DOMAIN pumps : Live(p) =>
    \/ main.pc = "run" /\ p = session.pump
    \/ main.pc \in {"closing", "draining"} /\ p = main.pump

\* Whatever a pump does, it moves no other.
LEMMA PumpMoves ==
  ASSUME Typed, SwapsReady, NEW p \in DOMAIN pumps, Pump(p)
  PROVE  MovesOnly(p) /\ Live(p)
<1>1. CASE ~Swaps(p)
  BY <1>1, BeginsDoes, HearsDoes, ResetsDoes, FailsMeetingDoes, ReturnsDoes, RestartsDoes DEF Pump
<1>2. CASE Swaps(p)
  <2>1. pumps[p].spare # 0
    BY <1>2 DEF SwapsReady, Swaps, At
  <2> QED BY <1>2, <2>1, SwapsDoes
<1> QED BY <1>1, <1>2

\* A closing that is over, and not abandoned, leaves no pump running.
LEMMA ClosingEndsThePump ==
  ASSUME Order, Owned, ~Abandons, CloseReturns \/ CloseRaises \/ Drained \/ DrainTimesOut,
         main'.pc # "draining"
  PROVE  \A p \in DOMAIN pumps' : pumps'[p].pc = "done"
<1>1. /\ pumps \in Seq(Pumps) /\ DOMAIN pumps = 1 .. Len(pumps) /\ Len(pumps) \in Nat
      /\ main.pump \in 0 .. Len(pumps) /\ main \in Mains
      /\ main.pc \in {"closing", "draining"}
      /\ main.pc = "draining" => main.pump # 0
  BY TypedFacts DEF Order, Typed, MainInOrder, CloseReturns, CloseRaises, Drained, DrainTimesOut
<1>2. \A p \in DOMAIN pumps : pumps[p].pc = "done" \/ p = main.pump
  BY <1>1 DEF Owned, Live
<1>3. CASE CloseReturns \/ CloseRaises
  <2>1. main.pump = 0 /\ pumps' = pumps
    BY <1>1, <1>3 DEF CloseReturns, CloseRaises, Abandons, Mains
  <2> QED BY <1>1, <1>2, <2>1
<1>4. CASE Drained
  BY <1>2, <1>4 DEF Drained
<1>5. CASE DrainTimesOut
  <2>1. main.pump \in DOMAIN pumps /\ pumps' = Cancelled(main.pump)
    BY <1>1, <1>5 DEF DrainTimesOut
  <2>2. /\ DOMAIN pumps' = DOMAIN pumps /\ pumps'[main.pump].pc = "done"
        /\ \A q \in DOMAIN pumps : q # main.pump => pumps'[q] = pumps[q]
    <3>1. pumps \in Seq(Pumps)
      BY <1>1
    <3> QED BY <2>1, <3>1, CancelledPump
  <2> QED BY <1>2, <2>2
<1> QED BY <1>3, <1>4, <1>5

LEMMA OwnedStep == Order /\ Owned /\ [Next /\ ~Abandons]_vars => Owned'
<1> SUFFICES ASSUME Order, Owned, [Next /\ ~Abandons]_vars PROVE Owned'
  OBVIOUS
<1>0. /\ Typed /\ DOMAIN pumps = 1 .. Len(pumps) /\ Len(pumps) \in Nat
      /\ session.pump \in 0 .. Len(pumps)
  BY TypedFacts DEF Order, Typed
<1>1. ASSUME NEW next \in Meetings \cup {Nothing}, Running, Close(next), pumps' = pumps
      PROVE  Owned'
  <2>1. \A p \in DOMAIN pumps : Live(p) => p = session.pump
    BY <1>1 DEF Owned, Running
  <2>2. \/ session.pump = 0
        \/ main'.pc \in {"closing", "draining"} /\ main'.pump = session.pump
    <3>1. \/ session.pump = 0
          \/ main' = [pc |-> IF Open(session.stream) THEN "closing" ELSE "draining",
                      next |-> next, stream |-> session.stream, pump |-> session.pump]
      BY <1>0, <1>1, CloseDoes
    <3> QED BY <3>1
  <2> QED BY <1>0, <1>1, <2>1, <2>2 DEF Owned, Live
<1>2. CASE Client
  <2>1. CASE (\E m \in Meetings : ReceiveStart(m)) \/ ReceiveEnd
    BY <1>1, <2>1 DEF ReceiveStart, ReceiveEnd
  <2>2. CASE (\E paused \in BOOLEAN : ReceivePause(paused)) \/ ReceiveAudio \/ Disconnect
    <3>1. session \in Objects
      BY <1>0 DEF Typed
    <3>2. main' = main /\ pumps' = pumps /\ session'.pump = session.pump
      BY <2>2, <3>1 DEF ReceivePause, ReceiveAudio, Disconnect, Objects
    <3> QED BY <3>2 DEF Owned, Live
  <2> QED BY <1>2, <2>1, <2>2 DEF Client
<1>3. CASE Main /\ ~Abandons
  <2>1. CASE CloseReturns \/ CloseRaises \/ Drained \/ DrainTimesOut
    <3>1. CASE main'.pc # "draining"
      BY <1>3, <2>1, <3>1, ClosingEndsThePump DEF Owned, Live
    <3>2. CASE main'.pc = "draining"
      <4>1. /\ main.pc \in {"closing", "draining"} /\ DOMAIN pumps' = DOMAIN pumps
            /\ main'.pump = main.pump
            /\ \A p \in DOMAIN pumps : pumps'[p] = pumps[p] \/ pumps'[p].pc = "done"
        BY <2>1, <3>2, MainDoes
      <4> QED BY <3>2, <4>1 DEF Owned, Live
    <3> QED BY <3>1, <3>2
  <2>2. CASE EngineStarts
    <3>1. /\ main.pc = "starting" /\ main' = Idle
          /\ DOMAIN pumps' = 1 .. Len(pumps) + 1 /\ session'.pump = Len(pumps) + 1
          /\ \A p \in DOMAIN pumps : pumps'[p] = pumps[p]
      BY <1>0, <2>2, EngineStartsDoes DEF Order
    <3>2. \A p \in DOMAIN pumps : pumps[p].pc = "done"
      BY <3>1 DEF Owned, Live
    <3> QED BY <1>0, <3>1, <3>2 DEF Owned, Live, Idle
  <2>3. CASE EngineFails \/ Leave
    <3>1. Shutdown /\ main.pc \in {"starting", "run"}
      BY <2>3 DEF EngineFails, Leave, Running
    <3>2. /\ pumps' \in Seq(Pumps) /\ Len(pumps') = Len(pumps)
          /\ \A p \in DOMAIN pumps :
               IF p = session.pump THEN pumps'[p].pc = "done" ELSE pumps'[p] = pumps[p]
      BY <1>0, <3>1, ShutdownIsTyped
    <3>3. DOMAIN pumps' = DOMAIN pumps
      BY <1>0, <3>2, LenProperties
    <3> QED BY <3>1, <3>2, <3>3 DEF Owned, Live
  <2> QED BY <1>3, <2>1, <2>2, <2>3 DEF Main
<1>4. ASSUME NEW p \in DOMAIN pumps, Pump(p)
      PROVE  Owned'
  <2>1. MovesOnly(p) /\ Live(p)
    BY <1>0, <1>4, PumpMoves DEF Order
  <2> QED BY <2>1 DEF MovesOnly, Owned, Live
<1>5. CASE ProviderDies \/ UNCHANGED vars
  <2>1. UNCHANGED <<main, session, pumps>>
    BY <1>5 DEF ProviderDies, vars
  <2> QED BY <2>1 DEF Owned, Live
<1> QED BY <1>2, <1>3, <1>4, <1>5 DEF Next

\* While no closing is abandoned, a START finds no pump running.
THEOREM NoneAbandonedIsAlone == Spec /\ [][~Abandons]_vars => []Alone
<1>1. Init => Owned
  BY DEF Init, Owned
<1>2. Owned => Alone
  BY DEF Owned, Alone
<1>3. Order /\ Owned /\ [Next]_vars /\ [~Abandons]_vars => Owned'
  BY OwnedStep
<1> QED BY <1>1, <1>2, <1>3, OrderInitially, OrderStep, PTL DEF Spec

\* Without a fault of the provider only close() ends a connection, and no stream
\* is being closed by two tasks.
OnlyClosedDie ==
  /\ \A s \in DOMAIN streams : streams[s].dead => streams[s].closing
  /\ main.pc = "closing" =>
       streams[main.stream].closing /\ ~streams[main.stream].dead
  /\ \A p \in DOMAIN pumps : pumps[p].pc = "swapping" =>
       /\ streams[pumps[p].stream].closing
       /\ main.pc = "closing" => pumps[p].stream # main.stream

\* Where _close_session leaves the main task.
LEMMA CloseLeaves ==
  ASSUME Typed, NEW next \in Meetings \cup {Nothing}, Close(next)
  PROVE  /\ main'.next = next /\ (main'.pc = "run" => next = Nothing)
         /\ streams' = streams \/ streams' = Closing(session.stream)
         /\ main'.pc = "closing" =>
              /\ main'.stream = session.stream /\ Open(session.stream)
              /\ streams' = Closing(session.stream)
<1>1. \/ /\ UNCHANGED streams
         /\ main' = IF next = Nothing THEN Idle
                    ELSE [Idle EXCEPT !.pc = "starting", !.next = next]
      \/ /\ main' = [pc |-> IF Open(session.stream) THEN "closing" ELSE "draining",
                     next |-> next, stream |-> session.stream, pump |-> session.pump]
         /\ streams' = Closing(session.stream)
  BY CloseDoes
<1>2. CASE /\ UNCHANGED streams
           /\ main' = IF next = Nothing THEN Idle
                      ELSE [Idle EXCEPT !.pc = "starting", !.next = next]
  <2>1. CASE next = Nothing
    BY <1>2, <2>1 DEF Idle
  <2>2. CASE next # Nothing
    BY <1>2, <2>2 DEF Idle
  <2> QED BY <2>1, <2>2
<1>3. CASE /\ main' = [pc |-> IF Open(session.stream) THEN "closing" ELSE "draining",
                       next |-> next, stream |-> session.stream, pump |-> session.pump]
           /\ streams' = Closing(session.stream)
  BY <1>3
<1> QED BY <1>1, <1>2, <1>3

\* Only a stream that close() marked dies by its hand.
LEMMA MarkedStream ==
  ASSUME streams \in Seq(Streams), NEW s \in Nat,
         \A k \in DOMAIN streams : streams[k].dead => streams[k].closing,
         streams' = streams \/ streams' = Closing(s) \/ streams' = Closed(s)
  PROVE  /\ DOMAIN streams' = DOMAIN streams
         /\ \A k \in DOMAIN streams :
              /\ streams[k].closing => streams'[k].closing
              /\ streams'[k].dead => streams'[k].closing
<1>1. DOMAIN streams = 1 .. Len(streams)
  BY LenProperties
<1>2. CASE streams' = streams
  BY <1>2
<1>3. CASE streams' = Closing(s)
  BY <1>1, <1>3, ClosedStream
<1>4. CASE streams' = Closed(s)
  BY <1>1, <1>4, ClosedStream
<1> QED BY <1>2, <1>3, <1>4

\* With no fault left, pump p kills no stream that is not closing.
LEMMA FaultlessPump ==
  ASSUME Order, OnlyClosedDie, NEW p \in DOMAIN pumps, Pump(p)
  PROVE  /\ DOMAIN streams \subseteq DOMAIN streams'
         /\ \A k \in DOMAIN streams :
              /\ streams[k].closing => streams'[k].closing
              /\ streams'[k].dead => streams'[k].closing
              /\ streams'[k].dead => streams[k].dead
                   \/ (pumps[p].pc = "swapping" /\ k = pumps[p].stream)
         /\ \A k \in DOMAIN streams' : k \notin DOMAIN streams => ~streams'[k].dead
         /\ pumps'[p].pc = "swapping" =>
              /\ pumps'[p].stream = pumps[p].stream
              /\ streams'[pumps[p].stream].closing
              /\ ~streams[pumps[p].stream].closing
<1>0. /\ Typed /\ SwapsReady /\ Len(streams) \in Nat /\ DOMAIN streams = 1 .. Len(streams)
      /\ \A k \in DOMAIN streams : streams[k].dead => streams[k].closing
  BY TypedFacts DEF Order, OnlyClosedDie
<1>1. CASE Begins(p) \/ Resets(p) \/ FailsMeeting(p) \/ RestartFails(p) \/ GivesUp(p)
  <2>1. streams' = streams
    BY <1>1 DEF Begins, Resets, FailsMeeting, RestartFails, GivesUp
  <2>2. pumps'[p].pc # "swapping"
    <3>1. ASSUME Begins(p) PROVE pumps'[p].pc # "swapping"
      <4>1. pumps \in Seq(Pumps) /\ pumps[p] \in Pumps /\ p \in DOMAIN pumps
        BY <1>0, TypedFacts DEF Typed
      <4>2. PICK c \in {"done", "reading"} : pumps' = [pumps EXCEPT ![p].pc = c]
        BY <3>1 DEF Begins, Goto, Again
      <4>3. pumps'[p] = [pumps[p] EXCEPT !.pc = c]
        BY <4>1, <4>2
      <4> QED BY <4>1, <4>3 DEF Pumps
    <3>2. ASSUME RestartFails(p) \/ GivesUp(p) PROVE pumps'[p].pc # "swapping"
      BY <1>0, <3>2, ReturnsDoes
    <3>3. ASSUME Resets(p) PROVE pumps'[p].pc # "swapping"
      BY <1>0, <3>3, ResetsDoes
    <3>4. ASSUME FailsMeeting(p) PROVE pumps'[p].pc # "swapping"
      BY <1>0, <3>4, FailsMeetingDoes
    <3> QED BY <1>1, <3>1, <3>2, <3>3, <3>4
  <2> QED BY <1>0, <2>1, <2>2
<1>2. CASE Hears(p)
  <2> DEFINE s == pumps[p].stream
  <2>1. streams' = [streams EXCEPT ![s].due = Tail(@)]
    BY <1>2 DEF Hears
  <2>2. /\ DOMAIN streams' = DOMAIN streams
        /\ \A k \in DOMAIN streams :
             streams'[k] = IF k = s THEN [streams[k] EXCEPT !.due = Tail(@)] ELSE streams[k]
    BY <1>0, <2>1 DEF Typed
  <2>3. ASSUME NEW k \in DOMAIN streams
        PROVE  streams'[k].closing = streams[k].closing /\ streams'[k].dead = streams[k].dead
    <3>1. streams[k] \in Streams
      BY <1>0, TypedFacts
    <3> QED BY <2>2, <3>1 DEF Streams
  <2>4. pumps'[p].pc # "swapping"
    BY <1>0, <1>2, HearsDoes
  <2> QED BY <1>0, <2>2, <2>3, <2>4
<1>3. CASE Restarts(p)
  <2> DEFINE old == pumps[p].stream
             new == Len(streams) + 1
  <2>1. /\ DOMAIN streams' = 1 .. new
        /\ \A k \in DOMAIN streams :
             /\ streams'[k].dead = streams[k].dead
             /\ streams'[k].closing = (streams[k].closing \/ k = old)
        /\ streams'[new] = NewStream
        /\ \/ ~streams[old].closing /\ pumps'[p].stream = old
           \/ pumps'[p].pc = "reading"
    BY <1>0, <1>3, RestartsDoes
  <2>2. old \in DOMAIN streams
    BY <1>0 DEF Typed
  <2>3. ~streams'[new].dead
    BY <2>1 DEF NewStream
  <2>4. \A k \in DOMAIN streams' : k \notin DOMAIN streams => k = new
    BY <1>0, <2>1
  <2>5. /\ DOMAIN streams \subseteq DOMAIN streams'
        /\ \A k \in DOMAIN streams' : k \notin DOMAIN streams => ~streams'[k].dead
    <3>1. 1 .. Len(streams) \subseteq 1 .. Len(streams) + 1
      BY <1>0
    <3> QED BY <1>0, <2>1, <2>3, <2>4, <3>1
  <2> HIDE DEF old, new
  <2>6. old = pumps[p].stream
    BY DEF old
  <2>7. pumps'[p].pc = "swapping" => ~streams[old].closing /\ pumps'[p].stream = old
    BY <2>1
  <2>8. \A k \in DOMAIN streams :
          /\ streams[k].closing => streams'[k].closing
          /\ streams'[k].dead => streams[k].dead /\ streams'[k].closing
    BY <1>0, <2>1
  <2>9. streams'[old].closing
    BY <2>1, <2>2
  <2> QED BY <2>5, <2>6, <2>7, <2>8, <2>9
<1>4. CASE Swaps(p)
  <2>1. pumps[p].spare # 0
    BY <1>0, <1>4 DEF SwapsReady, Swaps, At
  <2>2. /\ pumps[p].pc = "swapping" /\ pumps'[p].pc = "reading"
        /\ DOMAIN streams' = DOMAIN streams
        /\ \A k \in DOMAIN streams :
             /\ streams'[k].dead = (streams[k].dead \/ k = pumps[p].stream)
             /\ streams'[k].closing = (streams[k].closing \/ k = pumps[p].stream)
    BY <1>0, <1>4, <2>1, SwapsDoes
  <2> QED BY <1>0, <2>2
<1> QED BY <1>1, <1>2, <1>3, <1>4 DEF Pump

LEMMA FaultlessStep ==
  MaxFaults = 0 /\ Order /\ OnlyClosedDie /\ [Next]_vars => OnlyClosedDie'
<1> SUFFICES ASSUME MaxFaults = 0, Order, OnlyClosedDie, [Next]_vars PROVE OnlyClosedDie'
  OBVIOUS
<1>0. /\ Typed /\ SwapsReady /\ MainInOrder
      /\ Len(streams) \in Nat /\ DOMAIN streams = 1 .. Len(streams)
      /\ Len(pumps) \in Nat /\ DOMAIN pumps = 1 .. Len(pumps)
      /\ streams \in Seq(Streams) /\ session.stream \in 0 .. Len(streams)
      /\ main.stream \in 0 .. Len(streams) /\ main \in Mains
      /\ \A p \in DOMAIN pumps : pumps[p].stream \in DOMAIN streams
  BY TypedFacts DEF Order, Typed
<1>1. ~Fault
  <2>1. faults = 0
    BY <1>0 DEF Typed
  <2> QED BY <2>1 DEF Fault
\* Steps in which no pump moves and no stream is opened.
<1>2. ASSUME DOMAIN streams' = DOMAIN streams, DOMAIN pumps' = DOMAIN pumps,
             \A p \in DOMAIN pumps : pumps'[p] = pumps[p] \/ pumps'[p].pc = "done",
             \A k \in DOMAIN streams :
               /\ streams[k].closing => streams'[k].closing
               /\ streams'[k].dead => streams'[k].closing,
             main'.pc # "closing" \/ (main' = main /\ UNCHANGED streams)
      PROVE  OnlyClosedDie'
  BY <1>0, <1>2 DEF OnlyClosedDie
<1>3. ASSUME NEW next \in Meetings \cup {Nothing}, Close(next), pumps' = pumps
      PROVE  OnlyClosedDie'
  <2>1. CASE main'.pc # "closing"
    <3>1. /\ streams' = streams \/ streams' = Closing(session.stream)
          /\ session.stream \in Nat
      BY <1>0, <1>3, CloseLeaves
    <3>2. /\ DOMAIN streams' = DOMAIN streams
          /\ \A k \in DOMAIN streams :
               /\ streams[k].closing => streams'[k].closing
               /\ streams'[k].dead => streams'[k].closing
      BY <1>0, <3>1, MarkedStream DEF OnlyClosedDie
    <3> QED BY <1>2, <1>3, <2>1, <3>2
  <2>2. CASE main'.pc = "closing"
    <3>1. /\ main'.stream = session.stream /\ Open(session.stream)
          /\ streams' = Closing(session.stream)
      BY <1>0, <1>3, <2>2, CloseLeaves
    <3> DEFINE t == session.stream
    <3>2. t \in DOMAIN streams /\ ~streams[t].closing /\ ~streams[t].dead
      BY <1>0, <3>1 DEF Open, OnlyClosedDie
    <3>3. /\ DOMAIN streams' = DOMAIN streams
          /\ \A k \in DOMAIN streams :
               /\ streams'[k].closing = (streams[k].closing \/ k = t)
               /\ streams'[k].dead = streams[k].dead
      BY <1>0, <3>1, ClosedStream
    <3>4. \A p \in DOMAIN pumps : pumps[p].pc = "swapping" =>
            streams[pumps[p].stream].closing /\ pumps[p].stream # t
      BY <3>2 DEF OnlyClosedDie
    <3> HIDE DEF t
    <3>5. main'.stream = t
      BY <3>1 DEF t
    <3> QED BY <1>0, <1>3, <3>2, <3>3, <3>4, <3>5 DEF OnlyClosedDie
  <2> QED BY <2>1, <2>2
<1>4. CASE Client
  <2>1. CASE (\E m \in Meetings : ReceiveStart(m)) \/ ReceiveEnd
    BY <1>3, <2>1 DEF ReceiveStart, ReceiveEnd
  <2>2. CASE (\E paused \in BOOLEAN : ReceivePause(paused)) \/ Disconnect
    <3>1. UNCHANGED <<main, streams, pumps>>
      BY <2>2 DEF ReceivePause, Disconnect
    <3> QED BY <3>1 DEF OnlyClosedDie
  <2>3. CASE ReceiveAudio
    <3> DEFINE t == session.stream
    <3>1. /\ main' = main /\ pumps' = pumps
          /\ \/ streams' = streams
             \/ streams' = [streams EXCEPT ![t].due = Append(@, speaking)]
      BY <2>3 DEF ReceiveAudio
    <3>2. /\ DOMAIN streams' = DOMAIN streams
          /\ \A k \in DOMAIN streams :
               streams'[k].closing = streams[k].closing /\ streams'[k].dead = streams[k].dead
      <4>1. CASE streams' = streams
        BY <4>1
      <4>2. CASE streams' = [streams EXCEPT ![t].due = Append(@, speaking)]
        <5>1. /\ DOMAIN streams' = DOMAIN streams
              /\ \A k \in DOMAIN streams :
                   streams'[k] = IF k = t THEN [streams[k] EXCEPT !.due = Append(@, speaking)]
                                 ELSE streams[k]
          BY <1>0, <4>2
        <5>2. ASSUME NEW k \in DOMAIN streams
              PROVE  streams'[k].closing = streams[k].closing /\ streams'[k].dead = streams[k].dead
          <6>1. streams[k] \in Streams
            BY <1>0, TypedFacts
          <6> QED BY <5>1, <6>1 DEF Streams
        <5> QED BY <5>1, <5>2
      <4> QED BY <3>1, <4>1, <4>2
    <3>3. main.pc = "closing" => main.stream \in DOMAIN streams
      BY <1>0 DEF MainInOrder
    <3> QED BY <1>0, <3>1, <3>2, <3>3 DEF OnlyClosedDie
  <2> QED BY <1>4, <2>1, <2>2, <2>3 DEF Client
<1>5. CASE Main
  <2>1. CASE CloseReturns \/ CloseRaises \/ Drained \/ DrainTimesOut
    <3>1. main'.pc # "closing"
      BY <2>1, MainDoes
    <3>2. streams' = streams \/ streams' = Closed(main.stream)
      BY <2>1 DEF CloseReturns, CloseRaises, Drained, DrainTimesOut
    <3>3. /\ DOMAIN pumps' = DOMAIN pumps
          /\ \A p \in DOMAIN pumps : pumps'[p] = pumps[p] \/ pumps'[p].pc = "done"
      BY <2>1, MainDoes
    <3>4. /\ DOMAIN streams' = DOMAIN streams
          /\ \A k \in DOMAIN streams :
               /\ streams[k].closing => streams'[k].closing
               /\ streams'[k].dead => streams'[k].closing
      BY <1>0, <3>2, MarkedStream DEF OnlyClosedDie
    <3> QED BY <1>2, <3>1, <3>3, <3>4
  <2>2. CASE EngineStarts
    <3>1. /\ main' = Idle /\ DOMAIN streams' = 1 .. Len(streams) + 1
          /\ \A k \in DOMAIN streams : streams'[k] = streams[k]
          /\ streams'[Len(streams) + 1] = NewStream
          /\ DOMAIN pumps' = 1 .. Len(pumps) + 1
          /\ \A p \in DOMAIN pumps : pumps'[p] = pumps[p]
          /\ pumps'[Len(pumps) + 1].pc = "fresh"
      BY <1>0, <2>2, EngineStartsDoes
    <3>2. \A k \in DOMAIN streams' : streams'[k].dead => streams'[k].closing
      BY <1>0, <3>1 DEF OnlyClosedDie, NewStream
    <3>3. \A p \in DOMAIN pumps' : pumps'[p].pc = "swapping" =>
            streams'[pumps'[p].stream].closing
      BY <1>0, <3>1 DEF OnlyClosedDie
    <3> QED BY <3>1, <3>2, <3>3 DEF OnlyClosedDie, Idle
  <2>3. CASE EngineFails
    BY <1>1, <2>3 DEF EngineFails
  <2>4. CASE Leave
    <3>1. Shutdown
      BY <2>4 DEF Leave
    <3>2. main'.pc = "done" /\ (streams' = streams \/ streams' = Closed(session.stream))
      BY <3>1 DEF Shutdown, Idle
    <3>3. /\ pumps' \in Seq(Pumps) /\ Len(pumps') = Len(pumps)
          /\ \A p \in DOMAIN pumps : pumps'[p] = pumps[p] \/ pumps'[p].pc = "done"
      BY <1>0, <3>1, ShutdownIsTyped
    <3>4. DOMAIN pumps' = DOMAIN pumps
      BY <1>0, <3>3, LenProperties
    <3>5. /\ DOMAIN streams' = DOMAIN streams
          /\ \A k \in DOMAIN streams :
               /\ streams[k].closing => streams'[k].closing
               /\ streams'[k].dead => streams'[k].closing
      BY <1>0, <3>2, MarkedStream DEF OnlyClosedDie
    <3> QED BY <1>2, <3>2, <3>3, <3>4, <3>5
  <2> QED BY <1>5, <2>1, <2>2, <2>3, <2>4 DEF Main
<1>6. CASE ProviderDies
  BY <1>1, <1>6 DEF ProviderDies
<1>7. ASSUME NEW p \in DOMAIN pumps, Pump(p)
      PROVE  OnlyClosedDie'
  <2>1. /\ main' = main /\ DOMAIN pumps' = DOMAIN pumps
        /\ \A q \in DOMAIN pumps : q # p => pumps'[q] = pumps[q]
    BY <1>0, <1>7, PumpMoves DEF MovesOnly
  <2>2. /\ DOMAIN streams \subseteq DOMAIN streams'
        /\ \A k \in DOMAIN streams :
              /\ streams[k].closing => streams'[k].closing
              /\ streams'[k].dead => streams'[k].closing
              /\ streams'[k].dead => streams[k].dead
                   \/ (pumps[p].pc = "swapping" /\ k = pumps[p].stream)
        /\ \A k \in DOMAIN streams' : k \notin DOMAIN streams => ~streams'[k].dead
        /\ pumps'[p].pc = "swapping" =>
              /\ pumps'[p].stream = pumps[p].stream
              /\ streams'[pumps[p].stream].closing
              /\ ~streams[pumps[p].stream].closing
    BY <1>7, FaultlessPump
  <2>3. \A k \in DOMAIN streams' : streams'[k].dead => streams'[k].closing
    BY <2>2
  <2>4. ASSUME main.pc = "closing"
        PROVE  streams'[main.stream].closing /\ ~streams'[main.stream].dead
    <3>1. /\ main.stream \in DOMAIN streams
          /\ streams[main.stream].closing /\ ~streams[main.stream].dead
          /\ pumps[p].pc = "swapping" => pumps[p].stream # main.stream
      BY <1>0, <2>4 DEF MainInOrder, OnlyClosedDie
    <3> QED BY <2>2, <3>1
  <2>5. ASSUME NEW q \in DOMAIN pumps, pumps'[q].pc = "swapping"
        PROVE  /\ streams'[pumps'[q].stream].closing
               /\ main.pc = "closing" => pumps'[q].stream # main.stream
    <3>1. CASE q # p
      BY <1>0, <2>1, <2>2, <2>5, <3>1 DEF OnlyClosedDie
    <3>2. CASE q = p
      BY <2>2, <2>5, <3>2 DEF OnlyClosedDie
    <3> QED BY <3>1, <3>2
  <2> QED BY <2>1, <2>3, <2>4, <2>5 DEF OnlyClosedDie
<1>8. CASE UNCHANGED vars
  <2>1. UNCHANGED <<main, streams, pumps>>
    BY <1>8 DEF vars
  <2> QED BY <2>1 DEF OnlyClosedDie
<1> QED BY <1>4, <1>5, <1>6, <1>7, <1>8 DEF Next

\* With a provider that makes no fault, however often meetings are started and
\* ended on the connection, a START finds no pump running.
THEOREM FaultlessIsAlone == ASSUME MaxFaults = 0 PROVE Spec => []Alone
<1>1. Init => OnlyClosedDie
  BY DEF Init, OnlyClosedDie, Idle
<1>2. Order /\ OnlyClosedDie /\ [Next]_vars => OnlyClosedDie'
  BY FaultlessStep
<1>3. OnlyClosedDie => [~Abandons]_vars
  BY DEF OnlyClosedDie, Abandons, CloseRaises
<1>4. Spec => [][~Abandons]_vars
  BY <1>1, <1>2, <1>3, OrderInitially, OrderStep, PTL DEF Spec
<1> QED BY <1>4, NoneAbandonedIsAlone, PTL

\* Every pump was asked for by a START of its own.
StartsCounted ==
  /\ Len(pumps) + (IF main.next = Nothing THEN 0 ELSE 1) <= starts
  /\ main.pc = "run" => main.next = Nothing

LEMMA StartsCountedStep == Order /\ StartsCounted /\ [Next]_vars => StartsCounted'
<1> SUFFICES ASSUME Order, StartsCounted, [Next]_vars PROVE StartsCounted'
  OBVIOUS
<1>0. /\ Typed /\ SwapsReady /\ MainInOrder /\ Len(pumps) \in Nat
      /\ starts \in Nat /\ MaxStarts \in Nat /\ main \in Mains /\ session \in Objects
  BY TypedFacts DEF Order, Typed
<1>1. ASSUME NEW next \in Meetings \cup {Nothing}, Close(next)
      PROVE  main'.next = next /\ (main'.pc = "run" => next = Nothing)
  BY <1>0, <1>1, CloseLeaves
<1>2. CASE Client
  <2>1. CASE \E m \in Meetings : ReceiveStart(m)
    <3>1. PICK m \in Meetings : ReceiveStart(m)
      BY <2>1
    <3>2. main.next = Nothing /\ main'.next = m /\ m # Nothing /\ main'.pc # "run"
          /\ starts' = starts + 1 /\ pumps' = pumps
      BY <1>1, <3>1, NothingAssumption DEF ReceiveStart, Running, StartsCounted
    <3> QED BY <1>0, <3>2 DEF StartsCounted
  <2>2. CASE ReceiveEnd
    <3>1. main.next = Nothing /\ main'.next = Nothing /\ starts' = starts /\ pumps' = pumps
      BY <1>1, <2>2 DEF ReceiveEnd, Running, StartsCounted
    <3> QED BY <1>0, <3>1 DEF StartsCounted
  <2>3. CASE (\E paused \in BOOLEAN : ReceivePause(paused)) \/ ReceiveAudio \/ Disconnect
    <3>1. UNCHANGED <<main, starts, pumps>>
      BY <2>3 DEF ReceivePause, ReceiveAudio, Disconnect, clientVars
    <3> QED BY <3>1 DEF StartsCounted
  <2> QED BY <1>2, <2>1, <2>2, <2>3 DEF Client
<1>3. CASE Main
  <2>1. CASE CloseReturns \/ CloseRaises \/ Drained \/ DrainTimesOut
    <3>1. /\ \/ main'.pc = "draining" /\ main'.next = main.next
             \/ /\ main'.pc = IF main.next = Nothing THEN "run" ELSE "starting"
                /\ main'.next = main.next
          /\ UNCHANGED clientVars /\ Len(pumps') = Len(pumps)
      BY <2>1, MainDoes
    <3> QED BY <3>1 DEF StartsCounted, clientVars
  <2>2. CASE EngineStarts
    <3>1. /\ main.next \in Meetings /\ main' = Idle /\ UNCHANGED clientVars
          /\ Len(pumps') = Len(pumps) + 1
      BY <1>0, <2>2, EngineStartsDoes
    <3>2. main'.next = Nothing /\ main.next # Nothing /\ starts' = starts
      BY <3>1, NothingAssumption DEF Idle, clientVars
    <3> QED BY <1>0, <3>1, <3>2 DEF StartsCounted
  <2>3. CASE EngineFails \/ Leave
    <3>1. Shutdown /\ starts' = starts
      BY <2>3 DEF EngineFails, Leave, clientVars
    <3>2. main' = [Idle EXCEPT !.pc = "done"] /\ Len(pumps') = Len(pumps)
      BY <1>0, <3>1, ShutdownIsTyped
    <3>3. main'.next = Nothing
      BY <3>2 DEF Idle
    <3> QED BY <1>0, <3>1, <3>2, <3>3 DEF StartsCounted
  <2> QED BY <1>3, <2>1, <2>2, <2>3 DEF Main
<1>4. ASSUME NEW p \in DOMAIN pumps, Pump(p)
      PROVE  StartsCounted'
  BY <1>0, <1>4, PumpMoves DEF MovesOnly, StartsCounted
<1>5. CASE ProviderDies \/ UNCHANGED vars
  BY <1>5 DEF ProviderDies, StartsCounted, vars, clientVars
<1> QED BY <1>2, <1>3, <1>4, <1>5 DEF Next

\* The first meeting of a connection finds no pump running, whatever the provider does.
THEOREM FirstIsAlone == ASSUME MaxStarts <= 1 PROVE Spec => []Alone
<1>1. Init => StartsCounted
  BY EmptySeq DEF Init, StartsCounted, Idle
<1>2. Order /\ StartsCounted => Alone
  <2> SUFFICES ASSUME Order, StartsCounted, main.pc = "starting"
               PROVE  DOMAIN pumps = {}
    BY DEF Alone
  <2>1. main.next # Nothing /\ starts \in 0 .. MaxStarts
    BY DEF Order, MainInOrder, Typed
  <2>2. DOMAIN pumps = 1 .. Len(pumps) /\ Len(pumps) \in Nat /\ MaxStarts \in Nat
    BY TypedFacts DEF Order
  <2>3. Len(pumps) = 0
    BY <2>1, <2>2 DEF StartsCounted
  <2> QED BY <2>2, <2>3
<1> QED BY <1>1, <1>2, OrderInitially, OrderStep, StartsCountedStep, PTL DEF Spec
=============================================================================
