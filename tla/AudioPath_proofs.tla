-------------------------- MODULE AudioPath_proofs --------------------------
(***************************************************************************)
(* Theorems about the audio of a meeting, for every size of the buffers,   *)
(* every rate of a microphone and every order of callbacks and passes of   *)
(* the worker: the types, the channels in step, their greatest distance    *)
(* after a loss, and that what is streamed is what is recorded.            *)
(*                                                                         *)
(* What loops over data (the outputs of the resampler, the buffers that    *)
(* wait, the samples they add up to) is proved by induction: the sets of   *)
(* numbers for which a fact holds contain 0, and with n also n + 1.        *)
(***************************************************************************)
EXTENDS AudioPath, TLAPS, WellFoundedInduction, FiniteSetTheorems, SequenceTheorems

-----------------------------------------------------------------------------
(* Numbers, and the resampler *)

\* A non-empty set of numbers has a least member: the ordering of finite sets by
\* inclusion is well-founded, and the intervals 0 .. n are ordered like their ends.
LEMMA LeastMember ==
  ASSUME NEW S, S \subseteq Nat, S # {}
  PROVE  \E least \in S : \A m \in S : least <= m
<1> DEFINE T == {0 .. x : x \in S}
           R == StrictSubsetOrdering(Nat)
           F == FiniteSubsetsOf(Nat)
<1>1. T \subseteq F /\ T # {}
  <2>1. \A x \in S : 0 .. x \subseteq Nat /\ IsFiniteSet(0 .. x)
    BY FS_Interval
  <2> QED BY <2>1 DEF FiniteSubsetsOf
<1>2. IsWellFoundedOn(R, F)
  BY FS_StrictSubsetOrderingWellFounded
<1>3. PICK t \in T : \A u \in T : ~(<<u, t>> \in R)
  <2> HIDE DEF T, R, F
  <2> QED BY <1>1, <1>2, WFMin
<1>4. PICK least \in S : t = 0 .. least
  BY <1>3
<1>5. ASSUME NEW m \in S, ~(least <= m)
      PROVE  FALSE
  <2>1. 0 .. m \subseteq 0 .. least /\ least \in 0 .. least /\ least \notin 0 .. m
    BY <1>5
  <2>2. <<0 .. m, 0 .. least>> \in R
    BY <2>1 DEF StrictSubsetOrdering
  <2> QED BY <1>3, <1>4, <2>2
<1> QED BY <1>5

\* Induction over the numbers, stated of a set: what has 0 and with n also n + 1
\* has every number.
LEMMA SetInduction ==
  ASSUME NEW S, 0 \in S, \A n \in Nat : n \in S => n + 1 \in S
  PROVE  Nat \subseteq S
<1> SUFFICES ASSUME Nat \ S # {}
             PROVE  FALSE
  OBVIOUS
<1>1. PICK least \in Nat \ S : \A m \in Nat \ S : least <= m
  BY LeastMember
<1>2. least \in Nat /\ least \notin S /\ least # 0
  BY <1>1
<1>3. least - 1 \in Nat /\ (least - 1) + 1 = least
  BY <1>2
<1>4. least - 1 \in S
  BY <1>1, <1>3
<1> QED BY <1>2, <1>3, <1>4

\* Quotient and remainder.
LEMMA DivisionBounds ==
  ASSUME NEW a \in Int, NEW b \in Nat \ {0}
  PROVE  /\ a \div b \in Int /\ a % b \in 0 .. b - 1
         /\ a = b * (a \div b) + (a % b)
BY Z3

\* A multiple of b is divided by b without a remainder.
LEMMA MultipleDivides ==
  ASSUME NEW a \in Int, NEW b \in Nat \ {0}
  PROVE  (b * a) % b = 0 /\ (b * a) \div b = a
BY Z3

\* An output that the resampler takes at the position of output m is of time m,
\* and so never an interpolation at the wrong place.
LEMMA OutputIsNext ==
  ASSUME NEW r, r.rate \in Nat \ {0}, r.seen \in Nat, r.origin \in Nat,
         NEW position \in Int, NEW m \in Int,
         Target * r.seen + position = r.rate * m
  PROVE  TimeOf(r, r.seen + (position \div Target), (r.seen + (position \div Target)) + 1,
                position % Target) = r.origin + m
<1> DEFINE base == position \div Target
           part == position % Target
<1>1. base \in Int /\ part \in Int /\ position = Target * base + part /\ Target \in Nat \ {0}
  <2>1. Target \in Nat \ {0}
    BY SizesAssumption
  <2>2. base \in Int /\ part \in 0 .. Target - 1 /\ position = Target * base + part
    BY <2>1, DivisionBounds
  <2> QED BY <2>1, <2>2
<1> HIDE DEF base, part
<1>2. (r.seen + base) * Target + part = r.rate * m
  <2>1. (r.seen + base) * Target = Target * r.seen + Target * base
    BY <1>1, Z3
  <2>2. Target * r.seen \in Int /\ Target * base \in Int /\ (r.seen + base) * Target \in Int
    BY <1>1
  <2> QED BY <1>1, <2>1, <2>2
<1>3. (r.rate * m) % r.rate = 0 /\ (r.rate * m) \div r.rate = m
  BY MultipleDivides
<1>4. TimeOf(r, r.seen + base, (r.seen + base) + 1, part) = r.origin + m
  BY <1>2, <1>3 DEF TimeOf
<1> QED BY <1>4 DEF base, part

\* The resampler is exact: it has seen up to its position, which is the time of
\* its next output.
Exact(r, m) ==
  /\ r.rate \in Nat \ {0} /\ r.seen \in Nat /\ r.origin \in Nat /\ m \in Nat
  /\ r.position \in Int /\ r.position > -Target
  /\ Target * r.seen + r.position = r.rate * m

\* The loop of process ends less than one native sample before the end of its
\* buffer, or behind it; and it ends once it is behind it.
LEMMA EndsBehind ==
  ASSUME NEW n \in Nat, NEW position \in Int
  PROVE  /\ Ends(n, position) => position - n * Target > -Target
         /\ position >= n * Target => Ends(n, position)
<1>1. Target \in Nat \ {0} /\ n * Target \in Int
  BY SizesAssumption
<1> DEFINE base == position \div Target
           part == position % Target
<1>2. base \in Int /\ part \in 0 .. Target - 1 /\ position = Target * base + part
  BY <1>1, DivisionBounds
<1>3. position >= n * Target => Ends(n, position)
  BY DEF Ends
<1>4. ASSUME part # 0, base + 1 >= n
      PROVE  position - n * Target > -Target
  <2> HIDE DEF base, part
  <2> DEFINE ahead == (base + 1) - n
  <2>1. ahead \in Nat
    BY <1>2, <1>4
  <2>2. base = (n - 1) + ahead
    BY <1>2
  <2> HIDE DEF ahead
  <2>3. Target * base = (n * Target - Target) + Target * ahead
    BY <1>1, <2>1, <2>2, Z3
  <2>4. Target * ahead \in Nat
    BY <1>1, <2>1
  <2> QED BY <1>1, <1>2, <1>4, <2>3, <2>4
<1>5. ASSUME position >= n * Target
      PROVE  position - n * Target > -Target
  BY <1>1, <1>5
<1> QED BY <1>3, <1>4, <1>5 DEF Ends

\* An exact resampler puts out the samples that follow, each one later than the
\* one before, and stops at the position of the one after them.
LEMMA OutputsAreNext ==
  ASSUME NEW r, NEW m, Exact(r, m), NEW n \in Nat
  PROVE  \E count \in Nat :
           /\ Outputs(r, n).outputs = [i \in 1 .. count |-> (r.origin + m + i) - 1]
           /\ Outputs(r, n).position = r.position + count * r.rate
           /\ Outputs(r, n).position - n * Target > -Target
<1> DEFINE at(i) == r.position + i * r.rate
           C == 0 .. (n + 1) * Target
           last(c) == Ends(n, at(c)) /\ \A i \in 0 .. c - 1 : ~Ends(n, at(i))
           count == CHOOSE c \in C : last(c)
           output(position) ==
             LET base == position \div Target
             IN  TimeOf(r, r.seen + base, r.seen + base + 1, position % Target)
<1>1. Target \in Nat \ {0} /\ r.rate \in Nat \ {0} /\ r.position \in Int
  BY SizesAssumption DEF Exact
<1>2. \A i \in Int : at(i) \in Int
  BY <1>1
<1>3. (n + 1) * Target \in Nat /\ n * Target \in Nat /\ (n + 1) * Target = n * Target + Target
  BY <1>1
<1>4. \E c \in C : last(c)
  <2> DEFINE S == {c \in Nat : Ends(n, at(c))}
             far == (n + 1) * Target
  <2>1. at(far) >= n * Target
    <3>1. far * r.rate >= far
      <4>1. far \in Nat
        BY <1>3
      <4> HIDE DEF far
      <4> QED BY <1>1, <4>1, Z3
    <3>2. far * r.rate \in Int
      BY <1>1, <1>3
    <3>3. r.position > -Target
      BY DEF Exact
    <3> QED BY <1>1, <1>3, <3>1, <3>2, <3>3
  <2>2. far \in S
    <3>1. at(far) \in Int
      BY <1>2, <1>3
    <3> HIDE DEF at
    <3>2. Ends(n, at(far))
      BY <2>1, <3>1, EndsBehind
    <3> QED BY <1>3, <3>2
  <2>3. PICK c \in S : \A d \in S : c <= d
    <3> HIDE DEF at, far
    <3>1. S \subseteq Nat
      OBVIOUS
    <3> HIDE DEF S
    <3> QED BY <2>2, <3>1, LeastMember
  <2>4. c \in C
    BY <1>3, <2>2, <2>3
  <2>5. \A i \in 0 .. c - 1 : ~Ends(n, at(i))
    <3> HIDE DEF at
    <3> QED BY <2>3
  <2> HIDE DEF at
  <2> QED BY <2>3, <2>4, <2>5
<1>5. count \in C /\ last(count)
  <2> HIDE DEF C, last
  <2> QED BY <1>4
<1> HIDE DEF last
<1>6. count \in Nat /\ Ends(n, at(count))
  BY <1>3, <1>5 DEF last
<1>7. Outputs(r, n) = [outputs |-> [i \in 1 .. count |-> output(at(i - 1))], position |-> at(count)]
  BY DEF Outputs, last
<1> HIDE DEF count
<1>8. \A i \in 1 .. count : output(at(i - 1)) = (r.origin + m + i) - 1
  <2> TAKE i \in 1 .. count
  <2>1. i - 1 \in Nat /\ m \in Nat /\ r.origin \in Nat /\ r.seen \in Nat
    BY <1>6 DEF Exact
  <2> DEFINE j == i - 1
  <2> HIDE DEF j
  <2>2. r.rate * (m + j) = r.rate * m + j * r.rate /\ r.rate * m \in Int /\ j * r.rate \in Int
    <3>1. j \in Nat
      BY <2>1 DEF j
    <3> QED BY <1>1, <2>1, <3>1, Z3
  <2>3. Target * r.seen + at(j) = r.rate * (m + j)
    <3>1. Target * r.seen \in Int /\ j \in Nat
      BY <1>1, <2>1 DEF j
    <3> QED BY <1>1, <2>2, <3>1 DEF Exact
  <2>4. at(j) \in Int /\ m + j \in Int /\ r.origin + (m + j) = (r.origin + m + i) - 1
    BY <1>2, <2>1, <1>6 DEF j
  <2> HIDE DEF at
  <2>5. output(at(j)) = r.origin + (m + j)
    BY <1>1, <2>1, <2>3, <2>4, OutputIsNext
  <2> QED BY <2>4, <2>5 DEF j
<1>9. at(count) - n * Target > -Target
  <2>1. at(count) \in Int
    BY <1>2, <1>6
  <2> HIDE DEF at
  <2> QED BY <1>6, <2>1, EndsBehind
<1>10. [i \in 1 .. count |-> output(at(i - 1))] = [i \in 1 .. count |-> (r.origin + m + i) - 1]
  <2> HIDE DEF output, at
  <2> QED BY <1>8
<1> HIDE DEF output
<1>11. /\ Outputs(r, n).outputs = [i \in 1 .. count |-> (r.origin + m + i) - 1]
       /\ Outputs(r, n).position = r.position + count * r.rate
  <2>1. Outputs(r, n).position = at(count)
    BY <1>7
  <2>2. Outputs(r, n).outputs = [i \in 1 .. count |-> output(at(i - 1))]
    BY <1>7
  <2> QED BY <1>10, <2>1, <2>2
<1> QED BY <1>6, <1>9, <1>11

-----------------------------------------------------------------------------
(* drain_chunks *)

\* A function from 1 .. n into S is a sequence over S.
LEMMA FunctionIsSeq ==
  ASSUME NEW n \in Nat, NEW S, NEW f \in [1 .. n -> S]
  PROVE  f \in Seq(S) /\ Len(f) = n
BY SeqDef

\* What a pair of buffers of the mixer holds: elements of V["System"] and of
\* V["Microphone"], as many as fit.
Filled(both, V) ==
  /\ both = [j \in Kinds |-> both[j]]
  /\ \A j \in Kinds : both[j] \in Seq(V[j]) /\ Len(both[j]) \in 0 .. MaxBuffered

\* After drain_chunks less than a tick is left in one of them.
Drained(both, V) ==
  /\ Filled(both, V)
  /\ \E j \in Kinds : Len(both[j]) < Tick

ChunkOf(V) == Seq(V["System"] \X V["Microphone"])

Side(frame, k) == IF k = "System" THEN frame[1] ELSE frame[2]

\* A sequence without its first n elements.
LEMMA RestOfSeq ==
  ASSUME NEW S, NEW s \in Seq(S), NEW n \in 0 .. Len(s)
  PROVE  /\ SubSeq(s, n + 1, Len(s)) \in Seq(S)
         /\ Len(SubSeq(s, n + 1, Len(s))) = Len(s) - n
         /\ \A i \in 1 .. Len(s) - n : SubSeq(s, n + 1, Len(s))[i] = s[n + i]
<1>1. Len(s) \in Nat /\ n \in Nat /\ n + 1 \in Int /\ Len(s) \in Int /\ n <= Len(s)
  BY LenProperties
<1>2. \A i \in n + 1 .. Len(s) : s[i] \in S
  <2> TAKE i \in n + 1 .. Len(s)
  <2>1. i \in 1 .. Len(s)
    BY <1>1
  <2> QED BY <2>1, ElementOfSeq
<1>3. /\ SubSeq(s, n + 1, Len(s)) \in Seq(S)
      /\ Len(SubSeq(s, n + 1, Len(s))) = IF n + 1 <= Len(s) THEN Len(s) - (n + 1) + 1 ELSE 0
      /\ \A i \in 1 .. Len(s) - (n + 1) + 1 : SubSeq(s, n + 1, Len(s))[i] = s[(n + 1) + i - 1]
  BY <1>1, <1>2, SubSeqProperties
<1>4. Len(SubSeq(s, n + 1, Len(s))) = Len(s) - n
  BY <1>1, <1>3
<1>5. ASSUME NEW i \in 1 .. Len(s) - n
      PROVE  SubSeq(s, n + 1, Len(s))[i] = s[n + i]
  <2>1. i \in 1 .. Len(s) - (n + 1) + 1 /\ (n + 1) + i - 1 = n + i
    BY <1>1
  <2> QED BY <1>3, <2>1
<1> QED BY <1>3, <1>4, <1>5

\* How many of n samples do not fit a buffer.
Overflow(n) == IF n > MaxBuffered THEN n - MaxBuffered ELSE 0

\* Kept drops what overflows, from the front.
LEMMA KeptLatest ==
  ASSUME NEW S, NEW s \in Seq(S), NEW cut, cut = Overflow(Len(s))
  PROVE  /\ cut \in Nat /\ Kept(s) \in Seq(S)
         /\ Len(Kept(s)) = Len(s) - cut /\ Len(Kept(s)) \in 0 .. MaxBuffered
         /\ \A i \in 1 .. Len(s) - cut : Kept(s)[i] = s[cut + i]
<1>1. Len(s) \in Nat /\ MaxBuffered \in Nat
  <2>1. MaxBuffered \in Nat
    BY SizesAssumption
  <2> QED BY <2>1, LenProperties
<1>2. /\ cut \in Nat /\ cut <= Len(s) /\ Len(s) - cut <= MaxBuffered
      /\ cut = Len(s) - Least(Len(s), MaxBuffered)
  <2>1. CASE Len(s) > MaxBuffered
    <3>1. cut = Len(s) - MaxBuffered
      BY <2>1 DEF Overflow
    <3>2. Least(Len(s), MaxBuffered) = MaxBuffered
      BY <1>1, <2>1 DEF Least
    <3> QED BY <1>1, <2>1, <3>1, <3>2
  <2>2. CASE ~(Len(s) > MaxBuffered)
    <3>1. cut = 0
      BY <2>2 DEF Overflow
    <3>2. Least(Len(s), MaxBuffered) = Len(s)
      BY <1>1, <2>2 DEF Least
    <3> QED BY <1>1, <2>2, <3>1, <3>2
  <2> QED BY <2>1, <2>2
<1>3. Kept(s) = SubSeq(s, cut + 1, Len(s)) /\ cut \in 0 .. Len(s)
  BY <1>1, <1>2 DEF Kept
<1>4. Len(s) - cut \in 0 .. MaxBuffered
  BY <1>1, <1>2
<1> QED BY <1>2, <1>3, <1>4, RestOfSeq

\* drain_chunks takes as many chunks as there are whole ticks in both buffers,
\* from the front of them.
Drains(both, V, count, taken) ==
  /\ taken = count * Tick
  /\ Drained(Remainder(both), V)
  /\ \A j \in Kinds :
       /\ Len(Remainder(both)[j]) = Len(both[j]) - taken /\ taken <= Len(both[j])
       /\ \A i \in 1 .. Len(both[j]) - taken : Remainder(both)[j][i] = both[j][taken + i]
  /\ Chunks(both) \in Seq(ChunkOf(V)) /\ Len(Chunks(both)) = count
  /\ \A c \in 1 .. count :
       /\ Len(Chunks(both)[c]) = Tick
       /\ \A i \in 1 .. Tick :
            /\ (c - 1) * Tick + i \in 1 .. taken
            /\ \A j \in Kinds : Side(Chunks(both)[c][i], j) = both[j][(c - 1) * Tick + i]

\* drain_chunks takes whole ticks off both buffers, pairs them in order, and
\* leaves less than a tick in one of them.
LEMMA DrainTakesTicks ==
  ASSUME NEW V, NEW both, Filled(both, V)
  PROVE  \E count \in Nat, taken \in Nat : Drains(both, V, count, taken)
<1> DEFINE a == Len(both["System"])
           b == Len(both["Microphone"])
           least == Least(a, b)
           count == least \div Tick
           taken == count * Tick
<1>1. a \in 0 .. MaxBuffered /\ b \in 0 .. MaxBuffered /\ MaxBuffered \in Nat /\ Tick \in Nat \ {0}
      /\ both["System"] \in Seq(V["System"]) /\ both["Microphone"] \in Seq(V["Microphone"])
  BY SizesAssumption DEF Filled, Kinds
<1>2. least \in Nat /\ least <= a /\ least <= b /\ least \in {a, b}
  BY <1>1 DEF Least
<1> HIDE DEF least
<1>3. count \in Nat /\ taken \in Nat /\ taken <= least /\ least < taken + Tick
  <2>1. least \div Tick \in Int /\ least % Tick \in 0 .. Tick - 1
        /\ least = Tick * (least \div Tick) + (least % Tick)
    BY <1>1, <1>2, DivisionBounds
  <2>2. count >= 0
    <3> SUFFICES ASSUME count < 0 PROVE FALSE
      BY <2>1
    <3>1. count \in Int /\ count <= -1
      BY <2>1
    <3> HIDE DEF count
    <3>2. Tick * count <= -Tick
      BY <1>1, <3>1, Z3
    <3>3. Tick * count \in Int /\ least = Tick * count + (least % Tick)
      BY <1>1, <2>1, <3>1 DEF count
    <3> QED BY <1>1, <1>2, <2>1, <3>2, <3>3
  <2>3. taken = Tick * count /\ taken \in Int
    <3>1. count \in Int
      BY <2>1
    <3> HIDE DEF count
    <3> QED BY <1>1, <3>1, Z3
  <2>4. taken >= 0
    <3>1. count \in Nat
      BY <2>1, <2>2
    <3> HIDE DEF count
    <3> QED BY <1>1, <3>1
  <2> HIDE DEF taken
  <2> QED BY <1>1, <1>2, <2>1, <2>2, <2>3, <2>4 DEF count
<1>4. Chunks(both) = [c \in 1 .. count |-> [i \in 1 .. Tick |->
        <<both["System"][(c - 1) * Tick + i], both["Microphone"][(c - 1) * Tick + i]>>]]
  BY DEF Chunks, least
<1>5. taken = count * Tick
  OBVIOUS
<1> HIDE DEF count
<1>6. \A c \in 1 .. count, i \in 1 .. Tick : (c - 1) * Tick + i \in 1 .. taken
  <2> TAKE c \in 1 .. count, i \in 1 .. Tick
  <2> DEFINE d == c - 1
             e == count - c
  <2>1. d \in Nat /\ e \in Nat /\ count = (d + e) + 1
    BY <1>3
  <2> HIDE DEF d, e
  <2>2. taken = (d * Tick + e * Tick) + Tick
    BY <1>1, <1>5, <2>1, Z3
  <2>3. d * Tick \in Nat /\ e * Tick \in Nat
    BY <1>1, <2>1
  <2>4. d * Tick + i \in 1 .. taken
    BY <1>1, <1>3, <2>2, <2>3
  <2> QED BY <2>4 DEF d
<1> HIDE DEF taken
<1>7. \A j \in Kinds : both[j] \in Seq(V[j]) /\ Len(both[j]) \in 0 .. MaxBuffered /\ taken <= Len(both[j])
  BY <1>1, <1>2, <1>3 DEF Filled, Kinds
<1>8. ASSUME NEW c \in 1 .. count
      PROVE  /\ Chunks(both)[c] \in ChunkOf(V) /\ Len(Chunks(both)[c]) = Tick
             /\ \A i \in 1 .. Tick : \A j \in Kinds :
                  Side(Chunks(both)[c][i], j) = both[j][(c - 1) * Tick + i]
  <2> DEFINE chunk == [i \in 1 .. Tick |->
        <<both["System"][(c - 1) * Tick + i], both["Microphone"][(c - 1) * Tick + i]>>]
  <2>1. Chunks(both)[c] = chunk
    BY <1>4
  <2>2. ASSUME NEW i \in 1 .. Tick
        PROVE  chunk[i] \in V["System"] \X V["Microphone"]
    <3> DEFINE n == (c - 1) * Tick + i
    <3>1. n \in 1 .. a /\ n \in 1 .. b
      <4>1. n \in 1 .. taken
        BY <1>6
      <4> HIDE DEF n
      <4> QED BY <1>1, <1>2, <1>3, <4>1
    <3> HIDE DEF n
    <3>2. both["System"][n] \in V["System"] /\ both["Microphone"][n] \in V["Microphone"]
      BY <1>1, <3>1, ElementOfSeq
    <3> QED BY <3>2 DEF n
  <2>3. chunk \in [1 .. Tick -> V["System"] \X V["Microphone"]] /\ Tick \in Nat
    BY <1>1, <2>2
  <2>4. chunk \in Seq(V["System"] \X V["Microphone"]) /\ Len(chunk) = Tick
    <3> HIDE DEF chunk
    <3> QED BY <2>3, FunctionIsSeq
  <2>5. ASSUME NEW i \in 1 .. Tick, NEW j \in Kinds
        PROVE  Side(chunk[i], j) = both[j][(c - 1) * Tick + i]
    BY DEF Side, Kinds
  <2> HIDE DEF chunk
  <2> QED BY <2>1, <2>4, <2>5 DEF ChunkOf
<1>9. Chunks(both) \in Seq(ChunkOf(V)) /\ Len(Chunks(both)) = count
  <2>1. Chunks(both) \in [1 .. count -> ChunkOf(V)]
    BY <1>4, <1>8
  <2> QED BY <1>3, <2>1, FunctionIsSeq
<1>10. ASSUME NEW j \in Kinds
       PROVE  /\ Remainder(both)[j] \in Seq(V[j])
              /\ Len(Remainder(both)[j]) = Len(both[j]) - taken
              /\ \A i \in 1 .. Len(both[j]) - taken : Remainder(both)[j][i] = both[j][taken + i]
  <2> DEFINE s == both[j]
  <2>1. s \in Seq(V[j]) /\ Len(s) \in Nat /\ taken \in Nat /\ taken <= Len(s)
    BY <1>1, <1>3, <1>7
  <2>2. Remainder(both)[j] = SubSeq(s, taken + 1, Len(s))
    BY <1>5, <1>9 DEF Remainder
  <2> HIDE DEF s
  <2>3. taken \in 0 .. Len(s)
    BY <2>1
  <2>4. /\ SubSeq(s, taken + 1, Len(s)) \in Seq(V[j])
        /\ Len(SubSeq(s, taken + 1, Len(s))) = Len(s) - taken
        /\ \A i \in 1 .. Len(s) - taken : SubSeq(s, taken + 1, Len(s))[i] = s[taken + i]
    BY <2>1, <2>3, RestOfSeq
  <2> QED BY <2>2, <2>4 DEF s
<1>11. Drained(Remainder(both), V)
  <2>1. Remainder(both) = [j \in Kinds |-> Remainder(both)[j]]
    BY DEF Remainder
  <2>2. \A j \in Kinds : Len(Remainder(both)[j]) \in 0 .. MaxBuffered
    <3> TAKE j \in Kinds
    <3> QED BY <1>1, <1>3, <1>7, <1>10
  <2>3. PICK j \in Kinds : Len(both[j]) = least
    BY <1>2 DEF Kinds
  <2>4. Len(Remainder(both)[j]) < Tick
    BY <1>1, <1>2, <1>3, <1>10, <2>3
  <2> QED BY <1>10, <2>1, <2>2, <2>4 DEF Drained, Filled
<1>12. \A c \in 1 .. count :
         /\ Len(Chunks(both)[c]) = Tick
         /\ \A i \in 1 .. Tick :
              /\ (c - 1) * Tick + i \in 1 .. taken
              /\ \A j \in Kinds : Side(Chunks(both)[c][i], j) = both[j][(c - 1) * Tick + i]
  BY <1>6, <1>8
<1>13. \A j \in Kinds :
         /\ Len(Remainder(both)[j]) = Len(both[j]) - taken /\ taken <= Len(both[j])
         /\ \A i \in 1 .. Len(both[j]) - taken : Remainder(both)[j][i] = both[j][taken + i]
  BY <1>7, <1>10
<1> HIDE DEF a, b
<1>14. Drains(both, V, count, taken)
  BY <1>5, <1>9, <1>11, <1>12, <1>13 DEF Drains
<1> QED BY <1>3, <1>14

-----------------------------------------------------------------------------
(* Mixer::push *)

\* A pair of buffers with samples of k added, before it is drained.
Fill(both, k, samples) == [both EXCEPT ![k] = Kept(@ \o samples)]

\* Mixer::push fills the buffer and drains both.
LEMMA PushFillsAndDrains ==
  ASSUME NEW both, NEW k, NEW samples
  PROVE  Push(both, k, samples) =
           [chunks |-> Chunks(Fill(both, k, samples)),
            buffer |-> Remainder(Fill(both, k, samples)),
            dropped |-> Len(both[k]) + Len(samples) > MaxBuffered]
BY DEF Push, Fill

\* The latest of the old and new samples of k, without the oldest `cut`.
Fills(both, k, samples, V, cut) ==
  /\ Filled(Fill(both, k, samples), V) /\ cut \in Nat
  /\ \A j \in Kinds \ {k} : Fill(both, k, samples)[j] = both[j]
  /\ Len(Fill(both, k, samples)[k]) = (Len(both[k]) + Len(samples)) - cut
  /\ \A i \in 1 .. (Len(both[k]) + Len(samples)) - cut :
       Fill(both, k, samples)[k][i] = IF cut + i <= Len(both[k]) THEN both[k][cut + i]
                                      ELSE samples[(cut + i) - Len(both[k])]

\* What Mixer::push adds to a buffer pushes out its oldest samples.
LEMMA FillKeepsLatest ==
  ASSUME NEW V, NEW both, Filled(both, V), NEW k \in Kinds, NEW samples \in Seq(V[k])
  PROVE  Fills(both, k, samples, V, Overflow(Len(both[k]) + Len(samples)))
<1> DEFINE all == both[k] \o samples
           cut == Overflow(Len(both[k]) + Len(samples))
<1>1. both[k] \in Seq(V[k]) /\ both = [j \in Kinds |-> both[j]]
  BY DEF Filled
<1>2. /\ all \in Seq(V[k]) /\ Len(all) = Len(both[k]) + Len(samples)
      /\ Len(both[k]) \in Nat /\ Len(samples) \in Nat
      /\ \A i \in 1 .. Len(both[k]) + Len(samples) :
           all[i] = IF i <= Len(both[k]) THEN both[k][i] ELSE samples[i - Len(both[k])]
  BY <1>1, ConcatProperties, LenProperties
<1> HIDE DEF all, cut
<1>3. /\ cut \in Nat /\ Kept(all) \in Seq(V[k])
      /\ Len(Kept(all)) = Len(all) - cut /\ Len(Kept(all)) \in 0 .. MaxBuffered
      /\ \A i \in 1 .. Len(all) - cut : Kept(all)[i] = all[cut + i]
  <2> DEFINE T == V[k]
  <2>1. all \in Seq(T) /\ cut = Overflow(Len(all))
    BY <1>2 DEF cut
  <2> HIDE DEF T
  <2>2. /\ cut \in Nat /\ Kept(all) \in Seq(T)
        /\ Len(Kept(all)) = Len(all) - cut /\ Len(Kept(all)) \in 0 .. MaxBuffered
        /\ \A i \in 1 .. Len(all) - cut : Kept(all)[i] = all[cut + i]
    BY ONLY <2>1, KeptLatest
  <2> QED BY <2>2 DEF T
<1>4. Fill(both, k, samples) = [j \in Kinds |-> IF j = k THEN Kept(all) ELSE both[j]]
  BY <1>1 DEF Fill, all
<1>5. Filled(Fill(both, k, samples), V)
  BY <1>3, <1>4 DEF Filled
<1>6. ASSUME NEW i \in 1 .. (Len(both[k]) + Len(samples)) - cut
      PROVE  Kept(all)[i] = IF cut + i <= Len(both[k]) THEN both[k][cut + i]
                            ELSE samples[(cut + i) - Len(both[k])]
  <2>1. cut + i \in 1 .. Len(both[k]) + Len(samples)
    BY <1>2, <1>3
  <2>2. Kept(all)[i] = all[cut + i]
    BY <1>2, <1>3
  <2> QED BY <1>2, <2>1, <2>2
<1>7. Fills(both, k, samples, V, cut)
  BY <1>2, <1>3, <1>4, <1>5, <1>6 DEF Fills
<1> QED BY <1>7 DEF cut

-----------------------------------------------------------------------------
(* push_frames *)

Unpushed(both) == [chunks |-> <<>>, buffer |-> both, dropped |-> FALSE]

\* What has come out of the mixer when one more buffer of k is pushed.
PushedAlso(before, k, samples) ==
  [chunks |-> before.chunks \o Push(before.buffer, k, samples).chunks,
   buffer |-> Push(before.buffer, k, samples).buffer,
   dropped |-> before.dropped \/ Push(before.buffer, k, samples).dropped]

\* after[i] is what has come out when i buffers are pushed.
PushesAll(after, both, k, waiting) ==
  /\ after[0] = Unpushed(both)
  /\ \A i \in 1 .. Len(waiting) : after[i] = PushedAlso(after[i - 1], k, waiting[i])
  /\ PushAll(both, k, waiting) = after[Len(waiting)]

\* PushAll satisfies its recursive equation.
LEMMA PushAllStepByStep ==
  ASSUME NEW both, NEW k, NEW waiting, Len(waiting) \in Nat
  PROVE  \E after : PushesAll(after, both, k, waiting)
<1> DEFINE F(g, n) == [i \in 0 .. n |-> IF i = 0 THEN Unpushed(both)
                                        ELSE PushedAlso(g[i - 1], k, waiting[i])]
           S == {n \in Nat : \E g : g = F(g, n)}
           G(g, n) == [i \in 0 .. n |->
             IF i = 0 THEN [chunks |-> <<>>, buffer |-> both, dropped |-> FALSE]
             ELSE LET before == g[i - 1]
                      pushed == Push(before.buffer, k, waiting[i])
                  IN  [chunks |-> before.chunks \o pushed.chunks, buffer |-> pushed.buffer,
                       dropped |-> before.dropped \/ pushed.dropped]]
<1>1. 0 \in S
  <2> DEFINE g == [i \in 0 .. 0 |-> Unpushed(both)]
  <2>1. g = F(g, 0)
    <3>1. \A i \in 0 .. 0 : i = 0
      OBVIOUS
    <3> QED BY <3>1
  <2> HIDE DEF g, F
  <2> QED BY <2>1
<1>2. ASSUME NEW n \in Nat, n \in S
      PROVE  n + 1 \in S
  <2>1. PICK g : g = F(g, n)
    <3> HIDE DEF F
    <3> QED BY <1>2
  <2> DEFINE last == PushedAlso(g[n], k, waiting[n + 1])
             h == [i \in 0 .. n + 1 |-> IF i <= n THEN g[i] ELSE last]
  <2> HIDE DEF last
  <2>2. \A i \in 0 .. n + 1 : h[i] = F(h, n + 1)[i]
    <3> TAKE i \in 0 .. n + 1
    <3>1. CASE i = 0
      <4>1. 0 \in 0 .. n /\ 0 <= n /\ 0 \in 0 .. n + 1
        OBVIOUS
      <4>2. h[0] = g[0] /\ g[0] = Unpushed(both)
        BY <2>1, <4>1
      <4> QED BY <3>1, <4>1, <4>2
    <3>2. CASE i \in 1 .. n
      <4>1. i # 0 /\ i \in 0 .. n /\ i <= n /\ i - 1 <= n /\ i - 1 \in 0 .. n + 1
        BY <3>2
      <4>2. h[i] = g[i] /\ h[i - 1] = g[i - 1]
        BY <4>1
      <4>3. g[i] = PushedAlso(g[i - 1], k, waiting[i])
        BY <2>1, <4>1
      <4>4. F(h, n + 1)[i] = PushedAlso(h[i - 1], k, waiting[i])
        BY <4>1
      <4> HIDE DEF h, F
      <4> QED BY <4>2, <4>3, <4>4
    <3>3. CASE i = n + 1
      <4>1. i # 0 /\ ~(i <= n) /\ i - 1 = n /\ n <= n /\ n \in 0 .. n + 1
        BY <3>3
      <4>2. h[i] = last /\ h[i - 1] = g[n]
        BY <4>1
      <4>3. F(h, n + 1)[i] = PushedAlso(h[i - 1], k, waiting[i])
        BY <4>1
      <4> HIDE DEF h, F
      <4> QED BY <3>3, <4>2, <4>3 DEF last
    <3> HIDE DEF h, F
    <3>4. i = 0 \/ i \in 1 .. n \/ i = n + 1
      OBVIOUS
    <3> QED BY <3>1, <3>2, <3>3, <3>4
  <2>3. h = [i \in 0 .. n + 1 |-> h[i]] /\ F(h, n + 1) = [i \in 0 .. n + 1 |-> F(h, n + 1)[i]]
    OBVIOUS
  <2> HIDE DEF h, F
  <2>4. h = F(h, n + 1)
    BY <2>2, <2>3
  <2> QED BY <2>4
<1>3. Nat \subseteq S
  <2> HIDE DEF S
  <2> QED BY <1>1, <1>2, SetInduction
<1>4. \A g : F(g, Len(waiting)) = G(g, Len(waiting))
  BY DEF PushedAlso, Unpushed
<1>5. \E g : g = G(g, Len(waiting))
  <2> HIDE DEF F, G
  <2> QED BY <1>3, <1>4
<1> DEFINE after == CHOOSE g : g = G(g, Len(waiting))
<1>6. after = G(after, Len(waiting))
  <2> HIDE DEF G
  <2> QED BY <1>5
<1>7. PushAll(both, k, waiting) = after[Len(waiting)]
  BY DEF PushAll
<1> HIDE DEF after
<1>8. after = F(after, Len(waiting))
  <2> HIDE DEF F, G
  <2> QED BY <1>4, <1>6
<1>9. after[0] = Unpushed(both)
  <2>1. 0 \in 0 .. Len(waiting)
    OBVIOUS
  <2> QED BY <1>8, <2>1
<1>10. \A i \in 1 .. Len(waiting) : after[i] = PushedAlso(after[i - 1], k, waiting[i])
  <2> TAKE i \in 1 .. Len(waiting)
  <2>1. i \in 0 .. Len(waiting) /\ i # 0
    OBVIOUS
  <2> QED BY <1>8, <2>1
<1> QED BY <1>7, <1>9, <1>10 DEF PushesAll

\* What came out of the mixer is well-formed.
Out(done, V) ==
  /\ Drained(done.buffer, V)
  /\ done.chunks \in Seq(ChunkOf(V)) /\ \A c \in 1 .. Len(done.chunks) : Len(done.chunks[c]) = Tick
  /\ done.dropped \in BOOLEAN

\* Before the first buffer nothing has come out.
LEMMA UnpushedIsOut ==
  ASSUME NEW V, NEW both, Drained(both, V)
  PROVE  Out(Unpushed(both), V) /\ Unpushed(both).chunks = <<>> /\ Len(Unpushed(both).chunks) = 0
<1>1. Unpushed(both).chunks = <<>> /\ Unpushed(both).buffer = both /\ Unpushed(both).dropped = FALSE
  BY DEF Unpushed
<1>2. <<>> \in Seq(ChunkOf(V)) /\ Len(<<>>) = 0
  BY EmptySeq
<1>3. \A c \in 1 .. Len(Unpushed(both).chunks) : Len(Unpushed(both).chunks[c]) = Tick
  <2>1. \A c : ~(c \in 1 .. 0)
    OBVIOUS
  <2> QED BY <1>1, <1>2, <2>1
<1>4. Out(Unpushed(both), V)
  BY <1>1, <1>2, <1>3 DEF Out
<1> QED BY <1>1, <1>2, <1>4

\* One more buffer leaves what came out well-formed.
LEMMA OutAlso ==
  ASSUME NEW V, NEW before, Out(before, V), NEW k \in Kinds, NEW samples \in Seq(V[k])
  PROVE  Out(PushedAlso(before, k, samples), V)
<1> DEFINE filled == Fill(before.buffer, k, samples)
           done == PushedAlso(before, k, samples)
<1>1. Filled(before.buffer, V)
  BY DEF Out, Drained
<1>2. Filled(filled, V)
  BY <1>1, FillKeepsLatest DEF Fills
<1>3. /\ done.chunks = before.chunks \o Chunks(filled) /\ done.buffer = Remainder(filled)
      /\ done.dropped = (before.dropped \/ Len(before.buffer[k]) + Len(samples) > MaxBuffered)
  BY PushFillsAndDrains DEF PushedAlso
<1> HIDE DEF filled, done
<1>4. /\ Drained(Remainder(filled), V) /\ Chunks(filled) \in Seq(ChunkOf(V))
      /\ \A c \in 1 .. Len(Chunks(filled)) : Len(Chunks(filled)[c]) = Tick
  <2>1. PICK count \in Nat, taken \in Nat : Drains(filled, V, count, taken)
    BY <1>2, DrainTakesTicks
  <2> QED BY <2>1 DEF Drains
<1>5. /\ done.chunks \in Seq(ChunkOf(V))
      /\ \A c \in 1 .. Len(done.chunks) : Len(done.chunks[c]) = Tick
  <2> DEFINE T == ChunkOf(V)
             s == before.chunks
             t == Chunks(filled)
  <2>1. s \in Seq(T) /\ t \in Seq(T) /\ \A c \in 1 .. Len(s) : Len(s[c]) = Tick
    BY <1>4 DEF Out
  <2>2. \A c \in 1 .. Len(t) : Len(t[c]) = Tick
    BY <1>4
  <2>3. done.chunks = s \o t
    BY <1>3
  <2> HIDE DEF T, s, t
  <2>4. /\ s \o t \in Seq(T) /\ Len(s \o t) = Len(s) + Len(t) /\ Len(s) \in Nat /\ Len(t) \in Nat
        /\ \A c \in 1 .. Len(s) + Len(t) : (s \o t)[c] = IF c <= Len(s) THEN s[c] ELSE t[c - Len(s)]
    BY <2>1, ConcatProperties, LenProperties
  <2>5. ASSUME NEW c \in 1 .. Len(s) + Len(t)
        PROVE  Len((s \o t)[c]) = Tick
    <3>1. CASE c <= Len(s)
      BY <2>1, <2>4, <3>1
    <3>2. CASE ~(c <= Len(s))
      <4>1. c - Len(s) \in 1 .. Len(t)
        BY <2>4, <3>2
      <4> QED BY <2>2, <2>4, <3>2, <4>1
    <3> QED BY <3>1, <3>2
  <2> QED BY <2>3, <2>4, <2>5 DEF T
<1>6. done.dropped \in BOOLEAN
  BY <1>3 DEF Out
<1> QED BY <1>3, <1>4, <1>5, <1>6 DEF Out, done

\* push_frames leaves a well-formed mixer, and well-formed chunks, whatever waits.
LEMMA PushAllIsOut ==
  ASSUME NEW V, NEW both, Drained(both, V), NEW k \in Kinds, NEW waiting \in Seq(Seq(V[k]))
  PROVE  Out(PushAll(both, k, waiting), V)
<1>1. Len(waiting) \in Nat
  BY LenProperties
<1>2. PICK after : PushesAll(after, both, k, waiting)
  BY <1>1, PushAllStepByStep
<1> DEFINE S == {i \in Nat : i <= Len(waiting) => Out(after[i], V)}
<1>3. 0 \in S
  BY <1>2, UnpushedIsOut DEF PushesAll
<1>4. ASSUME NEW n \in Nat, n \in S
      PROVE  n + 1 \in S
  <2> SUFFICES ASSUME n + 1 <= Len(waiting)
               PROVE  Out(after[n + 1], V)
    OBVIOUS
  <2>1. n + 1 \in 1 .. Len(waiting) /\ (n + 1) - 1 = n /\ n <= Len(waiting)
    BY <1>1
  <2>2. Out(after[n], V) /\ after[n + 1] = PushedAlso(after[n], k, waiting[n + 1])
    BY <1>2, <1>4, <2>1 DEF PushesAll
  <2>3. waiting[n + 1] \in Seq(V[k])
    BY <2>1, ElementOfSeq
  <2> QED BY <2>2, <2>3, OutAlso
<1>5. Nat \subseteq S
  <2> HIDE DEF S
  <2> QED BY <1>3, <1>4, SetInduction
<1> QED BY <1>1, <1>2, <1>5 DEF PushesAll

-----------------------------------------------------------------------------
(* Samples one after the other *)

\* The samples of s are consecutive, the first of them captured at `from`.
Runs(s, from) == \A i \in 1 .. Len(s) : s[i] = (from + i) - 1

\* Where buffer i of a queue begins, or the queue ends.
From(waiting, i, to) == IF i <= Len(waiting) THEN waiting[i][1] ELSE to

\* The buffers of a queue are consecutive, up to `to`.
QueueRuns(waiting, to) ==
  \A i \in 1 .. Len(waiting) :
    /\ waiting[i] # <<>> /\ Runs(waiting[i], waiting[i][1])
    /\ waiting[i][1] + Len(waiting[i]) = From(waiting, i + 1, to)

Paired(chunks) ==
  \A c \in 1 .. Len(chunks) : \A i \in 1 .. Len(chunks[c]) : chunks[c][i][1] = chunks[c][i][2]

TimeSets(V) == \A j \in Kinds : V[j] \subseteq Int

\* If the two buffers begin at the same time, one more buffer of samples that
\* follow, of which nothing is dropped, leaves them beginning at the same time, and
\* its chunks pair samples of one time.
LEMMA AlignedAlso ==
  ASSUME NEW V, TimeSets(V), NEW before, Out(before, V),
         NEW k \in Kinds, NEW samples \in Seq(V[k]),
         NEW base \in Int, \A j \in Kinds : Runs(before.buffer[j], base),
         Runs(samples, base + Len(before.buffer[k])),
         Paired(before.chunks), ~PushedAlso(before, k, samples).dropped
  PROVE  \E later \in Int :
           /\ \A j \in Kinds : Runs(PushedAlso(before, k, samples).buffer[j], later)
           /\ \A j \in Kinds :
                later + Len(PushedAlso(before, k, samples).buffer[j]) =
                  base + Len(before.buffer[j]) + (IF j = k THEN Len(samples) ELSE 0)
           /\ Paired(PushedAlso(before, k, samples).chunks)
<1> DEFINE both == before.buffer
           filled == Fill(both, k, samples)
           done == PushedAlso(before, k, samples)
           n == Len(both[k]) + Len(samples)
<1>1. Filled(both, V)
  BY DEF Out, Drained
<1>2. /\ done.chunks = before.chunks \o Chunks(filled) /\ done.buffer = Remainder(filled)
      /\ done.dropped = (before.dropped \/ n > MaxBuffered)
  BY PushFillsAndDrains DEF PushedAlso
<1>3. \A j \in Kinds : both[j] \in Seq(V[j]) /\ Len(both[j]) \in Nat
  <2> TAKE j \in Kinds
  <2>1. both[j] \in Seq(V[j])
    BY <1>1 DEF Filled
  <2> QED BY <2>1, LenProperties
<1>4. Len(samples) \in Nat
  BY LenProperties
<1>5. Overflow(n) = 0
  BY <1>2 DEF Overflow, done
<1>6. /\ Filled(filled, V)
      /\ \A j \in Kinds \ {k} : filled[j] = both[j]
      /\ Len(filled[k]) = n
      /\ \A i \in 1 .. n :
           filled[k][i] = IF i <= Len(both[k]) THEN both[k][i] ELSE samples[i - Len(both[k])]
  <2>1. Fills(both, k, samples, V, 0)
    <3>1. Fills(both, k, samples, V, Overflow(Len(both[k]) + Len(samples)))
      BY <1>1, FillKeepsLatest
    <3> QED BY <1>5, <3>1
  <2>2. n \in Nat /\ n - 0 = n /\ \A i \in 1 .. n : 0 + i = i
    BY <1>3, <1>4
  <2> QED BY <2>1, <2>2 DEF Fills
<1>7. \A j \in Kinds : /\ Len(filled[j]) = Len(both[j]) + (IF j = k THEN Len(samples) ELSE 0)
                       /\ Len(filled[j]) \in Nat
  <2> TAKE j \in Kinds
  <2>1. CASE j = k
    BY <1>3, <1>4, <1>6, <2>1
  <2>2. CASE j # k
    BY <1>3, <1>6, <2>2
  <2> QED BY <2>1, <2>2
<1>8. \A j \in Kinds : Runs(filled[j], base)
  <2> TAKE j \in Kinds
  <2>1. CASE j = k
    <3> SUFFICES ASSUME NEW i \in 1 .. Len(filled[k])
                 PROVE  filled[k][i] = (base + i) - 1
      BY <2>1 DEF Runs
    <3>1. i \in 1 .. n /\ i \in Nat
      BY <1>3, <1>4, <1>6
    <3>2. CASE i <= Len(both[k])
      BY <1>3, <1>6, <3>1, <3>2 DEF Runs
    <3>3. CASE ~(i <= Len(both[k]))
      <4>1. i - Len(both[k]) \in 1 .. Len(samples)
        BY <1>3, <1>4, <3>1, <3>3
      <4>2. filled[k][i] = samples[i - Len(both[k])]
        BY <1>6, <3>1, <3>3
      <4>3. samples[i - Len(both[k])] = ((base + Len(both[k])) + (i - Len(both[k]))) - 1
        BY <4>1 DEF Runs
      <4>4. Len(both[k]) \in Nat /\ i \in Int
        BY <1>3, <3>1
      <4>5. ((base + Len(both[k])) + (i - Len(both[k]))) - 1 = (base + i) - 1
        <5> DEFINE m == Len(both[k])
        <5>1. m \in Int /\ i \in Int
          BY <4>4
        <5> HIDE DEF m
        <5>2. ((base + m) + (i - m)) - 1 = (base + i) - 1
          BY ONLY <5>1, base \in Int
        <5> QED BY <5>2 DEF m
      <4> QED BY <4>2, <4>3, <4>5
    <3> QED BY <3>2, <3>3
  <2>2. CASE j # k
    BY <1>6, <2>2
  <2> QED BY <2>1, <2>2
<1> HIDE DEF filled, done, n
<1>9. PICK count \in Nat, taken \in Nat : Drains(filled, V, count, taken)
  BY <1>6, DrainTakesTicks
<1>10. \A j \in Kinds : /\ Runs(done.buffer[j], base + taken)
                        /\ (base + taken) + Len(done.buffer[j]) = base + Len(filled[j])
  <2> TAKE j \in Kinds
  <2>1. Len(done.buffer[j]) = Len(filled[j]) - taken /\ Len(filled[j]) \in Nat /\ taken <= Len(filled[j])
    BY <1>2, <1>7, <1>9 DEF Drains
  <2>2. ASSUME NEW i \in 1 .. Len(done.buffer[j])
        PROVE  done.buffer[j][i] = ((base + taken) + i) - 1
    <3>1. i \in 1 .. Len(filled[j]) - taken /\ taken + i \in 1 .. Len(filled[j])
      BY <2>1
    <3>2. done.buffer[j][i] = filled[j][taken + i]
      BY <1>2, <1>9, <3>1 DEF Drains
    <3>3. filled[j][taken + i] = (base + (taken + i)) - 1
      BY <1>8, <3>1 DEF Runs
    <3> QED BY <3>1, <3>2, <3>3
  <2>3. Runs(done.buffer[j], base + taken)
    BY ONLY <2>2 DEF Runs
  <2>4. (base + taken) + Len(done.buffer[j]) = base + Len(filled[j])
    <3> DEFINE m == Len(filled[j])
               d == Len(done.buffer[j])
    <3>1. m \in Nat /\ d = m - taken
      BY <2>1
    <3> HIDE DEF m, d
    <3>2. (base + taken) + d = base + m
      BY ONLY <3>1, base \in Int, taken \in Nat
    <3> QED BY <3>2 DEF m, d
  <2> QED BY <2>3, <2>4
<1>11. ASSUME NEW c \in 1 .. Len(Chunks(filled)), NEW i \in 1 .. Len(Chunks(filled)[c])
       PROVE  Chunks(filled)[c][i][1] = Chunks(filled)[c][i][2]
  <2> DEFINE at == (c - 1) * Tick + i
  <2>1. c \in 1 .. count /\ i \in 1 .. Tick
    BY <1>9 DEF Drains
  <2>2. at \in 1 .. taken
    BY <1>9, <2>1 DEF Drains
  <2>3. \A j \in Kinds : Side(Chunks(filled)[c][i], j) = filled[j][at]
    BY <1>9, <2>1 DEF Drains
  <2> HIDE DEF at
  <2>4. \A j \in Kinds : filled[j][at] = (base + at) - 1
    <3> TAKE j \in Kinds
    <3>1. Len(filled[j]) \in Nat /\ taken <= Len(filled[j])
      BY <1>7, <1>9 DEF Drains
    <3>2. at \in 1 .. Len(filled[j])
      BY ONLY <3>1, <2>2, taken \in Nat
    <3> QED BY <1>8, <3>2 DEF Runs
  <2>5. "System" \in Kinds /\ "Microphone" \in Kinds
    BY DEF Kinds
  <2> QED BY <2>3, <2>4, <2>5 DEF Side
<1>12. Paired(done.chunks)
  <2> DEFINE s == before.chunks
             t == Chunks(filled)
             T == ChunkOf(V)
  <2>1. s \in Seq(T) /\ t \in Seq(T)
    BY <1>9 DEF Out, Drains
  <2> HIDE DEF T
  <2>2. /\ Len(s \o t) = Len(s) + Len(t) /\ Len(s) \in Nat /\ Len(t) \in Nat
        /\ \A c \in 1 .. Len(s) + Len(t) : (s \o t)[c] = IF c <= Len(s) THEN s[c] ELSE t[c - Len(s)]
    BY <2>1, ConcatProperties, LenProperties
  <2>3. ASSUME NEW c \in 1 .. Len(s \o t), NEW i \in 1 .. Len((s \o t)[c])
        PROVE  (s \o t)[c][i][1] = (s \o t)[c][i][2]
    <3>1. CASE c <= Len(s)
      <4>1. (s \o t)[c] = s[c] /\ c \in 1 .. Len(s)
        BY <2>2, <3>1
      <4> QED BY <4>1 DEF Paired
    <3>2. CASE ~(c <= Len(s))
      <4>1. (s \o t)[c] = t[c - Len(s)] /\ c - Len(s) \in 1 .. Len(t)
        BY <2>2, <3>2
      <4> QED BY <1>11, <4>1
    <3> QED BY <3>1, <3>2
  <2>4. done.chunks = s \o t
    BY <1>2
  <2> HIDE DEF s, t, done
  <2> QED BY <2>3, <2>4 DEF Paired
<1>13. base + taken \in Int
  OBVIOUS
<1>14. \A j \in Kinds : (base + taken) + Len(done.buffer[j]) =
                           base + Len(both[j]) + (IF j = k THEN Len(samples) ELSE 0)
  <2> TAKE j \in Kinds
  <2> DEFINE more == IF j = k THEN Len(samples) ELSE 0
  <2>1. more \in Nat /\ Len(both[j]) \in Nat
    BY <1>3, <1>4
  <2>2. /\ Len(filled[j]) = Len(both[j]) + more
        /\ (base + taken) + Len(done.buffer[j]) = base + Len(filled[j])
    BY <1>7, <1>10
  <2> HIDE DEF more
  <2>3. base + (Len(both[j]) + more) = base + Len(both[j]) + more
    BY ONLY <2>1, base \in Int
  <2>4. (base + taken) + Len(done.buffer[j]) = base + Len(both[j]) + more
    BY ONLY <2>2, <2>3
  <2> QED BY <2>4 DEF more
<1> QED BY <1>10, <1>12, <1>13, <1>14 DEF done

\* So does every buffer that waits in a channel.
LEMMA PushAllAligned ==
  ASSUME NEW V, TimeSets(V), NEW both, Drained(both, V),
         NEW k \in Kinds, NEW waiting \in Seq(Seq(V[k])), NEW to \in Int, QueueRuns(waiting, to),
         NEW base \in Int, \A j \in Kinds : Runs(both[j], base),
         From(waiting, 1, to) = base + Len(both[k]),
         ~PushAll(both, k, waiting).dropped
  PROVE  \E later \in Int :
           /\ \A j \in Kinds : Runs(PushAll(both, k, waiting).buffer[j], later)
           /\ \A j \in Kinds : later + Len(PushAll(both, k, waiting).buffer[j]) =
                                 IF j = k THEN to ELSE base + Len(both[j])
           /\ Paired(PushAll(both, k, waiting).chunks)
<1> DEFINE Good(done, i) ==
             \E later \in Int :
               /\ \A j \in Kinds : Runs(done.buffer[j], later)
               /\ \A j \in Kinds : later + Len(done.buffer[j]) =
                                     IF j = k THEN From(waiting, i, to) ELSE base + Len(both[j])
               /\ Paired(done.chunks)
<1>1. Len(waiting) \in Nat
  BY LenProperties
<1>2. PICK after : PushesAll(after, both, k, waiting)
  BY <1>1, PushAllStepByStep
<1> DEFINE S == {i \in Nat : i <= Len(waiting) =>
                   /\ Out(after[i], V)
                   /\ ~after[i].dropped => Good(after[i], i + 1)}
<1>3. 0 \in S
  <2>1. after[0] = Unpushed(both) /\ Unpushed(both).buffer = both
        /\ Unpushed(both).chunks = <<>> /\ 0 + 1 = 1
    BY <1>2 DEF PushesAll, Unpushed
  <2>2. Out(after[0], V)
    BY <2>1, UnpushedIsOut
  <2>3. Paired(<<>>)
    <3>1. Len(<<>>) = 0
      BY EmptySeq
    <3>2. \A c : ~(c \in 1 .. 0)
      OBVIOUS
    <3> QED BY <3>1, <3>2 DEF Paired
  <2>4. \A j \in Kinds : base + Len(both[j]) = IF j = k THEN From(waiting, 1, to) ELSE base + Len(both[j])
    OBVIOUS
  <2>5. Good(after[0], 1)
    BY <2>1, <2>3, <2>4
  <2> HIDE DEF Good
  <2> QED BY <2>1, <2>2, <2>5
<1>4. ASSUME NEW n \in Nat, n \in S
      PROVE  n + 1 \in S
  <2> SUFFICES ASSUME n + 1 <= Len(waiting)
               PROVE  /\ Out(after[n + 1], V)
                      /\ ~after[n + 1].dropped => Good(after[n + 1], (n + 1) + 1)
    <3> HIDE DEF Good
    <3> QED OBVIOUS
  <2> DEFINE samples == waiting[n + 1]
             before == after[n]
             done == after[n + 1]
  <2>1. n + 1 \in 1 .. Len(waiting) /\ (n + 1) - 1 = n /\ n <= Len(waiting)
    BY <1>1
  <2>2. Out(before, V) /\ (~before.dropped => Good(before, n + 1))
    <3> HIDE DEF Good
    <3> QED BY <1>4, <2>1
  <2>3. done = PushedAlso(before, k, samples) /\ samples \in Seq(V[k])
    BY <1>2, <2>1, ElementOfSeq DEF PushesAll
  <2>4. Out(done, V)
    <3> HIDE DEF Good, done, samples, before
    <3> QED BY <2>2, <2>3, OutAlso
  <2>5. ASSUME ~done.dropped
        PROVE  Good(done, (n + 1) + 1)
    <3>1. ~before.dropped
      <4>1. done.dropped = (before.dropped \/ Push(before.buffer, k, samples).dropped)
        <5> HIDE DEF done, samples, before
        <5> QED BY <2>3 DEF PushedAlso
      <4> HIDE DEF done, samples, before, Good
      <4> QED BY <2>5, <4>1
    <3>2. PICK b \in Int :
            /\ \A j \in Kinds : Runs(before.buffer[j], b)
            /\ \A j \in Kinds : b + Len(before.buffer[j]) =
                                  IF j = k THEN From(waiting, n + 1, to) ELSE base + Len(both[j])
            /\ Paired(before.chunks)
      BY <2>2, <3>1
    <3>3. /\ samples # <<>> /\ Runs(samples, samples[1])
          /\ samples[1] + Len(samples) = From(waiting, (n + 1) + 1, to)
          /\ From(waiting, n + 1, to) = samples[1]
      <4>1. From(waiting, n + 1, to) = samples[1]
        BY DEF From
      <4>2. /\ waiting[n + 1] # <<>> /\ Runs(waiting[n + 1], waiting[n + 1][1])
            /\ waiting[n + 1][1] + Len(waiting[n + 1]) = From(waiting, (n + 1) + 1, to)
        BY <2>1 DEF QueueRuns
      <4> QED BY <4>1, <4>2
    <3> HIDE DEF Good, done, samples, before
    <3>4. Runs(samples, b + Len(before.buffer[k]))
      BY <3>2, <3>3
    <3>5. ~PushedAlso(before, k, samples).dropped
      BY <2>3, <2>5
    <3>6. PICK later \in Int :
            /\ \A j \in Kinds : Runs(PushedAlso(before, k, samples).buffer[j], later)
            /\ \A j \in Kinds :
                 later + Len(PushedAlso(before, k, samples).buffer[j]) =
                   b + Len(before.buffer[j]) + (IF j = k THEN Len(samples) ELSE 0)
            /\ Paired(PushedAlso(before, k, samples).chunks)
      BY <2>2, <2>3, <3>2, <3>4, <3>5, AlignedAlso
    <3>7. \A j \in Kinds : later + Len(done.buffer[j]) =
                             IF j = k THEN From(waiting, (n + 1) + 1, to) ELSE base + Len(both[j])
      <4> TAKE j \in Kinds
      <4>1. CASE j = k
        BY <2>3, <3>2, <3>3, <3>6, <4>1
      <4>2. CASE j # k
        <5>1. later + Len(done.buffer[j]) = b + Len(before.buffer[j]) + 0
          BY <2>3, <3>6, <4>2
        <5>2. b + Len(before.buffer[j]) = base + Len(both[j])
          BY <3>2, <4>2
        <5>3. Len(both[j]) \in Int
          <6>1. both[j] \in Seq(V[j])
            BY DEF Drained, Filled
          <6> QED BY <6>1, LenProperties
        <5>4. (base + Len(both[j])) + 0 = base + Len(both[j])
          BY <5>3
        <5> QED BY <4>2, <5>1, <5>2, <5>4
      <4> QED BY <4>1, <4>2
    <3> QED BY <2>3, <3>6, <3>7 DEF Good
  <2> HIDE DEF Good
  <2> QED BY <2>4, <2>5
<1>5. Nat \subseteq S
  <2> HIDE DEF S
  <2> QED BY <1>3, <1>4, SetInduction
<1>6. Good(after[Len(waiting)], Len(waiting) + 1)
  <2>1. after[Len(waiting)] = PushAll(both, k, waiting)
    BY <1>2 DEF PushesAll
  <2> HIDE DEF Good
  <2> QED BY <1>1, <1>5, <2>1
<1>7. From(waiting, Len(waiting) + 1, to) = to
  BY <1>1 DEF From
<1>8. after[Len(waiting)] = PushAll(both, k, waiting)
  BY <1>2 DEF PushesAll
<1> QED BY <1>6, <1>7, <1>8

-----------------------------------------------------------------------------
(* The distance of the channels *)

\* The samples of g begin at `base`; every sample of the other kind that may
\* end a chunk was captured less than `limit` before the one it will meet.
Gap(both, g, base, limit) ==
  /\ Runs(both[g], base)
  /\ \A p \in Tick .. Len(both[Other(g)]) : base + p <= both[Other(g)][p] + limit

\* The channel of g ends a chunk less than `limit` later than the other.
Behind(chunks, g, limit) ==
  \A c \in 1 .. Len(chunks) :
    Side(chunks[c][Tick], g) - Side(chunks[c][Tick], Other(g)) < limit

\* What came out of the mixer keeps the gap, and g is pushed up to `end`.
KeepsGap(done, g, limit, bound, end) ==
  \E base \in Int :
    /\ Gap(done.buffer, g, base, limit) /\ base + Len(done.buffer[g]) = end
    /\ Behind(done.chunks, g, bound)

\* There are two kinds of sources.
LEMMA KindsDiffer ==
  ASSUME NEW g \in Kinds
  PROVE  Other(g) \in Kinds /\ Other(g) # g /\ \A j \in Kinds : j = g \/ j = Other(g)
BY DEF Kinds, Other

\* The end of a chunk lies at least a tick behind the start of the buffer.
LEMMA EndOfChunk ==
  ASSUME NEW c \in Nat \ {0}
  PROVE  (c - 1) * Tick + Tick >= Tick
<1> DEFINE d == c - 1
<1>1. d \in Nat /\ Tick \in Nat
  BY SizesAssumption
<1> HIDE DEF d
<1>2. d * Tick \in Nat
  BY <1>1
<1>3. d * Tick + Tick >= Tick
  BY ONLY <1>1, <1>2
<1> QED BY <1>3 DEF d

\* Draining keeps the gap, and the chunks show it.
LEMMA DrainKeepsGap ==
  ASSUME NEW V, TimeSets(V), NEW both, Filled(both, V), NEW g \in Kinds,
         NEW base \in Int, NEW limit \in Int, Gap(both, g, base, limit),
         NEW count \in Nat, NEW taken \in Nat, Drains(both, V, count, taken)
  PROVE  /\ Gap(Remainder(both), g, base + taken, limit)
         /\ (base + taken) + Len(Remainder(both)[g]) = base + Len(both[g])
         /\ Behind(Chunks(both), g, limit)
<1> DEFINE l == Other(g)
           rest == Remainder(both)
<1>1. l \in Kinds /\ Tick \in Nat \ {0}
  BY KindsDiffer, SizesAssumption
<1> HIDE DEF l
<1>2. \A j \in Kinds : both[j] \in Seq(V[j]) /\ Len(both[j]) \in Nat /\ taken <= Len(both[j])
                       /\ Len(rest[j]) = Len(both[j]) - taken
  <2> TAKE j \in Kinds
  <2>1. both[j] \in Seq(V[j])
    BY DEF Filled
  <2>2. Len(both[j]) \in Nat
    BY <2>1, LenProperties
  <2> QED BY <2>1, <2>2 DEF Drains
<1>3. \A j \in Kinds : \A p \in 1 .. Len(both[j]) : both[j][p] \in Int
  <2> TAKE j \in Kinds
  <2> TAKE p \in 1 .. Len(both[j])
  <2>1. both[j][p] \in V[j]
    BY <1>2, ElementOfSeq
  <2> QED BY <2>1 DEF TimeSets
<1>4. \A j \in Kinds : \A p \in 1 .. Len(rest[j]) :
        taken + p \in 1 .. Len(both[j]) /\ rest[j][p] = both[j][taken + p]
  <2> TAKE j \in Kinds
  <2> TAKE p \in 1 .. Len(rest[j])
  <2>1. p \in 1 .. Len(both[j]) - taken
    BY <1>2
  <2>2. rest[j][p] = both[j][taken + p]
    BY <2>1 DEF Drains
  <2> DEFINE m == Len(both[j])
  <2>3. m \in Nat /\ taken <= m /\ p \in 1 .. m - taken
    BY <1>2, <2>1
  <2> HIDE DEF m
  <2>4. taken + p \in 1 .. m
    BY ONLY <2>3, taken \in Nat
  <2> QED BY <2>2, <2>4 DEF m
<1>5. \A p \in 1 .. Len(both[g]) : both[g][p] = (base + p) - 1
  BY DEF Gap, Runs
<1>6. \A p \in Tick .. Len(both[l]) : base + p <= both[l][p] + limit
  BY DEF Gap, l
<1>7. Runs(rest[g], base + taken)
  <2> SUFFICES ASSUME NEW p \in 1 .. Len(rest[g])
               PROVE  rest[g][p] = ((base + taken) + p) - 1
    BY DEF Runs
  <2>1. rest[g][p] = (base + (taken + p)) - 1
    BY <1>4, <1>5
  <2>2. p \in Int
    OBVIOUS
  <2>3. (base + (taken + p)) - 1 = ((base + taken) + p) - 1
    BY ONLY <2>2, base \in Int, taken \in Nat
  <2> QED BY <2>1, <2>3
<1>8. \A p \in Tick .. Len(rest[l]) : (base + taken) + p <= rest[l][p] + limit
  <2> TAKE p \in Tick .. Len(rest[l])
  <2>1. p \in 1 .. Len(rest[l]) /\ p >= Tick /\ p \in Int
    BY <1>1
  <2>2. taken + p \in 1 .. Len(both[l]) /\ rest[l][p] = both[l][taken + p]
    BY <1>1, <1>4, <2>1
  <2>3. taken + p \in Tick .. Len(both[l])
    BY <1>1, <2>1, <2>2
  <2>4. base + (taken + p) <= both[l][taken + p] + limit
    BY <1>6, <2>3
  <2>5. base + (taken + p) = (base + taken) + p
    BY ONLY <2>1, base \in Int, taken \in Nat
  <2> QED BY <2>2, <2>4, <2>5
<1>9. (base + taken) + Len(rest[g]) = base + Len(both[g])
  <2> DEFINE m == Len(both[g])
             d == Len(rest[g])
  <2>1. m \in Nat /\ d = m - taken
    BY <1>2
  <2> HIDE DEF m, d
  <2>2. (base + taken) + d = base + m
    BY ONLY <2>1, base \in Int, taken \in Nat
  <2> QED BY <2>2 DEF m, d
<1>10. ASSUME NEW c \in 1 .. Len(Chunks(both))
       PROVE  Side(Chunks(both)[c][Tick], g) - Side(Chunks(both)[c][Tick], l) < limit
  <2> DEFINE at == (c - 1) * Tick + Tick
  <2>1. c \in 1 .. count /\ Tick \in 1 .. Tick
    BY <1>1 DEF Drains
  <2>2. at \in 1 .. taken /\ \A j \in Kinds : Side(Chunks(both)[c][Tick], j) = both[j][at]
    BY <2>1 DEF Drains
  <2>3. at >= Tick
    BY <2>1, EndOfChunk
  <2> HIDE DEF at
  <2>4. at \in 1 .. Len(both[g]) /\ at \in 1 .. Len(both[l])
    <3>1. /\ Len(both[g]) \in Nat /\ taken <= Len(both[g])
          /\ Len(both[l]) \in Nat /\ taken <= Len(both[l])
      BY <1>1, <1>2
    <3> QED BY ONLY <2>2, <3>1, taken \in Nat
  <2>5. at \in Tick .. Len(both[l])
    BY <1>1, <2>3, <2>4
  <2> DEFINE x == both[g][at]
             y == both[l][at]
  <2>6. x = (base + at) - 1 /\ base + at <= y + limit /\ y \in Int /\ at \in Int
    BY <1>1, <1>3, <1>5, <1>6, <2>4, <2>5
  <2>7. Side(Chunks(both)[c][Tick], g) = x /\ Side(Chunks(both)[c][Tick], l) = y
    BY <1>1, <2>2
  <2> HIDE DEF x, y
  <2>8. x - y < limit
    BY ONLY <2>6, base \in Int, limit \in Int
  <2> QED BY <2>7, <2>8
<1>11. Behind(Chunks(both), g, limit)
  BY <1>10 DEF Behind, l
<1>12. Gap(rest, g, base + taken, limit)
  BY <1>7, <1>8 DEF Gap, l
<1> QED BY <1>9, <1>11, <1>12

\* Chunks that follow chunks keep the distance if both do.
LEMMA BehindConcat ==
  ASSUME NEW S, NEW s \in Seq(S), NEW t \in Seq(S), NEW g, NEW limit,
         Behind(s, g, limit), Behind(t, g, limit)
  PROVE  Behind(s \o t, g, limit)
<1>1. /\ Len(s \o t) = Len(s) + Len(t) /\ Len(s) \in Nat /\ Len(t) \in Nat
      /\ \A c \in 1 .. Len(s) + Len(t) : (s \o t)[c] = IF c <= Len(s) THEN s[c] ELSE t[c - Len(s)]
  BY ConcatProperties, LenProperties
<1> SUFFICES ASSUME NEW c \in 1 .. Len(s \o t)
             PROVE  Side((s \o t)[c][Tick], g) - Side((s \o t)[c][Tick], Other(g)) < limit
  BY DEF Behind
<1>2. CASE c <= Len(s)
  <2>1. (s \o t)[c] = s[c] /\ c \in 1 .. Len(s)
    BY <1>1, <1>2
  <2> QED BY <2>1 DEF Behind
<1>3. CASE ~(c <= Len(s))
  <2>1. (s \o t)[c] = t[c - Len(s)] /\ c - Len(s) \in 1 .. Len(t)
    BY <1>1, <1>3
  <2> QED BY <2>1 DEF Behind
<1> QED BY <1>2, <1>3

\* A distance is also below a larger bound.
LEMMA BehindWeaker ==
  ASSUME NEW V, TimeSets(V), NEW chunks \in Seq(ChunkOf(V)),
         \A c \in 1 .. Len(chunks) : Len(chunks[c]) = Tick,
         NEW g \in Kinds, NEW a \in Int, NEW b \in Int, a <= b, Behind(chunks, g, a)
  PROVE  Behind(chunks, g, b)
<1> SUFFICES ASSUME NEW c \in 1 .. Len(chunks)
             PROVE  Side(chunks[c][Tick], g) - Side(chunks[c][Tick], Other(g)) < b
  BY DEF Behind
<1> DEFINE x == Side(chunks[c][Tick], g)
           y == Side(chunks[c][Tick], Other(g))
<1>1. x - y < a
  BY DEF Behind
<1>2. x \in Int /\ y \in Int
  <2>1. chunks[c] \in Seq(V["System"] \X V["Microphone"]) /\ Tick \in 1 .. Len(chunks[c])
    BY ElementOfSeq, SizesAssumption DEF ChunkOf
  <2>2. chunks[c][Tick] \in V["System"] \X V["Microphone"]
    BY <2>1, ElementOfSeq
  <2> QED BY <2>2 DEF TimeSets, Side, Kinds
<1> HIDE DEF x, y
<1>3. x - y < b
  BY ONLY <1>1, <1>2, a \in Int, b \in Int, a <= b
<1> QED BY <1>3 DEF x, y

\* A buffer of the other kind, captured late enough, keeps the gap.
LEMMA OtherPushKeepsGap ==
  ASSUME NEW V, TimeSets(V), NEW before, Out(before, V), NEW g \in Kinds,
         NEW samples \in Seq(V[Other(g)]), NEW base \in Int, NEW limit \in Int,
         Gap(before.buffer, g, base, limit), Behind(before.chunks, g, limit),
         \A i \in 1 .. Len(samples) :
           base + Len(before.buffer[g]) + MaxBuffered <= samples[i] + limit
  PROVE  KeepsGap(PushedAlso(before, Other(g), samples), g, limit, limit,
                  base + Len(before.buffer[g]))
<1> DEFINE l == Other(g)
           both == before.buffer
           filled == Fill(both, l, samples)
           done == PushedAlso(before, l, samples)
           n == Len(both[l]) + Len(samples)
           cut == Overflow(n)
<1>1. /\ l \in Kinds /\ l # g /\ l = Other(g) /\ Tick \in Nat \ {0} /\ MaxBuffered \in Nat
      /\ samples \in Seq(V[l])
  BY KindsDiffer, SizesAssumption
<1>2. done.chunks = before.chunks \o Chunks(filled) /\ done.buffer = Remainder(filled)
  BY PushFillsAndDrains DEF PushedAlso
<1>3. Filled(both, V)
  BY DEF Out, Drained
<1>4. \A j \in Kinds : both[j] \in Seq(V[j]) /\ Len(both[j]) \in Nat /\ Len(both[j]) <= MaxBuffered
  <2> TAKE j \in Kinds
  <2>1. both[j] \in Seq(V[j]) /\ Len(both[j]) \in 0 .. MaxBuffered
    BY <1>3 DEF Filled
  <2> QED BY <1>1, <2>1
<1>5. Len(samples) \in Nat /\ \A i \in 1 .. Len(samples) : samples[i] \in Int
  <2>1. \A i \in 1 .. Len(samples) : samples[i] \in V[l]
    BY <1>1, ElementOfSeq
  <2> QED BY <1>1, <2>1, LenProperties DEF TimeSets
<1> HIDE DEF l
<1>6. Fills(both, l, samples, V, cut)
  BY <1>1, <1>3, FillKeepsLatest
<1> HIDE DEF cut, filled, done
<1>7. /\ Filled(filled, V) /\ cut \in Nat /\ filled[g] = both[g] /\ Len(filled[l]) = n - cut
      /\ \A i \in 1 .. n - cut :
           filled[l][i] = IF cut + i <= Len(both[l]) THEN both[l][cut + i]
                          ELSE samples[(cut + i) - Len(both[l])]
  BY <1>1, <1>6 DEF Fills, filled
<1>8. Len(filled[l]) <= MaxBuffered
  BY <1>1, <1>7 DEF Filled
<1>9. ASSUME NEW p \in Tick .. Len(filled[l])
      PROVE  base + p <= filled[l][p] + limit
  <2>1. n \in Nat /\ p \in 1 .. n - cut /\ p \in Nat /\ p <= MaxBuffered
    BY <1>1, <1>4, <1>5, <1>7, <1>8
  <2>2. CASE cut + p <= Len(both[l])
    <3>1. cut + p \in Tick .. Len(both[l]) /\ cut + p \in 1 .. Len(both[l])
      BY <1>1, <1>4, <1>7, <2>1, <2>2
    <3>2. base + (cut + p) <= both[l][cut + p] + limit
      BY <1>1, <3>1 DEF Gap
    <3>3. both[l][cut + p] \in Int
      <4>1. both[l][cut + p] \in V[l]
        BY <1>1, <1>4, <3>1, ElementOfSeq
      <4> QED BY <1>1, <4>1 DEF TimeSets
    <3>4. filled[l][p] = both[l][cut + p]
      BY <1>7, <2>1, <2>2
    <3> DEFINE x == both[l][cut + p]
    <3>5. x \in Int /\ base + (cut + p) <= x + limit
      BY <3>2, <3>3
    <3> HIDE DEF x
    <3>6. base + p <= x + limit
      BY ONLY <1>7, <2>1, <3>5, base \in Int, limit \in Int
    <3> QED BY <3>4, <3>6 DEF x
  <2>3. CASE ~(cut + p <= Len(both[l]))
    <3> DEFINE i == (cut + p) - Len(both[l])
    <3>1. i \in 1 .. Len(samples)
      BY <1>4, <1>1, <1>5, <1>7, <2>1, <2>3
    <3>2. filled[l][p] = samples[i]
      BY <1>7, <2>1, <2>3
    <3> HIDE DEF i
    <3>3. base + Len(both[g]) + MaxBuffered <= samples[i] + limit
      BY <3>1
    <3> DEFINE x == samples[i]
               m == Len(both[g])
    <3>4. x \in Int /\ m \in Nat /\ base + m + MaxBuffered <= x + limit /\ MaxBuffered \in Nat
      BY <1>1, <1>4, <1>5, <3>1, <3>3
    <3> HIDE DEF x, m
    <3>5. base + p <= x + limit
      BY ONLY <2>1, <3>4, base \in Int, limit \in Int
    <3> QED BY <3>2, <3>5 DEF x
  <2> QED BY <2>2, <2>3
<1>10. Gap(filled, g, base, limit)
  BY <1>1, <1>7, <1>9 DEF Gap
<1>11. PICK count \in Nat, taken \in Nat : Drains(filled, V, count, taken)
  BY <1>7, DrainTakesTicks
<1>12. /\ Gap(Remainder(filled), g, base + taken, limit)
       /\ (base + taken) + Len(Remainder(filled)[g]) = base + Len(filled[g])
       /\ Behind(Chunks(filled), g, limit)
  BY <1>7, <1>10, <1>11, DrainKeepsGap
<1>13. Behind(done.chunks, g, limit)
  <2> DEFINE T == ChunkOf(V)
  <2>1. before.chunks \in Seq(T) /\ Chunks(filled) \in Seq(T)
    BY <1>11 DEF Out, Drains
  <2> HIDE DEF T
  <2> QED BY <1>2, <1>12, <2>1, BehindConcat
<1>14. base + taken \in Int
  OBVIOUS
<1>15. KeepsGap(done, g, limit, limit, base + Len(both[g]))
  BY <1>2, <1>7, <1>12, <1>13, <1>14 DEF KeepsGap
<1> QED BY <1>15 DEF done, l

\* A buffer of the steady kind keeps the gap, even if the mixer has no room.
LEMMA SteadyPushKeepsGap ==
  ASSUME NEW V, TimeSets(V), NEW before, Out(before, V), NEW g \in Kinds,
         NEW samples \in Seq(V[g]), NEW base \in Int, NEW limit \in Int, NEW bound \in Int,
         Gap(before.buffer, g, base, limit), Behind(before.chunks, g, bound),
         Runs(samples, base + Len(before.buffer[g])),
         limit <= bound, (limit - MaxBuffered) + Tick + Len(samples) <= bound
  PROVE  KeepsGap(PushedAlso(before, g, samples), g, limit, bound,
                  base + Len(before.buffer[g]) + Len(samples))
<1> DEFINE l == Other(g)
           both == before.buffer
           filled == Fill(both, g, samples)
           done == PushedAlso(before, g, samples)
           n == Len(both[g]) + Len(samples)
           cut == Overflow(n)
<1>1. /\ l \in Kinds /\ l # g /\ l = Other(g) /\ Tick \in Nat \ {0} /\ MaxBuffered \in Nat
      /\ \A j \in Kinds : j = g \/ j = l
  BY KindsDiffer, SizesAssumption
<1>2. done.chunks = before.chunks \o Chunks(filled) /\ done.buffer = Remainder(filled)
  BY PushFillsAndDrains DEF PushedAlso
<1>3. Filled(both, V) /\ Drained(both, V)
  BY DEF Out, Drained
<1>4. \A j \in Kinds : both[j] \in Seq(V[j]) /\ Len(both[j]) \in Nat /\ Len(both[j]) <= MaxBuffered
  <2> TAKE j \in Kinds
  <2>1. both[j] \in Seq(V[j]) /\ Len(both[j]) \in 0 .. MaxBuffered
    BY <1>3 DEF Filled
  <2> QED BY <1>1, <2>1
<1>5. Len(samples) \in Nat
  BY LenProperties
<1> HIDE DEF l
<1>6. Fills(both, g, samples, V, cut)
  BY <1>3, FillKeepsLatest
<1>7. n \in Nat /\ (n > MaxBuffered => cut = n - MaxBuffered) /\ (n <= MaxBuffered => cut = 0)
  BY <1>1, <1>4, <1>5 DEF Overflow
<1> HIDE DEF cut, filled, done
<1>8. /\ Filled(filled, V) /\ cut \in Nat /\ filled[l] = both[l] /\ Len(filled[g]) = n - cut
      /\ \A i \in 1 .. n - cut :
           filled[g][i] = IF cut + i <= Len(both[g]) THEN both[g][cut + i]
                          ELSE samples[(cut + i) - Len(both[g])]
  BY <1>1, <1>6 DEF Fills, filled
<1>9. Runs(filled[g], base + cut)
  <2> SUFFICES ASSUME NEW i \in 1 .. Len(filled[g])
               PROVE  filled[g][i] = ((base + cut) + i) - 1
    BY DEF Runs
  <2>1. i \in 1 .. n - cut /\ i \in Int
    BY <1>8
  <2>2. CASE cut + i <= Len(both[g])
    <3>1. cut + i \in 1 .. Len(both[g])
      BY <1>4, <1>8, <2>1, <2>2
    <3>2. filled[g][i] = both[g][cut + i]
      BY <1>8, <2>1, <2>2
    <3>3. both[g][cut + i] = (base + (cut + i)) - 1
      BY <3>1 DEF Gap, Runs
    <3>4. (base + (cut + i)) - 1 = ((base + cut) + i) - 1
      BY ONLY <1>8, <2>1, base \in Int
    <3> QED BY <3>2, <3>3, <3>4
  <2>3. CASE ~(cut + i <= Len(both[g]))
    <3> DEFINE at == (cut + i) - Len(both[g])
               m == Len(both[g])
    <3>1. at \in 1 .. Len(samples)
      BY <1>4, <1>5, <1>7, <1>8, <2>1, <2>3
    <3>2. filled[g][i] = samples[at]
      BY <1>8, <2>1, <2>3
    <3>3. m \in Nat /\ at = (cut + i) - m
      BY <1>4
    <3> HIDE DEF at
    <3>4. samples[at] = ((base + m) + at) - 1
      BY <3>1 DEF Runs
    <3> HIDE DEF m
    <3>5. ((base + m) + at) - 1 = ((base + cut) + i) - 1
      BY ONLY <1>8, <2>1, <3>3, base \in Int
    <3> QED BY <3>2, <3>4, <3>5
  <2> QED BY <2>2, <2>3
<1>10. ASSUME NEW p \in Tick .. Len(both[l])
       PROVE  /\ both[l][p] \in Int /\ p \in Int
              /\ base + p <= both[l][p] + limit
              /\ (base + cut) + p <= both[l][p] + bound
  <2>1. p \in 1 .. Len(both[l]) /\ Len(both[l]) >= Tick
    BY <1>1, <1>4
  <2>2. both[l][p] \in Int
    <3>1. both[l][p] \in V[l]
      BY <1>1, <1>4, <2>1, ElementOfSeq
    <3> QED BY <1>1, <3>1 DEF TimeSets
  <2>3. Len(both[g]) < Tick
    <3>1. PICK j \in Kinds : Len(both[j]) < Tick
      BY <1>3 DEF Drained
    <3>2. j # l
      BY <1>1, <1>4, <2>1, <3>1
    <3> QED BY <1>1, <3>1, <3>2
  <2>4. base + p <= both[l][p] + limit
    BY <1>1 DEF Gap
  <2> DEFINE x == both[l][p]
             m == Len(both[g])
             k == Len(samples)
  <2>5. /\ x \in Int /\ base + p <= x + limit /\ m \in Nat /\ m < Tick /\ n = m + k /\ k \in Nat
        /\ p \in Int /\ (limit - MaxBuffered) + Tick + k <= bound
    BY <1>4, <1>5, <2>1, <2>2, <2>3, <2>4
  <2> HIDE DEF x, m, k, n
  <2>6. (base + cut) + p <= x + bound
    <3>1. CASE n > MaxBuffered
      <4>1. cut = (m + k) - MaxBuffered
        BY <1>7, <2>5, <3>1
      <4> QED BY ONLY <1>1, <2>5, <4>1, base \in Int, limit \in Int, bound \in Int
    <3>2. CASE ~(n > MaxBuffered)
      <4>1. cut = 0
        BY <1>1, <1>7, <3>2
      <4> QED BY ONLY <2>5, <4>1, limit <= bound, base \in Int, limit \in Int, bound \in Int
    <3> QED BY <3>1, <3>2
  <2> QED BY <2>5, <2>6 DEF x
<1>11. Gap(filled, g, base + cut, bound)
  BY <1>1, <1>8, <1>9, <1>10 DEF Gap
<1>12. PICK count \in Nat, taken \in Nat : Drains(filled, V, count, taken)
  BY <1>8, DrainTakesTicks
<1> DEFINE later == (base + cut) + taken
<1>13. /\ Gap(Remainder(filled), g, later, bound)
       /\ later + Len(Remainder(filled)[g]) = (base + cut) + Len(filled[g])
       /\ Behind(Chunks(filled), g, bound)
  <2>1. base + cut \in Int
    BY <1>8
  <2> QED BY <1>8, <1>11, <1>12, <2>1, DrainKeepsGap
<1>14. later \in Int
  BY <1>8
<1>15. Gap(Remainder(filled), g, later, limit)
  <2>1. Runs(Remainder(filled)[g], later)
    BY <1>13 DEF Gap
  <2>2. ASSUME NEW p \in Tick .. Len(Remainder(filled)[l])
        PROVE  later + p <= Remainder(filled)[l][p] + limit
    <3>1. /\ Len(Remainder(filled)[l]) = Len(filled[l]) - taken
          /\ Len(Remainder(filled)[g]) = Len(filled[g]) - taken
          /\ \A i \in 1 .. Len(filled[l]) - taken : Remainder(filled)[l][i] = filled[l][taken + i]
          /\ \E j \in Kinds : Len(Remainder(filled)[j]) < Tick
      BY <1>1, <1>12 DEF Drains, Drained
    <3>2. Len(both[l]) \in Nat /\ Len(filled[l]) = Len(both[l]) /\ Len(both[l]) <= MaxBuffered
      BY <1>1, <1>4, <1>8
    <3>3. n <= MaxBuffered
      <4> SUFFICES ASSUME n > MaxBuffered PROVE FALSE
        BY <1>1, <1>7
      <4>1. Len(filled[g]) = MaxBuffered
        BY <1>1, <1>7, <1>8
      <4>2. Len(Remainder(filled)[l]) >= Tick
        BY <1>1, <3>1, <3>2
      <4>3. Len(Remainder(filled)[g]) >= Tick
        BY <1>1, <3>1, <3>2, <4>1, <4>2
      <4>4. PICK j \in Kinds : Len(Remainder(filled)[j]) < Tick
        BY <3>1
      <4>5. j = l \/ j = g
        BY <1>1
      <4>6. Len(Remainder(filled)[l]) \in Int /\ Len(Remainder(filled)[g]) \in Int
        BY <1>1, <3>1, <3>2, <4>1
      <4> QED BY <1>1, <4>2, <4>3, <4>4, <4>5, <4>6
    <3>4. cut = 0
      BY <1>7, <3>3
    <3>5. taken + p \in Tick .. Len(both[l]) /\ p \in 1 .. Len(filled[l]) - taken
      BY <1>1, <3>1, <3>2
    <3>6. Remainder(filled)[l][p] = both[l][taken + p]
      BY <1>8, <3>1, <3>5
    <3>7. base + (taken + p) <= both[l][taken + p] + limit
      BY <1>10, <3>5
    <3>8. base + (taken + p) = later + p
      <4>1. p \in Int
        BY <1>1
      <4> QED BY ONLY <3>4, <4>1, base \in Int, taken \in Nat
    <3> QED BY <3>6, <3>7, <3>8
  <2> QED BY <1>1, <2>1, <2>2 DEF Gap
<1>16. later + Len(Remainder(filled)[g]) = base + Len(both[g]) + Len(samples)
  <2> DEFINE m == Len(both[g])
             k == Len(samples)
  <2>1. m \in Nat /\ k \in Nat /\ Len(filled[g]) = (m + k) - cut
    BY <1>4, <1>5, <1>8
  <2>2. later + Len(Remainder(filled)[g]) = (base + cut) + Len(filled[g])
    BY <1>13
  <2> HIDE DEF m, k, later
  <2>3. (base + cut) + ((m + k) - cut) = base + m + k
    BY ONLY <1>8, <2>1, base \in Int
  <2> QED BY <2>1, <2>2, <2>3 DEF m, k
<1>17. Behind(done.chunks, g, bound)
  <2> DEFINE T == ChunkOf(V)
  <2>1. before.chunks \in Seq(T) /\ Chunks(filled) \in Seq(T)
    BY <1>12 DEF Out, Drains
  <2> HIDE DEF T
  <2> QED BY <1>2, <1>13, <2>1, BehindConcat
<1> HIDE DEF later
<1>18. KeepsGap(done, g, limit, bound, base + Len(both[g]) + Len(samples))
  BY <1>2, <1>14, <1>15, <1>16, <1>17 DEF KeepsGap
<1> QED BY <1>18 DEF done

\* No chunk, no distance.
LEMMA NothingIsBehind ==
  ASSUME NEW g, NEW limit
  PROVE  Behind(<<>>, g, limit)
<1>1. Len(<<>>) = 0
  BY EmptySeq
<1>2. \A c : ~(c \in 1 .. 0)
  OBVIOUS
<1> QED BY <1>1, <1>2 DEF Behind

\* All buffers that wait of the other source keep the gap, if they were captured
\* late enough.
LEMMA PushAllOfOtherKeepsGap ==
  ASSUME NEW V, TimeSets(V), NEW both, Drained(both, V), NEW g \in Kinds,
         NEW waiting \in Seq(Seq(V[Other(g)])), NEW base \in Int, NEW limit \in Int,
         Gap(both, g, base, limit),
         \A w \in 1 .. Len(waiting) : \A i \in 1 .. Len(waiting[w]) :
           base + Len(both[g]) + MaxBuffered <= waiting[w][i] + limit
  PROVE  KeepsGap(PushAll(both, Other(g), waiting), g, limit, limit, base + Len(both[g]))
<1> DEFINE Good(done) == KeepsGap(done, g, limit, limit, base + Len(both[g]))
<1>1. Len(waiting) \in Nat /\ Other(g) \in Kinds
  BY LenProperties, KindsDiffer
<1>2. PICK after : PushesAll(after, both, Other(g), waiting)
  BY <1>1, PushAllStepByStep
<1> DEFINE S == {i \in Nat : i <= Len(waiting) => Out(after[i], V) /\ Good(after[i])}
<1>3. 0 \in S
  <2>1. after[0] = Unpushed(both) /\ Unpushed(both).buffer = both /\ Unpushed(both).chunks = <<>>
    BY <1>2 DEF PushesAll, Unpushed
  <2>2. Out(after[0], V)
    BY <2>1, UnpushedIsOut
  <2>3. Good(after[0])
    BY <2>1, NothingIsBehind DEF KeepsGap
  <2> HIDE DEF Good
  <2> QED BY <2>2, <2>3
<1>4. ASSUME NEW n \in Nat, n \in S
      PROVE  n + 1 \in S
  <2> SUFFICES ASSUME n + 1 <= Len(waiting)
               PROVE  Out(after[n + 1], V) /\ Good(after[n + 1])
    <3> HIDE DEF Good
    <3> QED OBVIOUS
  <2> DEFINE samples == waiting[n + 1]
             before == after[n]
             done == after[n + 1]
  <2>1. n + 1 \in 1 .. Len(waiting) /\ (n + 1) - 1 = n /\ n <= Len(waiting)
    BY <1>1
  <2>2. Out(before, V) /\ Good(before)
    <3> HIDE DEF Good
    <3> QED BY <1>4, <2>1
  <2>3. done = PushedAlso(before, Other(g), samples) /\ samples \in Seq(V[Other(g)])
    BY <1>2, <2>1, ElementOfSeq DEF PushesAll
  <2>4. \A i \in 1 .. Len(samples) : base + Len(both[g]) + MaxBuffered <= samples[i] + limit
    BY <2>1
  <2> HIDE DEF done, samples, before
  <2>5. Out(done, V)
    <3> HIDE DEF Good
    <3> QED BY <1>1, <2>2, <2>3, OutAlso
  <2>6. PICK b \in Int :
          /\ Gap(before.buffer, g, b, limit)
          /\ b + Len(before.buffer[g]) = base + Len(both[g])
          /\ Behind(before.chunks, g, limit)
    BY <2>2 DEF KeepsGap
  <2>7. \A i \in 1 .. Len(samples) : b + Len(before.buffer[g]) + MaxBuffered <= samples[i] + limit
    BY <2>4, <2>6
  <2>8. Good(done)
    <3>1. KeepsGap(PushedAlso(before, Other(g), samples), g, limit, limit, b + Len(before.buffer[g]))
      <4> HIDE DEF Good
      <4> QED BY <2>2, <2>3, <2>6, <2>7, OtherPushKeepsGap
    <3> QED BY <2>3, <2>6, <3>1
  <2> HIDE DEF Good
  <2> QED BY <2>5, <2>8 DEF done
<1>5. Nat \subseteq S
  <2> HIDE DEF S
  <2> QED BY <1>3, <1>4, SetInduction
<1>6. Good(after[Len(waiting)])
  <2> HIDE DEF Good
  <2> QED BY <1>1, <1>5
<1>7. after[Len(waiting)] = PushAll(both, Other(g), waiting)
  BY <1>2 DEF PushesAll
<1> QED BY <1>6, <1>7

\* All buffers that wait of the steady source keep the gap, and push it up to the
\* end of its channel.
LEMMA PushAllOfSteadyKeepsGap ==
  ASSUME NEW V, TimeSets(V), NEW both, Drained(both, V), NEW g \in Kinds,
         NEW waiting \in Seq(Seq(V[g])), NEW to \in Int, QueueRuns(waiting, to),
         NEW base \in Int, NEW limit \in Int, NEW bound \in Int,
         Gap(both, g, base, limit), From(waiting, 1, to) = base + Len(both[g]), limit <= bound,
         \A w \in 1 .. Len(waiting) : (limit - MaxBuffered) + Tick + Len(waiting[w]) <= bound
  PROVE  KeepsGap(PushAll(both, g, waiting), g, limit, bound, to)
<1> DEFINE Good(done, i) == KeepsGap(done, g, limit, bound, From(waiting, i, to))
<1>1. Len(waiting) \in Nat
  BY LenProperties
<1>2. PICK after : PushesAll(after, both, g, waiting)
  BY <1>1, PushAllStepByStep
<1> DEFINE S == {i \in Nat : i <= Len(waiting) => Out(after[i], V) /\ Good(after[i], i + 1)}
<1>3. 0 \in S
  <2>1. after[0] = Unpushed(both) /\ Unpushed(both).buffer = both
        /\ Unpushed(both).chunks = <<>> /\ 0 + 1 = 1
    BY <1>2 DEF PushesAll, Unpushed
  <2>2. Out(after[0], V)
    BY <2>1, UnpushedIsOut
  <2>3. Good(after[0], 1)
    BY <2>1, NothingIsBehind DEF KeepsGap
  <2> HIDE DEF Good
  <2> QED BY <2>1, <2>2, <2>3
<1>4. ASSUME NEW n \in Nat, n \in S
      PROVE  n + 1 \in S
  <2> SUFFICES ASSUME n + 1 <= Len(waiting)
               PROVE  Out(after[n + 1], V) /\ Good(after[n + 1], (n + 1) + 1)
    <3> HIDE DEF Good
    <3> QED OBVIOUS
  <2> DEFINE samples == waiting[n + 1]
             before == after[n]
             done == after[n + 1]
  <2>1. n + 1 \in 1 .. Len(waiting) /\ (n + 1) - 1 = n /\ n <= Len(waiting)
    BY <1>1
  <2>2. Out(before, V) /\ Good(before, n + 1)
    <3> HIDE DEF Good
    <3> QED BY <1>4, <2>1
  <2>3. done = PushedAlso(before, g, samples) /\ samples \in Seq(V[g])
    BY <1>2, <2>1, ElementOfSeq DEF PushesAll
  <2>4. (limit - MaxBuffered) + Tick + Len(samples) <= bound
    BY <2>1
  <2>5. /\ samples # <<>> /\ Runs(samples, samples[1])
        /\ samples[1] + Len(samples) = From(waiting, (n + 1) + 1, to)
        /\ From(waiting, n + 1, to) = samples[1]
    <3>1. From(waiting, n + 1, to) = samples[1]
      BY DEF From
    <3>2. /\ waiting[n + 1] # <<>> /\ Runs(waiting[n + 1], waiting[n + 1][1])
          /\ waiting[n + 1][1] + Len(waiting[n + 1]) = From(waiting, (n + 1) + 1, to)
      BY <2>1 DEF QueueRuns
    <3> QED BY <3>1, <3>2
  <2> HIDE DEF done, samples, before
  <2>6. Out(done, V)
    <3> HIDE DEF Good
    <3> QED BY <2>2, <2>3, OutAlso
  <2>7. PICK b \in Int :
          /\ Gap(before.buffer, g, b, limit)
          /\ b + Len(before.buffer[g]) = From(waiting, n + 1, to)
          /\ Behind(before.chunks, g, bound)
    BY <2>2 DEF KeepsGap
  <2>8. Runs(samples, b + Len(before.buffer[g]))
    BY <2>5, <2>7
  <2>9. Good(done, (n + 1) + 1)
    <3>1. KeepsGap(PushedAlso(before, g, samples), g, limit, bound,
                   b + Len(before.buffer[g]) + Len(samples))
      <4> HIDE DEF Good
      <4> QED BY <2>2, <2>3, <2>4, <2>7, <2>8, SteadyPushKeepsGap
    <3>2. b + Len(before.buffer[g]) + Len(samples) = From(waiting, (n + 1) + 1, to)
      BY <2>5, <2>7
    <3> QED BY <2>3, <3>1, <3>2
  <2> HIDE DEF Good
  <2> QED BY <2>6, <2>9 DEF done
<1>5. Nat \subseteq S
  <2> HIDE DEF S
  <2> QED BY <1>3, <1>4, SetInduction
<1>6. Good(after[Len(waiting)], Len(waiting) + 1)
  <2> HIDE DEF Good
  <2> QED BY <1>1, <1>5
<1>7. From(waiting, Len(waiting) + 1, to) = to
  BY <1>1 DEF From
<1>8. after[Len(waiting)] = PushAll(both, g, waiting)
  BY <1>2 DEF PushesAll
<1> QED BY <1>6, <1>7, <1>8

-----------------------------------------------------------------------------
(* FlattenSeq *)

\* f[i] is the first i sequences of q in one.
Flattens(f, q) ==
  /\ f[1] = q[1]
  /\ \A i \in 2 .. Len(q) : f[i] = f[i - 1] \o q[i]
  /\ FlattenSeq(q) = f[Len(q)]

\* FlattenSeq satisfies its recursive equation.
LEMMA FlattenStepByStep ==
  ASSUME NEW q, Len(q) \in Nat \ {0}
  PROVE  \E f : Flattens(f, q)
<1> DEFINE F(g, n) == [i \in 1 .. n |-> IF i = 1 THEN q[i] ELSE g[i - 1] \o q[i]]
           S == {n \in Nat : \E g : g = F(g, n + 1)}
<1>1. 0 \in S
  <2> DEFINE g == [i \in 1 .. 1 |-> q[1]]
  <2>1. g = F(g, 1)
    <3>1. \A i \in 1 .. 1 : i = 1
      OBVIOUS
    <3> QED BY <3>1
  <2>2. 0 + 1 = 1
    OBVIOUS
  <2> HIDE DEF g, F
  <2> QED BY <2>1, <2>2
<1>2. ASSUME NEW n \in Nat, n \in S
      PROVE  n + 1 \in S
  <2> DEFINE m == n + 1
  <2>1. m \in Nat /\ m >= 1
    OBVIOUS
  <2>2. PICK g : g = F(g, m)
    <3> HIDE DEF F
    <3> QED BY <1>2
  <2> HIDE DEF m
  <2> DEFINE last == g[m] \o q[m + 1]
             h == [i \in 1 .. m + 1 |-> IF i <= m THEN g[i] ELSE last]
  <2> HIDE DEF last
  <2>3. \A i \in 1 .. m + 1 : h[i] = F(h, m + 1)[i]
    <3> TAKE i \in 1 .. m + 1
    <3>1. CASE i = 1
      <4>1. 1 \in 1 .. m /\ 1 <= m /\ 1 \in 1 .. m + 1
        BY <2>1
      <4>2. h[1] = g[1] /\ g[1] = q[1]
        BY <2>2, <4>1
      <4> QED BY <3>1, <4>1, <4>2
    <3>2. CASE i \in 2 .. m
      <4>1. i # 1 /\ i \in 1 .. m /\ i <= m /\ i - 1 <= m /\ i - 1 \in 1 .. m + 1
        BY <2>1, <3>2
      <4>2. h[i] = g[i] /\ h[i - 1] = g[i - 1]
        BY <4>1
      <4>3. g[i] = g[i - 1] \o q[i]
        BY <2>2, <4>1
      <4>4. F(h, m + 1)[i] = h[i - 1] \o q[i]
        BY <4>1
      <4> HIDE DEF h, F
      <4> QED BY <4>2, <4>3, <4>4
    <3>3. CASE i = m + 1
      <4>1. i # 1 /\ ~(i <= m) /\ i - 1 = m /\ m <= m /\ m \in 1 .. m + 1
        BY <2>1, <3>3
      <4>2. h[i] = last /\ h[i - 1] = g[m]
        BY <4>1
      <4>3. F(h, m + 1)[i] = h[i - 1] \o q[i]
        BY <4>1
      <4> HIDE DEF h, F
      <4> QED BY <3>3, <4>2, <4>3 DEF last
    <3> HIDE DEF h, F
    <3>4. i = 1 \/ i \in 2 .. m \/ i = m + 1
      BY <2>1
    <3> QED BY <3>1, <3>2, <3>3, <3>4
  <2>4. h = [i \in 1 .. m + 1 |-> h[i]] /\ F(h, m + 1) = [i \in 1 .. m + 1 |-> F(h, m + 1)[i]]
    OBVIOUS
  <2> HIDE DEF h, F
  <2>5. h = F(h, m + 1)
    BY <2>3, <2>4
  <2> QED BY <2>1, <2>5 DEF m
<1>3. Nat \subseteq S
  <2> HIDE DEF S
  <2> QED BY <1>1, <1>2, SetInduction
<1>4. \E g : g = F(g, Len(q))
  <2>1. Len(q) - 1 \in S /\ (Len(q) - 1) + 1 = Len(q)
    <3> HIDE DEF S
    <3> QED BY <1>3
  <2> HIDE DEF F
  <2> QED BY <2>1
<1> DEFINE f == CHOOSE g : g = F(g, Len(q))
<1>5. f = F(f, Len(q))
  <2> HIDE DEF F
  <2> QED BY <1>4
<1>6. FlattenSeq(q) = f[Len(q)]
  <2>1. Len(q) # 0
    OBVIOUS
  <2> QED BY <2>1 DEF FlattenSeq
<1> HIDE DEF f
<1>7. f[1] = q[1]
  <2>1. 1 \in 1 .. Len(q)
    OBVIOUS
  <2> QED BY <1>5, <2>1
<1>8. \A i \in 2 .. Len(q) : f[i] = f[i - 1] \o q[i]
  <2> TAKE i \in 2 .. Len(q)
  <2>1. i \in 1 .. Len(q) /\ i # 1
    OBVIOUS
  <2> QED BY <1>5, <2>1
<1>9. Flattens(f, q)
  BY <1>6, <1>7, <1>8 DEF Flattens
<1> QED BY <1>9

\* total[i] is how many elements the first i sequences of q have.
Totals(total, q) ==
  /\ total[0] = 0
  /\ \A i \in 1 .. Len(q) : total[i - 1] \in Nat /\ total[i] = total[i - 1] + Len(q[i])
  /\ Len(FlattenSeq(q)) = total[Len(q)] /\ total[Len(q)] \in Nat

\* Len(FlattenSeq(q)) is the sum of the lengths.
LEMMA FlattenCounts ==
  ASSUME NEW S, NEW q \in Seq(Seq(S))
  PROVE  \E total : Totals(total, q)
<1>1. Len(q) \in Nat
  BY LenProperties
<1>2. CASE Len(q) = 0
  <2> DEFINE total == [i \in 0 .. 0 |-> 0]
  <2>1. FlattenSeq(q) = q
    BY <1>2 DEF FlattenSeq
  <2>2. \A i : ~(i \in 1 .. 0)
    OBVIOUS
  <2>3. total[0] = 0
    OBVIOUS
  <2> HIDE DEF total
  <2>4. Totals(total, q)
    BY <1>2, <2>1, <2>2, <2>3 DEF Totals
  <2> QED BY <2>4
<1>3. CASE Len(q) # 0
  <2>1. PICK f : Flattens(f, q)
    BY <1>1, <1>3, FlattenStepByStep
  <2> DEFINE T == {i \in Nat : i + 1 <= Len(q) => f[i + 1] \in Seq(S)}
             total == [i \in 0 .. Len(q) |-> IF i = 0 THEN 0 ELSE Len(f[i])]
  <2>2. 0 \in T
    <3>1. q[1] \in Seq(S)
      BY <1>1, <1>3, ElementOfSeq
    <3>2. 0 + 1 = 1
      OBVIOUS
    <3> QED BY <2>1, <3>1, <3>2 DEF Flattens
  <2>3. ASSUME NEW n \in Nat, n \in T
        PROVE  n + 1 \in T
    <3> SUFFICES ASSUME (n + 1) + 1 <= Len(q)
                 PROVE  f[(n + 1) + 1] \in Seq(S)
      OBVIOUS
    <3> DEFINE i == (n + 1) + 1
    <3>1. i \in 2 .. Len(q) /\ i \in 1 .. Len(q) /\ i - 1 = n + 1 /\ n + 1 <= Len(q)
      BY <1>1
    <3> HIDE DEF i
    <3>2. f[i] = f[i - 1] \o q[i] /\ f[i - 1] \in Seq(S)
      BY <2>1, <2>3, <3>1 DEF Flattens
    <3>3. q[i] \in Seq(S)
      BY <3>1, ElementOfSeq
    <3>4. f[i] \in Seq(S)
      BY <3>2, <3>3, ConcatProperties
    <3> QED BY <3>4 DEF i
  <2>4. Nat \subseteq T
    <3> HIDE DEF T
    <3> QED BY <2>2, <2>3, SetInduction
  <2>5. ASSUME NEW i \in 1 .. Len(q)
        PROVE  f[i] \in Seq(S) /\ Len(f[i]) \in Nat
    <3>1. i - 1 \in Nat /\ (i - 1) + 1 = i /\ i <= Len(q)
      BY <1>1
    <3>2. f[i] \in Seq(S)
      BY <2>4, <3>1
    <3> QED BY <3>2, LenProperties
  <2>6. ASSUME NEW i \in 1 .. Len(q)
        PROVE  total[i - 1] \in Nat /\ total[i] = total[i - 1] + Len(q[i])
    <3>1. i - 1 \in 0 .. Len(q) /\ i \in 0 .. Len(q) /\ i # 0
      BY <1>1
    <3>2. total[i] = Len(f[i]) /\ total[i - 1] = IF i - 1 = 0 THEN 0 ELSE Len(f[i - 1])
      BY <3>1
    <3> HIDE DEF total
    <3>3. CASE i = 1
      <4>1. f[1] = q[1] /\ Len(f[1]) \in Nat
        BY <2>1, <2>5, <3>3 DEF Flattens
      <4> QED BY <3>2, <3>3, <4>1
    <3>4. CASE i # 1
      <4>1. i \in 2 .. Len(q) /\ i - 1 \in 1 .. Len(q) /\ i - 1 # 0
        BY <1>1, <3>4
      <4>2. f[i] = f[i - 1] \o q[i] /\ f[i - 1] \in Seq(S) /\ Len(f[i - 1]) \in Nat
        BY <2>1, <2>5, <4>1 DEF Flattens
      <4>3. q[i] \in Seq(S)
        BY ElementOfSeq
      <4>4. Len(f[i]) = Len(f[i - 1]) + Len(q[i])
        BY <4>2, <4>3, ConcatProperties
      <4> QED BY <3>2, <4>1, <4>2, <4>4
    <3> QED BY <3>3, <3>4
  <2>7. total[0] = 0
    BY <1>1
  <2>8. Len(FlattenSeq(q)) = total[Len(q)] /\ total[Len(q)] \in Nat
    <3>1. Len(q) \in 1 .. Len(q) /\ Len(q) \in 0 .. Len(q)
      BY <1>1, <1>3
    <3>2. total[Len(q)] = Len(f[Len(q)])
      BY <1>3, <3>1
    <3> QED BY <2>1, <2>5, <3>1, <3>2 DEF Flattens
  <2> HIDE DEF total
  <2>9. Totals(total, q)
    BY <2>6, <2>7, <2>8 DEF Totals
  <2> QED BY <2>9
<1> QED BY <1>2, <1>3

\* Every partial sum of lengths is a number.
LEMMA TotalsGrow ==
  ASSUME NEW S, NEW q \in Seq(Seq(S)), NEW total, Totals(total, q)
  PROVE  \A i \in 0 .. Len(q) : total[i] \in Nat
<1>1. Len(q) \in Nat
  BY LenProperties
<1> TAKE i \in 0 .. Len(q)
<1>2. CASE i = Len(q)
  BY <1>2 DEF Totals
<1>3. CASE i # Len(q)
  <2>1. i + 1 \in 1 .. Len(q) /\ (i + 1) - 1 = i
    BY <1>1, <1>3
  <2> QED BY <2>1 DEF Totals
<1> QED BY <1>2, <1>3

\* An empty channel holds no samples.
LEMMA NothingWaits ==
  Len(FlattenSeq(<<>>)) = 0
<1>1. Len(<<>>) = 0
  BY EmptySeq
<1> QED BY <1>1 DEF FlattenSeq

\* A buffer that is appended adds its samples.
LEMMA FlattenAppend ==
  ASSUME NEW S, NEW q \in Seq(Seq(S)), NEW s \in Seq(S)
  PROVE  /\ Len(FlattenSeq(q)) \in Nat
         /\ Len(FlattenSeq(Append(q, s))) = Len(FlattenSeq(q)) + Len(s)
<1> DEFINE r == Append(q, s)
<1>1. /\ Len(q) \in Nat /\ r \in Seq(Seq(S)) /\ Len(r) = Len(q) + 1
      /\ r[Len(q) + 1] = s /\ \A i \in 1 .. Len(q) : r[i] = q[i]
  BY AppendProperties, LenProperties
<1> HIDE DEF r
<1>2. PICK a : Totals(a, q)
  BY FlattenCounts
<1>3. PICK b : Totals(b, r)
  BY <1>1, FlattenCounts
<1> DEFINE T == {i \in Nat : i <= Len(q) => a[i] = b[i]}
<1>4. 0 \in T
  BY <1>2, <1>3 DEF Totals
<1>5. ASSUME NEW n \in Nat, n \in T
      PROVE  n + 1 \in T
  <2> SUFFICES ASSUME n + 1 <= Len(q)
               PROVE  a[n + 1] = b[n + 1]
    OBVIOUS
  <2>1. n + 1 \in 1 .. Len(q) /\ n + 1 \in 1 .. Len(r) /\ (n + 1) - 1 = n /\ n <= Len(q)
    BY <1>1
  <2>2. a[n + 1] = a[n] + Len(q[n + 1]) /\ b[n + 1] = b[n] + Len(r[n + 1])
    BY <1>2, <1>3, <2>1 DEF Totals
  <2> QED BY <1>1, <1>5, <2>1, <2>2
<1>6. Nat \subseteq T
  <2> HIDE DEF T
  <2> QED BY <1>4, <1>5, SetInduction
<1>7. a[Len(q)] = b[Len(q)]
  BY <1>1, <1>6
<1>8. b[Len(r)] = b[Len(q)] + Len(s)
  <2>1. Len(r) \in 1 .. Len(r) /\ Len(r) - 1 = Len(q) /\ r[Len(r)] = s
    BY <1>1
  <2> QED BY <1>3, <2>1 DEF Totals
<1>9. /\ Len(FlattenSeq(q)) = a[Len(q)] /\ a[Len(q)] \in Nat
      /\ Len(FlattenSeq(r)) = b[Len(r)]
  BY <1>2, <1>3 DEF Totals
<1> QED BY <1>7, <1>8, <1>9 DEF r

\* No buffer is longer than all that waits.
LEMMA PartOfFlatten ==
  ASSUME NEW S, NEW q \in Seq(Seq(S)), NEW i \in 1 .. Len(q)
  PROVE  Len(q[i]) <= Len(FlattenSeq(q))
<1>1. Len(q) \in Nat
  BY LenProperties
<1>2. PICK total : Totals(total, q)
  BY FlattenCounts
<1>3. \A j \in 0 .. Len(q) : total[j] \in Nat
  BY <1>2, TotalsGrow
<1>4. \A j \in 1 .. Len(q) : Len(q[j]) \in Nat
  <2> TAKE j \in 1 .. Len(q)
  <2>1. q[j] \in Seq(S)
    BY ElementOfSeq
  <2> QED BY <2>1, LenProperties
<1> DEFINE T == {n \in Nat : i + n <= Len(q) => total[i] <= total[i + n]}
<1>5. 0 \in T
  <2>1. i + 0 = i /\ i \in 0 .. Len(q)
    BY <1>1
  <2>2. total[i] <= total[i]
    BY <1>3, <2>1
  <2> QED BY <2>1, <2>2
<1>6. ASSUME NEW n \in Nat, n \in T
      PROVE  n + 1 \in T
  <2> SUFFICES ASSUME i + (n + 1) <= Len(q)
               PROVE  total[i] <= total[i + (n + 1)]
    OBVIOUS
  <2>1. /\ i + (n + 1) \in 1 .. Len(q) /\ (i + (n + 1)) - 1 = i + n /\ i + n <= Len(q)
        /\ i + n \in 0 .. Len(q) /\ i \in 0 .. Len(q)
    BY <1>1
  <2>2. total[i + (n + 1)] = total[i + n] + Len(q[i + (n + 1)])
    BY <1>2, <2>1 DEF Totals
  <2>3. total[i] <= total[i + n]
    BY <1>6, <2>1
  <2> DEFINE x == total[i]
             y == total[i + n]
             z == Len(q[i + (n + 1)])
  <2>4. x \in Nat /\ y \in Nat /\ z \in Nat /\ x <= y
    BY <1>3, <1>4, <2>1, <2>3
  <2> HIDE DEF x, y, z
  <2>5. x <= y + z
    BY ONLY <2>4
  <2> QED BY <2>2, <2>5 DEF x, y, z
<1>7. Nat \subseteq T
  <2> HIDE DEF T
  <2> QED BY <1>5, <1>6, SetInduction
<1>8. total[i] <= total[Len(q)]
  <2>1. Len(q) - i \in Nat /\ i + (Len(q) - i) = Len(q)
    BY <1>1
  <2>2. Len(q) - i \in T
    <3> HIDE DEF T
    <3> QED BY <1>7, <2>1
  <2> QED BY <1>1, <2>1, <2>2
<1>9. total[i] = total[i - 1] + Len(q[i]) /\ total[i - 1] \in Nat
  BY <1>2 DEF Totals
<1>10. Len(FlattenSeq(q)) = total[Len(q)] /\ total[Len(q)] \in Nat
  BY <1>2 DEF Totals
<1> QED BY <1>4, <1>8, <1>9, <1>10

\* A queue without gaps holds as many samples as it spans.
LEMMA WaitingSpans ==
  ASSUME NEW S, S \subseteq Int, NEW q \in Seq(Seq(S)), NEW to \in Int, QueueRuns(q, to)
  PROVE  From(q, 1, to) + Len(FlattenSeq(q)) = to
<1>1. Len(q) \in Nat
  BY LenProperties
<1>2. PICK total : Totals(total, q)
  BY FlattenCounts
<1>3. \A j \in 0 .. Len(q) : total[j] \in Nat
  BY <1>2, TotalsGrow
<1>4. ASSUME NEW j \in 1 .. Len(q)
      PROVE  /\ From(q, j, to) \in Int /\ Len(q[j]) \in Nat
             /\ From(q, j, to) + Len(q[j]) = From(q, j + 1, to)
  <2>1. q[j] \in Seq(S) /\ q[j] # <<>>
    BY ElementOfSeq DEF QueueRuns
  <2>2. Len(q[j]) \in Nat \ {0}
    BY <2>1, EmptySeq
  <2>3. q[j][1] \in S
    BY <2>1, <2>2, ElementOfSeq
  <2>4. From(q, j, to) = q[j][1]
    BY <1>1 DEF From
  <2>5. q[j][1] + Len(q[j]) = From(q, j + 1, to)
    BY DEF QueueRuns
  <2> QED BY <2>2, <2>3, <2>4, <2>5
<1>5. From(q, 1, to) \in Int
  <2>1. CASE Len(q) = 0
    BY <2>1 DEF From
  <2>2. CASE Len(q) # 0
    <3>1. 1 \in 1 .. Len(q)
      BY <1>1, <2>2
    <3> QED BY <1>4, <3>1
  <2> QED BY <2>1, <2>2
<1> DEFINE T == {n \in Nat : n <= Len(q) => From(q, 1, to) + total[n] = From(q, n + 1, to)}
<1>6. 0 \in T
  <2>1. total[0] = 0 /\ 0 + 1 = 1
    BY <1>2 DEF Totals
  <2>2. From(q, 1, to) + 0 = From(q, 1, to)
    BY <1>5
  <2> QED BY <2>1, <2>2
<1>7. ASSUME NEW n \in Nat, n \in T
      PROVE  n + 1 \in T
  <2> SUFFICES ASSUME n + 1 <= Len(q)
               PROVE  From(q, 1, to) + total[n + 1] = From(q, (n + 1) + 1, to)
    OBVIOUS
  <2>1. n + 1 \in 1 .. Len(q) /\ (n + 1) - 1 = n /\ n <= Len(q) /\ n \in 0 .. Len(q)
    BY <1>1
  <2>2. total[n + 1] = total[n] + Len(q[n + 1])
    BY <1>2, <2>1 DEF Totals
  <2>3. From(q, 1, to) + total[n] = From(q, n + 1, to)
    BY <1>7, <2>1
  <2>4. From(q, n + 1, to) + Len(q[n + 1]) = From(q, (n + 1) + 1, to)
    BY <1>4, <2>1
  <2> DEFINE x == From(q, 1, to)
             y == total[n]
             z == Len(q[n + 1])
  <2>5. x \in Int /\ y \in Nat /\ z \in Nat
    BY <1>3, <1>4, <1>5, <2>1
  <2> HIDE DEF x, y, z
  <2>6. x + (y + z) = (x + y) + z
    BY ONLY <2>5
  <2> QED BY <2>2, <2>3, <2>4, <2>6 DEF x, y, z
<1>8. Nat \subseteq T
  <2> HIDE DEF T
  <2> QED BY <1>6, <1>7, SetInduction
<1>9. From(q, 1, to) + total[Len(q)] = From(q, Len(q) + 1, to)
  BY <1>1, <1>8
<1>10. From(q, Len(q) + 1, to) = to
  BY <1>1 DEF From
<1> QED BY <1>2, <1>9, <1>10 DEF Totals

-----------------------------------------------------------------------------
(* Types of the state *)

\* The times each source has captured so far.
Times == [k \in Kinds |-> 0 .. clock[k] - 1]

Resamplers == [rate : Rates \cup {0}, position : Int, seen : Nat, origin : Nat]

ControlTyped ==
  /\ sources \in {"before", "running", "after"}
  /\ clock \in [Kinds -> 0 .. MaxTime]
  /\ paused \in BOOLEAN /\ recorder \in BOOLEAN /\ link \in BOOLEAN
  /\ disturbed \in BOOLEAN /\ lossy \subseteq Kinds /\ backlog \in 0 .. MaxTime

QueuesTyped ==
  /\ frames = [k \in Kinds |-> frames[k]]
  /\ \A k \in Kinds : /\ frames[k] \in Seq(Seq(Times[k])) /\ Len(frames[k]) <= MaxWaiting
                      /\ Waiting(k) <= clock[k]

WholeChunks(chunks, V) ==
  chunks \in Seq(ChunkOf(V)) /\ \A c \in 1 .. Len(chunks) : Len(chunks[c]) = Tick

ChunksTyped ==
  /\ WholeChunks(recorded, Times) /\ WholeChunks(streamed, Times)
  /\ begun \in None .. Len(recorded)

\* The resampler's next output is of the time the microphone has captured to.
ResamplerIsExact ==
  /\ resampler \in Resamplers
  /\ resampler # NoResampler =>
       \E m \in Nat : Exact(resampler, m) /\ resampler.origin + m = clock["Microphone"]

Typed ==
  /\ ControlTyped /\ QueuesTyped /\ Drained(buffer, Times) /\ ChunksTyped /\ ResamplerIsExact

\* Process continues where the buffer before ended.
LEMMA ProcessIsExact ==
  ASSUME NEW r \in Resamplers, NEW m \in Nat, Exact(r, m), NEW n \in Nat
  PROVE  \E count \in Nat :
           /\ Process(r, n).outputs = [i \in 1 .. count |-> (r.origin + m + i) - 1]
           /\ Process(r, n).resampler \in Resamplers
           /\ Process(r, n).resampler.rate = r.rate
           /\ Process(r, n).resampler.origin = r.origin
           /\ Exact(Process(r, n).resampler, m + count)
<1>1. PICK count \in Nat :
        /\ Outputs(r, n).outputs = [i \in 1 .. count |-> (r.origin + m + i) - 1]
        /\ Outputs(r, n).position = r.position + count * r.rate
        /\ Outputs(r, n).position - n * Target > -Target
  BY OutputsAreNext
<1> DEFINE position == Outputs(r, n).position
           next == [r EXCEPT !.position = position - n * Target, !.seen = @ + n]
<1>2. Process(r, n).outputs = Outputs(r, n).outputs /\ Process(r, n).resampler = next
  BY DEF Process
<1>3. /\ r.rate \in Nat /\ r.position \in Int /\ r.seen \in Nat /\ r.origin \in Nat
      /\ Target \in Nat
  BY SizesAssumption DEF Resamplers, Exact
<1>4. position \in Int /\ n * Target \in Int
  BY <1>1, <1>3
<1>5. /\ next \in Resamplers /\ next.rate = r.rate /\ next.origin = r.origin
      /\ next.seen = r.seen + n /\ next.position = position - n * Target
  <2> DEFINE p == position - n * Target
             q == r.seen + n
  <2>1. p \in Int /\ q \in Nat
    BY <1>3, <1>4
  <2>2. next = [r EXCEPT !.position = p, !.seen = q]
    OBVIOUS
  <2> HIDE DEF p, q, next
  <2>3. /\ next \in Resamplers /\ next.rate = r.rate /\ next.origin = r.origin
        /\ next.seen = q /\ next.position = p
    BY ONLY <2>1, <2>2, r \in Resamplers DEF Resamplers
  <2> QED BY <2>3 DEF p, q
<1>6. Target * (r.seen + n) + (position - n * Target) = r.rate * (m + count)
  <2>1. Target * r.seen + r.position = r.rate * m
    BY DEF Exact
  <2>2. Target * (r.seen + n) = Target * r.seen + n * Target
    BY <1>3
  <2>3. r.rate * (m + count) = r.rate * m + count * r.rate
    BY <1>3
  <2>4. position = r.position + count * r.rate
    BY <1>1
  <2>5. Target * r.seen \in Int /\ r.rate * m \in Int /\ count * r.rate \in Int
    BY <1>3
  <2> DEFINE a == Target * r.seen
             b == r.rate * m
             c == count * r.rate
             d == n * Target
  <2>6. (a + d) + (position - d) = b + c
    <3>1. a \in Int /\ b \in Int /\ c \in Int /\ d \in Int /\ a + r.position = b
          /\ position = r.position + c
      BY <2>1, <2>4, <2>5, <1>4
    <3> HIDE DEF a, b, c, d, position
    <3> QED BY <3>1, <1>3
  <2> QED BY <2>6, <2>3, <2>2
<1>7. Exact(next, m + count)
  <2> HIDE DEF position, next
  <2>1. next.position \in Int /\ next.position > -Target
    BY <1>1, <1>4, <1>5 DEF position
  <2>2. Target * next.seen + next.position = next.rate * (m + count)
    BY <1>5, <1>6
  <2>3. next.rate \in Nat \ {0} /\ next.seen \in Nat /\ next.origin \in Nat /\ m + count \in Nat
    BY <1>5, <1>3 DEF Exact
  <2> QED BY <2>1, <2>2, <2>3 DEF Exact
<1> HIDE DEF next
<1> QED BY <1>1, <1>2, <1>5, <1>7

\* The maximum of three numbers.
LEMMA MaxOfThree ==
  ASSUME NEW a \in Int, NEW b \in Int, NEW c \in Int
  PROVE  /\ Max({a, b, c}) \in {a, b, c}
         /\ a <= Max({a, b, c}) /\ b <= Max({a, b, c}) /\ c <= Max({a, b, c})
<1> DEFINE S == {a, b, c}
<1>1. \E x \in S : \A y \in S : x >= y
  <2>1. CASE a >= b /\ a >= c
    BY <2>1
  <2>2. CASE b >= a /\ b >= c
    BY <2>2
  <2>3. CASE c >= a /\ c >= b
    BY <2>3
  <2> QED BY <2>1, <2>2, <2>3
<1>2. Max(S) \in S /\ \A y \in S : Max(S) >= y
  BY <1>1 DEF Max
<1> QED BY <1>2

\* A look at the channels counts everything that waits.
LEMMA LookCounts ==
  ASSUME ControlTyped, QueuesTyped, Look
  PROVE  /\ backlog' \in 0 .. MaxTime /\ backlog <= backlog'
         /\ \A k \in Kinds : Waiting(k) \in Nat /\ Waiting(k) <= backlog'
<1>1. \A k \in Kinds : Waiting(k) \in Nat /\ Waiting(k) <= MaxTime
  <2> TAKE k \in Kinds
  <2>1. frames[k] \in Seq(Seq(Times[k])) /\ Waiting(k) <= clock[k] /\ clock[k] \in 0 .. MaxTime
    BY DEF QueuesTyped, ControlTyped
  <2>2. <<>> \in Seq(Times[k])
    BY EmptySeq
  <2>3. Len(FlattenSeq(frames[k])) \in Nat
    BY <2>1, <2>2, FlattenAppend
  <2> QED BY <2>1, <2>3, SizesAssumption DEF Waiting
<1> DEFINE a == Waiting("System")
           b == Waiting("Microphone")
<1>2. a \in 0 .. MaxTime /\ b \in 0 .. MaxTime /\ backlog \in 0 .. MaxTime
  BY <1>1, SizesAssumption DEF Kinds, ControlTyped
<1>3. backlog' = Max({backlog, a, b})
  <2>1. {backlog} \cup {Waiting(k) : k \in Kinds} = {backlog, a, b}
    BY DEF Kinds
  <2> QED BY <2>1 DEF Look
<1>4. /\ backlog' \in {backlog, a, b}
      /\ backlog <= backlog' /\ a <= backlog' /\ b <= backlog'
  <2> HIDE DEF a, b
  <2>1. backlog \in Int /\ a \in Int /\ b \in Int
    BY <1>2, SizesAssumption
  <2> QED BY <1>3, <2>1, MaxOfThree
<1>5. backlog' \in 0 .. MaxTime
  BY <1>2, <1>4
<1>6. \A k \in Kinds : Waiting(k) = a \/ Waiting(k) = b
  BY DEF Kinds
<1> HIDE DEF a, b
<1> QED BY <1>1, <1>4, <1>5, <1>6

\* Queues over a set are queues over a larger one.
LEMMA QueueGrows ==
  ASSUME NEW S, NEW T, S \subseteq T, NEW q \in Seq(Seq(S))
  PROVE  q \in Seq(Seq(T))
<1>1. Seq(S) \subseteq Seq(T)
  BY SeqMonotonic
<1> QED BY <1>1, SeqMonotonic

Within(V, W) == \A j \in Kinds : V[j] \subseteq W[j]

\* Chunks stay well-formed as the clocks advance.
LEMMA WholeGrows ==
  ASSUME NEW V, NEW W, Within(V, W), NEW chunks, WholeChunks(chunks, V)
  PROVE  WholeChunks(chunks, W)
<1>1. V["System"] \X V["Microphone"] \subseteq W["System"] \X W["Microphone"]
  BY DEF Within, Kinds
<1>2. ChunkOf(V) \subseteq ChunkOf(W)
  BY <1>1, SeqMonotonic DEF ChunkOf
<1>3. chunks \in Seq(ChunkOf(W))
  BY <1>2, SeqMonotonic DEF WholeChunks
<1> QED BY <1>3 DEF WholeChunks

\* So do the buffers of the mixer.
LEMMA DrainedGrows ==
  ASSUME NEW V, NEW W, Within(V, W), NEW both, Drained(both, V)
  PROVE  Drained(both, W)
<1>1. \A j \in Kinds : both[j] \in Seq(W[j])
  BY SeqMonotonic DEF Drained, Filled, Within
<1> QED BY <1>1 DEF Drained, Filled

\* Well-formed chunks follow well-formed chunks.
LEMMA WholeConcat ==
  ASSUME NEW V, NEW s, WholeChunks(s, V), NEW t, WholeChunks(t, V)
  PROVE  WholeChunks(s \o t, V) /\ Len(s \o t) = Len(s) + Len(t)
<1>1. s \in Seq(ChunkOf(V)) /\ t \in Seq(ChunkOf(V))
  BY DEF WholeChunks
<1>2. /\ s \o t \in Seq(ChunkOf(V)) /\ Len(s \o t) = Len(s) + Len(t)
      /\ Len(s) \in Nat /\ Len(t) \in Nat
      /\ \A i \in 1 .. Len(s) + Len(t) :
           (s \o t)[i] = IF i <= Len(s) THEN s[i] ELSE t[i - Len(s)]
  BY <1>1, ConcatProperties, LenProperties
<1>3. ASSUME NEW c \in 1 .. Len(s) + Len(t)
      PROVE  Len((s \o t)[c]) = Tick
  <2>1. CASE c <= Len(s)
    <3>1. c \in 1 .. Len(s)
      BY <2>1, <1>2
    <3> QED BY <3>1, <2>1, <1>2 DEF WholeChunks
  <2>2. CASE ~(c <= Len(s))
    <3>1. c - Len(s) \in 1 .. Len(t)
      BY <2>2, <1>2
    <3> QED BY <3>1, <2>2, <1>2 DEF WholeChunks
  <2> QED BY <2>1, <2>2
<1> QED BY <1>2, <1>3 DEF WholeChunks

\* The first n chunks of a sequence.
LEMMA WholePrefix ==
  ASSUME NEW V, NEW s, WholeChunks(s, V), NEW n \in 0 .. Len(s)
  PROVE  /\ WholeChunks(SubSeq(s, 1, n), V) /\ Len(SubSeq(s, 1, n)) = n
         /\ \A i \in 1 .. n : SubSeq(s, 1, n)[i] = s[i]
<1>1. s \in Seq(ChunkOf(V)) /\ Len(s) \in Nat
  BY LenProperties DEF WholeChunks
<1>2. SubSeq(s, 1, n) = [i \in 1 .. n |-> s[i]]
  BY <1>1
<1>3. \A i \in 1 .. n : s[i] \in ChunkOf(V) /\ Len(s[i]) = Tick
  <2> TAKE i \in 1 .. n
  <2>1. i \in 1 .. Len(s)
    BY <1>1
  <2> QED BY <2>1, <1>1, ElementOfSeq DEF WholeChunks
<1>4. [i \in 1 .. n |-> s[i]] \in [1 .. n -> ChunkOf(V)]
  BY <1>3
<1>5. SubSeq(s, 1, n) \in Seq(ChunkOf(V)) /\ Len(SubSeq(s, 1, n)) = n
  <2>1. n \in Nat
    BY <1>1
  <2> QED BY <2>1, <1>2, <1>4, FunctionIsSeq
<1>6. \A i \in 1 .. n : SubSeq(s, 1, n)[i] = s[i]
  BY <1>2
<1> QED BY <1>3, <1>5, <1>6 DEF WholeChunks

-----------------------------------------------------------------------------
(* What a source delivers *)

\* The `count` samples of k that follow what it has captured so far.
Latest(k, count) == [i \in 1 .. count |-> (clock[k] + i) - 1]

Delivers(k, count) ==
  /\ sources = "running"
  /\ Send(k, Latest(k, count))
  /\ UNCHANGED <<sources, lossy, mixerVars, sinkVars, pastVars>>

\* stream:didOutputSampleBuffer: delivers the frames that follow.
LEMMA SystemDelivers ==
  ASSUME ControlTyped, NEW n \in SystemSizes, CaptureSystem(n)
  PROVE  n \in Nat /\ Delivers("System", n) /\ resampler' = resampler
<1>1. n \in Nat /\ clock["System"] \in Int
  BY SizesAssumption DEF ControlTyped, Kinds
<1>2. \A i \in 1 .. n : clock["System"] + i - 1 = (clock["System"] + i) - 1
  BY <1>1
<1>3. [i \in 1 .. n |-> clock["System"] + i - 1] = Latest("System", n)
  BY <1>2 DEF Latest
<1> QED BY <1>1, <1>3 DEF CaptureSystem, Delivers

\* The microphone delivers what follows, whatever its rate is.
LEMMA MicrophoneDelivers ==
  ASSUME ControlTyped, ResamplerIsExact, NEW n \in NativeSizes, CaptureMicrophone(n)
  PROVE  \E count \in Nat : Delivers("Microphone", count) /\ ResamplerIsExact'
<1>1. PICK r \in IF resampler # NoResampler THEN {resampler}
                 ELSE {Resampler(rate, clock["Microphone"]) : rate \in Rates} :
        resampler' = Process(r, n).resampler /\ Send("Microphone", Process(r, n).outputs)
  BY DEF CaptureMicrophone
<1>2. n \in Nat /\ clock["Microphone"] \in Nat /\ Rates \subseteq Nat \ {0} /\ Target \in Nat \ {0}
  BY SizesAssumption DEF ControlTyped, Kinds
<1>3. PICK m \in Nat : /\ r \in Resamplers /\ Exact(r, m) /\ r.rate \in Rates
                       /\ r.origin + m = clock["Microphone"]
  <2>1. CASE resampler # NoResampler
    <3>1. r = resampler
      BY <1>1, <2>1
    <3>2. PICK m \in Nat : Exact(resampler, m) /\ resampler.origin + m = clock["Microphone"]
      BY <2>1 DEF ResamplerIsExact
    <3>3. r \in Resamplers
      BY <3>1 DEF ResamplerIsExact
    <3>4. r.rate \in Rates
      BY <3>1, <3>2, <3>3 DEF Resamplers, Exact
    <3> QED BY <3>1, <3>2, <3>3, <3>4
  <2>2. CASE resampler = NoResampler
    <3>1. PICK rate \in Rates : r = Resampler(rate, clock["Microphone"])
      BY <1>1, <2>2
    <3>2. /\ r.rate = rate /\ r.position = 0 /\ r.seen = 0 /\ r.origin = clock["Microphone"]
          /\ r \in Resamplers
      BY <3>1, <1>2 DEF Resampler, Resamplers
    <3>3. Target * r.seen + r.position = r.rate * 0
      BY <3>2, <1>2
    <3>4. Exact(r, 0)
      BY <3>2, <3>3, <1>2 DEF Exact
    <3>5. r.origin + 0 = clock["Microphone"]
      BY <3>2, <1>2
    <3> QED BY <3>1, <3>2, <3>4, <3>5
  <2> QED BY <2>1, <2>2
<1>4. PICK count \in Nat :
        /\ Process(r, n).outputs = [i \in 1 .. count |-> (r.origin + m + i) - 1]
        /\ Process(r, n).resampler \in Resamplers
        /\ Process(r, n).resampler.rate = r.rate
        /\ Process(r, n).resampler.origin = r.origin
        /\ Exact(Process(r, n).resampler, m + count)
  BY <1>2, <1>3, ProcessIsExact
<1>5. Process(r, n).outputs = Latest("Microphone", count)
  BY <1>3, <1>4 DEF Latest
<1>6. Delivers("Microphone", count)
  BY <1>1, <1>5 DEF CaptureMicrophone, Delivers
<1>7. Len(Latest("Microphone", count)) = count
  BY <1>2 DEF Latest
<1>8. clock'["Microphone"] = clock["Microphone"] + count
  <2>1. clock' = [clock EXCEPT !["Microphone"] = @ + count]
    BY <1>1, <1>5, <1>7 DEF Send
  <2> QED BY <2>1 DEF ControlTyped, Kinds
<1>9. resampler'.origin + (m + count) = clock'["Microphone"]
  <2>1. resampler'.origin = r.origin /\ r.origin \in Nat
    BY <1>1, <1>3, <1>4 DEF Exact
  <2> QED BY <2>1, <1>2, <1>3, <1>4, <1>8
<1>10. m + count \in Nat /\ Exact(resampler', m + count) /\ resampler' \in Resamplers
  BY <1>1, <1>3, <1>4
<1>11. ResamplerIsExact'
  BY <1>9, <1>10 DEF ResamplerIsExact, Resamplers
<1> QED BY <1>6, <1>11

\* What has changed when count samples of k are delivered.
Delivered(k, count) ==
  /\ clock' \in [Kinds -> 0 .. MaxTime] /\ Within(Times, Times')
  /\ clock'[k] = clock[k] + count /\ clock'[Other(k)] = clock[Other(k)]
  /\ clock[k] + count <= clock[Other(k)] + MaxLead
  /\ Latest(k, count) \in Seq(Times'[k]) /\ Len(Latest(k, count)) = count
  /\ frames' = IF count = 0 THEN frames
               ELSE [frames EXCEPT ![k] = Append(@, Latest(k, count))]

\* The channel of k gets what it delivers, its clock counts it, and nothing else
\* changes.
LEMMA DeliversFollowing ==
  ASSUME ControlTyped, QueuesTyped, NEW k \in Kinds, NEW count \in Nat, Delivers(k, count)
  PROVE  Delivered(k, count)
<1> DEFINE samples == Latest(k, count)
<1>1. clock \in [Kinds -> 0 .. MaxTime] /\ Other(k) \in Kinds /\ Other(k) # k /\ MaxTime \in Nat
  BY KindsDiffer, SizesAssumption DEF ControlTyped
<1>2. Len(samples) = count
  BY DEF Latest
<1>3. /\ clock[k] + count <= MaxTime /\ clock[k] + count <= clock[Other(k)] + MaxLead
      /\ clock' = [clock EXCEPT ![k] = @ + count]
      /\ frames' = [frames EXCEPT ![k] = IF samples = <<>> THEN @ ELSE Append(@, samples)]
  BY <1>2 DEF Delivers, Send
<1>4. clock[k] + count \in 0 .. MaxTime
  BY <1>1, <1>3
<1>5. /\ clock' \in [Kinds -> 0 .. MaxTime] /\ clock'[k] = clock[k] + count
      /\ \A j \in Kinds \ {k} : clock'[j] = clock[j]
  BY <1>1, <1>3, <1>4
<1>6. \A j \in Kinds : clock[j] \in Nat /\ clock'[j] \in Nat /\ clock[j] <= clock'[j]
  <2> TAKE j \in Kinds
  <2>1. clock[j] \in Nat /\ clock'[j] \in Nat /\ clock[k] \in Nat
    BY <1>1, <1>5
  <2>2. CASE j = k
    BY <2>1, <2>2, <1>5
  <2>3. CASE j # k
    BY <2>1, <2>3, <1>5
  <2> QED BY <2>1, <2>2, <2>3
<1>7. /\ \A j \in Kinds : Times[j] = 0 .. clock[j] - 1 /\ Times'[j] = 0 .. clock'[j] - 1
  BY DEF Times
<1>8. Within(Times, Times')
  <2>1. ASSUME NEW j \in Kinds
        PROVE  Times[j] \subseteq Times'[j]
    BY <1>6, <1>7
  <2> QED BY <2>1 DEF Within
<1>9. samples \in Seq(Times'[k])
  <2>1. \A i \in 1 .. count : (clock[k] + i) - 1 \in 0 .. clock'[k] - 1
    BY <1>5, <1>6
  <2>2. samples \in [1 .. count -> Times'[k]]
    BY <2>1, <1>7 DEF Latest
  <2> QED BY <2>2, FunctionIsSeq
<1>10. frames' = IF count = 0 THEN frames ELSE [frames EXCEPT ![k] = Append(@, samples)]
  <2>1. CASE count = 0
    <3>1. samples = <<>>
      BY <1>9, <1>2, <2>1, EmptySeq
    <3> QED BY <3>1, <2>1, <1>3 DEF QueuesTyped
  <2>2. CASE count # 0
    <3>1. samples # <<>>
      BY <1>2, <2>2, EmptySeq
    <3> QED BY <3>1, <2>2, <1>3
  <2> QED BY <2>1, <2>2
<1>11. clock'[Other(k)] = clock[Other(k)]
  BY <1>1, <1>5
<1> QED BY <1>2, <1>3, <1>5, <1>8, <1>9, <1>10, <1>11 DEF Delivered

-----------------------------------------------------------------------------
(* Types are kept *)

\* Empty buffers are well-formed.
LEMMA SilentIsTyped ==
  ASSUME NEW V
  PROVE  /\ Silent = [k \in Kinds |-> <<>>] /\ Drained(Silent, V)
         /\ \A k \in Kinds : Silent[k] = <<>> /\ Len(Silent[k]) = 0
<1>1. Silent = [k \in Kinds |-> Silent[k]] /\ \A k \in Kinds : Silent[k] = <<>>
  BY DEF Silent
<1>2. \A k \in Kinds : Silent[k] \in Seq(V[k]) /\ Len(Silent[k]) = 0
  BY <1>1, EmptySeq
<1>3. 0 \in 0 .. MaxBuffered /\ 0 < Tick
  BY SizesAssumption
<1> QED BY <1>1, <1>2, <1>3 DEF Drained, Filled, Silent, Kinds

\* Where the channels are emptied, or left alone, they stay typed.
LEMMA QueuesStay ==
  ASSUME ControlTyped, QueuesTyped, clock' = clock, frames' = Silent \/ frames' = frames
  PROVE  QueuesTyped'
<1>1. Times' = Times
  BY DEF Times
<1>2. CASE frames' = frames
  BY <1>1, <1>2 DEF QueuesTyped, Waiting
<1>3. CASE frames' = Silent
  <2>1. ASSUME NEW k \in Kinds
        PROVE  /\ frames'[k] \in Seq(Seq(Times'[k])) /\ Len(frames'[k]) <= MaxWaiting
               /\ Waiting(k)' <= clock'[k]
    <3>1. frames'[k] = <<>> /\ Len(frames'[k]) = 0
      BY <1>3, SilentIsTyped
    <3>2. Len(FlattenSeq(frames'[k])) = 0
      BY <3>1, NothingWaits
    <3>3. clock'[k] >= 0
      BY SizesAssumption DEF ControlTyped
    <3>4. frames'[k] \in Seq(Seq(Times'[k]))
      BY <3>1, EmptySeq
    <3> QED BY <3>1, <3>2, <3>3, <3>4, SizesAssumption DEF Waiting
  <2>2. frames' = [k \in Kinds |-> frames'[k]]
    BY <1>3 DEF Silent
  <2> QED BY <2>1, <2>2 DEF QueuesTyped
<1> QED BY <1>2, <1>3

\* A delivery leaves the channels typed.
LEMMA QueuesDelivered ==
  ASSUME ControlTyped, QueuesTyped, NEW k \in Kinds, NEW count \in Nat, Delivered(k, count),
         Delivers(k, count)
  PROVE  QueuesTyped'
<1>1. frames = [j \in Kinds |-> frames[j]]
  BY DEF QueuesTyped
<1>2. ASSUME NEW j \in Kinds
      PROVE  frames[j] \in Seq(Seq(Times'[j])) /\ Waiting(j) \in Nat /\ Waiting(j) <= clock[j]
             /\ Len(frames[j]) <= MaxWaiting
  <2>1. frames[j] \in Seq(Seq(Times[j])) /\ Times[j] \subseteq Times'[j]
    BY DEF QueuesTyped, Delivered, Within
  <2>2. <<>> \in Seq(Times[j])
    BY EmptySeq
  <2> QED BY <2>1, <2>2, QueueGrows, FlattenAppend DEF QueuesTyped, Waiting
<1>3. \A j \in Kinds : clock[j] \in Nat /\ clock'[j] \in Nat
  BY SizesAssumption DEF ControlTyped, Delivered
<1>4. ASSUME NEW j \in Kinds, frames'[j] = frames[j], clock[j] <= clock'[j]
      PROVE  /\ frames'[j] \in Seq(Seq(Times'[j])) /\ Len(frames'[j]) <= MaxWaiting
             /\ Waiting(j)' <= clock'[j]
  <2>1. Waiting(j)' = Waiting(j)
    BY <1>4 DEF Waiting
  <2> QED BY <2>1, <1>2, <1>3, <1>4
<1>5. clock[k] <= clock'[k]
  BY <1>3 DEF Delivered
<1>6. \A j \in Kinds \ {k} : clock[j] <= clock'[j]
  BY <1>3, KindsDiffer DEF Delivered
<1>7. CASE count = 0
  <2>1. frames' = frames
    BY <1>7 DEF Delivered
  <2> QED BY <2>1, <1>1, <1>4, <1>5, <1>6 DEF QueuesTyped
<1>8. CASE count # 0
  <2>1. frames' = [frames EXCEPT ![k] = Append(@, Latest(k, count))]
    BY <1>8 DEF Delivered
  <2>2. /\ frames'[k] = Append(frames[k], Latest(k, count))
        /\ \A j \in Kinds \ {k} : frames'[j] = frames[j]
        /\ frames' = [j \in Kinds |-> frames'[j]]
    BY <2>1, <1>1
  <2>3. Latest(k, count) \in Seq(Times'[k]) /\ Len(Latest(k, count)) = count
    BY DEF Delivered
  <2>4. frames'[k] \in Seq(Seq(Times'[k])) /\ Len(frames'[k]) = Len(frames[k]) + 1
    <3>1. frames[k] \in Seq(Seq(Times'[k]))
      BY <1>2
    <3>2. /\ Append(frames[k], Latest(k, count)) \in Seq(Seq(Times'[k]))
          /\ Len(Append(frames[k], Latest(k, count))) = Len(frames[k]) + 1
      <4> DEFINE q == frames[k]
                 samples == Latest(k, count)
                 T == Seq(Times'[k])
      <4>1. q \in Seq(T) /\ samples \in T
        BY <3>1, <2>3
      <4> HIDE DEF q, samples, T
      <4>2. Append(q, samples) \in Seq(T) /\ Len(Append(q, samples)) = Len(q) + 1
        BY <4>1, AppendProperties
      <4> QED BY <4>2 DEF q, samples, T
    <3> QED BY <3>2, <2>2
  <2>5. Len(frames[k]) < MaxWaiting /\ Len(frames[k]) \in Nat
    BY <1>2, LenProperties DEF Delivers, Send
  <2>6. Len(frames'[k]) <= MaxWaiting
    BY <2>4, <2>5, SizesAssumption
  <2>7. Waiting(k)' = Waiting(k) + count
    <3>1. Len(FlattenSeq(Append(frames[k], Latest(k, count)))) = Len(FlattenSeq(frames[k])) + count
      BY <2>3, <1>2, FlattenAppend
    <3> QED BY <3>1, <2>2 DEF Waiting
  <2>8. Waiting(k)' <= clock'[k]
    <3>1. /\ Waiting(k) \in Nat /\ Waiting(k) <= clock[k] /\ clock'[k] = clock[k] + count
          /\ clock[k] \in Nat
      BY <1>2, <1>3 DEF Delivered
    <3> QED BY <3>1, <2>7
  <2>9. ASSUME NEW j \in Kinds
        PROVE  /\ frames'[j] \in Seq(Seq(Times'[j])) /\ Len(frames'[j]) <= MaxWaiting
               /\ Waiting(j)' <= clock'[j]
    <3>1. CASE j = k
      BY <3>1, <2>4, <2>6, <2>8
    <3>2. CASE j # k
      BY <3>2, <2>2, <1>4, <1>6
    <3> QED BY <3>1, <3>2
  <2> QED BY <2>2, <2>9 DEF QueuesTyped
<1> QED BY <1>7, <1>8

\* A delivery leaves the whole state typed.
LEMMA DeliversTyped ==
  ASSUME Typed, NEW k \in Kinds, NEW count \in Nat, Delivers(k, count), ResamplerIsExact'
  PROVE  Typed'
<1>1. Delivered(k, count)
  BY DeliversFollowing DEF Typed
<1>2. QueuesTyped'
  BY <1>1, QueuesDelivered DEF Typed
<1>3. ControlTyped'
  BY <1>1 DEF Typed, ControlTyped, Delivers, Delivered, mixerVars, sinkVars, pastVars
<1>4. Within(Times, Times')
  BY <1>1 DEF Delivered
<1>5. /\ buffer' = buffer /\ recorded' = recorded /\ streamed' = streamed /\ begun' = begun
  BY DEF Delivers, mixerVars, sinkVars
<1>6. Drained(buffer, Times')
  BY <1>4, DrainedGrows DEF Typed
<1>7. WholeChunks(recorded, Times') /\ WholeChunks(streamed, Times')
  BY <1>4, WholeGrows DEF Typed, ChunksTyped
<1>8. ChunksTyped'
  BY <1>5, <1>7 DEF Typed, ChunksTyped
<1>9. Drained(buffer, Times)'
  BY <1>5, <1>6
<1> QED BY <1>2, <1>3, <1>8, <1>9 DEF Typed

\* A rebuilt source leaves the state typed.
LEMMA LoseTyped ==
  ASSUME Typed, NEW k \in Kinds, Lose(k)
  PROVE  Typed'
<1>1. PICK n \in SystemSizes : /\ clock[k] + n <= MaxTime /\ clock' = [clock EXCEPT ![k] = @ + n]
  BY DEF Lose
<1>2. n \in Nat /\ clock \in [Kinds -> 0 .. MaxTime] /\ MaxTime \in Nat
  BY SizesAssumption DEF Typed, ControlTyped
<1>3. clock[k] + n \in 0 .. MaxTime
  BY <1>1, <1>2
<1>4. clock' \in [Kinds -> 0 .. MaxTime] /\ \A j \in Kinds : clock[j] <= clock'[j]
  BY <1>1, <1>2, <1>3
<1>5. Within(Times, Times')
  <2>1. ASSUME NEW j \in Kinds
        PROVE  Times[j] \subseteq Times'[j]
    <3>1. Times[j] = 0 .. clock[j] - 1 /\ Times'[j] = 0 .. clock'[j] - 1
      BY DEF Times
    <3>2. clock[j] \in Nat /\ clock'[j] \in Nat /\ clock[j] <= clock'[j]
      BY <1>2, <1>4
    <3> QED BY <3>1, <3>2
  <2> QED BY <2>1 DEF Within
<1>6. /\ frames' = frames /\ buffer' = buffer /\ recorded' = recorded /\ streamed' = streamed
      /\ begun' = begun
  BY DEF Lose, mixerVars, sinkVars
<1>7. ControlTyped'
  BY <1>4 DEF Typed, ControlTyped, Lose, mixerVars, sinkVars
<1>8. QueuesTyped'
  <2>1. ASSUME NEW j \in Kinds
        PROVE  /\ frames[j] \in Seq(Seq(Times'[j])) /\ Len(frames[j]) <= MaxWaiting
               /\ Waiting(j)' <= clock'[j]
    <3>1. frames[j] \in Seq(Seq(Times[j])) /\ Times[j] \subseteq Times'[j]
      BY <1>5 DEF Typed, QueuesTyped, Within
    <3>2. <<>> \in Seq(Times[j])
      BY EmptySeq
    <3>3. Waiting(j) \in Nat
      BY <3>1, <3>2, FlattenAppend DEF Waiting
    <3>4. Waiting(j)' = Waiting(j) /\ Waiting(j) <= clock[j] /\ clock[j] <= clock'[j]
      BY <1>4, <1>6 DEF Waiting, Typed, QueuesTyped
    <3>5. clock[j] \in Nat /\ clock'[j] \in Nat
      BY <1>2, <1>4
    <3> QED BY <3>1, <3>3, <3>4, <3>5, QueueGrows DEF Typed, QueuesTyped
  <2> QED BY <2>1, <1>6 DEF Typed, QueuesTyped
<1>9. Drained(buffer, Times')
  BY <1>5, DrainedGrows DEF Typed
<1>10. WholeChunks(recorded, Times') /\ WholeChunks(streamed, Times')
  BY <1>5, WholeGrows DEF Typed, ChunksTyped
<1>11. ChunksTyped'
  BY <1>6, <1>10 DEF Typed, ChunksTyped
<1>12. ResamplerIsExact'
  <2>1. CASE k = "Microphone"
    <3>1. resampler' = NoResampler
      BY <2>1 DEF Lose
    <3>2. NoResampler \in Resamplers
      BY DEF NoResampler, Resamplers
    <3> QED BY <3>1, <3>2 DEF ResamplerIsExact, Resamplers, NoResampler
  <2>2. CASE k # "Microphone"
    <3>1. resampler' = resampler /\ clock'["Microphone"] = clock["Microphone"]
      BY <2>2, <1>1, <1>2 DEF Lose, Kinds
    <3> QED BY <3>1 DEF Typed, ResamplerIsExact, Resamplers, NoResampler
  <2> QED BY <2>1, <2>2
<1>13. Drained(buffer, Times)'
  BY <1>6, <1>9
<1> QED BY <1>7, <1>8, <1>11, <1>12, <1>13 DEF Typed

\* What comes out of the mixer is well-formed.
LEMMA MixedOut ==
  ASSUME NEW V, Drained(buffer, V), \A k \in Kinds : frames[k] \in Seq(Seq(V[k]))
  PROVE  Out(Mixed, V)
<1> DEFINE system == PushAll(buffer, "System", frames["System"])
           both == PushAll(system.buffer, "Microphone", frames["Microphone"])
<1>1. Out(system, V)
  <2>1. "System" \in Kinds /\ frames["System"] \in Seq(Seq(V["System"]))
    BY DEF Kinds
  <2> QED BY <2>1, PushAllIsOut
<1>2. Out(both, V)
  <2>1. Drained(system.buffer, V)
    BY <1>1 DEF Out
  <2>2. "Microphone" \in Kinds /\ frames["Microphone"] \in Seq(Seq(V["Microphone"]))
    BY DEF Kinds
  <2> HIDE DEF system
  <2> QED BY <2>1, <2>2, PushAllIsOut
<1>3. /\ Mixed.chunks = system.chunks \o both.chunks /\ Mixed.buffer = both.buffer
      /\ Mixed.dropped = (system.dropped \/ both.dropped)
  BY DEF Mixed
<1> HIDE DEF system, both
<1>4. WholeChunks(Mixed.chunks, V)
  <2>1. WholeChunks(system.chunks, V) /\ WholeChunks(both.chunks, V)
    BY <1>1, <1>2 DEF Out, WholeChunks
  <2> QED BY <2>1, <1>3, WholeConcat
<1>5. Drained(Mixed.buffer, V)
  BY <1>2, <1>3 DEF Out
<1>6. Mixed.dropped \in BOOLEAN
  BY <1>3
<1> QED BY <1>4, <1>5, <1>6 DEF Out, WholeChunks

\* So it is for all times captured.
LEMMA MixedIsOut ==
  ASSUME Typed
  PROVE  Out(Mixed, Times)
BY MixedOut DEF Typed, QueuesTyped

\* The chunks written after those that are there already.
LEMMA WrittenTyped ==
  ASSUME Typed, NEW chunks, WholeChunks(chunks, Times)
  PROVE  /\ Record(chunks) => WholeChunks(recorded', Times) /\ Len(recorded) <= Len(recorded')
         /\ Stream(chunks) => WholeChunks(streamed', Times)
<1>1. /\ WholeChunks(recorded \o chunks, Times) /\ WholeChunks(streamed \o chunks, Times)
      /\ Len(recorded \o chunks) = Len(recorded) + Len(chunks)
  BY WholeConcat DEF Typed, ChunksTyped
<1>2. Len(recorded) \in Nat /\ Len(chunks) \in Nat
  BY LenProperties DEF Typed, ChunksTyped, WholeChunks
<1>3. WholeChunks(recorded, Times) /\ WholeChunks(streamed, Times)
  BY DEF Typed, ChunksTyped
<1>4. ASSUME Record(chunks)
      PROVE  WholeChunks(recorded', Times) /\ Len(recorded) <= Len(recorded')
  <2>1. CASE recorder
    BY <2>1, <1>1, <1>2, <1>4 DEF Record
  <2>2. CASE ~recorder
    BY <2>2, <1>2, <1>3, <1>4 DEF Record
  <2> QED BY <2>1, <2>2
<1>5. ASSUME Stream(chunks)
      PROVE  WholeChunks(streamed', Times)
  BY <1>1, <1>3, <1>5 DEF Stream
<1> QED BY <1>4, <1>5

\* begun stays within what is recorded.
LEMMA ChunksStay ==
  ASSUME Typed, clock' = clock, WholeChunks(recorded', Times), WholeChunks(streamed', Times),
         Len(recorded) <= Len(recorded'), begun' = begun
  PROVE  ChunksTyped'
<1>1. Times' = Times
  BY DEF Times
<1>2. begun \in None .. Len(recorded) /\ Len(recorded) \in Nat /\ Len(recorded') \in Nat
  BY LenProperties DEF Typed, ChunksTyped, WholeChunks
<1>3. begun \in None .. Len(recorded')
  BY <1>2 DEF None
<1> QED BY <1>1, <1>3 DEF ChunksTyped

\* A tap that is not there has no position to be wrong.
LEMMA NoResamplerIsExact ==
  ASSUME resampler' = NoResampler
  PROVE  ResamplerIsExact'
<1>1. NoResampler \in Resamplers
  BY DEF NoResampler, Resamplers
<1> QED BY <1>1 DEF ResamplerIsExact, Resamplers, NoResampler

\* One pass of the worker leaves the state typed.
LEMMA ProcessAudioTyped ==
  ASSUME Typed, ProcessAudio
  PROVE  Typed'
<1>1. Times' = Times
  BY DEF Times, ProcessAudio, nativeVars
<1>2. QueuesTyped'
  BY QueuesStay DEF Typed, ProcessAudio, nativeVars
<1>3. backlog' \in 0 .. MaxTime
  BY LookCounts DEF Typed, ProcessAudio
<1>4. ResamplerIsExact'
  BY DEF Typed, ResamplerIsExact, ProcessAudio, nativeVars, Resamplers, NoResampler
<1>5. Out(Mixed, Times)
  BY MixedIsOut
<1>6. clock' = clock /\ begun' = begun
  BY DEF ProcessAudio, nativeVars
<1>7. CASE paused
  <2>1. disturbed' = TRUE /\ buffer' = buffer /\ recorded' = recorded /\ streamed' = streamed
    BY <1>7 DEF ProcessAudio
  <2>2. ControlTyped'
    BY <2>1, <1>3 DEF Typed, ControlTyped, ProcessAudio, nativeVars
  <2>3. ChunksTyped'
    BY <2>1, <1>1, <1>6 DEF Typed, ChunksTyped
  <2>4. Drained(buffer, Times)'
    BY <2>1, <1>1 DEF Typed
  <2> QED BY <2>2, <2>3, <2>4, <1>2, <1>4 DEF Typed
<1>8. CASE ~paused
  <2>1. /\ buffer' = Mixed.buffer /\ disturbed' = (disturbed \/ Mixed.dropped)
        /\ Record(Mixed.chunks) /\ Stream(Mixed.chunks)
    BY <1>8 DEF ProcessAudio
  <2>2. ControlTyped'
    BY <2>1, <1>3 DEF Typed, ControlTyped, ProcessAudio, nativeVars
  <2>3. WholeChunks(Mixed.chunks, Times)
    BY <1>5 DEF Out, WholeChunks
  <2>4. ChunksTyped'
    BY <2>1, <2>3, <1>6, WrittenTyped, ChunksStay
  <2>5. Drained(buffer, Times)'
    BY <2>1, <1>1, <1>5 DEF Out
  <2> QED BY <2>2, <2>4, <2>5, <1>2, <1>4 DEF Typed
<1> QED BY <1>7, <1>8

\* So does a pass that fails.
LEMMA WriteFailsTyped ==
  ASSUME Typed, WriteFails
  PROVE  Typed'
<1>1. PICK n \in 1 .. Len(Mixed.chunks), refused \in BOOLEAN :
        /\ Record(SubSeq(Mixed.chunks, 1, IF refused THEN n ELSE n - 1))
        /\ Stream(SubSeq(Mixed.chunks, 1, n - 1))
  BY DEF WriteFails
<1>2. clock' = clock /\ Times' = Times /\ begun' = begun
  BY DEF WriteFails, Times
<1>3. QueuesTyped'
  BY <1>2, QueuesStay DEF Typed, WriteFails
<1>4. backlog' \in 0 .. MaxTime
  BY LookCounts DEF Typed, WriteFails
<1>5. ControlTyped'
  BY <1>4 DEF Typed, ControlTyped, WriteFails
<1>6. ResamplerIsExact'
  BY NoResamplerIsExact DEF WriteFails
<1>7. WholeChunks(Mixed.chunks, Times) /\ Len(Mixed.chunks) \in Nat
  BY MixedIsOut, LenProperties DEF Out, WholeChunks
<1>8. n - 1 \in 0 .. Len(Mixed.chunks) /\ (IF refused THEN n ELSE n - 1) \in 0 .. Len(Mixed.chunks)
  BY <1>7
<1>9. /\ WholeChunks(SubSeq(Mixed.chunks, 1, n - 1), Times)
      /\ WholeChunks(SubSeq(Mixed.chunks, 1, IF refused THEN n ELSE n - 1), Times)
  BY <1>7, <1>8, WholePrefix
<1>10. ChunksTyped'
  <2> DEFINE written == SubSeq(Mixed.chunks, 1, IF refused THEN n ELSE n - 1)
             passed == SubSeq(Mixed.chunks, 1, n - 1)
  <2>1. /\ WholeChunks(written, Times) /\ Record(written)
        /\ WholeChunks(passed, Times) /\ Stream(passed)
    BY <1>1, <1>9
  <2> HIDE DEF written, passed
  <2>2. WholeChunks(recorded', Times) /\ Len(recorded) <= Len(recorded')
    BY <2>1, WrittenTyped
  <2>3. WholeChunks(streamed', Times)
    BY <2>1, WrittenTyped
  <2> QED BY <2>2, <2>3, <1>2, ChunksStay
<1>11. Drained(buffer, Times)'
  BY SilentIsTyped DEF WriteFails
<1> QED BY <1>3, <1>5, <1>6, <1>10, <1>11 DEF Typed

\* The initial state is typed.
LEMMA TypedInit ==
  ASSUME Init
  PROVE  Typed
<1>1. ControlTyped
  <2>1. 0 \in 0 .. MaxTime
    BY SizesAssumption
  <2>2. clock \in [Kinds -> 0 .. MaxTime]
    BY <2>1 DEF Init
  <2> QED BY <2>1, <2>2 DEF Init, ControlTyped
<1>2. QueuesTyped
  <2>1. ASSUME NEW k \in Kinds
        PROVE  /\ frames[k] \in Seq(Seq(Times[k])) /\ Len(frames[k]) <= MaxWaiting
               /\ Waiting(k) <= clock[k]
    <3>1. frames[k] = <<>> /\ Len(frames[k]) = 0 /\ clock[k] = 0
      BY SilentIsTyped DEF Init
    <3>2. Waiting(k) = 0
      BY <3>1, NothingWaits DEF Waiting
    <3> QED BY <3>1, <3>2, EmptySeq, SizesAssumption
  <2> QED BY <2>1 DEF QueuesTyped, Init, Silent
<1>3. Drained(buffer, Times)
  BY SilentIsTyped DEF Init
<1>4. ChunksTyped
  <2>1. WholeChunks(<<>>, Times) /\ Len(<<>>) = 0
    <3>1. <<>> \in Seq(ChunkOf(Times)) /\ Len(<<>>) = 0
      BY EmptySeq
    <3>2. 1 .. Len(<<>>) = {}
      BY <3>1
    <3> QED BY <3>1, <3>2 DEF WholeChunks
  <2> QED BY <2>1 DEF ChunksTyped, Init, None
<1>5. ResamplerIsExact
  <2>1. NoResampler \in Resamplers
    BY DEF NoResampler, Resamplers
  <2> QED BY <2>1 DEF ResamplerIsExact, Init
<1> QED BY <1>1, <1>2, <1>3, <1>4, <1>5 DEF Typed

\* The other actions leave the clock, and the chunks; they leave the mixer's
\* buffers and the channels, or empty them.
LEMMA RequestTyped ==
  ASSUME Typed, clock' = clock, frames' = frames \/ frames' = Silent,
         buffer' = buffer \/ buffer' = Silent,
         resampler' = resampler \/ resampler' = NoResampler,
         recorded' = recorded, streamed' = streamed,
         begun' = begun \/ begun' = Len(recorded),
         sources' \in {"before", "running", "after"},
         paused' \in BOOLEAN, recorder' \in BOOLEAN, link' \in BOOLEAN,
         disturbed' \in BOOLEAN, lossy' = lossy, backlog' = backlog
  PROVE  Typed'
<1>1. Times' = Times
  BY DEF Times
<1>2. ControlTyped'
  BY DEF Typed, ControlTyped
<1>3. QueuesTyped'
  BY QueuesStay DEF Typed
<1>4. Drained(buffer, Times)'
  BY <1>1, SilentIsTyped DEF Typed
<1>5. ChunksTyped'
  <2>1. Len(recorded) \in Nat
    BY LenProperties DEF Typed, ChunksTyped, WholeChunks
  <2>2. Len(recorded) \in None .. Len(recorded)
    BY <2>1 DEF None
  <2> QED BY <2>2, <1>1 DEF Typed, ChunksTyped
<1>6. ResamplerIsExact'
  <2>1. CASE resampler' = resampler
    BY <2>1 DEF Typed, ResamplerIsExact, Resamplers, NoResampler
  <2> QED BY <2>1, NoResamplerIsExact
<1> QED BY <1>2, <1>3, <1>4, <1>5, <1>6 DEF Typed

\* Every step leaves the state typed.
LEMMA TypedStep ==
  ASSUME Typed, [Next]_vars
  PROVE  Typed'
<1> USE DEF nativeVars, mixerVars, sinkVars, pastVars
<1>1. /\ sources \in {"before", "running", "after"}
      /\ paused \in BOOLEAN /\ recorder \in BOOLEAN /\ link \in BOOLEAN /\ disturbed \in BOOLEAN
  BY DEF Typed, ControlTyped
<1>2. ASSUME NEW n \in SystemSizes, CaptureSystem(n)
      PROVE  Typed'
  <2>1. n \in Nat /\ Delivers("System", n) /\ resampler' = resampler
    BY <1>2, SystemDelivers DEF Typed
  <2>2. clock'["Microphone"] = clock["Microphone"]
    <3>1. Delivered("System", n)
      BY <2>1, DeliversFollowing DEF Typed, Kinds
    <3> QED BY <3>1 DEF Delivered, Other
  <2>3. ResamplerIsExact'
    BY <2>1, <2>2 DEF Typed, ResamplerIsExact, Resamplers, NoResampler
  <2>4. "System" \in Kinds
    BY DEF Kinds
  <2> QED BY <2>1, <2>3, <2>4, DeliversTyped
<1>3. ASSUME NEW n \in NativeSizes, CaptureMicrophone(n)
      PROVE  Typed'
  <2>1. PICK count \in Nat : Delivers("Microphone", count) /\ ResamplerIsExact'
    BY <1>3, MicrophoneDelivers DEF Typed
  <2>2. "Microphone" \in Kinds
    BY DEF Kinds
  <2> QED BY <2>1, <2>2, DeliversTyped
<1>4. ASSUME NEW k \in Kinds, Lose(k)
      PROVE  Typed'
  BY <1>4, LoseTyped
<1>5. CASE ProcessAudio
  BY <1>5, ProcessAudioTyped
<1>6. CASE WriteFails
  BY <1>6, WriteFailsTyped
<1>7. CASE StartSources
  BY <1>7, <1>1, RequestTyped DEF StartSources
<1>8. CASE OpenRecorder
  BY <1>8, <1>1, RequestTyped DEF OpenRecorder
<1>9. CASE StartLink
  <2>1. begun' = begun \/ begun' = Len(recorded)
    BY <1>9 DEF StartLink
  <2> QED BY <2>1, <1>9, <1>1, RequestTyped DEF StartLink
<1>10. CASE Pause
  BY <1>10, <1>1, RequestTyped DEF Pause, PauseMixer
<1>11. CASE Resume
  BY <1>11, <1>1, RequestTyped DEF Resume
<1>12. CASE End
  BY <1>12, <1>1, RequestTyped DEF End, PauseMixer
<1>13. CASE FinishRecorder
  BY <1>13, <1>1, RequestTyped DEF FinishRecorder
<1>14. CASE StopSources
  BY <1>14, <1>1, RequestTyped DEF StopSources
<1>15. CASE UNCHANGED vars
  BY <1>15, <1>1, RequestTyped DEF vars
<1> QED BY <1>2, <1>3, <1>4, <1>5, <1>6, <1>7, <1>8, <1>9, <1>10, <1>11, <1>12, <1>13, <1>14,
           <1>15 DEF Next, Native, Worker

\* Every reachable state is typed, with an exact resampler.
LEMMA TypedAlways ==
  Spec => []Typed
BY TypedInit, TypedStep, PTL DEF Spec

\* Times captured are samples.
LEMMA SampleTyped ==
  ASSUME ControlTyped, NEW k \in Kinds
  PROVE  Times[k] \subseteq Samples
<1>1. clock[k] \in 0 .. MaxTime /\ MaxTime \in Nat
  BY SizesAssumption DEF ControlTyped
<1>2. 0 .. clock[k] - 1 \subseteq Never .. MaxTime
  BY <1>1 DEF Never
<1> QED BY <1>2 DEF Times, Samples

\* The elements of a sequence.
LEMMA ElementsOfSeq ==
  ASSUME NEW S, NEW s \in Seq(S)
  PROVE  ToSet(s) \subseteq S /\ ToSet(s) = {s[i] : i \in 1 .. Len(s)}
<1>1. DOMAIN s = 1 .. Len(s) /\ \A i \in 1 .. Len(s) : s[i] \in S
  BY LenProperties, ElementOfSeq
<1> QED BY <1>1 DEF ToSet

\* Chunks are a tick of frames.
LEMMA ChunksOfTyped ==
  ASSUME ControlTyped, NEW chunks, WholeChunks(chunks, Times), NEW chunk \in ToSet(chunks)
  PROVE  Len(chunk) = Tick /\ ToSet(chunk) \subseteq Frames
<1>1. PICK c \in 1 .. Len(chunks) : chunk = chunks[c]
  BY ElementsOfSeq DEF WholeChunks
<1>2. Len(chunk) = Tick /\ chunk \in ChunkOf(Times)
  BY <1>1, ElementOfSeq DEF WholeChunks
<1>3. ToSet(chunk) \subseteq Times["System"] \X Times["Microphone"]
  BY <1>2, ElementsOfSeq DEF ChunkOf
<1>4. Times["System"] \subseteq Samples /\ Times["Microphone"] \subseteq Samples
  BY SampleTyped DEF Kinds
<1> QED BY <1>2, <1>3, <1>4 DEF Frames

\* Every state of the audio path has the types the code gives it: buffers of
\* the mixer no longer than MAX_BUFFERED_FRAMES, one of them below a tick,
\* chunks of exactly a tick.
THEOREM TypeCorrect == Spec => []TypeOK
<1>1. Typed => TypeOK
  <2> SUFFICES ASSUME Typed
               PROVE  TypeOK
    OBVIOUS
  <2>1. resampler.rate \in Rates \cup {0}
    BY DEF Typed, ResamplerIsExact, Resamplers
  <2>2. ASSUME NEW k \in Kinds
        PROVE  /\ Len(frames[k]) <= MaxWaiting
               /\ ToSet(buffer[k]) \subseteq Samples /\ Len(buffer[k]) <= MaxBuffered
    <3>1. buffer[k] \in Seq(Times[k]) /\ Len(buffer[k]) \in 0 .. MaxBuffered
      BY DEF Typed, Drained, Filled
    <3>2. ToSet(buffer[k]) \subseteq Samples
      BY <3>1, ElementsOfSeq, SampleTyped DEF Typed
    <3> QED BY <3>1, <3>2 DEF Typed, QueuesTyped
  <2>3. \E k \in Kinds : Len(buffer[k]) < Tick
    BY DEF Typed, Drained
  <2>4. ASSUME NEW chunk \in ToSet(recorded) \cup ToSet(streamed)
        PROVE  Len(chunk) = Tick /\ ToSet(chunk) \subseteq Frames
    BY ChunksOfTyped DEF Typed, ChunksTyped
  <2> QED BY <2>1, <2>2, <2>3, <2>4 DEF Typed, ControlTyped, ChunksTyped, TypeOK
<1> QED BY <1>1, TypedAlways, PTL

-----------------------------------------------------------------------------
(* The link follows the recording *)

\* The chunks of str are those of rec after the first b, but for at most
\* `more` that are still to come.
Follows(b, rec, str, more) ==
  /\ b + Len(str) <= Len(rec) /\ Len(rec) <= b + Len(str) + more
  /\ \A i \in 1 .. Len(str) : str[i] = rec[b + i]

\* A link needs a recorder; a recorder that has had a link and has none is
\* paused, so that nothing reaches the recording alone.
LinkFollows ==
  /\ begun = None => streamed = <<>> /\ ~link
  /\ link => recorder
  /\ recorder => sources = "running"
  /\ begun # None /\ recorder => link \/ paused
  /\ begun # None => Follows(begun, recorded, streamed, IF sources = "after" THEN 1 ELSE 0)

\* If str follows rec, and p follows w, what str becomes follows what rec becomes.
LEMMA FollowsAlso ==
  ASSUME NEW S, NEW rec \in Seq(S), NEW str \in Seq(S), NEW w \in Seq(S), NEW p \in Seq(S),
         NEW b \in Nat, NEW more \in Nat, Follows(b, rec, str, 0),
         Follows(0, w, p, more)
  PROVE  Follows(b, rec \o w, str \o p, more)
<1> DEFINE lr == Len(rec)
           ls == Len(str)
           lw == Len(w)
           lp == Len(p)
<1>1. lr \in Nat /\ ls \in Nat /\ lw \in Nat /\ lp \in Nat
  BY LenProperties
<1>2. b + ls = lr /\ lp <= lw /\ lw <= lp + more
  BY <1>1 DEF Follows
<1>3. /\ \A i \in 1 .. ls : str[i] = rec[b + i]
      /\ \A i \in 1 .. lp : p[i] = w[0 + i]
  BY DEF Follows
<1>4. /\ Len(rec \o w) = lr + lw /\ Len(str \o p) = ls + lp
      /\ \A i \in 1 .. lr + lw : (rec \o w)[i] = IF i <= lr THEN rec[i] ELSE w[i - lr]
      /\ \A i \in 1 .. ls + lp : (str \o p)[i] = IF i <= ls THEN str[i] ELSE p[i - ls]
  BY ConcatProperties
<1> HIDE DEF lr, ls, lw, lp
<1>5. b + (ls + lp) <= lr + lw /\ lr + lw <= b + (ls + lp) + more
  BY <1>1, <1>2
<1>6. ASSUME NEW i \in 1 .. ls + lp
      PROVE  (str \o p)[i] = (rec \o w)[b + i]
  <2>1. b + i \in 1 .. lr + lw
    BY <1>1, <1>2
  <2>2. CASE i <= ls
    <3>1. i \in 1 .. ls /\ b + i <= lr
      BY <2>2, <1>1, <1>2
    <3> QED BY <3>1, <2>1, <2>2, <1>3, <1>4
  <2>3. CASE ~(i <= ls)
    <3>1. i - ls \in 1 .. lp /\ ~(b + i <= lr) /\ (b + i) - lr = i - ls /\ 0 + (i - ls) = i - ls
      BY <2>3, <1>1, <1>2
    <3>2. (str \o p)[i] = p[i - ls]
      BY <2>3, <1>4
    <3>3. (rec \o w)[b + i] = w[i - ls]
      BY <3>1, <2>1, <1>4
    <3>4. p[i - ls] = w[i - ls]
      BY <3>1, <1>3
    <3> QED BY <3>2, <3>3, <3>4
  <2> QED BY <2>2, <2>3
<1> QED BY <1>4, <1>5, <1>6 DEF Follows

\* What is written and what is passed on, from what the mixer returns.
LEMMA WrittenFollows ==
  ASSUME Typed, LinkFollows, sources = "running", recorder, ~paused,
         NEW w, WholeChunks(w, Times), NEW p, WholeChunks(p, Times), NEW more \in Nat,
         Follows(0, w, p, more), Record(w), Stream(p)
  PROVE  /\ begun = None => streamed' = <<>> /\ ~link
         /\ begun # None => Follows(begun, recorded', streamed', more)
<1>1. CASE begun = None
  BY <1>1 DEF LinkFollows, Stream
<1>2. CASE begun # None
  <2>1. link /\ recorded' = recorded \o w /\ streamed' = streamed \o p
    BY <1>2 DEF LinkFollows, Record, Stream
  <2>2. begun \in Nat
    <3>1. begun \in None .. Len(recorded) /\ Len(recorded) \in Nat
      BY LenProperties DEF Typed, ChunksTyped, WholeChunks
    <3> QED BY <3>1, <1>2 DEF None
  <2>3. Follows(begun, recorded, streamed, 0)
    BY <1>2 DEF LinkFollows
  <2>4. /\ recorded \in Seq(ChunkOf(Times)) /\ streamed \in Seq(ChunkOf(Times))
        /\ w \in Seq(ChunkOf(Times)) /\ p \in Seq(ChunkOf(Times))
    BY DEF Typed, ChunksTyped, WholeChunks
  <2>5. Follows(begun, recorded \o w, streamed \o p, more)
    BY <2>2, <2>3, <2>4, FollowsAlso
  <2> QED BY <2>1, <2>5, <1>2
<1> QED BY <1>1, <1>2

\* Every step keeps the link behind the recording.
LEMMA LinkFollowsStep ==
  ASSUME Typed, LinkFollows, [Next]_vars
  PROVE  LinkFollows'
<1> USE DEF nativeVars, mixerVars, sinkVars, pastVars
<1>1. ASSUME NEW n \in SystemSizes, CaptureSystem(n)
      PROVE  LinkFollows'
  BY <1>1 DEF CaptureSystem, LinkFollows, Follows
<1>2. ASSUME NEW n \in NativeSizes, CaptureMicrophone(n)
      PROVE  LinkFollows'
  BY <1>2 DEF CaptureMicrophone, LinkFollows, Follows
<1>3. ASSUME NEW k \in Kinds, Lose(k)
      PROVE  LinkFollows'
  BY <1>3 DEF Lose, LinkFollows, Follows
<1>4. CASE ProcessAudio
  <2>1. /\ sources = "running" /\ sources' = sources /\ paused' = paused /\ recorder' = recorder
        /\ link' = link /\ begun' = begun
    BY <1>4 DEF ProcessAudio
  <2>2. CASE paused \/ ~recorder
    <3>1. recorded' = recorded /\ streamed' = streamed
      BY <2>2, <1>4 DEF ProcessAudio, Record, Stream, LinkFollows
    <3> QED BY <3>1, <2>1 DEF LinkFollows, Follows
  <2>3. CASE ~paused /\ recorder
    <3>1. Record(Mixed.chunks) /\ Stream(Mixed.chunks)
      BY <2>3, <1>4 DEF ProcessAudio
    <3>2. WholeChunks(Mixed.chunks, Times) /\ Len(Mixed.chunks) \in Nat
      BY MixedIsOut, LenProperties DEF Out, WholeChunks
    <3>3. Follows(0, Mixed.chunks, Mixed.chunks, 0)
      BY <3>2 DEF Follows
    <3>4. /\ begun = None => streamed' = <<>> /\ ~link
          /\ begun # None => Follows(begun, recorded', streamed', 0)
      BY <3>1, <3>2, <3>3, <2>1, <2>3, WrittenFollows
    <3> QED BY <3>4, <2>1, <2>3 DEF LinkFollows
  <2> QED BY <2>2, <2>3
<1>5. CASE WriteFails
  <2>1. PICK n \in 1 .. Len(Mixed.chunks), refused \in BOOLEAN :
          /\ Record(SubSeq(Mixed.chunks, 1, IF refused THEN n ELSE n - 1))
          /\ Stream(SubSeq(Mixed.chunks, 1, n - 1))
    BY <1>5 DEF WriteFails
  <2> DEFINE l == IF refused THEN n ELSE n - 1
             written == SubSeq(Mixed.chunks, 1, l)
             passed == SubSeq(Mixed.chunks, 1, n - 1)
  <2>2. /\ sources = "running" /\ recorder /\ ~paused
        /\ sources' = "after" /\ recorder' = FALSE /\ link' = FALSE /\ begun' = begun
    BY <1>5 DEF WriteFails
  <2>3. WholeChunks(Mixed.chunks, Times) /\ Len(Mixed.chunks) \in Nat
    BY MixedIsOut, LenProperties DEF Out, WholeChunks
  <2>4. n - 1 \in 0 .. Len(Mixed.chunks) /\ l \in 0 .. Len(Mixed.chunks) /\ n - 1 <= l /\ l <= n
    BY <2>3
  <2>5. /\ WholeChunks(written, Times) /\ Len(written) = l
        /\ \A i \in 1 .. l : written[i] = Mixed.chunks[i]
    <3> HIDE DEF l
    <3> QED BY <2>3, <2>4, WholePrefix
  <2>6. /\ WholeChunks(passed, Times) /\ Len(passed) = n - 1
        /\ \A i \in 1 .. n - 1 : passed[i] = Mixed.chunks[i]
    BY <2>3, <2>4, WholePrefix
  <2>7. Record(written) /\ Stream(passed)
    BY <2>1
  <2> HIDE DEF l, written, passed
  <2>8. \A i \in 1 .. n - 1 : 0 + i = i /\ i \in 1 .. l
    BY <2>3, <2>4
  <2>9. /\ 0 + (n - 1) <= l /\ l <= 0 + (n - 1) + 1
    BY <2>3, <2>4
  <2>10. Follows(0, written, passed, 1)
    BY <2>5, <2>6, <2>8, <2>9 DEF Follows
  <2>11. /\ begun = None => streamed' = <<>> /\ ~link
         /\ begun # None => Follows(begun, recorded', streamed', 1)
    BY <2>2, <2>5, <2>6, <2>7, <2>10, WrittenFollows
  <2> QED BY <2>2, <2>11 DEF LinkFollows
<1>6. CASE StartSources
  BY <1>6 DEF StartSources, LinkFollows, Follows
<1>7. CASE OpenRecorder
  BY <1>7 DEF OpenRecorder, LinkFollows, Follows
<1>8. CASE StartLink
  <2>1. /\ sources = "running" /\ recorder /\ link' = TRUE /\ sources' = sources
        /\ recorder' = recorder /\ recorded' = recorded /\ streamed' = streamed
        /\ begun' = IF begun = None THEN Len(recorded) ELSE begun
    BY <1>8 DEF StartLink
  <2>2. Len(recorded) \in Nat
    BY LenProperties DEF Typed, ChunksTyped, WholeChunks
  <2>3. CASE begun = None
    <3>1. begun' = Len(recorded) /\ begun' # None /\ streamed' = <<>>
      BY <2>1, <2>2, <2>3 DEF LinkFollows, None
    <3>2. Len(<<>>) = 0 /\ 1 .. 0 = {}
      BY EmptySeq
    <3>3. Follows(begun', recorded', streamed', 0)
      BY <3>1, <3>2, <2>1, <2>2 DEF Follows
    <3> QED BY <3>1, <3>3, <2>1 DEF LinkFollows
  <2>4. CASE begun # None
    <3>1. Follows(begun, recorded, streamed, 0) /\ begun' = begun
      BY <2>1, <2>4 DEF LinkFollows
    <3>2. Follows(begun', recorded', streamed', 0)
      BY <3>1, <2>1
    <3> QED BY <3>1, <3>2, <2>1, <2>4 DEF LinkFollows
  <2> QED BY <2>3, <2>4
<1>9. CASE Pause
  BY <1>9 DEF Pause, LinkFollows, Follows
<1>10. CASE Resume
  BY <1>10 DEF Resume, LinkFollows, Follows
<1>11. CASE End
  BY <1>11 DEF End, PauseMixer, LinkFollows, Follows
<1>12. CASE FinishRecorder
  BY <1>12 DEF FinishRecorder, LinkFollows, Follows
<1>13. CASE StopSources
  <2>1. /\ sources = "running" /\ sources' = "after" /\ ~link /\ ~recorder /\ ~link' /\ ~recorder'
        /\ recorded' = recorded /\ streamed' = streamed /\ begun' = begun
    BY <1>13 DEF StopSources
  <2>2. CASE begun = None
    BY <2>1, <2>2 DEF LinkFollows
  <2>3. CASE begun # None
    <3>1. Follows(begun, recorded, streamed, 0)
      BY <2>1, <2>3 DEF LinkFollows
    <3>2. Len(recorded) \in Nat /\ Len(streamed) \in Nat /\ begun \in Int
      BY LenProperties DEF Typed, ChunksTyped, WholeChunks, None
    <3>3. Follows(begun, recorded, streamed, 1)
      BY <3>1, <3>2 DEF Follows
    <3> QED BY <3>3, <2>1, <2>3 DEF LinkFollows
  <2> QED BY <2>2, <2>3
<1>14. CASE UNCHANGED vars
  BY <1>14 DEF vars, LinkFollows, Follows
<1> QED BY <1>1, <1>2, <1>3, <1>4, <1>5, <1>6, <1>7, <1>8, <1>9, <1>10, <1>11, <1>12, <1>13,
           <1>14 DEF Next, Native, Worker

\* The chunks that follow one by one are a prefix of those recorded since.
LEMMA SinceBegun ==
  ASSUME Typed, LinkFollows
  PROVE  StreamedIsRecorded
<1> SUFFICES ASSUME begun # None
             PROVE  LET since == SubSeq(recorded, begun + 1, Len(recorded))
                    IN  /\ IsPrefix(streamed, since)
                        /\ Len(since) <= Len(streamed) + (IF sources = "after" THEN 1 ELSE 0)
  BY DEF StreamedIsRecorded
<1> DEFINE since == SubSeq(recorded, begun + 1, Len(recorded))
           more == IF sources = "after" THEN 1 ELSE 0
           lr == Len(recorded)
           ls == Len(streamed)
<1>1. recorded \in Seq(ChunkOf(Times)) /\ streamed \in Seq(ChunkOf(Times))
  BY DEF Typed, ChunksTyped, WholeChunks
<1>2. lr \in Nat /\ ls \in Nat /\ begun \in 0 .. lr
  <2>1. lr \in Nat /\ ls \in Nat /\ begun \in None .. lr
    BY <1>1, LenProperties DEF Typed, ChunksTyped
  <2> QED BY <2>1 DEF None
<1>3. begun + ls <= lr /\ lr <= begun + ls + more
  BY DEF LinkFollows, Follows
<1>4. \A i \in 1 .. ls : streamed[i] = recorded[begun + i]
  BY DEF LinkFollows, Follows
<1>5. /\ since \in Seq(ChunkOf(Times)) /\ Len(since) = lr - begun
      /\ \A i \in 1 .. lr - begun : since[i] = recorded[begun + i]
  BY <1>1, <1>2, RestOfSeq
<1> HIDE DEF since, lr, ls
<1>6. ls <= Len(since) /\ Len(since) <= ls + more
  <2>1. more \in Nat
    OBVIOUS
  <2> HIDE DEF more
  <2> QED BY <2>1, <1>2, <1>3, <1>5
<1>7. \A i \in 1 .. ls : streamed[i] = since[i]
  BY <1>2, <1>3, <1>4, <1>5
<1>8. IsPrefix(streamed, since)
  <2>1. SubSeq(since, 1, ls) = [i \in 1 .. ls |-> since[i]]
    BY <1>2
  <2>2. streamed = [i \in 1 .. ls |-> streamed[i]]
    BY <1>1, LenProperties DEF ls
  <2>3. streamed = SubSeq(since, 1, ls)
    BY <2>1, <2>2, <1>7
  <2> QED BY <2>3, <1>6 DEF IsPrefix, ls
<1> QED BY <1>6, <1>8 DEF since, ls

\* Across pauses and replaced links, what is recorded from the first link on
\* is what was passed to the links, but for one chunk when writing failed.
THEOREM LinkFollowsRecording == Spec => []StreamedIsRecorded
<1>1. Init => LinkFollows
  BY DEF Init, LinkFollows
<1>2. LinkFollows /\ Typed /\ [Next]_vars => LinkFollows'
  BY LinkFollowsStep
<1>3. Typed /\ LinkFollows => StreamedIsRecorded
  BY SinceBegun
<1> QED BY <1>1, <1>2, <1>3, TypedAlways, PTL DEF Spec

-----------------------------------------------------------------------------
(* A source that loses nothing *)

\* The time up to which samples of k have been pushed, and the time of the
\* first sample in its buffer.
PushedTo(k) == From(frames[k], 1, clock[k])
Base(k) == PushedTo(k) - Len(buffer[k])

Limit == MaxLead + backlog + MaxBuffered
Bound == MaxLead + backlog + Max({MaxBuffered, Tick + backlog})

\* What waits of the other source was captured at most MaxLead before what g
\* has pushed.
Awaited(g) ==
  \A w \in 1 .. Len(frames[Other(g)]) : \A i \in 1 .. Len(frames[Other(g)][w]) :
    PushedTo(g) <= frames[Other(g)][w][i] + MaxLead

\* The samples of g follow each other from the mixer's buffer through its
\* channel to its clock, and keep their distance to those of the other source.
Paced(g) ==
  /\ QueueRuns(frames[g], clock[g])
  /\ Gap(buffer, g, Base(g), Limit)
  /\ Awaited(g)

Near(chunks, bound) == \A c \in 1 .. Len(chunks) : Apart(chunks[c][Tick]) < bound

ShiftInv ==
  /\ paused => buffer = Silent
  /\ sources # "running" => frames = Silent /\ buffer = Silent
  /\ \A k \in Kinds : clock[k] <= clock[Other(k)] + MaxLead
  /\ \A g \in Kinds \ lossy : Paced(g)
  /\ lossy # Kinds => Near(recorded, Bound) /\ Near(streamed, Bound)

\* Times are integers.
LEMMA TimesAreInts == ASSUME ControlTyped PROVE TimeSets(Times)
<1>1. \A k \in Kinds : clock[k] \in Int
  BY SizesAssumption DEF ControlTyped
<1>2. \A k \in Kinds : Times[k] = 0 .. clock[k] - 1
  BY DEF Times
<1> QED BY <1>1, <1>2 DEF TimeSets

\* What waits in a channel is of integers, and no buffer of it exceeds the whole.
LEMMA SamplesWait ==
  ASSUME Typed, NEW k \in Kinds
  PROVE  /\ frames[k] \in Seq(Seq(Times[k])) /\ Waiting(k) \in Nat
         /\ Len(frames[k]) \in Nat /\ clock[k] \in Nat
         /\ \A w \in 1 .. Len(frames[k]) : /\ Len(frames[k][w]) \in Nat
                                           /\ Len(frames[k][w]) <= Waiting(k)
                                           /\ frames[k][w] \in Seq(Times[k])
         /\ \A w \in 1 .. Len(frames[k]) : \A i \in 1 .. Len(frames[k][w]) : frames[k][w][i] \in Int
<1>1. frames[k] \in Seq(Seq(Times[k]))
  BY DEF Typed, QueuesTyped
<1>2. <<>> \in Seq(Times[k])
  BY EmptySeq
<1>3. Waiting(k) \in Nat
  BY <1>1, <1>2, FlattenAppend DEF Waiting
<1>4. Len(frames[k]) \in Nat /\ clock[k] \in Nat
  BY <1>1, LenProperties, SizesAssumption DEF Typed, ControlTyped
<1>5. ASSUME NEW w \in 1 .. Len(frames[k])
      PROVE  /\ Len(frames[k][w]) \in Nat /\ frames[k][w] \in Seq(Times[k])
             /\ Len(frames[k][w]) <= Waiting(k)
  <2>1. frames[k][w] \in Seq(Times[k])
    BY <1>1, ElementOfSeq
  <2>2. Len(frames[k][w]) <= Len(FlattenSeq(frames[k]))
    BY <1>1, PartOfFlatten
  <2> QED BY <2>1, <2>2, LenProperties DEF Waiting
<1>6. Times[k] \subseteq Int
  BY TimesAreInts DEF Typed, TimeSets
<1>7. ASSUME NEW w \in 1 .. Len(frames[k]), NEW i \in 1 .. Len(frames[k][w])
      PROVE  frames[k][w][i] \in Int
  <2>1. frames[k][w][i] \in Times[k]
    BY <1>5, ElementOfSeq
  <2> QED BY <2>1, <1>6
<1> QED BY <1>1, <1>3, <1>4, <1>5, <1>7

\* What waits of a steady source is what lies between the mixer and the clock.
LEMMA PushedAndWaiting ==
  ASSUME Typed, NEW g \in Kinds, QueueRuns(frames[g], clock[g])
  PROVE  /\ PushedTo(g) \in Int /\ PushedTo(g) + Waiting(g) = clock[g]
         /\ Len(buffer[g]) \in 0 .. MaxBuffered
         /\ Base(g) \in Int /\ Base(g) + Len(buffer[g]) = PushedTo(g)
<1>1. PushedTo(g) + Waiting(g) = clock[g]
  <2>1. Times[g] \subseteq Int
    BY TimesAreInts DEF Typed, TimeSets
  <2>2. frames[g] \in Seq(Seq(Times[g])) /\ clock[g] \in Int
    BY SamplesWait
  <2>3. From(frames[g], 1, clock[g]) + Len(FlattenSeq(frames[g])) = clock[g]
    BY <2>1, <2>2, WaitingSpans
  <2> QED BY <2>3 DEF PushedTo, Waiting
<1>2. PushedTo(g) \in Int
  <2>1. CASE 1 <= Len(frames[g])
    <3>1. 1 \in 1 .. Len(frames[g])
      BY <2>1, SamplesWait
    <3>2. Len(frames[g][1]) # 0
      <4>1. frames[g][1] # <<>> /\ frames[g][1] \in Seq(Times[g])
        BY <3>1, SamplesWait DEF QueueRuns
      <4> QED BY <4>1, EmptySeq
    <3>3. 1 \in 1 .. Len(frames[g][1])
      BY <3>1, <3>2, SamplesWait
    <3>4. frames[g][1][1] \in Int
      BY <3>1, <3>3, SamplesWait
    <3> QED BY <3>4, <2>1 DEF PushedTo, From
  <2>2. CASE ~(1 <= Len(frames[g]))
    BY <2>2, SamplesWait DEF PushedTo, From
  <2> QED BY <2>1, <2>2
<1>3. Len(buffer[g]) \in 0 .. MaxBuffered /\ MaxBuffered \in Nat
  BY SizesAssumption DEF Typed, Drained, Filled
<1> QED BY <1>1, <1>2, <1>3 DEF Base

\* The bound of the distance covers its two causes: a full buffer of the mixer,
\* and a buffer longer than what the mixer keeps.
LEMMA BoundIsMore ==
  ASSUME NEW b \in Nat, NEW bound, bound = MaxLead + b + Max({MaxBuffered, Tick + b})
  PROVE  /\ bound \in Int /\ MaxLead + b + MaxBuffered <= bound
         /\ MaxLead + b + Tick + b <= bound
<1> DEFINE m == Max({MaxBuffered, Tick + b})
<1>1. MaxBuffered \in Int /\ Tick \in Int /\ MaxLead \in Int
  BY SizesAssumption
<1>2. m \in Int /\ MaxBuffered <= m /\ Tick + b <= m
  <2> DEFINE c == Tick + b
  <2>1. c \in Int
    BY <1>1
  <2>2. {MaxBuffered, c} = {MaxBuffered, c, c}
    OBVIOUS
  <2> HIDE DEF c
  <2>3. /\ Max({MaxBuffered, c}) \in {MaxBuffered, c}
        /\ MaxBuffered <= Max({MaxBuffered, c}) /\ c <= Max({MaxBuffered, c})
    BY <2>1, <2>2, <1>1, MaxOfThree
  <2> QED BY <2>1, <2>3, <1>1 DEF c
<1>3. bound = MaxLead + b + m
  OBVIOUS
<1> HIDE DEF m
<1> QED BY <1>1, <1>2, <1>3

\* The bound grows with the backlog.
LEMMA BoundsGrow ==
  ASSUME NEW a \in Nat, NEW b \in Nat, a <= b
  PROVE  MaxLead + a + Max({MaxBuffered, Tick + a}) <= MaxLead + b + Max({MaxBuffered, Tick + b})
<1> DEFINE ca == Tick + a
           cb == Tick + b
<1>1. /\ MaxBuffered \in Int /\ Tick \in Int /\ MaxLead \in Int /\ ca \in Int /\ cb \in Int
      /\ ca <= cb
  BY SizesAssumption
<1>2. {MaxBuffered, ca} = {MaxBuffered, ca, ca} /\ {MaxBuffered, cb} = {MaxBuffered, cb, cb}
  OBVIOUS
<1> DEFINE ma == Max({MaxBuffered, ca})
           mb == Max({MaxBuffered, cb})
<1>3. ma \in {MaxBuffered, ca} /\ mb \in {MaxBuffered, cb} /\ MaxBuffered <= mb /\ cb <= mb
  <2> HIDE DEF ca, cb
  <2> QED BY <1>1, <1>2, MaxOfThree
<1>4. ma \in Int /\ mb \in Int /\ ma <= mb
  <2> HIDE DEF ca, cb, ma, mb
  <2> QED BY <1>1, <1>3
<1> HIDE DEF ma, mb
<1>5. MaxLead + a + ma <= MaxLead + b + mb
  BY <1>1, <1>4
<1> QED BY <1>5 DEF ma, mb

\* A gap is also below a larger limit.
LEMMA GapWeaker ==
  ASSUME NEW V, TimeSets(V), NEW both, Filled(both, V), NEW g \in Kinds, NEW base \in Int,
         NEW a \in Int, NEW b \in Int, a <= b, Gap(both, g, base, a)
  PROVE  Gap(both, g, base, b)
<1> DEFINE l == Len(both[Other(g)])
<1>1. Other(g) \in Kinds /\ both[Other(g)] \in Seq(V[Other(g)]) /\ V[Other(g)] \subseteq Int /\ l \in Nat
  BY KindsDiffer, LenProperties DEF Filled, TimeSets
<1>2. ASSUME NEW p \in Tick .. l
      PROVE  base + p <= both[Other(g)][p] + b
  <2>1. p \in 1 .. l
    BY <1>1, SizesAssumption
  <2>2. both[Other(g)][p] \in Int
    <3>1. both[Other(g)][p] \in V[Other(g)]
      BY <2>1, <1>1, ElementOfSeq
    <3> QED BY <3>1, <1>1
  <2>3. base + p <= both[Other(g)][p] + a
    BY DEF Gap
  <2> HIDE DEF l
  <2> QED BY <2>1, <2>2, <2>3, <1>1
<1> QED BY <1>2 DEF Gap

\* One pass of the worker keeps the distance of a source that loses nothing,
\* for the backlog it has found.
LEMMA MixedKeepsGap ==
  ASSUME Typed, NEW g \in Kinds, Paced(g), NEW found \in Nat, backlog <= found,
         \A k \in Kinds : Waiting(k) <= found, NEW limit, NEW bound,
         limit = MaxLead + found + MaxBuffered,
         bound = MaxLead + found + Max({MaxBuffered, Tick + found})
  PROVE  KeepsGap(Mixed, g, limit, bound, clock[g])
<1> DEFINE other == Other(g)
           s == PushAll(buffer, "System", frames["System"])
           m == PushAll(s.buffer, "Microphone", frames["Microphone"])
<1>1. QueueRuns(frames[g], clock[g]) /\ Gap(buffer, g, Base(g), Limit) /\ Awaited(g)
  BY DEF Paced
<1>2. /\ PushedTo(g) \in Int /\ PushedTo(g) + Waiting(g) = clock[g]
      /\ Base(g) \in Int /\ Base(g) + Len(buffer[g]) = PushedTo(g)
  BY <1>1, PushedAndWaiting
<1>3. /\ limit \in Int /\ bound \in Int /\ limit <= bound
      /\ (limit - MaxBuffered) + Tick + found <= bound
      /\ MaxLead \in Nat /\ MaxBuffered \in Nat /\ Tick \in Nat
  <2>1. MaxLead \in Nat /\ MaxBuffered \in Nat /\ Tick \in Nat
    BY SizesAssumption
  <2>2. bound \in Int /\ MaxLead + found + MaxBuffered <= bound /\ MaxLead + found + Tick + found <= bound
    BY BoundIsMore
  <2> QED BY <2>1, <2>2
<1>4. TimeSets(Times) /\ Drained(buffer, Times) /\ other \in Kinds
  BY TimesAreInts, KindsDiffer DEF Typed
<1>5. Gap(buffer, g, Base(g), limit)
  <2>1. Limit \in Int /\ Limit <= limit
    <3>1. backlog \in Nat
      BY SizesAssumption DEF Typed, ControlTyped
    <3> QED BY <3>1, <1>3 DEF Limit
  <2> QED BY <2>1, <1>1, <1>2, <1>3, <1>4, GapWeaker DEF Drained
<1>6. \A w \in 1 .. Len(frames[g]) : (limit - MaxBuffered) + Tick + Len(frames[g][w]) <= bound
  <2> TAKE w \in 1 .. Len(frames[g])
  <2>1. Len(frames[g][w]) \in Nat /\ Len(frames[g][w]) <= found
    <3>1. Len(frames[g][w]) \in Nat /\ Len(frames[g][w]) <= Waiting(g) /\ Waiting(g) \in Nat
      BY SamplesWait
    <3> QED BY <3>1
  <2> DEFINE l == Len(frames[g][w])
  <2>2. l \in Nat /\ l <= found
    BY <2>1
  <2> HIDE DEF l
  <2>3. (limit - MaxBuffered) + Tick + l <= bound
    BY ONLY <2>2, <1>3, found \in Nat
  <2> QED BY <2>3 DEF l
<1>7. clock[g] \in Int /\ PushedTo(g) <= clock[g] /\ clock[g] <= PushedTo(g) + found
  <2>1. Waiting(g) \in Nat /\ clock[g] \in Nat /\ Waiting(g) <= found
    BY SamplesWait
  <2> QED BY <2>1, <1>2
\* It holds also for what waits of the other source, with what g pushes first.
<1>8. ASSUME NEW end \in Int, end <= clock[g]
      PROVE  \A w \in 1 .. Len(frames[other]) : \A i \in 1 .. Len(frames[other][w]) :
               end + MaxBuffered <= frames[other][w][i] + limit
  <2> TAKE w \in 1 .. Len(frames[other])
  <2> TAKE i \in 1 .. Len(frames[other][w])
  <2> DEFINE x == frames[other][w][i]
  <2>1. x \in Int
    BY <1>4, SamplesWait
  <2>2. PushedTo(g) <= x + MaxLead
    BY <1>1 DEF Awaited
  <2> HIDE DEF x
  <2>3. end + MaxBuffered <= x + limit
    BY <2>1, <2>2, <1>2, <1>3, <1>7, <1>8
  <2> QED BY <2>3 DEF x
<1>9. /\ frames[g] \in Seq(Seq(Times[g])) /\ frames[other] \in Seq(Seq(Times[other]))
  BY <1>4, SamplesWait
<1>10. From(frames[g], 1, clock[g]) = Base(g) + Len(buffer[g])
  BY <1>2 DEF PushedTo
<1>11. Out(s, Times)
  <2>1. "System" \in Kinds /\ frames["System"] \in Seq(Seq(Times["System"]))
    BY SamplesWait DEF Kinds
  <2> QED BY <2>1, <1>4, PushAllIsOut
<1>12. Out(m, Times)
  <2>1. "Microphone" \in Kinds /\ frames["Microphone"] \in Seq(Seq(Times["Microphone"]))
    BY SamplesWait DEF Kinds
  <2>2. Drained(s.buffer, Times)
    BY <1>11 DEF Out
  <2> HIDE DEF s
  <2> QED BY <2>1, <2>2, PushAllIsOut
<1>13. Mixed.chunks = s.chunks \o m.chunks /\ Mixed.buffer = m.buffer
  BY DEF Mixed
<1>14. CASE g = "System"
  <2>1. other = "Microphone"
    BY <1>14 DEF Other
  <2>2. KeepsGap(s, g, limit, bound, clock[g])
    <3>1. KeepsGap(PushAll(buffer, g, frames[g]), g, limit, bound, clock[g])
      BY <1>1, <1>2, <1>3, <1>4, <1>5, <1>6, <1>7, <1>9, <1>10, PushAllOfSteadyKeepsGap
    <3> QED BY <3>1, <1>14
  <2> HIDE DEF s
  <2>3. PICK base \in Int : /\ Gap(s.buffer, g, base, limit) /\ base + Len(s.buffer[g]) = clock[g]
                            /\ Behind(s.chunks, g, bound)
    BY <2>2 DEF KeepsGap
  <2>4. \A w \in 1 .. Len(frames[other]) : \A i \in 1 .. Len(frames[other][w]) :
          base + Len(s.buffer[g]) + MaxBuffered <= frames[other][w][i] + limit
    <3>1. \A w \in 1 .. Len(frames[other]) : \A i \in 1 .. Len(frames[other][w]) :
            clock[g] + MaxBuffered <= frames[other][w][i] + limit
      BY <1>7, <1>8
    <3>2. base + Len(s.buffer[g]) + MaxBuffered = clock[g] + MaxBuffered
      BY <2>3
    <3> QED BY <3>1, <3>2
  <2>5. KeepsGap(m, g, limit, limit, clock[g])
    <3>1. Drained(s.buffer, Times)
      BY <1>11 DEF Out
    <3>2. KeepsGap(PushAll(s.buffer, other, frames[other]), g, limit, limit,
                   base + Len(s.buffer[g]))
      BY <3>1, <2>3, <2>4, <1>3, <1>4, <1>9, PushAllOfOtherKeepsGap
    <3> QED BY <3>2, <2>1, <2>3
  <2> HIDE DEF m
  <2>6. PICK later \in Int : /\ Gap(m.buffer, g, later, limit) /\ later + Len(m.buffer[g]) = clock[g]
                             /\ Behind(m.chunks, g, limit)
    BY <2>5 DEF KeepsGap
  <2>7. Behind(m.chunks, g, bound)
    BY <2>6, <1>3, <1>4, <1>12, BehindWeaker DEF Out
  <2>8. Behind(Mixed.chunks, g, bound)
    BY <2>3, <2>7, <1>11, <1>12, <1>13, BehindConcat DEF Out
  <2> QED BY <2>6, <2>8, <1>13 DEF KeepsGap
<1>15. CASE g = "Microphone"
  <2>1. other = "System"
    BY <1>15 DEF Other
  <2>2. KeepsGap(s, g, limit, limit, PushedTo(g))
    <3>1. \A w \in 1 .. Len(frames[other]) : \A i \in 1 .. Len(frames[other][w]) :
            Base(g) + Len(buffer[g]) + MaxBuffered <= frames[other][w][i] + limit
      BY <1>2, <1>7, <1>8
    <3>2. KeepsGap(PushAll(buffer, other, frames[other]), g, limit, limit,
                   Base(g) + Len(buffer[g]))
      BY <3>1, <1>2, <1>3, <1>4, <1>5, <1>9, PushAllOfOtherKeepsGap
    <3> QED BY <3>2, <2>1, <1>2
  <2> HIDE DEF s
  <2>3. PICK base \in Int : /\ Gap(s.buffer, g, base, limit) /\ base + Len(s.buffer[g]) = PushedTo(g)
                            /\ Behind(s.chunks, g, limit)
    BY <2>2 DEF KeepsGap
  <2>4. KeepsGap(m, g, limit, bound, clock[g])
    <3>1. Drained(s.buffer, Times)
      BY <1>11 DEF Out
    <3>2. From(frames[g], 1, clock[g]) = base + Len(s.buffer[g])
      BY <2>3 DEF PushedTo
    <3>3. KeepsGap(PushAll(s.buffer, g, frames[g]), g, limit, bound, clock[g])
      BY <3>1, <3>2, <2>3, <1>1, <1>3, <1>4, <1>6, <1>7, <1>9, PushAllOfSteadyKeepsGap
    <3> QED BY <3>3, <1>15
  <2> HIDE DEF m
  <2>5. PICK later \in Int : /\ Gap(m.buffer, g, later, limit) /\ later + Len(m.buffer[g]) = clock[g]
                             /\ Behind(m.chunks, g, bound)
    BY <2>4 DEF KeepsGap
  <2>6. Behind(s.chunks, g, bound)
    BY <2>3, <1>3, <1>4, <1>11, BehindWeaker DEF Out
  <2>7. Behind(Mixed.chunks, g, bound)
    BY <2>5, <2>6, <1>11, <1>12, <1>13, BehindConcat DEF Out
  <2> QED BY <2>5, <2>7, <1>13 DEF KeepsGap
<1> QED BY <1>14, <1>15 DEF Kinds

\* Buffers of a queue without gaps begin no earlier than the first of them.
LEMMA QueueBegins ==
  ASSUME NEW S, S \subseteq Int, NEW q \in Seq(Seq(S)), NEW to \in Int, QueueRuns(q, to)
  PROVE  \A i \in 1 .. Len(q) : q[i][1] \in Int /\ From(q, 1, to) <= q[i][1]
<1>1. Len(q) \in Nat
  BY LenProperties
<1>2. ASSUME NEW i \in 1 .. Len(q)
      PROVE  Len(q[i]) \in Nat \ {0} /\ q[i][1] \in Int
  <2>1. q[i] \in Seq(S) /\ q[i] # <<>>
    BY ElementOfSeq DEF QueueRuns
  <2>2. Len(q[i]) \in Nat \ {0}
    BY <2>1, EmptySeq
  <2>3. 1 \in 1 .. Len(q[i])
    BY <2>2
  <2>4. q[i][1] \in S
    BY <2>1, <2>3, ElementOfSeq
  <2> QED BY <2>2, <2>4
<1> DEFINE P(i) == i + 1 \in 1 .. Len(q) => From(q, 1, to) <= q[i + 1][1]
           T == {i \in Nat : P(i)}
<1>3. 0 \in T
  <2>1. ASSUME 0 + 1 \in 1 .. Len(q)
        PROVE  From(q, 1, to) <= q[0 + 1][1]
    <3>1. 0 + 1 = 1 /\ 1 <= Len(q) /\ 1 \in 1 .. Len(q)
      BY <2>1, <1>1
    <3>2. From(q, 1, to) = q[1][1]
      BY <3>1 DEF From
    <3> QED BY <3>1, <3>2, <1>2
  <2> QED BY <2>1
<1>4. \A i \in Nat : i \in T => i + 1 \in T
  <2> TAKE i \in Nat
  <2> HAVE i \in T
  <2>1. ASSUME (i + 1) + 1 \in 1 .. Len(q)
        PROVE  From(q, 1, to) <= q[(i + 1) + 1][1]
    <3>1. i + 1 \in 1 .. Len(q) /\ (i + 1) + 1 <= Len(q) /\ 1 <= Len(q) /\ 1 \in 1 .. Len(q)
      BY <2>1, <1>1
    <3>2. From(q, 1, to) <= q[i + 1][1]
      BY <3>1
    <3>3. q[i + 1][1] + Len(q[i + 1]) = From(q, (i + 1) + 1, to)
      BY <3>1 DEF QueueRuns
    <3>4. From(q, (i + 1) + 1, to) = q[(i + 1) + 1][1]
      BY <3>1 DEF From
    <3>5. From(q, 1, to) = q[1][1] /\ q[1][1] \in Int
      BY <3>1, <1>2 DEF From
    <3>6. q[i + 1][1] \in Int /\ Len(q[i + 1]) \in Nat
      BY <3>1, <1>2
    <3> DEFINE a == q[i + 1][1]
               l == Len(q[i + 1])
               b == q[(i + 1) + 1][1]
               c == From(q, 1, to)
    <3>7. a \in Int /\ l \in Nat /\ c \in Int /\ c <= a /\ a + l = b
      BY <3>2, <3>3, <3>4, <3>5, <3>6
    <3> HIDE DEF a, b, c, l
    <3>8. c <= b
      BY ONLY <3>7
    <3> QED BY <3>8 DEF b, c
  <2> QED BY <2>1
<1>5. Nat \subseteq T
  <2> HIDE DEF T
  <2> QED BY <1>3, <1>4, SetInduction
<1>6. ASSUME NEW i \in 1 .. Len(q)
      PROVE  From(q, 1, to) <= q[i][1]
  <2>1. i - 1 \in Nat /\ (i - 1) + 1 = i
    BY <1>1
  <2>2. P(i - 1)
    BY <2>1, <1>5
  <2> QED BY <2>1, <2>2
<1> QED BY <1>2, <1>6

\* The times that are between the mixer and the clock of g, and all of the
\* other source.
Recent(g) == [k \in Kinds |-> IF k = g THEN Base(g) .. clock[g] - 1 ELSE Times[k]]

\* The chunks of one pass hold nothing of g older than the mixer's buffer.
LEMMA RecentIsOut ==
  ASSUME Typed, NEW g \in Kinds, Paced(g)
  PROVE  Out(Mixed, Recent(g))
<1> DEFINE V == Recent(g)
<1>1. QueueRuns(frames[g], clock[g]) /\ Runs(buffer[g], Base(g))
  BY DEF Paced, Gap
<1>2. /\ PushedTo(g) \in Int /\ PushedTo(g) + Waiting(g) = clock[g] /\ Base(g) \in Int
      /\ Base(g) + Len(buffer[g]) = PushedTo(g) /\ Len(buffer[g]) \in Nat
  BY <1>1, PushedAndWaiting, SizesAssumption
<1>3. /\ Waiting(g) \in Nat /\ clock[g] \in Nat /\ frames[g] \in Seq(Seq(Times[g]))
      /\ Len(frames[g]) \in Nat
  BY SamplesWait
<1>4. Base(g) <= PushedTo(g) /\ PushedTo(g) <= clock[g]
  BY <1>2, <1>3
<1>5. V[g] = Base(g) .. clock[g] - 1 /\ \A k \in Kinds \ {g} : V[k] = Times[k]
  BY DEF Recent
<1>6. Times[g] = 0 .. clock[g] - 1 /\ Times[g] \subseteq Int
  BY <1>3 DEF Times
<1> HIDE DEF V
<1>7. buffer[g] \in Seq(V[g])
  <2> DEFINE l == Len(buffer[g])
  <2>1. buffer[g] = [i \in 1 .. l |-> buffer[g][i]]
    BY LenProperties DEF Typed, Drained, Filled
  <2>2. \A i \in 1 .. l : buffer[g][i] = (Base(g) + i) - 1
    BY <1>1 DEF Runs
  <2>3. l \in Nat /\ Base(g) + l <= clock[g]
    BY <1>2, <1>4
  <2> HIDE DEF l
  <2>4. \A i \in 1 .. l : (Base(g) + i) - 1 \in Base(g) .. clock[g] - 1
    <3> DEFINE b == Base(g)
               c == clock[g]
    <3>1. b \in Int /\ c \in Nat /\ b + l <= c
      BY <2>3, <1>2, <1>3
    <3> HIDE DEF b, c
    <3>2. \A i \in 1 .. l : (b + i) - 1 \in b .. c - 1
      BY <3>1, <2>3
    <3> QED BY <3>2 DEF b, c
  <2>5. buffer[g] \in [1 .. l -> V[g]]
    BY <2>1, <2>2, <2>4, <1>5
  <2> QED BY <2>3, <2>5, FunctionIsSeq
<1>8. ASSUME NEW w \in 1 .. Len(frames[g])
      PROVE  frames[g][w] \in Seq(V[g])
  <2> DEFINE q == frames[g][w]
             l == Len(q)
  <2>1. q \in Seq(Times[g]) /\ Runs(q, q[1])
    BY <1>1, <1>3, ElementOfSeq DEF QueueRuns
  <2>2. q[1] \in Int /\ PushedTo(g) <= q[1]
    <3>1. clock[g] \in Int
      BY <1>3
    <3>2. /\ frames[g][w][1] \in Int
          /\ From(frames[g], 1, clock[g]) <= frames[g][w][1]
      BY <3>1, <1>1, <1>3, <1>6, QueueBegins
    <3> QED BY <3>2 DEF PushedTo
  <2>3. l \in Nat /\ q = [i \in 1 .. l |-> q[i]] /\ \A i \in 1 .. l : q[i] \in Times[g]
    BY <2>1, LenProperties, ElementOfSeq
  <2>4. \A i \in 1 .. l : q[i] = (q[1] + i) - 1
    BY <2>1 DEF Runs
  <2> HIDE DEF l, q
  <2>5. ASSUME NEW i \in 1 .. l
        PROVE  q[i] \in V[g]
    <3>1. q[i] = (q[1] + i) - 1 /\ q[i] \in 0 .. clock[g] - 1
      BY <2>3, <2>4, <1>6
    <3>2. q[i] \in Base(g) .. clock[g] - 1
      BY <3>1, <2>2, <2>3, <1>2, <1>3, <1>4
    <3> QED BY <3>2, <1>5
  <2>6. q \in [1 .. l -> V[g]]
    BY <2>3, <2>5
  <2>7. q \in Seq(V[g])
    BY <2>3, <2>6, FunctionIsSeq
  <2> QED BY <2>7 DEF q
<1>9. frames[g] \in Seq(Seq(V[g]))
  <2>1. frames[g] = [w \in 1 .. Len(frames[g]) |-> frames[g][w]]
    BY <1>3, LenProperties
  <2>2. frames[g] \in [1 .. Len(frames[g]) -> Seq(V[g])]
    BY <2>1, <1>8
  <2> QED BY <2>2, <1>3, FunctionIsSeq
<1>10. ASSUME NEW k \in Kinds \ {g}
       PROVE  buffer[k] \in Seq(V[k]) /\ frames[k] \in Seq(Seq(V[k]))
  BY <1>5 DEF Typed, Drained, Filled, QueuesTyped
<1>11. Drained(buffer, V)
  BY <1>7, <1>10 DEF Typed, Drained, Filled
<1>12. \A k \in Kinds : frames[k] \in Seq(Seq(V[k]))
  BY <1>9, <1>10
<1>13. Out(Mixed, V)
  BY <1>11, <1>12, MixedOut
<1> QED BY <1>13 DEF V

\* What one pass of the worker takes out of the mixer is not far apart.
LEMMA MixedIsNear ==
  ASSUME Typed, NEW g \in Kinds, Paced(g), \A k \in Kinds : clock[k] <= clock[Other(k)] + MaxLead,
         NEW found \in Nat, \A k \in Kinds : Waiting(k) <= found, NEW bound,
         bound = MaxLead + found + Max({MaxBuffered, Tick + found}), Behind(Mixed.chunks, g, bound)
  PROVE  Near(Mixed.chunks, bound)
<1> DEFINE other == Other(g)
<1>1. /\ PushedTo(g) \in Int /\ PushedTo(g) + Waiting(g) = clock[g] /\ Base(g) \in Int
      /\ Base(g) + Len(buffer[g]) = PushedTo(g) /\ Len(buffer[g]) \in 0 .. MaxBuffered
  BY PushedAndWaiting DEF Paced
<1>2. /\ Waiting(g) \in Nat /\ Waiting(g) <= found /\ clock[g] \in Nat /\ clock[other] \in Nat
      /\ other \in Kinds /\ clock[other] <= clock[g] + MaxLead
  <2>1. other \in Kinds /\ Other(other) = g
    BY DEF Kinds, Other
  <2> QED BY <2>1, SamplesWait
<1>3. bound \in Int /\ MaxLead + found + MaxBuffered <= bound /\ MaxLead \in Nat /\ MaxBuffered \in Nat
  BY BoundIsMore, SizesAssumption
<1>4. Out(Mixed, Recent(g))
  BY RecentIsOut
<1>5. ASSUME NEW c \in 1 .. Len(Mixed.chunks)
      PROVE  Apart(Mixed.chunks[c][Tick]) < bound
  <2> DEFINE frame == Mixed.chunks[c][Tick]
             a == Side(frame, g)
             b == Side(frame, other)
  <2>1. a - b < bound
    BY DEF Behind
  <2>2. frame \in Recent(g)["System"] \X Recent(g)["Microphone"]
    <3>1. Mixed.chunks[c] \in ChunkOf(Recent(g)) /\ Len(Mixed.chunks[c]) = Tick
      BY <1>4, ElementOfSeq DEF Out
    <3>2. Tick \in 1 .. Tick
      BY SizesAssumption
    <3> QED BY <3>1, <3>2, ElementOfSeq DEF ChunkOf
  <2>3. a \in Recent(g)[g] /\ b \in Recent(g)[other]
    BY <2>2 DEF Side, Other, Kinds
  <2>4. a \in Base(g) .. clock[g] - 1 /\ b \in 0 .. clock[other] - 1
    <3>1. Recent(g)[g] = Base(g) .. clock[g] - 1 /\ Recent(g)[other] = 0 .. clock[other] - 1
      BY <1>2, KindsDiffer DEF Recent, Times
    <3> QED BY <3>1, <2>3
  <2>5. /\ a \in Int /\ b \in Int
        /\ (a = frame[1] /\ b = frame[2]) \/ (a = frame[2] /\ b = frame[1])
    <3>1. a \in Int /\ b \in Int
      BY <2>4, <1>1, <1>2
    <3>2. CASE g = "System"
      <4>1. other = "Microphone"
        BY <3>2 DEF Other
      <4>2. a = frame[1] /\ b = frame[2]
        BY <3>2, <4>1 DEF Side
      <4> QED BY <3>1, <4>2
    <3>3. CASE g = "Microphone"
      <4>1. other = "System"
        BY <3>3 DEF Other
      <4>2. a = frame[2] /\ b = frame[1]
        BY <3>3, <4>1 DEF Side
      <4> QED BY <3>1, <4>2
    <3> QED BY <3>2, <3>3 DEF Kinds
  <2> HIDE DEF a, b, frame
  <2>6. b - a < bound
    <3> DEFINE l == Len(buffer[g])
               w == Waiting(g)
    <3>1. l \in Int /\ l <= MaxBuffered /\ w \in Int /\ w <= found
      BY <1>1, <1>2, <1>3
    <3>2. (Base(g) + l) + w = clock[g]
      BY <1>1
    <3>3. Base(g) <= a /\ b <= clock[other] - 1
      BY <2>4, <2>5, <1>1, <1>2
    <3> HIDE DEF l, w
    <3>4. Base(g) \in Int /\ clock[g] \in Int /\ clock[other] \in Int
          /\ clock[other] <= clock[g] + MaxLead
      BY <1>1, <1>2
    <3> DEFINE ba == Base(g)
               cg == clock[g]
               co == clock[other]
    <3> HIDE DEF ba, cg, co
    <3>5. /\ (ba + l) + w = cg /\ ba <= a /\ b <= co - 1
          /\ ba \in Int /\ cg \in Int /\ co \in Int /\ co <= cg + MaxLead
      BY <3>2, <3>3, <3>4 DEF ba, cg, co
    <3> QED BY ONLY <3>1, <3>5, <2>5, <1>3, found \in Nat
  <2>7. Apart(frame) < bound
    <3>1. CASE a = frame[1] /\ b = frame[2]
      BY <3>1, <2>1, <2>5, <2>6, <1>3 DEF Apart
    <3>2. CASE a = frame[2] /\ b = frame[1]
      BY <3>2, <2>1, <2>5, <2>6, <1>3 DEF Apart
    <3> QED BY <3>1, <3>2, <2>5
  <2> QED BY <2>7 DEF frame
<1> QED BY <1>5 DEF Near

\* A buffer that follows a queue extends it.
LEMMA QueueAppend ==
  ASSUME NEW S, S \subseteq Int, NEW q \in Seq(Seq(S)), NEW to \in Int, QueueRuns(q, to),
         NEW s \in Seq(S), s # <<>>, Runs(s, to)
  PROVE  /\ QueueRuns(Append(q, s), to + Len(s))
         /\ From(Append(q, s), 1, to + Len(s)) = From(q, 1, to)
<1> DEFINE n == Len(q)
           r == Append(q, s)
           end == to + Len(s)
<1>1. n \in Nat /\ Len(s) \in Nat \ {0}
  BY LenProperties, EmptySeq
<1>2. Len(r) = n + 1 /\ r[n + 1] = s /\ \A i \in 1 .. n : r[i] = q[i]
  BY AppendProperties
<1>3. s[1] = to
  <2>1. 1 \in 1 .. Len(s)
    BY <1>1
  <2> QED BY <2>1 DEF Runs
<1> HIDE DEF n, r
<1>4. \A i \in 1 .. n + 1 : From(r, i, end) = From(q, i, to)
  <2> TAKE i \in 1 .. n + 1
  <2>1. i <= Len(r)
    BY <1>1, <1>2
  <2>2. From(r, i, end) = r[i][1]
    BY <2>1 DEF From
  <2>3. CASE i <= n
    <3>1. i \in 1 .. n
      BY <2>3, <1>1
    <3> QED BY <3>1, <2>2, <2>3, <1>2 DEF From, n
  <2>4. CASE ~(i <= n)
    <3>1. i = n + 1
      BY <2>4, <1>1
    <3> QED BY <3>1, <2>2, <2>4, <1>2, <1>3 DEF From, n
  <2> QED BY <2>3, <2>4
<1>5. ASSUME NEW i \in 1 .. Len(r)
      PROVE  /\ r[i] # <<>> /\ Runs(r[i], r[i][1])
             /\ r[i][1] + Len(r[i]) = From(r, i + 1, end)
  <2>1. CASE i <= n
    <3>1. i \in 1 .. n /\ i + 1 \in 1 .. n + 1
      BY <2>1, <1>1, <1>2
    <3>2. /\ q[i] # <<>> /\ Runs(q[i], q[i][1])
          /\ q[i][1] + Len(q[i]) = From(q, i + 1, to)
      BY <3>1 DEF QueueRuns, n
    <3> QED BY <3>1, <3>2, <1>2, <1>4
  <2>2. CASE ~(i <= n)
    <3>1. i = n + 1 /\ ~(i + 1 <= Len(r))
      BY <2>2, <1>1, <1>2
    <3>2. From(r, i + 1, end) = end
      BY <3>1 DEF From
    <3> QED BY <3>1, <3>2, <1>2, <1>3
  <2> QED BY <2>1, <2>2
<1>6. From(r, 1, end) = From(q, 1, to)
  BY <1>1, <1>4
<1> QED BY <1>5, <1>6 DEF QueueRuns, r

\* Empty buffers keep any gap.
LEMMA SilentGap ==
  ASSUME NEW g \in Kinds, NEW base, NEW limit
  PROVE  Gap(Silent, g, base, limit)
<1>1. Len(Silent[g]) = 0 /\ Len(Silent[Other(g)]) = 0
  BY SilentIsTyped, KindsDiffer
<1>2. 1 .. 0 = {} /\ Tick .. 0 = {}
  BY SizesAssumption
<1> QED BY <1>1, <1>2 DEF Gap, Runs

\* Chunks near each other follow chunks near each other.
LEMMA NearConcat ==
  ASSUME NEW S, NEW s \in Seq(S), NEW t \in Seq(S), NEW bound, Near(s, bound), Near(t, bound)
  PROVE  Near(s \o t, bound)
<1>1. /\ Len(s \o t) = Len(s) + Len(t) /\ Len(s) \in Nat /\ Len(t) \in Nat
      /\ \A i \in 1 .. Len(s) + Len(t) : (s \o t)[i] = IF i <= Len(s) THEN s[i] ELSE t[i - Len(s)]
  BY ConcatProperties, LenProperties
<1>2. ASSUME NEW c \in 1 .. Len(s \o t)
      PROVE  Apart((s \o t)[c][Tick]) < bound
  <2>1. CASE c <= Len(s)
    <3>1. c \in 1 .. Len(s)
      BY <2>1, <1>1
    <3> QED BY <3>1, <2>1, <1>1 DEF Near
  <2>2. CASE ~(c <= Len(s))
    <3>1. c - Len(s) \in 1 .. Len(t)
      BY <2>2, <1>1
    <3> QED BY <3>1, <2>2, <1>1 DEF Near
  <2> QED BY <2>1, <2>2
<1> QED BY <1>2 DEF Near

\* Near stays near under a larger bound.
LEMMA NearWeaker ==
  ASSUME ControlTyped, NEW chunks, WholeChunks(chunks, Times), NEW a \in Int, NEW b \in Int, a <= b,
         Near(chunks, a)
  PROVE  Near(chunks, b)
<1>1. ASSUME NEW c \in 1 .. Len(chunks)
      PROVE  Apart(chunks[c][Tick]) < b
  <2>1. chunks[c][Tick] \in Times["System"] \X Times["Microphone"]
    <3>1. chunks[c] \in ChunkOf(Times) /\ Len(chunks[c]) = Tick
      BY ElementOfSeq DEF WholeChunks
    <3>2. Tick \in 1 .. Tick
      BY SizesAssumption
    <3> QED BY <3>1, <3>2, ElementOfSeq DEF ChunkOf
  <2>2. Times["System"] \subseteq Int /\ Times["Microphone"] \subseteq Int
    BY TimesAreInts DEF TimeSets, Kinds
  <2>3. Apart(chunks[c][Tick]) \in Int
    <3> DEFINE x == chunks[c][Tick][1]
               y == chunks[c][Tick][2]
    <3>1. x \in Int /\ y \in Int
      BY <2>1, <2>2
    <3> HIDE DEF x, y
    <3>2. x - y \in Int /\ y - x \in Int
      BY <3>1
    <3> QED BY <3>2 DEF Apart, x, y
  <2>4. Apart(chunks[c][Tick]) < a
    BY DEF Near
  <2> QED BY <2>3, <2>4
<1> QED BY <1>1 DEF Near

\* Deliveries follow what is there, and leave what is to be pushed next.
LEMMA DeliversQueue ==
  ASSUME Typed, NEW k \in Kinds, NEW count \in Nat, Delivers(k, count),
         NEW g \in Kinds, QueueRuns(frames[g], clock[g])
  PROVE  QueueRuns(frames'[g], clock'[g]) /\ PushedTo(g)' = PushedTo(g)
<1>1. Delivered(k, count)
  BY DeliversFollowing DEF Typed
<1>2. frames = [j \in Kinds |-> frames[j]] /\ Other(g) \in Kinds
  BY KindsDiffer DEF Typed, QueuesTyped
<1>3. \A j \in Kinds : clock[j] \in Nat
  BY SamplesWait
<1>4. CASE g = k
  <2>1. clock'[g] = clock[g] + count
    BY <1>1, <1>4 DEF Delivered
  <2>2. /\ QueueRuns(frames'[g], clock'[g])
        /\ From(frames'[g], 1, clock'[g]) = From(frames[g], 1, clock[g])
    <3>1. CASE count = 0
      <4>1. frames' = frames /\ clock'[g] = clock[g]
        BY <3>1, <2>1, <1>1, <1>3 DEF Delivered
      <4> QED BY <4>1
    <3>2. CASE count # 0
      <4> DEFINE s == Latest(g, count)
      <4>1. frames'[g] = Append(frames[g], s)
        BY <3>2, <1>1, <1>2, <1>4 DEF Delivered
      <4>2. s \in Seq(Int) /\ Len(s) = count
        <5>1. s \in Seq(Times'[g]) /\ Len(s) = count
          BY <1>1, <1>4 DEF Delivered
        <5>2. Times'[g] \subseteq Int
          <6>1. Times'[g] = 0 .. clock'[g] - 1
            BY DEF Times
          <6> QED BY <6>1, <2>1, <1>3
        <5> QED BY <5>1, <5>2, SeqMonotonic
      <4>3. s # <<>>
        BY <4>2, <3>2, EmptySeq
      <4>4. Runs(s, clock[g])
        BY <4>2 DEF Runs, Latest
      <4>5. frames[g] \in Seq(Seq(Int))
        <5>1. frames[g] \in Seq(Seq(Times[g])) /\ Times[g] \subseteq Int
          BY SamplesWait, TimesAreInts DEF Typed, TimeSets
        <5> QED BY <5>1, QueueGrows
      <4> HIDE DEF s
      <4>6. /\ QueueRuns(Append(frames[g], s), clock[g] + Len(s))
            /\ From(Append(frames[g], s), 1, clock[g] + Len(s)) = From(frames[g], 1, clock[g])
        <5>1. QueueRuns(frames[g], clock[g]) /\ clock[g] \in Int
          BY <1>3
        <5> QED BY <5>1, <4>2, <4>3, <4>4, <4>5, QueueAppend
      <4> QED BY <4>1, <4>2, <4>6, <2>1
    <3> QED BY <3>1, <3>2
  <2> QED BY <2>2 DEF PushedTo
<1>5. CASE g # k
  <2>1. clock'[g] = clock[g] /\ frames'[g] = frames[g]
    <3>1. g = Other(k)
      BY <1>5, KindsDiffer
    <3>2. frames'[g] = frames[g]
      BY <1>1, <1>2, <1>5 DEF Delivered
    <3> QED BY <3>1, <3>2, <1>1 DEF Delivered
  <2> QED BY <2>1 DEF PushedTo
<1> QED BY <1>4, <1>5

\* Deliveries keep the pace of a source that loses nothing.
LEMMA DeliversPaced ==
  ASSUME Typed, ShiftInv, NEW k \in Kinds, NEW count \in Nat, Delivers(k, count),
         NEW g \in Kinds, Paced(g)
  PROVE  Paced(g)'
<1>1. Delivered(k, count)
  BY DeliversFollowing DEF Typed
<1>2. buffer' = buffer /\ backlog' = backlog
  BY DEF Delivers, mixerVars, pastVars
<1>3. Limit' = Limit
  BY <1>2 DEF Limit
<1>4. frames = [j \in Kinds |-> frames[j]] /\ Other(g) \in Kinds
  BY KindsDiffer DEF Typed, QueuesTyped
<1>5. \A j \in Kinds : clock[j] \in Nat
  BY SamplesWait
<1>6. CASE g = k
  <2>1. clock'[g] = clock[g] + count /\ frames'[Other(g)] = frames[Other(g)]
    BY <1>1, <1>4, <1>6, KindsDiffer DEF Delivered
  <2>2. QueueRuns(frames'[g], clock'[g]) /\ PushedTo(g)' = PushedTo(g)
    BY DeliversQueue DEF Paced
  <2>3. Base(g)' = Base(g)
    BY <2>2, <1>2 DEF Base
  <2>4. Gap(buffer, g, Base(g), Limit)'
    BY <2>3, <1>2, <1>3 DEF Paced, Gap
  <2>5. Awaited(g)'
    BY <2>1, <2>2 DEF Paced, Awaited
  <2> QED BY <2>2, <2>4, <2>5 DEF Paced
<1>7. CASE g # k
  <2>1. Other(g) = k /\ Other(k) = g
    BY <1>7, KindsDiffer
  <2>2. clock'[g] = clock[g] /\ frames'[g] = frames[g]
    BY <1>1, <1>4, <1>7, <2>1 DEF Delivered
  <2>3. PushedTo(g)' = PushedTo(g)
    BY <2>2 DEF PushedTo
  <2>4. Base(g)' = Base(g)
    BY <2>3, <1>2 DEF Base
  <2>5. Gap(buffer, g, Base(g), Limit)'
    BY <2>4, <1>2, <1>3 DEF Paced, Gap
  <2>6. PushedTo(g) \in Int /\ PushedTo(g) <= clock[k] + MaxLead
    <3>1. /\ PushedTo(g) \in Int /\ PushedTo(g) + Waiting(g) = clock[g] /\ Waiting(g) \in Nat
      BY PushedAndWaiting, SamplesWait DEF Paced
    <3>2. clock[g] <= clock[k] + MaxLead
      BY <2>1 DEF ShiftInv
    <3> QED BY <3>1, <3>2, <1>5, SizesAssumption
  <2>7. ASSUME NEW w \in 1 .. Len(frames'[k]), NEW i \in 1 .. Len(frames'[k][w])
        PROVE  PushedTo(g) <= frames'[k][w][i] + MaxLead
    <3>1. CASE count = 0
      <4>1. frames' = frames
        BY <3>1, <1>1 DEF Delivered
      <4> QED BY <4>1, <2>1 DEF Paced, Awaited
    <3>2. CASE count # 0
      <4>1. frames'[k] = Append(frames[k], Latest(k, count))
        BY <3>2, <1>1, <1>4 DEF Delivered
      <4>2. frames[k] \in Seq(Seq(Int)) /\ Latest(k, count) \in Seq(Int)
        <5>1. frames[k] \in Seq(Seq(Times[k])) /\ Times[k] \subseteq Int
          BY SamplesWait, TimesAreInts DEF Typed, TimeSets
        <5>2. Latest(k, count) \in [1 .. count -> Int]
          BY <1>5 DEF Latest
        <5> QED BY <5>1, <5>2, QueueGrows, FunctionIsSeq
      <4>3. /\ Len(frames'[k]) = Len(frames[k]) + 1 /\ Len(frames[k]) \in Nat
            /\ frames'[k][Len(frames[k]) + 1] = Latest(k, count)
            /\ \A v \in 1 .. Len(frames[k]) : frames'[k][v] = frames[k][v]
        BY <4>1, <4>2, AppendProperties, LenProperties
      <4>4. CASE w <= Len(frames[k])
        <5>1. w \in 1 .. Len(frames[k]) /\ frames'[k][w] = frames[k][w]
          BY <4>3, <4>4
        <5> QED BY <5>1, <2>1 DEF Paced, Awaited
      <4>5. CASE ~(w <= Len(frames[k]))
        <5>1. frames'[k][w] = Latest(k, count)
          <6>1. w = Len(frames[k]) + 1
            BY <4>3, <4>5
          <6> QED BY <6>1, <4>3
        <5>2. i \in 1 .. count /\ frames'[k][w][i] = (clock[k] + i) - 1
          BY <5>1 DEF Latest
        <5> QED BY <5>2, <2>6, <1>5, SizesAssumption
      <4> QED BY <4>4, <4>5
    <3> QED BY <3>1, <3>2
  <2>8. Awaited(g)'
    BY <2>1, <2>3, <2>7 DEF Awaited
  <2> QED BY <2>2, <2>5, <2>8 DEF Paced
<1> QED BY <1>6, <1>7

\* Where the mixer is emptied a source keeps its pace.
LEMMA SilentPaced ==
  ASSUME NEW g \in Kinds, Paced(g), buffer' = Silent, clock' = clock, frames' = frames
  PROVE  Paced(g)'
<1>1. QueueRuns(frames[g], clock[g])' /\ Awaited(g)'
  BY DEF Paced, QueueRuns, Runs, From, Awaited, PushedTo
<1>2. Gap(buffer', g, Base(g)', Limit')
  BY SilentGap
<1> QED BY <1>1, <1>2 DEF Paced

\* Where the channels are emptied it does if the mixer's buffer reaches its clock.
LEMMA EmptiedPaced ==
  ASSUME NEW g \in Kinds, frames' = Silent, clock' = clock, clock[g] \in Int,
         NEW base \in Int, Gap(buffer', g, base, Limit'), Len(buffer'[g]) \in Nat,
         base + Len(buffer'[g]) = clock[g]
  PROVE  Paced(g)'
<1>1. /\ frames'[g] = <<>> /\ Len(frames'[g]) = 0
      /\ Len(frames'[Other(g)]) = 0
  BY SilentIsTyped, KindsDiffer
<1>2. 1 .. 0 = {}
  OBVIOUS
<1>3. QueueRuns(frames'[g], clock'[g])
  BY <1>1, <1>2 DEF QueueRuns
<1>4. PushedTo(g)' = clock[g]
  BY <1>1 DEF PushedTo, From
<1>5. Base(g)' = base
  <2> DEFINE l == Len(buffer'[g])
  <2>1. l \in Nat /\ base + l = clock[g] /\ Base(g)' = clock[g] - l
    BY <1>4 DEF Base
  <2> HIDE DEF l
  <2> QED BY <2>1
<1>6. Awaited(g)'
  BY <1>1, <1>2 DEF Awaited
<1>7. Gap(buffer, g, Base(g), Limit)'
  BY <1>5
<1> QED BY <1>3, <1>6, <1>7 DEF Paced

\* Where all is emptied every source keeps its pace.
LEMMA SilentEmptiedPaced ==
  ASSUME Typed, NEW g \in Kinds, frames' = Silent, buffer' = Silent, clock' = clock
  PROVE  Paced(g)'
<1>1. clock[g] \in Int
  BY SamplesWait
<1>2. Len(buffer'[g]) = 0
  BY SilentIsTyped
<1>3. clock[g] + 0 = clock[g]
  BY <1>1
<1>4. Gap(buffer', g, clock[g], Limit')
  BY SilentGap
<1> QED BY <1>1, <1>2, <1>3, <1>4, EmptiedPaced

\* One pass of the worker, as far as the distance of the channels goes.
LEMMA LookKeepsDistance ==
  ASSUME Typed, ShiftInv, Look
  PROVE  /\ \A g \in Kinds \ lossy : KeepsGap(Mixed, g, Limit', Bound', clock[g])
         /\ lossy # Kinds => /\ Near(Mixed.chunks, Bound')
                             /\ Near(recorded, Bound') /\ Near(streamed, Bound')
<1>1. /\ backlog' \in Nat /\ backlog \in Nat /\ backlog <= backlog'
      /\ \A k \in Kinds : Waiting(k) <= backlog'
  BY LookCounts, SizesAssumption DEF Typed, ControlTyped
<1>2. /\ Limit' = MaxLead + backlog' + MaxBuffered
      /\ Bound' = MaxLead + backlog' + Max({MaxBuffered, Tick + backlog'})
  BY DEF Limit, Bound
<1>3. ASSUME NEW g \in Kinds \ lossy
      PROVE  KeepsGap(Mixed, g, Limit', Bound', clock[g])
  <2>1. Paced(g)
    BY DEF ShiftInv
  <2> QED BY <2>1, <1>1, <1>2, MixedKeepsGap
<1>4. ASSUME lossy # Kinds
      PROVE  /\ Near(Mixed.chunks, Bound')
             /\ Near(recorded, Bound') /\ Near(streamed, Bound')
  <2>1. PICK g \in Kinds \ lossy : TRUE
    BY <1>4 DEF Typed, ControlTyped
  <2>2. Behind(Mixed.chunks, g, Bound')
    BY <1>3 DEF KeepsGap
  <2>3. Near(Mixed.chunks, Bound')
    <3>1. Paced(g) /\ \A k \in Kinds : clock[k] <= clock[Other(k)] + MaxLead
      BY DEF ShiftInv
    <3> QED BY <3>1, <2>2, <1>1, <1>2, MixedIsNear
  <2>4. Bound \in Int /\ Bound' \in Int /\ Bound <= Bound'
    <3>1. Bound <= Bound'
      BY <1>1, BoundsGrow DEF Bound
    <3>2. Bound \in Int /\ Bound' \in Int
      BY <1>1, BoundIsMore DEF Bound
    <3> QED BY <3>1, <3>2
  <2>5. Near(recorded, Bound) /\ Near(streamed, Bound)
    BY <1>4 DEF ShiftInv
  <2> QED BY <2>3, <2>4, <2>5, NearWeaker DEF Typed, ChunksTyped
<1> QED BY <1>3, <1>4

\* What is written of near chunks is near.
LEMMA WrittenNear ==
  ASSUME Typed, NEW chunks, WholeChunks(chunks, Times), NEW bound, Near(chunks, bound),
         Near(recorded, bound), Near(streamed, bound)
  PROVE  /\ Record(chunks) => Near(recorded', bound)
         /\ Stream(chunks) => Near(streamed', bound)
<1>1. /\ recorded \in Seq(ChunkOf(Times)) /\ streamed \in Seq(ChunkOf(Times))
      /\ chunks \in Seq(ChunkOf(Times))
  BY DEF Typed, ChunksTyped, WholeChunks
<1>2. Near(recorded \o chunks, bound) /\ Near(streamed \o chunks, bound)
  BY <1>1, NearConcat
<1> QED BY <1>2 DEF Record, Stream

\* So are the first of them.
LEMMA PrefixNear ==
  ASSUME NEW V, NEW chunks, WholeChunks(chunks, V), NEW n \in 0 .. Len(chunks), NEW bound,
         Near(chunks, bound)
  PROVE  Near(SubSeq(chunks, 1, n), bound)
<1>1. /\ Len(SubSeq(chunks, 1, n)) = n
      /\ \A i \in 1 .. n : SubSeq(chunks, 1, n)[i] = chunks[i]
  BY WholePrefix
<1>2. \A i \in 1 .. n : i \in 1 .. Len(chunks)
  <2>1. Len(chunks) \in Nat
    BY LenProperties DEF WholeChunks
  <2> QED BY <2>1
<1> QED BY <1>1, <1>2 DEF Near

\* A delivery keeps the distance.
LEMMA DeliversShift ==
  ASSUME Typed, ShiftInv, NEW k \in Kinds, NEW count \in Nat, Delivers(k, count)
  PROVE  ShiftInv'
<1>1. /\ sources = "running" /\ sources' = sources /\ lossy' = lossy /\ buffer' = buffer
      /\ paused' = paused /\ recorded' = recorded /\ streamed' = streamed /\ backlog' = backlog
  BY DEF Delivers, mixerVars, sinkVars, pastVars
<1>2. Delivered(k, count)
  BY DeliversFollowing DEF Typed
<1>3. \A g \in Kinds \ lossy : Paced(g)'
  BY DeliversPaced DEF ShiftInv
<1>4. ASSUME NEW j \in Kinds
      PROVE  clock'[j] <= clock'[Other(j)] + MaxLead
  <2>1. clock[j] <= clock[Other(j)] + MaxLead
    BY DEF ShiftInv
  <2>2. /\ clock[j] \in Nat /\ clock[Other(j)] \in Nat /\ MaxLead \in Nat /\ clock[k] \in Nat
        /\ clock[Other(k)] \in Nat
    BY SamplesWait, KindsDiffer, SizesAssumption
  <2>3. /\ clock'[k] = clock[k] + count /\ clock'[Other(k)] = clock[Other(k)]
        /\ clock[k] + count <= clock[Other(k)] + MaxLead
    BY <1>2 DEF Delivered
  <2>4. CASE j = k
    BY <2>4, <2>2, <2>3
  <2>5. CASE j # k
    <3>1. j = Other(k) /\ Other(j) = k
      BY <2>5, KindsDiffer
    <3> QED BY <3>1, <2>1, <2>2, <2>3
  <2> QED BY <2>4, <2>5
<1>5. Bound' = Bound
  BY <1>1 DEF Bound
<1> QED BY <1>1, <1>3, <1>4, <1>5 DEF ShiftInv, Near

\* A loss of the other source keeps it too.
LEMMA LoseShift ==
  ASSUME Typed, ShiftInv, NEW k \in Kinds, Lose(k)
  PROVE  ShiftInv'
<1>1. /\ sources = "running" /\ sources' = sources /\ lossy' = lossy \cup {k} /\ buffer' = buffer
      /\ paused' = paused /\ recorded' = recorded /\ streamed' = streamed /\ backlog' = backlog
      /\ frames' = frames
  BY DEF Lose, mixerVars, sinkVars
<1>2. PICK n \in SystemSizes : /\ clock[k] + n <= clock[Other(k)] + MaxLead
                               /\ clock' = [clock EXCEPT ![k] = @ + n]
  BY DEF Lose
<1>3. n \in Nat /\ clock \in [Kinds -> 0 .. MaxTime] /\ Other(k) \in Kinds /\ Other(k) # k
  BY KindsDiffer, SizesAssumption DEF Typed, ControlTyped
<1>4. clock'[k] = clock[k] + n /\ clock'[Other(k)] = clock[Other(k)]
  BY <1>2, <1>3
<1>5. ASSUME NEW j \in Kinds
      PROVE  clock'[j] <= clock'[Other(j)] + MaxLead
  <2>1. clock[j] <= clock[Other(j)] + MaxLead
    BY DEF ShiftInv
  <2>2. /\ clock[j] \in Nat /\ clock[Other(j)] \in Nat /\ MaxLead \in Nat /\ clock[k] \in Nat
        /\ clock[Other(k)] \in Nat
    BY SamplesWait, KindsDiffer, SizesAssumption
  <2>3. CASE j = k
    BY <2>2, <2>3, <1>2, <1>3, <1>4
  <2>4. CASE j # k
    <3>1. j = Other(k) /\ Other(j) = k
      BY <2>4, KindsDiffer
    <3> QED BY <3>1, <2>1, <2>2, <1>2, <1>3, <1>4
  <2> QED BY <2>3, <2>4
<1>6. ASSUME NEW g \in Kinds \ lossy'
      PROVE  Paced(g)'
  <2>1. g # k /\ g = Other(k) /\ g \in Kinds \ lossy
    BY <1>1, KindsDiffer
  <2>2. clock'[g] = clock[g] /\ Paced(g)
    BY <2>1, <1>4 DEF ShiftInv
  <2> QED BY <2>2, <1>1 DEF Paced, QueueRuns, Runs, From, Gap, Base, PushedTo, Limit, Awaited
<1>7. lossy' # Kinds => lossy # Kinds
  BY <1>1
<1>8. Bound' = Bound
  BY <1>1 DEF Bound
<1> QED BY <1>1, <1>5, <1>6, <1>7, <1>8 DEF ShiftInv, Near

\* One pass of the worker keeps the distance.
LEMMA ProcessAudioShift ==
  ASSUME Typed, ShiftInv, ProcessAudio
  PROVE  ShiftInv'
<1>1. /\ sources = "running" /\ sources' = sources /\ lossy' = lossy /\ clock' = clock
      /\ paused' = paused /\ frames' = Silent /\ Look
  BY DEF ProcessAudio, nativeVars
<1>2. /\ \A g \in Kinds \ lossy : KeepsGap(Mixed, g, Limit', Bound', clock[g])
      /\ lossy # Kinds => /\ Near(Mixed.chunks, Bound')
                          /\ Near(recorded, Bound') /\ Near(streamed, Bound')
  BY <1>1, LookKeepsDistance
<1>3. \A k \in Kinds : clock'[k] <= clock'[Other(k)] + MaxLead
  BY <1>1 DEF ShiftInv
<1>4. CASE paused
  <2>1. recorded' = recorded /\ streamed' = streamed /\ buffer' = Silent
    BY <1>4 DEF ProcessAudio, ShiftInv
  <2>2. \A g \in Kinds : Paced(g)'
    BY <2>1, <1>1, SilentEmptiedPaced
  <2>3. lossy # Kinds => Near(recorded', Bound') /\ Near(streamed', Bound')
    BY <2>1, <1>2
  <2> QED BY <2>1, <2>2, <2>3, <1>1, <1>3 DEF ShiftInv
<1>5. CASE ~paused
  <2>1. buffer' = Mixed.buffer /\ Record(Mixed.chunks) /\ Stream(Mixed.chunks)
    BY <1>5 DEF ProcessAudio
  <2>2. WholeChunks(Mixed.chunks, Times) /\ Drained(Mixed.buffer, Times)
    BY MixedIsOut DEF Out, WholeChunks
  <2>3. ASSUME NEW g \in Kinds \ lossy
        PROVE  Paced(g)'
    <3>1. PICK base \in Int : /\ Gap(Mixed.buffer, g, base, Limit')
                              /\ base + Len(Mixed.buffer[g]) = clock[g]
      BY <1>2 DEF KeepsGap
    <3>2. Len(Mixed.buffer[g]) \in Nat /\ clock[g] \in Int
      BY <2>2, SamplesWait, SizesAssumption DEF Drained, Filled
    <3> QED BY <3>1, <3>2, <2>1, <1>1, EmptiedPaced
  <2>4. lossy # Kinds => Near(recorded', Bound') /\ Near(streamed', Bound')
    BY <2>1, <2>2, <1>2, WrittenNear
  <2> QED BY <2>3, <2>4, <1>1, <1>3, <1>5 DEF ShiftInv
<1> QED BY <1>4, <1>5

\* So does a pass that fails, of which only the first chunks are written.
LEMMA WriteFailsShift ==
  ASSUME Typed, ShiftInv, WriteFails
  PROVE  ShiftInv'
<1>1. PICK n \in 1 .. Len(Mixed.chunks), refused \in BOOLEAN :
        /\ Record(SubSeq(Mixed.chunks, 1, IF refused THEN n ELSE n - 1))
        /\ Stream(SubSeq(Mixed.chunks, 1, n - 1))
  BY DEF WriteFails
<1> DEFINE l == IF refused THEN n ELSE n - 1
           written == SubSeq(Mixed.chunks, 1, l)
           passed == SubSeq(Mixed.chunks, 1, n - 1)
<1>2. /\ sources' = "after" /\ lossy' = lossy /\ clock' = clock /\ paused' = FALSE
      /\ frames' = Silent /\ buffer' = Silent /\ Look
  BY DEF WriteFails
<1>3. lossy # Kinds => /\ Near(Mixed.chunks, Bound')
                       /\ Near(recorded, Bound') /\ Near(streamed, Bound')
  BY <1>2, LookKeepsDistance
<1>4. WholeChunks(Mixed.chunks, Times) /\ Len(Mixed.chunks) \in Nat
  BY MixedIsOut, LenProperties DEF Out, WholeChunks
<1>5. n - 1 \in 0 .. Len(Mixed.chunks) /\ l \in 0 .. Len(Mixed.chunks)
  BY <1>4
<1>6. Record(written) /\ Stream(passed)
  BY <1>1
<1>7. ASSUME lossy # Kinds
      PROVE  Near(recorded', Bound') /\ Near(streamed', Bound')
  <2> HIDE DEF l
  <2>1. Near(written, Bound') /\ Near(passed, Bound')
    BY <1>3, <1>4, <1>5, <1>7, PrefixNear
  <2>2. WholeChunks(written, Times) /\ WholeChunks(passed, Times)
    BY <1>4, <1>5, WholePrefix
  <2> HIDE DEF written, passed
  <2> QED BY <2>1, <2>2, <1>3, <1>6, <1>7, WrittenNear
<1>8. \A g \in Kinds : Paced(g)'
  BY <1>2, SilentEmptiedPaced
<1>9. \A k \in Kinds : clock'[k] <= clock'[Other(k)] + MaxLead
  BY <1>2 DEF ShiftInv
<1> QED BY <1>2, <1>7, <1>8, <1>9 DEF ShiftInv

\* The other actions leave the channels and the mixer, or empty one or both.
LEMMA RequestShift ==
  ASSUME Typed, ShiftInv, clock' = clock, lossy' = lossy, backlog' = backlog,
         recorded' = recorded, streamed' = streamed,
         \/ frames' = frames /\ buffer' = buffer
         \/ frames' = frames /\ buffer' = Silent
         \/ frames' = Silent /\ buffer' = Silent,
         paused' => buffer' = Silent,
         sources' # "running" => frames' = Silent /\ buffer' = Silent
  PROVE  ShiftInv'
<1>1. Bound' = Bound
  BY DEF Bound
<1>2. ASSUME NEW g \in Kinds \ lossy
      PROVE  Paced(g)'
  <2>1. Paced(g)
    BY DEF ShiftInv
  <2>2. CASE frames' = frames /\ buffer' = buffer
    BY <2>1, <2>2 DEF Paced, QueueRuns, Runs, From, Gap, Base, PushedTo, Limit, Awaited
  <2>3. CASE frames' = frames /\ buffer' = Silent
    BY <2>1, <2>3, SilentPaced
  <2>4. CASE frames' = Silent /\ buffer' = Silent
    BY <2>4, SilentEmptiedPaced
  <2> QED BY <2>2, <2>3, <2>4
<1> QED BY <1>1, <1>2 DEF ShiftInv, Near

\* Every step keeps the distance.
LEMMA ShiftInvStep ==
  ASSUME Typed, LinkFollows, ShiftInv, [Next]_vars
  PROVE  ShiftInv'
<1> USE DEF nativeVars, mixerVars, sinkVars, pastVars
<1>1. ASSUME NEW n \in SystemSizes, CaptureSystem(n)
      PROVE  ShiftInv'
  <2>1. n \in Nat /\ Delivers("System", n) /\ "System" \in Kinds
    BY <1>1, SystemDelivers DEF Typed, Kinds
  <2> QED BY <2>1, DeliversShift
<1>2. ASSUME NEW n \in NativeSizes, CaptureMicrophone(n)
      PROVE  ShiftInv'
  <2>1. PICK count \in Nat : Delivers("Microphone", count)
    BY <1>2, MicrophoneDelivers DEF Typed
  <2>2. "Microphone" \in Kinds
    BY DEF Kinds
  <2> QED BY <2>1, <2>2, DeliversShift
<1>3. ASSUME NEW k \in Kinds, Lose(k)
      PROVE  ShiftInv'
  BY <1>3, LoseShift
<1>4. CASE ProcessAudio
  BY <1>4, ProcessAudioShift
<1>5. CASE WriteFails
  BY <1>5, WriteFailsShift
<1>6. /\ paused => buffer = Silent
      /\ sources # "running" => frames = Silent /\ buffer = Silent
      /\ link => sources = "running"
  BY DEF ShiftInv, LinkFollows
<1>7. CASE StartSources
  BY <1>7, <1>6, RequestShift DEF StartSources
<1>8. CASE OpenRecorder
  BY <1>8, <1>6, RequestShift DEF OpenRecorder
<1>9. CASE StartLink
  BY <1>9, <1>6, RequestShift DEF StartLink
<1>10. CASE Pause
  BY <1>10, <1>6, RequestShift DEF Pause, PauseMixer
<1>11. CASE Resume
  BY <1>11, <1>6, RequestShift DEF Resume
<1>12. CASE End
  BY <1>12, <1>6, RequestShift DEF End, PauseMixer
<1>13. CASE FinishRecorder
  BY <1>13, <1>6, RequestShift DEF FinishRecorder
<1>14. CASE StopSources
  BY <1>14, <1>6, RequestShift DEF StopSources
<1>15. CASE UNCHANGED vars
  BY <1>15, <1>6, RequestShift DEF vars
<1> QED BY <1>1, <1>2, <1>3, <1>4, <1>5, <1>7, <1>8, <1>9, <1>10, <1>11, <1>12, <1>13, <1>14,
           <1>15 DEF Next, Native, Worker

\* The initial state keeps it.
LEMMA ShiftInvInit ==
  ASSUME Init
  PROVE  ShiftInv
<1>1. /\ frames = Silent /\ buffer = Silent /\ recorded = <<>> /\ streamed = <<>> /\ ~paused
      /\ \A k \in Kinds : clock[k] = 0
  BY DEF Init
<1>2. 1 .. 0 = {} /\ Len(<<>>) = 0
  BY EmptySeq
<1>3. \A k \in Kinds : Len(frames[k]) = 0
  BY <1>1, SilentIsTyped
<1>4. ASSUME NEW g \in Kinds
      PROVE  Paced(g)
  <2>1. Len(frames[g]) = 0 /\ Len(frames[Other(g)]) = 0
    BY <1>3, KindsDiffer
  <2>2. Gap(buffer, g, Base(g), Limit)
    BY <1>1, SilentGap
  <2> QED BY <2>1, <2>2, <1>2 DEF Paced, QueueRuns, Awaited
<1>5. \A k \in Kinds : clock[k] <= clock[Other(k)] + MaxLead
  BY <1>1, KindsDiffer, SizesAssumption
<1>6. Near(recorded, Bound) /\ Near(streamed, Bound)
  BY <1>1, <1>2 DEF Near
<1> QED BY <1>1, <1>4, <1>5, <1>6 DEF ShiftInv

\* The link is behind the recording in every reachable state.
LEMMA LinkFollowsAlways ==
  Spec => []LinkFollows
<1>1. Init => LinkFollows
  BY DEF Init, LinkFollows
<1>2. LinkFollows /\ Typed /\ [Next]_vars => LinkFollows'
  BY LinkFollowsStep
<1> QED BY <1>1, <1>2, TypedAlways, PTL DEF Spec

\* Every reachable state keeps the distance.
LEMMA ShiftInvAlways ==
  Spec => []ShiftInv
<1>1. Init => ShiftInv
  BY ShiftInvInit
<1>2. ShiftInv /\ Typed /\ LinkFollows /\ [Next]_vars => ShiftInv'
  BY ShiftInvStep
<1> QED BY <1>1, <1>2, TypedAlways, LinkFollowsAlways, PTL DEF Spec

\* Chunks kept near end at most the bound apart.
LEMMA NearIsBounded ==
  ASSUME Typed, ShiftInv
  PROVE  BoundedShift
<1> SUFFICES ASSUME lossy # Kinds, NEW chunk \in ToSet(recorded) \cup ToSet(streamed)
             PROVE  Apart(Last(chunk)) < Bound
  BY DEF BoundedShift, Bound
<1>1. WholeChunks(recorded, Times) /\ WholeChunks(streamed, Times)
  BY DEF Typed, ChunksTyped
<1>2. Near(recorded, Bound) /\ Near(streamed, Bound)
  BY DEF ShiftInv
<1>3. ASSUME NEW chunks, WholeChunks(chunks, Times), Near(chunks, Bound), chunk \in ToSet(chunks)
      PROVE  Apart(Last(chunk)) < Bound
  <2>1. PICK c \in 1 .. Len(chunks) : chunk = chunks[c]
    BY <1>3, ElementsOfSeq DEF WholeChunks
  <2>2. Last(chunk) = chunks[c][Tick]
    BY <2>1, <1>3 DEF Last, WholeChunks
  <2> QED BY <2>2, <1>3 DEF Near
<1> QED BY <1>1, <1>2, <1>3

\* A source that loses audio, for as long as the other loses none, never takes
\* the channels further apart than the mixer can hold, what waited for the
\* worker and what the sources deliver unevenly: the mixer drops what is too old.
THEOREM ShiftBounded == Spec => []BoundedShift
<1>1. Typed /\ ShiftInv => BoundedShift
  BY NearIsBounded
<1> QED BY <1>1, TypedAlways, ShiftInvAlways, PTL

-----------------------------------------------------------------------------
(* The channels in step *)

\* As long as nothing is lost, dropped or cleared the buffers of the mixer
\* begin at the same time.
Aligned ==
  ~disturbed =>
    /\ lossy = {} /\ ~paused
    /\ sources # "after" => Base("System") = Base("Microphone")
    /\ Paired(recorded) /\ Paired(streamed)

\* Chunks in step follow chunks in step.
LEMMA PairedConcat ==
  ASSUME NEW S, NEW s \in Seq(S), NEW t \in Seq(S), Paired(s), Paired(t)
  PROVE  Paired(s \o t)
<1>1. /\ Len(s \o t) = Len(s) + Len(t) /\ Len(s) \in Nat /\ Len(t) \in Nat
      /\ \A i \in 1 .. Len(s) + Len(t) : (s \o t)[i] = IF i <= Len(s) THEN s[i] ELSE t[i - Len(s)]
  BY ConcatProperties, LenProperties
<1>2. ASSUME NEW c \in 1 .. Len(s \o t)
      PROVE  \A i \in 1 .. Len((s \o t)[c]) : (s \o t)[c][i][1] = (s \o t)[c][i][2]
  <2>1. CASE c <= Len(s)
    <3>1. c \in 1 .. Len(s) /\ (s \o t)[c] = s[c]
      BY <2>1, <1>1
    <3> QED BY <3>1 DEF Paired
  <2>2. CASE ~(c <= Len(s))
    <3>1. c - Len(s) \in 1 .. Len(t) /\ (s \o t)[c] = t[c - Len(s)]
      BY <2>2, <1>1
    <3> QED BY <3>1 DEF Paired
  <2> QED BY <2>1, <2>2
<1> QED BY <1>2 DEF Paired

\* The first of chunks in step are in step.
LEMMA PairedPrefix ==
  ASSUME NEW V, NEW chunks, WholeChunks(chunks, V), NEW n \in 0 .. Len(chunks), Paired(chunks)
  PROVE  Paired(SubSeq(chunks, 1, n))
<1>1. /\ Len(SubSeq(chunks, 1, n)) = n
      /\ \A i \in 1 .. n : SubSeq(chunks, 1, n)[i] = chunks[i]
  BY WholePrefix
<1>2. \A i \in 1 .. n : i \in 1 .. Len(chunks)
  <2>1. Len(chunks) \in Nat
    BY LenProperties DEF WholeChunks
  <2> QED BY <2>1
<1> QED BY <1>1, <1>2 DEF Paired

\* What is written of chunks in step is in step.
LEMMA WrittenPaired ==
  ASSUME Typed, NEW chunks, WholeChunks(chunks, Times), Paired(chunks),
         Paired(recorded), Paired(streamed)
  PROVE  /\ Record(chunks) => Paired(recorded')
         /\ Stream(chunks) => Paired(streamed')
<1>1. /\ recorded \in Seq(ChunkOf(Times)) /\ streamed \in Seq(ChunkOf(Times))
      /\ chunks \in Seq(ChunkOf(Times))
  BY DEF Typed, ChunksTyped, WholeChunks
<1>2. Paired(recorded \o chunks) /\ Paired(streamed \o chunks)
  BY <1>1, PairedConcat
<1> QED BY <1>2 DEF Record, Stream

\* One pass of the worker over aligned buffers, of which nothing is dropped.
LEMMA MixedAligned ==
  ASSUME Typed, ShiftInv, lossy = {}, Base("System") = Base("Microphone"), ~Mixed.dropped
  PROVE  /\ Paired(Mixed.chunks)
         /\ \E later \in Int : \A j \in Kinds : later + Len(Mixed.buffer[j]) = clock[j]
<1> DEFINE s == PushAll(buffer, "System", frames["System"])
           m == PushAll(s.buffer, "Microphone", frames["Microphone"])
           base == Base("System")
<1>1. \A g \in Kinds : Paced(g)
  BY DEF ShiftInv
<1>2. ASSUME NEW g \in Kinds
      PROVE  /\ QueueRuns(frames[g], clock[g]) /\ Runs(buffer[g], base)
             /\ base \in Int /\ clock[g] \in Int
             /\ From(frames[g], 1, clock[g]) = base + Len(buffer[g])
             /\ frames[g] \in Seq(Seq(Times[g]))
  <2>1. Base(g) = base
    BY DEF Kinds
  <2>2. QueueRuns(frames[g], clock[g]) /\ Runs(buffer[g], Base(g))
    BY <1>1 DEF Paced, Gap
  <2>3. Base(g) \in Int /\ Base(g) + Len(buffer[g]) = PushedTo(g)
    BY <2>2, PushedAndWaiting
  <2> QED BY <2>1, <2>2, <2>3, SamplesWait DEF PushedTo
<1>3. TimeSets(Times) /\ Drained(buffer, Times) /\ "System" \in Kinds /\ "Microphone" \in Kinds
  BY TimesAreInts DEF Typed, Kinds
<1>4. /\ Mixed.chunks = s.chunks \o m.chunks /\ Mixed.buffer = m.buffer
      /\ ~s.dropped /\ ~m.dropped
  BY DEF Mixed
<1>5. Out(s, Times)
  BY <1>2, <1>3, PushAllIsOut
<1>6. Drained(s.buffer, Times)
  BY <1>5 DEF Out
<1>7. Out(m, Times)
  <2> HIDE DEF s
  <2> QED BY <1>2, <1>3, <1>6, PushAllIsOut
<1>8. PICK b \in Int :
        /\ \A j \in Kinds : Runs(s.buffer[j], b)
        /\ \A j \in Kinds : b + Len(s.buffer[j]) =
                              IF j = "System" THEN clock["System"] ELSE base + Len(buffer[j])
        /\ Paired(s.chunks)
  <2> HIDE DEF base
  <2> QED BY <1>2, <1>3, <1>4, PushAllAligned
<1>9. /\ b + Len(s.buffer["System"]) = clock["System"]
      /\ b + Len(s.buffer["Microphone"]) = From(frames["Microphone"], 1, clock["Microphone"])
  BY <1>2, <1>3, <1>8
<1>10. PICK later \in Int :
         /\ \A j \in Kinds : later + Len(m.buffer[j]) =
                               IF j = "Microphone" THEN clock["Microphone"]
                               ELSE b + Len(s.buffer[j])
         /\ Paired(m.chunks)
  <2>1. /\ frames["Microphone"] \in Seq(Seq(Times["Microphone"]))
        /\ QueueRuns(frames["Microphone"], clock["Microphone"]) /\ clock["Microphone"] \in Int
        /\ From(frames["Microphone"], 1, clock["Microphone"]) =
             b + Len(s.buffer["Microphone"])
    BY <1>2, <1>3, <1>9
  <2>2. /\ \A j \in Kinds : Runs(s.buffer[j], b)
        /\ ~PushAll(s.buffer, "Microphone", frames["Microphone"]).dropped
    BY <1>4, <1>8
  <2> DEFINE both == s.buffer
             waiting == frames["Microphone"]
             to == clock["Microphone"]
  <2>3. /\ Drained(both, Times) /\ waiting \in Seq(Seq(Times["Microphone"]))
        /\ QueueRuns(waiting, to) /\ to \in Int
        /\ From(waiting, 1, to) = b + Len(both["Microphone"])
        /\ \A j \in Kinds : Runs(both[j], b)
        /\ ~PushAll(both, "Microphone", waiting).dropped
    BY <2>1, <2>2, <1>6
  <2> HIDE DEF both, waiting, to
  <2>4. \E later \in Int :
          /\ \A j \in Kinds : Runs(PushAll(both, "Microphone", waiting).buffer[j], later)
          /\ \A j \in Kinds : later + Len(PushAll(both, "Microphone", waiting).buffer[j]) =
                                IF j = "Microphone" THEN to ELSE b + Len(both[j])
          /\ Paired(PushAll(both, "Microphone", waiting).chunks)
    BY <2>3, <1>3, PushAllAligned
  <2> QED BY <2>4 DEF both, waiting, to
<1>11. \A j \in Kinds : later + Len(m.buffer[j]) = clock[j]
  BY <1>9, <1>10 DEF Kinds
<1>12. Paired(Mixed.chunks)
  <2>1. s.chunks \in Seq(ChunkOf(Times)) /\ m.chunks \in Seq(ChunkOf(Times))
    BY <1>5, <1>7 DEF Out
  <2> HIDE DEF s, m
  <2> QED BY <2>1, <1>4, <1>8, <1>10, PairedConcat
<1> QED BY <1>4, <1>11, <1>12

\* A delivery leaves the buffers aligned.
LEMMA DeliversAligned ==
  ASSUME Typed, ShiftInv, Aligned, NEW k \in Kinds, NEW count \in Nat, Delivers(k, count)
  PROVE  Aligned'
<1>1. /\ sources' = sources /\ lossy' = lossy /\ buffer' = buffer /\ disturbed' = disturbed
      /\ paused' = paused /\ recorded' = recorded /\ streamed' = streamed
  BY DEF Delivers, mixerVars, sinkVars, pastVars
<1>2. ASSUME lossy = {}, NEW g \in Kinds
      PROVE  Base(g)' = Base(g)
  <2>1. QueueRuns(frames[g], clock[g])
    BY <1>2 DEF ShiftInv, Paced
  <2>2. PushedTo(g)' = PushedTo(g)
    BY <2>1, DeliversQueue
  <2> QED BY <2>2, <1>1 DEF Base
<1>3. "System" \in Kinds /\ "Microphone" \in Kinds
  BY DEF Kinds
<1>4. lossy = {} => Base("System")' = Base("System") /\ Base("Microphone")' = Base("Microphone")
  BY <1>2, <1>3
<1> QED BY <1>1, <1>4 DEF Aligned, Paired

\* One pass of the worker leaves them aligned, or something was dropped.
LEMMA ProcessAudioAligned ==
  ASSUME Typed, ShiftInv, Aligned, ProcessAudio
  PROVE  Aligned'
<1> SUFFICES ASSUME ~disturbed'
             PROVE  Aligned'
  BY DEF Aligned
<1>1. /\ sources = "running" /\ sources' = sources /\ lossy' = lossy /\ clock' = clock
      /\ paused' = paused /\ frames' = Silent
      /\ ~paused /\ buffer' = Mixed.buffer /\ ~disturbed /\ ~Mixed.dropped
      /\ Record(Mixed.chunks) /\ Stream(Mixed.chunks)
  BY DEF ProcessAudio, nativeVars
<1>2. /\ lossy = {} /\ Base("System") = Base("Microphone") /\ Paired(recorded) /\ Paired(streamed)
  BY <1>1 DEF Aligned
<1>3. WholeChunks(Mixed.chunks, Times) /\ Drained(Mixed.buffer, Times)
  BY MixedIsOut DEF Out, WholeChunks
<1>4. Paired(Mixed.chunks)
  BY <1>1, <1>2, MixedAligned
<1>5. PICK later \in Int : \A j \in Kinds : later + Len(Mixed.buffer[j]) = clock[j]
  BY <1>1, <1>2, MixedAligned
<1>6. Paired(recorded') /\ Paired(streamed')
  BY <1>1, <1>2, <1>3, <1>4, WrittenPaired
<1>7. ASSUME NEW g \in Kinds
      PROVE  Base(g)' = later
  <2> DEFINE l == Len(Mixed.buffer[g])
  <2>1. PushedTo(g)' = clock[g]
    <3>1. Len(frames'[g]) = 0
      BY <1>1, SilentIsTyped
    <3> QED BY <3>1, <1>1 DEF PushedTo, From
  <2>2. Base(g)' = clock[g] - l
    BY <2>1, <1>1 DEF Base
  <2>3. l \in Nat /\ later + l = clock[g]
    BY <1>3, <1>5, SizesAssumption DEF Drained, Filled
  <2> HIDE DEF l
  <2> QED BY <2>2, <2>3
<1>8. Base("System")' = Base("Microphone")'
  BY <1>7 DEF Kinds
<1> QED BY <1>1, <1>2, <1>6, <1>8 DEF Aligned

\* So does a pass that fails.
LEMMA WriteFailsAligned ==
  ASSUME Typed, ShiftInv, Aligned, WriteFails
  PROVE  Aligned'
<1> SUFFICES ASSUME ~disturbed'
             PROVE  Aligned'
  BY DEF Aligned
<1>1. PICK n \in 1 .. Len(Mixed.chunks), refused \in BOOLEAN :
        /\ Record(SubSeq(Mixed.chunks, 1, IF refused THEN n ELSE n - 1))
        /\ Stream(SubSeq(Mixed.chunks, 1, n - 1))
  BY DEF WriteFails
<1> DEFINE l == IF refused THEN n ELSE n - 1
           written == SubSeq(Mixed.chunks, 1, l)
           passed == SubSeq(Mixed.chunks, 1, n - 1)
<1>2. /\ sources = "running" /\ sources' = "after" /\ lossy' = lossy /\ ~paused'
      /\ ~disturbed /\ ~Mixed.dropped
  BY DEF WriteFails
<1>3. /\ lossy = {} /\ Base("System") = Base("Microphone") /\ Paired(recorded) /\ Paired(streamed)
  BY <1>2 DEF Aligned
<1>4. WholeChunks(Mixed.chunks, Times) /\ Len(Mixed.chunks) \in Nat
  BY MixedIsOut, LenProperties DEF Out, WholeChunks
<1>5. Paired(Mixed.chunks)
  BY <1>2, <1>3, MixedAligned
<1>6. n - 1 \in 0 .. Len(Mixed.chunks) /\ l \in 0 .. Len(Mixed.chunks)
  BY <1>4
<1>7. Record(written) /\ Stream(passed)
  BY <1>1
<1>8. /\ WholeChunks(written, Times) /\ WholeChunks(passed, Times)
      /\ Paired(written) /\ Paired(passed)
  <2> HIDE DEF l
  <2> QED BY <1>4, <1>5, <1>6, WholePrefix, PairedPrefix
<1>9. Paired(recorded') /\ Paired(streamed')
  <2> HIDE DEF written, passed
  <2> QED BY <1>3, <1>7, <1>8, WrittenPaired
<1> QED BY <1>2, <1>3, <1>9 DEF Aligned

\* The other actions leave what waits, or disturb it, or are the last.
LEMMA RequestAligned ==
  ASSUME Aligned, recorded' = recorded, streamed' = streamed,
         disturbed' = TRUE \/ disturbed' = disturbed,
         ~disturbed' => /\ lossy' = lossy /\ (paused' = paused \/ paused' = FALSE)
                        /\ \/ sources' = "after"
                           \/ /\ sources # "after" /\ clock' = clock /\ frames' = frames
                              /\ buffer' = buffer
                           \/ /\ sources' = sources /\ clock' = clock /\ frames' = frames
                              /\ buffer' = buffer
  PROVE  Aligned'
<1> SUFFICES ASSUME ~disturbed'
             PROVE  Aligned'
  BY DEF Aligned
<1>1. lossy = {} /\ ~paused /\ Paired(recorded) /\ Paired(streamed) /\ ~disturbed
  BY DEF Aligned
<1>2. CASE sources' = "after"
  BY <1>1, <1>2 DEF Aligned, Paired
<1>3. CASE /\ sources' # "after" => sources # "after"
           /\ clock' = clock /\ frames' = frames /\ buffer' = buffer
  <2>1. Base("System")' = Base("System") /\ Base("Microphone")' = Base("Microphone")
    BY <1>3 DEF Base, PushedTo, From
  <2> QED BY <2>1, <1>1, <1>3 DEF Aligned, Paired
<1> QED BY <1>2, <1>3

\* Every step leaves the buffers aligned, or something was disturbed.
LEMMA AlignedStep ==
  ASSUME Typed, ShiftInv, Aligned, [Next]_vars
  PROVE  Aligned'
<1> USE DEF nativeVars, mixerVars, sinkVars, pastVars
<1>1. disturbed \in BOOLEAN
  BY DEF Typed, ControlTyped
<1>2. ASSUME NEW n \in SystemSizes, CaptureSystem(n)
      PROVE  Aligned'
  <2>1. n \in Nat /\ Delivers("System", n) /\ "System" \in Kinds
    BY <1>2, SystemDelivers DEF Typed, Kinds
  <2> QED BY <2>1, DeliversAligned
<1>3. ASSUME NEW n \in NativeSizes, CaptureMicrophone(n)
      PROVE  Aligned'
  <2>1. PICK count \in Nat : Delivers("Microphone", count)
    BY <1>3, MicrophoneDelivers DEF Typed
  <2>2. "Microphone" \in Kinds
    BY DEF Kinds
  <2> QED BY <2>1, <2>2, DeliversAligned
<1>4. ASSUME NEW k \in Kinds, Lose(k)
      PROVE  Aligned'
  BY <1>4 DEF Lose, Aligned
<1>5. CASE ProcessAudio
  BY <1>5, ProcessAudioAligned
<1>6. CASE WriteFails
  BY <1>6, WriteFailsAligned
<1>7. CASE StartSources
  BY <1>7, RequestAligned DEF StartSources
<1>8. CASE OpenRecorder
  BY <1>8, RequestAligned DEF OpenRecorder
<1>9. CASE StartLink
  BY <1>9, RequestAligned DEF StartLink
<1>10. CASE Pause
  BY <1>10 DEF Pause, PauseMixer, Aligned
<1>11. CASE Resume
  BY <1>11, RequestAligned DEF Resume
<1>12. CASE End
  BY <1>12 DEF End, PauseMixer, Aligned
<1>13. CASE FinishRecorder
  BY <1>13, RequestAligned DEF FinishRecorder
<1>14. CASE StopSources
  BY <1>14, RequestAligned DEF StopSources
<1>15. CASE UNCHANGED vars
  BY <1>15, RequestAligned DEF vars
<1> QED BY <1>2, <1>3, <1>4, <1>5, <1>6, <1>7, <1>8, <1>9, <1>10, <1>11, <1>12, <1>13, <1>14,
           <1>15 DEF Next, Native, Worker

\* They begin aligned.
LEMMA AlignedInit ==
  ASSUME Init
  PROVE  Aligned
<1>1. /\ lossy = {} /\ ~paused /\ recorded = <<>> /\ streamed = <<>>
      /\ frames = Silent /\ buffer = Silent
  BY DEF Init
<1>2. Paired(<<>>)
  <2>1. 1 .. Len(<<>>) = {}
    BY EmptySeq
  <2> QED BY <2>1 DEF Paired
<1>3. ASSUME NEW k \in Kinds
      PROVE  Base(k) = 0
  <2>1. Len(frames[k]) = 0 /\ Len(buffer[k]) = 0 /\ clock[k] = 0
    BY <1>1, SilentIsTyped DEF Init
  <2> QED BY <2>1 DEF Base, PushedTo, From
<1>4. Base("System") = Base("Microphone")
  BY <1>3 DEF Kinds
<1> QED BY <1>1, <1>2, <1>4 DEF Aligned

\* Chunks whose frames pair one time are in step.
LEMMA PairedIsInStep ==
  ASSUME Typed, Aligned
  PROVE  InStep
<1> SUFFICES ASSUME ~disturbed, NEW chunk \in ToSet(recorded) \cup ToSet(streamed),
                    NEW frame \in ToSet(chunk)
             PROVE  frame[1] = frame[2]
  BY DEF InStep, AllFrames
<1>1. ASSUME NEW chunks, WholeChunks(chunks, Times), Paired(chunks), chunk \in ToSet(chunks)
      PROVE  frame[1] = frame[2]
  <2>1. PICK c \in 1 .. Len(chunks) : chunk = chunks[c]
    BY <1>1, ElementsOfSeq DEF WholeChunks
  <2>2. chunk \in ChunkOf(Times)
    BY <2>1, <1>1, ElementOfSeq DEF WholeChunks
  <2>3. PICK i \in 1 .. Len(chunk) : frame = chunk[i]
    BY <2>2, ElementsOfSeq DEF ChunkOf
  <2> QED BY <2>1, <2>3, <1>1 DEF Paired
<1>2. /\ WholeChunks(recorded, Times) /\ WholeChunks(streamed, Times)
      /\ Paired(recorded) /\ Paired(streamed)
  BY DEF Typed, ChunksTyped, Aligned
<1> QED BY <1>1, <1>2

\* While no audio is lost, dropped or cleared every frame of the recording and
\* of the stream pairs samples captured at the very same time, whatever the
\* sizes of the buffers, the rate of the microphone and the order of arrivals.
THEOREM ChannelsInStep == Spec => []InStep
<1>1. Init => Aligned
  BY AlignedInit
<1>2. Aligned /\ Typed /\ ShiftInv /\ [Next]_vars => Aligned'
  BY AlignedStep
<1>3. Typed /\ Aligned => InStep
  BY PairedIsInStep
<1> QED BY <1>1, <1>2, <1>3, TypedAlways, ShiftInvAlways, PTL DEF Spec
=============================================================================
