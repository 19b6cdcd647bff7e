-------------------------- MODULE Supervisor_proofs -------------------------
(***************************************************************************)
(* Theorems about the supervisor, for every set of providers, every cap,   *)
(* window and backoff.                                                     *)
(***************************************************************************)
EXTENDS Supervisor, SequenceTheorems, TLAPS

-----------------------------------------------------------------------------
(* The inductive invariant *)

\* The history is that of a clock: it is ordered and lies in the past.
HistoryInOrder ==
  /\ \A i \in DOMAIN attempts : attempts[i] <= now
  /\ \A i, j \in DOMAIN attempts : i <= j => attempts[i] <= attempts[j]

\* The counter counts the last attempts, from the one that began the window.
CountsThisWindow ==
  /\ respawnCount <= Len(attempts)
  /\ firstAt = 0 <=> respawnCount = 0
  /\ respawnCount = 0 => Len(attempts) = 0
  /\ respawnCount > 0 => /\ attempts[Len(attempts) - respawnCount + 1] = firstAt
                         /\ attempts[Len(attempts)] <= firstAt + Window

\* Before the window began, the last stretch as long as it held fewer than Cap.
QuietBefore ==
  Len(attempts) - respawnCount >= Cap =>
    attempts[Len(attempts) - respawnCount - Cap + 1] + Window < firstAt

\* Where the supervisor is stopped it has no child, no settings and no history.
StoppedMeansEmpty ==
  main.pc \in {"launch", "backoff", "sleep", "gone"} =>
    child = 0 /\ config = NoProvider /\ respawnCount = 0

\* A save under way is of some provider.
SavesSomething ==
  main.pc \in {"select", "stop", "backoff", "sleep"} => main.provider \in Providers

Counting == HistoryInOrder /\ CountsThisWindow /\ QuietBefore /\ StormBounded

IInv == TypeOK /\ OneProcess /\ StoppedMeansEmpty /\ SavesSomething /\ Counting

-----------------------------------------------------------------------------
(* The counter and its window *)

\* One more attempt while the breaker has not tripped: the counter of spawn() and
\* endpoint() keeps the history within the bound.
LEMMA CountKeepsCounting ==
  ASSUME TypeOK, Counting, respawnCount <= Cap, Count, now' = now
  PROVE  /\ Counting'
         /\ respawnCount' \in 0 .. Cap + 1
         /\ firstAt' \in Times /\ nextAt' \in Times
         /\ attempts' \in Seq(1 .. MaxTime)
<1> DEFINE n == Len(attempts)
<1>1. /\ Cap \in Nat /\ Cap > 0 /\ Window \in Nat /\ Backoff \in Nat /\ MaxTime \in Nat
      /\ now \in 1 .. MaxTime /\ firstAt \in Times
      /\ respawnCount \in Nat
      /\ attempts \in Seq(1 .. MaxTime) /\ n \in Nat
  BY LimitsAssumption, LenProperties DEF TypeOK, Times
<1>2. /\ firstAt \in Nat
      /\ DOMAIN attempts = 1 .. n
      /\ \A i \in 1 .. n : attempts[i] \in Nat
  BY <1>1, ElementOfSeq, LenProperties DEF Times
<1>3. attempts' = Append(attempts, now)
  BY DEF Count
<1>4. /\ attempts' \in Seq(1 .. MaxTime)
      /\ Len(attempts') = n + 1
      /\ \A i \in 1 .. n : attempts'[i] = attempts[i]
      /\ attempts'[n + 1] = now
      /\ DOMAIN attempts' = 1 .. n + 1
  BY <1>1, <1>3, AppendProperties, LenProperties
<1>5. respawnCount' \in 0 .. Cap + 1 /\ firstAt' \in Times /\ nextAt' \in Times
  BY <1>1, <1>2 DEF Count, InWindow, Times
<1>6. /\ \A i \in 1 .. n : attempts[i] <= now
      /\ \A i, j \in 1 .. n : i <= j => attempts[i] <= attempts[j]
      /\ CountsThisWindow /\ QuietBefore /\ StormBounded
  BY <1>2 DEF Counting, HistoryInOrder
<1> HIDE DEF n
<1>7. HistoryInOrder'
  <2>1. ASSUME NEW i \in 1 .. n + 1
        PROVE  attempts'[i] <= now
    <3>1. i \in 1 .. n \/ i = n + 1
      BY <1>1
    <3> QED BY <1>1, <1>4, <1>6, <3>1
  <2>2. ASSUME NEW i \in 1 .. n + 1, NEW j \in 1 .. n + 1, i <= j
        PROVE  attempts'[i] <= attempts'[j]
    <3>1. (i \in 1 .. n /\ j \in 1 .. n) \/ j = n + 1
      BY <1>1, <2>2
    <3> QED BY <1>1, <1>4, <1>6, <2>1, <2>2, <3>1
  <2> QED BY <1>4, <2>1, <2>2 DEF HistoryInOrder
<1>8. CASE InWindow
  <2>1. /\ respawnCount' = respawnCount + 1 /\ firstAt' = firstAt
        /\ firstAt > 0 /\ now <= firstAt + Window
        /\ respawnCount > 0 /\ respawnCount <= n
    BY <1>1, <1>2, <1>6, <1>8 DEF Count, InWindow, CountsThisWindow, n
  <2>2. attempts[n - respawnCount + 1] = firstAt
    BY <1>6, <2>1 DEF CountsThisWindow, n
  <2>3. CountsThisWindow'
    <3>1. n + 1 - respawnCount' + 1 = n - respawnCount + 1 /\ n - respawnCount + 1 \in 1 .. n
      BY <1>1, <2>1
    <3> QED BY <1>1, <1>4, <2>1, <2>2, <3>1 DEF CountsThisWindow
  <2>4. QuietBefore'
    <3> SUFFICES ASSUME n - respawnCount >= Cap
                 PROVE  attempts[n - respawnCount - Cap + 1] + Window < firstAt
      <4>1. n - respawnCount - Cap + 1 \in 1 .. n \/ n - respawnCount < Cap
        BY <1>1, <2>1
      <4>2. n + 1 - respawnCount' = n - respawnCount
        BY <1>1, <2>1
      <4> QED BY <1>1, <1>4, <2>1, <4>1, <4>2 DEF QuietBefore
    <3> QED BY <1>6 DEF QuietBefore, n
  <2>5. StormBounded'
    <3> SUFFICES ASSUME NEW i \in 1 .. n + 1 - 2 * Cap
                 PROVE  attempts'[i + 2 * Cap] - attempts'[i] > Window
      BY <1>1, <1>4 DEF StormBounded
    <3>1. CASE i + 2 * Cap <= n
      <4>1. i \in 1 .. n - 2 * Cap /\ i \in 1 .. n /\ i + 2 * Cap \in 1 .. n
        BY <1>1, <3>1
      <4> QED BY <1>4, <1>6, <4>1 DEF StormBounded, n
    <3>2. CASE i + 2 * Cap = n + 1
      <4> DEFINE q == n - respawnCount - Cap + 1
      <4>1. n - respawnCount >= Cap /\ q \in 1 .. n /\ i \in 1 .. n /\ i <= q
        BY <1>1, <2>1, <3>2
      <4>2. attempts[q] + Window < firstAt
        BY <1>6, <4>1 DEF QuietBefore, n
      <4>3. attempts[i] <= attempts[q] /\ firstAt <= now
        <5>1. n - respawnCount + 1 \in 1 .. n
          BY <1>1, <2>1
        <5> QED BY <1>6, <2>2, <4>1, <5>1
      <4> HIDE DEF q
      <4>4. attempts[i] \in Nat /\ attempts[q] \in Nat
        BY <1>2, <4>1
      <4>5. now - attempts[i] > Window
        BY <1>1, <1>2, <4>2, <4>3, <4>4
      <4>6. attempts'[i] = attempts[i] /\ attempts'[i + 2 * Cap] = now
        BY <1>4, <3>2, <4>1
      <4> QED BY <4>5, <4>6
    <3> QED BY <1>1, <3>1, <3>2
  <2> QED BY <1>4, <1>5, <1>7, <2>3, <2>4, <2>5 DEF Counting
<1>9. CASE ~ InWindow
  <2>1. respawnCount' = 1 /\ firstAt' = now /\ respawnCount <= n
    BY <1>6, <1>9 DEF Count, CountsThisWindow, n
  <2>2. n > 0 => /\ n - respawnCount + 1 \in 1 .. n
                 /\ attempts[n - respawnCount + 1] + Window < now
    <3> SUFFICES ASSUME n > 0
                 PROVE  /\ n - respawnCount + 1 \in 1 .. n
                        /\ attempts[n - respawnCount + 1] + Window < now
      OBVIOUS
    <3>1. respawnCount > 0 /\ firstAt > 0 /\ attempts[n - respawnCount + 1] = firstAt
      BY <1>1, <1>2, <1>6 DEF CountsThisWindow, n
    <3> QED BY <1>1, <1>2, <1>9, <2>1, <3>1 DEF InWindow
  <2>3. CountsThisWindow'
    BY <1>1, <1>4, <2>1 DEF CountsThisWindow
  <2>4. \A i \in 1 .. n : i <= n - respawnCount + 1 => attempts[i] + Window < now
    <3> SUFFICES ASSUME NEW i \in 1 .. n, i <= n - respawnCount + 1
                 PROVE  attempts[i] + Window < now
      OBVIOUS
    <3>1. /\ n - respawnCount + 1 \in 1 .. n
          /\ attempts[n - respawnCount + 1] + Window < now
      BY <1>1, <2>2
    <3>2. attempts[i] <= attempts[n - respawnCount + 1]
      BY <1>6, <3>1
    <3> QED BY <1>1, <1>2, <3>1, <3>2
  <2>5. QuietBefore'
    <3> SUFFICES ASSUME n >= Cap
                 PROVE  attempts'[n - Cap + 1] + Window < now
      <4>1. n + 1 - respawnCount' = n
        BY <1>1, <2>1
      <4> QED BY <1>1, <1>4, <2>1, <4>1 DEF QuietBefore
    <3>1. n - Cap + 1 \in 1 .. n /\ n - Cap + 1 <= n - respawnCount + 1
      BY <1>1
    <3> QED BY <1>4, <2>4, <3>1
  <2>6. StormBounded'
    <3> SUFFICES ASSUME NEW i \in 1 .. n + 1 - 2 * Cap
                 PROVE  attempts'[i + 2 * Cap] - attempts'[i] > Window
      BY <1>1, <1>4 DEF StormBounded
    <3>1. CASE i + 2 * Cap <= n
      <4>1. i \in 1 .. n - 2 * Cap /\ i \in 1 .. n /\ i + 2 * Cap \in 1 .. n
        BY <1>1, <3>1
      <4> QED BY <1>4, <1>6, <4>1 DEF StormBounded, n
    <3>2. CASE i + 2 * Cap = n + 1
      <4>1. i \in 1 .. n /\ i <= n - respawnCount + 1
        BY <1>1, <3>2
      <4>2. attempts[i] + Window < now
        BY <2>4, <4>1
      <4>3. now - attempts[i] > Window
        BY <1>1, <1>2, <4>1, <4>2
      <4>4. attempts'[i] = attempts[i] /\ attempts'[i + 2 * Cap] = now
        BY <1>4, <3>2, <4>1
      <4> QED BY <4>3, <4>4
    <3> QED BY <1>1, <3>1, <3>2
  <2> QED BY <1>4, <1>5, <1>7, <2>3, <2>5, <2>6 DEF Counting
<1> QED BY <1>8, <1>9

\* A tripped breaker has seen a storm: what the counter counted is one.
LEMMA StormSeen ==
  ASSUME TypeOK, Counting
  PROVE  TripsOnlyInStorm
<1> SUFFICES ASSUME respawnCount > Cap
             PROVE  /\ Len(attempts) > Cap
                    /\ attempts[Len(attempts)] - attempts[Len(attempts) - Cap] <= Window
  BY DEF TripsOnlyInStorm, Tripped
<1>1. Cap \in Nat /\ Window \in Nat /\ respawnCount = Cap + 1 /\ Len(attempts) \in Nat
  BY LimitsAssumption, LenProperties DEF TypeOK
<1>2. /\ Len(attempts) >= Cap + 1
      /\ attempts[Len(attempts) - respawnCount + 1] = firstAt
      /\ attempts[Len(attempts)] <= firstAt + Window
  BY <1>1 DEF Counting, CountsThisWindow
<1>3. Len(attempts) - respawnCount + 1 = Len(attempts) - Cap
  BY <1>1
<1>4. firstAt \in Int /\ attempts[Len(attempts)] \in Int
  BY <1>1, <1>2, ElementOfSeq, LimitsAssumption DEF TypeOK, Times
<1> QED BY <1>1, <1>2, <1>3, <1>4

-----------------------------------------------------------------------------
(* The children *)

\* What the lock protects: the types of the child and the one process.
ChildOK ==
  /\ runs \in Seq(Providers) /\ Len(runs) <= MaxProcesses
  /\ alive \subseteq DOMAIN runs
  /\ child \in OrNone(DOMAIN runs)
  /\ endpoint \in OrNone(DOMAIN runs)
  /\ config \in Providers \cup {NoProvider}
  /\ OneProcess

\* A start that gets ready leaves one process, if `previous` was the only one.
LEMMA StartKeepsChild ==
  ASSUME ChildOK, NEW previous, alive \subseteq {previous}, NEW provider \in Providers,
         StartSucceeds(previous, provider)
  PROVE  ChildOK' /\ DOMAIN runs \subseteq DOMAIN runs' /\ Len(runs) + 1 \in DOMAIN runs'
<1>1. runs \in Seq(Providers) /\ Len(runs) \in Nat
  BY LenProperties DEF ChildOK
<1>2. /\ runs' \in Seq(Providers) /\ Len(runs') = Len(runs) + 1
      /\ DOMAIN runs = 1 .. Len(runs) /\ DOMAIN runs' = 1 .. Len(runs) + 1
  BY <1>1, AppendProperties, LenProperties DEF StartSucceeds
<1>3. alive' = {Len(runs) + 1} /\ child' = Len(runs) + 1 /\ endpoint' = Len(runs) + 1
  BY DEF StartSucceeds
<1> QED BY <1>1, <1>2, <1>3 DEF ChildOK, OneProcess, OrNone, StartSucceeds

\* A start that fails, after an exited child was reaped or with none to reap.
LEMMA FailureKeepsChild ==
  ASSUME ChildOK, NEW previous \in {0, child}, alive \subseteq {previous},
         StartFails(previous)
  PROVE  ChildOK' /\ runs' = runs
BY DEF ChildOK, OneProcess, OrNone, StartFails

\* shutdown() leaves nothing.
LEMMA ShutdownKeepsChild ==
  ASSUME ChildOK, Shutdown
  PROVE  /\ ChildOK' /\ runs' = runs
         /\ child' = 0 /\ config' = NoProvider /\ respawnCount' = 0
BY DEF ChildOK, OneProcess, OrNone, Shutdown

\* shutdown() empties the history.
LEMMA ShutdownKeepsCounting ==
  ASSUME Shutdown, now' = now
  PROVE  /\ Counting'
         /\ respawnCount' \in 0 .. Cap + 1
         /\ firstAt' \in Times /\ nextAt' \in Times
         /\ attempts' \in Seq(1 .. MaxTime)
<1>1. /\ attempts' = << >> /\ respawnCount' = 0 /\ firstAt' = 0 /\ nextAt' = 0
      /\ Cap \in Nat \ {0} /\ MaxTime \in Nat /\ Backoff \in Nat
  BY LimitsAssumption DEF Shutdown
<1>2. /\ attempts' \in Seq(1 .. MaxTime) /\ Len(attempts') = 0
      /\ DOMAIN attempts' = {}
  BY <1>1, EmptySeq, LenProperties
<1>3. HistoryInOrder' /\ CountsThisWindow'
  BY <1>1, <1>2 DEF HistoryInOrder, CountsThisWindow
<1>4. QuietBefore' /\ StormBounded'
  BY <1>1, <1>2 DEF QuietBefore, StormBounded
<1> QED BY <1>1, <1>2, <1>3, <1>4 DEF Counting, Times

\* One call of endpoint(), whatever it answers.  With no settings it starts nothing.
LEMMA AskKeepsIInv ==
  ASSUME IInv, NEW answer, Ask(answer), UNCHANGED <<settingsVars, mainVars, now>>
  PROVE  /\ ChildOK' /\ Counting' /\ StoppedMeansEmpty'
         /\ respawnCount' \in 0 .. Cap + 1
         /\ firstAt' \in Times /\ nextAt' \in Times
         /\ attempts' \in Seq(1 .. MaxTime)
         /\ DOMAIN runs \subseteq DOMAIN runs'
         /\ answer \in OrNone(DOMAIN runs')
<1>1. ChildOK /\ TypeOK /\ Counting /\ StoppedMeansEmpty
  BY DEF IInv, TypeOK, ChildOK
<1>2. main' = main /\ now' = now
  BY DEF mainVars
<1>3. alive \subseteq {Reaped} /\ Reaped \in {0, child}
  BY <1>1 DEF ChildOK, OneProcess, Reaped
<1>4. CASE UNCHANGED <<childVars, counterVars>> /\ answer = endpoint
  <2>1. UNCHANGED <<runs, alive, child, endpoint, config, respawnCount, firstAt, nextAt, attempts>>
    BY <1>4 DEF childVars, counterVars
  <2>2. ChildOK' /\ StoppedMeansEmpty'
    BY <1>1, <1>2, <2>1 DEF ChildOK, OneProcess, StoppedMeansEmpty
  <2>3. Counting'
    BY <1>1, <1>2, <2>1
       DEF Counting, HistoryInOrder, CountsThisWindow, QuietBefore, StormBounded
  <2> QED BY <1>1, <1>4, <2>1, <2>2, <2>3 DEF TypeOK, ChildOK
<1>5. CASE StartFails(Reaped) /\ UNCHANGED counterVars /\ answer = 0
  <2>1. UNCHANGED <<respawnCount, firstAt, nextAt, attempts>>
    BY <1>5 DEF counterVars
  <2>2. ChildOK' /\ runs' = runs
    BY <1>1, <1>3, <1>5, FailureKeepsChild
  <2>3. StoppedMeansEmpty'
    BY <1>1, <1>2, <1>3, <1>5, <2>1 DEF StoppedMeansEmpty, StartFails
  <2>4. Counting'
    BY <1>1, <1>2, <2>1
       DEF Counting, HistoryInOrder, CountsThisWindow, QuietBefore, StormBounded
  <2> QED BY <1>1, <1>5, <2>1, <2>2, <2>3, <2>4 DEF TypeOK, OrNone
<1>6. CASE /\ ~ Tripped /\ config # NoProvider /\ Count
           /\ \/ answer = Len(runs) + 1 /\ StartSucceeds(Reaped, config)
              \/ answer = 0 /\ StartFails(Reaped)
  <2>1. /\ Counting' /\ respawnCount' \in 0 .. Cap + 1
        /\ firstAt' \in Times /\ nextAt' \in Times
        /\ attempts' \in Seq(1 .. MaxTime)
    <3>1. respawnCount <= Cap
      BY <1>1, <1>6, LimitsAssumption DEF Tripped, TypeOK
    <3> QED BY <1>1, <1>2, <1>6, <3>1, CountKeepsCounting
  <2>2. StoppedMeansEmpty'
    BY <1>1, <1>2, <1>6 DEF StoppedMeansEmpty
  <2>3. /\ ChildOK' /\ DOMAIN runs \subseteq DOMAIN runs'
        /\ answer \in OrNone(DOMAIN runs')
    <3>1. CASE answer = Len(runs) + 1 /\ StartSucceeds(Reaped, config)
      <4>1. config \in Providers
        BY <1>1, <1>6 DEF ChildOK
      <4> QED BY <1>1, <1>3, <3>1, <4>1, StartKeepsChild DEF OrNone
    <3>2. CASE answer = 0 /\ StartFails(Reaped)
      BY <1>1, <1>3, <3>2, FailureKeepsChild DEF OrNone
    <3> QED BY <1>6, <3>1, <3>2
  <2> QED BY <2>1, <2>2, <2>3
<1> QED BY <1>4, <1>5, <1>6 DEF Ask

-----------------------------------------------------------------------------
(* The invariant *)

\* TypeOK in three parts: the children's, the counter's, and the others'.
LEMMA TypeParts ==
  TypeOK /\ OneProcess <=>
    /\ ChildOK
    /\ respawnCount \in 0 .. Cap + 1
    /\ firstAt \in Times /\ nextAt \in Times
    /\ attempts \in Seq(1 .. MaxTime)
    /\ selected \in Providers
    /\ keys \subseteq Providers
    /\ main \in [pc : Places, provider : Providers \cup {NoProvider}, wake : Times]
    /\ saves \in 0 .. MaxSaves
    /\ meeting \in OrNone(DOMAIN runs)
    /\ now \in 1 .. MaxTime
BY DEF TypeOK, ChildOK

\* Before launch there is no child and no history.
LEMMA InitIInv == Init => IInv
<1> SUFFICES ASSUME Init PROVE IInv
  OBVIOUS
<1>1. /\ Cap \in Nat \ {0} /\ MaxTime \in Nat \ {0} /\ Backoff \in Nat
      /\ MaxSaves \in Nat /\ MaxProcesses \in Nat
  BY LimitsAssumption
<1>2. /\ runs = << >> /\ runs \in Seq(Providers) /\ Len(runs) = 0 /\ DOMAIN runs = {}
      /\ attempts = << >> /\ attempts \in Seq(1 .. MaxTime)
      /\ Len(attempts) = 0 /\ DOMAIN attempts = {}
  BY EmptySeq, LenProperties DEF Init
<1>3. ChildOK
  BY <1>1, <1>2 DEF Init, ChildOK, OneProcess, OrNone
<1>4. TypeOK /\ OneProcess
  BY <1>1, <1>2, <1>3, TypeParts DEF Init, At, Places, Times, OrNone
<1>5. HistoryInOrder /\ CountsThisWindow /\ QuietBefore /\ StormBounded
  BY <1>1, <1>2 DEF Init, HistoryInOrder, CountsThisWindow, QuietBefore, StormBounded
<1>6. StoppedMeansEmpty /\ SavesSomething
  BY DEF Init, At, StoppedMeansEmpty, SavesSomething
<1> QED BY <1>4, <1>5, <1>6 DEF IInv, Counting

\* The steps that leave the supervisor alone.
LEMMA SettingsKeepIInv ==
  ASSUME IInv,
         \/ LaunchWithout \/ Select \/ SelectFails \/ ReadBackoff
         \/ \E provider \in Providers : Save(provider)
  PROVE  IInv'
<1>1. ChildOK /\ TypeOK /\ OneProcess /\ Counting /\ StoppedMeansEmpty /\ SavesSomething
  BY DEF IInv, TypeOK, ChildOK
<1>2. UNCHANGED <<childVars, counterVars, meeting, now>>
  BY DEF LaunchWithout, Select, SelectFails, ReadBackoff, Save
<1>3. UNCHANGED <<runs, alive, child, endpoint, config, respawnCount, firstAt, nextAt, attempts,
                  meeting, now>>
  BY <1>2 DEF childVars, counterVars
<1>4. ChildOK' /\ Counting'
  BY <1>1, <1>3 DEF ChildOK, OneProcess, Counting, HistoryInOrder, CountsThisWindow,
     QuietBefore, StormBounded
<1>5. ASSUME NEW place \in Places, NEW provider \in Providers \cup {NoProvider},
             NEW wake \in Times
      PROVE  [pc |-> place, provider |-> provider, wake |-> wake] \in
               [pc : Places, provider : Providers \cup {NoProvider}, wake : Times]
  OBVIOUS
<1>6. 0 \in Times /\ nextAt \in Times /\ MaxSaves \in Nat
  BY <1>1, LimitsAssumption DEF TypeOK, Times
<1>7. At("idle") \in [pc : Places, provider : Providers \cup {NoProvider}, wake : Times]
      /\ At("idle").pc = "idle"
  BY <1>5, <1>6 DEF At, Places
<1> DEFINE Rest == /\ selected' \in Providers /\ keys' \subseteq Providers
                   /\ saves' \in 0 .. MaxSaves
                   /\ main' \in [pc : Places, provider : Providers \cup {NoProvider}, wake : Times]
                   /\ main'.pc \in {"idle", "select", "stop"}
                        \/ (main.pc = "backoff" /\ main'.pc = "sleep")
                   /\ SavesSomething'
<1>8. Rest
  <2>1. CASE LaunchWithout
    BY <1>1, <1>7, <2>1 DEF TypeOK, SavesSomething, LaunchWithout, settingsVars
  <2>2. CASE Select
    <3>1. main.provider \in Providers \cup {NoProvider} /\ main.wake \in Times
      BY <1>1 DEF TypeOK
    <3>2. selected' \in Providers
      BY <1>1, <2>2 DEF Select, SavesSomething
    <3> QED BY <1>1, <1>7, <2>2, <3>1, <3>2 DEF TypeOK, SavesSomething, Select, Places
  <2>3. CASE SelectFails
    <3>1. main.provider \in Providers
      BY <1>1, <2>3 DEF SavesSomething, SelectFails
    <3> QED BY <1>1, <1>7, <2>3, <3>1 DEF TypeOK, SavesSomething, SelectFails
  <2>4. CASE ReadBackoff
    BY <1>1, <1>6, <2>4 DEF TypeOK, SavesSomething, ReadBackoff, Places, settingsVars
  <2>5. ASSUME NEW provider \in Providers, Save(provider)
        PROVE  Rest
    <3>1. saves' \in 0 .. MaxSaves /\ selected' = selected /\ keys' \subseteq Providers
      BY <1>1, <1>6, <2>5 DEF TypeOK, Save
    <3>2. [At("select") EXCEPT !.provider = provider] =
            [pc |-> "select", provider |-> provider, wake |-> 0]
      BY DEF At
    <3>3. /\ main' \in [pc : Places, provider : Providers \cup {NoProvider}, wake : Times]
          /\ main'.pc \in {"idle", "select"} /\ SavesSomething'
      BY <1>5, <1>6, <1>7, <2>5, <3>2 DEF Save, Places, SavesSomething
    <3> QED BY <1>1, <3>1, <3>3 DEF TypeOK
  <2> QED BY <2>1, <2>2, <2>3, <2>4, <2>5
<1>9. StoppedMeansEmpty'
  BY <1>1, <1>3, <1>8 DEF StoppedMeansEmpty
<1> QED BY <1>1, <1>3, <1>4, <1>8, <1>9 DEF IInv, TypeOK, ChildOK

\* The steps that start or stop the child from the main thread.
LEMMA MainKeepsIInv ==
  ASSUME IInv, Launch \/ LaunchFails \/ Stop \/ Spawn \/ Close
  PROVE  IInv'
<1>1. ChildOK /\ TypeOK /\ OneProcess /\ Counting /\ StoppedMeansEmpty /\ SavesSomething
  BY DEF IInv, TypeOK, ChildOK
<1>2. 0 \in Times /\ Cap \in Nat
  BY LimitsAssumption DEF Times
<1>3. At("idle") \in [pc : Places, provider : Providers \cup {NoProvider}, wake : Times]
      /\ At("gone") \in [pc : Places, provider : Providers \cup {NoProvider}, wake : Times]
      /\ At("idle").pc = "idle" /\ At("gone").pc = "gone"
  BY <1>2 DEF At, Places
<1>4. CASE LaunchFails \/ Stop \/ Close
  <2>1. Shutdown /\ UNCHANGED <<settingsVars, saves, meeting, now>>
    BY <1>4 DEF LaunchFails, Stop, Close
  <2>2. /\ ChildOK' /\ runs' = runs /\ Counting' /\ attempts' \in Seq(1 .. MaxTime)
        /\ child' = 0 /\ config' = NoProvider /\ respawnCount' = 0
        /\ respawnCount' \in 0 .. Cap + 1 /\ firstAt' \in Times /\ nextAt' \in Times
    BY <1>1, <2>1, ShutdownKeepsChild, ShutdownKeepsCounting
  <2>3. main' \in [pc : Places, provider : Providers \cup {NoProvider}, wake : Times]
        /\ SavesSomething'
    BY <1>1, <1>3, <1>4 DEF TypeOK, SavesSomething, LaunchFails, Stop, Close, Places
  <2>4. StoppedMeansEmpty'
    BY <2>2 DEF StoppedMeansEmpty
  <2> QED BY <1>1, <2>1, <2>2, <2>3, <2>4 DEF IInv, TypeOK, ChildOK, settingsVars
<1>5. CASE Launch \/ Spawn
  <2>1. /\ child = 0 /\ respawnCount <= Cap /\ Count
        /\ main' = At("idle") /\ UNCHANGED <<settingsVars, saves, meeting, now>>
    BY <1>1, <1>2, <1>5 DEF StoppedMeansEmpty, Launch, Spawn
  <2>2. alive \subseteq {0}
    BY <1>1, <2>1 DEF OneProcess
  <2>3. ChildOK' /\ DOMAIN runs \subseteq DOMAIN runs'
    <3>1. PICK provider \in Providers : StartSucceeds(0, provider) \/ StartFails(0)
      BY <1>1, <1>5, <2>1 DEF TypeOK, SavesSomething, Launch, Spawn
    <3>2. CASE StartSucceeds(0, provider)
      BY <1>1, <2>2, <3>2, StartKeepsChild
    <3>3. CASE StartFails(0)
      BY <1>1, <2>2, <3>3, FailureKeepsChild
    <3> QED BY <3>1, <3>2, <3>3
  <2>4. /\ Counting' /\ attempts' \in Seq(1 .. MaxTime)
        /\ respawnCount' \in 0 .. Cap + 1 /\ firstAt' \in Times /\ nextAt' \in Times
    BY <1>1, <2>1, CountKeepsCounting
  <2>5. StoppedMeansEmpty' /\ SavesSomething'
    BY <1>3, <2>1 DEF StoppedMeansEmpty, SavesSomething
  <2> QED BY <1>1, <1>3, <2>1, <2>3, <2>4, <2>5 DEF IInv, TypeOK, ChildOK, settingsVars, OrNone
<1> QED BY <1>4, <1>5

\* The steps of a meeting: each is a call of endpoint() or the meeting's end.
LEMMA MeetingKeepsIInv ==
  ASSUME IInv, Probe \/ StartMeeting \/ Poll \/ StopMeeting
  PROVE  IInv'
<1>1. TypeOK /\ OneProcess /\ Counting /\ StoppedMeansEmpty /\ SavesSomething
  BY DEF IInv
<1>2. UNCHANGED <<selected, keys, main, saves, now>>
  BY DEF Probe, StartMeeting, Poll, StopMeeting, settingsVars, mainVars
<1>3. SavesSomething'
  BY <1>1, <1>2 DEF SavesSomething
<1>4. CASE StopMeeting
  <2>1. UNCHANGED <<runs, alive, child, endpoint, config, respawnCount, firstAt, nextAt, attempts>>
        /\ meeting' = 0
    BY <1>4 DEF StopMeeting, childVars, counterVars
  <2>2. TypeOK' /\ OneProcess'
    BY <1>1, <1>2, <2>1 DEF TypeOK, OneProcess, OrNone
  <2>3. Counting' /\ StoppedMeansEmpty'
    BY <1>1, <1>2, <2>1 DEF StoppedMeansEmpty, Counting, HistoryInOrder, CountsThisWindow,
       QuietBefore, StormBounded
  <2> QED BY <1>3, <2>2, <2>3 DEF IInv
<1>5. CASE Probe \/ StartMeeting \/ Poll
  <2>1. PICK answer : Ask(answer) /\ meeting' \in {meeting, answer}
    BY <1>5 DEF Probe, StartMeeting, Poll
  <2>2. /\ ChildOK' /\ Counting' /\ StoppedMeansEmpty'
        /\ respawnCount' \in 0 .. Cap + 1
        /\ firstAt' \in Times /\ nextAt' \in Times
        /\ attempts' \in Seq(1 .. MaxTime)
        /\ DOMAIN runs \subseteq DOMAIN runs'
        /\ answer \in OrNone(DOMAIN runs')
    BY <1>2, <2>1, AskKeepsIInv DEF settingsVars, mainVars
  <2>3. meeting' \in OrNone(DOMAIN runs')
    BY <1>1, <2>1, <2>2 DEF TypeOK, OrNone
  <2> QED BY <1>1, <1>2, <1>3, <2>2, <2>3 DEF IInv, TypeOK, ChildOK
<1> QED BY <1>4, <1>5

\* A process exits; time passes.
LEMMA WorldKeepsIInv ==
  ASSUME IInv, Tick \/ (\E process \in 1 .. MaxProcesses : Exit(process)) \/ UNCHANGED vars
  PROVE  IInv'
<1>1. TypeOK /\ OneProcess /\ Counting /\ StoppedMeansEmpty /\ SavesSomething
  BY DEF IInv
<1>2. /\ UNCHANGED <<selected, keys, main, saves, runs, child, endpoint, config, meeting,
                     respawnCount, firstAt, nextAt, attempts>>
      /\ alive' \subseteq alive
      /\ now' \in 1 .. MaxTime /\ now <= now'
  BY <1>1, LimitsAssumption
     DEF Tick, Exit, TypeOK, vars, settingsVars, mainVars, childVars, counterVars
<1>3. TypeOK' /\ OneProcess' /\ StoppedMeansEmpty' /\ SavesSomething'
  BY <1>1, <1>2 DEF TypeOK, OneProcess, StoppedMeansEmpty, SavesSomething
<1>4. HistoryInOrder'
  <2>1. ASSUME NEW i \in DOMAIN attempts
        PROVE  attempts[i] <= now'
    <3>1. attempts[i] \in Nat /\ attempts[i] <= now /\ now \in Nat /\ now' \in Nat
      BY <1>1, <1>2, ElementOfSeq, LenProperties, LimitsAssumption
         DEF TypeOK, Counting, HistoryInOrder
    <3> QED BY <1>2, <3>1
  <2> QED BY <1>1, <1>2, <2>1 DEF Counting, HistoryInOrder
<1>5. CountsThisWindow' /\ QuietBefore' /\ StormBounded'
  BY <1>1, <1>2 DEF Counting, CountsThisWindow, QuietBefore, StormBounded
<1> QED BY <1>3, <1>4, <1>5 DEF IInv, Counting

-----------------------------------------------------------------------------
(* What follows for every behaviour *)

\* The invariant of sidecar.rs's state under its callers.
THEOREM Invariance == Spec => []IInv
<1>1. IInv /\ [Next]_vars => IInv'
  BY SettingsKeepIInv, MainKeepsIInv, MeetingKeepsIInv, WorldKeepsIInv DEF Next, MainStep
<1> QED BY <1>1, InitIInv, PTL DEF Spec

\* Every variable keeps its type; the counter stops one above the cap.
THEOREM TypeCorrect == Spec => []TypeOK
<1>1. IInv => TypeOK
  BY DEF IInv
<1> QED BY <1>1, Invariance, PTL

\* spawn(), endpoint() and shutdown() leave at most one sidecar running, the one
\* the endpoint names.
THEOREM OneSidecar == Spec => []OneProcess
<1>1. IInv => OneProcess
  BY DEF IInv
<1> QED BY <1>1, Invariance, PTL

\* Nothing revives the sidecar between the halves of respawn(), nor after the
\* window closed.
THEOREM StaysStopped == Spec => []StoppedMeansSilent
<1>1. IInv => StoppedMeansSilent
  <2> SUFFICES ASSUME IInv, main.pc \in {"backoff", "sleep", "gone"}
               PROVE  alive = {}
    BY DEF StoppedMeansSilent
  <2>1. child = 0 /\ alive \subseteq {child} /\ alive \subseteq DOMAIN runs
    BY DEF IInv, StoppedMeansEmpty, OneProcess, TypeOK
  <2>2. 0 \notin DOMAIN runs
    BY LenProperties DEF IInv, TypeOK
  <2> QED BY <2>1, <2>2
<1> QED BY <1>1, Invariance, PTL

\* The circuit breaker of endpoint() bounds a crash loop over any stretch of time.
THEOREM CrashLoopBounded == Spec => []StormBounded
<1>1. IInv => StormBounded
  BY DEF IInv, Counting
<1> QED BY <1>1, Invariance, PTL

\* endpoint() gives a sidecar up only after Cap + 1 starts within one window.
THEOREM TrippedByStorm == Spec => []TripsOnlyInStorm
<1>1. IInv => TripsOnlyInStorm
  BY StormSeen DEF IInv
<1> QED BY <1>1, Invariance, PTL
=============================================================================
