---------------------- MODULE CaptureControl_proofs ----------------------
(***************************************************************************)
(* Theorems about the control of a meeting, for any number of meetings,    *)
(* endpoints and microphones, on an orderly window or any other.           *)
(***************************************************************************)
EXTENDS CaptureBook, TLAPS

-----------------------------------------------------------------------------
(* The inductive invariant *)

StartPlaces == {"permissions", "sources", "sourced", "recorder", "recorded", "link", "linked"}
SourcedPlaces == {"sourced", "recorder", "recorded", "link", "linked"}

\* A meeting opens, and ends, only after its start has begun; and what runs has
\* not been ended.
NoneFromTheFuture ==
  /\ sources \in 0 .. generation /\ opened \subseteq 1 .. generation
  /\ link \in OrNone(opened)
  /\ ended \subseteq opened /\ sources \notin ended

\* A start is for the current generation, and nothing else makes it active.
StartIsCurrent ==
  op.pc \in StartPlaces =>
    op.meeting = generation /\ generation # 0 /\ phase \notin {"Idle", "Active", "Paused"}

\* Before its sources start, a meeting has none, and no link had it.
NotYetSourced ==
  op.pc \in {"permissions", "sources"} => sources # op.meeting /\ op.meeting \notin opened

\* While devices are chosen no meeting begins.
ChoosingAtRest == op.pc = "devices" => phase \in {"Idle", "Failed"}

\* Once told to pause, the mixer stays paused until the phase says so.
PauseIsTold == op.pc = "paused" /\ sources # 0 => mixerPaused

\* A start captures the selection that it has read.
StartsWithSelection == op.pc \in SourcedPlaces /\ sources # 0 => captured = selection

\* What stop has closed stays closed until a start has begun.
ClosedAtRest ==
  phase = "Idle" \/ op.pc = "stopped" => sources = 0 /\ recorder = 0 /\ link = 0

IInv ==
  /\ TypeOK
  /\ NoneFromTheFuture /\ StartIsCurrent /\ NotYetSourced /\ ChoosingAtRest
  /\ PauseIsTold /\ StartsWithSelection /\ ClosedAtRest
  /\ EndedForGood /\ PausedMeansSilent /\ CapturesSelection

-----------------------------------------------------------------------------
(* Lemmas *)

LEMMA NoticeIsTyped ==
  ASSUME TypeOK, NEW thread \in Threads, NEW snapshot \in Phases, Notice(thread, snapshot)
  PROVE  notices' \subseteq [by : Threads, phase : Phases]
BY DEF TypeOK, Notice

LEMMA ThreadsAre ==
  /\ Op \in Threads /\ Webview \in Threads /\ Worker \in Threads
  /\ \A m \in Meetings : Watcher(m) \in Threads
BY DEF Threads

LEMMA NoOpIsTyped ==
  NoOp \in [pc : OpPlaces, meeting : OrNone(Meetings), endpoint : 0 .. MaxEndpoints]
BY BoundsAssumption DEF NoOp, OpPlaces, OrNone

LEMMA GotoIsTyped ==
  ASSUME TypeOK, NEW pc \in OpPlaces, Goto(pc)
  PROVE  /\ op' \in [pc : OpPlaces, meeting : OrNone(Meetings), endpoint : 0 .. MaxEndpoints]
         /\ op'.pc = pc /\ op'.meeting = op.meeting
BY DEF TypeOK, Goto

\* A step that leaves the backend alone, and at most fails the meeting.
LEMMA AsideKeeps ==
  ASSUME IInv, TypeOK', phase' \in {phase, "Failed"},
         UNCHANGED <<generation, op, selection, sources, captured, mixerPaused, recorder, link,
                     opened, ended>>
  PROVE  IInv'
BY DEF IInv, NoneFromTheFuture, StartIsCurrent, NotYetSourced, ChoosingAtRest, PauseIsTold,
       StartsWithSelection, ClosedAtRest, EndedForGood, PausedMeansSilent, CapturesSelection

\* A step that stops the sources, and ends the link or leaves it.
LEMMA StoppedKeeps ==
  ASSUME IInv, TypeOK', phase' \in {phase, "Failed"},
         sources' = 0, EndLink \/ UNCHANGED <<link, ended>>,
         \/ op' = op \/ op'.pc = "free"
         \/ op'.pc = "stopped" /\ recorder' = 0 /\ link' = 0,
         recorder' \in {recorder, 0},
         UNCHANGED <<generation, selection, opened>>
  PROVE  IInv'
<1>1. 0 \notin ended /\ 0 \notin opened
  BY DEF IInv, TypeOK, Meetings
<1>2. /\ ended' \subseteq opened /\ link' \notin ended' /\ 0 \notin ended'
      /\ link' \in OrNone(opened)
  BY <1>1 DEF EndLink, OrNone, IInv, NoneFromTheFuture, EndedForGood
<1>3. NoneFromTheFuture' /\ EndedForGood'
  BY <1>2 DEF IInv, TypeOK, NoneFromTheFuture, EndedForGood, OrNone
<1>4. StartIsCurrent' /\ NotYetSourced' /\ ChoosingAtRest'
  BY DEF IInv, StartIsCurrent, NotYetSourced, ChoosingAtRest, StartPlaces
<1>5. PauseIsTold' /\ StartsWithSelection' /\ PausedMeansSilent' /\ CapturesSelection'
  BY DEF PauseIsTold, StartsWithSelection, PausedMeansSilent, CapturesSelection
<1>6. ClosedAtRest'
  BY DEF IInv, ClosedAtRest, EndLink
<1> QED BY <1>3, <1>4, <1>5, <1>6 DEF IInv

\* What CloseBackend leaves has its types.
LEMMA CloseIsTyped ==
  ASSUME TypeOK, CloseBackend
  PROVE  /\ sources' = 0 /\ captured' \in Selections /\ mixerPaused' \in BOOLEAN
         /\ recorder' \in OrNone(Meetings) /\ link' \in OrNone(Meetings)
         /\ opened' = opened /\ ended' \subseteq Meetings /\ sources' \in OrNone(Meetings)
<1>1. ended' \subseteq Meetings
  BY DEF TypeOK, CloseBackend, EndLink, OrNone
<1> QED BY <1>1 DEF CloseBackend, EndLink, StopSources, OrNone, Selections

-----------------------------------------------------------------------------
(* The window, the supervisor and the worker *)

LEMMA OutsideKeeps ==
  ASSUME IInv,
         \/ \E call \in Calls : Press(call)
         \/ \E notice \in notices : Send(notice)
         \/ Replace \/ Withdraw \/ WebviewRefuses \/ WorkerReports
  PROVE  IInv'
<1>1. /\ UNCHANGED <<generation, op, backendVars, watch, selection>>
      /\ phase' \in {phase, "Failed"}
  BY DEF Press, Send, Replace, Withdraw, WebviewRefuses, WorkerReports, FailIfCurrent, stateVars,
         uiVars
<1>2. UNCHANGED <<sources, captured, mixerPaused, recorder, link, opened, ended>>
  BY <1>1 DEF backendVars, sourceVars
<1>3. asked' \subseteq Calls /\ shown' \in Phases /\ failing' \in OrNone(Meetings)
  <2>1. CASE \E call \in Calls : Press(call)
    BY <2>1 DEF Press, IInv, TypeOK
  <2>2. CASE \E notice \in notices : Send(notice)
    BY <2>2 DEF Send, IInv, TypeOK
  <2>3. CASE Replace \/ Withdraw \/ WebviewRefuses \/ WorkerReports
    BY <2>3 DEF Replace, Withdraw, WebviewRefuses, WorkerReports, uiVars, IInv, TypeOK, OrNone
  <2> QED BY <2>1, <2>2, <2>3
<1>4. notices' \subseteq [by : Threads, phase : Phases]
  <2>1. CASE (\E call \in Calls : Press(call)) \/ Replace \/ Withdraw
    BY <2>1 DEF Press, Replace, Withdraw, uiVars, IInv, TypeOK
  <2>2. CASE \E notice \in notices : Send(notice)
    BY <2>2 DEF Send, IInv, TypeOK
  <2>3. CASE WebviewRefuses
    BY <2>3, NoticeIsTyped, ThreadsAre DEF WebviewRefuses, Phases, IInv
  <2>4. CASE WorkerReports
    BY <2>4, NoticeIsTyped, ThreadsAre DEF WorkerReports, FailIfCurrent, Phases, IInv, TypeOK
  <2> QED BY <2>1, <2>2, <2>3, <2>4
<1>5. endpoint' \in 0 .. MaxEndpoints /\ issued' \in 0 .. MaxEndpoints
  <2>1. CASE Replace
    BY <2>1, BoundsAssumption DEF Replace, IInv, TypeOK
  <2>2. CASE Withdraw
    BY <2>2, BoundsAssumption DEF Withdraw, IInv, TypeOK
  <2>3. CASE ~Replace /\ ~Withdraw
    BY <2>3 DEF Press, Send, WebviewRefuses, WorkerReports, endpointVars, IInv, TypeOK
  <2> QED BY <2>1, <2>2, <2>3
<1>6. TypeOK'
  BY <1>1, <1>2, <1>3, <1>4, <1>5 DEF IInv, TypeOK, Phases
<1> QED BY <1>1, <1>2, <1>6, AsideKeeps

LEMMA WorkerFailsKeeps ==
  ASSUME IInv, WorkerFails
  PROVE  IInv'
<1>1. /\ CloseBackend /\ failing' = sources
      /\ UNCHANGED <<phase, generation, asked, notices, shown, op, watch, endpoint, issued, selection>>
  BY DEF WorkerFails, stateVars, uiVars, endpointVars
<1>2. TypeOK'
  BY <1>1, CloseIsTyped DEF IInv, TypeOK
<1> QED BY <1>1, <1>2, StoppedKeeps DEF CloseBackend, StopSources

-----------------------------------------------------------------------------
(* The watchers *)

WatchType == [pc : WatchPlaces, seen : Phases, endpoint : 0 .. MaxEndpoints]

LEMMA WatchGotoIsTyped ==
  ASSUME TypeOK, NEW m \in Meetings, NEW pc \in WatchPlaces, WatchGoto(m, pc)
  PROVE  watch' \in [Meetings -> WatchType]
BY DEF TypeOK, WatchGoto, WatchType

\* A watcher's step that leaves the backend alone.
LEMMA WatchAsideKeeps ==
  ASSUME IInv, NEW m \in Meetings,
         \/ WatchLooks(m) \/ WatchAsks(m) \/ WatchFails(m)
         \/ (WatchStartsLink(m) \/ WatchPauses(m)) /\ UNCHANGED backendVars
  PROVE  IInv'
<1>1. /\ UNCHANGED <<generation, op, backendVars, selection, uiVars, failing, endpointVars>>
      /\ phase' \in {phase, "Failed"}
  BY DEF WatchLooks, WatchAsks, WatchFails, WatchStartsLink, WatchPauses, stateVars
<1>2. UNCHANGED <<sources, captured, mixerPaused, recorder, link, opened, ended, asked, notices,
                  shown, endpoint, issued>>
  BY <1>1 DEF backendVars, sourceVars, uiVars, endpointVars
<1>3. watch' \in [Meetings -> WatchType]
  <2>1. watch \in [Meetings -> WatchType] /\ phase \in Phases /\ endpoint \in 0 .. MaxEndpoints
    BY DEF IInv, TypeOK, WatchType
  <2>2. CASE WatchLooks(m)
    <3>1. PICK pc \in {"ask", "done"} : watch' = [watch EXCEPT ![m].pc = pc, ![m].seen = phase]
      BY <2>2 DEF WatchLooks
    <3> QED BY <2>1, <3>1 DEF WatchType, WatchPlaces
  <2>3. CASE WatchAsks(m)
    <3>1. PICK pc \in {"fail", "sleep", "link"}, e \in 0 .. MaxEndpoints :
            watch' = [watch EXCEPT ![m].pc = pc, ![m].endpoint = e]
      <4>1. watch[m].endpoint \in 0 .. MaxEndpoints
        BY <2>1 DEF WatchType
      <4> QED BY <2>1, <2>3, <4>1 DEF WatchAsks
    <3> QED BY <2>1, <3>1 DEF WatchType, WatchPlaces
  <2>4. CASE WatchFails(m)
    <3>1. PICK pc \in {"close", "done"} : WatchGoto(m, pc)
      BY <2>4 DEF WatchFails
    <3> QED BY <3>1, WatchGotoIsTyped DEF WatchPlaces, IInv
  <2>5. CASE WatchStartsLink(m) \/ WatchPauses(m)
    <3>1. PICK pc \in {"pause", "sleep", "fail"} : WatchGoto(m, pc)
      BY <2>5 DEF WatchStartsLink, WatchPauses
    <3> QED BY <3>1, WatchGotoIsTyped DEF WatchPlaces, IInv
  <2> QED BY <2>2, <2>3, <2>4, <2>5
<1>4. TypeOK'
  BY <1>1, <1>2, <1>3 DEF IInv, TypeOK, Phases, WatchType
<1> QED BY <1>1, <1>2, <1>4, AsideKeeps

\* The link of the sources' own meeting.
LEMMA BackendStartLinkKeeps ==
  ASSUME IInv, TypeOK', NEW m \in Meetings, BackendStartLink(m),
         \/ op' = op
         \/ op.pc = "link" /\ op'.pc = "linked" /\ op'.meeting = op.meeting,
         UNCHANGED <<phase, generation, selection>>
  PROVE  IInv'
<1>1. /\ sources = m /\ link' = m /\ opened' = opened \cup {m}
      /\ UNCHANGED <<sources, captured, mixerPaused, ended>>
  BY DEF BackendStartLink, sourceVars
<1>2. NoneFromTheFuture' /\ EndedForGood'
  BY <1>1 DEF IInv, TypeOK, NoneFromTheFuture, EndedForGood, OrNone, Meetings
<1>3. StartIsCurrent' /\ NotYetSourced' /\ ChoosingAtRest'
  BY <1>1 DEF IInv, StartIsCurrent, NotYetSourced, ChoosingAtRest, StartPlaces
<1>4. PauseIsTold' /\ StartsWithSelection' /\ PausedMeansSilent' /\ CapturesSelection'
  BY <1>1 DEF IInv, PauseIsTold, StartsWithSelection, PausedMeansSilent, CapturesSelection,
              SourcedPlaces
<1>5. ClosedAtRest'
  BY <1>1 DEF IInv, ClosedAtRest, Meetings
<1> QED BY <1>2, <1>3, <1>4, <1>5 DEF IInv

LEMMA WatchBackendKeeps ==
  ASSUME IInv, NEW m \in Meetings, WatchStartsLink(m) \/ WatchPauses(m) \/ WatchCloses(m)
  PROVE  IInv'
<1>1. CASE WatchStartsLink(m) /\ BackendStartLink(m)
  <2>1. PICK pc \in {"pause", "sleep"} : WatchGoto(m, pc)
    BY <1>1 DEF WatchStartsLink, BackendStartLink
  <2>2. watch' \in [Meetings -> WatchType]
    BY <2>1, WatchGotoIsTyped DEF WatchPlaces, IInv
  <2>3. TypeOK'
    <3>1. /\ link' \in OrNone(Meetings) /\ opened' \subseteq Meetings
          /\ UNCHANGED <<sources, captured, mixerPaused, recorder, ended>>
      BY <1>1 DEF BackendStartLink, sourceVars, OrNone, IInv, TypeOK
    <3>2. UNCHANGED <<phase, generation, asked, notices, shown, op, failing, endpoint, issued,
                      selection>>
      BY <1>1 DEF WatchStartsLink, stateVars, uiVars, endpointVars
    <3> QED BY <2>2, <3>1, <3>2 DEF WatchType, IInv, TypeOK
  <2>4. BackendStartLink(m) /\ UNCHANGED <<op, phase, generation, selection>>
    BY <1>1 DEF WatchStartsLink, stateVars
  <2> QED BY <2>3, <2>4, BackendStartLinkKeeps
<1>2. CASE WatchPauses(m) /\ BackendPause(TRUE)
  <2>1. /\ mixerPaused' = TRUE
        /\ UNCHANGED <<phase, generation, asked, notices, shown, op, sources, captured, recorder,
                       link, opened, ended, failing, endpoint, issued, selection>>
    BY <1>2 DEF WatchPauses, BackendPause, stateVars, uiVars, endpointVars
  <2>2. watch' \in [Meetings -> WatchType]
    <3>1. WatchGoto(m, "sleep") \/ WatchGoto(m, "fail")
      BY <1>2 DEF WatchPauses
    <3> QED BY <3>1, WatchGotoIsTyped DEF WatchPlaces, IInv
  <2>3. TypeOK'
    BY <2>1, <2>2 DEF WatchType, IInv, TypeOK
  <2> QED BY <2>1, <2>3 DEF IInv, NoneFromTheFuture, StartIsCurrent, NotYetSourced, ChoosingAtRest,
            PauseIsTold, StartsWithSelection, ClosedAtRest, EndedForGood, PausedMeansSilent,
            CapturesSelection
<1>3. CASE WatchCloses(m)
  <2>1. /\ CloseBackend /\ Notice(Watcher(m), "Failed") /\ WatchGoto(m, "done")
        /\ UNCHANGED <<phase, generation, asked, shown, op, failing, endpoint, issued, selection>>
    BY <1>3 DEF WatchCloses, stateVars, endpointVars
  <2>2. notices' \subseteq [by : Threads, phase : Phases]
    BY <2>1, NoticeIsTyped, ThreadsAre DEF Phases, IInv
  <2>3. watch' \in [Meetings -> WatchType]
    BY <2>1, WatchGotoIsTyped DEF WatchPlaces, IInv
  <2>4. TypeOK'
    BY <2>1, <2>2, <2>3, CloseIsTyped DEF WatchType, IInv, TypeOK
  <2> QED BY <2>1, <2>4, StoppedKeeps DEF CloseBackend, StopSources
<1>4. CASE (WatchStartsLink(m) \/ WatchPauses(m)) /\ UNCHANGED backendVars
  BY <1>4, WatchAsideKeeps
<1> QED BY <1>1, <1>2, <1>3, <1>4 DEF WatchStartsLink, WatchPauses

-----------------------------------------------------------------------------
(* The call that holds the operation lock *)

OpType == [pc : OpPlaces, meeting : OrNone(Meetings), endpoint : 0 .. MaxEndpoints]

\* A call that ends without the backend.
LEMMA ReturnKeeps ==
  ASSUME IInv, TypeOK', op'.pc = "free",
         UNCHANGED <<generation, selection, sources, captured, mixerPaused, recorder, link, opened,
                     ended>>,
         \/ phase' \in {phase, "Failed"} /\ (phase = "Paused" => op.pc # "resumed")
         \/ phase' = "Idle" /\ op.pc = "stopped"
         \/ phase' = "Active" /\ (sources # 0 => captured = selection)
         \/ phase' = "Paused" /\ (sources # 0 => mixerPaused /\ captured = selection)
  PROVE  IInv'
<1>1. StartIsCurrent' /\ NotYetSourced' /\ ChoosingAtRest' /\ PauseIsTold' /\ StartsWithSelection'
  BY DEF StartIsCurrent, NotYetSourced, ChoosingAtRest, PauseIsTold, StartsWithSelection,
         StartPlaces, SourcedPlaces
<1>2. PausedMeansSilent' /\ CapturesSelection' /\ ClosedAtRest'
  BY DEF IInv, PausedMeansSilent, CapturesSelection, ClosedAtRest
<1> QED BY <1>1, <1>2 DEF IInv, NoneFromTheFuture, EndedForGood

LEMMA EnterIsTyped ==
  ASSUME IInv, NEW next \in Phases, Enter(next)
  PROVE  phase' = next /\ notices' \subseteq [by : Threads, phase : Phases]
BY NoticeIsTyped, ThreadsAre DEF Enter, IInv

LEMMA FailIsTyped ==
  ASSUME IInv, Fail
  PROVE  /\ phase' = "Failed" /\ generation' = generation
         /\ op' \in OpType /\ op'.pc = "free"
         /\ notices' \subseteq [by : Threads, phase : Phases]
BY EnterIsTyped, NoOpIsTyped DEF Fail, Return, NoOp, Phases, OpType

LEMMA ReturnIsTyped ==
  ASSUME Return
  PROVE  op' \in OpType /\ op'.pc = "free"
BY NoOpIsTyped DEF Return, NoOp, OpType

LEMMA StartBeginsKeeps ==
  ASSUME IInv, StartBegins
  PROVE  IInv'
<1>1. /\ asked' \subseteq Calls
      /\ UNCHANGED <<shown, sources, captured, mixerPaused, recorder, link, opened, ended, failing,
                     watch, endpoint, issued, selection>>
  BY DEF StartBegins, Took, IInv, TypeOK, backendVars, sourceVars, endpointVars
<1>2. CASE /\ BeginPreflight
           /\ op' = [pc |-> "permissions", meeting |-> generation + 1, endpoint |-> endpoint]
  <2>1. /\ generation' = generation + 1 /\ generation' \in Meetings
        /\ phase' = "Preflight" /\ notices' \subseteq [by : Threads, phase : Phases]
    BY <1>2, EnterIsTyped, BoundsAssumption DEF BeginPreflight, Phases, IInv, TypeOK, Meetings
  <2>2. op' \in OpType /\ op'.pc = "permissions" /\ op'.meeting = generation'
    BY <1>2, <2>1 DEF OpType, OpPlaces, OrNone, IInv, TypeOK
  <2>3. TypeOK'
    BY <1>1, <2>1, <2>2, BoundsAssumption DEF OpType, IInv, TypeOK, Phases, Meetings
  <2>4. NoneFromTheFuture' /\ NotYetSourced'
    BY <1>1, <2>1, <2>2 DEF IInv, TypeOK, NoneFromTheFuture, NotYetSourced
  <2>5. StartIsCurrent' /\ EndedForGood'
    BY <1>1, <2>1, <2>2 DEF IInv, StartIsCurrent, EndedForGood, Meetings
  <2>6. /\ ChoosingAtRest' /\ PauseIsTold' /\ StartsWithSelection' /\ PausedMeansSilent'
        /\ CapturesSelection' /\ ClosedAtRest'
    BY <2>1, <2>2 DEF ChoosingAtRest, PauseIsTold, StartsWithSelection, PausedMeansSilent,
                      CapturesSelection, ClosedAtRest, SourcedPlaces
  <2> QED BY <2>3, <2>4, <2>5, <2>6 DEF IInv
<1>3. CASE UNCHANGED <<stateVars, op, notices>>
  <2>1. TypeOK'
    BY <1>1, <1>3 DEF stateVars, IInv, TypeOK
  <2> QED BY <1>1, <1>3, <2>1, AsideKeeps DEF stateVars
<1> QED BY <1>2, <1>3 DEF StartBegins

LEMMA CheckPermissionsKeeps ==
  ASSUME IInv, CheckPermissions
  PROVE  IInv'
<1>1. /\ op.pc = "permissions"
      /\ UNCHANGED <<asked, shown, sources, captured, mixerPaused, recorder, link, opened, ended,
                     failing, watch, endpoint, issued, selection>>
  BY DEF CheckPermissions, At, backendVars, sourceVars, endpointVars
<1>2. CASE Fail
  <2>1. TypeOK'
    BY <1>1, <1>2, FailIsTyped DEF OpType, IInv, TypeOK, Phases
  <2> QED BY <1>1, <1>2, <2>1, FailIsTyped, ReturnKeeps
<1>3. CASE Transition("Preflight", "Starting") /\ Goto("sources") /\ UNCHANGED generation
  <2>1. phase' = "Starting" /\ notices' \subseteq [by : Threads, phase : Phases]
    BY <1>3, EnterIsTyped DEF Transition, Phases
  <2>2. op' \in OpType /\ op'.pc = "sources" /\ op'.meeting = op.meeting
    BY <1>3, GotoIsTyped DEF OpPlaces, OpType, IInv
  <2>3. TypeOK'
    BY <1>1, <1>3, <2>1, <2>2 DEF OpType, IInv, TypeOK, Phases
  <2>4. StartIsCurrent' /\ NotYetSourced'
    BY <1>1, <1>3, <2>1, <2>2 DEF IInv, StartIsCurrent, NotYetSourced, StartPlaces
  <2>5. /\ ChoosingAtRest' /\ PauseIsTold' /\ StartsWithSelection' /\ PausedMeansSilent'
        /\ CapturesSelection' /\ ClosedAtRest'
    BY <2>1, <2>2 DEF ChoosingAtRest, PauseIsTold, StartsWithSelection, PausedMeansSilent,
                      CapturesSelection, ClosedAtRest, SourcedPlaces
  <2> QED BY <1>1, <1>3, <2>3, <2>4, <2>5 DEF IInv, NoneFromTheFuture, EndedForGood
<1>4. CASE Return /\ UNCHANGED <<stateVars, notices>>
  <2>1. TypeOK'
    BY <1>1, <1>4, ReturnIsTyped DEF OpType, stateVars, IInv, TypeOK
  <2> QED BY <1>1, <1>4, <2>1, ReturnIsTyped, ReturnKeeps DEF stateVars
<1> QED BY <1>2, <1>3, <1>4 DEF CheckPermissions

LEMMA StartSourcesKeeps ==
  ASSUME IInv, StartSources
  PROVE  IInv'
<1>1. /\ op.pc = "sources" /\ mixerPaused' = FALSE
      /\ UNCHANGED <<asked, shown, recorder, link, opened, ended, failing, watch, endpoint,
                     issued, selection>>
  BY DEF StartSources, At, endpointVars
<1>2. /\ op.meeting = generation /\ generation # 0 /\ phase \notin {"Idle", "Active", "Paused"}
      /\ op.meeting \notin opened /\ op.meeting \in Meetings
  BY <1>1 DEF IInv, StartIsCurrent, NotYetSourced, StartPlaces, TypeOK, OrNone
<1>3. CASE /\ sources' = op.meeting /\ captured' = selection /\ Goto("sourced")
           /\ UNCHANGED <<stateVars, notices>>
  <2>1. op' \in OpType /\ op'.pc = "sourced" /\ op'.meeting = op.meeting
    BY <1>3, GotoIsTyped DEF OpPlaces, OpType, IInv
  <2>2. TypeOK'
    BY <1>1, <1>2, <1>3, <2>1 DEF OpType, stateVars, OrNone, IInv, TypeOK
  <2>3. NoneFromTheFuture' /\ EndedForGood'
    BY <1>1, <1>2, <1>3 DEF stateVars, IInv, TypeOK, NoneFromTheFuture, EndedForGood
  <2>4. /\ StartIsCurrent' /\ NotYetSourced' /\ ChoosingAtRest' /\ PauseIsTold'
        /\ StartsWithSelection'
    BY <1>1, <1>2, <1>3, <2>1 DEF stateVars, StartIsCurrent, NotYetSourced, ChoosingAtRest,
                                  PauseIsTold, StartsWithSelection
  <2>5. PausedMeansSilent' /\ CapturesSelection' /\ ClosedAtRest'
    BY <1>2, <1>3, <2>1 DEF stateVars, PausedMeansSilent, CapturesSelection, ClosedAtRest
  <2> QED BY <2>2, <2>3, <2>4, <2>5 DEF IInv
<1>4. CASE sources' = 0 /\ captured' = Default /\ Fail
  <2>1. TypeOK'
    BY <1>1, <1>4, FailIsTyped DEF OpType, IInv, TypeOK, OrNone, Phases, Selections
  <2> QED BY <1>1, <1>4, <2>1, FailIsTyped, StoppedKeeps
<1> QED BY <1>3, <1>4 DEF StartSources

\* A start that finds itself current goes on.
LEMMA StartGoesOn ==
  ASSUME IInv, TypeOK',
         \/ op.pc = "sourced" /\ op'.pc = "recorder"
         \/ op.pc = "recorder" /\ op'.pc = "recorded"
         \/ op.pc = "recorded" /\ op'.pc = "link",
         op'.meeting = op.meeting,
         UNCHANGED <<phase, generation, selection, sources, captured, mixerPaused, link, opened,
                     ended>>
  PROVE  IInv'
BY DEF IInv, NoneFromTheFuture, StartIsCurrent, NotYetSourced, ChoosingAtRest, PauseIsTold,
       StartsWithSelection, ClosedAtRest, EndedForGood, PausedMeansSilent, CapturesSelection,
       StartPlaces, SourcedPlaces

LEMMA CheckedKeeps ==
  ASSUME IInv, SourcesChecked \/ RecorderChecked
  PROVE  IInv'
<1>1. UNCHANGED <<phase, generation, asked, notices, shown, link, opened, ended, failing, watch,
                  endpoint, issued, selection>>
  BY DEF SourcesChecked, RecorderChecked, stateVars, uiVars, endpointVars
<1>2. recorder' \in {recorder, 0}
  BY DEF SourcesChecked, RecorderChecked
<1>3. CASE StopSources /\ Return
  <2>1. TypeOK'
    BY <1>1, <1>2, <1>3, ReturnIsTyped DEF StopSources, OpType, IInv, TypeOK, OrNone, Selections
  <2> QED BY <1>1, <1>2, <1>3, <2>1, ReturnIsTyped, StoppedKeeps DEF StopSources
<1>4. CASE /\ UNCHANGED sourceVars
           /\ \/ op.pc = "sourced" /\ Goto("recorder")
              \/ op.pc = "recorded" /\ Goto("link")
  <2>1. /\ op' \in OpType /\ op'.meeting = op.meeting
        /\ \/ op.pc = "sourced" /\ op'.pc = "recorder"
           \/ op.pc = "recorded" /\ op'.pc = "link"
    BY <1>4, GotoIsTyped DEF OpPlaces, OpType, IInv
  <2>2. TypeOK'
    BY <1>1, <1>2, <1>4, <2>1 DEF sourceVars, OpType, OrNone, IInv, TypeOK
  <2> QED BY <1>1, <1>4, <2>1, <2>2, StartGoesOn DEF sourceVars
<1> QED BY <1>3, <1>4 DEF SourcesChecked, RecorderChecked, At

LEMMA OpenRecorderKeeps ==
  ASSUME IInv, OpenRecorder
  PROVE  IInv'
<1>1. /\ op.pc = "recorder"
      /\ UNCHANGED <<asked, shown, link, opened, ended, failing, watch, endpoint, issued, selection>>
  BY DEF OpenRecorder, At, endpointVars
<1>2. CASE recorder' = op.meeting /\ Goto("recorded") /\ UNCHANGED <<stateVars, notices, sourceVars>>
  <2>1. op' \in OpType /\ op'.pc = "recorded" /\ op'.meeting = op.meeting
    BY <1>2, GotoIsTyped DEF OpPlaces, OpType, IInv
  <2>2. recorder' \in OrNone(Meetings)
    BY <1>2 DEF IInv, TypeOK
  <2>3. TypeOK'
    BY <1>1, <1>2, <2>1, <2>2 DEF stateVars, sourceVars, OpType, IInv, TypeOK
  <2> QED BY <1>1, <1>2, <2>1, <2>3, StartGoesOn DEF stateVars, sourceVars
<1>3. CASE StopSources /\ Fail /\ UNCHANGED recorder
  <2>1. TypeOK'
    BY <1>1, <1>3, FailIsTyped DEF StopSources, OpType, IInv, TypeOK, OrNone, Phases, Selections
  <2> QED BY <1>1, <1>3, <2>1, FailIsTyped, StoppedKeeps DEF StopSources
<1> QED BY <1>2, <1>3 DEF OpenRecorder

LEMMA StartLinkKeeps ==
  ASSUME IInv, StartLink
  PROVE  IInv'
<1>1. /\ op.pc = "link"
      /\ UNCHANGED <<asked, shown, failing, watch, endpoint, issued, selection>>
  BY DEF StartLink, At, endpointVars
<1>2. op.meeting \in Meetings
  BY <1>1 DEF IInv, StartIsCurrent, StartPlaces, TypeOK, OrNone
<1>3. CASE BackendStartLink(op.meeting) /\ Goto("linked") /\ UNCHANGED <<stateVars, notices>>
  <2>1. op' \in OpType /\ op'.pc = "linked" /\ op'.meeting = op.meeting
    BY <1>3, GotoIsTyped DEF OpPlaces, OpType, IInv
  <2>2. /\ link' \in OrNone(Meetings) /\ opened' \subseteq Meetings
        /\ UNCHANGED <<sources, captured, mixerPaused, recorder, ended>>
    BY <1>2, <1>3 DEF BackendStartLink, sourceVars, OrNone, IInv, TypeOK
  <2>3. TypeOK'
    BY <1>1, <1>3, <2>1, <2>2 DEF stateVars, OpType, IInv, TypeOK
  <2>4. PICK m \in Meetings : m = op.meeting
    BY <1>2
  <2>5. /\ sources = m /\ link' = m /\ opened' = opened \cup {m}
        /\ UNCHANGED <<sourceVars, recorder, ended>>
    BY <1>3, <2>4 DEF BackendStartLink
  <2> QED BY <1>1, <1>3, <2>1, <2>3, <2>5, BackendStartLinkKeeps DEF BackendStartLink, stateVars
<1>4. CASE /\ recorder' = 0 /\ StopSources /\ UNCHANGED <<link, opened, ended>>
           /\ Fail \/ (Return /\ UNCHANGED <<stateVars, notices>>)
  <2>1. /\ phase' \in {phase, "Failed"} /\ generation' = generation
        /\ op' \in OpType /\ op'.pc = "free"
        /\ notices' \subseteq [by : Threads, phase : Phases]
    BY <1>4, FailIsTyped, ReturnIsTyped DEF stateVars, IInv, TypeOK
  <2>2. TypeOK'
    BY <1>1, <1>4, <2>1 DEF StopSources, OpType, IInv, TypeOK, OrNone, Phases, Selections
  <2> QED BY <1>1, <1>4, <2>1, <2>2, StoppedKeeps DEF StopSources
<1> QED BY <1>3, <1>4 DEF StartLink

LEMMA ActivateKeeps ==
  ASSUME IInv, Activate
  PROVE  IInv'
<1>1. /\ op.pc = "linked" /\ op' \in OpType /\ op'.pc = "free"
      /\ UNCHANGED <<asked, shown, failing, endpoint, issued, selection>>
  BY ReturnIsTyped DEF Activate, At, endpointVars
<1>2. CASE /\ ActivateIfCurrent
           /\ watch' = [watch EXCEPT ![op.meeting] =
                          [pc |-> "sleep", seen |-> "Active", endpoint |-> op.endpoint]]
           /\ UNCHANGED <<generation, backendVars>>
  <2>1. /\ phase' = "Active" /\ notices' \subseteq [by : Threads, phase : Phases]
        /\ UNCHANGED <<sources, captured, mixerPaused, recorder, link, opened, ended>>
    BY <1>2, EnterIsTyped DEF ActivateIfCurrent, Transition, Phases, backendVars, sourceVars
  <2>2. watch' \in [Meetings -> WatchType]
    BY <1>2 DEF WatchType, WatchPlaces, Phases, IInv, TypeOK
  <2>3. TypeOK'
    BY <1>1, <1>2, <2>1, <2>2 DEF OpType, WatchType, Phases, IInv, TypeOK
  <2>4. sources # 0 => captured = selection
    BY <1>1 DEF IInv, StartsWithSelection, SourcedPlaces
  <2> QED BY <1>1, <1>2, <2>1, <2>3, <2>4, ReturnKeeps
<1>3. CASE CloseBackend /\ UNCHANGED <<stateVars, notices, watch>>
  <2>1. TypeOK'
    BY <1>1, <1>3, CloseIsTyped DEF OpType, stateVars, IInv, TypeOK
  <2> QED BY <1>1, <1>3, <2>1, StoppedKeeps DEF CloseBackend, StopSources, stateVars
<1> QED BY <1>2, <1>3 DEF Activate

\* pause, resume and set_devices take the lock; nothing else changes.
LEMMA TakeKeeps ==
  ASSUME IInv, Begin("pause", "Active") \/ Begin("resume", "Paused") \/ ChooseBegins
  PROVE  IInv'
<1>1. /\ asked' \subseteq Calls /\ op.pc = "free"
      /\ UNCHANGED <<phase, generation, notices, shown, sources, captured, mixerPaused, recorder,
                     link, opened, ended, failing, watch, endpoint, issued, selection>>
  BY DEF Begin, ChooseBegins, Took, At, stateVars, uiVars, backendVars, sourceVars, endpointVars,
         IInv, TypeOK
<1>2. CASE op' = op
  <2>1. TypeOK'
    BY <1>1, <1>2 DEF IInv, TypeOK
  <2> QED BY <1>1, <1>2, <2>1, AsideKeeps
<1>3. CASE \/ Goto("pause") \/ Goto("resume")
           \/ Goto("devices") /\ phase \in {"Idle", "Failed"}
  <2>1. /\ op' \in OpType /\ op'.pc \in {"pause", "resume", "devices"}
        /\ op'.pc = "devices" => phase \in {"Idle", "Failed"}
    BY <1>3, GotoIsTyped DEF OpPlaces, OpType, IInv
  <2>2. TypeOK'
    BY <1>1, <2>1 DEF OpType, IInv, TypeOK
  <2>3. NoneFromTheFuture' /\ StartIsCurrent' /\ NotYetSourced' /\ ChoosingAtRest'
    BY <1>1, <2>1 DEF IInv, NoneFromTheFuture, StartIsCurrent, NotYetSourced, ChoosingAtRest,
                      StartPlaces
  <2>4. PauseIsTold' /\ StartsWithSelection' /\ EndedForGood' /\ PausedMeansSilent'
        /\ CapturesSelection' /\ ClosedAtRest'
    BY <1>1, <2>1 DEF IInv, PauseIsTold, StartsWithSelection, EndedForGood, PausedMeansSilent,
                      CapturesSelection, ClosedAtRest, SourcedPlaces
  <2> QED BY <2>2, <2>3, <2>4 DEF IInv
<1> QED BY <1>2, <1>3 DEF Begin, ChooseBegins, MayChoose

LEMMA TellKeeps ==
  ASSUME IInv, Tell("pause", TRUE, "paused") \/ Tell("resume", FALSE, "resumed")
  PROVE  IInv'
<1>1. UNCHANGED <<asked, shown, failing, watch, endpoint, issued, selection>>
  BY DEF Tell, endpointVars
<1>2. CASE CloseBackend /\ Fail
  <2>1. TypeOK'
    BY <1>1, <1>2, CloseIsTyped, FailIsTyped DEF OpType, Phases, IInv, TypeOK
  <2> QED BY <1>1, <1>2, <2>1, FailIsTyped, StoppedKeeps DEF CloseBackend, StopSources
<1>3. CASE /\ UNCHANGED <<stateVars, notices>>
           /\ \/ BackendPause(TRUE) /\ Goto("paused")
              \/ BackendPause(FALSE) /\ Goto("resumed")
  <2>1. UNCHANGED <<phase, generation, notices, sources, captured, recorder, link, opened, ended>>
    BY <1>3 DEF stateVars, BackendPause
  <2>2. /\ mixerPaused' \in BOOLEAN /\ op' \in OpType
        /\ \/ mixerPaused' = TRUE /\ op'.pc = "paused"
           \/ op'.pc = "resumed"
    BY <1>3, GotoIsTyped DEF BackendPause, OpPlaces, OpType, IInv
  <2>3. TypeOK'
    BY <1>1, <2>1, <2>2 DEF OpType, IInv, TypeOK
  <2>4. NoneFromTheFuture' /\ StartIsCurrent' /\ NotYetSourced' /\ ChoosingAtRest'
    BY <1>1, <2>1, <2>2 DEF IInv, NoneFromTheFuture, StartIsCurrent, NotYetSourced, ChoosingAtRest,
                            StartPlaces
  <2>5. PauseIsTold' /\ StartsWithSelection' /\ EndedForGood' /\ PausedMeansSilent'
        /\ CapturesSelection' /\ ClosedAtRest'
    BY <1>1, <2>1, <2>2 DEF IInv, PauseIsTold, StartsWithSelection, EndedForGood,
                            PausedMeansSilent, CapturesSelection, ClosedAtRest, SourcedPlaces
  <2> QED BY <2>3, <2>4, <2>5 DEF IInv
<1> QED BY <1>2, <1>3 DEF Tell

\* Paused only when the mixer is, and Active again only from Paused.
LEMMA FinishKeeps ==
  ASSUME IInv,
         \/ Finish("paused", "Active", "Paused")
         \/ Finish("resumed", "Paused", "Active")
         \/ Finish("stopped", "Stopping", "Idle")
  PROVE  IInv'
<1>1. /\ op' \in OpType /\ op'.pc = "free"
      /\ UNCHANGED <<generation, asked, shown, sources, captured, mixerPaused, recorder, link,
                     opened, ended, failing, watch, endpoint, issued, selection>>
  BY ReturnIsTyped DEF Finish, backendVars, sourceVars, endpointVars
<1>2. /\ phase' \in Phases /\ notices' \subseteq [by : Threads, phase : Phases]
      /\ \/ op.pc = "paused" /\ phase = "Active" /\ phase' = "Paused"
         \/ op.pc = "resumed" /\ phase = "Paused" /\ phase' = "Active"
         \/ op.pc = "stopped" /\ phase' \in {phase, "Idle"}
         \/ op.pc = "paused" /\ phase' = phase
         \/ op.pc = "resumed" /\ phase # "Paused" /\ phase' = phase
  <2>1. CASE Finish("paused", "Active", "Paused")
    BY <2>1, EnterIsTyped DEF Finish, Transition, At, Phases, IInv, TypeOK
  <2>2. CASE Finish("resumed", "Paused", "Active")
    BY <2>2, EnterIsTyped DEF Finish, Transition, At, Phases, IInv, TypeOK
  <2>3. CASE Finish("stopped", "Stopping", "Idle")
    BY <2>3, EnterIsTyped DEF Finish, Transition, At, Phases, IInv, TypeOK
  <2> QED BY <2>1, <2>2, <2>3
<1>3. TypeOK'
  BY <1>1, <1>2 DEF OpType, IInv, TypeOK
<1>4. /\ op.pc = "paused" /\ phase = "Active" /\ sources # 0 =>
           mixerPaused /\ captured = selection
      /\ phase = "Paused" /\ sources # 0 => captured = selection
  BY DEF IInv, PauseIsTold, CapturesSelection
<1> QED BY <1>1, <1>2, <1>3, <1>4, ReturnKeeps

LEMMA StopBeginsKeeps ==
  ASSUME IInv, StopBegins
  PROVE  IInv'
<1>1. /\ asked' \subseteq Calls /\ op.pc = "free"
      /\ UNCHANGED <<shown, sources, captured, mixerPaused, recorder, link, opened, ended, failing,
                     watch, endpoint, issued, selection>>
  BY DEF StopBegins, Took, At, backendVars, sourceVars, endpointVars, IInv, TypeOK
<1>2. CASE /\ generation < MaxGeneration /\ generation' = generation + 1
           /\ Enter("Stopping") /\ Goto("stop")
  <2>1. /\ generation' \in 0 .. MaxGeneration
        /\ phase' = "Stopping" /\ notices' \subseteq [by : Threads, phase : Phases]
        /\ op' \in OpType /\ op'.pc = "stop"
    BY <1>2, EnterIsTyped, GotoIsTyped, BoundsAssumption DEF Phases, OpPlaces, OpType, IInv, TypeOK
  <2>2. TypeOK'
    BY <1>1, <2>1 DEF OpType, Phases, IInv, TypeOK
  <2>3. NoneFromTheFuture' /\ EndedForGood'
    BY <1>1, <1>2 DEF IInv, TypeOK, NoneFromTheFuture, EndedForGood
  <2>4. /\ StartIsCurrent' /\ NotYetSourced' /\ ChoosingAtRest' /\ PauseIsTold'
        /\ StartsWithSelection' /\ PausedMeansSilent' /\ CapturesSelection' /\ ClosedAtRest'
    BY <2>1 DEF StartIsCurrent, NotYetSourced, ChoosingAtRest, PauseIsTold, StartsWithSelection,
                PausedMeansSilent, CapturesSelection, ClosedAtRest, StartPlaces, SourcedPlaces
  <2> QED BY <2>2, <2>3, <2>4 DEF IInv
<1>3. CASE UNCHANGED <<stateVars, op, notices>>
  <2>1. TypeOK'
    BY <1>1, <1>3 DEF stateVars, IInv, TypeOK
  <2> QED BY <1>1, <1>3, <2>1, AsideKeeps DEF stateVars
<1> QED BY <1>2, <1>3 DEF StopBegins

LEMMA StopClosesKeeps ==
  ASSUME IInv, StopCloses
  PROVE  IInv'
<1>1. /\ CloseBackend
      /\ UNCHANGED <<asked, shown, failing, watch, endpoint, issued, selection>>
  BY DEF StopCloses, endpointVars
<1>2. /\ phase' \in {phase, "Failed"} /\ generation' = generation
      /\ op' \in OpType /\ op'.pc \in {"free", "stopped"}
      /\ notices' \subseteq [by : Threads, phase : Phases]
  <2>1. CASE Fail
    BY <2>1, FailIsTyped
  <2>2. CASE Goto("stopped") /\ UNCHANGED <<stateVars, notices>>
    BY <2>2, GotoIsTyped DEF OpPlaces, OpType, stateVars, IInv, TypeOK
  <2> QED BY <2>1, <2>2 DEF StopCloses
<1>3. TypeOK'
  BY <1>1, <1>2, CloseIsTyped DEF OpType, Phases, IInv, TypeOK
<1>4. sources' = 0 /\ recorder' = 0 /\ link' = 0 /\ EndLink /\ opened' = opened
  BY <1>1 DEF CloseBackend, StopSources, EndLink
<1> QED BY <1>1, <1>2, <1>3, <1>4, StoppedKeeps

\* The selection changes only at rest.
LEMMA ChooseKeeps ==
  ASSUME IInv, Choose
  PROVE  IInv'
<1>1. /\ op.pc = "devices" /\ op' \in OpType /\ op'.pc = "free" /\ selection' \in Selections
      /\ UNCHANGED <<phase, generation, asked, notices, shown, sources, captured, mixerPaused,
                     recorder, link, opened, ended, failing, watch, endpoint, issued>>
  BY ReturnIsTyped DEF Choose, At, stateVars, uiVars, backendVars, sourceVars, endpointVars,
     IInv, TypeOK
<1>2. TypeOK'
  BY <1>1 DEF OpType, IInv, TypeOK
<1>3. phase \in {"Idle", "Failed"}
  BY <1>1 DEF IInv, ChoosingAtRest
<1> QED BY <1>1, <1>2, <1>3 DEF IInv, NoneFromTheFuture, StartIsCurrent, NotYetSourced,
          ChoosingAtRest, PauseIsTold, StartsWithSelection, ClosedAtRest, EndedForGood,
          PausedMeansSilent, CapturesSelection, StartPlaces, SourcedPlaces

-----------------------------------------------------------------------------
(* The theorems *)

LEMMA InitHolds == Init => IInv
<1> SUFFICES ASSUME Init PROVE IInv
  OBVIOUS
<1>1. /\ watch \in [Meetings -> WatchType] /\ op \in OpType
      /\ endpoint \in 0 .. MaxEndpoints /\ issued \in 0 .. MaxEndpoints
      /\ generation \in 0 .. MaxGeneration
  BY NoOpIsTyped, BoundsAssumption DEF Init, Unwatched, WatchType, WatchPlaces, Phases, OpType
<1>2. mixerPaused \in BOOLEAN
  BY Zenon DEF Init
<1>3. TypeOK
  BY <1>1, <1>2 DEF Init, WatchType, OpType, OrNone, Phases, Selections, TypeOK
<1>4. op.pc = "free" /\ sources = 0 /\ phase = "Idle"
  BY DEF Init, NoOp
<1>5. NoneFromTheFuture /\ EndedForGood
  BY DEF Init, NoneFromTheFuture, EndedForGood, OrNone
<1>6. /\ StartIsCurrent /\ NotYetSourced /\ ChoosingAtRest /\ PauseIsTold /\ StartsWithSelection
      /\ PausedMeansSilent /\ CapturesSelection /\ ClosedAtRest
  BY <1>4 DEF StartIsCurrent, NotYetSourced, ChoosingAtRest, PauseIsTold, StartsWithSelection,
              PausedMeansSilent, CapturesSelection, ClosedAtRest, StartPlaces, SourcedPlaces, Init
<1> QED BY <1>3, <1>5, <1>6 DEF IInv

LEMMA StepKeeps == IInv /\ [Next]_vars => IInv'
<1> SUFFICES ASSUME IInv, [Next]_vars PROVE IInv'
  OBVIOUS
<1>1. CASE UNCHANGED vars
  <2>1. TypeOK'
    BY <1>1 DEF vars, stateVars, uiVars, backendVars, sourceVars, endpointVars, IInv, TypeOK
  <2> QED BY <1>1, <2>1, AsideKeeps DEF vars, stateVars, backendVars, sourceVars
<1>2. CASE Operation
  BY <1>2, StartBeginsKeeps, CheckPermissionsKeeps, StartSourcesKeeps, CheckedKeeps,
     OpenRecorderKeeps, StartLinkKeeps, ActivateKeeps, TakeKeeps, TellKeeps, FinishKeeps,
     StopBeginsKeeps, StopClosesKeeps, ChooseKeeps DEF Operation
<1>3. CASE \E m \in Meetings : Watch(m)
  BY <1>3, WatchAsideKeeps, WatchBackendKeeps DEF Watch
<1>4. CASE \/ \E call \in Calls : Press(call)
           \/ \E notice \in notices : Send(notice)
           \/ Replace \/ Withdraw \/ WebviewRefuses \/ WorkerReports
  BY <1>4, OutsideKeeps
<1> QED BY <1>1, <1>2, <1>3, <1>4, TakeKeeps, WorkerFailsKeeps DEF Next

\* IInv holds in every reachable state.
THEOREM Invariance == Spec => []IInv
BY InitHolds, StepKeeps, PTL DEF Spec

\* Every variable keeps its type.
THEOREM TypeCorrect == Spec => []TypeOK
<1>1. IInv => TypeOK
  BY DEF IInv
<1> QED BY <1>1, Invariance, PTL

\* An idle shell holds no source, no recorder and no link.
THEOREM IdleIsClosed == Spec => []IdleMeansClosed
<1>1. IInv => IdleMeansClosed
  BY DEF IInv, ClosedAtRest, IdleMeansClosed
<1> QED BY <1>1, Invariance, PTL

\* A meeting that has sent END never gets a link again, whoever starts one.
THEOREM NeverReopened == Spec => []EndedForGood
<1>1. IInv => EndedForGood
  BY DEF IInv
<1> QED BY <1>1, Invariance, PTL

\* A paused meeting captures nothing, whatever its watcher does to the link.
THEOREM PauseHolds == Spec => []PausedMeansSilent
<1>1. IInv => PausedMeansSilent
  BY DEF IInv
<1> QED BY <1>1, Invariance, PTL

\* A running meeting captures the devices that are shown as chosen.
THEOREM SelectionHolds == Spec => []CapturesSelection
<1>1. IInv => CapturesSelection
  BY DEF IInv
<1> QED BY <1>1, Invariance, PTL

-----------------------------------------------------------------------------
(* On an orderly window *)

RecordedPlaces == {"recorded", "link", "linked"}

Closed == sources = 0 /\ recorder = 0 /\ link = 0
Closing == \E m \in Meetings : WatchAt(m, "close")

\* A button is pressed only while no call is made or running.
OneCallAtATime == asked # {} => op.pc = "free" /\ \E call \in Calls : asked = {call}

\* Start is pressed only when everything is closed, and nothing is closing.
StartsAtRest ==
  "start" \in asked => phase \in {"Idle", "Failed"} /\ failing = 0 /\ Closed /\ ~Closing

\* Whoever fails a meeting closes it, or is about to.
FailedIsClosed == phase = "Failed" /\ op.pc \notin StartPlaces /\ ~Closing => Closed
FailingIsClosed == failing # 0 => Closed /\ (failing = generation \/ op.pc = "stop")
ClosingIsOver == Closing => phase \in {"Failed", "Stopping", "Idle"}
StopIsStopping == op.pc \in {"stop", "stopped"} => phase = "Stopping"

\* Only stop outruns the meeting whose sources run.
SourcesAreCurrent == sources \in {0, generation} \/ op.pc = "stop"

\* A meeting that is not active yet has no watcher.
NotYetWatched ==
  \A m \in Meetings :
    m > generation \/ (op.pc \in StartPlaces /\ m = op.meeting) => watch[m].pc = "none"

\* A start opens sources, recorder and link in turn, from nothing.
StartOpensInTurn ==
  op.pc \in StartPlaces =>
    /\ phase \in {"Preflight", "Starting", "Failed"} /\ ~Closing
    /\ sources \in {0, op.meeting} /\ recorder \in {0, op.meeting} /\ link \in {0, op.meeting}
    /\ op.pc \notin SourcedPlaces => sources = 0
    /\ op.pc \notin RecordedPlaces => recorder = 0
    /\ op.pc # "linked" => link = 0

\* What a start opened is there, unless the worker is failing the meeting.
StartIsWhole ==
  phase = "Starting" /\ failing = 0 =>
    /\ op.pc \in SourcedPlaces => sources = op.meeting
    /\ op.pc \in RecordedPlaces => recorder = op.meeting
    /\ op.pc = "linked" => link = op.meeting
RunningIsWhole ==
  phase \in {"Active", "Paused"} /\ failing = 0 =>
    sources = generation /\ recorder = generation /\ link = generation

\* A meeting that was opened has been ended, or has the link.
OneOpen == opened = ended \cup ({link} \ {0})

OInv ==
  /\ OneCallAtATime /\ StartsAtRest /\ FailedIsClosed /\ FailingIsClosed /\ ClosingIsOver
  /\ StopIsStopping /\ SourcesAreCurrent /\ NotYetWatched /\ StartOpensInTurn /\ StartIsWhole
  /\ RunningIsWhole /\ OneOpen /\ NoMixedAudio

\* No watcher begins, and none begins or ends to close.
WatchersStay ==
  /\ Closing' = Closing
  /\ \A m \in Meetings : watch[m].pc = "none" => watch'[m].pc = "none"

\* A step that opens and closes nothing, and changes no phase.
LEMMA QuietKeeps ==
  ASSUME OInv, WatchersStay,
         UNCHANGED <<phase, generation, failing, sources, recorder, link, opened, ended>>,
         \/ op' = op /\ asked' \in {asked, {}}
         \/ asked' = {} /\ op.pc \notin StartPlaces \cup {"stop", "stopped"}
                        /\ op'.pc \notin StartPlaces \cup {"stop", "stopped"}
  PROVE  OInv'
<1>1. OneCallAtATime' /\ StartsAtRest' /\ FailedIsClosed' /\ FailingIsClosed' /\ ClosingIsOver'
  BY DEF OInv, WatchersStay, OneCallAtATime, StartsAtRest, FailedIsClosed, FailingIsClosed,
         ClosingIsOver, Closed
<1>2. StopIsStopping' /\ SourcesAreCurrent' /\ NotYetWatched' /\ StartOpensInTurn'
  BY DEF OInv, WatchersStay, StopIsStopping, SourcesAreCurrent, NotYetWatched, StartOpensInTurn
<1>3. StartIsWhole' /\ RunningIsWhole' /\ OneOpen' /\ NoMixedAudio'
  BY DEF OInv, StartIsWhole, RunningIsWhole, OneOpen, NoMixedAudio, SourcedPlaces, RecordedPlaces,
         StartPlaces
<1> QED BY <1>1, <1>2, <1>3 DEF OInv

\* A step after which everything is closed, and no meeting runs unless the
\* worker has yet to fail it.
LEMMA ClosedKeeps ==
  ASSUME IInv, OInv, Closed', OneOpen',
         Closing' => Closing, \A m \in Meetings : watch[m].pc = "none" => watch'[m].pc = "none",
         generation' = generation, phase' \in {phase, "Failed"},
         phase' \in {"Active", "Paused"} => failing' # 0,
         phase' = "Starting" /\ op'.pc \in SourcedPlaces => failing' # 0,
         failing' \in {0, failing, sources},
         \/ op' = op /\ asked' \in {asked, {}}
         \/ asked' = {} /\ op'.pc \in {"free", "stopped"} /\ failing' = 0
              /\ (op'.pc = "stopped" => phase' = "Stopping"),
         op.pc \in {"stop", "stopped"} /\ op' = op => phase' = phase
  PROVE  OInv'
<1>1. sources' = 0 /\ recorder' = 0 /\ link' = 0
  BY DEF Closed
<1>2. OneCallAtATime' /\ StartsAtRest'
  BY <1>1 DEF OInv, OneCallAtATime, StartsAtRest, Closed
<1>3. FailedIsClosed' /\ FailingIsClosed'
  BY <1>1 DEF OInv, FailedIsClosed, FailingIsClosed, SourcesAreCurrent
<1>4. ClosingIsOver' /\ StopIsStopping' /\ SourcesAreCurrent' /\ NotYetWatched'
  BY <1>1 DEF OInv, ClosingIsOver, StopIsStopping, SourcesAreCurrent, NotYetWatched, StartPlaces
<1>5. StartOpensInTurn'
  BY <1>1 DEF OInv, StartOpensInTurn, StartPlaces
<1>6. StartIsWhole' /\ RunningIsWhole' /\ NoMixedAudio'
  BY <1>1 DEF StartIsWhole, RunningIsWhole, NoMixedAudio, SourcedPlaces, RecordedPlaces
<1> QED BY <1>2, <1>3, <1>4, <1>5, <1>6 DEF OInv

\* CloseBackend ends the link, if there is one.
LEMMA CloseCloses ==
  ASSUME OneOpen, CloseBackend
  PROVE  Closed' /\ OneOpen'
BY DEF CloseBackend, EndLink, StopSources, Closed, OneOpen

\* The operation lock is free for the one call that was made.
LEMMA TookOne ==
  ASSUME OInv, NEW call, Took(call)
  PROVE  asked' = {} /\ op.pc = "free" /\ asked = {call}
BY DEF OInv, OneCallAtATime, Took, At

LEMMA WatchersUnchanged ==
  ASSUME watch' = watch
  PROVE  WatchersStay
BY DEF WatchersStay, Closing, WatchAt

\* A watcher that goes elsewhere, and not to close.
LEMMA WatcherMoves ==
  ASSUME TypeOK, NEW m \in Meetings, watch[m].pc \notin {"none", "close"},
         watch'[m].pc # "close", \A n \in Meetings \ {m} : watch'[n] = watch[n]
  PROVE  WatchersStay
<1>1. \A n \in Meetings : watch'[n].pc = "close" <=> watch[n].pc = "close"
  OBVIOUS
<1>2. \A n \in Meetings : watch[n].pc = "none" => watch'[n].pc = "none"
  OBVIOUS
<1>3. Closing' = Closing
  BY <1>1 DEF Closing, WatchAt
<1> QED BY <1>2, <1>3 DEF WatchersStay

-----------------------------------------------------------------------------
(* The orderly window, the supervisor and the worker *)

LEMMA OrderlyPress ==
  ASSUME Orderly, IInv, OInv, NEW call \in Calls, Press(call)
  PROVE  OInv'
<1>1. /\ asked' = {call} /\ op = NoOp /\ failing = 0 /\ ~Closing /\ shown = phase
      /\ UNCHANGED <<phase, generation, op, sources, recorder, link, opened, ended, failing, watch>>
  BY DEF Press, UpToDate, Closing, WatchAt, stateVars, backendVars, sourceVars
<1>2. op.pc = "free" /\ op.pc \notin StartPlaces
  BY <1>1 DEF NoOp, StartPlaces
<1>3. call = "start" => phase \in {"Idle", "Failed"}
  BY <1>1 DEF Press, Enabled
<1>4. ~Closing'
  BY <1>1 DEF Closing, WatchAt
<1>5. call = "start" => Closed
  BY <1>1, <1>2, <1>3 DEF IInv, ClosedAtRest, OInv, FailedIsClosed, Closed
<1>6. OneCallAtATime' /\ StartsAtRest'
  BY <1>1, <1>2, <1>3, <1>4, <1>5 DEF OneCallAtATime, StartsAtRest, Closed
<1>7. FailedIsClosed' /\ FailingIsClosed' /\ ClosingIsOver' /\ StopIsStopping' /\ SourcesAreCurrent'
  BY <1>1, <1>4 DEF OInv, FailedIsClosed, FailingIsClosed, ClosingIsOver, StopIsStopping,
                    SourcesAreCurrent, Closed
<1>8. NotYetWatched' /\ StartOpensInTurn' /\ StartIsWhole' /\ RunningIsWhole' /\ OneOpen' /\ NoMixedAudio'
  BY <1>1, <1>2, <1>4 DEF OInv, NotYetWatched, StartOpensInTurn, StartIsWhole, RunningIsWhole,
                    OneOpen, NoMixedAudio
<1> QED BY <1>6, <1>7, <1>8 DEF OInv

LEMMA OrderlyOutside ==
  ASSUME IInv, OInv,
         \/ \E notice \in notices : Send(notice)
         \/ Replace \/ Withdraw \/ WebviewRefuses \/ WorkerFails \/ WorkerReports
  PROVE  OInv'
<1>1. watch' = watch /\ generation' = generation /\ op' = op
  BY DEF Send, Replace, Withdraw, WebviewRefuses, WorkerFails, WorkerReports, stateVars
<1>2. WatchersStay
  BY <1>1, WatchersUnchanged
<1>3. CASE (\E notice \in notices : Send(notice)) \/ Replace \/ Withdraw
  <2>1. UNCHANGED <<phase, generation, asked, op, failing, sources, recorder, link, opened, ended>>
    BY <1>3 DEF Send, Replace, Withdraw, stateVars, uiVars, backendVars, sourceVars
  <2> QED BY <1>2, <2>1, QuietKeeps
<1>4. CASE WebviewRefuses
  <2>1. /\ "start" \in asked /\ asked' = asked \ {"start"} /\ phase' = "Failed"
        /\ UNCHANGED <<failing, sources, recorder, link, opened, ended>>
    BY <1>4 DEF WebviewRefuses, backendVars, sourceVars
  <2>2. asked' = {} /\ Closed /\ op.pc = "free" /\ failing = 0
    BY <2>1 DEF OInv, OneCallAtATime, StartsAtRest
  <2>3. Closed' /\ OneOpen'
    BY <2>1, <2>2 DEF OInv, OneOpen, Closed
  <2> QED BY <1>1, <1>2, <2>1, <2>2, <2>3, ClosedKeeps DEF WatchersStay
<1>5. CASE WorkerFails
  <2>1. /\ CloseBackend /\ failing' = sources /\ sources # 0 /\ failing = 0
        /\ UNCHANGED <<phase, asked>>
    BY <1>5 DEF WorkerFails, Serving, stateVars, uiVars
  <2>2. Closed' /\ OneOpen'
    BY <2>1, CloseCloses DEF OInv
  <2> QED BY <1>1, <1>2, <2>1, <2>2, ClosedKeeps DEF WatchersStay
<1>6. CASE WorkerReports
  <2>1. /\ failing # 0 /\ failing' = 0 /\ phase' \in {phase, "Failed"}
        /\ UNCHANGED <<asked, sources, recorder, link, opened, ended>>
        /\ failing = generation /\ phase \notin {"Idle", "Stopping", "Failed"} => phase' = "Failed"
        /\ phase = "Stopping" => phase' = phase
    BY <1>6 DEF WorkerReports, FailIfCurrent, backendVars, sourceVars
  <2>2. Closed /\ (failing = generation \/ op.pc = "stop")
    BY <2>1 DEF OInv, FailingIsClosed
  <2>3. Closed' /\ OneOpen'
    BY <2>1, <2>2 DEF OInv, OneOpen, Closed
  <2>4. phase' \notin {"Starting", "Active", "Paused"}
    BY <2>1, <2>2 DEF OInv, StopIsStopping
  <2>5. op.pc \in {"stop", "stopped"} => phase' = phase
    BY <2>1 DEF OInv, StopIsStopping
  <2> QED BY <1>1, <1>2, <2>1, <2>3, <2>4, <2>5, ClosedKeeps DEF WatchersStay
<1> QED BY <1>3, <1>4, <1>5, <1>6

-----------------------------------------------------------------------------
(* The watchers of an orderly window *)

\* Where a watcher of meeting m goes.
LEMMA WatchGoes ==
  ASSUME TypeOK, NEW m \in Meetings, NEW pc, WatchGoto(m, pc)
  PROVE  watch'[m].pc = pc /\ \A n \in Meetings \ {m} : watch'[n] = watch[n]
BY DEF TypeOK, WatchGoto

LEMMA OrderlyWatchLooks ==
  ASSUME IInv, OInv, NEW m \in Meetings, WatchLooks(m) \/ WatchAsks(m) \/ WatchPauses(m)
  PROVE  OInv'
<1>1. /\ UNCHANGED <<phase, generation, asked, op, failing, sources, recorder, link, opened, ended>>
      /\ watch[m].pc \notin {"none", "close"}
  BY DEF WatchLooks, WatchAsks, WatchPauses, BackendPause, WatchAt, stateVars, uiVars, backendVars,
         sourceVars
<1>2. watch'[m].pc # "close" /\ \A n \in Meetings \ {m} : watch'[n] = watch[n]
  <2>1. CASE WatchLooks(m) \/ WatchAsks(m)
    BY <2>1 DEF WatchLooks, WatchAsks, IInv, TypeOK
  <2>2. CASE WatchPauses(m)
    <3>1. WatchGoto(m, "sleep") \/ WatchGoto(m, "fail")
      BY <2>2 DEF WatchPauses
    <3> QED BY <3>1, WatchGoes DEF IInv
  <2> QED BY <2>1, <2>2
<1>3. WatchersStay
  BY <1>1, <1>2, WatcherMoves DEF IInv
<1> QED BY <1>1, <1>3, QuietKeeps

\* A new link for the meeting whose sources run is one for the current meeting,
\* which no start is under way for.
LEMMA OrderlyWatchStartsLink ==
  ASSUME IInv, OInv, NEW m \in Meetings, WatchStartsLink(m)
  PROVE  OInv'
<1>1. /\ UNCHANGED <<phase, generation, asked, op, failing>> /\ failing = 0
      /\ watch[m].pc = "link"
  BY DEF WatchStartsLink, Serving, WatchAt, stateVars, uiVars
<1>2. watch'[m].pc # "close" /\ \A n \in Meetings \ {m} : watch'[n] = watch[n]
  <2>1. PICK pc \in {"pause", "sleep", "fail"} : WatchGoto(m, pc)
    BY DEF WatchStartsLink
  <2> QED BY <2>1, WatchGoes DEF IInv
<1>3. WatchersStay
  BY <1>1, <1>2, WatcherMoves DEF IInv
<1>4. CASE UNCHANGED backendVars
  BY <1>1, <1>3, <1>4, QuietKeeps DEF backendVars, sourceVars
<1>5. CASE BackendStartLink(m)
  <2>1. /\ sources = m /\ link' = m /\ opened' = opened \cup {m} /\ m # 0
        /\ UNCHANGED <<sources, recorder, ended>>
    BY <1>5 DEF BackendStartLink, sourceVars, Meetings
  <2>2. op.pc \notin StartPlaces
    BY <1>1, <2>1 DEF OInv, NotYetWatched, StartOpensInTurn
  <2>3. ~Closed /\ ~Closed'
    BY <2>1 DEF Closed
  <2>4. OneCallAtATime' /\ StartsAtRest' /\ FailedIsClosed' /\ FailingIsClosed' /\ ClosingIsOver'
    BY <1>1, <1>3, <2>3 DEF OInv, WatchersStay, OneCallAtATime, StartsAtRest, FailedIsClosed,
                            FailingIsClosed, ClosingIsOver
  <2>5. StopIsStopping' /\ SourcesAreCurrent' /\ NotYetWatched' /\ StartOpensInTurn'
    BY <1>1, <1>3, <2>1, <2>2 DEF OInv, WatchersStay, StopIsStopping, SourcesAreCurrent,
                                  NotYetWatched, StartOpensInTurn
  <2>6. StartIsWhole' /\ RunningIsWhole'
    BY <1>1, <2>1, <2>2 DEF OInv, StartIsWhole, RunningIsWhole, StartPlaces, SourcedPlaces,
                            RecordedPlaces
  <2>7. NoMixedAudio' /\ OneOpen'
    <3>1. link \in {0, m}
      BY <2>1 DEF OInv, NoMixedAudio
    <3>2. m \notin ended
      BY <2>1 DEF IInv, NoneFromTheFuture
    <3> QED BY <2>1, <3>1, <3>2 DEF OInv, NoMixedAudio, OneOpen
  <2> QED BY <2>4, <2>5, <2>6, <2>7 DEF OInv
<1> QED BY <1>4, <1>5 DEF WatchStartsLink

\* fail_watched_session: only a running meeting is failed, never one that starts.
LEMMA OrderlyWatchFails ==
  ASSUME IInv, OInv, NEW m \in Meetings, WatchFails(m)
  PROVE  OInv'
<1>1. /\ UNCHANGED <<generation, asked, op, failing, sources, recorder, link, opened, ended>>
      /\ watch[m].pc = "fail"
  BY DEF WatchFails, WatchAt, uiVars, backendVars, sourceVars
<1>2. op.pc \in StartPlaces => m # generation
  BY <1>1 DEF IInv, StartIsCurrent, OInv, NotYetWatched
<1>3. CASE ~Failable(m)
  <2>1. phase' = phase /\ WatchGoto(m, "done")
    BY <1>3 DEF WatchFails
  <2>2. watch'[m].pc # "close" /\ \A n \in Meetings \ {m} : watch'[n] = watch[n]
    BY <2>1, WatchGoes DEF IInv
  <2>3. WatchersStay
    BY <1>1, <2>2, WatcherMoves DEF IInv
  <2> QED BY <1>1, <2>1, <2>3, QuietKeeps
<1>4. CASE Failable(m)
  <2>1. phase' = "Failed" /\ WatchGoto(m, "close")
    BY <1>4 DEF WatchFails
  <2>2. watch'[m].pc = "close" /\ \A n \in Meetings \ {m} : watch'[n] = watch[n]
    BY <2>1, WatchGoes DEF IInv
  <2>3. Closing' /\ op.pc \notin StartPlaces
    BY <1>2, <1>4, <2>2 DEF Closing, WatchAt, Failable
  <2>4. phase \notin {"Idle", "Stopping", "Failed"} /\ generation = m
    BY <1>4 DEF Failable
  <2>5. "start" \notin asked /\ op.pc \notin {"stop", "stopped"}
    BY <2>4 DEF OInv, StartsAtRest, StopIsStopping
  <2>6. NotYetWatched'
    BY <1>1, <2>2, <2>3, <2>4 DEF OInv, NotYetWatched, IInv, TypeOK, Meetings
  <2>7. /\ OneCallAtATime' /\ StartsAtRest' /\ FailedIsClosed' /\ FailingIsClosed' /\ ClosingIsOver'
        /\ StopIsStopping' /\ SourcesAreCurrent' /\ StartOpensInTurn'
    BY <1>1, <2>1, <2>3, <2>5 DEF OInv, OneCallAtATime, StartsAtRest, FailedIsClosed,
          FailingIsClosed, Closed, ClosingIsOver, StopIsStopping, SourcesAreCurrent, StartOpensInTurn
  <2>8. StartIsWhole' /\ RunningIsWhole' /\ OneOpen' /\ NoMixedAudio'
    BY <1>1, <2>1 DEF OInv, StartIsWhole, RunningIsWhole, OneOpen, NoMixedAudio
  <2> QED BY <2>6, <2>7, <2>8 DEF OInv
<1> QED BY <1>3, <1>4

LEMMA OrderlyWatchCloses ==
  ASSUME IInv, OInv, NEW m \in Meetings, WatchCloses(m)
  PROVE  OInv'
<1>1. /\ CloseBackend /\ WatchGoto(m, "done") /\ watch[m].pc = "close"
      /\ UNCHANGED <<phase, generation, asked, op, failing>>
  BY DEF WatchCloses, WatchAt, stateVars
<1>2. watch'[m].pc = "done" /\ \A n \in Meetings \ {m} : watch'[n] = watch[n]
  BY <1>1, WatchGoes DEF IInv
<1>3. \A n \in Meetings : watch'[n].pc = "close" => watch[n].pc = "close"
  BY <1>2
<1>4. (Closing' => Closing) /\ Closing
  BY <1>1, <1>3 DEF Closing, WatchAt
<1>5. \A n \in Meetings : watch[n].pc = "none" => watch'[n].pc = "none"
  BY <1>1, <1>2
<1>6. Closed' /\ OneOpen'
  BY <1>1, CloseCloses DEF OInv
<1>7. phase \notin {"Starting", "Active", "Paused"}
  BY <1>4 DEF OInv, ClosingIsOver
<1> QED BY <1>1, <1>4, <1>5, <1>6, <1>7, ClosedKeeps

-----------------------------------------------------------------------------
(* The operation lock on an orderly window *)

LEMMA GotoGoes ==
  ASSUME TypeOK, NEW pc, Goto(pc)
  PROVE  op'.pc = pc /\ op'.meeting = op.meeting
BY DEF TypeOK, Goto

LEMMA ReturnFrees ==
  ASSUME Return
  PROVE  op'.pc = "free"
BY DEF Return, NoOp

\* Nobody presses a button while a call runs.
LEMMA NoneAsked ==
  ASSUME OInv, op.pc # "free"
  PROVE  asked = {}
BY DEF OInv, OneCallAtATime

LEMMA OrderlyStartBegins ==
  ASSUME IInv, OInv, StartBegins
  PROVE  OInv'
<1>1. /\ UNCHANGED <<failing, sources, recorder, link, opened, ended, watch>>
      /\ asked' = {} /\ "start" \in asked /\ op.pc = "free"
  BY TookOne DEF StartBegins, Took, backendVars, sourceVars
<1>2. phase \in {"Idle", "Failed"} /\ failing = 0 /\ Closed /\ ~Closing
  BY <1>1 DEF OInv, StartsAtRest
<1>3. /\ generation' = generation + 1 /\ phase' = "Preflight"
      /\ op' = [pc |-> "permissions", meeting |-> generation + 1, endpoint |-> endpoint]
  BY <1>2 DEF StartBegins, BeginPreflight, Enter
<1>4. op'.pc = "permissions" /\ op'.meeting = generation' /\ ~Closing'
  BY <1>1, <1>2, <1>3 DEF Closing, WatchAt
<1>5. NotYetWatched'
  <2>1. generation \in Nat /\ Meetings \subseteq Nat
    BY BoundsAssumption DEF IInv, TypeOK, Meetings
  <2>2. ASSUME NEW m \in Meetings, m > generation' \/ m = op'.meeting
        PROVE  watch'[m].pc = "none"
    BY <1>1, <1>3, <1>4, <2>1, <2>2 DEF OInv, NotYetWatched
  <2> QED BY <2>2 DEF NotYetWatched
<1>6. /\ OneCallAtATime' /\ StartsAtRest' /\ FailedIsClosed' /\ FailingIsClosed' /\ ClosingIsOver'
      /\ StopIsStopping' /\ SourcesAreCurrent'
  BY <1>1, <1>2, <1>3, <1>4 DEF OneCallAtATime, StartsAtRest, FailedIsClosed, FailingIsClosed,
        Closed, ClosingIsOver, StopIsStopping, SourcesAreCurrent
<1>7. StartOpensInTurn' /\ StartIsWhole' /\ RunningIsWhole' /\ OneOpen' /\ NoMixedAudio'
  BY <1>1, <1>2, <1>3, <1>4 DEF StartOpensInTurn, StartIsWhole, RunningIsWhole, OInv, OneOpen,
        NoMixedAudio, Closed
<1> QED BY <1>5, <1>6, <1>7 DEF OInv

\* What the places of a start have in common: no call is asked for, the phase is
\* the start's or Failed, and no watcher is about.
LEMMA WhileStarting ==
  ASSUME IInv, OInv, op.pc \in StartPlaces
  PROVE  /\ asked = {} /\ phase \in {"Preflight", "Starting", "Failed"} /\ ~Closing
         /\ op.meeting = generation
BY NoneAsked DEF IInv, StartIsCurrent, OInv, StartOpensInTurn, StartPlaces

\* A start that goes on to its next place, and opens what it opens there.
LEMMA StartOnKeeps ==
  ASSUME IInv, OInv, watch' = watch, UNCHANGED <<generation, asked, failing>>, failing = 0 \/
           UNCHANGED <<sources, recorder, link>>,
         op.pc \in StartPlaces, op'.pc \in StartPlaces, op'.meeting = op.meeting,
         phase' = phase \/ (phase = "Preflight" /\ phase' = "Starting"),
         StartOpensInTurn', StartIsWhole', OneOpen', NoMixedAudio'
  PROVE  OInv'
<1>1. /\ asked = {} /\ phase \in {"Preflight", "Starting", "Failed"} /\ ~Closing
      /\ op.meeting = generation /\ ~Closing'
  BY WhileStarting DEF Closing, WatchAt
<1>2. OneCallAtATime' /\ StartsAtRest' /\ FailedIsClosed' /\ ClosingIsOver' /\ StopIsStopping'
  BY <1>1 DEF OneCallAtATime, StartsAtRest, FailedIsClosed, ClosingIsOver, StopIsStopping,
              StartPlaces
<1>3. FailingIsClosed' /\ SourcesAreCurrent' /\ RunningIsWhole' /\ NotYetWatched'
  BY <1>1 DEF OInv, FailingIsClosed, Closed, SourcesAreCurrent, StartOpensInTurn, RunningIsWhole,
              NotYetWatched, StartPlaces
<1> QED BY <1>2, <1>3 DEF OInv

\* A start that gives up, with everything closed.
LEMMA StartGivesUp ==
  ASSUME IInv, OInv, watch' = watch, UNCHANGED <<generation, asked>>, failing = 0, failing' = 0,
         op.pc \in StartPlaces, op'.pc = "free", phase' \in {phase, "Failed"},
         Closed', OneOpen'
  PROVE  OInv'
<1>1. asked' = {} /\ phase' \notin {"Active", "Paused"} /\ op'.pc \notin SourcedPlaces
  BY WhileStarting DEF SourcedPlaces
<1>2. WatchersStay
  BY WatchersUnchanged
<1> QED BY <1>1, <1>2, ClosedKeeps DEF WatchersStay

LEMMA OrderlyCheckPermissions ==
  ASSUME IInv, OInv, CheckPermissions
  PROVE  OInv'
<1>1. /\ op.pc = "permissions" /\ failing = 0 /\ watch' = watch
      /\ UNCHANGED <<asked, failing, sources, recorder, link, opened, ended>>
  BY DEF CheckPermissions, At, Serving, backendVars, sourceVars
<1>2. op.pc \in StartPlaces /\ Closed
  BY <1>1 DEF StartPlaces, SourcedPlaces, RecordedPlaces, OInv, StartOpensInTurn, Closed
<1>3. Closed' /\ OneOpen' /\ NoMixedAudio'
  BY <1>1, <1>2 DEF OInv, OneOpen, NoMixedAudio, Closed
<1>4. CASE Fail \/ (phase # "Preflight" /\ Return /\ UNCHANGED <<stateVars, notices>>)
  <2>1. op'.pc = "free" /\ generation' = generation /\ phase' \in {phase, "Failed"}
    BY <1>4, ReturnFrees DEF Fail, Enter, stateVars
  <2> QED BY <1>1, <1>2, <1>3, <2>1, StartGivesUp
<1>5. CASE Transition("Preflight", "Starting") /\ Goto("sources") /\ UNCHANGED generation
  <2>1. /\ phase = "Preflight" /\ phase' = "Starting" /\ op'.pc = "sources"
        /\ op'.meeting = op.meeting /\ generation' = generation
    BY <1>5, GotoGoes DEF Transition, Enter, IInv
  <2>2. StartOpensInTurn' /\ StartIsWhole'
    <3>1. ~Closing'
      BY <1>1, <1>2, WhileStarting DEF Closing, WatchAt
    <3> QED BY <1>1, <1>3, <2>1, <3>1 DEF StartOpensInTurn, StartIsWhole, Closed, SourcedPlaces,
                RecordedPlaces
  <2>3. op'.pc \in StartPlaces
    BY <2>1 DEF StartPlaces
  <2> QED BY <1>1, <1>2, <1>3, <2>1, <2>2, <2>3, StartOnKeeps
<1> QED BY <1>4, <1>5 DEF CheckPermissions

LEMMA OrderlyStartSources ==
  ASSUME IInv, OInv, StartSources
  PROVE  OInv'
<1>1. /\ op.pc = "sources" /\ failing = 0 /\ watch' = watch
      /\ UNCHANGED <<asked, failing, recorder, link, opened, ended>>
  BY DEF StartSources, At, Serving
<1>2. op.pc \in StartPlaces /\ Closed
  BY <1>1 DEF StartPlaces, SourcedPlaces, RecordedPlaces, OInv, StartOpensInTurn, Closed
<1>3. OneOpen'
  BY <1>1 DEF OInv, OneOpen
<1>4. CASE sources' = 0 /\ captured' = Default /\ Fail
  <2>1. op'.pc = "free" /\ generation' = generation /\ phase' = "Failed"
    BY <1>4, ReturnFrees DEF Fail, Enter
  <2>2. Closed'
    BY <1>1, <1>2, <1>4 DEF Closed
  <2> QED BY <1>1, <1>2, <1>3, <2>1, <2>2, StartGivesUp
<1>5. CASE /\ sources' = op.meeting /\ captured' = selection /\ Goto("sourced")
           /\ UNCHANGED <<stateVars, notices>>
  <2>1. /\ op'.pc = "sourced" /\ op'.meeting = op.meeting /\ UNCHANGED <<phase, generation>>
    BY <1>5, GotoGoes DEF stateVars, IInv
  <2>2. ~Closing' /\ phase \in {"Preflight", "Starting", "Failed"}
    BY <1>1, <1>2, WhileStarting DEF Closing, WatchAt
  <2>3. StartOpensInTurn' /\ StartIsWhole' /\ NoMixedAudio'
    BY <1>1, <1>2, <1>5, <2>1, <2>2 DEF StartOpensInTurn, StartIsWhole, NoMixedAudio, Closed,
                RecordedPlaces, SourcedPlaces, StartPlaces
  <2>4. op'.pc \in StartPlaces
    BY <2>1 DEF StartPlaces
  <2> QED BY <1>1, <1>2, <1>3, <2>1, <2>3, <2>4, StartOnKeeps
<1> QED BY <1>4, <1>5 DEF StartSources

LEMMA OrderlyChecked ==
  ASSUME IInv, OInv, SourcesChecked \/ RecorderChecked
  PROVE  OInv'
<1>1. /\ op.pc \in {"sourced", "recorded"} /\ watch' = watch
      /\ UNCHANGED <<phase, generation, asked, failing, link, opened, ended>>
  BY DEF SourcesChecked, RecorderChecked, At, stateVars, uiVars
<1>2. op.pc \in StartPlaces /\ link = 0
  BY <1>1 DEF StartPlaces, OInv, StartOpensInTurn
<1>3. OneOpen'
  BY <1>1 DEF OInv, OneOpen
<1>4. CASE UNCHANGED <<sourceVars, recorder>> /\ (\/ op.pc = "sourced" /\ Goto("recorder")
                                                  \/ op.pc = "recorded" /\ Goto("link"))
  <2>1. /\ \/ op.pc = "sourced" /\ op'.pc = "recorder"
           \/ op.pc = "recorded" /\ op'.pc = "link"
        /\ op'.meeting = op.meeting /\ UNCHANGED <<sources, recorder>>
    BY <1>4, GotoGoes DEF sourceVars, IInv
  <2>2. ~Closing' /\ phase \in {"Preflight", "Starting", "Failed"}
    BY <1>1, <1>2, WhileStarting DEF Closing, WatchAt
  <2>3. StartOpensInTurn' /\ StartIsWhole' /\ NoMixedAudio'
    BY <1>1, <1>2, <2>1, <2>2 DEF OInv, StartOpensInTurn, StartIsWhole, NoMixedAudio, StartPlaces,
                SourcedPlaces, RecordedPlaces
  <2>4. op'.pc \in StartPlaces
    BY <2>1 DEF StartPlaces
  <2> QED BY <1>1, <1>2, <1>3, <2>1, <2>3, <2>4, StartOnKeeps
<1>5. CASE Serving /\ recorder' \in {0, recorder} /\ StopSources /\ Return
           /\ (op.pc = "recorded" => recorder' = 0)
  <2>1. op'.pc = "free" /\ failing = 0 /\ sources' = 0
    BY <1>5, ReturnFrees DEF Serving, StopSources
  <2>2. recorder' = 0
    BY <1>1, <1>2, <1>5 DEF OInv, StartOpensInTurn, RecordedPlaces
  <2>3. Closed'
    BY <1>1, <1>2, <2>1, <2>2 DEF Closed
  <2> QED BY <1>1, <1>2, <1>3, <2>1, <2>3, StartGivesUp
<1> QED BY <1>4, <1>5 DEF SourcesChecked, RecorderChecked, At

LEMMA OrderlyOpenRecorder ==
  ASSUME IInv, OInv, OpenRecorder
  PROVE  OInv'
<1>1. /\ op.pc = "recorder" /\ failing = 0 /\ watch' = watch
      /\ UNCHANGED <<asked, failing, link, opened, ended>>
  BY DEF OpenRecorder, At, Serving
<1>2. op.pc \in StartPlaces /\ recorder = 0 /\ link = 0 /\ sources \in {0, op.meeting}
  BY <1>1 DEF StartPlaces, RecordedPlaces, OInv, StartOpensInTurn
<1>3. OneOpen'
  BY <1>1 DEF OInv, OneOpen
<1>4. CASE StopSources /\ Fail /\ UNCHANGED recorder
  <2>1. op'.pc = "free" /\ generation' = generation /\ phase' = "Failed" /\ sources' = 0
    BY <1>4, ReturnFrees DEF Fail, Enter, StopSources
  <2>2. Closed'
    BY <1>1, <1>2, <1>4, <2>1 DEF Closed
  <2> QED BY <1>1, <1>2, <1>3, <2>1, <2>2, StartGivesUp
<1>5. CASE recorder' = op.meeting /\ Goto("recorded") /\ UNCHANGED <<stateVars, notices, sourceVars>>
  <2>1. /\ op'.pc = "recorded" /\ op'.meeting = op.meeting /\ UNCHANGED <<phase, generation, sources>>
    BY <1>5, GotoGoes DEF stateVars, sourceVars, IInv
  <2>2. ~Closing' /\ phase \in {"Preflight", "Starting", "Failed"}
    BY <1>1, <1>2, WhileStarting DEF Closing, WatchAt
  <2>3. phase = "Starting" => sources = op.meeting
    BY <1>1 DEF OInv, StartIsWhole, SourcedPlaces
  <2>4. StartOpensInTurn' /\ StartIsWhole' /\ NoMixedAudio'
    BY <1>1, <1>2, <1>5, <2>1, <2>2, <2>3 DEF StartOpensInTurn, StartIsWhole, NoMixedAudio,
                SourcedPlaces, RecordedPlaces
  <2>5. op'.pc \in StartPlaces
    BY <2>1 DEF StartPlaces
  <2> QED BY <1>1, <1>2, <1>3, <2>1, <2>4, <2>5, StartOnKeeps
<1> QED BY <1>4, <1>5 DEF OpenRecorder

LEMMA OrderlyStartLink ==
  ASSUME IInv, OInv, StartLink
  PROVE  OInv'
<1>1. op.pc = "link" /\ failing = 0 /\ watch' = watch /\ UNCHANGED <<asked, failing>>
  BY DEF StartLink, At, Serving
<1>2. /\ op.pc \in StartPlaces /\ link = 0
      /\ sources \in {0, op.meeting} /\ recorder \in {0, op.meeting}
  BY <1>1 DEF StartPlaces, OInv, StartOpensInTurn
<1>3. op.meeting = generation /\ generation # 0
  BY <1>2 DEF IInv, StartIsCurrent
<1>4. CASE BackendStartLink(op.meeting) /\ Goto("linked") /\ UNCHANGED <<stateVars, notices>>
  <2>1. /\ op'.pc = "linked" /\ op'.meeting = op.meeting
        /\ sources = op.meeting /\ link' = op.meeting /\ opened' = opened \cup {op.meeting}
        /\ UNCHANGED <<phase, generation, sources, recorder, ended>>
    BY <1>4, GotoGoes DEF BackendStartLink, stateVars, sourceVars, IInv
  <2>2. ~Closing' /\ phase \in {"Preflight", "Starting", "Failed"}
    BY <1>1, <1>2, WhileStarting DEF Closing, WatchAt
  <2>3. OneOpen'
    BY <1>2, <1>3, <2>1 DEF OInv, OneOpen
  <2>4. phase = "Starting" => recorder = op.meeting
    BY <1>1 DEF OInv, StartIsWhole, RecordedPlaces
  <2>5. StartOpensInTurn' /\ StartIsWhole' /\ NoMixedAudio'
    BY <1>1, <1>2, <2>1, <2>2, <2>4 DEF StartOpensInTurn, StartIsWhole, NoMixedAudio,
                SourcedPlaces, RecordedPlaces
  <2>6. op'.pc \in StartPlaces
    BY <2>1 DEF StartPlaces
  <2> QED BY <1>1, <1>2, <2>1, <2>3, <2>5, <2>6, StartOnKeeps
<1>5. CASE /\ recorder' = 0 /\ StopSources /\ UNCHANGED <<link, opened, ended>>
           /\ Fail \/ (Return /\ UNCHANGED <<stateVars, notices>>)
  <2>1. op'.pc = "free" /\ generation' = generation /\ phase' \in {phase, "Failed"}
    BY <1>5, ReturnFrees DEF Fail, Enter, stateVars
  <2>2. Closed' /\ OneOpen'
    BY <1>2, <1>5 DEF Closed, StopSources, OInv, OneOpen
  <2> QED BY <1>1, <1>2, <2>1, <2>2, StartGivesUp
<1> QED BY <1>4, <1>5 DEF StartLink

\* A start that is still current has everything open, unless it is being failed.
LEMMA OrderlyActivate ==
  ASSUME IInv, OInv, Activate
  PROVE  OInv'
<1>1. op.pc = "linked" /\ op'.pc = "free" /\ UNCHANGED <<asked, failing>>
  BY ReturnFrees DEF Activate, At
<1>2. op.pc \in StartPlaces
  BY <1>1 DEF StartPlaces
<1>3. op.meeting = generation /\ generation \in Meetings /\ asked = {} /\ ~Closing
  BY <1>2, WhileStarting DEF IInv, StartIsCurrent, TypeOK, OrNone
<1>4. CASE /\ ActivateIfCurrent
           /\ watch' = [watch EXCEPT ![op.meeting] =
                          [pc |-> "sleep", seen |-> "Active", endpoint |-> op.endpoint]]
           /\ UNCHANGED <<generation, backendVars>>
  <2>1. /\ phase = "Starting" /\ phase' = "Active"
        /\ UNCHANGED <<generation, sources, recorder, link, opened, ended>>
    BY <1>4 DEF ActivateIfCurrent, Transition, Enter, backendVars, sourceVars
  <2>2. /\ watch'[generation].pc = "sleep"
        /\ \A n \in Meetings \ {generation} : watch'[n] = watch[n]
    BY <1>3, <1>4 DEF IInv, TypeOK
  <2>3. ~Closing'
    BY <1>3, <2>2 DEF Closing, WatchAt
  <2>4. NotYetWatched'
    <3>1. \A n \in Meetings : n > generation => n # generation
      BY BoundsAssumption DEF Meetings, IInv, TypeOK
    <3> QED BY <1>1, <2>1, <2>2, <3>1 DEF OInv, NotYetWatched, StartPlaces
  <2>5. /\ OneCallAtATime' /\ StartsAtRest' /\ FailedIsClosed' /\ FailingIsClosed' /\ ClosingIsOver'
        /\ StopIsStopping'
    BY <1>1, <1>3, <2>1, <2>3 DEF OInv, OneCallAtATime, StartsAtRest, FailedIsClosed,
          FailingIsClosed, Closed, ClosingIsOver, StopIsStopping
  <2>6. SourcesAreCurrent' /\ StartOpensInTurn' /\ StartIsWhole' /\ OneOpen' /\ NoMixedAudio'
    BY <1>1, <1>2, <1>3, <2>1 DEF OInv, SourcesAreCurrent, StartOpensInTurn, StartIsWhole, OneOpen,
          NoMixedAudio, StartPlaces
  <2>7. RunningIsWhole'
    BY <1>1, <1>3, <2>1 DEF OInv, StartIsWhole, RunningIsWhole, SourcedPlaces, RecordedPlaces
  <2> QED BY <2>4, <2>5, <2>6, <2>7 DEF OInv
<1>5. CASE Serving /\ CloseBackend /\ UNCHANGED <<stateVars, notices, watch>>
  <2>1. Closed' /\ OneOpen'
    BY <1>5, CloseCloses DEF OInv
  <2> QED BY <1>1, <1>2, <1>5, <2>1, StartGivesUp DEF stateVars, Serving
<1> QED BY <1>4, <1>5 DEF Activate

LEMMA OrderlyTake ==
  ASSUME Orderly, IInv, OInv,
         Begin("pause", "Active") \/ Begin("resume", "Paused") \/ ChooseBegins \/ Choose
  PROVE  OInv'
<1>1. /\ watch' = watch
      /\ UNCHANGED <<phase, generation, failing, sources, recorder, link, opened, ended>>
  BY DEF Begin, ChooseBegins, Choose, stateVars, backendVars, sourceVars
<1>2. asked' = {}
  <2>1. CASE Begin("pause", "Active") \/ Begin("resume", "Paused")
    BY <2>1, TookOne DEF Begin
  <2>2. CASE ChooseBegins
    BY <2>2 DEF ChooseBegins, UpToDate, uiVars
  <2>3. CASE Choose
    BY <2>3, NoneAsked DEF Choose, At, uiVars
  <2> QED BY <2>1, <2>2, <2>3
<1>3. op.pc \in {"free", "devices"} /\ (op' = op \/ op'.pc \in {"pause", "resume", "devices", "free"})
  <2>1. CASE Begin("pause", "Active") \/ Begin("resume", "Paused")
    BY <2>1, GotoGoes DEF Begin, Took, At, IInv
  <2>2. CASE ChooseBegins
    BY <2>2, GotoGoes DEF ChooseBegins, At, IInv
  <2>3. CASE Choose
    BY <2>3, ReturnFrees DEF Choose, At
  <2> QED BY <2>1, <2>2, <2>3
<1>4. WatchersStay
  BY <1>1, WatchersUnchanged
<1>5. {"free", "pause", "resume", "devices"} \cap (StartPlaces \cup {"stop", "stopped"}) = {}
  BY DEF StartPlaces
<1> QED BY <1>1, <1>2, <1>3, <1>4, <1>5, QuietKeeps

LEMMA OrderlyTell ==
  ASSUME IInv, OInv, Tell("pause", TRUE, "paused") \/ Tell("resume", FALSE, "resumed")
  PROVE  OInv'
<1>1. /\ op.pc \in {"pause", "resume"} /\ failing = 0 /\ watch' = watch
      /\ UNCHANGED <<asked, failing>> /\ asked = {}
  BY NoneAsked DEF Tell, At, Serving
<1>2. WatchersStay
  BY <1>1, WatchersUnchanged
<1>3. CASE /\ UNCHANGED <<stateVars, notices>>
           /\ \/ BackendPause(TRUE) /\ Goto("paused")
              \/ BackendPause(FALSE) /\ Goto("resumed")
  <2>1. /\ UNCHANGED <<phase, generation, sources, recorder, link, opened, ended>>
        /\ op'.pc \in {"paused", "resumed"}
    BY <1>3, GotoGoes DEF BackendPause, stateVars, IInv
  <2>2. {"pause", "resume", "paused", "resumed"} \cap (StartPlaces \cup {"stop", "stopped"}) = {}
    BY DEF StartPlaces
  <2> QED BY <1>1, <1>2, <2>1, <2>2, QuietKeeps
<1>4. CASE CloseBackend /\ Fail
  <2>1. Closed' /\ OneOpen'
    BY <1>4, CloseCloses DEF OInv
  <2>2. op'.pc = "free" /\ generation' = generation /\ phase' = "Failed"
    BY <1>4, ReturnFrees DEF Fail, Enter
  <2> QED BY <1>1, <1>2, <2>1, <2>2, ClosedKeeps DEF WatchersStay
<1> QED BY <1>3, <1>4 DEF Tell

LEMMA OrderlyFinish ==
  ASSUME IInv, OInv,
         \/ Finish("paused", "Active", "Paused")
         \/ Finish("resumed", "Paused", "Active")
         \/ Finish("stopped", "Stopping", "Idle")
  PROVE  OInv'
<1>1. /\ op.pc \in {"paused", "resumed", "stopped"} /\ op'.pc = "free" /\ watch' = watch
      /\ UNCHANGED <<generation, asked, failing, sources, recorder, link, opened, ended>>
      /\ asked = {}
  BY NoneAsked, ReturnFrees DEF Finish, At, backendVars, sourceVars
<1>2. \/ phase' = phase
      \/ phase \in {"Active", "Paused"} /\ phase' \in {"Active", "Paused"}
      \/ op.pc = "stopped" /\ phase = "Stopping" /\ phase' = "Idle"
  BY DEF Finish, Transition, Enter, At
<1>3. Closing' = Closing /\ op.pc \notin StartPlaces /\ op'.pc \notin StartPlaces
  BY <1>1 DEF Closing, WatchAt, StartPlaces
<1>4. /\ OneCallAtATime' /\ StartsAtRest' /\ FailedIsClosed' /\ FailingIsClosed' /\ ClosingIsOver'
  BY <1>1, <1>2, <1>3 DEF OInv, OneCallAtATime, StartsAtRest, FailedIsClosed, FailingIsClosed,
        Closed, ClosingIsOver
<1>5. StopIsStopping' /\ SourcesAreCurrent' /\ NotYetWatched' /\ StartOpensInTurn' /\ OneOpen' /\ NoMixedAudio'
  BY <1>1, <1>3 DEF OInv, StopIsStopping, SourcesAreCurrent, NotYetWatched, StartOpensInTurn,
        OneOpen, NoMixedAudio
<1>6. StartIsWhole' /\ RunningIsWhole'
  BY <1>1, <1>2 DEF OInv, StartIsWhole, RunningIsWhole, SourcedPlaces, RecordedPlaces
<1> QED BY <1>4, <1>5, <1>6 DEF OInv

LEMMA OrderlyStopBegins ==
  ASSUME IInv, OInv, StopBegins
  PROVE  OInv'
<1>1. /\ UNCHANGED <<failing, sources, recorder, link, opened, ended, watch>>
      /\ asked' = {} /\ op.pc = "free"
  BY TookOne DEF StopBegins, backendVars, sourceVars
<1>2. WatchersStay
  BY <1>1, WatchersUnchanged
<1>3. CASE /\ generation < MaxGeneration /\ generation' = generation + 1
           /\ Enter("Stopping") /\ Goto("stop")
  <2>1. phase' = "Stopping" /\ op'.pc = "stop" /\ op'.pc \notin StartPlaces
    BY <1>3, GotoGoes DEF Enter, StartPlaces, IInv
  <2>2. NotYetWatched'
    <3>1. generation \in Nat /\ Meetings \subseteq Nat
      BY BoundsAssumption DEF IInv, TypeOK, Meetings
    <3>2. \A m \in Meetings : m > generation' => m > generation
      BY <1>3, <3>1
    <3> QED BY <1>1, <2>1, <3>2 DEF OInv, NotYetWatched
  <2>3. /\ OneCallAtATime' /\ StartsAtRest' /\ FailedIsClosed' /\ FailingIsClosed' /\ ClosingIsOver'
        /\ StopIsStopping' /\ SourcesAreCurrent'
    BY <1>1, <2>1 DEF OInv, OneCallAtATime, StartsAtRest, FailedIsClosed, FailingIsClosed,
          Closed, ClosingIsOver, StopIsStopping, SourcesAreCurrent
  <2>4. StartOpensInTurn' /\ StartIsWhole' /\ RunningIsWhole' /\ OneOpen' /\ NoMixedAudio'
    BY <1>1, <2>1 DEF OInv, StartOpensInTurn, StartIsWhole, RunningIsWhole, OneOpen, NoMixedAudio
  <2> QED BY <2>2, <2>3, <2>4 DEF OInv
<1>4. CASE UNCHANGED <<stateVars, op, notices>>
  BY <1>1, <1>2, <1>4, QuietKeeps DEF stateVars
<1> QED BY <1>3, <1>4 DEF StopBegins

LEMMA OrderlyStopCloses ==
  ASSUME IInv, OInv, StopCloses
  PROVE  OInv'
<1>1. /\ CloseBackend /\ op.pc = "stop" /\ failing = 0 /\ asked = {}
      /\ UNCHANGED <<asked, failing, watch>>
  BY NoneAsked DEF StopCloses, At, Serving
<1>2. phase = "Stopping"
  BY <1>1 DEF OInv, StopIsStopping
<1>3. /\ generation' = generation
      /\ \/ op'.pc = "stopped" /\ phase' = phase
         \/ op'.pc = "free" /\ phase' = "Failed"
  <2>1. CASE Fail
    BY <2>1, ReturnFrees DEF Fail, Enter
  <2>2. CASE Goto("stopped") /\ UNCHANGED <<stateVars, notices>>
    BY <2>2, GotoGoes DEF stateVars, IInv
  <2> QED BY <2>1, <2>2 DEF StopCloses
<1>4. Closed' /\ OneOpen'
  BY <1>1, CloseCloses DEF OInv
<1>5. WatchersStay
  BY <1>1, WatchersUnchanged
<1>6. op.pc # "free" /\ op' # op
  BY <1>1, <1>3
<1>7. op'.pc \notin SourcedPlaces
  BY <1>3 DEF SourcedPlaces
<1> QED BY <1>1, <1>2, <1>3, <1>4, <1>5, <1>6, <1>7, ClosedKeeps DEF WatchersStay

LEMMA InitOrderly == Init => OInv
<1> SUFFICES ASSUME Init PROVE OInv
  OBVIOUS
<1>1. op.pc = "free" /\ op.pc \notin StartPlaces
  BY DEF Init, NoOp, StartPlaces
<1>2. \A m \in Meetings : watch[m].pc = "none"
  BY DEF Init, Unwatched
<1>3. OneCallAtATime /\ StartsAtRest /\ FailedIsClosed /\ FailingIsClosed /\ ClosingIsOver
  BY <1>2 DEF Init, OneCallAtATime, StartsAtRest, FailedIsClosed, FailingIsClosed, ClosingIsOver,
             Closed, Closing, WatchAt
<1>4. StopIsStopping /\ SourcesAreCurrent /\ NotYetWatched /\ StartOpensInTurn
  BY <1>1, <1>2 DEF Init, StopIsStopping, SourcesAreCurrent, NotYetWatched, StartOpensInTurn
<1>5. StartIsWhole /\ RunningIsWhole /\ OneOpen /\ NoMixedAudio
  BY DEF Init, StartIsWhole, RunningIsWhole, OneOpen, NoMixedAudio
<1> QED BY <1>3, <1>4, <1>5 DEF OInv

LEMMA OrderlyStep ==
  ASSUME Orderly, IInv, OInv, [Next]_vars
  PROVE  OInv'
<1>1. CASE UNCHANGED vars
  BY <1>1, WatchersUnchanged, QuietKeeps DEF vars, stateVars, uiVars, backendVars, sourceVars
<1>2. CASE Operation
  BY <1>2, OrderlyStartBegins, OrderlyCheckPermissions, OrderlyStartSources, OrderlyChecked,
     OrderlyOpenRecorder, OrderlyStartLink, OrderlyActivate, OrderlyTake, OrderlyTell,
     OrderlyFinish, OrderlyStopBegins, OrderlyStopCloses DEF Operation
<1>3. CASE \E m \in Meetings : Watch(m)
  BY <1>3, OrderlyWatchLooks, OrderlyWatchStartsLink, OrderlyWatchFails, OrderlyWatchCloses
     DEF Watch
<1>4. CASE \E call \in Calls : Press(call)
  BY <1>4, OrderlyPress
<1> QED BY <1>1, <1>2, <1>3, <1>4, OrderlyOutside, OrderlyTake DEF Next

\* OInv holds in every state an orderly window can reach.
LEMMA OrderlyInvariance ==
  ASSUME Orderly
  PROVE  Spec => [](IInv /\ OInv)
<1>1. Orderly
  OBVIOUS
<1>2. (IInv /\ OInv) /\ [Next]_vars => (IInv /\ OInv)'
  BY <1>1, StepKeeps, OrderlyStep
<1> QED BY <1>2, InitHolds, InitOrderly, PTL DEF Spec

\* The audio of one meeting never goes to the recorder or the link of another.
THEOREM NeverMixed ==
  ASSUME Orderly
  PROVE  Spec => []NoMixedAudio
<1>1. IInv /\ OInv => NoMixedAudio
  BY DEF OInv
<1> QED BY <1>1, OrderlyInvariance, PTL

\* An active meeting that nothing is failing records and streams.
THEOREM ActiveRecords ==
  ASSUME Orderly
  PROVE  Spec => []ActiveMeansRecording
<1>1. IInv /\ OInv => ActiveMeansRecording
  BY DEF OInv, RunningIsWhole, ActiveMeansRecording
<1> QED BY <1>1, OrderlyInvariance, PTL

\* A failed meeting is closed, once whoever failed it is done.
THEOREM FailedCloses ==
  ASSUME Orderly
  PROVE  Spec => []FailedMeansClosed
<1>1. IInv /\ OInv => FailedMeansClosed
  BY DEF OInv, FailedIsClosed, FailedMeansClosed, Closed, Closing, WatchAt, NoOp, StartPlaces
<1> QED BY <1>1, OrderlyInvariance, PTL

-----------------------------------------------------------------------------
(* The book of meetings *)

\* What a step does to the book: nothing, END, or START of a meeting.
Books ==
  \/ UNCHANGED <<opened, ended>>
  \/ EndLink /\ UNCHANGED opened
  \/ \E m \in Meetings : BackendStartLink(m)

LEMMA OperationBooks ==
  ASSUME IInv, Operation
  PROVE  Books
<1>1. CASE StartBegins \/ CheckPermissions \/ StartSources \/ SourcesChecked \/ OpenRecorder
           \/ RecorderChecked
  BY <1>1 DEF StartBegins, CheckPermissions, StartSources, SourcesChecked, OpenRecorder,
             RecorderChecked, Books, backendVars
<1>2. CASE StartLink
  <2>1. op.pc = "link" /\ op.meeting \in Meetings
    BY <1>2, BoundsAssumption
       DEF StartLink, At, IInv, TypeOK, StartIsCurrent, StartPlaces, Meetings
  <2> QED BY <1>2, <2>1 DEF StartLink, Books
<1>3. CASE Activate \/ StopCloses \/ Tell("pause", TRUE, "paused") \/ Tell("resume", FALSE, "resumed")
  BY <1>3 DEF Activate, StopCloses, Tell, CloseBackend, BackendPause, Books, backendVars
<1>4. CASE \/ Begin("pause", "Active") \/ Begin("resume", "Paused") \/ StopBegins \/ Choose
           \/ Finish("paused", "Active", "Paused") \/ Finish("resumed", "Paused", "Active")
           \/ Finish("stopped", "Stopping", "Idle")
  BY <1>4 DEF Begin, StopBegins, Choose, Finish, Books, backendVars
<1> QED BY <1>1, <1>2, <1>3, <1>4 DEF Operation

LEMMA StepBooks ==
  ASSUME IInv, [Next]_vars
  PROVE  Books
<1>1. CASE UNCHANGED vars
  BY <1>1 DEF vars, backendVars, Books
<1>2. CASE \/ \E call \in Calls : Press(call)
           \/ \E notice \in notices : Send(notice)
           \/ Replace \/ Withdraw \/ WebviewRefuses \/ ChooseBegins \/ WorkerReports
  BY <1>2 DEF Press, Send, Replace, Withdraw, WebviewRefuses, ChooseBegins, WorkerReports, Books,
             backendVars
<1>3. CASE WorkerFails
  BY <1>3 DEF WorkerFails, CloseBackend, Books
<1>4. CASE \E m \in Meetings : Watch(m)
  <2>1. PICK m \in Meetings : Watch(m)
    BY <1>4
  <2>2. CASE WatchLooks(m) \/ WatchAsks(m) \/ WatchFails(m)
    BY <2>2 DEF WatchLooks, WatchAsks, WatchFails, Books, backendVars
  <2>3. CASE WatchStartsLink(m) \/ WatchPauses(m) \/ WatchCloses(m)
    BY <2>3 DEF WatchStartsLink, WatchPauses, WatchCloses, BackendPause, CloseBackend, Books,
               backendVars
  <2> QED BY <2>1, <2>2, <2>3 DEF Watch
<1> QED BY <1>1, <1>2, <1>3, <1>4, OperationBooks DEF Next

\* The link is the open meeting's: END ends that one, and a START opens a new
\* meeting only while none is open.
LEMMA BooksKeepBook ==
  ASSUME IInv, OInv, Books
  PROVE  [Book!Next]_([m \in Meetings |->
                         IF m \in ended THEN "ended" ELSE IF m \in opened THEN "open" ELSE "new"])
<1> DEFINE page(m) == IF m \in ended THEN "ended" ELSE IF m \in opened THEN "open" ELSE "new"
           book == [m \in Meetings |-> page(m)]
<1>0. opened = ended \cup ({link} \ {0}) /\ link \notin ended /\ 0 \notin Meetings
  BY BoundsAssumption DEF IInv, OInv, OneOpen, EndedForGood, Meetings
<1>1. CASE UNCHANGED <<opened, ended>>
  BY <1>1
<1>2. CASE EndLink /\ UNCHANGED opened
  <2>1. CASE link = 0
    BY <1>2, <2>1 DEF EndLink
  <2>2. CASE link # 0
    <3>1. PICK m \in Meetings : m = link /\ m \in opened /\ m \notin ended
      BY <1>0, <2>2 DEF IInv, TypeOK, OrNone
    <3>2. opened' = opened /\ ended' = ended \cup {m}
      BY <1>2, <2>2, <3>1 DEF EndLink
    <3>3. book[m] = "open" /\ book' = [book EXCEPT ![m] = "ended"]
      BY <3>1, <3>2
    <3>4. Book!End(m)
      BY <3>3 DEF Book!End
    <3> QED BY <3>4 DEF Book!Next
  <2> QED BY <2>1, <2>2
<1>3. CASE \E m \in Meetings : BackendStartLink(m)
  <2>1. PICK m \in Meetings : BackendStartLink(m)
    BY <1>3
  <2>2. /\ link \in {0, m} /\ m \notin ended
        /\ opened' = opened \cup {m} /\ ended' = ended
    BY <1>0, <2>1 DEF BackendStartLink, IInv, NoneFromTheFuture, OInv, NoMixedAudio
  <2>3. CASE m \in opened
    BY <2>2, <2>3
  <2>4. CASE m \notin opened
    <3>1. opened = ended
      BY <1>0, <2>2, <2>4
    <3>2. book[m] = "new" /\ \A other \in Meetings : book[other] # "open"
      BY <2>2, <2>4, <3>1
    <3>3. book' = [book EXCEPT ![m] = "open"]
      BY <2>2, <2>4
    <3>4. Book!Open(m)
      BY <3>2, <3>3 DEF Book!Open
    <3> QED BY <3>4 DEF Book!Next
  <2> QED BY <2>3, <2>4
<1> QED BY <1>1, <1>2, <1>3 DEF Books

\* Starts, stops, failures, watchers and replaced endpoints, in whatever order
\* they meet, open one meeting at a time, end it once, and never reopen it.
THEOREM BookIsKept ==
  ASSUME Orderly
  PROVE  Spec => KeepsBook
<1>1. Init => Book!Init
  BY DEF Init, Book!Init
<1>2. IInv /\ OInv /\ [Next]_vars =>
        [Book!Next]_([m \in Meetings |->
           IF m \in ended THEN "ended" ELSE IF m \in opened THEN "open" ELSE "new"])
  BY StepBooks, BooksKeepBook
<1> QED BY <1>1, <1>2, OrderlyInvariance, PTL DEF Spec, KeepsBook, Book!Spec
=============================================================================
