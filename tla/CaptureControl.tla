--------------------------- MODULE CaptureControl ---------------------------
(***************************************************************************)
(* The control of one meeting in the desktop shell, crates/app: the        *)
(* commands of AppCapture, serialised by its operation lock (`op`), the    *)
(* state behind them (CaptureState), the worker thread that owns sources,  *)
(* recorder and link (NativeWorker), one watcher thread per meeting that   *)
(* follows the sidecar's endpoint, and the window, which enables its       *)
(* buttons by the last status event it was sent.                           *)
(*                                                                         *)
(* A meeting is named by the generation its start ran under; 0 is None.    *)
(* The three calls that close the backend (end_link, finish_recorder,      *)
(* stop_sources) run under one hold of the backend lock and are one step.  *)
(* A status event is sent after the state lock is released, so it is a     *)
(* step of its own.  Audio, levels and the permission dialogs are left out. *)
(***************************************************************************)
EXTENDS Naturals

CONSTANTS
  Microphones,    \* ids of microphones
  Default,        \* the selection of the default device
  MaxGeneration,  \* bound: starts and stops
  MaxEndpoints,   \* bound: endpoints the supervisor ever hands out
  Orderly         \* buttons are pressed one at a time, on an up-to-date window

ASSUME BoundsAssumption ==
  /\ Default \notin Microphones
  /\ MaxGeneration \in Nat
  /\ MaxEndpoints \in Nat \ {0}
  /\ Orderly \in BOOLEAN

VARIABLES
  phase, generation,   \* CaptureState
  asked,               \* calls the window made that have not begun
  op,                  \* the call that holds the operation lock
  notices,             \* status events not sent yet, by the thread sending them
  shown,               \* the phase in the last status event
  selection,           \* the devices chosen for the meetings to come
  sources, recorder, link, \* whose meeting the worker's resources belong to
  captured,            \* the selection the sources were started with
  mixerPaused,
  failing,             \* the worker closed this meeting and has yet to say so
  watch,               \* the watcher thread of each meeting
  endpoint, issued,    \* the supervisor's endpoint, 0 while it has none
  opened, ended        \* meetings that sent START, meetings that sent END

stateVars == <<phase, generation>>
uiVars == <<asked, notices, shown>>
sourceVars == <<sources, captured, mixerPaused>>
backendVars == <<sourceVars, recorder, link, opened, ended>>
endpointVars == <<endpoint, issued>>
vars == <<stateVars, uiVars, op, backendVars, failing, watch, endpointVars, selection>>

Phases == {"Idle", "Preflight", "Starting", "Active", "Paused", "Stopping", "Failed"}
Calls == {"start", "pause", "resume", "stop"}
Meetings == 1 .. MaxGeneration
OrNone(S) == S \cup {0}
Op == <<"operation", 0>>
Webview == <<"webview", 0>>
Worker == <<"worker", 0>>
Watcher(m) == <<"watcher", m>>
Threads == {Op, Webview, Worker} \cup {Watcher(m) : m \in Meetings}
OpPlaces ==
  {"free", "permissions", "sources", "sourced", "recorder", "recorded", "link",
   "linked", "pause", "paused", "resume", "resumed", "stop", "stopped", "devices"}
Selections == Microphones \cup {Default}
WatchPlaces == {"none", "sleep", "ask", "link", "pause", "fail", "close", "done"}

TypeOK ==
  /\ phase \in Phases
  /\ generation \in 0 .. MaxGeneration
  /\ asked \subseteq Calls
  /\ op \in [pc : OpPlaces, meeting : OrNone(Meetings), endpoint : 0 .. MaxEndpoints]
  /\ notices \subseteq [by : Threads, phase : Phases]
  /\ shown \in Phases
  /\ selection \in Selections /\ captured \in Selections
  /\ sources \in OrNone(Meetings)
  /\ recorder \in OrNone(Meetings)
  /\ link \in OrNone(Meetings)
  /\ mixerPaused \in BOOLEAN
  /\ failing \in OrNone(Meetings)
  /\ watch \in [Meetings -> [pc : WatchPlaces, seen : Phases, endpoint : 0 .. MaxEndpoints]]
  /\ endpoint \in 0 .. MaxEndpoints
  /\ issued \in 0 .. MaxEndpoints
  /\ opened \subseteq Meetings
  /\ ended \subseteq Meetings

NoOp == [pc |-> "free", meeting |-> 0, endpoint |-> 0]
Unwatched == [pc |-> "none", seen |-> "Idle", endpoint |-> 0]

Init ==
  /\ phase = "Idle" /\ generation = 0
  /\ asked = {} /\ notices = {} /\ shown = "Idle"
  /\ op = NoOp
  /\ sources = 0 /\ recorder = 0 /\ link = 0
  /\ selection = Default /\ captured = Default
  /\ mixerPaused = FALSE
  /\ failing = 0
  /\ watch = [m \in Meetings |-> Unwatched]
  /\ endpoint = 1 /\ issued = 1
  /\ opened = {} /\ ended = {}

-----------------------------------------------------------------------------
(* Status events and the window *)

Notice(thread, snapshot) ==
  notices' = notices \cup {[by |-> thread, phase |-> snapshot]}

Send(notice) ==
  /\ notice \in notices
  /\ notices' = notices \ {notice}
  /\ shown' = notice.phase
  /\ UNCHANGED <<stateVars, asked, op, backendVars, failing, watch, endpointVars, selection>>

Sending(thread) == \E notice \in notices : notice.by = thread

\* The window is up to date: no event is on its way and no call is running.
UpToDate ==
  /\ asked = {} /\ op = NoOp
  /\ notices = {} /\ failing = 0
  /\ \A m \in Meetings : watch[m].pc # "close"

\* MeetingControls enables a button by the phase shown.
Enabled(call) ==
  \/ call = "start" /\ shown \in {"Idle", "Failed"}
  \/ call = "pause" /\ shown = "Active"
  \/ call = "resume" /\ shown = "Paused"
  \/ call = "stop" /\ shown \in {"Active", "Paused"}

Press(call) ==
  /\ Enabled(call)
  /\ call \notin asked
  /\ Orderly => UpToDate /\ shown = phase
  /\ asked' = asked \cup {call}
  /\ UNCHANGED <<stateVars, op, notices, shown, backendVars, failing, watch, endpointVars, selection>>

-----------------------------------------------------------------------------
(* The supervisor: what SidecarSupervisor::endpoint answers *)

Replace ==
  /\ issued < MaxEndpoints
  /\ issued' = issued + 1
  /\ endpoint' = issued + 1
  /\ UNCHANGED <<stateVars, uiVars, op, backendVars, failing, watch, selection>>

Withdraw ==
  /\ endpoint # 0
  /\ endpoint' = 0
  /\ UNCHANGED <<stateVars, uiVars, op, backendVars, failing, watch, issued, selection>>

-----------------------------------------------------------------------------
(* The backend *)

\* The worker answers no request while it is failing a session.
Serving == failing = 0 /\ ~Sending(Worker)

\* Mutants of EndLink: no END; the link stays.
EndLinkSilently == link' = 0 /\ UNCHANGED ended
EndLinkKept ==
  /\ ended' = IF link = 0 THEN ended ELSE ended \cup {link}
  /\ UNCHANGED link

EndLink ==
  /\ link' = 0
  /\ ended' = IF link = 0 THEN ended ELSE ended \cup {link}

\* stop_sources starts a fresh mixer.
StopSources ==
  /\ sources' = 0
  /\ captured' = Default
  /\ mixerPaused' = FALSE

\* Mutant of CloseBackend: the recorder stays open.
CloseBackendButRecorder == EndLink /\ StopSources /\ UNCHANGED <<recorder, opened>>

CloseBackend == EndLink /\ recorder' = 0 /\ StopSources /\ UNCHANGED opened

\* Mutants of BackendStartLink: any meeting may; the mixer starts afresh.
BackendStartLinkUnchecked(m) ==
  /\ link' = m
  /\ opened' = opened \cup {m}
  /\ UNCHANGED <<sourceVars, recorder, ended>>
BackendStartLinkFreshMixer(m) ==
  /\ sources = m
  /\ link' = m
  /\ opened' = opened \cup {m}
  /\ mixerPaused' = FALSE
  /\ UNCHANGED <<sources, captured, recorder, ended>>

\* Refused unless the sources still belong to the meeting.  The link that was
\* there is dropped, not ended.
BackendStartLink(m) ==
  /\ sources = m
  /\ link' = m
  /\ opened' = opened \cup {m}
  /\ UNCHANGED <<sourceVars, recorder, ended>>

BackendPause(paused) ==
  /\ link # 0
  /\ mixerPaused' = paused
  /\ UNCHANGED <<sources, captured, recorder, link, opened, ended>>

-----------------------------------------------------------------------------
(* A call that holds the operation lock *)

At(pc) == op.pc = pc /\ ~Sending(Op)

Goto(pc) == op' = [op EXCEPT !.pc = pc]
Return == op' = NoOp

\* update_state: change the phase, then tell the window.
Enter(next) == phase' = next /\ Notice(Op, next)

\* CaptureState::transition
Transition(expected, next) == phase = expected /\ Enter(next)

\* AppCapture::fail, whatever the phase or the generation have become.
Fail == Enter("Failed") /\ Return /\ UNCHANGED generation

Took(call) == At("free") /\ call \in asked /\ asked' = asked \ {call}

\* start_meeting looks for an endpoint before it asks for the operation lock;
\* start() looks again under the lock, and refuses in the same way.
WebviewRefuses ==
  /\ "start" \in asked /\ endpoint = 0
  /\ asked' = asked \ {"start"}
  /\ phase' = "Failed"
  /\ Notice(Webview, "Failed")
  /\ UNCHANGED <<generation, shown, op, backendVars, failing, watch, endpointVars, selection>>

BeginPreflight ==
  /\ phase \in {"Idle", "Failed"}
  /\ generation < MaxGeneration
  /\ generation' = generation + 1
  /\ Enter("Preflight")

StartBegins ==
  /\ Took("start")
  /\ endpoint # 0
  /\ \/ /\ BeginPreflight
        /\ op' = [pc |-> "permissions", meeting |-> generation + 1, endpoint |-> endpoint]
     \/ /\ phase \notin {"Idle", "Failed"}
        /\ UNCHANGED <<stateVars, op, notices>>
  /\ UNCHANGED <<shown, backendVars, failing, watch, endpointVars, selection>>

CheckPermissions ==
  /\ At("permissions") /\ Serving
  /\ \/ Fail
     \/ Transition("Preflight", "Starting") /\ Goto("sources") /\ UNCHANGED generation
     \/ phase # "Preflight" /\ Return /\ UNCHANGED <<stateVars, notices>>
  /\ UNCHANGED <<asked, shown, backendVars, failing, watch, endpointVars, selection>>

StartSources ==
  /\ At("sources") /\ Serving
  /\ mixerPaused' = FALSE
  /\ \/ /\ sources' = op.meeting /\ captured' = selection
        /\ Goto("sourced")
        /\ UNCHANGED <<stateVars, notices>>
     \/ sources' = 0 /\ captured' = Default /\ Fail
  /\ UNCHANGED <<asked, shown, recorder, link, opened, ended, failing, watch, endpointVars, selection>>

\* startup_error is None.
StillStarting == generation = op.meeting /\ phase = "Starting"

SourcesChecked ==
  /\ At("sourced")
  /\ \/ StillStarting /\ Goto("recorder") /\ UNCHANGED sourceVars
     \/ ~StillStarting /\ Serving /\ StopSources /\ Return
  /\ UNCHANGED <<recorder, link, opened, ended>>
  /\ UNCHANGED <<stateVars, uiVars, failing, watch, endpointVars, selection>>

OpenRecorder ==
  /\ At("recorder") /\ Serving
  /\ \/ /\ recorder' = op.meeting
        /\ Goto("recorded")
        /\ UNCHANGED <<stateVars, notices, sourceVars>>
     \/ StopSources /\ Fail /\ UNCHANGED recorder
  /\ UNCHANGED <<asked, shown, link, opened, ended, failing, watch, endpointVars, selection>>

RecorderChecked ==
  /\ At("recorded")
  /\ \/ StillStarting /\ Goto("link") /\ UNCHANGED <<sourceVars, recorder>>
     \/ ~StillStarting /\ Serving /\ recorder' = 0 /\ StopSources /\ Return
  /\ UNCHANGED <<link, opened, ended>>
  /\ UNCHANGED <<stateVars, uiVars, failing, watch, endpointVars, selection>>

StartLink ==
  /\ At("link") /\ Serving
  /\ \/ /\ BackendStartLink(op.meeting)
        /\ Goto("linked")
        /\ UNCHANGED <<stateVars, notices>>
     \/ /\ sources # op.meeting
        /\ recorder' = 0
        /\ StopSources
        /\ UNCHANGED <<link, opened, ended>>
        /\ IF StillStarting THEN Fail ELSE Return /\ UNCHANGED <<stateVars, notices>>
  /\ UNCHANGED <<asked, shown, failing, watch, endpointVars, selection>>

\* Mutant of ActivateIfCurrent: whatever the phase has become.
ActivateRegardless == generation = op.meeting /\ Enter("Active")

ActivateIfCurrent == generation = op.meeting /\ Transition("Starting", "Active")

Activate ==
  /\ At("linked")
  /\ \/ /\ ActivateIfCurrent
        /\ watch' = [watch EXCEPT ![op.meeting] =
                       [pc |-> "sleep", seen |-> "Active", endpoint |-> op.endpoint]]
        /\ UNCHANGED <<generation, backendVars>>
     \/ /\ generation # op.meeting \/ phase # "Starting"
        /\ Serving /\ CloseBackend
        /\ UNCHANGED <<stateVars, notices, watch>>
  /\ Return
  /\ UNCHANGED <<asked, shown, failing, endpointVars, selection>>

\* pause and resume: check the phase, tell the backend, then change the phase.
Begin(call, from) ==
  /\ Took(call)
  /\ IF phase = from THEN Goto(call) ELSE UNCHANGED op
  /\ UNCHANGED <<stateVars, notices, shown, backendVars, failing, watch, endpointVars, selection>>

Tell(call, paused, done) ==
  /\ At(call) /\ Serving
  /\ \/ BackendPause(paused) /\ Goto(done) /\ UNCHANGED <<stateVars, notices>>
     \/ link = 0 /\ CloseBackend /\ Fail
  /\ UNCHANGED <<asked, shown, failing, watch, endpointVars, selection>>

Finish(done, from, to) ==
  /\ At(done)
  /\ \/ Transition(from, to)
     \/ phase # from /\ UNCHANGED <<phase, notices>>
  /\ Return
  /\ UNCHANGED <<generation, asked, shown, backendVars, failing, watch, endpointVars, selection>>

StopBegins ==
  /\ Took("stop")
  /\ \/ /\ phase \in {"Active", "Paused", "Failed"}
        /\ generation < MaxGeneration
        /\ generation' = generation + 1
        /\ Enter("Stopping")
        /\ Goto("stop")
     \/ /\ phase \notin {"Active", "Paused", "Failed"}
        /\ UNCHANGED <<stateVars, op, notices>>
  /\ UNCHANGED <<shown, backendVars, failing, watch, endpointVars, selection>>

\* Everything is closed even when one of the three calls reports an error.
StopCloses ==
  /\ At("stop") /\ Serving
  /\ CloseBackend
  /\ \/ Goto("stopped") /\ UNCHANGED <<stateVars, notices>>
     \/ Fail
  /\ UNCHANGED <<asked, shown, failing, watch, endpointVars, selection>>

\* The microphones the system may list; one that cannot be read is left out.
Listings == SUBSET Microphones

\* validate_selection: the default, or a microphone that is listed.
Valid(choice, listed) == choice \in listed \cup {Default}

\* Mutant of MayChoose: the phase is not looked at.
MayChooseAlways == TRUE

MayChoose == phase \in {"Idle", "Failed"}

ChooseBegins ==
  /\ At("free") /\ MayChoose
  /\ Orderly => UpToDate
  /\ Goto("devices")
  /\ UNCHANGED <<stateVars, uiVars, backendVars, failing, watch, endpointVars, selection>>

\* set_devices asks the worker for the devices there are.
Choose ==
  /\ At("devices") /\ Serving
  /\ \E choice \in Selections, listed \in Listings :
       selection' = IF Valid(choice, listed) THEN choice ELSE selection
  /\ Return
  /\ UNCHANGED <<stateVars, uiVars, backendVars, failing, watch, endpointVars>>

Operation ==
  \/ StartBegins \/ CheckPermissions \/ StartSources \/ SourcesChecked
  \/ OpenRecorder \/ RecorderChecked \/ StartLink \/ Activate
  \/ Begin("pause", "Active")
  \/ Tell("pause", TRUE, "paused")
  \/ Finish("paused", "Active", "Paused")
  \/ Begin("resume", "Paused")
  \/ Tell("resume", FALSE, "resumed")
  \/ Finish("resumed", "Paused", "Active")
  \/ StopBegins \/ StopCloses
  \/ Finish("stopped", "Stopping", "Idle")
  \/ Choose

-----------------------------------------------------------------------------
(* The worker, failing a session on its own: a source error, a failed write, a
   link that is gone or an ERROR event *)

WorkerFails ==
  /\ Serving /\ sources # 0
  /\ CloseBackend
  /\ failing' = sources
  /\ UNCHANGED <<stateVars, uiVars, op, watch, endpointVars, selection>>

FailIfCurrent(m, thread) ==
  IF m = generation /\ phase \notin {"Idle", "Stopping", "Failed"}
    THEN phase' = "Failed" /\ Notice(thread, "Failed")
    ELSE UNCHANGED <<phase, notices>>

WorkerReports ==
  /\ failing # 0
  /\ FailIfCurrent(failing, Worker)
  /\ failing' = 0
  /\ UNCHANGED <<generation, asked, shown, op, backendVars, watch, endpointVars, selection>>

-----------------------------------------------------------------------------
(* The watcher of meeting m *)

WatchAt(m, pc) == watch[m].pc = pc
WatchGoto(m, pc) == watch' = [watch EXCEPT ![m].pc = pc]

\* Mutant of WatchLooks: the generation is not looked at.
WatchLooksAtPhase(m) ==
  /\ WatchAt(m, "sleep")
  /\ watch' = [watch EXCEPT
       ![m].pc = IF phase \in {"Active", "Paused"} THEN "ask" ELSE "done",
       ![m].seen = phase]
  /\ UNCHANGED <<stateVars, uiVars, op, backendVars, failing, endpointVars, selection>>

WatchLooks(m) ==
  /\ WatchAt(m, "sleep")
  /\ watch' = [watch EXCEPT
       ![m].pc = IF generation = m /\ phase \in {"Active", "Paused"} THEN "ask" ELSE "done",
       ![m].seen = phase]
  /\ UNCHANGED <<stateVars, uiVars, op, backendVars, failing, endpointVars, selection>>

\* Mutant of WatchAsks: no endpoint is taken for no news.
WatchAsksOn(m) ==
  /\ WatchAt(m, "ask")
  /\ watch' = [watch EXCEPT
       ![m].pc = IF endpoint \in {0, watch[m].endpoint} THEN "sleep" ELSE "link",
       ![m].endpoint = IF endpoint = 0 THEN @ ELSE endpoint]
  /\ UNCHANGED <<stateVars, uiVars, op, backendVars, failing, endpointVars, selection>>

WatchAsks(m) ==
  /\ WatchAt(m, "ask")
  /\ watch' = [watch EXCEPT
       ![m].pc = IF endpoint = 0 THEN "fail"
                 ELSE IF endpoint = watch[m].endpoint THEN "sleep" ELSE "link",
       ![m].endpoint = IF endpoint = 0 THEN @ ELSE endpoint]
  /\ UNCHANGED <<stateVars, uiVars, op, backendVars, failing, endpointVars, selection>>

WatchStartsLink(m) ==
  /\ WatchAt(m, "link") /\ Serving
  /\ \/ /\ BackendStartLink(m)
        /\ WatchGoto(m, IF watch[m].seen = "Paused" THEN "pause" ELSE "sleep")
     \/ /\ sources # m
        /\ WatchGoto(m, "fail")
        /\ UNCHANGED backendVars
  /\ UNCHANGED <<stateVars, uiVars, op, failing, endpointVars, selection>>

\* The phase it pauses for is the one it saw before it asked for the endpoint.
WatchPauses(m) ==
  /\ WatchAt(m, "pause") /\ Serving
  /\ \/ BackendPause(TRUE) /\ WatchGoto(m, "sleep")
     \/ link = 0 /\ WatchGoto(m, "fail") /\ UNCHANGED backendVars
  /\ UNCHANGED <<stateVars, uiVars, op, failing, endpointVars, selection>>

\* fail_watched_session: first the phase, then the backend, then the event.
Failable(m) == generation = m /\ phase \notin {"Idle", "Stopping", "Failed"}

\* Mutant of WatchFails: the backend is left open.
WatchOnlyFails(m) ==
  /\ WatchAt(m, "fail")
  /\ IF Failable(m) THEN phase' = "Failed" ELSE UNCHANGED phase
  /\ WatchGoto(m, "done")
  /\ UNCHANGED <<generation, uiVars, op, backendVars, failing, endpointVars, selection>>

WatchFails(m) ==
  /\ WatchAt(m, "fail")
  /\ IF Failable(m) THEN phase' = "Failed" ELSE UNCHANGED phase
  /\ WatchGoto(m, IF Failable(m) THEN "close" ELSE "done")
  /\ UNCHANGED <<generation, uiVars, op, backendVars, failing, endpointVars, selection>>

WatchCloses(m) ==
  /\ WatchAt(m, "close") /\ Serving
  /\ CloseBackend
  /\ Notice(Watcher(m), "Failed")
  /\ WatchGoto(m, "done")
  /\ UNCHANGED <<stateVars, asked, shown, op, failing, endpointVars, selection>>

Watch(m) ==
  \/ WatchLooks(m) \/ WatchAsks(m) \/ WatchStartsLink(m) \/ WatchPauses(m)
  \/ WatchFails(m) \/ WatchCloses(m)

-----------------------------------------------------------------------------
Next ==
  \/ \E call \in Calls : Press(call)
  \/ \E notice \in notices : Send(notice)
  \/ Replace \/ Withdraw
  \/ WebviewRefuses \/ ChooseBegins \/ Operation
  \/ WorkerFails \/ WorkerReports
  \/ \E m \in Meetings : Watch(m)

Spec == Init /\ [][Next]_vars

\* A thread that can take its next step or send its event does; buttons, faults
\* and endpoints owe nothing.
Sends(thread) == \E notice \in notices : notice.by = thread /\ Send(notice)

FairSpec ==
  /\ Spec
  /\ WF_vars(Operation \/ Sends(Op))
  /\ WF_vars(WorkerReports \/ Sends(Worker))
  /\ WF_vars(WebviewRefuses \/ Sends(Webview))
  /\ \A m \in Meetings : WF_vars(Watch(m) \/ Sends(Watcher(m)))

-----------------------------------------------------------------------------
(* Properties *)

\* An idle shell holds no source, no recorder and no link: no thread revives
\* what stop closed, whatever it had begun before.
IdleMeansClosed ==
  (phase = "Idle" /\ op = NoOp) => sources = 0 /\ recorder = 0 /\ link = 0

\* While a meeting is paused nothing it captures is recorded or streamed, link
\* replacements included.
PausedMeansSilent ==
  (phase = "Paused" /\ op.pc # "resumed" /\ sources # 0) => mixerPaused

\* Audio of one meeting never goes to the recorder or the link of another.
NoMixedAudio ==
  sources # 0 => recorder \in {0, sources} /\ link \in {0, sources}

\* A meeting that was ended is never opened again.
EndedForGood == link \notin ended

\* An active meeting that nothing is about to fail records and streams.
ActiveMeansRecording ==
  (phase = "Active" /\ op = NoOp /\ failing = 0)
    => sources = generation /\ recorder = generation /\ link = generation

\* The devices shown as chosen are the ones the running meeting captures.
CapturesSelection ==
  (phase \in {"Active", "Paused"} /\ sources # 0) => captured = selection

\* A failed meeting is closed once every thread is done failing it.
FailedMeansClosed ==
  (/\ phase = "Failed" /\ op = NoOp
   /\ \A m \in Meetings : watch[m].pc \in {"none", "done"})
    => sources = 0 /\ recorder = 0 /\ link = 0

\* A watcher never outlives its meeting for long: time and again the only one
\* left is the current meeting's.
StaleWatcherLeaves ==
  []<>(\A m \in Meetings : generation # m => watch[m].pc \in {"none", "done"})

\* A meeting whose sidecar is gone for good does not stay active.
LostEndpointFailsMeeting ==
  <>[](endpoint = 0) => <>[](phase \notin {"Active", "Paused"})
=============================================================================
