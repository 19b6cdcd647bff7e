----------------------------- MODULE Supervisor -----------------------------
(***************************************************************************)
(* The sidecar's supervisor, crates/app/src/sidecar.rs, with those who     *)
(* call it: the main thread, which launches the application, saves the     *)
(* provider's settings and closes the window, and the threads of a         *)
(* meeting, which ask for the endpoint and restart a sidecar that exited.  *)
(*                                                                         *)
(* Every step below is one hold of the supervisor's lock; starting a child *)
(* and waiting for its readiness line happen under that lock, and a child  *)
(* that fails to get ready is killed before it is let go, so a failed      *)
(* start leaves no process.  Processes are numbered in the order they      *)
(* became ready, and 0 is None, for processes, times and the meeting       *)
(* alike.  A configuration is the provider it is for.                      *)
(***************************************************************************)
EXTENDS Integers, Sequences

CONSTANTS
  Providers,      \* ProviderKind
  NoProvider,     \* None
  Cap,            \* RESPAWN_CAP
  Window,         \* RESPAWN_WINDOW, in ticks
  Backoff,        \* RESPAWN_BACKOFF, in ticks
  MaxSaves,       \* bound: settings saved
  MaxProcesses,   \* bound: starts that succeed
  MaxTime         \* bound: ticks

ASSUME LimitsAssumption ==
  /\ Cap \in Nat \ {0} /\ Window \in Nat /\ Backoff \in Nat
  /\ MaxSaves \in Nat /\ MaxProcesses \in Nat /\ MaxTime \in Nat \ {0}

ASSUME ProvidersAssumption == NoProvider \notin Providers

VARIABLES
  selected, keys,          \* the settings table; the providers whose key is stored
  main, saves,             \* the main thread; settings saved so far
  child, endpoint, config, \* SupervisorState
  respawnCount, firstAt, nextAt,
  runs, alive,             \* what each process was configured with; those that run
  attempts,                \* history: when a start was tried, since the last shutdown
  meeting,                 \* the process the meeting's link was given
  now

settingsVars == <<selected, keys>>
mainVars == <<main, saves>>
childVars == <<child, endpoint, config, runs, alive>>
counterVars == <<respawnCount, firstAt, nextAt, attempts>>
vars == <<settingsVars, mainVars, childVars, counterVars, meeting, now>>

Places == {"launch", "idle", "select", "stop", "backoff", "sleep", "gone"}
Times == 0 .. MaxTime + Backoff
OrNone(S) == S \cup {0}

TypeOK ==
  /\ selected \in Providers
  /\ keys \subseteq Providers
  /\ main \in [pc : Places, provider : Providers \cup {NoProvider}, wake : Times]
  /\ saves \in 0 .. MaxSaves
  /\ runs \in Seq(Providers) /\ Len(runs) <= MaxProcesses
  /\ alive \subseteq DOMAIN runs
  /\ child \in OrNone(DOMAIN runs)
  /\ endpoint \in OrNone(DOMAIN runs)
  /\ config \in Providers \cup {NoProvider}
  /\ respawnCount \in 0 .. Cap + 1
  /\ firstAt \in Times /\ nextAt \in Times
  /\ attempts \in Seq(1 .. MaxTime)
  /\ meeting \in OrNone(DOMAIN runs)
  /\ now \in 1 .. MaxTime

At(place) == [pc |-> place, provider |-> NoProvider, wake |-> 0]

Init ==
  /\ selected \in Providers
  /\ keys \in SUBSET Providers
  /\ main = At("launch") /\ saves = 0
  /\ child = 0 /\ endpoint = 0 /\ config = NoProvider
  /\ runs = << >> /\ alive = {}
  /\ respawnCount = 0 /\ firstAt = 0 /\ nextAt = 0 /\ attempts = << >>
  /\ meeting = 0
  /\ now = 1

-----------------------------------------------------------------------------
(* The parts of a hold of the lock *)

\* A start that gets ready replaces `previous`, which is killed.
StartSucceeds(previous, provider) ==
  LET new == Len(runs) + 1 IN
  /\ new <= MaxProcesses
  /\ runs' = Append(runs, provider)
  /\ alive' = (alive \ {previous}) \cup {new}
  /\ child' = new /\ endpoint' = new
  /\ config' = provider

\* A start that fails changes neither the processes nor the configuration.
StartFails(previous) ==
  /\ child' = previous
  /\ endpoint' = IF previous = 0 THEN 0 ELSE endpoint
  /\ UNCHANGED <<runs, alive, config>>

\* Mutant of InWindow: its last tick is left out.
InOpenWindow == firstAt # 0 /\ now - firstAt < Window

InWindow == firstAt # 0 /\ now - firstAt <= Window

\* Every attempt counts, those that succeed too.
Count ==
  /\ respawnCount' = IF InWindow THEN respawnCount + 1 ELSE 1
  /\ firstAt' = IF InWindow THEN firstAt ELSE now
  /\ nextAt' = now + Backoff
  /\ attempts' = Append(attempts, now)

\* Mutants of Shutdown: the child is let go alive; its configuration is kept.
ShutdownOrphans ==
  /\ child' = 0 /\ endpoint' = 0 /\ config' = NoProvider
  /\ respawnCount' = 0 /\ firstAt' = 0 /\ nextAt' = 0 /\ attempts' = << >>
  /\ UNCHANGED <<runs, alive>>
ShutdownKeepsConfig ==
  /\ alive' = alive \ {child}
  /\ child' = 0 /\ endpoint' = 0
  /\ respawnCount' = 0 /\ firstAt' = 0 /\ nextAt' = 0 /\ attempts' = << >>
  /\ UNCHANGED <<runs, config>>

\* shutdown(): the child is killed and waited for, the counter starts afresh.
Shutdown ==
  /\ alive' = alive \ {child}
  /\ child' = 0 /\ endpoint' = 0 /\ config' = NoProvider
  /\ respawnCount' = 0 /\ firstAt' = 0 /\ nextAt' = 0 /\ attempts' = << >>
  /\ UNCHANGED runs

-----------------------------------------------------------------------------
(* The main thread *)

\* initialize_capture starts the sidecar when the selected provider's key can be
\* read.  A start that fails ends the application, which shuts the supervisor down.
LaunchWithout ==
  /\ main.pc = "launch"
  /\ main' = At("idle")
  /\ UNCHANGED <<settingsVars, saves, childVars, counterVars, meeting, now>>

Launch ==
  /\ main.pc = "launch" /\ selected \in keys
  /\ StartSucceeds(0, selected)
  /\ Count
  /\ main' = At("idle")
  /\ UNCHANGED <<settingsVars, saves, meeting, now>>

LaunchFails ==
  /\ main.pc = "launch" /\ selected \in keys
  /\ Shutdown
  /\ main' = At("gone")
  /\ UNCHANGED <<settingsVars, saves, meeting, now>>

\* save_provider_settings.  A key that is typed replaces the stored one, which is
\* deleted before the new one is written, and either may fail.
Save(provider) ==
  /\ main.pc = "idle" /\ saves < MaxSaves
  /\ saves' = saves + 1
  /\ \/ /\ main' = [At("select") EXCEPT !.provider = provider]
        /\ keys' \in {keys, keys \cup {provider}}
     \/ /\ main' = At("idle")
        /\ keys' \in {keys, keys \ {provider}}
  /\ UNCHANGED <<selected, childVars, counterVars, meeting, now>>

Select ==
  /\ main.pc = "select"
  /\ selected' = main.provider
  /\ main' = IF main.provider \in keys THEN [main EXCEPT !.pc = "stop"] ELSE At("idle")
  /\ UNCHANGED <<keys, saves, childVars, counterVars, meeting, now>>

\* The table refuses the settings, or the stored key cannot be read back.
SelectFails ==
  /\ main.pc = "select"
  /\ selected' \in {selected, main.provider}
  /\ selected' = main.provider => main.provider \in keys
  /\ main' = At("idle")
  /\ UNCHANGED <<keys, saves, childVars, counterVars, meeting, now>>

\* respawn() is shutdown() and then spawn(), each with locks of its own.  Killing a
\* child that has exited may be an error, and then nothing is spawned.
Stop ==
  /\ main.pc = "stop"
  /\ Shutdown
  /\ \/ main' = [main EXCEPT !.pc = "backoff"]
     \/ child # 0 /\ child \notin alive /\ main' = At("idle")
  /\ UNCHANGED <<settingsVars, saves, meeting, now>>

ReadBackoff ==
  /\ main.pc = "backoff"
  /\ main' = [main EXCEPT !.pc = "sleep", !.wake = nextAt]
  /\ UNCHANGED <<settingsVars, saves, childVars, counterVars, meeting, now>>

Spawn ==
  /\ main.pc = "sleep" /\ now >= main.wake
  /\ StartSucceeds(child, main.provider) \/ StartFails(child)
  /\ Count
  /\ main' = At("idle")
  /\ UNCHANGED <<settingsVars, saves, meeting, now>>

\* The window is asked to close.
Close ==
  /\ main.pc = "idle"
  /\ Shutdown
  /\ main' = At("gone")
  /\ UNCHANGED <<settingsVars, saves, meeting, now>>

-----------------------------------------------------------------------------
(* endpoint(), and the meeting that asks for it *)

\* Mutant of Serving: an exited child is not noticed.
ServingUnchecked == endpoint # 0

Serving == endpoint # 0 /\ child \in alive
Reaped == IF child \in alive THEN child ELSE 0

\* The breaker, which endpoint() looks at before it starts a sidecar.
Tripped == respawnCount > Cap

\* One call of endpoint() and what it answers.
Ask(answer) ==
  /\ main.pc # "launch"
  /\ \/ /\ Serving
        /\ answer = endpoint
        /\ UNCHANGED <<childVars, counterVars>>
     \/ /\ ~ Serving
        /\ Tripped \/ config = NoProvider
        /\ answer = 0
        /\ StartFails(Reaped)
        /\ UNCHANGED counterVars
     \/ /\ ~ Serving
        /\ ~ Tripped /\ config # NoProvider
        /\ Count
        /\ \/ answer = Len(runs) + 1 /\ StartSucceeds(Reaped, config)
           \/ answer = 0 /\ StartFails(Reaped)

\* start_from_webview asks whether there is a sidecar before it starts a meeting.
Probe ==
  /\ \E answer \in 0 .. MaxProcesses : Ask(answer)
  /\ UNCHANGED <<settingsVars, mainVars, meeting, now>>

StartMeeting ==
  /\ meeting = 0
  /\ \E answer \in 1 .. MaxProcesses : Ask(answer) /\ meeting' = answer
  /\ UNCHANGED <<settingsVars, mainVars, now>>

\* The watcher gives the link the endpoint of the day; without one the meeting fails.
Poll ==
  /\ meeting # 0
  /\ \E answer \in 0 .. MaxProcesses : Ask(answer) /\ meeting' = answer
  /\ UNCHANGED <<settingsVars, mainVars, now>>

StopMeeting ==
  /\ meeting # 0
  /\ meeting' = 0
  /\ UNCHANGED <<settingsVars, mainVars, childVars, counterVars, now>>

-----------------------------------------------------------------------------
(* The processes and the clock *)

Exit(process) ==
  /\ process \in alive
  /\ alive' = alive \ {process}
  /\ UNCHANGED <<settingsVars, mainVars, child, endpoint, config, runs,
                 counterVars, meeting, now>>

Tick ==
  /\ now < MaxTime
  /\ now' = now + 1
  /\ UNCHANGED <<settingsVars, mainVars, childVars, counterVars, meeting>>

MainStep ==
  \/ LaunchWithout \/ Launch \/ LaunchFails
  \/ Select \/ SelectFails
  \/ Stop \/ ReadBackoff \/ Spawn

Next ==
  \/ MainStep
  \/ \E provider \in Providers : Save(provider)
  \/ Close
  \/ Probe \/ StartMeeting \/ Poll \/ StopMeeting
  \/ \E process \in 1 .. MaxProcesses : Exit(process)
  \/ Tick

\* The main thread runs, and a meeting's watcher polls; users, processes and the
\* clock owe nothing.
Spec == Init /\ [][Next]_vars /\ WF_vars(MainStep) /\ WF_vars(Poll)

-----------------------------------------------------------------------------
(* What holds *)

\* At most one process runs, and it is the one the endpoint names: neither a
\* restart nor a failed start leaves a second sidecar writing the same database.
OneProcess == alive \subseteq {child} /\ endpoint = child

\* While the user's restart is between its shutdown and its spawn, and once the
\* window is closed, nothing runs: no watcher that asks for the endpoint in
\* between revives the sidecar with the settings that are being replaced.
StoppedMeansSilent == main.pc \in {"backoff", "sleep", "gone"} => alive = {}

\* A sidecar that dies as soon as it is ready is started at most 2 * Cap times in
\* any stretch as long as the window, that is, 2 * Cap + 1 starts in a row take
\* longer: the window that is counted is not one that slides, so the ends of two
\* may share a stretch.
StormBounded ==
  \A i \in 1 .. Len(attempts) - 2 * Cap : attempts[i + 2 * Cap] - attempts[i] > Window

\* The breaker trips only on a storm: the last Cap + 1 starts lie within a window,
\* and all of them were made since the last restart the user asked for.
TripsOnlyInStorm ==
  Tripped => /\ Len(attempts) > Cap
             /\ attempts[Len(attempts)] - attempts[Len(attempts) - Cap] <= Window

\* A meeting whose sidecar died is given one that runs, or is over.
MeetingServed == (meeting # 0 /\ meeting \notin alive) ~> (meeting \in alive \cup {0})

=============================================================================
