---------------------------- MODULE ShellStores ----------------------------
(***************************************************************************)
(* What the shell keeps from one launch to the next (the settings row, the *)
(* keys in the OS keychain or in files, the refused screen permission) and *)
(* what each launch makes of it.                                           *)
(*                                                                         *)
(* save_provider_settings runs on the main thread, permissions are asked   *)
(* on the capture worker; both may be cut short by a crash anywhere.  The  *)
(* keychain may fail or time out in any call.  Settings are reduced to     *)
(* their provider: those that do not validate are refused before anything  *)
(* is stored.  The microphone's permission is the system's own state and   *)
(* none of this code's; whether a sidecar starts is Supervisor's matter.   *)
(***************************************************************************)
EXTENDS Naturals

CONSTANTS
  Providers,
  Keys,         \* what a user may type
  NoKey,        \* a missing secret
  NoRow,        \* the settings table is empty
  Torn,         \* a key file that was truncated and not yet written
  Default,      \* the provider of ProviderSettings::default()
  MaxLaunches,  \* bound
  MaxSaves      \* bound

ASSUME StoresAssumption ==
  /\ Default \in Providers
  /\ NoRow \notin Providers
  /\ NoKey \notin Keys /\ Torn \notin Keys /\ Torn # NoKey
  /\ MaxLaunches \in Nat /\ MaxSaves \in Nat

VARIABLES
  up, launches, saves,
  row,        \* the settings in settings.sqlite
  secrets,    \* secrets[store][provider]
  store,      \* the SecretStore this launch has picked
  save,       \* how far save_provider_settings is
  config,     \* the runtime configuration the supervisor holds
  told,       \* what the last save answered
  typed,      \* history: the keys typed for each provider
  chosen,     \* history: the key typed with the settings in the row
  allowed,    \* the system lets the application record the screen
  refused,    \* the refusal, in UserDefaults and in the process
  answer,     \* the last screen permission the window was given
  lifted      \* history: the user has allowed it since that answer

storeVars == <<row, secrets, typed, chosen>>
saveVars == <<saves, storeVars, save, told, config>>
permissionVars == <<allowed, refused, answer, lifted>>
vars == <<up, launches, store, saveVars, permissionVars>>

Stores == {"OsSecretStore", "FileSecretStore"}
NoConfig == [provider |-> Default, key |-> NoKey]
At(pc) == [pc |-> pc, provider |-> Default, key |-> NoKey]
Untold == [has |-> FALSE, provider |-> Default, key |-> NoKey]
NoChoice == [store |-> "OsSecretStore", provider |-> Default, key |-> NoKey]

TypeOK ==
  /\ up \in BOOLEAN
  /\ launches \in 0 .. MaxLaunches /\ saves \in 0 .. MaxSaves
  /\ row \in Providers \cup {NoRow}
  /\ secrets \in [Stores -> [Providers -> Keys \cup {NoKey, Torn}]]
  /\ store \in Stores
  /\ save \in [pc : {"idle", "delete", "set", "write", "row", "has", "respawn"},
               provider : Providers, key : Keys \cup {NoKey}]
  /\ config \in [provider : Providers, key : Keys \cup {NoKey, Torn}]
  /\ told \in [has : BOOLEAN, provider : Providers, key : Keys \cup {NoKey}]
  /\ typed \in [Providers -> SUBSET Keys]
  /\ chosen \in [store : Stores, provider : Providers, key : Keys \cup {NoKey}]
  /\ allowed \in BOOLEAN /\ lifted \in BOOLEAN
  /\ refused \in [defaults : BOOLEAN, process : BOOLEAN]
  /\ answer \in {"Unknown", "Granted", "Denied"}

Init ==
  /\ up = FALSE /\ launches = 0 /\ saves = 0
  /\ row = NoRow
  /\ secrets = [s \in Stores |-> [p \in Providers |-> NoKey]]
  /\ store = "OsSecretStore"
  /\ save = At("idle") /\ config = NoConfig /\ told = Untold
  /\ typed = [p \in Providers |-> {}] /\ chosen = NoChoice
  /\ allowed \in BOOLEAN /\ lifted = FALSE
  /\ refused = [defaults |-> FALSE, process |-> FALSE]
  /\ answer = "Unknown"

-----------------------------------------------------------------------------
(* The life of the process *)

\* The keychain may fail to answer, a key file is read as it is.
GetKeychain(p) == {secrets["OsSecretStore"][p], NoKey}
GetFile(p) == {secrets["FileSecretStore"][p]}
Get(s, p) == IF s = "OsSecretStore" THEN GetKeychain(p) ELSE GetFile(p)

\* pick_secret_store asks the keychain for one key, and takes it unless it fails.
Picked(probe) == IF probe = "fails" THEN "FileSecretStore" ELSE "OsSecretStore"

\* SettingsRepository::load
Loaded == IF row = NoRow THEN Default ELSE row

\* initialize_capture
Launch ==
  /\ ~up /\ launches < MaxLaunches
  /\ up' = TRUE /\ launches' = launches + 1
  /\ \E probe \in {"answers", "fails"} : store' = Picked(probe)
  /\ \E key \in Get(store', Loaded) : config' = [provider |-> Loaded, key |-> key]
  /\ refused' = [refused EXCEPT !.process = FALSE]
  /\ UNCHANGED <<saves, storeVars, save, told, allowed, answer, lifted>>

\* The application is closed, or dies wherever it is.
Exit ==
  /\ up /\ up' = FALSE
  /\ save' = At("idle") /\ told' = Untold /\ config' = NoConfig
  /\ UNCHANGED <<launches, store, saves, storeVars, permissionVars>>

-----------------------------------------------------------------------------
(* save_provider_settings *)

SaveAt(pc) == up /\ save.pc = pc
Goto(pc) == save' = [save EXCEPT !.pc = pc]
\* An error ends the command; what it has stored stays.
Refuse == save' = At("idle")

Submit(p, key) ==
  /\ SaveAt("idle") /\ saves < MaxSaves
  /\ saves' = saves + 1
  /\ save' = [pc |-> IF key = NoKey THEN "row" ELSE "delete", provider |-> p, key |-> key]
  /\ typed' = IF key = NoKey THEN typed ELSE [typed EXCEPT ![p] = @ \cup {key}]
  /\ told' = Untold
  /\ UNCHANGED <<up, launches, store, row, secrets, chosen, config, permissionVars>>

Put(key) == secrets' = [secrets EXCEPT ![store][save.provider] = key]

\* FileSecretStore::delete and the keychain's; a key that is missing may be.
Remove == Put(NoKey)

\* SecretStore::replace deletes the key first.
Delete ==
  /\ SaveAt("delete")
  /\ \/ /\ Remove /\ Goto("set")
        /\ chosen' = IF chosen.store = store /\ chosen.provider = save.provider
                       THEN NoChoice ELSE chosen
     \/ Refuse /\ UNCHANGED <<secrets, chosen>>
  /\ UNCHANGED <<up, launches, store, saves, row, typed, told, config, permissionVars>>

\* Mutant of Set: an error of the store goes unnoticed.
SetUnchecked ==
  /\ SaveAt("set")
  /\ Goto("row") /\ (Put(save.key) \/ UNCHANGED secrets)
  /\ UNCHANGED <<up, launches, store, saves, row, typed, chosen, told, config,
                 permissionVars>>

\* A key file is first made or truncated, with its mode, and then written.
Set ==
  /\ SaveAt("set")
  /\ \/ store = "OsSecretStore" /\ Put(save.key) /\ Goto("row")
     \/ store = "FileSecretStore" /\ Put(Torn) /\ Goto("write")
     \/ Refuse /\ UNCHANGED secrets
  /\ UNCHANGED <<up, launches, store, saves, row, typed, chosen, told, config,
                 permissionVars>>

Write ==
  /\ SaveAt("write")
  /\ \/ Put(save.key) /\ Goto("row")
     \/ Refuse /\ UNCHANGED secrets
  /\ UNCHANGED <<up, launches, store, saves, row, typed, chosen, told, config,
                 permissionVars>>

SaveRow ==
  /\ SaveAt("row")
  /\ \/ /\ row' = save.provider /\ Goto("has")
        /\ chosen' = IF save.key = NoKey THEN NoChoice
                     ELSE [store |-> store, provider |-> save.provider, key |-> save.key]
     \/ Refuse /\ UNCHANGED <<row, chosen>>
  /\ UNCHANGED <<up, launches, store, saves, secrets, typed, told, config, permissionVars>>

\* Without a key, or without an answer, the sidecar is left as it is.
Has ==
  /\ SaveAt("has")
  /\ \E key \in Get(store, save.provider) :
       IF key = NoKey THEN Refuse ELSE Goto("respawn")
  /\ UNCHANGED <<up, launches, store, saves, storeVars, told, config, permissionVars>>

\* Mutant of Respawn: the key is looked up for the configuration before.
RespawnBefore ==
  /\ SaveAt("respawn")
  /\ \E key \in Get(store, config.provider) \ {NoKey} :
       config' = [provider |-> save.provider, key |-> key]
  /\ told' = [has |-> TRUE, provider |-> save.provider, key |-> save.key]
  /\ Refuse
  /\ UNCHANGED <<up, launches, store, saves, storeVars, permissionVars>>

\* respawn() forgets the old configuration before it tries the new one.
Respawn ==
  /\ SaveAt("respawn")
  /\ \E key \in Get(store, save.provider) :
       \/ key = NoKey /\ UNCHANGED <<config, told>>
       \/ key # NoKey /\ config' = NoConfig /\ UNCHANGED told
       \/ /\ key # NoKey /\ config' = [provider |-> save.provider, key |-> key]
          /\ told' = [has |-> TRUE, provider |-> save.provider, key |-> save.key]
  /\ Refuse
  /\ UNCHANGED <<up, launches, store, saves, storeVars, permissionVars>>

Save ==
  \/ \E p \in Providers, key \in Keys \cup {NoKey} : Submit(p, key)
  \/ Delete \/ Set \/ Write \/ SaveRow \/ Has \/ Respawn

-----------------------------------------------------------------------------
(* The screen recording permission *)

\* Mutant of SetDenied: only the process remembers.
SetDeniedHere(denied) == refused' = [refused EXCEPT !.process = denied]

SetDenied(denied) == refused' = [defaults |-> denied, process |-> denied]

Denied == refused.defaults \/ refused.process

Answer(state) == answer' = state /\ lifted' = FALSE

\* screen_authorization_with_history: a grant wipes the refusal out.
Status ==
  /\ up
  /\ IF allowed
       THEN SetDenied(FALSE) /\ Answer("Granted")
       ELSE UNCHANGED refused /\ Answer(IF Denied THEN "Denied" ELSE "Unknown")
  /\ UNCHANGED <<launches, up, store, saveVars, allowed>>

\* request_access asks the system only while nothing is known; ensure_access,
\* before a source starts, does the same.  The user may grant it there and then.
Request ==
  /\ up /\ ~allowed /\ ~Denied
  /\ \E granted \in BOOLEAN :
       /\ allowed' = granted
       /\ SetDenied(~granted)
       /\ Answer(IF granted THEN "Granted" ELSE "Denied")
  /\ UNCHANGED <<launches, up, store, saveVars>>

\* The user grants or revokes it in System Settings.
Toggle ==
  /\ allowed' = ~allowed
  /\ lifted' = (lifted \/ allowed')
  /\ UNCHANGED <<launches, up, store, saveVars, refused, answer>>

-----------------------------------------------------------------------------
Next == Launch \/ Exit \/ Save \/ Status \/ Request \/ Toggle

Spec == Init /\ [][Next]_vars

-----------------------------------------------------------------------------
(* Properties *)

\* The sidecar is configured with a key the user typed for its provider, unless
\* a crash tore the key file; and a save that answers "key present" has it serve
\* the provider and the key that were saved.
ServesWhatWasTyped ==
  /\ config.key \in typed[config.provider] \cup {NoKey, Torn}
  /\ told.has => /\ config.provider = told.provider
                 /\ told.key # NoKey => config.key = told.key

\* Settings saved together with a key find that key in the store it was put in,
\* after a crash or an error in any later save too, until that key is replaced.
RowHasItsKey ==
  chosen.key # NoKey =>
    /\ row = chosen.provider
    /\ secrets[chosen.store][chosen.provider] = chosen.key

\* A refusal the window has seen is not forgotten by a restart: it gets
\* "not determined" again only after the user has allowed the recording.
RefusalSticks ==
  [][answer = "Denied" /\ answer' = "Unknown" => lifted]_vars
=============================================================================
