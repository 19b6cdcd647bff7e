------------------------- MODULE ShellStores_proofs -------------------------
(***************************************************************************)
(* Theorems about what the shell stores, for every set of providers and    *)
(* keys and any number of launches and saves.                              *)
(***************************************************************************)
EXTENDS ShellStores, TLAPS

-----------------------------------------------------------------------------
(* The inductive invariant *)

Secrets == Keys \cup {NoKey, Torn}

\* Whatever is stored was typed, for the provider it is stored for.
StoredWasTyped ==
  /\ \A s \in Stores, p \in Providers : secrets[s][p] \in typed[p] \cup {NoKey, Torn}
  /\ save.key \in typed[save.provider] \cup {NoKey}

\* A save under way has answered nothing; without a process there is none, nor
\* an answer.
OneAnswer ==
  /\ save.pc # "idle" => ~told.has
  /\ ~up => save.pc = "idle" /\ ~told.has

\* A save that is past its keys has stored the one it was given.
KeyIsWritten ==
  save.pc \in {"row", "has", "respawn"} /\ save.key # NoKey =>
    secrets[store][save.provider] = save.key

\* A save that is about to store a key no longer has one to lose.
OldKeyIsGone ==
  save.pc \in {"set", "write"} /\ chosen.key # NoKey =>
    chosen.store # store \/ chosen.provider # save.provider

\* A refusal the window has seen is in UserDefaults, unless the user has since
\* allowed the recording; the process knows of no other.
RefusalIsStored ==
  /\ refused.process => refused.defaults
  /\ answer = "Denied" /\ ~lifted => refused.defaults

IInv ==
  /\ TypeOK
  /\ StoredWasTyped /\ OneAnswer /\ ServesWhatWasTyped
  /\ KeyIsWritten /\ OldKeyIsGone /\ RowHasItsKey
  /\ RefusalIsStored

-----------------------------------------------------------------------------
(* Lemmas *)

\* Put changes one secret and keeps the rest.
LEMMA PutChangesOne ==
  ASSUME TypeOK, NEW key \in Secrets, Put(key)
  PROVE  /\ secrets' \in [Stores -> [Providers -> Secrets]]
         /\ secrets'[store][save.provider] = key
         /\ \A s \in Stores, p \in Providers :
              s # store \/ p # save.provider => secrets'[s][p] = secrets[s][p]
<1>1. /\ secrets \in [Stores -> [Providers -> Secrets]]
      /\ store \in Stores /\ save.provider \in Providers
  BY DEF TypeOK, Secrets
<1>2. secrets' = [secrets EXCEPT ![store] = [secrets[store] EXCEPT ![save.provider] = key]]
  BY <1>1 DEF Put
<1>3. secrets[store] \in [Providers -> Secrets]
  BY <1>1
<1>4. [secrets[store] EXCEPT ![save.provider] = key] \in [Providers -> Secrets]
  BY <1>1, <1>3
<1> QED BY <1>1, <1>2, <1>3, <1>4

\* What a store answers for a provider was typed for it.
LEMMA GetReturnsTyped ==
  ASSUME TypeOK, StoredWasTyped, NEW s \in Stores, NEW p \in Providers, NEW key \in Get(s, p)
  PROVE  /\ key \in typed[p] \cup {NoKey, Torn}
         /\ key \in Secrets
         /\ key # NoKey => key = secrets[s][p]
<1>1. typed[p] \subseteq Keys
  BY DEF TypeOK
<1>2. key \in {secrets[s][p], NoKey}
  BY DEF Get, GetKeychain, GetFile, Stores
<1> QED BY <1>1, <1>2 DEF StoredWasTyped, Secrets

-----------------------------------------------------------------------------
(* The permission and the process *)

\* The steps of the permission leave the stores alone.
LEMMA PermissionKeeps ==
  ASSUME IInv, Status \/ Request \/ Toggle
  PROVE  IInv'
<1>1. UNCHANGED <<up, launches, store, saveVars>>
  BY DEF Status, Request, Toggle
<1>2. /\ StoredWasTyped' /\ OneAnswer' /\ ServesWhatWasTyped'
      /\ KeyIsWritten' /\ OldKeyIsGone' /\ RowHasItsKey'
  BY <1>1 DEF IInv, StoredWasTyped, OneAnswer, ServesWhatWasTyped, KeyIsWritten, OldKeyIsGone,
              RowHasItsKey, saveVars, storeVars
<1>3. /\ allowed' \in BOOLEAN /\ lifted' \in BOOLEAN
      /\ refused' \in [defaults : BOOLEAN, process : BOOLEAN]
      /\ answer' \in {"Unknown", "Granted", "Denied"}
      /\ RefusalIsStored'
  <2> USE DEF IInv, TypeOK, RefusalIsStored
  <2>1. CASE Status
    <3>1. CASE allowed
      <4>1. /\ refused' = [defaults |-> FALSE, process |-> FALSE]
            /\ answer' = "Granted" /\ lifted' = FALSE /\ allowed' = allowed
        BY <2>1, <3>1 DEF Status, SetDenied, Answer
      <4> QED BY <4>1
    <3>2. CASE ~allowed
      <4>1. /\ refused' = refused /\ lifted' = FALSE /\ allowed' = allowed
            /\ answer' = IF Denied THEN "Denied" ELSE "Unknown"
        BY <2>1, <3>2 DEF Status, Answer
      <4> QED BY <4>1 DEF Denied
    <3> QED BY <3>1, <3>2
  <2>2. CASE Request
    <3>1. PICK granted \in BOOLEAN : /\ allowed' = granted
                                    /\ SetDenied(~granted)
                                    /\ Answer(IF granted THEN "Granted" ELSE "Denied")
      BY <2>2 DEF Request
    <3>2. CASE granted
      <4>1. /\ refused' = [defaults |-> FALSE, process |-> FALSE]
            /\ answer' = "Granted" /\ lifted' = FALSE
        BY <3>1, <3>2 DEF SetDenied, Answer
      <4> QED BY <3>1, <4>1
    <3>3. CASE ~granted
      <4>1. /\ refused' = [defaults |-> TRUE, process |-> TRUE]
            /\ answer' = "Denied" /\ lifted' = FALSE
        BY <3>1, <3>3 DEF SetDenied, Answer
      <4> QED BY <3>1, <4>1
    <3> QED BY <3>2, <3>3
  <2>3. CASE Toggle
    BY <2>3 DEF Toggle
  <2> QED BY <2>1, <2>2, <2>3
<1>4. TypeOK'
  BY <1>1, <1>3 DEF IInv, TypeOK, saveVars, storeVars
<1> QED BY <1>2, <1>3, <1>4 DEF IInv

LEMMA LaunchKeeps ==
  ASSUME IInv, Launch
  PROVE  IInv'
<1>1. /\ ~up /\ up' = TRUE /\ launches' \in 0 .. MaxLaunches /\ store' \in Stores
      /\ save.pc = "idle" /\ ~told.has
      /\ refused' = [refused EXCEPT !.process = FALSE]
      /\ UNCHANGED <<saves, storeVars, save, told, allowed, answer, lifted>>
  BY StoresAssumption DEF IInv, TypeOK, OneAnswer, Launch, Picked, Stores
<1>2. Loaded \in Providers
  BY StoresAssumption DEF Loaded, IInv, TypeOK
<1>3. PICK key \in Get(store', Loaded) : config' = [provider |-> Loaded, key |-> key]
  BY DEF Launch
<1>4. key \in typed[Loaded] \cup {NoKey, Torn} /\ key \in Secrets
  BY <1>1, <1>2, <1>3, GetReturnsTyped DEF IInv
<1>5. TypeOK'
  BY <1>1, <1>2, <1>3, <1>4 DEF IInv, TypeOK, storeVars, Secrets
<1>6. ServesWhatWasTyped'
  BY <1>1, <1>2, <1>3, <1>4 DEF ServesWhatWasTyped, storeVars
<1>7. RefusalIsStored'
  BY <1>1 DEF IInv, TypeOK, RefusalIsStored
<1>8. StoredWasTyped' /\ OneAnswer' /\ KeyIsWritten' /\ OldKeyIsGone' /\ RowHasItsKey'
  BY <1>1 DEF IInv, StoredWasTyped, OneAnswer, KeyIsWritten, OldKeyIsGone, RowHasItsKey, storeVars
<1> QED BY <1>5, <1>6, <1>7, <1>8 DEF IInv

LEMMA ExitKeeps ==
  ASSUME IInv, Exit
  PROVE  IInv'
<1>1. /\ up' = FALSE /\ save' = At("idle") /\ told' = Untold /\ config' = NoConfig
      /\ UNCHANGED <<launches, store, saves, storeVars, permissionVars>>
  BY DEF Exit
<1>2. /\ save'.pc = "idle" /\ save'.key = NoKey /\ save'.provider = Default
      /\ told'.has = FALSE
      /\ config'.key = NoKey
  BY <1>1 DEF At, Untold, NoConfig
<1>3. TypeOK'
  BY <1>1, StoresAssumption DEF IInv, TypeOK, At, Untold, NoConfig, storeVars, permissionVars
<1> QED BY <1>1, <1>2, <1>3 DEF IInv, StoredWasTyped, OneAnswer, ServesWhatWasTyped, KeyIsWritten,
          OldKeyIsGone, RowHasItsKey, RefusalIsStored, storeVars, permissionVars

-----------------------------------------------------------------------------
(* The steps of a save *)

LEMMA SubmitKeeps ==
  ASSUME IInv, NEW p \in Providers, NEW key \in Keys \cup {NoKey}, Submit(p, key)
  PROVE  IInv'
<1>1. /\ up
      /\ saves' \in 0 .. MaxSaves
      /\ save' = [pc |-> IF key = NoKey THEN "row" ELSE "delete", provider |-> p, key |-> key]
      /\ typed' = IF key = NoKey THEN typed ELSE [typed EXCEPT ![p] = @ \cup {key}]
      /\ told' = Untold
      /\ UNCHANGED <<up, launches, store, row, secrets, chosen, config, permissionVars>>
  BY StoresAssumption DEF IInv, TypeOK, Submit, SaveAt
<1>2. /\ typed' \in [Providers -> SUBSET Keys]
      /\ \A q \in Providers : typed[q] \subseteq typed'[q]
      /\ key \in typed'[p] \cup {NoKey}
  BY <1>1 DEF IInv, TypeOK
<1>3. TypeOK'
  BY <1>1, <1>2, StoresAssumption DEF IInv, TypeOK, Untold, permissionVars
<1>4. StoredWasTyped'
  BY <1>1, <1>2 DEF IInv, StoredWasTyped
<1>5. ServesWhatWasTyped'
  BY <1>1, <1>2 DEF IInv, TypeOK, ServesWhatWasTyped, Untold
<1>6. OneAnswer' /\ KeyIsWritten' /\ OldKeyIsGone' /\ RowHasItsKey' /\ RefusalIsStored'
  BY <1>1 DEF IInv, OneAnswer, KeyIsWritten, OldKeyIsGone, RowHasItsKey, RefusalIsStored, Untold,
              permissionVars
<1> QED BY <1>3, <1>4, <1>5, <1>6 DEF IInv

\* A save that ends, whatever it has stored.
LEMMA RefuseKeeps ==
  ASSUME IInv, up, Refuse, UNCHANGED <<up, launches, store, saves, storeVars, config, told,
                                       permissionVars>>
  PROVE  IInv'
<1>1. /\ save'.pc = "idle" /\ save'.key = NoKey /\ save'.provider = Default
      /\ save' \in [pc : {"idle", "delete", "set", "write", "row", "has", "respawn"},
                    provider : Providers, key : Keys \cup {NoKey}]
  BY StoresAssumption DEF Refuse, At
<1>2. TypeOK'
  BY <1>1 DEF IInv, TypeOK, storeVars, permissionVars
<1> QED BY <1>1, <1>2 DEF IInv, StoredWasTyped, OneAnswer, ServesWhatWasTyped, KeyIsWritten,
          OldKeyIsGone, RowHasItsKey, RefusalIsStored, storeVars, permissionVars

\* A secret is put in place of another: what it leaves true.
LEMMA PutKeeps ==
  ASSUME IInv, NEW key \in Secrets, Put(key),
         key \in {save.key, NoKey, Torn},
         UNCHANGED <<typed, config, told>>,
         save'.key = save.key, save'.provider = save.provider
  PROVE  StoredWasTyped' /\ ServesWhatWasTyped'
<1>1. /\ secrets' \in [Stores -> [Providers -> Secrets]]
      /\ secrets'[store][save.provider] = key
      /\ \A s \in Stores, p \in Providers :
           s # store \/ p # save.provider => secrets'[s][p] = secrets[s][p]
  BY PutChangesOne DEF IInv
<1>2. key \in typed[save.provider] \cup {NoKey, Torn}
  BY DEF IInv, StoredWasTyped
<1> QED BY <1>1, <1>2 DEF IInv, StoredWasTyped, ServesWhatWasTyped

LEMMA DeleteKeeps ==
  ASSUME IInv, Delete
  PROVE  IInv'
<1>1. CASE Refuse /\ UNCHANGED <<secrets, chosen>>
  BY <1>1, RefuseKeeps DEF Delete, SaveAt, storeVars
<1>2. CASE /\ Remove /\ Goto("set")
           /\ chosen' = IF chosen.store = store /\ chosen.provider = save.provider
                          THEN NoChoice ELSE chosen
  <2>1. /\ up /\ save.pc = "delete" /\ Put(NoKey)
        /\ UNCHANGED <<up, launches, store, saves, row, typed, told, config, permissionVars>>
        /\ NoKey \in Secrets
    BY <1>2 DEF Delete, SaveAt, Remove, Secrets
  <2>2. /\ save' \in [pc : {"set"}, provider : Providers, key : Keys \cup {NoKey}]
        /\ save'.pc = "set" /\ save'.key = save.key /\ save'.provider = save.provider
    BY <1>2 DEF Goto, IInv, TypeOK
  <2>3. /\ chosen' \in [store : Stores, provider : Providers, key : Keys \cup {NoKey}]
        /\ chosen'.key # NoKey => /\ chosen' = chosen
                                  /\ chosen.store # store \/ chosen.provider # save.provider
    BY <1>2, StoresAssumption DEF NoChoice, Stores, IInv, TypeOK
  <2>4. /\ secrets' \in [Stores -> [Providers -> Secrets]]
        /\ \A s \in Stores, p \in Providers :
             s # store \/ p # save.provider => secrets'[s][p] = secrets[s][p]
    BY <2>1, PutChangesOne DEF IInv
  <2>5. TypeOK'
    BY <2>1, <2>2, <2>3, <2>4 DEF IInv, TypeOK, Secrets, permissionVars
  <2>6. StoredWasTyped' /\ ServesWhatWasTyped'
    BY <2>1, <2>2, PutKeeps
  <2>7. RowHasItsKey'
    BY <2>1, <2>3, <2>4 DEF IInv, TypeOK, RowHasItsKey
  <2>8. OneAnswer' /\ KeyIsWritten' /\ OldKeyIsGone' /\ RefusalIsStored'
    BY <2>1, <2>2, <2>3 DEF IInv, OneAnswer, KeyIsWritten, OldKeyIsGone, RefusalIsStored,
                            permissionVars
  <2> QED BY <2>5, <2>6, <2>7, <2>8 DEF IInv
<1> QED BY <1>1, <1>2 DEF Delete

\* The steps that store the key, or leave it torn: the way to "row" or "write".
LEMMA KeyKeeps ==
  ASSUME IInv, NEW key \in {save.key, Torn}, NEW pc \in {"row", "write"},
         up, save.pc \in {"set", "write"},
         secrets' = [secrets EXCEPT ![store][save.provider] = key],
         save' = [save EXCEPT !.pc = pc],
         pc = "row" => key = save.key,
         UNCHANGED <<up, launches, store, saves, row, typed, chosen, told, config,
                     permissionVars>>
  PROVE  IInv'
<1>1. key \in Secrets /\ store \in Stores /\ save.provider \in Providers
  BY DEF IInv, TypeOK, Secrets
<1>2. /\ save' \in [pc : {"row", "write"}, provider : Providers, key : Keys \cup {NoKey}]
      /\ save'.pc = pc /\ save'.key = save.key /\ save'.provider = save.provider
  BY DEF IInv, TypeOK
<1>3. /\ secrets' \in [Stores -> [Providers -> Secrets]]
      /\ secrets'[store][save.provider] = key
      /\ \A s \in Stores, p \in Providers :
           s # store \/ p # save.provider => secrets'[s][p] = secrets[s][p]
  BY <1>1, PutChangesOne DEF IInv, Put
<1>4. TypeOK'
  BY <1>2, <1>3 DEF IInv, TypeOK, Secrets, permissionVars
<1>5. StoredWasTyped' /\ ServesWhatWasTyped'
  BY <1>1, <1>2, PutKeeps DEF Put
<1>6. KeyIsWritten'
  BY <1>2, <1>3 DEF KeyIsWritten
<1>7. RowHasItsKey'
  BY <1>3 DEF IInv, TypeOK, OldKeyIsGone, RowHasItsKey
<1>8. OneAnswer' /\ OldKeyIsGone' /\ RefusalIsStored'
  BY <1>2 DEF IInv, OneAnswer, OldKeyIsGone, RefusalIsStored, permissionVars
<1> QED BY <1>4, <1>5, <1>6, <1>7, <1>8 DEF IInv

LEMMA SetKeeps ==
  ASSUME IInv, Set \/ Write
  PROVE  IInv'
<1>1. /\ up /\ save.pc \in {"set", "write"}
      /\ UNCHANGED <<up, launches, store, saves, row, typed, chosen, told, config,
                     permissionVars>>
  BY DEF Set, Write, SaveAt
<1>2. CASE Refuse /\ UNCHANGED secrets
  BY <1>1, <1>2, RefuseKeeps DEF storeVars
<1>3. CASE Put(save.key) /\ Goto("row")
  <2>1. /\ secrets' = [secrets EXCEPT ![store][save.provider] = save.key]
        /\ save' = [save EXCEPT !.pc = "row"]
    BY <1>3 DEF Put, Goto
  <2> QED BY <1>1, <2>1, KeyKeeps
<1>4. CASE Put(Torn) /\ Goto("write")
  <2>1. /\ secrets' = [secrets EXCEPT ![store][save.provider] = Torn]
        /\ save' = [save EXCEPT !.pc = "write"]
    BY <1>4 DEF Put, Goto
  <2> QED BY <1>1, <2>1, KeyKeeps
<1> QED BY <1>2, <1>3, <1>4 DEF Set, Write

LEMMA SaveRowKeeps ==
  ASSUME IInv, SaveRow
  PROVE  IInv'
<1>1. /\ up /\ save.pc = "row"
      /\ UNCHANGED <<up, launches, store, saves, secrets, typed, told, config, permissionVars>>
  BY DEF SaveRow, SaveAt
<1>2. CASE Refuse /\ UNCHANGED <<row, chosen>>
  BY <1>1, <1>2, RefuseKeeps DEF storeVars
<1>3. CASE /\ row' = save.provider /\ Goto("has")
           /\ chosen' = IF save.key = NoKey THEN NoChoice
                        ELSE [store |-> store, provider |-> save.provider, key |-> save.key]
  <2>1. /\ save' \in [pc : {"has"}, provider : Providers, key : Keys \cup {NoKey}]
        /\ save'.pc = "has" /\ save'.key = save.key /\ save'.provider = save.provider
        /\ row' \in Providers
    BY <1>3 DEF Goto, IInv, TypeOK
  <2>2. /\ chosen' \in [store : Stores, provider : Providers, key : Keys \cup {NoKey}]
        /\ chosen'.key # NoKey =>
             chosen' = [store |-> store, provider |-> save.provider, key |-> save.key]
    BY <1>3, StoresAssumption DEF NoChoice, Stores, IInv, TypeOK
  <2>3. TypeOK'
    BY <1>1, <2>1, <2>2 DEF IInv, TypeOK, permissionVars
  <2>4. RowHasItsKey'
    BY <1>1, <1>3, <2>2 DEF IInv, KeyIsWritten, RowHasItsKey
  <2>5. /\ StoredWasTyped' /\ ServesWhatWasTyped' /\ OneAnswer'
        /\ KeyIsWritten' /\ OldKeyIsGone' /\ RefusalIsStored'
    BY <1>1, <2>1 DEF IInv, StoredWasTyped, ServesWhatWasTyped, OneAnswer, KeyIsWritten,
                      OldKeyIsGone, RefusalIsStored, permissionVars
  <2> QED BY <2>3, <2>4, <2>5 DEF IInv
<1> QED BY <1>2, <1>3 DEF SaveRow

LEMMA HasKeeps ==
  ASSUME IInv, Has
  PROVE  IInv'
<1>1. /\ up /\ save.pc = "has"
      /\ UNCHANGED <<up, launches, store, saves, storeVars, told, config, permissionVars>>
  BY DEF Has, SaveAt
<1>2. CASE Refuse
  BY <1>1, <1>2, RefuseKeeps
<1>3. CASE Goto("respawn")
  <2>1. /\ save' \in [pc : {"respawn"}, provider : Providers, key : Keys \cup {NoKey}]
        /\ save'.pc = "respawn" /\ save'.key = save.key /\ save'.provider = save.provider
    BY <1>3 DEF Goto, IInv, TypeOK
  <2>2. TypeOK'
    BY <1>1, <2>1 DEF IInv, TypeOK, storeVars, permissionVars
  <2> QED BY <1>1, <2>1, <2>2 DEF IInv, StoredWasTyped, ServesWhatWasTyped, OneAnswer,
            KeyIsWritten, OldKeyIsGone, RowHasItsKey, RefusalIsStored, storeVars, permissionVars
<1> QED BY <1>2, <1>3 DEF Has

LEMMA RespawnKeeps ==
  ASSUME IInv, Respawn
  PROVE  IInv'
<1>1. /\ up /\ save.pc = "respawn" /\ Refuse
      /\ UNCHANGED <<up, launches, store, saves, storeVars, permissionVars>>
  BY DEF Respawn, SaveAt
<1>2. /\ save'.pc = "idle" /\ save'.key = NoKey
      /\ save' \in [pc : {"idle"}, provider : Providers, key : Keys \cup {NoKey}]
  BY <1>1, StoresAssumption DEF Refuse, At
<1>3. PICK key \in Get(store, save.provider) :
        \/ key = NoKey /\ UNCHANGED <<config, told>>
        \/ key # NoKey /\ config' = NoConfig /\ UNCHANGED told
        \/ /\ key # NoKey /\ config' = [provider |-> save.provider, key |-> key]
           /\ told' = [has |-> TRUE, provider |-> save.provider, key |-> save.key]
  BY DEF Respawn
<1>4. /\ key \in typed[save.provider] \cup {NoKey, Torn} /\ key \in Secrets
      /\ key # NoKey => key = secrets[store][save.provider]
      /\ store \in Stores /\ save.provider \in Providers /\ save.key \in Keys \cup {NoKey}
  BY <1>3, GetReturnsTyped DEF IInv, TypeOK
<1>5. /\ config' \in [provider : Providers, key : Secrets]
      /\ told' \in [has : BOOLEAN, provider : Providers, key : Keys \cup {NoKey}]
      /\ ServesWhatWasTyped'
  <2>1. UNCHANGED typed /\ ~told.has
    BY <1>1 DEF IInv, OneAnswer, storeVars
  <2>2. save.key # NoKey => secrets[store][save.provider] = save.key
    BY <1>1 DEF IInv, KeyIsWritten
  <2>3. CASE key = NoKey /\ UNCHANGED <<config, told>>
    BY <2>1, <2>3 DEF IInv, TypeOK, ServesWhatWasTyped, Secrets
  <2>4. CASE key # NoKey /\ config' = NoConfig /\ UNCHANGED told
    BY <2>1, <2>4, StoresAssumption DEF IInv, TypeOK, ServesWhatWasTyped, NoConfig, Secrets
  <2>5. CASE /\ key # NoKey /\ config' = [provider |-> save.provider, key |-> key]
             /\ told' = [has |-> TRUE, provider |-> save.provider, key |-> save.key]
    BY <1>4, <2>1, <2>2, <2>5 DEF ServesWhatWasTyped
  <2> QED BY <1>3, <2>3, <2>4, <2>5
<1>6. TypeOK'
  BY <1>1, <1>2, <1>5 DEF IInv, TypeOK, Secrets, storeVars, permissionVars
<1>7. /\ StoredWasTyped' /\ OneAnswer' /\ KeyIsWritten' /\ OldKeyIsGone' /\ RowHasItsKey'
      /\ RefusalIsStored'
  BY <1>1, <1>2 DEF IInv, StoredWasTyped, OneAnswer, KeyIsWritten, OldKeyIsGone, RowHasItsKey,
                    RefusalIsStored, storeVars, permissionVars
<1> QED BY <1>5, <1>6, <1>7 DEF IInv

-----------------------------------------------------------------------------
(* The theorems *)

LEMMA InitHolds == Init => IInv
<1> SUFFICES ASSUME Init PROVE IInv
  OBVIOUS
<1>1. TypeOK
  <2>1. /\ secrets \in [Stores -> [Providers -> Keys \cup {NoKey, Torn}]]
        /\ typed \in [Providers -> SUBSET Keys]
        /\ refused \in [defaults : BOOLEAN, process : BOOLEAN]
    BY DEF Init
  <2>2. /\ save \in [pc : {"idle"}, provider : Providers, key : Keys \cup {NoKey}]
        /\ config \in [provider : Providers, key : Keys \cup {NoKey, Torn}]
        /\ told \in [has : BOOLEAN, provider : Providers, key : Keys \cup {NoKey}]
        /\ chosen \in [store : Stores, provider : Providers, key : Keys \cup {NoKey}]
        /\ store \in Stores
    BY StoresAssumption DEF Init, At, NoConfig, Untold, NoChoice, Stores
  <2>3. /\ launches \in 0 .. MaxLaunches /\ saves \in 0 .. MaxSaves
        /\ row \in Providers \cup {NoRow}
        /\ answer \in {"Unknown", "Granted", "Denied"}
    BY StoresAssumption DEF Init
  <2>4. up \in BOOLEAN /\ allowed \in BOOLEAN /\ lifted \in BOOLEAN
    BY Zenon DEF Init
  <2> QED BY <2>1, <2>2, <2>3, <2>4 DEF TypeOK
<1> QED BY <1>1 DEF IInv, Init, StoredWasTyped, OneAnswer, ServesWhatWasTyped, KeyIsWritten,
          OldKeyIsGone, RowHasItsKey, RefusalIsStored, At, NoConfig, Untold, NoChoice

LEMMA StepKeeps == IInv /\ [Next]_vars => IInv'
<1> SUFFICES ASSUME IInv, [Next]_vars PROVE IInv'
  OBVIOUS
<1>1. CASE UNCHANGED vars
  BY <1>1 DEF vars, saveVars, storeVars, permissionVars, IInv, TypeOK, StoredWasTyped, OneAnswer,
              ServesWhatWasTyped, KeyIsWritten, OldKeyIsGone, RowHasItsKey, RefusalIsStored
<1>2. CASE Save
  BY <1>2, SubmitKeeps, DeleteKeeps, SetKeeps, SaveRowKeeps, HasKeeps, RespawnKeeps DEF Save
<1> QED BY <1>1, <1>2, LaunchKeeps, ExitKeeps, PermissionKeeps DEF Next

\* IInv holds in every reachable state.
THEOREM Invariance == Spec => []IInv
BY InitHolds, StepKeeps, PTL DEF Spec

\* Every variable keeps its type.
THEOREM TypeCorrect == Spec => []TypeOK
<1>1. IInv => TypeOK
  BY DEF IInv
<1> QED BY <1>1, Invariance, PTL

\* The sidecar is configured with a key that was typed for its provider, and a
\* save that reports a key has it serve what was saved.
THEOREM SidecarServesWhatWasTyped == Spec => []ServesWhatWasTyped
<1>1. IInv => ServesWhatWasTyped
  BY DEF IInv
<1> QED BY <1>1, Invariance, PTL

\* Settings saved with a key keep it until it is replaced, whatever fails.
THEOREM SavedKeyIsKept == Spec => []RowHasItsKey
<1>1. IInv => RowHasItsKey
  BY DEF IInv
<1> QED BY <1>1, Invariance, PTL

\* A refusal the window has seen becomes "not determined" only after a grant.
THEOREM RefusalIsRemembered == Spec => RefusalSticks
<1>1. IInv /\ [Next]_vars => [answer = "Denied" /\ answer' = "Unknown" => lifted]_vars
  <2> SUFFICES ASSUME IInv, Next, answer = "Denied", answer' = "Unknown", ~lifted
               PROVE  FALSE
    OBVIOUS
  <2>1. refused.defaults
    BY DEF IInv, RefusalIsStored
  <2>2. CASE Status
    BY <2>1, <2>2 DEF Status, Answer, Denied
  <2>3. CASE Request
    BY <2>1, <2>3 DEF Request, Denied
  <2>4. CASE Launch \/ Exit \/ Save \/ Toggle
    <3>1. UNCHANGED answer
      BY <2>4 DEF Launch, Exit, Save, Toggle, Submit, Delete, Set, Write, SaveRow, Has, Respawn,
                  permissionVars
    <3> QED BY <3>1
  <2> QED BY <2>2, <2>3, <2>4 DEF Next
<1> QED BY <1>1, Invariance, PTL DEF Spec, RefusalSticks
=============================================================================
