--------------------------- MODULE StoreBootstrap ---------------------------
(***************************************************************************)
(* How a deployment's state comes into being and is opened again           *)
(* (internal/bootstrap: Initialize; internal/controlplane/store.go: Open,  *)
(* OpenExisting, InitializeExisting; internal/usage/schema.go), and its    *)
(* encrypted secrets: one key file, one table of secrets, plaintext files  *)
(* of older releases that are imported when a secret is missing.           *)
(*                                                                         *)
(* Bootstraps and programs of the runtime may run at once and may die      *)
(* between any two steps.  A key is its number; a secret is the key it is  *)
(* sealed with and its value.  The ownership of the programs that open an  *)
(* existing deployment is OwnershipLease's subject and not repeated here.  *)
(*                                                                         *)
(* Bounds: MaxKeys, MaxValue, MaxStarts.                                   *)
(***************************************************************************)
EXTENDS Naturals, FiniteSets

CONSTANTS
    Starter,        \* processes that bootstrap or open the deployment
    MaxKeys,        \* keys generated
    MaxValue,       \* values the secrets take
    MaxStarts       \* processes started

ASSUME StoreBootstrapAssumption ==
    /\ {MaxKeys, MaxValue, MaxStarts} \subseteq Nat
    /\ MaxKeys > 0

Secret == {"cpa_management_key", "wecom_webhook", "gost_tunnel_auth"}
Imported == {"cpa_management_key", "wecom_webhook"}   \* have a file of older releases
Retired == "gost_tunnel_auth"

Absent == [key |-> 0, value |-> 0]
Torn == MaxKeys + 1      \* a key file whose bytes are not all there
Old == 1
Current == 2             \* SchemaVersion
Newer == 3

VARIABLES
    schema,         \* version of the control-plane database, 0 if there is none
    sealed,         \* its secrets
    keyFile,        \* the key in the key file, 0 if there is none, or Torn
    usageMade,      \* the usage database exists
    published,      \* the snapshots, the heartbeat and the active slot exist
    legacy,         \* values of the files of older releases, 0 without
    starter,        \* the processes
    decided,        \* the value of each secret that was last decided, 0 if none
    overtaken,      \* secrets written while their import was under way
    handed,         \* the credential a bootstrap that ran alone has handed out
    keysMade, values, starts

keepVars == <<schema, sealed, keyFile, usageMade, published, legacy, starter, decided,
              overtaken, handed, keysMade, values, starts>>

Gone == [step |-> "gone", boot |-> FALSE, key |-> 0, fresh |-> 0, secret |-> "",
         alone |-> TRUE, credential |-> 0]

KeepInit ==
    /\ usageMade = FALSE /\ published = FALSE
    /\ starter = [p \in Starter |-> Gone]
    /\ overtaken = {} /\ handed = 0 /\ starts = 0
    /\ \/ /\ schema = 0 /\ keyFile = 0 /\ keysMade = 0 /\ values = 1
          /\ sealed = [n \in Secret |-> Absent] /\ legacy = [n \in Imported |-> 0]
       \/ /\ schema \in {Old, Current, Newer} /\ keyFile = 1 /\ keysMade = 1 /\ values = 1
          /\ sealed \in {[n \in Secret |-> IF n \in stored THEN [key |-> 1, value |-> 1] ELSE Absent] :
                            stored \in {{"cpa_management_key", Retired}, {"cpa_management_key"}}}
          /\ legacy \in {[n \in Imported |-> 0], [n \in Imported |-> 1]}
    /\ decided = [n \in Secret |-> sealed[n].value]

Set(p, state) == starter' = [starter EXCEPT ![p] = state]
At(p, step) == starter[p].step = step
OthersRun(p) == \E q \in Starter \ {p} : starter[q].step # "gone"

---------------------------------------------------------------------------
(* A bootstrap begins with nothing there, a program with a database and a  *)
(* key file, whatever is in them (OpenExisting).  Whoever is under way     *)
(* knows that it is no longer alone.                                       *)
Start(p) ==
    /\ starts < MaxStarts /\ starts' = starts + 1 /\ At(p, "gone")
    /\ \E boot \in BOOLEAN :
        /\ IF boot THEN schema = 0 /\ ~usageMade /\ keyFile = 0
                   ELSE schema # 0 /\ keyFile # 0
        /\ starter' = [q \in Starter |->
               IF q = p THEN [Gone EXCEPT !.step = "opened", !.boot = boot, !.alone = ~OthersRun(p)]
               ELSE [starter[q] EXCEPT !.alone = FALSE]]
    /\ UNCHANGED <<schema, sealed, keyFile, usageMade, published, legacy, decided,
                   overtaken, handed, keysMade, values>>

(* It dies, is stopped, or one of its steps fails.                         *)
Fail(p) ==
    /\ ~At(p, "gone") /\ starter' = [starter EXCEPT ![p] = Gone]
    /\ UNCHANGED <<schema, sealed, keyFile, usageMade, published, legacy, decided,
                   overtaken, handed, keysMade, values, starts>>

(* initialize, the transaction: an older version is migrated and loses the *)
(* secret that is retired; a newer one is refused and nothing is kept.     *)
Initialize(p) ==
    /\ At(p, "opened") /\ schema <= Current
    /\ schema' = Current
    /\ sealed' = IF schema < Current THEN [sealed EXCEPT ![Retired] = Absent] ELSE sealed
    /\ decided' = IF schema < Current THEN [decided EXCEPT ![Retired] = 0] ELSE decided
    /\ Set(p, [starter[p] EXCEPT !.step = "initialized"])
    /\ UNCHANGED <<keyFile, usageMade, published, legacy, overtaken, handed, keysMade,
                   values, starts>>

---------------------------------------------------------------------------
(* encryptionKey.  Without a file a key is generated, unless something is  *)
(* sealed; the file is created exclusively, and a file that is not         *)
(* complete is refused.                                                    *)
NothingSealed == \A n \in Secret : sealed[n] = Absent
Usable(key) == key \in 1 .. MaxKeys

ReadKey(p) ==
    /\ At(p, "initialized")
    /\ \/ /\ Usable(keyFile) /\ UNCHANGED keysMade
          /\ Set(p, [starter[p] EXCEPT !.step = "keyed", !.key = keyFile])
       \/ /\ keyFile = 0 /\ NothingSealed /\ keysMade < MaxKeys
          /\ keysMade' = keysMade + 1
          /\ Set(p, [starter[p] EXCEPT !.step = "creating", !.fresh = keysMade'])
    /\ UNCHANGED <<schema, sealed, keyFile, usageMade, published, legacy, decided,
                   overtaken, handed, values, starts>>

CreateOverExisting(p) ==         \* Deviation: without O_EXCL
    /\ At(p, "creating")
    /\ keyFile' = Torn /\ Set(p, [starter[p] EXCEPT !.step = "writing"])
    /\ UNCHANGED <<schema, sealed, usageMade, published, legacy, decided, overtaken,
                   handed, keysMade, values, starts>>

CreateKey(p) ==
    /\ At(p, "creating")
    /\ IF keyFile = 0
       THEN keyFile' = Torn /\ Set(p, [starter[p] EXCEPT !.step = "writing"])
       ELSE /\ Usable(keyFile) /\ Set(p, [starter[p] EXCEPT !.step = "keyed", !.key = keyFile])
            /\ UNCHANGED keyFile
    /\ UNCHANGED <<schema, sealed, usageMade, published, legacy, decided, overtaken,
                   handed, keysMade, values, starts>>

WriteKey(p) ==
    /\ At(p, "writing")
    /\ keyFile' = starter[p].fresh
    /\ Set(p, [starter[p] EXCEPT !.step = "keyed", !.key = starter[p].fresh])
    /\ UNCHANGED <<schema, sealed, usageMade, published, legacy, decided, overtaken,
                   handed, keysMade, values, starts>>

Seal(p, n, value) == sealed' = [sealed EXCEPT ![n] = [key |-> starter[p].key, value |-> value]]

---------------------------------------------------------------------------
(* importLegacySecrets: the names in order; each is looked up, and written *)
(* in a transaction of its own if it was not there.                        *)
Importable(n) == legacy[n] # 0 /\ sealed[n] = Absent
AfterImport(p) == IF starter[p].boot THEN "credential" ELSE "running"

FindLegacy(p) ==
    /\ At(p, "keyed")
    /\ IF \E n \in Imported : Importable(n)
       THEN LET first == IF Importable("cpa_management_key") THEN "cpa_management_key"
                                                             ELSE "wecom_webhook"
            IN  Set(p, [starter[p] EXCEPT !.step = "importing", !.secret = first])
                /\ overtaken' = overtaken \ {first}
       ELSE Set(p, [starter[p] EXCEPT !.step = AfterImport(p)]) /\ UNCHANGED overtaken
    /\ UNCHANGED <<schema, sealed, keyFile, usageMade, published, legacy, decided, handed,
                   keysMade, values, starts>>

Import(p) ==
    /\ At(p, "importing")
    /\ Seal(p, starter[p].secret, legacy[starter[p].secret])
    /\ Set(p, [starter[p] EXCEPT !.step = IF starter[p].secret = "cpa_management_key"
                                          THEN "keyed" ELSE AfterImport(p)])
    /\ UNCHANGED <<schema, keyFile, usageMade, published, legacy, decided, overtaken,
                   handed, keysMade, values, starts>>

---------------------------------------------------------------------------
(* Initialize of the bootstrap, after Open: the credential is stored, the  *)
(* usage database created exclusively, the first snapshots published, and  *)
(* the credential handed out.                                              *)
StoreCredential(p) ==
    /\ At(p, "credential") /\ values < MaxValue
    /\ values' = values + 1
    /\ Seal(p, "cpa_management_key", values')
    /\ decided' = [decided EXCEPT !["cpa_management_key"] = values']
    /\ Set(p, [starter[p] EXCEPT !.step = "stored", !.credential = values'])
    /\ UNCHANGED <<schema, keyFile, usageMade, published, legacy, overtaken, handed,
                   keysMade, starts>>

CreateUsage(p) ==
    /\ At(p, "stored") /\ ~usageMade
    /\ usageMade' = TRUE /\ Set(p, [starter[p] EXCEPT !.step = "publishing"])
    /\ UNCHANGED <<schema, sealed, keyFile, published, legacy, decided, overtaken, handed,
                   keysMade, values, starts>>

HandOut(p) ==
    /\ At(p, "publishing")
    /\ published' = TRUE
    /\ handed' = IF starter[p].alone THEN starter[p].credential ELSE handed
    /\ starter' = [starter EXCEPT ![p] = Gone]
    /\ UNCHANGED <<schema, sealed, keyFile, usageMade, legacy, decided, overtaken, keysMade,
                   values, starts>>

---------------------------------------------------------------------------
(* Signed in with the credential, an administrator writes and deletes      *)
(* secrets; the program uses the key that it has read.                     *)
SignedIn(p) == At(p, "running") /\ sealed["cpa_management_key"] # Absent

WriteSecret(p, n) ==
    /\ SignedIn(p) /\ values < MaxValue
    /\ values' = values + 1
    /\ Seal(p, n, values')
    /\ decided' = [decided EXCEPT ![n] = values']
    /\ overtaken' = overtaken \cup {n}
    /\ handed' = IF n = "cpa_management_key" THEN 0 ELSE handed
    /\ UNCHANGED <<schema, keyFile, usageMade, published, legacy, starter, keysMade, starts>>

DeleteSecret(p, n) ==
    /\ SignedIn(p) /\ n = "wecom_webhook"
    /\ sealed' = [sealed EXCEPT ![n] = Absent] /\ decided' = [decided EXCEPT ![n] = 0]
    /\ UNCHANGED <<schema, keyFile, usageMade, published, legacy, starter, overtaken,
                   handed, keysMade, values, starts>>

(* The operator's mistake: the key file of a deployment is lost, though    *)
(* not while somebody is about to create it.                               *)
LoseKey ==
    /\ Usable(keyFile) /\ ~NothingSealed /\ \A p \in Starter : ~At(p, "creating")
    /\ keyFile' = 0
    /\ UNCHANGED <<schema, sealed, usageMade, published, legacy, starter, decided, overtaken,
                   handed, keysMade, values, starts>>

KeepNext ==
    \/ LoseKey
    \/ \E p \in Starter :
        \/ Start(p) \/ Fail(p) \/ Initialize(p) \/ ReadKey(p) \/ CreateKey(p) \/ WriteKey(p)
        \/ FindLegacy(p) \/ Import(p) \/ StoreCredential(p) \/ CreateUsage(p) \/ HandOut(p)
        \/ \E n \in Imported : WriteSecret(p, n) \/ DeleteSecret(p, n)

KeepSpec == KeepInit /\ [][KeepNext]_keepVars

---------------------------------------------------------------------------
(* All secrets are sealed with one key, and no key file holds another one: *)
(* whoever opens the deployment reads all of them or is refused, however   *)
(* bootstraps and programs race, die or lose the file (encryptionKey,      *)
(* TestSecretEncryptionPersistsWithoutPlaintextAndRefusesMissingKey).      *)
OneKey ==
    \A n \in Secret : sealed[n] # Absent =>
        /\ keyFile \in {0, sealed[n].key}
        /\ \A m \in Secret : sealed[m] # Absent => sealed[m].key = sealed[n].key

(* A secret has the value that was decided last, or, where none is         *)
(* decided or it was decided during an import, that of the older release's *)
(* file (importLegacySecrets).                                             *)
SecretsAsDecided ==
    \A n \in Secret :
        \/ sealed[n].value = decided[n]
        \/ n \in Imported /\ sealed[n].value = legacy[n] /\ (decided[n] = 0 \/ n \in overtaken)

(* The credential that a bootstrap hands out is the one that signs in.     *)
CredentialWorks ==
    handed # 0 => /\ sealed["cpa_management_key"].value = handed
                  /\ schema = Current /\ usageMade /\ published

KeysAndSecretsKept == OneKey /\ SecretsAsDecided /\ CredentialWorks
=============================================================================
