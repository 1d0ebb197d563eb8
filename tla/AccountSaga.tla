---------------------------- MODULE AccountSaga ----------------------------
(***************************************************************************)
(* The account lifecycle as a saga (internal/accountlifecycle): Create,    *)
(* Update (also as a rename), Delete, ClearAuth and the selection policy,  *)
(* each a sequence of steps on files, database, secrets, containers and    *)
(* published snapshot, its compensation when a step fails, the journal     *)
(* and Recover at the start of Admin.  Admin may die between any two       *)
(* steps and inside a copy, any step may fail, and Failover, a process of  *)
(* its own, moves users meanwhile.                                         *)
(*                                                                         *)
(* DataPlane models what the gateways do with a publication and the drain  *)
(* of requests; here both succeed or fail.  The auth and the log directory *)
(* are handled alike, one stands for both.  A container that could not be  *)
(* started is taken to be removable.  Ports, defaults, e-mail addresses,   *)
(* key rows (they change in the transaction of the account row) and the    *)
(* repair of an unroutable proxy are left out.                             *)
(*                                                                         *)
(* Bounds: SagaOps, SagaFaults, SagaCrashes, SagaMoves.  A definition      *)
(* marked "Deviation" is what the definition after it must not be.         *)
(***************************************************************************)
EXTENDS Integers, FiniteSets

CONSTANTS
    AccountId,      \* account IDs, numbers in the order of their names
    Evacuee,        \* users
    TakenIds,       \* may an operator name an ID that is in use?
    SagaOps, SagaFaults, SagaCrashes, SagaMoves

ASSUME AccountSagaAssumption ==
    /\ AccountId \subseteq Nat \ {0} /\ {1, 2} \subseteq AccountId
    /\ TakenIds \in BOOLEAN
    /\ {SagaOps, SagaFaults, SagaCrashes, SagaMoves} \subseteq Nat

VARIABLES
    row,            \* accounts: which account an ID names, proxy mode, enabled
    secret,         \* proxy secrets: whose URL the name of an ID holds, or 0
    userRoute,      \* user_routes
    homeOf,         \* the account a user was last put on, maintenance apart
    oauthDir,       \* auth/<id>: none, empty, or some account's OAuth files
    configFile,     \* configs/<id>/config.yaml exists
    container,      \* the CPA container of an ID
    backup,         \* the backup directory of the journalled operation
    archived,       \* accounts of which some backup holds the whole OAuth
    published,      \* the active snapshot: routes and accounts
    journal,        \* account_lifecycle_operation
    saga,           \* Admin: what it is about to do
    past            \* bounds; users moved by others during a saga, accounts
                    \* that have OAuth, and those a copy or removal cut short

recordVars == <<row, secret, userRoute, homeOf>>
fileVars == <<oauthDir, configFile, backup, archived>>
sagaVars == <<recordVars, fileVars, container, published, journal, saga, past>>

NoAccount == [born |-> 0, proxy |-> "inherit", enabled |-> FALSE]
Exists(a) == row[a].born # 0
NoDir == [of |-> 0, is |-> "none"]
EmptyOf(b) == [of |-> b, is |-> "empty"]
Partial(dir) == CASE dir.is = "none" -> EmptyOf(0)
                  [] dir.is = "empty" -> dir
                  [] OTHER -> [dir EXCEPT !.is = "partial"]
NoOperation == [kind |-> "none", id |-> 0, new |-> 0, phase |-> "none",
                moved |-> {}, to |-> 0]
AtRestNow == [mode |-> "idle", todo |-> {}, did |-> {}, op |-> NoOperation,
              ask |-> <<>>, old |-> <<>>, dirty |-> FALSE]
Down == [AtRestNow EXCEPT !.mode = "down"]
Current == [route |-> userRoute, account |-> row]

SagaInit ==
    LET established == {a \in AccountId : \E b \in AccountId : b > a}
    IN  \E custom \in SUBSET (established \cap {1}) :
        /\ row = [a \in AccountId |->
                    IF a \in established
                    THEN [born |-> a, enabled |-> TRUE,
                          proxy |-> IF a \in custom THEN "custom" ELSE "inherit"]
                    ELSE NoAccount]
        /\ secret = [a \in AccountId |-> IF a \in custom THEN a ELSE 0]
        /\ userRoute = [u \in Evacuee |-> 1]
        /\ homeOf = [u \in Evacuee |-> 1]
        /\ oauthDir = [a \in AccountId |->
                         IF a \in established THEN [of |-> a, is |-> "whole"] ELSE NoDir]
        /\ configFile = [a \in AccountId |-> a \in established]
        /\ container = [a \in AccountId |->
                          IF a \in established THEN "running" ELSE "none"]
        /\ backup = NoDir
        /\ archived = {}
        /\ published = Current
        /\ journal = NoOperation
        /\ saga = AtRestNow
        /\ past = [ops |-> 0, faults |-> 0, crashes |-> 0, moves |-> 0,
                   strayed |-> {}, oauth |-> established, cut |-> {}]

---------------------------------------------------------------------------
(* The steps, in the order in which an operation, its compensation and its *)
(* recovery take those they have.                                          *)
Forward == [plan |-> 1, move |-> 2, expose |-> 3, directory |-> 4, archive |-> 5,
            note |-> 6, copy |-> 7, files |-> 8, control |-> 9, secret1 |-> 10,
            secret2 |-> 11, render |-> 12, build |-> 13, restart |-> 14,
            commit |-> 15, home |-> 16, publish |-> 17, drain |-> 18,
            stop |-> 19, remove |-> 20]
Backward == [files |-> 1, build |-> 2, restart |-> 3, secrets |-> 4, control |-> 5,
             home |-> 6, render |-> 7, publish |-> 8]
Repair == [secret |-> 1, files |-> 2, render |-> 3, container |-> 4, home |-> 5,
           publish |-> 6, drain |-> 7, removal |-> 8, discard |-> 9]
IsNext(order, step) ==
    step \in saga.todo /\ \A s \in saga.todo : order[step] <= order[s]

RemovalUnarchived ==       \* Deviation: the files are not backed up first
    {"note", "control", "secret1", "render", "build", "publish", "drain", "stop",
     "remove"}
Removal == {"archive", "note", "control", "secret1", "render", "build", "publish",
            "drain", "stop", "remove"}

Creation == {"directory", "note", "control", "secret1", "render", "build", "publish"}
PolicyChange == {"control", "render", "publish"}
Evacuation == {"plan", "move", "expose"}
Renames(op) == op.kind = "update" /\ op.new # op.id

Plan(op) ==
    CASE op.kind = "create" -> Creation
      [] op.kind = "update" ->
            Evacuation \cup {"note", "files", "control", "secret1", "render", "build",
                             "commit", "home", "publish"}
                       \cup (IF Renames(op) THEN {"copy", "secret2"} ELSE {})
      [] op.kind = "delete" -> Removal
      [] op.kind = "clear"  -> Evacuation \cup {"note", "copy", "files", "restart",
                                                "home", "publish"}
      [] op.kind = "policy" -> PolicyChange

Undo(kind, did) ==
    CASE kind = "update" /\ "note" \in did ->
            {"files", "build", "secrets", "control", "home", "render", "publish"}
      [] kind = "clear" /\ "note" \in did -> {"files", "restart", "home", "publish"}
      [] kind \in {"update", "clear"} /\ "note" \notin did ->
            IF "move" \in did THEN {"home", "publish"} ELSE {}
      [] kind \in {"create", "delete"} ->
            IF "control" \in did
            THEN {"files", "build", "secrets", "control", "render", "publish"}
            ELSE {"files"}
      [] kind = "policy" ->
            IF "control" \in did THEN PolicyChange ELSE {}

(* Onward: the step is next; it succeeds; or it fails and the saga turns   *)
(* back over what it did.                                                  *)
Onward(step) == saga.mode = "forward" /\ IsNext(Forward, step)
Proceed(step) == /\ saga' = [saga EXCEPT !.todo = @ \ {step}, !.did = @ \cup {step}]
                 /\ UNCHANGED past
FaultCut(dir) == /\ past.faults < SagaFaults
                 /\ past' = [past EXCEPT !.faults = @ + 1, !.cut = @ \cup {dir.of}]
Fault == /\ past.faults < SagaFaults
         /\ past' = [past EXCEPT !.faults = @ + 1]
TurnBack(did) == saga' = [saga EXCEPT !.mode = "back", !.did = did,
                                      !.todo = Undo(saga.op.kind, did)]
Refuse == TurnBack(saga.did) /\ UNCHANGED past
Fails == Fault /\ TurnBack(saga.did)
DiesCut(dir) == /\ past.crashes < SagaCrashes
                /\ past' = [past EXCEPT !.crashes = @ + 1, !.cut = @ \cup {dir.of}]
                /\ saga' = Down
Dies == /\ past.crashes < SagaCrashes
        /\ past' = [past EXCEPT !.crashes = @ + 1]
        /\ saga' = Down

(* Back: an error is kept, and what depends on the step is skipped.        *)
Back(step) == saga.mode = "back" /\ IsNext(Backward, step)
Undone(step) == saga' = [saga EXCEPT !.todo = @ \ {step}] /\ UNCHANGED past
DependOn(step) ==
    CASE step = "control" -> {"home", "render", "publish"}
      [] step = "home" -> {"render", "publish"}
      [] step = "render" -> {"publish"}
      [] step = "files" /\ saga.op.kind = "clear" -> {"restart"}
      [] OTHER -> {}
Keeps(step) ==
    saga' = [saga EXCEPT
               !.dirty = TRUE,
               !.did = IF step \in {"files", "restart"} THEN @ \cup {"unusable"} ELSE @,
               !.todo = @ \ ({step} \cup DependOn(step))]
Stuck(step) == Fault /\ Keeps(step)
Conflicts(step) == UNCHANGED past /\ Keeps(step)

(* Recover: a step that cannot be done ends the process.                   *)
Recovering(step) == saga.mode = "recover" /\ IsNext(Repair, step)
Recovered(step) == saga' = [saga EXCEPT !.todo = @ \ {step}] /\ UNCHANGED past
CannotRecover == saga' = Down /\ UNCHANGED past
Stops == Fault /\ saga' = Down

---------------------------------------------------------------------------
(* What several steps share.                                               *)

ClearingDone == /\ saga.op.kind = "clear"
           /\ \/ saga.mode = "forward"
              \/ saga.mode = "recover" /\ journal.phase = "begun" /\ backup # NoDir
JournalRemoved ==
    /\ journal' = NoOperation /\ backup' = NoDir /\ saga' = AtRestNow
    /\ past' = [past EXCEPT !.oauth =
                  {b \in @ : \E a \in AccountId :
                               row[a].born = b /\ ~(ClearingDone /\ a = saga.op.id)}]

Unrenderable == \E a \in AccountId : row[a].proxy = "custom" /\ secret[a] = 0
RenderRows == configFile' = [a \in AccountId |-> configFile[a] \/ Exists(a)]
PublishAuthSnapshot == published' = Current
MayPublish == published' \in {published, Current}

Fallbacks(id) == {a \in AccountId \ {id} : Exists(a) /\ row[a].enabled}

(* restoreTo: an evacuated user who is elsewhere by now is a conflict,     *)
(* and so is, for the compensation of a rename, a user on the new ID.      *)
Strays(op, target) ==
    \E u \in op.moved : userRoute[u] \notin {target, op.to, op.id}

(* recoverEvacuatedRoutes takes a user from the new ID as well.            *)
RecoveryStrays(op, found) ==
    \E u \in op.moved : userRoute[u] \notin {found, op.to, op.id, op.new}
RestoreTo(op, target) ==
    userRoute' = [u \in Evacuee |-> IF u \in op.moved THEN target ELSE userRoute[u]]

(* A copy is whole, or it was cut short by a failure or by a crash.        *)
WholeOf(dir) == IF dir.is = "whole" THEN {dir.of} ELSE {}
Restored == IF backup.is = "none" THEN EmptyOf(0) ELSE backup

---------------------------------------------------------------------------
(* The beginning: checks without effect, then the journal is accepted.     *)

operationFrame == UNCHANGED <<recordVars, fileVars, container, published>>

NewIdentity == 0 - 1 - past.ops

Begin(kind, id, new, proxy, enabled, to) ==
    /\ saga.mode = "idle" /\ journal = NoOperation
    /\ past.ops < SagaOps
    /\ CASE kind = "create" -> secret[id] = 0 /\ (TakenIds \/ ~Exists(id))
         [] kind = "update" -> /\ Exists(id)
                               /\ new # id => secret[new] = 0 /\ (TakenIds \/ ~Exists(new))
         [] kind = "delete" -> Exists(id) /\ to \in Fallbacks(id)
         [] kind = "clear"  -> Exists(id)
         [] kind = "policy" -> Exists(id) /\ (IF enabled THEN to = 0 ELSE to \in Fallbacks(id))
    /\ LET op == [kind |-> kind, id |-> id, new |-> new, phase |-> "accepted",
                  moved |-> {}, to |-> 0]
           url == CASE kind = "create" -> IF proxy = "custom" THEN NewIdentity ELSE 0
                    [] kind = "update" -> IF proxy = "custom" THEN row[id].born ELSE secret[id]
                    [] OTHER -> 0
       IN  /\ journal' = op
           /\ saga' = [AtRestNow EXCEPT
                         !.mode = "forward", !.todo = Plan(op), !.op = op,
                         !.ask = [proxy |-> proxy, enabled |-> enabled, to |-> to,
                                  url |-> url, born |-> NewIdentity],
                         !.old = [secret |-> secret, container |-> container[id]]]
    /\ past' = [past EXCEPT !.ops = @ + 1]
    /\ operationFrame

OperatorAsks ==
    \E id \in AccountId :
        \/ \E proxy \in {"inherit", "custom"} : Begin("create", id, 0, proxy, TRUE, 0)
        \/ \E new \in AccountId, enabled \in BOOLEAN, proxy \in {"inherit", "custom"} :
              Begin("update", id, new, proxy, enabled, 0)
        \/ \E to \in AccountId : Begin("delete", id, 0, row[id].proxy, FALSE, to)
        \/ Begin("clear", id, 0, row[id].proxy, TRUE, 0)
        \/ \E enabled \in BOOLEAN, to \in AccountId \cup {0} :
              Begin("policy", id, 0, row[id].proxy, enabled, to)

EndRegardless ==           \* Deviation: a failed compensation is forgotten
    /\ saga.mode \in {"forward", "back"} /\ saga.todo = {}
    /\ JournalRemoved
    /\ UNCHANGED <<recordVars, oauthDir, configFile, archived, container, published>>

(* finalizeOperation: the journal goes, unless compensation left an error. *)
End ==
    /\ saga.mode \in {"forward", "back"} /\ saga.todo = {}
    /\ \/ saga.dirty /\ saga' = AtRestNow /\ UNCHANGED <<journal, backup, past>>
       \/ ~saga.dirty /\ JournalRemoved
       \/ ~saga.dirty /\ Fault /\ saga' = AtRestNow /\ UNCHANGED <<journal, backup>>
    /\ UNCHANGED <<recordVars, oauthDir, configFile, archived, container, published>>

---------------------------------------------------------------------------
(* The steps of a saga.                                                    *)

routesFrame == UNCHANGED <<row, secret, homeOf, fileVars, container>>

(* planRouteEvacuation and its journal record.                             *)
PlanRoutes ==
    /\ Onward("plan")
    /\ LET op == saga.op
           users == {u \in Evacuee : userRoute[u] = op.id}
           needed == users # {} \/ ~saga.ask.enabled
       IN  \/ /\ needed => Fallbacks(op.id) # {}
              /\ \E to \in IF needed THEN Fallbacks(op.id) ELSE {0} :
                 LET planned == [op EXCEPT !.phase = "routes_prepared",
                                           !.moved = users, !.to = to]
                 IN  /\ journal' = planned
                     /\ saga' = [saga EXCEPT !.todo = @ \ {"plan"}, !.op = planned,
                                             !.did = @ \cup {"plan"}]
              /\ UNCHANGED past
           \/ needed /\ Fallbacks(op.id) = {} /\ Refuse /\ UNCHANGED journal
           \/ Fails /\ UNCHANGED journal
    /\ operationFrame

MoveRoutes ==
    /\ Onward("move")
    /\ \/ /\ \A u \in saga.op.moved : userRoute[u] = saga.op.id
          /\ RestoreTo(saga.op, saga.op.to)
          /\ Proceed("move")
       \/ /\ \E u \in saga.op.moved : userRoute[u] # saga.op.id
          /\ Refuse /\ UNCHANGED userRoute
       \/ Fails /\ UNCHANGED userRoute
    /\ UNCHANGED <<published, journal>> /\ routesFrame

(* The fallback goes live and the requests of the source drain.            *)
ExposeFallback ==
    /\ Onward("expose")
    /\ \/ saga.op.moved = {} /\ Proceed("expose") /\ UNCHANGED published
       \/ saga.op.moved # {} /\ Proceed("expose") /\ PublishAuthSnapshot
       \/ saga.op.moved # {} /\ Fails /\ MayPublish
    /\ UNCHANGED <<userRoute, journal>> /\ routesFrame

(* advanceOperation past everything that leaves the accounts untouched.    *)
Note ==
    /\ Onward("note")
    /\ \/ /\ journal' = [saga.op EXCEPT !.phase = "begun"]
          /\ Proceed("note")
       \/ Fails /\ UNCHANGED journal
    /\ operationFrame

Drain ==
    /\ Onward("drain")
    /\ Proceed("drain") \/ Fails
    /\ operationFrame /\ UNCHANGED journal

filesFrame == UNCHANGED <<recordVars, container, published, journal>>
PathsExist(a) == configFile[a] \/ oauthDir[a] # NoDir

(* createBackup: an update in place and a creation have none.              *)
CopyFiles(step) ==
    /\ Onward(step)
    /\ LET op == saga.op  dir == oauthDir[op.id] IN
       IF Renames(op) /\ PathsExist(op.new)
       THEN Refuse /\ UNCHANGED <<backup, archived>>
       ELSE \/ backup' = dir /\ archived' = archived \cup WholeOf(dir) /\ Proceed(step)
            \/ Fails /\ backup' \in {NoDir, Partial(dir)} /\ UNCHANGED archived
            \/ Dies /\ backup' = Partial(dir) /\ UNCHANGED archived
    /\ UNCHANGED <<oauthDir, configFile>> /\ filesFrame

PrepareDirectory ==
    /\ Onward("directory")
    /\ LET id == saga.op.id IN
       \/ /\ ~PathsExist(id)
          /\ oauthDir' = [oauthDir EXCEPT ![id] = EmptyOf(saga.ask.born)]
          /\ Proceed("directory")
       \/ PathsExist(id) /\ Refuse /\ UNCHANGED oauthDir
       \/ Fails /\ UNCHANGED oauthDir
    /\ UNCHANGED <<configFile, backup, archived>> /\ filesFrame

(* The moves of a rename, the clearing of OAuth.                           *)
PrepareFiles ==
    /\ Onward("files")
    /\ LET op == saga.op IN
       \/ /\ op.kind = "update" /\ Proceed("files")
          /\ oauthDir' = IF Renames(op)
                         THEN [oauthDir EXCEPT ![op.id] = NoDir,
                                 ![op.new] = IF oauthDir[op.id] = NoDir THEN EmptyOf(0)
                                             ELSE oauthDir[op.id]]
                         ELSE oauthDir
       \/ /\ op.kind = "clear" /\ Proceed("files")
          /\ oauthDir' = [oauthDir EXCEPT ![op.id] = EmptyOf(row[op.id].born)]
       \/ Fails /\ UNCHANGED oauthDir
       \/ /\ op.kind = "clear"
          /\ \/ FaultCut(oauthDir[op.id]) /\ TurnBack(saga.did)
             \/ DiesCut(oauthDir[op.id])
          /\ oauthDir' = [oauthDir EXCEPT ![op.id] = Partial(@)]
    /\ UNCHANGED <<configFile, backup, archived>> /\ filesFrame

CommitFiles ==
    /\ Onward("commit")
    /\ \/ /\ Proceed("commit")
          /\ configFile' = IF Renames(saga.op)
                           THEN [configFile EXCEPT ![saga.op.id] = FALSE] ELSE configFile
       \/ Fails /\ UNCHANGED configFile
    /\ UNCHANGED <<oauthDir, backup, archived>> /\ filesFrame

(* A removal that fails may have taken some of the files.                  *)
RemoveFiles ==
    /\ Onward("remove")
    /\ LET id == saga.op.id IN
       \/ /\ Proceed("remove")
          /\ configFile' = [configFile EXCEPT ![id] = FALSE]
          /\ oauthDir' = [oauthDir EXCEPT ![id] = NoDir]
       \/ /\ Fails
          /\ configFile' \in {configFile, [configFile EXCEPT ![id] = FALSE]}
          /\ oauthDir' \in {oauthDir, [oauthDir EXCEPT ![id] = Partial(@)]}
    /\ UNCHANGED <<backup, archived>> /\ filesFrame

(* ApplyAccountCreation, ApplyAccountUpdate, ApplyAccountDeletion: one     *)
(* transaction on accounts, key rows and routes.  A refusal is an e-mail   *)
(* address in use or an exclusive key that nobody agreed to revoke.        *)
FallbackOf == IF saga.ask.to # 0 THEN saga.ask.to ELSE saga.op.to
FinalId(op) == IF op.kind = "update" THEN op.new ELSE op.id
SourceLeaves == saga.op.kind = "delete" \/ (saga.op.kind \in {"update", "policy"} /\ ~saga.ask.enabled)

RowsAfter(rows) ==
    LET op == saga.op  ask == saga.ask IN
    CASE op.kind = "create" ->
            [rows EXCEPT ![op.id] = [born |-> ask.born, proxy |-> ask.proxy, enabled |-> TRUE]]
      [] op.kind = "update" ->
            [rows EXCEPT ![op.id] = NoAccount,
                         ![op.new] = [rows[op.id] EXCEPT !.proxy = ask.proxy,
                                                         !.enabled = @ /\ ask.enabled]]
      [] op.kind = "delete" -> [rows EXCEPT ![op.id] = NoAccount]
      [] op.kind = "policy" -> [rows EXCEPT ![op.id].enabled = ask.enabled]

RoutesAfter ==
    [u \in Evacuee |-> IF userRoute[u] # saga.op.id THEN userRoute[u]
                       ELSE IF SourceLeaves THEN FallbackOf ELSE FinalId(saga.op)]
HomesAfter ==
    [u \in Evacuee |-> IF SourceLeaves /\ homeOf[u] = row[saga.op.id].born
                       THEN row[FallbackOf].born ELSE homeOf[u]]

ApplyToRecords ==
    /\ Onward("control")
    /\ LET op == saga.op
           duplicate == IF op.kind = "create" THEN Exists(op.id)
                        ELSE Renames(op) /\ Exists(op.new)
       IN  \/ /\ ~duplicate
              /\ row' = RowsAfter(row) /\ userRoute' = RoutesAfter /\ homeOf' = HomesAfter
              /\ saga' = [saga EXCEPT
                            !.todo = @ \ {"control"}, !.did = @ \cup {"control"},
                            !.old = [secret |-> @.secret, container |-> @.container,
                                     row |-> row, route |-> userRoute, home |-> homeOf,
                                     routeAfter |-> RoutesAfter, homeAfter |-> HomesAfter]]
              /\ UNCHANGED past
           \/ Refuse /\ UNCHANGED <<row, userRoute, homeOf>>
           \/ Fails /\ UNCHANGED <<row, userRoute, homeOf>>
    /\ UNCHANGED <<secret, fileVars, container, published, journal>>

(* secretPlan.Apply: one write per name, in the order of the names.        *)
SecretName(op, step) ==
    IF ~Renames(op) \/ ((step = "secret1") <=> op.id < op.new) THEN op.id ELSE op.new
ApplySecret(step) ==
    /\ Onward(step)
    /\ LET op == saga.op
           name == SecretName(op, step)
       IN  \/ /\ secret' = [secret EXCEPT ![name] =
                               IF name = FinalId(op) THEN saga.ask.url ELSE 0]
              /\ Proceed(step)
           \/ Fails /\ UNCHANGED secret
    /\ UNCHANGED <<row, userRoute, homeOf, fileVars, container, published, journal>>

RenderConfigs ==
    /\ Onward("render")
    /\ \/ ~Unrenderable /\ RenderRows /\ Proceed("render")
       \/ Unrenderable /\ Refuse /\ UNCHANGED configFile
       \/ Fails /\ UNCHANGED configFile
    /\ UNCHANGED <<oauthDir, backup, archived>> /\ filesFrame

Unmoved == saga.op.kind = "clear" /\ saga.op.moved = {}

PublishStep ==
    /\ Onward("publish")
    /\ IF Unmoved THEN Proceed("publish") /\ UNCHANGED published
       ELSE (Proceed("publish") /\ PublishAuthSnapshot) \/ (Fails /\ MayPublish)
    /\ UNCHANGED <<recordVars, fileVars, container, journal>>

runtimeFrame == UNCHANGED <<recordVars, fileVars, published, journal>>
StoppedAt(a) == [container EXCEPT ![a] = IF @ = "none" THEN "none" ELSE "stopped"]

(* PrepareCreate and PrepareUpdate of the runtime; PrepareDelete only      *)
(* looks.  removeContainer stops a container before it removes it; if the  *)
(* removal fails, an update has no transition to roll back.                *)
PrepareRuntime ==
    /\ Onward("build")
    /\ LET op == saga.op IN
       CASE op.kind = "create" ->
               \/ /\ container[op.id] = "none" /\ Proceed("build")
                  /\ container' = [container EXCEPT ![op.id] = "running"]
               \/ container[op.id] # "none" /\ Refuse /\ UNCHANGED container
               \/ Fails /\ UNCHANGED container
         [] op.kind = "update" ->
               \/ /\ Proceed("build")
                  /\ container' = [container EXCEPT ![op.id] = "none", ![op.new] = "running"]
               \/ Fails /\ container' \in {container, StoppedAt(op.id)}
               \/ /\ Fault /\ TurnBack(saga.did \cup {"build"})
                  /\ container' = [container EXCEPT ![op.id] = "none"]
         [] op.kind = "delete" -> (Proceed("build") \/ Fails) /\ UNCHANGED container
    /\ runtimeFrame

CommitRuntime ==
    /\ Onward("stop")
    /\ \/ Proceed("stop") /\ container' = [container EXCEPT ![saga.op.id] = "none"]
       \/ Fails /\ container' \in {container, StoppedAt(saga.op.id)}
    /\ runtimeFrame

RestartAccount ==
    /\ Onward("restart")
    /\ \/ Proceed("restart") /\ container' = [container EXCEPT ![saga.op.id] = "running"]
       \/ Fails /\ container' \in {container, StoppedAt(saga.op.id)}
    /\ runtimeFrame

(* The evacuated users return, to the new ID after a rename.               *)
BringHome ==
    /\ Onward("home")
    /\ LET op == saga.op  target == FinalId(op) IN
       IF op.moved = {} \/ (op.kind = "update" /\ ~row[target].enabled)
       THEN Proceed("home") /\ UNCHANGED userRoute
       ELSE \/ ~Strays(op, target) /\ RestoreTo(op, target) /\ Proceed("home")
            \/ Strays(op, target) /\ Refuse /\ UNCHANGED userRoute
            \/ Fails /\ UNCHANGED userRoute
    /\ UNCHANGED <<published, journal>> /\ routesFrame

Step ==
    \/ PlanRoutes \/ MoveRoutes \/ ExposeFallback \/ Note \/ Drain
    \/ \E step \in {"archive", "copy"} : CopyFiles(step)
    \/ PrepareDirectory \/ PrepareFiles \/ CommitFiles \/ RemoveFiles
    \/ ApplyToRecords \/ \E step \in {"secret1", "secret2"} : ApplySecret(step)
    \/ RenderConfigs \/ PublishStep \/ PrepareRuntime \/ CommitRuntime
    \/ RestartAccount \/ BringHome

---------------------------------------------------------------------------
(* Compensation.                                                           *)

(* A deleted or cleared directory is removed and copied back, even if      *)
(* nothing had been taken from it yet.                                     *)
RollbackFiles ==
    /\ Back("files")
    /\ LET op == saga.op
           preparation == CASE op.kind = "create" -> "directory"
                            [] op.kind = "delete" -> "archive"
                            [] OTHER -> "files"
           prepared == preparation \in saga.did
       IN  IF ~prepared \/ (op.kind = "update" /\ ~Renames(op))
           THEN Undone("files") /\ UNCHANGED <<oauthDir, configFile>>
           ELSE \/ /\ Undone("files")
                   /\ oauthDir' =
                        CASE op.kind = "create" -> [oauthDir EXCEPT ![op.id] = NoDir]
                          [] op.kind = "update" -> [oauthDir EXCEPT ![op.new] = NoDir,
                                                                    ![op.id] = oauthDir[op.new]]
                          [] OTHER -> [oauthDir EXCEPT ![op.id] = Restored]
                   /\ configFile' =
                        CASE op.kind = "create" -> [configFile EXCEPT ![op.id] = FALSE]
                          [] op.kind = "update" -> [configFile EXCEPT ![op.new] = FALSE]
                          [] op.kind = "delete" -> [configFile EXCEPT ![op.id] = TRUE]
                          [] op.kind = "clear" -> configFile
                \/ /\ Keeps("files") /\ UNCHANGED <<oauthDir, configFile>>
                   /\ IF oauthDir[op.id].is = "partial" THEN FaultCut(oauthDir[op.id]) ELSE Fault
                \/ /\ op.kind \in {"delete", "clear"}
                   /\ (FaultCut(backup) /\ Keeps("files")) \/ DiesCut(backup)
                   /\ configFile' = IF op.kind = "delete"
                                    THEN [configFile EXCEPT ![op.id] = TRUE] ELSE configFile
                   /\ \E dir \in {NoDir, Partial(Restored)} :
                         oauthDir' = [oauthDir EXCEPT ![op.id] = dir]
    /\ UNCHANGED <<backup, archived>> /\ filesFrame

(* createAccountContainer wants the config file and the directories of the *)
(* account.                                                                *)
Creatable(a) == configFile[a] /\ oauthDir[a] # NoDir

(* The candidate goes and the old container is created again; a deletion   *)
(* starts the one it still has.  A rename whose files are committed has    *)
(* no config to create it from.                                            *)
RollbackRuntime ==
    /\ Back("build")
    /\ LET op == saga.op IN
       IF "build" \notin saga.did THEN Undone("build") /\ UNCHANGED container
       ELSE LET gone == [container EXCEPT ![FinalId(op)] =
                           IF op.kind = "delete" THEN @ ELSE "none"]
                lost == /\ gone[op.id] = "none" /\ saga.old.container # "none"
                        /\ ~Creatable(op.id)
            IN  \/ /\ ~lost /\ Undone("build")
                   /\ container' = [gone EXCEPT ![op.id] = saga.old.container]
                \/ lost /\ Conflicts("build") /\ container' = gone
                \/ Stuck("build") /\ container' \in {container, gone}
    /\ runtimeFrame

RollbackSecrets ==
    /\ Back("secrets")
    /\ \/ Undone("secrets") /\ secret' = saga.old.secret
       \/ /\ Stuck("secrets") \/ (Renames(saga.op) /\ Dies)
          /\ \E kept \in SUBSET {saga.op.id, FinalId(saga.op)} :
                secret' = [a \in AccountId |-> IF a \in kept THEN secret[a] ELSE saga.old.secret[a]]
    /\ UNCHANGED <<row, userRoute, homeOf, fileVars, container, published, journal>>

(* RestoreAccountCreation, -Update, -Deletion: refused if routes changed.  *)
RestoreRecords ==
    /\ Back("control")
    /\ IF "control" \notin saga.did
       THEN Undone("control") /\ UNCHANGED <<row, userRoute, homeOf>>
       ELSE LET op == saga.op  old == saga.old
                changed == {u \in Evacuee : old.routeAfter[u] # old.route[u]}
                conflict == \/ \E u \in changed : userRoute[u] # old.routeAfter[u]
                            \/ op.kind = "create" /\ (\E u \in Evacuee : userRoute[u] = op.id)
            IN  \/ /\ ~conflict /\ Undone("control")
                   /\ row' = old.row
                   /\ userRoute' = [u \in Evacuee |-> IF u \in changed THEN old.route[u]
                                                      ELSE userRoute[u]]
                   /\ homeOf' = [u \in Evacuee |-> IF homeOf[u] = old.homeAfter[u]
                                                   THEN old.home[u] ELSE homeOf[u]]
                \/ /\ Stuck("control") \/ (conflict /\ Conflicts("control"))
                   /\ UNCHANGED <<row, userRoute, homeOf>>
    /\ UNCHANGED <<secret, fileVars, container, published, journal>>

(* Back to the account, or to the fallback if OAuth is not proven usable.  *)
RestoreRoutes ==
    /\ Back("home")
    /\ LET op == saga.op
           target == IF "unusable" \in saga.did THEN op.to ELSE op.id
       IN  \/ ~Strays(op, target) /\ RestoreTo(op, target) /\ Undone("home")
           \/ /\ Stuck("home") \/ (Strays(op, target) /\ Conflicts("home"))
              /\ UNCHANGED userRoute
    /\ UNCHANGED <<published, journal>> /\ routesFrame

RestartRestored ==
    /\ Back("restart")
    /\ IF "files" \notin saga.did THEN Undone("restart") /\ UNCHANGED container
       ELSE \/ Undone("restart") /\ container' = [container EXCEPT ![saga.op.id] = "running"]
            \/ Stuck("restart") /\ container' \in {container, StoppedAt(saga.op.id)}
    /\ runtimeFrame

RestoreProjection ==
    /\ Back("render")
    /\ \/ ~Unrenderable /\ RenderRows /\ Undone("render")
       \/ Unrenderable /\ Conflicts("render") /\ UNCHANGED configFile
       \/ Stuck("render") /\ UNCHANGED configFile
    /\ UNCHANGED <<oauthDir, backup, archived>> /\ filesFrame

RestoreSnapshot ==
    /\ Back("publish")
    /\ IF Unmoved THEN Undone("publish") /\ UNCHANGED published
       ELSE (Undone("publish") /\ PublishAuthSnapshot) \/ (Stuck("publish") /\ MayPublish)
    /\ UNCHANGED <<recordVars, fileVars, container, journal>>

Compensation ==
    \/ RollbackFiles \/ RollbackRuntime \/ RollbackSecrets \/ RestoreRecords
    \/ RestoreRoutes \/ RestartRestored \/ RestoreProjection \/ RestoreSnapshot

---------------------------------------------------------------------------
(* Recover, before Admin serves anything.                                  *)

(* The account that the database says the operation is about; 0 if none.  *)
Desired(op) ==
    IF op.kind = "update" /\ Exists(op.new) THEN op.new
    ELSE IF op.kind # "none" /\ Exists(op.id) THEN op.id ELSE 0

RemovalFinished == {"secret", "render", "publish", "drain", "removal", "discard"}
RoutesReturned == {"home", "publish"}

Recovery(op) ==
    LET found == Desired(op)
        untouched == found = (IF op.kind = "create" THEN 0 ELSE op.id)
        prepared == \/ op.phase = "accepted" /\ untouched
                    \/ op.phase = "routes_prepared" /\ (op.kind = "clear" \/ untouched)
    IN  CASE op.kind = "policy" -> {"render", "publish"}
          [] op.kind # "policy" /\ prepared ->
                IF op.phase = "routes_prepared" THEN RoutesReturned
                ELSE IF op.kind = "create" THEN {"discard"} ELSE {}
          [] ~prepared /\ found = 0 /\ op.kind = "create" ->
                {"secret", "render", "publish", "removal", "discard"}
          [] ~prepared /\ found = 0 /\ op.kind = "delete" -> RemovalFinished
          [] OTHER -> {"secret", "files", "render", "container", "home", "publish"}

AdminStart ==
    /\ saga.mode = "down" \/ (saga.mode = "idle" /\ journal # NoOperation)
    /\ saga' = IF journal = NoOperation THEN AtRestNow
               ELSE [AtRestNow EXCEPT !.mode = "recover", !.op = journal,
                                      !.todo = Recovery(journal)]
    /\ UNCHANGED <<journal, past>> /\ operationFrame

(* recoverProxySecrets; a secret that a custom proxy needs and that is     *)
(* gone ends the recovery.                                                 *)
RecoverSecrets ==
    /\ Recovering("secret")
    /\ LET op == saga.op
           found == Desired(op)
           drop(a) == secret' = [secret EXCEPT ![a] = 0] /\ Recovered("secret")
           require == IF row[found].proxy = "custom" /\ secret[found] = 0
                      THEN CannotRecover /\ UNCHANGED secret
                      ELSE Recovered("secret") /\ UNCHANGED secret
       IN  \/ CASE op.kind = "clear" \/ (op.kind = "delete" /\ found # 0) ->
                     Recovered("secret") /\ UNCHANGED secret
                [] op.kind # "clear" /\ found = 0 -> drop(op.id)
                [] op.kind = "create" /\ found # 0 -> require
                [] op.kind = "update" /\ ~Renames(op) -> require
                [] Renames(op) /\ found = op.id -> drop(op.new)
                [] Renames(op) /\ found = op.new ->
                     IF secret[op.new] # 0 THEN drop(op.id)
                     ELSE IF secret[op.id] # 0
                     THEN \* the second write drops the old name
                          /\ secret' = [secret EXCEPT ![op.new] = secret[op.id]]
                          /\ UNCHANGED <<saga, past>>
                     ELSE require
           \/ Stops /\ UNCHANGED secret
    /\ UNCHANGED <<row, userRoute, homeOf, fileVars, container, published, journal>>

(* FileManager.Recover.                                                    *)
RecoverFiles ==
    /\ Recovering("files")
    /\ LET op == saga.op
           found == Desired(op)
           other == IF found = op.new THEN op.id ELSE op.new
           (* what the directory of a becomes, or a copy that was cut short *)
           becomes(a, dir) == oauthDir' = [oauthDir EXCEPT ![a] = dir] /\ Recovered("files")
           copied(a) ==
              \/ becomes(a, Restored)
              \/ /\ (FaultCut(backup) /\ saga' = Down) \/ DiesCut(backup)
                 /\ oauthDir' = [oauthDir EXCEPT ![a] = Partial(Restored)]
           ensured(a) == becomes(a, IF oauthDir[a] = NoDir THEN EmptyOf(row[a].born)
                                                           ELSE oauthDir[a])
           moved ==
              IF oauthDir[other] # NoDir /\ oauthDir[found] # NoDir
              THEN CannotRecover /\ UNCHANGED oauthDir
              ELSE IF oauthDir[found] # NoDir THEN Recovered("files") /\ UNCHANGED oauthDir
              ELSE IF oauthDir[other] # NoDir
              THEN /\ oauthDir' = [oauthDir EXCEPT ![found] = oauthDir[other],
                                                   ![other] = NoDir]
                   /\ Recovered("files")
              ELSE copied(found)
       IN  \/ CASE op.kind = "create" \/ (op.kind = "update" /\ ~Renames(op)) ->
                     ensured(found) /\ UNCHANGED configFile
                [] Renames(op) ->
                     /\ moved
                     /\ configFile' = IF saga'.mode = "down" THEN configFile
                                      ELSE [configFile EXCEPT ![other] = FALSE]
                [] op.kind = "delete" ->
                     /\ IF oauthDir[op.id] = NoDir THEN copied(op.id)
                        ELSE Recovered("files") /\ UNCHANGED oauthDir
                     /\ configFile' = [configFile EXCEPT ![op.id] = TRUE]
                [] op.kind = "clear" ->
                     /\ IF backup = NoDir THEN Recovered("files") /\ UNCHANGED oauthDir
                        ELSE /\ oauthDir' = [oauthDir EXCEPT ![op.id] = EmptyOf(row[op.id].born)]
                             /\ saga' = [saga EXCEPT !.todo = @ \ {"files"}]
                             /\ past' = IF backup.is # "partial" THEN past
                                        ELSE [past EXCEPT !.cut = @ \cup {backup.of}]
                     /\ UNCHANGED configFile
           \/ Stops /\ UNCHANGED <<oauthDir, configFile>>
    /\ UNCHANGED <<backup, archived>> /\ filesFrame

DiscardFiles ==
    /\ Recovering("discard")
    /\ LET id == saga.op.id IN
       \/ /\ Recovered("discard")
          /\ oauthDir' = [oauthDir EXCEPT ![id] = NoDir]
          /\ configFile' = [configFile EXCEPT ![id] = FALSE]
       \/ Stops /\ UNCHANGED <<oauthDir, configFile>>
    /\ UNCHANGED <<backup, archived>> /\ filesFrame

RecoverProjection ==
    /\ Recovering("render")
    /\ \/ ~Unrenderable /\ RenderRows /\ Recovered("render")
       \/ Unrenderable /\ CannotRecover /\ UNCHANGED configFile
       \/ Stops /\ UNCHANGED configFile
    /\ UNCHANGED <<oauthDir, backup, archived>> /\ filesFrame

RecoverSnapshot ==
    /\ Recovering("publish")
    /\ (Recovered("publish") /\ PublishAuthSnapshot) \/ (Stops /\ MayPublish)
    /\ UNCHANGED <<recordVars, fileVars, container, journal>>

RecoverDrain ==
    /\ Recovering("drain")
    /\ Recovered("drain") \/ Stops
    /\ operationFrame /\ UNCHANGED journal

(* ReconcileAccount: the other side of a rename goes, the desired          *)
(* container is made anew.                                                 *)
Reconcile(step) ==
    /\ Recovering(step)
    /\ LET op == saga.op
           found == Desired(op)
           gone == {a \in {op.id, op.new, found} : a # 0}
           without == [a \in AccountId |-> IF a \in gone THEN "none" ELSE container[a]]
       IN  \/ /\ Recovered(step)
              /\ container' = IF found = 0 THEN without ELSE [without EXCEPT ![found] = "running"]
           \/ Stops /\ container' \in {container, without, StoppedAt(op.id)}
    /\ runtimeFrame
ReconcileAccount == \E step \in {"container", "removal"} : Reconcile(step)

RecoverRoutes ==
    /\ Recovering("home")
    /\ LET op == saga.op  found == Desired(op) IN
       IF ~row[found].enabled THEN Recovered("home") /\ UNCHANGED userRoute
       ELSE \/ ~RecoveryStrays(op, found) /\ RestoreTo(op, found) /\ Recovered("home")
            \/ RecoveryStrays(op, found) /\ CannotRecover /\ UNCHANGED userRoute
            \/ op.moved # {} /\ Stops /\ UNCHANGED userRoute
    /\ UNCHANGED <<published, journal>> /\ routesFrame

FinishRecovery ==
    /\ saga.mode = "recover" /\ saga.todo = {}
    /\ \/ JournalRemoved
       \/ Stops /\ UNCHANGED <<journal, backup>>
    /\ UNCHANGED <<recordVars, oauthDir, configFile, archived, container, published>>

Recover ==
    \/ AdminStart \/ RecoverSecrets \/ RecoverFiles \/ DiscardFiles
    \/ RecoverProjection \/ RecoverSnapshot \/ RecoverDrain \/ ReconcileAccount \/ RecoverRoutes \/ FinishRecovery

---------------------------------------------------------------------------
(* Around the saga.                                                        *)

Death ==
    /\ saga.mode \in {"forward", "back", "recover"}
    /\ Dies
    /\ UNCHANGED <<recordVars, fileVars, container, published, journal>>

(* Failover, or the user by way of the Portal of an earlier Admin.         *)
OthersMove ==
    \E u \in Evacuee, to \in AccountId :
        /\ past.moves < SagaMoves
        /\ Exists(to) /\ row[to].enabled /\ to # userRoute[u]
        /\ userRoute' = [userRoute EXCEPT ![u] = to]
        /\ homeOf' = [homeOf EXCEPT ![u] = row[to].born]
        /\ published' = [route |-> userRoute', account |-> row]
        /\ past' = [past EXCEPT !.moves = @ + 1,
                                !.strayed = IF journal = NoOperation THEN @ ELSE @ \cup {u}]
        /\ UNCHANGED <<row, secret, fileVars, container, journal, saga>>

---------------------------------------------------------------------------
SagaProgress == Step \/ Compensation \/ End \/ Recover
SagaNext == OperatorAsks \/ SagaProgress \/ Death \/ OthersMove

SagaSpec == SagaInit /\ [][SagaNext]_sagaVars
(* The request runs on, and an operator restarts an Admin that went down.  *)
SagaFairSpec == SagaSpec /\ WF_sagaVars(SagaProgress)

---------------------------------------------------------------------------
Settled == saga.mode = "idle" /\ journal = NoOperation

(* Evacuated users are back on their account, under its final ID, when the *)
(* operation has ended; those of a disabled or deleted account are on the  *)
(* replacement.  A user that somebody else moved meanwhile is excepted: a  *)
(* move onto the replacement cannot be told from the evacuation            *)
(* (routeTransition, recoverEvacuatedRoutes).                              *)
EvacueesBack ==
    \A u \in Evacuee \ past.strayed : row[userRoute[u]].born = homeOf[u]

(* What an account has, and what nothing is left of when it is gone: its   *)
(* directory with its own OAuth, its config, its proxy, its container.     *)
Whole(b) == [of |-> b, is |-> "whole"]
Held(b) == b \in past.oauth \ past.cut
SoundDir(dir, b) == /\ dir.of = b \/ (dir.of = 0 /\ b \in past.cut)
                    /\ Held(b) => dir = Whole(b)
DirAgrees(a) == IF Exists(a) THEN SoundDir(oauthDir[a], row[a].born)
                ELSE oauthDir[a] = NoDir
ConfigAgrees(a) == configFile[a] <=> Exists(a)
SecretAgrees(a) == IF Exists(a) THEN /\ secret[a] \in {0, row[a].born}
                                     /\ row[a].proxy = "custom" => secret[a] # 0
                   ELSE secret[a] = 0
ContainerAgrees(a) == container[a] # "none" <=> Exists(a)
AccountAgrees(a) ==
    DirAgrees(a) /\ ConfigAgrees(a) /\ SecretAgrees(a) /\ ContainerAgrees(a)

(* Once an operation has ended - completed, compensated or recovered -     *)
(* database, files, secrets, containers and snapshot tell the same story   *)
(* of every account (finalizeOperation, Recover), and the evacuated users  *)
(* are back.                                                               *)
SettledAgrees ==
    Settled =>
        /\ published = Current
        /\ EvacueesBack
        /\ \A a \in AccountId : AccountAgrees(a)

(* The OAuth files of an account exist as a whole somewhere at any time,   *)
(* in a directory or in a backup, unless a clearing was interrupted while  *)
(* it was making the backup (FileManager).                                 *)
OAuthKept ==
    \A b \in {a \in AccountId : \E c \in AccountId : c > a} :
        \/ b \in archived \cup past.cut
        \/ \E a \in AccountId : oauthDir[a] = [of |-> b, is |-> "whole"]

(* Nobody is sent to a container that has been removed, at no point of an  *)
(* operation, of its compensation or of its recovery (Update, Delete,      *)
(* Recover: "Keep the old container and files available until the          *)
(* replacement snapshot is confirmed active").  Excepted are users that    *)
(* others moved onto an account under maintenance, and three cases in      *)
(* which the code does take a container from under its users: an update    *)
(* that is compensated after they were back; a compensation that fails     *)
(* itself, whose later steps bring users back all the same; and a recovery,*)
(* which makes the container of the account anew even when they are back   *)
(* or never left.                                                          *)
Rebuilt(a) ==
    \/ saga.mode = "back" /\ "home" \in saga.did /\ a = FinalId(saga.op)
    \/ saga.mode = "back" /\ saga.dirty /\ a = saga.op.id
    \/ /\ saga.mode \in {"down", "idle", "recover"}
       /\ a = Desired(journal) \/ (journal.kind = "update" /\ a = journal.new)
ServedRunning ==
    \A u \in Evacuee \ past.strayed :
        Rebuilt(published.route[u]) \/ container[published.route[u]] # "none"

(* Whatever fails or falls in between, neither the OAuth files nor the     *)
(* users of an account are lost: the two above.                            *)
InterruptionsHarmless == OAuthKept /\ ServedRunning

(* Recovery of an operation that had not begun replaces no container       *)
(* (Recover: "This avoids replacing an active CPA when no authoritative    *)
(* work began").                                                           *)
UnbegunSparesContainers ==
    [][journal.phase = "accepted" => ~ReconcileAccount]_sagaVars

(* Every operation ends, in spite of failures and restarts, unless its     *)
(* recovery fails closed: a custom proxy is gone, or somebody else moved   *)
(* an evacuated user (Recover).                                            *)
FailsClosed == \/ past.strayed # {}
               \/ \E a \in AccountId : row[a].proxy = "custom" /\ secret[a] = 0
SagaEnds == (journal # NoOperation) ~> (journal = NoOperation \/ FailsClosed)
=============================================================================
