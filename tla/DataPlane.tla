----------------------------- MODULE DataPlane -----------------------------
(***************************************************************************)
(* How a change of the account pool reaches the clients: the auth snapshot *)
(* (internal/failover/auth_snapshot.go), the two Gateway slots that load   *)
(* it and serve /v1 requests from it (internal/gateway), Edge that picks   *)
(* the slot (internal/edge), the blue/green rollout of `run.sh up-core`,   *)
(* account deletion and replacement by Admin (internal/accountlifecycle)   *)
(* and a route change by another writer (internal/failover/service.go).    *)
(*                                                                         *)
(* A snapshot is built and renamed into place under the control-plane file *)
(* lock (WithWriteFence), so a publication is one step; waiting for the    *)
(* Gateway, draining, touching containers and compensating are further     *)
(* steps, and every other actor may run between them.  A generation is a   *)
(* fresh UUID in the code and is only compared for equality there; here it *)
(* is the number of the publication, which the properties compare.  Only   *)
(* users with a single API key are modelled: their route decides.          *)
(*                                                                         *)
(* A definition marked "Deviation" is what the definition after it must    *)
(* not be; no specification uses it.                                       *)
(***************************************************************************)
EXTENDS Integers

CONSTANTS
    Account,        \* upstream accounts
    User,           \* users with one API key
    Request,        \* client connections
    Slot,           \* the two Gateway slots
    None,           \* no route, no account
    ForceStop,      \* CPA_GATEWAY_FORCE_STOP_ON_DRAIN_TIMEOUT
    Actors,         \* bound: which of "admin", "mover" and "rollout" act
    MaxGeneration   \* bound: publications of the auth snapshot

ASSUME DataPlaneAssumption ==
    /\ None \notin Account
    /\ ForceStop \in BOOLEAN
    /\ MaxGeneration \in Nat
    /\ \A s \in Slot : \E t \in Slot : Slot = {s, t} /\ s # t

VARIABLES
    catalog,    \* rows of the accounts table
    route,      \* rows of the user_routes table
    file,       \* the published auth snapshot
    loaded,     \* the snapshot a slot's engine serves from
    running,    \* whether a slot's container runs
    selection,  \* the slot active-gateway.conf names
    edge,       \* the slot Edge sends new requests to
    request,    \* where a client connection is
    container,  \* accounts that have a CPA container
    op,         \* the account operation Admin's manager is in, its journal
    mover,      \* the route change of the other writer
    rollout     \* the run of `run.sh up-core`

vars == <<catalog, route, file, loaded, running, selection, edge, request,
          container, op, mover, rollout>>

database == <<catalog, route>>
gateways == <<loaded, running>>
proxy    == <<selection, edge>>

Other(s) == CHOOSE t \in Slot : t # s

IdleRequest == [at |-> "idle", slot |-> None, user |-> None,
                account |-> None, generation |-> 0]
NoOperation == [kind |-> "none", mode |-> "forward", step |-> "none",
                source |-> None, fallback |-> None, moved |-> {},
                generation |-> 0, evacuated |-> FALSE]
NoMove      == [step |-> "idle", user |-> None, from |-> None, to |-> None,
                generation |-> 0]
NoRollout   == [step |-> "none", target |-> None, aligned |-> TRUE]

RoutedTo(a) == {u \in User : route[u] = a}

(* A connection proxied to an account and counted by the slot's registry. *)
Counted(r, s) == request[r].at = "counted" /\ request[r].slot = s

CountedFor(a, s) == {r \in Request : Counted(r, s) /\ request[r].account = a}

-----------------------------------------------------------------------------
(***************************************************************************)
(* The auth snapshot.                                                      *)
(***************************************************************************)

(* Deviation: a route is copied without looking its account up. *)
ImageUnchecked == route

(* buildPayload: the record of a user names its route's account; a user    *)
(* whose account is not in the catalog gets no record.                     *)
Image == [u \in User |-> IF route[u] \in catalog THEN route[u] ELSE None]

(* PublishAuthSnapshot up to the rename. *)
Publish ==
    /\ file.generation < MaxGeneration
    /\ file' = [generation |-> file.generation + 1, route |-> Image]

(* waitForGeneration and WaitAccountDrained probe Edge, which answers for  *)
(* the slot it serves.                                                     *)
Active(generation) == running[edge] /\ loaded[edge].generation = generation

-----------------------------------------------------------------------------
(***************************************************************************)
(* Edge, the Gateway slots and the clients.                                *)
(***************************************************************************)

(* Deviation: a snapshot with the same records is not stored. *)
LoadIfChanged(s) ==
    /\ running[s]
    /\ loaded[s].route # file.route
    /\ loaded' = [loaded EXCEPT ![s] = file]
    /\ UNCHANGED <<database, file, running, proxy, request, container, op, mover, rollout>>

(* Refresh: one loader goroutine per slot, triggered by fsnotify and by    *)
(* the ticker.                                                             *)
Load(s) ==
    /\ running[s]
    /\ loaded[s] # file
    /\ loaded' = [loaded EXCEPT ![s] = file]
    /\ UNCHANGED <<database, file, running, proxy, request, container, op, mover, rollout>>

(* Selector.Refresh. *)
EdgeRefresh ==
    /\ edge # selection
    /\ edge' = selection
    /\ UNCHANGED <<database, file, gateways, selection, request, container, op, mover, rollout>>

(* Edge picks the slot when the request arrives and keeps it. *)
Arrive(r, u) ==
    /\ request[r].at = "idle"
    /\ request' = [request EXCEPT ![r] = [IdleRequest EXCEPT !.at = "edge", !.slot = edge,
                                                             !.user = u]]
    /\ UNCHANGED <<database, file, gateways, proxy, container, op, mover, rollout>>

(* Engine.Authorize: the account comes from the snapshot loaded now. *)
Admit(r) ==
    LET s == request[r].slot IN
    LET a == loaded[s].route[request[r].user] IN
    /\ request[r].at = "edge"
    /\ running[s]
    /\ a # None
    /\ request' = [request EXCEPT ![r] = [@ EXCEPT !.at = "admitted", !.account = a,
                                                   !.generation = loaded[s].generation]]
    /\ UNCHANGED <<database, file, gateways, proxy, container, op, mover, rollout>>

(* An unknown key, a snapshot older than AuthSnapshotMaxAge or a slot that *)
(* does not answer.                                                        *)
Refuse(r) ==
    /\ request[r].at = "edge"
    /\ request' = [request EXCEPT ![r] = IdleRequest]
    /\ UNCHANGED <<database, file, gateways, proxy, container, op, mover, rollout>>

(* inflight.Start, a step after Authorize. *)
Start(r) ==
    /\ request[r].at = "admitted"
    /\ request' = [request EXCEPT ![r].at = "counted"]
    /\ UNCHANGED <<database, file, gateways, proxy, container, op, mover, rollout>>

(* The response ends; nothing bounds how long a stream takes. *)
Finish(r) ==
    /\ request[r].at = "counted"
    /\ request' = [request EXCEPT ![r] = IdleRequest]
    /\ UNCHANGED <<database, file, gateways, proxy, container, op, mover, rollout>>

-----------------------------------------------------------------------------
(***************************************************************************)
(* Account operations: Manager.Delete, Manager.Update and Manager.Recover. *)
(* manager.lock admits one at a time, and beginOperation refuses to start  *)
(* while a journal is left, which is step "blocked".  mode is "forward",   *)
(* "undo" once the operation compensates, or "recover" after a restart.    *)
(***************************************************************************)

(* Deviation: the account is deleted without a fallback. *)
BeginDeleteWithoutFallback(a, b) ==
    /\ op.step = "none" /\ "admin" \in Actors
    /\ a \in catalog
    /\ catalog' = catalog \ {a}
    /\ route' = [u \in User |-> IF route[u] = a THEN None ELSE route[u]]
    /\ op' = [NoOperation EXCEPT !.kind = "delete", !.step = "publish", !.source = a,
                                 !.fallback = b, !.moved = RoutedTo(a)]
    /\ UNCHANGED <<file, gateways, proxy, request, container, mover, rollout>>

(* ApplyAccountDeletion: one transaction removes the account and moves its *)
(* routes to the fallback.                                                 *)
BeginDelete(a, b) ==
    /\ op.step = "none" /\ "admin" \in Actors
    /\ {a, b} \subseteq catalog
    /\ a # b
    /\ catalog' = catalog \ {a}
    /\ route' = [u \in User |-> IF route[u] = a THEN b ELSE route[u]]
    /\ op' = [NoOperation EXCEPT !.kind = "delete", !.step = "publish", !.source = a,
                                 !.fallback = b, !.moved = RoutedTo(a)]
    /\ UNCHANGED <<file, gateways, proxy, request, container, mover, rollout>>

(* planRouteEvacuation and the route change of Apply: an account without   *)
(* routes goes straight to its container.                                  *)
BeginReplace(a, b) ==
    /\ op.step = "none" /\ "admin" \in Actors
    /\ a \in catalog
    /\ \/ /\ RoutedTo(a) = {}
          /\ b = a
          /\ op' = [NoOperation EXCEPT !.kind = "replace", !.step = "commit", !.source = a,
                                       !.fallback = b, !.evacuated = TRUE]
       \/ /\ RoutedTo(a) # {}
          /\ b \in catalog \ {a}
          /\ op' = [NoOperation EXCEPT !.kind = "replace", !.step = "publish", !.source = a,
                                       !.fallback = b, !.moved = RoutedTo(a)]
    /\ route' = [u \in User |-> IF route[u] = a THEN b ELSE route[u]]
    /\ UNCHANGED <<catalog, file, gateways, proxy, request, container, mover, rollout>>

(* Deviation: the snapshot is built from records read before the change. *)
OpPublishStale ==
    /\ op.step \in {"publish", "republish"}
    /\ file.generation < MaxGeneration
    /\ file' = [file EXCEPT !.generation = @ + 1]
    /\ op' = [op EXCEPT !.step = IF @ = "publish" THEN "wait" ELSE "rewait",
                        !.generation = file'.generation]
    /\ UNCHANGED <<database, gateways, proxy, request, container, mover, rollout>>

OpPublish ==
    /\ op.step \in {"publish", "republish"}
    /\ Publish
    /\ op' = [op EXCEPT !.step = IF @ = "publish" THEN "wait" ELSE "rewait",
                        !.generation = file'.generation]
    /\ UNCHANGED <<database, gateways, proxy, request, container, mover, rollout>>

(* A deletion that moved no route is not drained, except by Recover. *)
Drains == op.kind = "replace" \/ op.mode = "recover" \/ op.moved # {}

(* waitForGeneration returns. *)
OpConfirmed ==
    /\ Active(op.generation)
    /\ \/ op.step = "wait"   /\ op' = [op EXCEPT !.step = IF Drains THEN "drain" ELSE "commit"]
       \/ op.step = "rewait" /\ op' = NoOperation
    /\ UNCHANGED <<database, file, gateways, proxy, request, container, mover, rollout>>

(* WaitAccountDrained returns: the slot Edge serves counts no request for  *)
(* the account.                                                            *)
OpDrained ==
    /\ op.step = "drain"
    /\ running[edge]
    /\ CountedFor(op.source, edge) = {}
    /\ op' = [op EXCEPT !.step = "commit", !.evacuated = TRUE]
    /\ UNCHANGED <<database, file, gateways, proxy, request, container, mover, rollout>>

(* The CPA container: a deletion removes it and goes on to remove its      *)
(* journal, a replacement puts a new one in its place.                     *)
OpCommit ==
    /\ op.step = "commit"
    /\ \/ /\ op.kind = "delete"
          /\ container' = container \ {op.source}
          /\ op' = [op EXCEPT !.step = "finish"]
       \/ /\ op.kind = "replace"
          /\ op' = [op EXCEPT !.step = "return"]
          /\ UNCHANGED container
    /\ UNCHANGED <<database, file, gateways, proxy, request, mover, rollout>>

OpFinish ==
    /\ op.step = "finish"
    /\ op' = NoOperation
    /\ UNCHANGED <<database, file, gateways, proxy, request, container, mover, rollout>>

(* Whether another writer moved a user the operation has to move back: a   *)
(* deletion insists on its fallback, restoreTo also takes the source.      *)
RouteConflict ==
    \E u \in op.moved :
        route[u] \notin IF op.kind = "delete" THEN {op.fallback} ELSE {op.fallback, op.source}

(* Deviation: the compensation leaves the snapshot as it is. *)
OpReturnUnpublished ==
    /\ op.step = "return"
    /\ container' = container \cup {op.source}
    /\ \/ /\ RouteConflict
          /\ op' = [op EXCEPT !.step = "blocked"]
          /\ UNCHANGED database
       \/ /\ ~RouteConflict
          /\ catalog' = catalog \cup {op.source}
          /\ route' = [u \in User |-> IF u \in op.moved THEN op.source ELSE route[u]]
          /\ op' = NoOperation
    /\ UNCHANGED <<file, gateways, proxy, request, mover, rollout>>

(* Deviation: the compensation does not put the container back. *)
OpReturnWithoutContainer ==
    /\ op.step = "return"
    /\ \/ /\ RouteConflict
          /\ op' = [op EXCEPT !.step = "blocked"]
          /\ UNCHANGED database
       \/ /\ ~RouteConflict
          /\ catalog' = catalog \cup {op.source}
          /\ route' = [u \in User |-> IF u \in op.moved THEN op.source ELSE route[u]]
          /\ op' = [op EXCEPT !.step = "republish"]
    /\ UNCHANGED <<file, gateways, proxy, request, container, mover, rollout>>

(* restoreTo and RestoreAccountDeletion, after Rollback of the runtime     *)
(* transition.  A conflict leaves the journal behind.                      *)
OpReturn ==
    /\ op.step = "return"
    /\ container' = container \cup {op.source}
    /\ \/ /\ RouteConflict
          /\ op' = [op EXCEPT !.step = "blocked"]
          /\ UNCHANGED database
       \/ /\ ~RouteConflict
          /\ catalog' = catalog \cup {op.source}
          /\ route' = [u \in User |-> IF u \in op.moved THEN op.source ELSE route[u]]
          /\ op' = [op EXCEPT !.step = "republish"]
    /\ UNCHANGED <<file, gateways, proxy, request, mover, rollout>>

(* Deviation: the drain has no timeout. *)
OpFailButDrain ==
    /\ op.step \notin {"none", "blocked", "drain"}
    /\ op' = IF op.mode = "forward"
             THEN [op EXCEPT !.mode = "undo", !.step = "return"]
             ELSE [op EXCEPT !.step = "blocked"]
    /\ UNCHANGED <<database, file, gateways, proxy, request, container, mover, rollout>>

(* A step fails or times out: a first failure is compensated, a failure of *)
(* the compensation or of Recover leaves the journal.                      *)
OpFail ==
    /\ op.step \notin {"none", "blocked"}
    /\ op' = IF op.mode = "forward"
             THEN [op EXCEPT !.mode = "undo", !.step = "return"]
             ELSE [op EXCEPT !.step = "blocked"]
    /\ UNCHANGED <<database, file, gateways, proxy, request, container, mover, rollout>>

(* Admin restarts and Manager.Recover starts from the journal: a committed *)
(* deletion is carried on, everything else goes back to the account row.   *)
AdminRestart ==
    /\ op.step # "none"
    /\ op' = [op EXCEPT !.mode = "recover",
                        !.step = IF op.kind = "delete" /\ op.source \notin catalog THEN "publish"
                                 ELSE IF op.kind = "delete" \/ op.evacuated THEN "rebuild"
                                 ELSE "return"]
    /\ UNCHANGED <<database, file, gateways, proxy, request, container, mover, rollout>>

(* ReconcileAccount recreates the container of an account that stays. *)
OpRebuild ==
    /\ op.step = "rebuild"
    /\ container' = container \cup {op.source}
    /\ op' = [op EXCEPT !.step = IF op.kind = "delete" THEN "republish" ELSE "return"]
    /\ UNCHANGED <<database, file, gateways, proxy, request, mover, rollout>>

-----------------------------------------------------------------------------
(***************************************************************************)
(* Another writer: applyPlan of internal/failover/service.go.  Its process *)
(* may end at any step and keeps no journal.                               *)
(***************************************************************************)

(* ApplyRoutesExpected: the target must be in the catalog. *)
Move(u, b) ==
    /\ mover.step \in {"idle", "lost"} /\ "mover" \in Actors
    /\ b \in catalog
    /\ b # route[u]
    /\ route' = [route EXCEPT ![u] = b]
    /\ mover' = [step |-> "publish", user |-> u, from |-> route[u], to |-> b, generation |-> 0]
    /\ UNCHANGED <<catalog, file, gateways, proxy, request, container, op, rollout>>

MovePublish ==
    /\ mover.step \in {"publish", "republish"}
    /\ Publish
    /\ mover' = [mover EXCEPT !.step = IF @ = "publish" THEN "wait" ELSE "rewait",
                              !.generation = file'.generation]
    /\ UNCHANGED <<database, gateways, proxy, request, container, op, rollout>>

MoveConfirmed ==
    /\ mover.step \in {"wait", "rewait"}
    /\ Active(mover.generation)
    /\ mover' = NoMove
    /\ UNCHANGED <<database, file, gateways, proxy, request, container, op, rollout>>

(* The publication fails or the Gateway does not report it in time.        *)
(* RestoreRoutesExpected puts the route back if it is still the one set    *)
(* and does not look the restored account up; a conflict ends the attempt. *)
MoveUndo ==
    /\ mover.step \in {"publish", "wait"}
    /\ \/ /\ route[mover.user] = mover.to
          /\ route' = [route EXCEPT ![mover.user] = mover.from]
          /\ mover' = [mover EXCEPT !.step = "republish"]
       \/ /\ route[mover.user] # mover.to
          /\ mover' = NoMove
          /\ UNCHANGED route
    /\ UNCHANGED <<catalog, file, gateways, proxy, request, container, op, rollout>>

(* The second publication is not confirmed, or does not happen at all. *)
MoveAbandon ==
    /\ \/ mover.step = "rewait"    /\ mover' = NoMove
       \/ mover.step = "republish" /\ mover' = [NoMove EXCEPT !.step = "lost"]
    /\ UNCHANGED <<database, file, gateways, proxy, request, container, op, rollout>>

MoverCrash ==
    /\ mover.step \notin {"idle", "lost"}
    /\ mover' = [NoMove EXCEPT !.step = "lost"]
    /\ UNCHANGED <<database, file, gateways, proxy, request, container, op, rollout>>

-----------------------------------------------------------------------------
(***************************************************************************)
(* `run.sh up-core`; the file lock of the script admits one run.           *)
(***************************************************************************)

(* The slot the rollout works on. *)
Maintained == IF rollout.step \in {"drainOld", "startOld"}
              THEN Other(rollout.target) ELSE rollout.target

(* Stopping a slot's container ends the connections it serves. *)
Cut(s) == [r \in Request |-> IF request[r].slot = s THEN IdleRequest ELSE request[r]]

(* The inactive slot is the one Edge does not report.  aligned records     *)
(* that the selection file and Edge agreed at that moment.                 *)
RolloutBegin ==
    /\ rollout.step = "none" /\ "rollout" \in Actors
    /\ rollout' = [step |-> IF running[Other(edge)] THEN "drainTarget" ELSE "startTarget",
                   target |-> Other(edge), aligned |-> selection = edge]
    /\ UNCHANGED <<database, file, gateways, proxy, request, container, op, mover>>

StartStep == IF rollout.step = "drainTarget" THEN "startTarget" ELSE "startOld"

(* wait_gateway_drain: nothing is counted; or, after the timeout, the slot *)
(* is force-stopped if Edge reports the other one; or the run gives up.    *)
RolloutDrain ==
    LET counted == {r \in Request : Counted(r, Maintained)} IN
    /\ rollout.step \in {"drainTarget", "drainOld"}
    /\ \/ /\ counted = {}
          /\ rollout' = [rollout EXCEPT !.step = StartStep]
          /\ UNCHANGED <<running, request>>
       \/ /\ counted # {}
          /\ ForceStop
          /\ edge # Maintained
          /\ running' = [running EXCEPT ![Maintained] = FALSE]
          /\ request' = Cut(Maintained)
          /\ rollout' = [rollout EXCEPT !.step = StartStep]
       \/ /\ counted # {}
          /\ rollout' = NoRollout
          /\ UNCHANGED <<running, request>>
    /\ UNCHANGED <<database, file, loaded, proxy, container, op, mover>>

(* start_gateway_service: compose recreates the container unless it is     *)
(* current; a new process loads the snapshot before it is ready.  The run  *)
(* goes on to switch slots if the active one has to be recreated too.      *)
RolloutStart ==
    /\ rollout.step \in {"startTarget", "startOld"}
    /\ \/ /\ running[Maintained]
          /\ UNCHANGED <<gateways, request>>
       \/ /\ running' = [running EXCEPT ![Maintained] = TRUE]
          /\ loaded' = [loaded EXCEPT ![Maintained] = file]
          /\ request' = Cut(Maintained)
    /\ \/ rollout.step = "startTarget" /\ rollout' = [rollout EXCEPT !.step = "switch"]
       \/ rollout' = NoRollout
    /\ UNCHANGED <<database, file, proxy, container, op, mover>>

(* Deviation: the switch is not confirmed with Edge. *)
RolloutSwitchUnconfirmed ==
    /\ rollout.step = "switch"
    /\ selection' = rollout.target
    /\ rollout' = [rollout EXCEPT !.step = "drainOld"]
    /\ UNCHANGED <<database, file, gateways, edge, request, container, op, mover>>

(* switch_gateway_slot: a file that already names the target is taken for  *)
(* a completed switch.                                                     *)
RolloutSwitch ==
    /\ rollout.step = "switch"
    /\ selection' = rollout.target
    /\ rollout' = [rollout EXCEPT !.step = IF selection = rollout.target
                                           THEN "drainOld" ELSE "waitEdge"]
    /\ UNCHANGED <<database, file, gateways, edge, request, container, op, mover>>

(* wait_edge_slot: Edge reports the expected slot, or 30 seconds pass and  *)
(* the file is put back; the rollback waits the same way.                  *)
RolloutWaitEdge ==
    LET previous == Other(rollout.target) IN
    /\ \/ /\ rollout.step = "waitEdge"
          /\ edge = rollout.target
          /\ rollout' = [rollout EXCEPT !.step = IF running[previous] THEN "drainOld"
                                                                      ELSE "startOld"]
          /\ UNCHANGED selection
       \/ /\ rollout.step = "waitEdge"
          /\ selection' = previous
          /\ rollout' = [rollout EXCEPT !.step = "rollback"]
       \/ /\ rollout.step = "rollback"
          /\ rollout' = NoRollout
          /\ UNCHANGED selection
    /\ UNCHANGED <<database, file, gateways, edge, request, container, op, mover>>

(* The script ends early. *)
RolloutInterrupted ==
    /\ rollout.step # "none"
    /\ rollout' = NoRollout
    /\ UNCHANGED <<database, file, gateways, proxy, request, container, op, mover>>

-----------------------------------------------------------------------------
(* Edge and both slots run on the initial snapshot, which Bootstrap wrote. *)
Init ==
    /\ catalog = Account
    /\ route \in [User -> Account]
    /\ file = [generation |-> 0, route |-> route]
    /\ loaded = [s \in Slot |-> file]
    /\ running = [s \in Slot |-> TRUE]
    /\ selection \in Slot
    /\ edge = selection
    /\ request = [r \in Request |-> IdleRequest]
    /\ container = Account
    /\ op = NoOperation
    /\ mover = NoMove
    /\ rollout = NoRollout

Client ==
    \E r \in Request :
        \/ \E u \in User : Arrive(r, u)
        \/ Admit(r)
        \/ Refuse(r)
        \/ Start(r)
        \/ Finish(r)

Manager ==
    \/ OpPublish \/ OpConfirmed \/ OpDrained \/ OpCommit \/ OpFinish
    \/ OpReturn \/ OpRebuild \/ OpFail

Begin == \E a, b \in Account : BeginDelete(a, b) \/ BeginReplace(a, b)

Mover ==
    \/ \E u \in User, b \in Account : Move(u, b)
    \/ MovePublish \/ MoveConfirmed \/ MoveUndo \/ MoveAbandon \/ MoverCrash

Rollout ==
    \/ RolloutBegin \/ RolloutDrain \/ RolloutStart \/ RolloutSwitch
    \/ RolloutWaitEdge \/ RolloutInterrupted

Next ==
    \/ \E s \in Slot : Load(s)
    \/ EdgeRefresh
    \/ Client
    \/ Begin
    \/ Manager
    \/ AdminRestart
    \/ Mover
    \/ Rollout

(* Both readers watch their directory, but a lost notification does no     *)
(* harm: a ticker refreshes them for as long as their process runs.        *)
GatewayReloads == \A s \in Slot : WF_vars(Load(s))
EdgeReloads == WF_vars(EdgeRefresh)

(* Besides, every wait of the manager has a timeout.  Nothing forces a     *)
(* client, the other writer or the operator of the script to take a step.  *)
Fairness == GatewayReloads /\ EdgeReloads /\ WF_vars(Manager)

Spec == Init /\ [][Next]_vars

FairSpec == Spec /\ Fairness

-----------------------------------------------------------------------------
(***************************************************************************)
(* Properties.                                                             *)
(***************************************************************************)
Snapshot == [generation : 0..MaxGeneration, route : [User -> Account \cup {None}]]

OpSteps == {"none", "publish", "wait", "drain", "commit", "finish", "return", "rebuild",
            "republish", "rewait", "blocked"}

MoverSteps == {"idle", "publish", "wait", "republish", "rewait", "lost"}

RolloutSteps == {"none", "drainTarget", "startTarget", "switch", "waitEdge", "rollback",
                 "drainOld", "startOld"}

RequestType == [at : {"idle", "edge", "admitted", "counted"}, slot : Slot \cup {None},
                user : User \cup {None}, account : Account \cup {None},
                generation : 0..MaxGeneration]

(* The values every part of the state ranges over: the rows, the snapshot  *)
(* file and its loaded copies, the containers and the three procedures.    *)
TypeOK ==
    /\ catalog \subseteq Account
    /\ route \in [User -> Account]
    /\ file \in Snapshot
    /\ loaded \in [Slot -> Snapshot]
    /\ running \in [Slot -> BOOLEAN]
    /\ selection \in Slot
    /\ edge \in Slot
    /\ request \in [Request -> RequestType]
    /\ container \subseteq Account
    /\ op \in [kind : {"none", "delete", "replace"}, mode : {"forward", "undo", "recover"},
               step : OpSteps, source : Account \cup {None}, fallback : Account \cup {None},
               moved : SUBSET User, generation : 0..MaxGeneration, evacuated : BOOLEAN]
    /\ mover \in [step : MoverSteps, user : User \cup {None}, from : Account \cup {None},
                  to : Account \cup {None}, generation : 0..MaxGeneration]
    /\ rollout \in [step : RolloutSteps, target : Slot \cup {None}, aligned : BOOLEAN]

RemovalPublished ==
    op.kind = "delete" /\ op.step \in {"wait", "drain", "commit", "finish"}

(* Once Delete (or Recover) has published the snapshot without the deleted *)
(* account, no later snapshot routes to it, no slot that has loaded that   *)
(* snapshot does, and no request was admitted to it from that snapshot or  *)
(* a newer one.  This is what makes the drain that follows finite, however *)
(* the other writer and a rollout interleave.                              *)
DeletedNotReadmitted ==
    RemovalPublished =>
        /\ \A u \in User : file.route[u] # op.source
        /\ \A s \in Slot : loaded[s].generation >= op.generation =>
               \A u \in User : loaded[s].route[u] # op.source
        /\ \A r \in Request : request[r].account = op.source =>
               request[r].generation < op.generation

(* When neither Admin nor the other writer is in the middle of a change,   *)
(* the published snapshot is the image of the two tables: no interleaving  *)
(* of two writers, of their compensations and of Admin restarts leaves the *)
(* Gateway on routes nobody is going to publish.  (A crash of the other    *)
(* writer does: it is "lost" then.)                                        *)
SettledPublished ==
    op.step = "none" /\ mover.step = "idle" => file.route = Image

(* When Admin has no operation and no journal, every account of the        *)
(* catalog has its container and no deleted account has one: neither a     *)
(* failure nor a restart at any step of a deletion separates the database  *)
(* from Docker.                                                            *)
SettledContainers ==
    op.step = "none" => container = catalog

(* A rollout that began while the selection file and Edge agreed never     *)
(* drains, stops or recreates the slot Edge sends new requests to, also    *)
(* across a failed switch and its rollback.                                *)
ServedSlotKept ==
    rollout.aligned /\ rollout.step \in {"drainTarget", "startTarget", "drainOld", "startOld"}
        => edge # Maintained

(* Every published snapshot, or a newer one, becomes the one Edge's slot   *)
(* serves from, unless that slot does not run (loader.Run keeps polling).  *)
PublicationReachesClients ==
    \A g \in 1..MaxGeneration :
        (file.generation = g) ~> (loaded[edge].generation >= g \/ ~running[edge])

(* An account operation ends, or gives up with its journal kept for the    *)
(* next start, although a client may hold its stream for ever; unless      *)
(* Admin restarts again and again.                                         *)
MaintenanceEnds ==
    \/ (op.step # "none") ~> (op.step \in {"none", "blocked"})
    \/ []<><<AdminRestart>>_vars

(* A CPA container is removed only when no request that the Gateway counts *)
(* is proxied to it (the boundary journal.go states for a deletion and its *)
(* recovery alike).                                                        *)
RemovalWaitsForRequests ==
    [][\A a \in container \ container' : \A s \in Slot : CountedFor(a, s) = {}]_vars

(* A user's route names an account of the catalog: ApplyRoutesExpected     *)
(* refuses any other target and a deletion moves the routes away.          *)
RoutesNameAccounts == \A u \in User : route[u] \in catalog
=============================================================================
