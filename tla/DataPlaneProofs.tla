--------------------------- MODULE DataPlaneProofs ---------------------------
(***************************************************************************)
(* Proofs about DataPlane for every set of accounts, users and requests,   *)
(* every bound on the publications and every choice of Actors.  They use   *)
(* that a publication happens under the file lock (Publish is one step)    *)
(* and that the generations of the publications grow; they use nothing     *)
(* about time, the drain or the fairness of the loaders.                   *)
(***************************************************************************)
EXTENDS DataPlane, TLAPS

-----------------------------------------------------------------------------
(* The members of the records the actions build. *)

OpType == [kind : {"none", "delete", "replace"}, mode : {"forward", "undo", "recover"},
           step : OpSteps, source : Account \cup {None}, fallback : Account \cup {None},
           moved : SUBSET User, generation : 0..MaxGeneration, evacuated : BOOLEAN]

MoverType == [step : MoverSteps, user : User \cup {None}, from : Account \cup {None},
              to : Account \cup {None}, generation : 0..MaxGeneration]

RolloutType == [step : RolloutSteps, target : Slot \cup {None}, aligned : BOOLEAN]

(* An operation or a route change under way names what it works on.        *)
Named ==
    /\ op.step # "none" => op.source \in Account
    /\ mover.step \notin {"idle", "lost"} =>
           mover.user \in User /\ mover.from \in Account /\ mover.to \in Account
    /\ rollout.step # "none" => rollout.target \in Slot
    /\ \A r \in Request :
           request[r].at # "idle" => request[r].slot \in Slot /\ request[r].user \in User

TypeInv == TypeOK /\ Named

(* There are exactly two slots. *)
LEMMA OtherSlot ==
    ASSUME NEW s \in Slot
    PROVE  Other(s) \in Slot /\ Other(s) # s
BY DataPlaneAssumption DEF Other

(* Bounds of the publication counter. *)
LEMMA Bounds == MaxGeneration \in Nat /\ 0 \in 0..MaxGeneration
BY DataPlaneAssumption

(* The records of actors that do nothing are well typed. *)
LEMMA IdleTypes ==
    /\ IdleRequest \in RequestType
    /\ NoOperation \in OpType
    /\ NoMove \in MoverType
    /\ NoRollout \in RolloutType
BY Bounds DEF IdleRequest, RequestType, NoOperation, OpType, OpSteps, NoMove, MoverType,
              MoverSteps, NoRollout, RolloutType, RolloutSteps

(* The snapshot that buildPayload produces is well typed and routes to     *)
(* accounts of the catalog only.                                           *)
LEMMA ImageFacts ==
    ASSUME TypeOK
    PROVE  /\ Image \in [User -> Account \cup {None}]
           /\ \A u \in User : Image[u] \in catalog \cup {None}
BY DEF TypeOK, Image

-----------------------------------------------------------------------------
(* Every action keeps the types; one lemma per actor. *)

(* Loading, and Edge's choice of the slot. *)
LEMMA GatewayTypes ==
    ASSUME TypeInv, EdgeRefresh \/ \E s \in Slot : Load(s)
    PROVE  TypeInv'
<1>1. ASSUME NEW s \in Slot, Load(s) PROVE TypeInv'
  <2>1. loaded' \in [Slot -> Snapshot]
    BY <1>1 DEF TypeInv, TypeOK, Load
  <2> QED
    BY <1>1, <2>1 DEF TypeInv, TypeOK, Named, Load, database, proxy
<1>2. CASE EdgeRefresh
  BY <1>2 DEF TypeInv, TypeOK, Named, EdgeRefresh, database, gateways
<1> QED
  BY <1>1, <1>2

(* What a client's step makes of its connection. *)
Forwarded == [at : {"edge"}, slot : Slot, user : User, account : Account \cup {None},
              generation : 0..MaxGeneration]
Proxied   == [at : {"admitted", "counted"}, slot : Slot, user : User,
              account : Account \cup {None}, generation : 0..MaxGeneration]

(* A step of one connection changes nothing else.                          *)
LEMMA OneRequest ==
    ASSUME TypeInv, Client
    PROVE  /\ UNCHANGED <<catalog, route, file, loaded, running, selection, edge, container,
                         op, mover, rollout>>
           /\ \E r \in Request, q \in {IdleRequest} \cup Forwarded \cup Proxied :
                  /\ request' = [request EXCEPT ![r] = q]
                  /\ \/ q = IdleRequest
                     \/ q.account = None
                     \/ q.account = request[r].account /\ q.generation = request[r].generation
                     \/ /\ q.account = loaded[q.slot].route[q.user]
                        /\ q.generation = loaded[q.slot].generation
<1> DEFINE From(r, q) == \/ q = IdleRequest
                         \/ q.account = None
                         \/ /\ q.account = request[r].account
                            /\ q.generation = request[r].generation
                         \/ /\ q.account = loaded[q.slot].route[q.user]
                            /\ q.generation = loaded[q.slot].generation
           Step(r, q) == request' = [request EXCEPT ![r] = q] /\ From(r, q)
           Kind == {IdleRequest} \cup Forwarded \cup Proxied
<1>1. UNCHANGED <<catalog, route, file, loaded, running, selection, edge, container, op, mover, rollout>>
  BY DEF Client, Arrive, Admit, Refuse, Start, Finish, database, gateways, proxy
<1>2. PICK r \in Request :
          (\E u \in User : Arrive(r, u)) \/ Admit(r) \/ Refuse(r) \/ Start(r) \/ Finish(r)
  BY DEF Client
<1>3. request[r] \in RequestType
  BY DEF TypeInv, TypeOK
<1>4. ASSUME NEW u \in User, Arrive(r, u) PROVE \E q \in Kind : Step(r, q)
  <2> DEFINE q == [IdleRequest EXCEPT !.at = "edge", !.slot = edge, !.user = u]
  <2>1. q \in Forwarded /\ q.account = None
    BY Bounds DEF TypeInv, TypeOK, Forwarded, IdleRequest
  <2>2. request' = [request EXCEPT ![r] = q]
    BY <1>4 DEF Arrive
  <2> HIDE DEF q
  <2> QED
    BY <2>1, <2>2
<1>5. ASSUME Admit(r) PROVE \E q \in Kind : Step(r, q)
  <2> DEFINE s == request[r].slot
             a == loaded[s].route[request[r].user]
             q == [request[r] EXCEPT !.at = "admitted", !.account = a,
                                     !.generation = loaded[s].generation]
  <2>1. s \in Slot /\ request[r].user \in User
    BY <1>5 DEF TypeInv, Named, Admit
  <2>2. loaded[s] \in Snapshot
    BY <2>1 DEF TypeInv, TypeOK
  <2>3. a \in Account \cup {None} /\ loaded[s].generation \in 0..MaxGeneration
    BY <2>1, <2>2 DEF Snapshot
  <2>4. q \in Proxied
    BY <1>3, <2>1, <2>3 DEF RequestType, Proxied
  <2>5. q.slot = s /\ q.user = request[r].user /\ q.account = a
        /\ q.generation = loaded[s].generation
    BY <1>3 DEF RequestType
  <2>6. request' = [request EXCEPT ![r] = q]
    BY <1>5 DEF Admit
  <2> HIDE DEF q
  <2>7. From(r, q)
    BY <2>5
  <2> QED
    BY <2>4, <2>6, <2>7
<1>6. ASSUME Refuse(r) \/ Finish(r) PROVE \E q \in Kind : Step(r, q)
  BY <1>6 DEF Refuse, Finish
<1>7. ASSUME Start(r) PROVE \E q \in Kind : Step(r, q)
  <2> DEFINE q == [request[r] EXCEPT !.at = "counted"]
  <2>1. request[r].slot \in Slot /\ request[r].user \in User
    BY <1>7 DEF TypeInv, Named, Start
  <2>2. q \in Proxied
    BY <1>3, <2>1 DEF RequestType, Proxied
  <2>3. q.account = request[r].account /\ q.generation = request[r].generation
    BY <1>3 DEF RequestType
  <2>4. request' = [request EXCEPT ![r] = q]
    BY <1>7 DEF Start, TypeInv, TypeOK
  <2> HIDE DEF q
  <2> QED
    BY <2>2, <2>3, <2>4
<1> QED
  BY <1>1, <1>2, <1>4, <1>5, <1>6, <1>7

(* A client's request on its way. *)
LEMMA ClientTypes ==
    ASSUME TypeInv, Client
    PROVE  TypeInv'
<1>1. UNCHANGED <<catalog, route, file, loaded, running, selection, edge, container, op, mover, rollout>>
  BY OneRequest
<1>2. PICK r \in Request, q \in {IdleRequest} \cup Forwarded \cup Proxied :
          request' = [request EXCEPT ![r] = q]
  BY OneRequest
<1>3. q \in RequestType /\ (q.at # "idle" => q.slot \in Slot /\ q.user \in User)
  BY IdleTypes DEF Forwarded, Proxied, RequestType, IdleRequest
<1>4. /\ request' \in [Request -> RequestType]
      /\ \A x \in Request : request'[x] = IF x = r THEN q ELSE request[x]
  BY <1>2, <1>3 DEF TypeInv, TypeOK
<1>5. \A x \in Request :
          request'[x].at # "idle" => request'[x].slot \in Slot /\ request'[x].user \in User
  BY <1>3, <1>4 DEF TypeInv, Named
<1> QED
  BY <1>1, <1>4, <1>5 DEF TypeInv, TypeOK, Named

(* The start of an account operation. *)
LEMMA BeginTypes ==
    ASSUME TypeInv, NEW a \in Account, NEW b \in Account,
           BeginDelete(a, b) \/ BeginReplace(a, b)
    PROVE  TypeInv'
<1>1. /\ UNCHANGED <<file, loaded, running, selection, edge, request, container, mover, rollout>>
      /\ catalog' \subseteq Account
  BY DEF TypeInv, TypeOK, BeginDelete, BeginReplace, gateways, proxy
<1>2. route' \in [User -> Account]
  BY DEF TypeInv, TypeOK, BeginDelete, BeginReplace
<1>3. RoutedTo(a) \in SUBSET User
  BY DEF RoutedTo
<1>4. op' \in OpType /\ op'.source \in Account
  BY <1>3, Bounds DEF BeginDelete, BeginReplace, NoOperation, OpType, OpSteps
<1> QED
  BY <1>1, <1>2, <1>4 DEF TypeInv, TypeOK, Named, OpType

(* The steps of the manager and the restart of Admin. *)
LEMMA ManagerTypes ==
    ASSUME TypeInv, Manager \/ AdminRestart
    PROVE  TypeInv'
<1>1. UNCHANGED <<loaded, running, selection, edge, request, mover, rollout>>
  BY DEF Manager, AdminRestart, OpPublish, OpConfirmed, OpDrained, OpCommit, OpFinish, OpReturn,
         OpRebuild, OpFail, gateways, proxy
<1>2. op \in OpType /\ (op.step # "none" => op.source \in Account)
  BY DEF TypeInv, TypeOK, Named, OpType
<1>3. ASSUME OpPublish
      PROVE  /\ UNCHANGED <<catalog, route, container>>
             /\ file' \in Snapshot
             /\ op' \in OpType /\ op'.source \in Account
  <2>1. file' \in Snapshot
    BY <1>3, ImageFacts, Bounds DEF TypeInv, TypeOK, OpPublish, Publish, Snapshot
  <2>2. file'.generation \in 0..MaxGeneration
    BY <2>1 DEF Snapshot
  <2> QED
    BY <1>2, <1>3, <2>1, <2>2 DEF OpPublish, OpType, OpSteps, database
<1>4. ASSUME OpReturn
      PROVE  /\ UNCHANGED file
             /\ catalog' \subseteq Account /\ container' \subseteq Account
             /\ route' \in [User -> Account]
             /\ op' \in OpType /\ op'.source \in Account
  <2>1. op.source \in Account
    BY <1>2, <1>4 DEF OpReturn
  <2>2. op' \in OpType /\ op'.source \in Account
    BY <1>2, <1>4, <2>1 DEF OpReturn, OpType, OpSteps
  <2>3. catalog' \subseteq Account /\ container' \subseteq Account /\ route' \in [User -> Account]
    BY <1>4, <2>1 DEF OpReturn, TypeInv, TypeOK, database
  <2> QED
    BY <1>4, <2>2, <2>3 DEF OpReturn
<1>5. ASSUME \/ OpConfirmed \/ OpDrained \/ OpCommit \/ OpFinish \/ OpRebuild \/ OpFail
             \/ AdminRestart
      PROVE  /\ UNCHANGED <<catalog, route, file>>
             /\ container' \subseteq Account
             /\ op' \in OpType /\ (op'.step # "none" => op'.source \in Account)
  <2>1. UNCHANGED <<catalog, route, file>>
    BY <1>5 DEF OpConfirmed, OpDrained, OpCommit, OpFinish, OpRebuild, OpFail, AdminRestart, database
  <2>2. container' \subseteq Account
    BY <1>2, <1>5 DEF TypeInv, TypeOK, OpConfirmed, OpDrained, OpCommit, OpFinish, OpRebuild,
                      OpFail, AdminRestart
  <2>3. op' \in OpType /\ (op'.step # "none" => op'.source \in Account)
    <3>1. CASE op' = NoOperation
      BY <3>1, IdleTypes DEF NoOperation
    <3>2. CASE OpConfirmed \/ OpDrained
      BY <1>2, <3>1, <3>2 DEF OpConfirmed, OpDrained, OpType, OpSteps
    <3>3. CASE OpCommit \/ OpRebuild
      BY <1>2, <3>3 DEF OpCommit, OpRebuild, OpType, OpSteps
    <3>4. CASE OpFail
      BY <1>2, <3>4 DEF OpFail, OpType, OpSteps
    <3>5. CASE AdminRestart
      BY <1>2, <3>5 DEF AdminRestart, OpType, OpSteps
    <3> QED
      BY <1>5, <3>1, <3>2, <3>3, <3>4, <3>5 DEF OpFinish
  <2> QED
    BY <2>1, <2>2, <2>3
<1>6. /\ catalog' \subseteq Account /\ container' \subseteq Account
      /\ route' \in [User -> Account]
      /\ file' \in Snapshot
      /\ op' \in OpType /\ (op'.step # "none" => op'.source \in Account)
  BY <1>3, <1>4, <1>5 DEF Manager, TypeInv, TypeOK
<1> QED
  BY <1>1, <1>6 DEF TypeInv, TypeOK, Named, OpType

(* The other writer of routes. *)
LEMMA MoverTypes ==
    ASSUME TypeInv, Mover
    PROVE  TypeInv'
<1> DEFINE Target == /\ mover' \in MoverType
                     /\ mover'.step \notin {"idle", "lost"} =>
                            /\ mover'.user \in User
                            /\ mover'.from \in Account /\ mover'.to \in Account
<1>1. UNCHANGED <<catalog, loaded, running, selection, edge, request, container, op, rollout>>
  BY DEF Mover, Move, MovePublish, MoveConfirmed, MoveUndo, MoveAbandon, MoverCrash, database,
         gateways, proxy
<1>2. mover \in MoverType /\ (mover.step \notin {"idle", "lost"} =>
                                 mover.user \in User /\ mover.from \in Account /\ mover.to \in Account)
  BY DEF TypeInv, TypeOK, Named, MoverType
<1>3. ASSUME NEW u \in User, NEW b \in Account, Move(u, b)
      PROVE  Target /\ route' \in [User -> Account] /\ file' \in Snapshot
  BY <1>3, Bounds DEF Move, TypeInv, TypeOK, MoverType, MoverSteps
<1>4. ASSUME MovePublish
      PROVE  Target /\ route' \in [User -> Account] /\ file' \in Snapshot
  <2>1. file' \in Snapshot
    BY <1>4, ImageFacts, Bounds DEF TypeInv, TypeOK, MovePublish, Publish, Snapshot
  <2>2. file'.generation \in 0..MaxGeneration
    BY <2>1 DEF Snapshot
  <2>3. Target
    BY <1>2, <1>4, <2>2 DEF MovePublish, MoverType, MoverSteps
  <2> QED
    BY <1>4, <2>1, <2>3 DEF MovePublish, database, TypeInv, TypeOK
<1>5. ASSUME MoveConfirmed \/ MoveAbandon \/ MoverCrash
      PROVE  Target /\ route' \in [User -> Account] /\ file' \in Snapshot
  <2>1. Target
    BY <1>5, IdleTypes DEF MoveConfirmed, MoveAbandon, MoverCrash, NoMove, MoverType, MoverSteps
  <2> QED
    BY <1>5, <2>1 DEF MoveConfirmed, MoveAbandon, MoverCrash, database, TypeInv, TypeOK
<1>6. ASSUME MoveUndo
      PROVE  Target /\ route' \in [User -> Account] /\ file' \in Snapshot
  <2>1. Target
    BY <1>2, <1>6, IdleTypes DEF MoveUndo, NoMove, MoverType, MoverSteps
  <2> QED
    BY <1>2, <1>6, <2>1 DEF MoveUndo, TypeInv, TypeOK
<1>7. Target /\ route' \in [User -> Account] /\ file' \in Snapshot
  BY <1>3, <1>4, <1>5, <1>6 DEF Mover
<1> QED
  BY <1>1, <1>7 DEF TypeInv, TypeOK, Named, MoverType

(* The blue/green rollout. *)
LEMMA RolloutTypes ==
    ASSUME TypeInv, Rollout
    PROVE  TypeInv'
<1>1. UNCHANGED <<catalog, route, file, edge, container, op, mover>>
  BY DEF Rollout, RolloutBegin, RolloutDrain, RolloutStart, RolloutSwitch, RolloutWaitEdge,
         RolloutInterrupted, database, gateways, proxy
<1>2. /\ rollout \in RolloutType /\ (rollout.step # "none" => rollout.target \in Slot)
      /\ edge \in Slot /\ selection \in Slot
  BY DEF TypeInv, TypeOK, Named, RolloutType
<1>3. rollout.step # "none" => Other(rollout.target) \in Slot /\ Maintained \in Slot
  BY <1>2, OtherSlot DEF Maintained
<1>4. rollout' \in RolloutType /\ (rollout'.step # "none" => rollout'.target \in Slot)
  <2>1. CASE RolloutBegin
    BY <1>2, <2>1, OtherSlot DEF RolloutBegin, RolloutType, RolloutSteps
  <2>2. CASE RolloutDrain
    BY <1>2, <2>2, IdleTypes DEF RolloutDrain, RolloutType, RolloutSteps, StartStep, NoRollout
  <2>3. CASE RolloutStart
    BY <1>2, <2>3, IdleTypes DEF RolloutStart, RolloutType, RolloutSteps, NoRollout
  <2>4. CASE RolloutSwitch
    BY <1>2, <2>4 DEF RolloutSwitch, RolloutType, RolloutSteps
  <2>5. CASE RolloutWaitEdge
    BY <1>2, <2>5, IdleTypes DEF RolloutWaitEdge, RolloutType, RolloutSteps, NoRollout
  <2>6. CASE RolloutInterrupted
    BY <2>6, IdleTypes DEF RolloutInterrupted, NoRollout
  <2> QED
    BY <2>1, <2>2, <2>3, <2>4, <2>5, <2>6 DEF Rollout
<1>5. selection' \in Slot
  BY <1>2, <1>3 DEF Rollout, RolloutBegin, RolloutDrain, RolloutStart, RolloutSwitch,
                    RolloutWaitEdge, RolloutInterrupted, proxy
<1>6. /\ running' \in [Slot -> BOOLEAN]
      /\ loaded' = loaded \/ loaded' = [loaded EXCEPT ![Maintained] = file]
  <2>1. CASE RolloutDrain \/ RolloutStart
    BY <2>1 DEF RolloutDrain, RolloutStart, gateways, TypeInv, TypeOK
  <2>2. CASE RolloutBegin \/ RolloutSwitch \/ RolloutWaitEdge \/ RolloutInterrupted
    BY <2>2 DEF RolloutBegin, RolloutSwitch, RolloutWaitEdge, RolloutInterrupted, gateways,
                TypeInv, TypeOK
  <2> QED
    BY <2>1, <2>2 DEF Rollout
<1>7. request' = request \/ request' = Cut(Maintained)
  BY DEF Rollout, RolloutBegin, RolloutDrain, RolloutStart, RolloutSwitch, RolloutWaitEdge,
         RolloutInterrupted
<1>8. /\ request' \in [Request -> RequestType]
      /\ \A r \in Request :
             request'[r].at # "idle" => request'[r].slot \in Slot /\ request'[r].user \in User
  BY <1>7, IdleTypes DEF Cut, TypeInv, TypeOK, Named, IdleRequest
<1>9. loaded' \in [Slot -> Snapshot]
  BY <1>6 DEF TypeInv, TypeOK
<1> QED
  BY <1>1, <1>4, <1>5, <1>6, <1>8, <1>9 DEF TypeInv, TypeOK, Named, RolloutType

(* Every part of the state keeps its type, and whatever is under way names *)
(* what it works on.                                                       *)
THEOREM TypeInductive == Spec => []TypeInv
<1>1. Init => TypeInv
  <2> SUFFICES ASSUME Init PROVE TypeInv
    OBVIOUS
  <2>1. file \in Snapshot
    BY Bounds DEF Init, Snapshot
  <2> QED
    BY <2>1, IdleTypes DEF Init, TypeInv, TypeOK, Named, NoOperation, NoMove, NoRollout, IdleRequest,
                           OpType, MoverType, RolloutType
<1>2. TypeInv /\ [Next]_vars => TypeInv'
  <2> SUFFICES ASSUME TypeInv, [Next]_vars PROVE TypeInv'
    OBVIOUS
  <2>1. CASE UNCHANGED vars
    BY <2>1 DEF vars, TypeInv, TypeOK, Named
  <2>2. CASE Next
    BY <2>2, GatewayTypes, ClientTypes, BeginTypes, ManagerTypes, MoverTypes, RolloutTypes
       DEF Next, Begin
  <2> QED
    BY <2>1, <2>2
<1> QED
  BY <1>1, <1>2, PTL DEF Spec

(* TypeOK of DataPlane, for every value of its constants.                  *)
THEOREM TypeCorrect == Spec => []TypeOK
<1>1. TypeInv => TypeOK
  BY DEF TypeInv
<1> QED
  BY <1>1, TypeInductive, PTL

-----------------------------------------------------------------------------
(***************************************************************************)
(* A deleted account is not readmitted.  The property itself is not        *)
(* inductive: a publication must be newer than everything that is loaded   *)
(* or was used to admit a request, and the account must be out of the      *)
(* catalog before it, so that whoever publishes next leaves it out too.    *)
(***************************************************************************)

(* Nothing is newer than the snapshot file. *)
Ordered ==
    /\ \A s \in Slot : loaded[s].generation <= file.generation
    /\ \A r \in Request :
           request[r].account # None => request[r].generation <= file.generation

(* The account is gone from the catalog when its deletion publishes. *)
Committed ==
    op.kind = "delete" /\ op.step \in {"publish", "wait", "drain", "commit", "finish"}
        => op.source \notin catalog

RemovalInv == TypeInv /\ Ordered /\ Committed /\ DeletedNotReadmitted

(* What a step may do to snapshots and requests. *)
FileStep == file' = file \/ Publish

LoadedStep == \A s \in Slot : loaded'[s] \in {loaded[s], file}

RequestStep ==
    \A r \in Request :
        \/ request'[r].account = None
        \/ /\ request'[r].account = request[r].account
           /\ request'[r].generation = request[r].generation
        \/ \E s \in Slot, u \in User :
               /\ request'[r].account = loaded[s].route[u]
               /\ request'[r].generation = loaded[s].generation

(* A step that publishes, loads and admits, but does not begin to claim    *)
(* that a removal is published, keeps the order and the claim.             *)
LEMMA RemovalKept ==
    ASSUME RemovalInv, TypeInv', FileStep, LoadedStep, RequestStep,
           RemovalPublished' => /\ RemovalPublished
                                /\ op'.source = op.source
                                /\ op'.generation = op.generation
    PROVE  Ordered' /\ DeletedNotReadmitted'
<1>1. /\ file.generation \in Nat /\ file'.generation \in Nat
      /\ file.generation <= file'.generation
  BY Bounds DEF RemovalInv, TypeInv, TypeOK, Snapshot, FileStep, Publish
<1>2. \A s \in Slot : loaded[s].generation \in Nat
  BY Bounds DEF RemovalInv, TypeInv, TypeOK, Snapshot
<1>3. \A r \in Request : request[r].generation \in Nat
  BY Bounds DEF RemovalInv, TypeInv, TypeOK, RequestType
<1>4. Ordered'
  BY <1>1, <1>2, <1>3 DEF RemovalInv, Ordered, LoadedStep, RequestStep
<1>5. ASSUME RemovalPublished'
      PROVE  /\ \A u \in User : file'.route[u] # op'.source
             /\ \A s \in Slot : loaded'[s].generation >= op'.generation =>
                    \A u \in User : loaded'[s].route[u] # op'.source
             /\ \A r \in Request : request'[r].account = op'.source =>
                    request'[r].generation < op'.generation
  <2>1. /\ RemovalPublished /\ op'.source = op.source /\ op'.generation = op.generation
        /\ op.source \in Account /\ op.source # None /\ op.source \notin catalog
    BY <1>5, DataPlaneAssumption DEF RemovalPublished, RemovalInv, TypeInv, Named, Committed
  <2>2. op.generation \in Nat
    BY Bounds DEF RemovalInv, TypeInv, TypeOK
  <2>3. /\ \A u \in User : file.route[u] # op.source
        /\ \A s \in Slot : loaded[s].generation >= op.generation =>
               \A u \in User : loaded[s].route[u] # op.source
        /\ \A r \in Request : request[r].account = op.source =>
               request[r].generation < op.generation
    BY <2>1 DEF RemovalInv, DeletedNotReadmitted
  <2>4. \A u \in User : Image[u] # op.source
    BY <2>1, ImageFacts DEF RemovalInv, TypeInv
  <2>5. \A u \in User : file'.route[u] # op'.source
    BY <2>1, <2>3, <2>4 DEF FileStep, Publish
  <2>6. \A s \in Slot : loaded'[s].generation >= op'.generation =>
            \A u \in User : loaded'[s].route[u] # op'.source
    BY <2>1, <2>3 DEF LoadedStep
  <2>7. \A r \in Request : request'[r].account = op'.source =>
            request'[r].generation < op'.generation
    BY <2>1, <2>2, <2>3, <1>2 DEF RequestStep
  <2> QED
    BY <2>5, <2>6, <2>7
<1> QED
  BY <1>4, <1>5 DEF DeletedNotReadmitted

(* The publication of the deletion itself. *)
LEMMA RemovalBegins ==
    ASSUME RemovalInv, TypeInv', OpPublish
    PROVE  Ordered' /\ Committed' /\ DeletedNotReadmitted'
<1>1. /\ file.generation \in Nat
      /\ file'.generation = file.generation + 1
      /\ file'.route = Image
      /\ op'.generation = file'.generation
      /\ op'.kind = op.kind /\ op'.source = op.source
      /\ op'.step = IF op.step = "publish" THEN "wait" ELSE "rewait"
      /\ UNCHANGED <<catalog, loaded, request>>
  BY DEF OpPublish, Publish, RemovalInv, TypeInv, TypeOK, Snapshot, database, gateways
<1>2. /\ \A s \in Slot : loaded[s].generation \in Nat
      /\ \A r \in Request : request[r].generation \in Nat
  BY Bounds DEF RemovalInv, TypeInv, TypeOK, Snapshot, RequestType
<1>3. Ordered'
  BY <1>1, <1>2 DEF RemovalInv, Ordered
<1>4. Committed'
  BY <1>1 DEF RemovalInv, Committed, OpPublish
<1>5. ASSUME RemovalPublished'
      PROVE  /\ \A u \in User : file'.route[u] # op'.source
             /\ \A s \in Slot : ~ (loaded'[s].generation >= op'.generation)
             /\ \A r \in Request : request'[r].account = op'.source =>
                    request'[r].generation < op'.generation
  <2>1. op.kind = "delete" /\ op.step = "publish"
    BY <1>1, <1>5 DEF RemovalPublished, OpPublish
  <2>2. op.source \notin catalog /\ op.source \in Account /\ op.source # None
    BY <2>1, DataPlaneAssumption DEF RemovalInv, Committed, TypeInv, Named
  <2>3. \A u \in User : Image[u] # op.source
    BY <2>2, ImageFacts DEF RemovalInv, TypeInv
  <2> QED
    BY <1>1, <1>2, <2>2, <2>3 DEF RemovalInv, Ordered
<1> QED
  BY <1>3, <1>4, <1>5 DEF DeletedNotReadmitted

(* The other steps of an account operation: the claim is only carried on,  *)
(* and a deletion leaves "publish" ... "finish" before its account returns *)
(* to the catalog.                                                         *)
LEMMA RemovalCarried ==
    ASSUME RemovalInv,
           \/ OpConfirmed \/ OpDrained \/ OpCommit \/ OpFinish \/ OpReturn \/ OpRebuild
           \/ OpFail \/ AdminRestart \/ Begin
    PROVE  /\ Committed'
           /\ RemovalPublished' => /\ RemovalPublished
                                   /\ op'.source = op.source
                                   /\ op'.generation = op.generation
           /\ UNCHANGED <<file, loaded, request>>
<1>1. op \in OpType
  BY DEF RemovalInv, TypeInv, TypeOK, OpType
<1>2. CASE Begin
  <2>1. PICK a \in Account, b \in Account : BeginDelete(a, b) \/ BeginReplace(a, b)
    BY <1>2 DEF Begin
  <2>2. CASE BeginDelete(a, b)
    <3>1. op'.step = "publish" /\ op'.source = a /\ catalog' = catalog \ {a}
      BY <2>2 DEF BeginDelete, NoOperation
    <3> QED
      BY <2>2, <3>1 DEF BeginDelete, Committed, RemovalPublished, gateways
  <2>3. CASE BeginReplace(a, b)
    <3>1. op'.kind = "replace"
      BY <2>3 DEF BeginReplace, NoOperation
    <3> QED
      BY <2>3, <3>1 DEF BeginReplace, Committed, RemovalPublished, gateways
  <2> QED
    BY <2>1, <2>2, <2>3
<1>3. CASE OpReturn
  <2>1. op'.step \in {"blocked", "republish"}
    BY <1>1, <1>3 DEF OpReturn, OpType
  <2> QED
    BY <1>3, <2>1 DEF OpReturn, Committed, RemovalPublished, gateways
<1>4. CASE op' = NoOperation /\ (OpConfirmed \/ OpFinish)
  BY <1>4 DEF NoOperation, Committed, RemovalPublished, OpConfirmed, OpFinish, gateways
<1>5. CASE op' # NoOperation /\ (OpConfirmed \/ OpDrained \/ OpCommit)
  <2>1. /\ op'.kind = op.kind /\ op'.source = op.source /\ op'.generation = op.generation
        /\ op.step \in {"wait", "drain", "commit"}
        /\ UNCHANGED <<catalog, file, loaded, request>>
    BY <1>1, <1>5 DEF OpConfirmed, OpDrained, OpCommit, OpType, database, gateways
  <2> QED
    BY <2>1 DEF RemovalInv, Committed, RemovalPublished
<1>6. CASE OpRebuild \/ OpFail
  <2>1. op'.step \in {"republish", "return", "blocked"} /\ UNCHANGED <<file, loaded, request>>
    BY <1>1, <1>6 DEF OpRebuild, OpFail, OpType, gateways
  <2> QED
    BY <2>1 DEF Committed, RemovalPublished
<1>7. CASE AdminRestart
  <2>1. /\ op'.kind = op.kind /\ op'.source = op.source
        /\ op'.step \in {"publish", "rebuild", "return"}
        /\ op'.step = "publish" => op.source \notin catalog
        /\ UNCHANGED <<catalog, file, loaded, request>>
    BY <1>1, <1>7 DEF AdminRestart, OpType, database, gateways
  <2> QED
    BY <2>1 DEF Committed, RemovalPublished
<1>8. OpDrained \/ OpCommit => op' # NoOperation
  <2>1. OpDrained \/ OpCommit => op'.step \in {"commit", "finish", "return"}
    BY <1>1 DEF OpDrained, OpCommit, OpType
  <2> QED
    BY <2>1 DEF NoOperation
<1> QED
  BY <1>2, <1>3, <1>4, <1>5, <1>6, <1>7, <1>8 DEF OpFinish

(* RemovalInv is inductive. *)
LEMMA RemovalStep ==
    ASSUME RemovalInv, Next, TypeInv'
    PROVE  RemovalInv'
<1>1. /\ \A s \in Slot : loaded[s] \in Snapshot
      /\ \A r \in Request : request[r] \in RequestType
  BY DEF RemovalInv, TypeInv, TypeOK
<1>2. SUFFICES Ordered' /\ Committed' /\ DeletedNotReadmitted'
  BY DEF RemovalInv
<1>3. ASSUME UNCHANGED <<catalog, op>>, FileStep, LoadedStep, RequestStep
      PROVE  Ordered' /\ Committed' /\ DeletedNotReadmitted'
  <2>1. Committed'
    BY <1>3 DEF RemovalInv, Committed
  <2>2. RemovalPublished' => RemovalPublished
    BY <1>3 DEF RemovalPublished
  <2> QED
    BY <1>3, <2>1, <2>2, RemovalKept
<1>4. ASSUME UNCHANGED request PROVE RequestStep
  BY <1>4 DEF RequestStep
<1>5. ASSUME UNCHANGED loaded PROVE LoadedStep
  BY <1>5 DEF LoadedStep
<1>6. CASE \E s \in Slot : Load(s)
  <2>1. LoadedStep /\ UNCHANGED <<catalog, op, file, request>>
    BY <1>6 DEF Load, LoadedStep, RemovalInv, TypeInv, TypeOK, database
  <2> QED
    BY <1>3, <1>4, <2>1 DEF FileStep
<1>7. CASE EdgeRefresh
  BY <1>3, <1>4, <1>5, <1>7 DEF EdgeRefresh, FileStep, database, gateways
<1>8. CASE Client
  <2>1. PICK r \in Request, q \in {IdleRequest} \cup Forwarded \cup Proxied :
            /\ request' = [request EXCEPT ![r] = q]
            /\ \/ q = IdleRequest
               \/ q.account = None
               \/ q.account = request[r].account /\ q.generation = request[r].generation
               \/ /\ q.account = loaded[q.slot].route[q.user]
                  /\ q.generation = loaded[q.slot].generation
    BY <1>8, OneRequest DEF RemovalInv
  <2>2. \A x \in Request : request'[x] = IF x = r THEN q ELSE request[x]
    BY <2>1 DEF RemovalInv, TypeInv, TypeOK
  <2>3. \/ q.account = None
        \/ q.account = request[r].account /\ q.generation = request[r].generation
        \/ \E s \in Slot, u \in User :
               q.account = loaded[s].route[u] /\ q.generation = loaded[s].generation
    <3>1. q \in Forwarded \cup Proxied => q.slot \in Slot /\ q.user \in User
      BY DEF Forwarded, Proxied
    <3>2. q = IdleRequest => q.account = None
      BY DEF IdleRequest
    <3> QED
      BY <2>1, <3>1, <3>2
  <2>4. RequestStep
    BY <2>2, <2>3 DEF RequestStep
  <2>5. UNCHANGED <<catalog, op, file, loaded>>
    BY <1>8, OneRequest DEF RemovalInv
  <2> QED
    BY <1>3, <1>5, <2>4, <2>5 DEF FileStep
<1>9. CASE OpPublish
  BY <1>9, RemovalBegins
<1>10. CASE \/ OpConfirmed \/ OpDrained \/ OpCommit \/ OpFinish \/ OpReturn \/ OpRebuild
            \/ OpFail \/ AdminRestart \/ Begin
  BY <1>4, <1>5, <1>10, RemovalCarried, RemovalKept DEF FileStep
<1>11. CASE Mover
  <2>1. UNCHANGED <<catalog, op, loaded, request>> /\ FileStep
    BY <1>11 DEF Mover, Move, MovePublish, MoveConfirmed, MoveUndo, MoveAbandon, MoverCrash,
                 database, gateways, FileStep
  <2> QED
    BY <1>3, <1>4, <1>5, <2>1
<1>12. CASE Rollout
  <2>1. UNCHANGED <<catalog, op, file>>
    BY <1>12 DEF Rollout, RolloutBegin, RolloutDrain, RolloutStart, RolloutSwitch,
                 RolloutWaitEdge, RolloutInterrupted, database
  <2>2. loaded' = loaded \/ loaded' = [loaded EXCEPT ![Maintained] = file]
    BY <1>12 DEF Rollout, RolloutBegin, RolloutDrain, RolloutStart, RolloutSwitch,
                 RolloutWaitEdge, RolloutInterrupted, gateways
  <2>3. request' = request \/ request' = Cut(Maintained)
    BY <1>12 DEF Rollout, RolloutBegin, RolloutDrain, RolloutStart, RolloutSwitch,
                 RolloutWaitEdge, RolloutInterrupted
  <2>4. LoadedStep
    BY <2>2 DEF LoadedStep, RemovalInv, TypeInv, TypeOK
  <2>5. RequestStep
    BY <2>3 DEF RequestStep, Cut, IdleRequest
  <2> QED
    BY <1>3, <2>1, <2>4, <2>5 DEF FileStep
<1> QED
  BY <1>6, <1>7, <1>8, <1>9, <1>10, <1>11, <1>12 DEF Next, Manager

(* RemovalInv holds in every reachable state. *)
THEOREM RemovalInductive == Spec => []RemovalInv
<1>1. Init => Ordered /\ Committed /\ DeletedNotReadmitted
  BY DEF Init, Ordered, Committed, DeletedNotReadmitted, RemovalPublished, NoOperation, IdleRequest
<1>2. RemovalInv /\ TypeInv' /\ [Next]_vars => RemovalInv'
  <2>1. ASSUME RemovalInv, UNCHANGED vars PROVE RemovalInv'
    BY <2>1 DEF vars, RemovalInv, TypeInv, TypeOK, Named, Ordered, Committed,
                DeletedNotReadmitted, RemovalPublished
  <2> QED
    BY <2>1, RemovalStep
<1> QED
  BY <1>1, <1>2, TypeInductive, PTL DEF Spec, RemovalInv

(* Once the snapshot without a deleted account is published, no snapshot,  *)
(* no slot that has loaded it and no request admitted from it names the    *)
(* account again (Manager.Delete, journal.go Recover), whatever reloads,   *)
(* publications of other writers and rollouts come in between.             *)
THEOREM NotReadmitted == Spec => []DeletedNotReadmitted
<1>1. RemovalInv => DeletedNotReadmitted
  BY DEF RemovalInv
<1> QED
  BY <1>1, RemovalInductive, PTL

-----------------------------------------------------------------------------
(***************************************************************************)
(* Database and containers.  While an operation is under way the two may   *)
(* disagree about its account only, and each step knows what it relies on: *)
(* the steps after which the operation ends know that they agree.          *)
(***************************************************************************)
ContainersKnown ==
    /\ op.step = "none" => container = catalog
    /\ op.step # "none" => container \cup {op.source} = catalog \cup {op.source}
    /\ op.kind = "delete" /\ op.step \in {"publish", "wait", "drain", "commit", "finish"} =>
           op.source \notin catalog
    /\ op.step = "finish" => container = catalog
    /\ op.step = "rebuild" => op.source \in catalog
    /\ op.step \in {"republish", "rewait"} => op.source \in catalog /\ container = catalog
    /\ op.kind = "replace" => op.source \in catalog
    /\ op.step # "none" => op.kind \in {"delete", "replace"}

ContainerInv == TypeInv /\ ContainersKnown

(* No actor but Admin touches the accounts, their containers and op.       *)
LEMMA OnlyAdmin ==
    ASSUME TypeInv, Next, ~ (Begin \/ Manager \/ AdminRestart)
    PROVE  UNCHANGED <<catalog, container, op>>
<1>1. CASE Client
  BY <1>1, OneRequest
<1>2. CASE EdgeRefresh \/ \E s \in Slot : Load(s)
  BY <1>2 DEF EdgeRefresh, Load, database
<1>3. CASE Mover
  BY <1>3 DEF Mover, Move, MovePublish, MoveConfirmed, MoveUndo, MoveAbandon, MoverCrash, database
<1>4. CASE Rollout
  BY <1>4 DEF Rollout, RolloutBegin, RolloutDrain, RolloutStart, RolloutSwitch, RolloutWaitEdge,
              RolloutInterrupted, database
<1> QED
  BY <1>1, <1>2, <1>3, <1>4 DEF Next

(* One operation step keeps what is known about the containers.            *)
LEMMA ContainerStep ==
    ASSUME ContainerInv, Begin \/ Manager \/ AdminRestart
    PROVE  ContainersKnown'
<1>1. op \in OpType /\ ContainersKnown /\ catalog \subseteq Account
  BY DEF ContainerInv, TypeInv, TypeOK, OpType
<1>2. ASSUME NEW a \in Account, NEW b \in Account, BeginDelete(a, b)
      PROVE  ContainersKnown'
  <2>1. /\ op'.kind = "delete" /\ op'.step = "publish" /\ op'.source = a
        /\ catalog' = catalog \ {a} /\ container' = container /\ container = catalog
        /\ a \in catalog
    BY <1>1, <1>2 DEF BeginDelete, NoOperation, ContainersKnown
  <2> QED
    BY <2>1 DEF ContainersKnown
<1>3. ASSUME NEW a \in Account, NEW b \in Account, BeginReplace(a, b)
      PROVE  ContainersKnown'
  <2>1. /\ op'.kind = "replace" /\ op'.step \in {"publish", "commit"} /\ op'.source = a
        /\ UNCHANGED <<catalog, container>> /\ container = catalog
        /\ a \in catalog
    BY <1>1, <1>3 DEF BeginReplace, NoOperation, ContainersKnown
  <2> QED
    BY <2>1 DEF ContainersKnown
<1>4. CASE OpPublish
  <2>1. /\ op'.kind = op.kind /\ op'.source = op.source
        /\ \/ op.step = "publish" /\ op'.step = "wait"
           \/ op.step = "republish" /\ op'.step = "rewait"
        /\ UNCHANGED <<catalog, container>>
    BY <1>1, <1>4 DEF OpPublish, OpType, database
  <2> QED
    BY <1>1, <2>1 DEF ContainersKnown
<1>5. CASE OpConfirmed \/ OpDrained
  <2>1. /\ \/ op'.kind = op.kind /\ op'.source = op.source /\ op.step \in {"wait", "drain"}
              /\ op'.step \in {"drain", "commit"}
           \/ op.step = "rewait" /\ op' = NoOperation
        /\ UNCHANGED <<catalog, container>>
    BY <1>1, <1>5 DEF OpConfirmed, OpDrained, OpType, database
  <2> QED
    BY <1>1, <2>1 DEF ContainersKnown, NoOperation
<1>6. CASE OpCommit
  <2>1. CASE op.kind = "delete"
    <3>1. /\ op'.kind = "delete" /\ op'.source = op.source /\ op'.step = "finish"
          /\ catalog' = catalog /\ container' = container \ {op.source}
          /\ op.step = "commit"
      BY <1>1, <1>6, <2>1 DEF OpCommit, OpType, database
    <3> QED
      BY <1>1, <2>1, <3>1 DEF ContainersKnown
  <2>2. CASE op.kind = "replace"
    <3>1. /\ op'.kind = "replace" /\ op'.source = op.source /\ op'.step = "return"
          /\ UNCHANGED <<catalog, container>> /\ op.step = "commit"
      BY <1>1, <1>6, <2>2 DEF OpCommit, OpType, database
    <3> QED
      BY <1>1, <2>2, <3>1 DEF ContainersKnown
  <2> QED
    BY <1>6, <2>1, <2>2 DEF OpCommit
<1>7. CASE OpFinish
  BY <1>1, <1>7 DEF OpFinish, NoOperation, ContainersKnown, database
<1>8. CASE OpReturn
  <2>1. /\ op'.kind = op.kind /\ op'.source = op.source /\ op.step = "return"
        /\ container' = container \cup {op.source}
        /\ \/ op'.step = "blocked" /\ catalog' = catalog
           \/ op'.step = "republish" /\ catalog' = catalog \cup {op.source}
    BY <1>1, <1>8 DEF OpReturn, OpType, database
  <2> QED
    BY <1>1, <2>1 DEF ContainersKnown
<1>9. CASE OpRebuild
  <2>1. /\ op'.kind = op.kind /\ op'.source = op.source /\ op.step = "rebuild"
        /\ op'.step \in {"republish", "return"}
        /\ container' = container \cup {op.source} /\ catalog' = catalog
    BY <1>1, <1>9 DEF OpRebuild, OpType, database
  <2> QED
    BY <1>1, <2>1 DEF ContainersKnown
<1>10. CASE OpFail \/ AdminRestart
  <2>1. /\ op'.kind = op.kind /\ op'.source = op.source /\ op.step # "none"
        /\ op'.step \in {"return", "blocked", "publish", "rebuild"}
        /\ op'.step = "publish" => op.kind = "delete" /\ op.source \notin catalog
        /\ op'.step = "rebuild" => op.kind = "replace" \/ op.source \in catalog
        /\ UNCHANGED <<catalog, container>>
    BY <1>1, <1>10 DEF OpFail, AdminRestart, OpType, ContainersKnown, database
  <2> QED
    BY <1>1, <2>1 DEF ContainersKnown
<1> QED
  BY <1>2, <1>3, <1>4, <1>5, <1>6, <1>7, <1>8, <1>9, <1>10 DEF Begin, Manager

(* When Admin has neither an operation nor a journal, the containers are   *)
(* those of the catalog (Manager.Delete, Update, rollback and Recover).    *)
THEOREM ContainersSettle == Spec => []SettledContainers
<1>1. Init => ContainersKnown
  BY DEF Init, ContainersKnown, NoOperation
<1>2. TypeInv /\ ContainersKnown /\ [Next]_vars => ContainersKnown'
  <2>1. ASSUME ContainersKnown, UNCHANGED <<catalog, container, op>> PROVE ContainersKnown'
    BY <2>1 DEF ContainersKnown
  <2> QED
    BY <2>1, OnlyAdmin, ContainerStep DEF ContainerInv, vars
<1>3. ContainersKnown => SettledContainers
  BY DEF ContainersKnown, SettledContainers
<1> QED
  BY <1>1, <1>2, <1>3, TypeInductive, PTL DEF Spec

-----------------------------------------------------------------------------
(***************************************************************************)
(* The published snapshot is the image of the tables, or somebody is going *)
(* to publish.  A writer that finds its own route changed (MoveUndo) gives *)
(* up without publishing: that is safe because only an account operation   *)
(* can have changed it, and that operation still has to publish or already *)
(* has.                                                                    *)
(***************************************************************************)
OpPublishes == op.step \in {"publish", "return", "rebuild", "republish", "blocked"}

MoverPublishes ==
    \/ mover.step = "lost"
    \/ mover.step = "republish"
    \/ mover.step = "publish" /\ route[mover.user] = mover.to

PublicationDue == file.route = Image \/ OpPublishes \/ MoverPublishes

(* Loads, clients, Edge and the rollout change neither tables nor writers. *)
LEMMA OnlyWriters ==
    ASSUME TypeInv, Next, ~ (Begin \/ Manager \/ AdminRestart \/ Mover)
    PROVE  UNCHANGED <<catalog, route, file, op, mover>>
<1>1. CASE Client
  BY <1>1, OneRequest
<1>2. CASE EdgeRefresh \/ \E s \in Slot : Load(s)
  BY <1>2 DEF EdgeRefresh, Load, database
<1>3. CASE Rollout
  BY <1>3 DEF Rollout, RolloutBegin, RolloutDrain, RolloutStart, RolloutSwitch, RolloutWaitEdge,
              RolloutInterrupted, database
<1> QED
  BY <1>1, <1>2, <1>3 DEF Next

(* An operation that changes a table still has to publish. *)
LEMMA OperationDue ==
    ASSUME TypeInv, PublicationDue, Begin \/ Manager \/ AdminRestart
    PROVE  PublicationDue'
<1>1. op \in OpType /\ mover \in MoverType /\ route \in [User -> Account]
  BY DEF TypeInv, TypeOK, OpType, MoverType
<1>2. ASSUME UNCHANGED <<catalog, route, file, mover>>, OpPublishes => OpPublishes'
      PROVE  PublicationDue'
  BY <1>2 DEF PublicationDue, MoverPublishes, Image
<1>3. ASSUME NEW a \in Account, NEW b \in Account, BeginDelete(a, b)
      PROVE  PublicationDue'
  <2>1. op'.step = "publish"
    BY <1>3 DEF BeginDelete, NoOperation
  <2> QED
    BY <2>1 DEF PublicationDue, OpPublishes
<1>4. ASSUME NEW a \in Account, NEW b \in Account, BeginReplace(a, b)
      PROVE  PublicationDue'
  <2>1. CASE RoutedTo(a) = {}
    <3>1. route' = route
      BY <1>1, <1>4, <2>1 DEF BeginReplace, RoutedTo
    <3>2. UNCHANGED <<catalog, file, mover>> /\ ~ OpPublishes
      BY <1>4 DEF BeginReplace, OpPublishes
    <3> QED
      BY <1>2, <3>1, <3>2
  <2>2. CASE RoutedTo(a) # {}
    <3>1. op'.step = "publish"
      BY <1>4, <2>2 DEF BeginReplace, NoOperation
    <3> QED
      BY <3>1 DEF PublicationDue, OpPublishes
  <2> QED
    BY <2>1, <2>2
<1>5. CASE OpPublish
  <2>1. file'.route = Image /\ UNCHANGED <<catalog, route>>
    BY <1>5 DEF OpPublish, Publish, database, TypeInv, TypeOK, Snapshot
  <2> QED
    BY <2>1 DEF PublicationDue, Image
<1>6. CASE OpConfirmed \/ OpDrained \/ OpCommit \/ OpFinish
  <2>1. UNCHANGED <<catalog, route, file, mover>> /\ ~ OpPublishes
    BY <1>6 DEF OpConfirmed, OpDrained, OpCommit, OpFinish, OpPublishes, database
  <2> QED
    BY <1>2, <2>1
<1>7. CASE OpReturn
  <2>1. op'.step \in {"blocked", "republish"}
    BY <1>1, <1>7 DEF OpReturn, OpType
  <2> QED
    BY <2>1 DEF PublicationDue, OpPublishes
<1>8. CASE OpRebuild \/ OpFail \/ AdminRestart
  <2>1. op'.step \in {"return", "republish", "blocked", "publish", "rebuild"}
    BY <1>1, <1>8 DEF OpRebuild, OpFail, AdminRestart, OpType
  <2> QED
    BY <2>1 DEF PublicationDue, OpPublishes
<1> QED
  BY <1>3, <1>4, <1>5, <1>6, <1>7, <1>8 DEF Begin, Manager

(* A route change publishes, is rolled back with a publication, or is lost. *)
LEMMA MoveDue ==
    ASSUME TypeInv, PublicationDue, Mover
    PROVE  PublicationDue'
<1>1. route \in [User -> Account] /\ mover \in MoverType
  BY DEF TypeInv, TypeOK, MoverType
<1>2. ASSUME NEW u \in User, NEW b \in Account, Move(u, b)
      PROVE  PublicationDue'
  <2>1. mover'.step = "publish" /\ route'[mover'.user] = mover'.to
    BY <1>1, <1>2 DEF Move
  <2> QED
    BY <2>1 DEF PublicationDue, MoverPublishes
<1>3. CASE MovePublish
  <2>1. file'.route = Image /\ UNCHANGED <<catalog, route>>
    BY <1>3 DEF MovePublish, Publish, database, TypeInv, TypeOK, Snapshot
  <2> QED
    BY <2>1 DEF PublicationDue, Image
<1>4. CASE MoveConfirmed
  <2>1. UNCHANGED <<catalog, route, file, op>> /\ ~ MoverPublishes
    BY <1>4 DEF MoveConfirmed, MoverPublishes, database
  <2> QED
    BY <2>1 DEF PublicationDue, OpPublishes, Image
<1>5. CASE MoveUndo
  <2>1. CASE route[mover.user] = mover.to
    <3>1. mover'.step = "republish"
      BY <1>1, <1>5, <2>1 DEF MoveUndo, MoverType
    <3> QED
      BY <3>1 DEF PublicationDue, MoverPublishes
  <2>2. CASE route[mover.user] # mover.to
    <3>1. UNCHANGED <<catalog, route, file, op>> /\ ~ MoverPublishes
      BY <1>5, <2>2 DEF MoveUndo, MoverPublishes
    <3> QED
      BY <3>1 DEF PublicationDue, OpPublishes, Image
  <2> QED
    BY <2>1, <2>2
<1>6. CASE MoveAbandon
  <2>1. CASE mover.step = "rewait"
    <3>1. UNCHANGED <<catalog, route, file, op>> /\ ~ MoverPublishes
      BY <1>6, <2>1 DEF MoveAbandon, MoverPublishes, database
    <3> QED
      BY <3>1 DEF PublicationDue, OpPublishes, Image
  <2>2. CASE mover.step = "republish"
    <3>1. mover'.step = "lost"
      BY <1>6, <2>2 DEF MoveAbandon, NoMove
    <3> QED
      BY <3>1 DEF PublicationDue, MoverPublishes
  <2> QED
    BY <1>6, <2>1, <2>2 DEF MoveAbandon
<1>7. CASE MoverCrash
  <2>1. mover'.step = "lost"
    BY <1>7 DEF MoverCrash, NoMove
  <2> QED
    BY <2>1 DEF PublicationDue, MoverPublishes
<1> QED
  BY <1>2, <1>3, <1>4, <1>5, <1>6, <1>7 DEF Mover

(* When nobody is in the middle of a change, the Gateway is given the      *)
(* routes of the database (PublishAuthSnapshot after every change and      *)
(* after every compensation).                                              *)
THEOREM PublicationSettles == Spec => []SettledPublished
<1>1. Init => PublicationDue
  BY DEF Init, PublicationDue, Image
<1>2. TypeInv /\ PublicationDue /\ [Next]_vars => PublicationDue'
  <2>1. ASSUME PublicationDue, UNCHANGED <<catalog, route, file, op, mover>>
        PROVE  PublicationDue'
    BY <2>1 DEF PublicationDue, OpPublishes, MoverPublishes, Image
  <2> QED
    BY <2>1, OnlyWriters, OperationDue, MoveDue DEF vars
<1>3. PublicationDue => SettledPublished
  BY DEF PublicationDue, OpPublishes, MoverPublishes, SettledPublished
<1> QED
  BY <1>1, <1>2, <1>3, TypeInductive, PTL DEF Spec

-----------------------------------------------------------------------------
(***************************************************************************)
(* The rollout.  What the script knows of Edge at each of its steps when   *)
(* it began with the selection file and Edge in agreement.                 *)
(***************************************************************************)
SlotKnown ==
    rollout.aligned =>
        /\ rollout.step \in {"drainTarget", "startTarget", "switch"} =>
               selection = edge /\ edge # rollout.target
        /\ rollout.step = "waitEdge" => selection = rollout.target
        /\ rollout.step \in {"drainOld", "startOld"} =>
               selection = rollout.target /\ edge = rollout.target

(* The slot in service is kept by an aligned rollout (switch_gateway_slot, *)
(* wait_edge_slot): the switch is confirmed before the old slot is touched. *)
THEOREM SlotKept == Spec => []ServedSlotKept
<1>1. Init => SlotKnown
  BY DEF Init, SlotKnown, NoRollout
<1>2. TypeInv /\ SlotKnown /\ [Next]_vars => SlotKnown'
  <2> SUFFICES ASSUME TypeInv, SlotKnown, [Next]_vars PROVE SlotKnown'
    OBVIOUS
  <2>1. ASSUME UNCHANGED <<selection, edge, rollout>> PROVE SlotKnown'
    BY <2>1 DEF SlotKnown
  <2>2. CASE UNCHANGED vars \/ Client
    BY <2>1, <2>2, OneRequest DEF vars
  <2>3. CASE Begin \/ Manager \/ AdminRestart \/ Mover \/ \E s \in Slot : Load(s)
    <3>1. UNCHANGED <<selection, edge, rollout>>
      BY <2>3 DEF Begin, BeginDelete, BeginReplace, Manager, AdminRestart, OpPublish, OpConfirmed,
                  OpDrained, OpCommit, OpFinish, OpReturn, OpRebuild, OpFail, Mover, Move,
                  MovePublish, MoveConfirmed, MoveUndo, MoveAbandon, MoverCrash, Load, proxy
    <3> QED
      BY <2>1, <3>1
  <2>4. CASE EdgeRefresh
    BY <2>4 DEF EdgeRefresh, SlotKnown
  <2>5. CASE Rollout
    <3>1. edge' = edge /\ rollout \in RolloutType
      BY <2>5 DEF Rollout, RolloutBegin, RolloutDrain, RolloutStart, RolloutSwitch, RolloutWaitEdge,
                  RolloutInterrupted, proxy, TypeInv, TypeOK, RolloutType
    <3>2. CASE rollout' = NoRollout
      BY <3>2 DEF NoRollout, SlotKnown
    <3>3. CASE RolloutBegin
      <4>1. Other(edge) # edge
        BY OtherSlot DEF TypeInv, TypeOK
      <4> QED
        BY <2>5, <3>3, <4>1 DEF RolloutBegin, SlotKnown, proxy
    <3>4. CASE rollout' # NoRollout /\ (RolloutDrain \/ RolloutStart)
      <4>1. /\ UNCHANGED <<selection, edge>>
            /\ rollout'.target = rollout.target /\ rollout'.aligned = rollout.aligned
            /\ \/ /\ rollout.step \in {"drainTarget", "startTarget"}
                  /\ rollout'.step \in {"startTarget", "switch"}
               \/ rollout.step = "drainOld" /\ rollout'.step = "startOld"
        BY <3>1, <3>4 DEF RolloutDrain, RolloutStart, StartStep, proxy, RolloutType
      <4> QED
        BY <4>1 DEF SlotKnown
    <3>5. CASE RolloutSwitch
      <4>1. /\ rollout.step = "switch" /\ selection' = rollout.target
            /\ rollout'.target = rollout.target /\ rollout'.aligned = rollout.aligned
            /\ rollout'.step = IF selection = rollout.target THEN "drainOld" ELSE "waitEdge"
        BY <3>1, <3>5 DEF RolloutSwitch, RolloutType
      <4> QED
        BY <3>1, <4>1 DEF SlotKnown
    <3>6. CASE rollout' # NoRollout /\ RolloutWaitEdge
      <4>1. /\ rollout.step = "waitEdge"
            /\ rollout'.target = rollout.target /\ rollout'.aligned = rollout.aligned
            /\ \/ /\ rollout'.step \in {"drainOld", "startOld"}
                  /\ edge = rollout.target /\ selection' = selection
               \/ rollout'.step = "rollback"
        BY <3>1, <3>6 DEF RolloutWaitEdge, RolloutType
      <4> QED
        BY <3>1, <4>1 DEF SlotKnown
    <3> QED
      BY <2>5, <3>2, <3>3, <3>4, <3>5, <3>6 DEF Rollout, RolloutInterrupted
  <2> QED
    BY <2>2, <2>3, <2>4, <2>5 DEF Next
<1>3. TypeInv /\ SlotKnown => ServedSlotKept
  <2> SUFFICES ASSUME TypeInv, SlotKnown PROVE ServedSlotKept
    OBVIOUS
  <2>1. rollout.step # "none" => rollout.target \in Slot /\ Other(rollout.target) # rollout.target
    BY OtherSlot DEF TypeInv, Named
  <2> QED
    BY <2>1 DEF SlotKnown, ServedSlotKept, Maintained
<1> QED
  BY <1>1, <1>2, <1>3, TypeInductive, PTL DEF Spec
=============================================================================
