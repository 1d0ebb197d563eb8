-------------------------- MODULE AccountSagaProofs --------------------------
(***************************************************************************)
(* The inductive invariant of AccountSaga and the proof that the steps of  *)
(* an operation keep it, for every set of accounts and users and every     *)
(* bound; AccountRecoveryProofs has the compensation, the recovery and     *)
(* what follows from it.                                                   *)
(*                                                                         *)
(* SagaInv says of every point at which a step may fail and at which Admin *)
(* may die what compensation and recovery will find.  Its parts: what the  *)
(* variables contain and which steps are done (SagaBase); the rows of the  *)
(* accounts, the routes and the snapshot (Records); files, secrets and     *)
(* containers, in three layers (Facets): what recovery will find whatever  *)
(* happened (CreateKept ...), what the operation has done or its           *)
(* compensation undone (CreateSteps ...), and what a recovery has done     *)
(* (RecoverySteps).                                                        *)
(***************************************************************************)
EXTENDS AccountSaga, TLAPS

Established == {a \in AccountId : \E c \in AccountId : c > a}
Directory == {NoDir} \cup [of : Int, is : {"empty", "partial", "whole"}]
Account == [born : Int, proxy : {"inherit", "custom"}, enabled : BOOLEAN]

Touched == {journal.id, journal.new}
Busy == saga.mode \in {"forward", "back"}
Ahead == saga.mode = "forward"
Behind == saga.mode = "back"
Underway == journal # NoOperation
Calm == Evacuee \ past.strayed
Did(step) == step \in saga.did
Due(step) == step \in saga.todo
Moving == journal.kind \in {"update", "clear"}

WorldTypes ==
    /\ row \in [AccountId -> Account]
    /\ secret \in [AccountId -> Int]
    /\ userRoute \in [Evacuee -> AccountId] /\ homeOf \in [Evacuee -> Int]
    /\ oauthDir \in [AccountId -> Directory] /\ configFile \in [AccountId -> BOOLEAN]
    /\ container \in [AccountId -> {"none", "running", "stopped"}]
    /\ backup \in Directory /\ archived \subseteq Int
    /\ published \in [route : [Evacuee -> AccountId], account : [AccountId -> Account]]

PastShape ==
    past = [ops |-> past.ops, faults |-> past.faults, crashes |-> past.crashes,
            moves |-> past.moves, strayed |-> past.strayed, oauth |-> past.oauth,
            cut |-> past.cut]
PastTypes ==
    /\ PastShape
    /\ past.ops \in Nat /\ past.faults \in Nat /\ past.crashes \in Nat /\ past.moves \in Nat
    /\ past.strayed \subseteq Evacuee /\ past.oauth \subseteq Established
    /\ past.cut \subseteq Int

OpShape(op) ==
    op = [kind |-> op.kind, id |-> op.id, new |-> op.new, phase |-> op.phase,
          moved |-> op.moved, to |-> op.to]

OperationKnown ==
    /\ OpShape(journal)
    /\ journal.moved \subseteq Evacuee
    /\ ~Underway => saga.mode = "idle" /\ backup = NoDir
    /\ Underway =>
       /\ journal.kind \in {"create", "update", "delete", "clear", "policy"}
       /\ journal.id \in AccountId
       /\ IF journal.kind = "update" THEN journal.new \in AccountId ELSE journal.new = 0
       /\ journal.phase \in {"accepted", "routes_prepared", "begun"}
       /\ journal.phase = "routes_prepared" => Moving
       /\ journal.kind = "policy" => journal.phase = "accepted"
       /\ ~Moving \/ journal.phase = "accepted" => journal.moved = {}
       /\ journal.moved # {} => journal.to # 0
       /\ journal.to # 0 => /\ journal.to \in AccountId \ Touched
                            /\ Exists(journal.to) /\ row[journal.to].enabled

SagaShape ==
    saga = [mode |-> saga.mode, todo |-> saga.todo, did |-> saga.did, op |-> saga.op,
            ask |-> saga.ask, old |-> saga.old, dirty |-> saga.dirty]

ForwardKnown ==
    Ahead =>
        /\ saga.todo \subseteq Plan(journal) /\ saga.did = Plan(journal) \ saga.todo
        /\ ~saga.dirty
        /\ \A s \in saga.todo, t \in Plan(journal) : Forward[s] <= Forward[t] => t \in saga.todo
BackKnown ==
    Behind =>
        /\ saga.did \subseteq Plan(journal) \cup {"unusable"}
        /\ \A s \in saga.did \ {"unusable"}, t \in Plan(journal) :
              Forward[t] <= Forward[s] => t \in saga.did
        /\ saga.todo \subseteq Undo(journal.kind, saga.did)
        /\ saga.dirty => "files" \notin saga.todo
        /\ ~saga.dirty =>
              /\ "unusable" \notin saga.did
              /\ \A s \in saga.todo, t \in Undo(journal.kind, saga.did) :
                    Backward[s] <= Backward[t] => t \in saga.todo
RecoverKnown ==
    saga.mode = "recover" =>
        /\ saga = [AtRestNow EXCEPT !.mode = "recover", !.op = journal, !.todo = saga.todo]
        /\ saga.todo \subseteq Recovery(journal)
        /\ \A s \in saga.todo, t \in Recovery(journal) : Repair[s] <= Repair[t] => t \in saga.todo

SagaKnown ==
    /\ SagaShape
    /\ saga.mode \in {"idle", "down", "forward", "back", "recover"} /\ saga.dirty \in BOOLEAN
    /\ saga.mode = "idle" => saga = AtRestNow
    /\ saga.mode = "down" => saga = Down
    /\ Busy => /\ OpShape(saga.op)
               /\ \/ saga.op = journal
                  \/ Did("note") /\ journal = [saga.op EXCEPT !.phase = "begun"]
               /\ journal.phase = "begun" <=> Did("note")
               /\ Moving => (journal.phase = "accepted" <=> ~Did("plan"))
    /\ ForwardKnown /\ BackKnown /\ RecoverKnown

OldRows == IF Did("control") THEN saga.old.row ELSE row
Bearer == IF journal.kind = "create" THEN saga.ask.born ELSE OldRows[journal.id].born
Applied == Did("control") /\ (Ahead \/ Due("control"))

AskKnown ==
    Busy =>
        /\ saga.ask.born = 0 - past.ops /\ past.ops > 0
        /\ saga.ask.proxy \in {"inherit", "custom"} /\ saga.ask.enabled \in BOOLEAN
        /\ journal.kind = "delete" \/ (journal.kind = "policy" /\ ~saga.ask.enabled) =>
              /\ saga.ask.to \in AccountId \ {journal.id}
              /\ Exists(saga.ask.to) /\ row[saga.ask.to].enabled
        /\ journal.kind = "update" => saga.ask.to = 0
        /\ journal.kind = "update" /\ ~saga.ask.enabled /\ Did("plan") => journal.to # 0
        /\ journal.kind \in {"create", "update"} =>
              /\ saga.ask.url \in {0, Bearer}
              /\ saga.ask.proxy = "custom" => saga.ask.url # 0
        /\ journal.kind = "delete" => saga.ask.url = 0

OldSecrets ==
    Busy =>
        /\ saga.old.secret \in [AccountId -> Int]
        /\ \A a \in AccountId \ Touched : saga.old.secret[a] = secret[a]
        /\ ~Did("secret1") => saga.old.secret = secret
        /\ journal.kind = "create" => saga.old.secret[journal.id] = 0
        /\ journal.kind # "create" =>
              /\ saga.old.secret[journal.id] \in {0, Bearer}
              /\ OldRows[journal.id].proxy = "custom" => saga.old.secret[journal.id] # 0
        /\ Renames(journal) => saga.old.secret[journal.new] = 0
        /\ saga.old.container \in {"none", "running", "stopped"}
        /\ saga.old.container = "none" <=> journal.kind = "create"

OldRowsKnown ==
    Busy /\ Did("control") =>
        /\ saga.old.row \in [AccountId -> Account]
        /\ saga.old.route \in [Evacuee -> AccountId] /\ saga.old.home \in [Evacuee -> Int]
        /\ saga.old.routeAfter \in [Evacuee -> AccountId]
        /\ saga.old.homeAfter \in [Evacuee -> Int]
        /\ Applied => row = RowsAfter(saga.old.row)
        /\ ~Applied =>
              \/ row = saga.old.row
              \/ /\ saga.dirty /\ row = RowsAfter(saga.old.row)
                 /\ saga.todo \cap {"home", "render", "publish"} = {}

OldAccounts ==
    Busy => /\ OldRows[journal.id].born = 0 <=> journal.kind = "create"
            /\ Renames(journal) => OldRows[journal.new].born = 0
            /\ \A a \in AccountId : OldRows[a].born > saga.ask.born
            /\ \A a, b \in AccountId : a # b /\ OldRows[a].born # 0 =>
                                          OldRows[a].born # OldRows[b].born

RowsKnown ==
    /\ \A a, b \in AccountId : a # b /\ Exists(a) => row[a].born # row[b].born
    /\ \A a \in AccountId : row[a].born >= 0 - past.ops
    /\ journal.kind = "create" /\ journal.phase = "accepted" => ~Exists(journal.id)
    /\ journal.kind = "update" =>
          /\ journal.phase # "begun" => Exists(journal.id)
          /\ Exists(journal.id) \/ Exists(journal.new)
          /\ Renames(journal) => ~Exists(journal.id) \/ ~Exists(journal.new)
    /\ journal.kind = "delete" /\ journal.phase = "accepted" => Exists(journal.id)
    /\ journal.kind \in {"clear", "policy"} => Exists(journal.id)

OthersAgree == \A a \in AccountId \ Touched : AccountAgrees(a)

(* What recovery will find, whatever happened, for each kind of operation. *)
CreateKept ==
    LET id == journal.id  b == row[id].born IN
    journal.kind = "create" =>
        /\ backup = NoDir
        /\ Exists(id) => /\ b \notin past.oauth /\ secret[id] \in {0, b}
                         /\ oauthDir[id] = NoDir \/ oauthDir[id].of = b
        /\ journal.phase = "accepted" => secret[id] = 0 /\ container[id] = "none"
UpdateKept ==
    LET id == journal.id  new == journal.new  b == row[Desired(journal)].born IN
    journal.kind = "update" =>
        /\ journal.phase # "begun" => AccountAgrees(id) /\ AccountAgrees(new)
        /\ secret[id] \in {0, b} /\ secret[new] \in {0, b} /\ backup.of \in {0, b}
        /\ ~Renames(journal) => SoundDir(oauthDir[id], b) /\ configFile[id]
        /\ Renames(journal) => \/ SoundDir(oauthDir[id], b) /\ oauthDir[new] = NoDir
                               \/ SoundDir(oauthDir[new], b) /\ oauthDir[id] = NoDir
DeleteKept ==
    LET id == journal.id  b == row[id].born IN
    journal.kind = "delete" =>
        /\ Exists(id) => SoundDir(oauthDir[id], b) /\ secret[id] \in {0, b} /\ backup.of \in {0, b}
        /\ journal.phase = "accepted" => AccountAgrees(id)
ClearKept ==
    LET id == journal.id  b == row[id].born IN
    journal.kind = "clear" =>
        /\ ConfigAgrees(id) /\ SecretAgrees(id)
        /\ journal.phase # "begun" => ContainerAgrees(id)
        /\ backup = NoDir \/ b \notin archived => DirAgrees(id)
        /\ backup.of \in {0, b}
        /\ journal.phase # "begun" => backup = NoDir
        /\ Held(b) /\ backup # NoDir =>
              backup.of = b /\ (backup.is = "partial" \/ b \in archived)
PolicyKept ==
    journal.kind = "policy" => AccountAgrees(journal.id) /\ backup = NoDir

(* What the operation has done, or its compensation undone. *)
Undoes(step) == Behind /\ ~saga.dirty /\ step \in Undo(journal.kind, saga.did)
Undid(step) == Undoes(step) /\ ~Due(step)

CreateSteps ==
    LET id == journal.id IN
    Busy /\ journal.kind = "create" =>
        /\ ~Did("directory") \/ Undid("files") => oauthDir[id] = NoDir /\ ~configFile[id]
        /\ ~Did("control") => secret[id] = 0
        /\ ~Did("build") \/ Undid("build") => container[id] = "none"
        /\ Undid("secrets") => secret = saga.old.secret
        /\ secret[id] \in {0, Bearer}
        /\ Did("directory") => oauthDir[id] \in {NoDir, EmptyOf(Bearer)}
        /\ Ahead =>
              /\ Did("directory") => oauthDir[id] = EmptyOf(Bearer)
              /\ Did("secret1") => secret[id] = saga.ask.url
              /\ Did("render") => configFile[id]
              /\ Did("build") => container[id] = "running"
UpdateSteps ==
    LET id == journal.id  new == journal.new  re == Renames(journal)  b == Bearer IN
    Busy /\ journal.kind = "update" =>
        /\ ~Did("files") => AccountAgrees(id) /\ AccountAgrees(new)
        /\ ~Did("control") => SecretAgrees(id) /\ SecretAgrees(new)
        /\ ~Did("files") \/ Undid("files") =>
              SoundDir(oauthDir[id], b) /\ (re => oauthDir[new] = NoDir)
        /\ re /\ (~Did("render") \/ Undid("files")) => ~configFile[new]
        /\ ~Did("commit") \/ Undid("render") => configFile[id]
        /\ ~Did("build") \/ Undid("build") =>
              container[id] # "none" /\ (re => container[new] = "none")
        /\ Undid("secrets") => secret = saga.old.secret
        /\ Did("files") /\ (Ahead \/ Due("files")) =>
              SoundDir(oauthDir[new], b) /\ (re => oauthDir[id] = NoDir)
        /\ Ahead =>
              /\ Did("render") => configFile[new]
              /\ Did("commit") => (re => ~configFile[id])
              /\ Did("build") => container[new] = "running" /\ (re => container[id] = "none")
              /\ \A step \in {"secret1", "secret2"} : Did(step) =>
                    LET name == SecretName(journal, step) IN
                    secret[name] = IF name = new THEN saga.ask.url ELSE 0
DeleteSteps ==
    LET id == journal.id  b == Bearer  dir == oauthDir[id] IN
    Busy /\ journal.kind = "delete" =>
        /\ ~Did("control") => SecretAgrees(id)
        /\ Did("archive") => SoundDir(backup, b) /\ (Held(b) => b \in archived)
        /\ secret[id] \in {0, b} /\ backup.of \in {0, b}
        /\ ~Did("build") \/ Undid("build") => container[id] # "none"
        /\ Undid("secrets") => secret = saga.old.secret
        /\ Ahead =>
              /\ ~Did("remove") => SoundDir(dir, b) /\ configFile[id]
              /\ Did("remove") => dir = NoDir /\ ~configFile[id]
              /\ Did("secret1") => secret[id] = 0
              /\ ~Did("stop") => container[id] # "none"
              /\ Did("stop") => container[id] = "none"
        /\ Behind =>
              /\ ~Did("remove")
              /\ ~Did("control") \/ ~Due("files") => SoundDir(dir, b)
              /\ ~Did("control") \/ Undid("files") => configFile[id]
              /\ dir.of = b \/ (dir.of = 0 /\ b \in past.cut)
              /\ Held(b) => dir.is \in {"whole", "partial"}
ClearSteps ==
    LET id == journal.id  b == row[id].born IN
    Busy /\ journal.kind = "clear" =>
        /\ container[id] # "none"
        /\ ~Did("files") \/ Undid("files") => DirAgrees(id)
        /\ Did("copy") => SoundDir(backup, b) /\ (Held(b) => b \in archived)
        /\ Ahead /\ Did("files") => oauthDir[id] = EmptyOf(b)

Done(step) == saga.mode = "recover" /\ step \in Recovery(journal) /\ ~Due(step)
RecoverySteps ==
    LET id == journal.id  found == Desired(journal)  re == Renames(journal)
        other == IF found = journal.new THEN id ELSE journal.new
    IN  /\ Done("discard") => oauthDir[id] = NoDir /\ ~configFile[id]
        /\ Done("removal") => container[id] = "none"
        /\ Done("secret") /\ found = 0 => secret[id] = 0
        /\ Done("secret") /\ re => secret[other] = 0
        /\ Done("files") /\ re => oauthDir[other] = NoDir /\ ~configFile[other]
        /\ Done("files") /\ journal.kind # "clear" => DirAgrees(found)
        /\ Done("files") /\ journal.kind = "clear" /\ backup # NoDir =>
              oauthDir[id] = EmptyOf(row[id].born) /\ (Held(row[id].born) => row[id].born \in archived)
        /\ Done("render") /\ found # 0 =>
              configFile[found] /\ (row[found].proxy = "custom" => secret[found] # 0)
        /\ Done("container") => container[found] # "none" /\ (re => container[other] = "none")

OAuthKnown ==
    \A b \in Established \ (archived \cup past.cut) :
        b \in past.oauth /\ \E a \in AccountId : row[a].born = b

---------------------------------------------------------------------------
Home(u) == /\ Exists(userRoute[u]) /\ row[userRoute[u]].enabled
           /\ row[userRoute[u]].born = homeOf[u]
UsersKnown ==
    \A u \in Calm :
        /\ u \notin journal.moved => Home(u)
        /\ u \notin journal.moved /\ Moving /\ journal.phase # "accepted" => userRoute[u] \notin Touched
        /\ u \in journal.moved =>
              LET found == Desired(journal) IN
              IF row[found].enabled
              THEN homeOf[u] = row[found].born /\ userRoute[u] \in Touched \cup {journal.to}
              ELSE homeOf[u] = row[journal.to].born /\ userRoute[u] = journal.to
        /\ journal.kind = "create" => userRoute[u] # journal.id
        /\ Renames(journal) /\ Exists(journal.new) => userRoute[u] # journal.id

OldUsers ==
    Busy /\ Applied =>
        \A u \in Calm :
            /\ homeOf[u] = saga.old.homeAfter[u]
            /\ u \notin journal.moved =>
                  /\ saga.old.row[saga.old.route[u]].born = saga.old.home[u] /\ saga.old.home[u] # 0
                  /\ saga.old.row[saga.old.route[u]].enabled
                  /\ userRoute[u] = saga.old.routeAfter[u]
            /\ u \in journal.moved =>
                  saga.old.home[u] = Bearer /\ saga.old.row[journal.id].enabled
            /\ journal.kind = "update" => saga.old.routeAfter[u] = saga.old.route[u]

RoutesMoved ==
    Busy /\ Moving =>
        \A u \in Calm :
            /\ ~Did("move") /\ u \in journal.moved => userRoute[u] = journal.id
            /\ u \in journal.moved => OldRows[journal.id].enabled
            /\ Ahead /\ Did("move") /\ ~Did("home") => userRoute[u] \notin Touched
            /\ Behind /\ Did("move") /\ ~Did("home") /\ Due("home") => userRoute[u] \notin Touched
            /\ Renames(journal) /\ ~Did("home") => userRoute[u] # journal.new
            /\ (Ahead /\ Did("home")) \/ Undid("home") => Home(u)
RoutesRecovered == Done("home") => \A u \in Calm : Home(u)

PublishedKnown ==
    \A u \in Calm :
        LET r == published.route[u]  id == journal.id IN
        /\ r \in Touched \/ Exists(r)
        /\ Ahead /\ journal.kind = "update" /\ Did("expose") /\ ~Did("home") => r \notin Touched
        /\ Behind /\ journal.kind = "update" /\ Did("expose") /\ ~Did("home") /\ Due("home") =>
              r \notin Touched
        /\ Busy /\ Renames(journal) /\ ~Did("home") => r # journal.new
        /\ journal.kind = "create" => r # id
        /\ Ahead /\ journal.kind = "delete" /\ Did("publish") => r # id
        /\ Renames(journal) /\ Exists(journal.new) => r # id

(* Nobody is sent to the container of a deleted account once it is removed. *)
RemovedUnpublished ==
    journal.kind = "delete" /\ ~Exists(journal.id) /\ container[journal.id] = "none" =>
        \A u \in Calm : published.route[u] # journal.id

PublishedCurrent ==
    \/ journal.phase = "accepted" /\ journal.kind # "policy"
    \/ Busy /\ ~Did("move") /\ ~Did("control")
    \/ Busy /\ Moving /\ journal.moved = {} /\ ~Did("control")
    \/ Ahead /\ Did("publish")
    \/ Undid("publish") \/ Done("publish")
    \/ ~Underway
    => published = Current

SagaBase == PastTypes /\ WorldTypes /\ OperationKnown /\ SagaKnown
Records == /\ AskKnown /\ OldRowsKnown /\ OldAccounts /\ RowsKnown
           /\ UsersKnown /\ OldUsers /\ RoutesMoved /\ RoutesRecovered
           /\ PublishedKnown /\ PublishedCurrent
Facets == /\ OldSecrets /\ OthersAgree
          /\ CreateKept /\ UpdateKept /\ DeleteKept /\ ClearKept /\ PolicyKept
          /\ CreateSteps /\ UpdateSteps /\ DeleteSteps /\ ClearSteps /\ RecoverySteps
          /\ OAuthKnown
SagaInv == SagaBase /\ Records /\ Facets /\ RemovedUnpublished

---------------------------------------------------------------------------
(* The order of the steps.                                                 *)

(* The ranks of the steps, for the provers. *)
LEMMA ForwardRanks ==
    /\ Forward["plan"] = 1 /\ Forward["move"] = 2 /\ Forward["expose"] = 3
    /\ Forward["directory"] = 4 /\ Forward["archive"] = 5 /\ Forward["note"] = 6
    /\ Forward["copy"] = 7 /\ Forward["files"] = 8 /\ Forward["control"] = 9
    /\ Forward["secret1"] = 10 /\ Forward["secret2"] = 11 /\ Forward["render"] = 12
    /\ Forward["build"] = 13 /\ Forward["restart"] = 14 /\ Forward["commit"] = 15
    /\ Forward["home"] = 16 /\ Forward["publish"] = 17 /\ Forward["drain"] = 18
    /\ Forward["stop"] = 19 /\ Forward["remove"] = 20
  BY DEF Forward

(* The ranks of the steps of a compensation. *)
LEMMA BackwardRanks ==
    /\ Backward["files"] = 1 /\ Backward["build"] = 2 /\ Backward["restart"] = 3
    /\ Backward["secrets"] = 4 /\ Backward["control"] = 5 /\ Backward["home"] = 6
    /\ Backward["render"] = 7 /\ Backward["publish"] = 8
  BY DEF Backward

(* The ranks of the steps of a recovery. *)
LEMMA RepairRanks ==
    /\ Repair["secret"] = 1 /\ Repair["files"] = 2 /\ Repair["render"] = 3
    /\ Repair["container"] = 4 /\ Repair["home"] = 5 /\ Repair["publish"] = 6
    /\ Repair["drain"] = 7 /\ Repair["removal"] = 8 /\ Repair["discard"] = 9
  BY DEF Repair

ForwardSteps == {"plan", "move", "expose", "directory", "archive", "note", "copy",
                 "files", "control", "secret1", "secret2", "render", "build", "restart",
                 "commit", "home", "publish", "drain", "stop", "remove"}
BackwardSteps == {"files", "build", "restart", "secrets", "control", "home", "render",
                  "publish"}
RepairSteps == {"secret", "files", "render", "container", "home", "publish", "drain",
                "removal", "discard"}

(* No two steps of an operation have the same rank. *)
LEMMA ForwardOrder ==
    /\ \A s \in ForwardSteps : Forward[s] \in Nat
    /\ \A s, t \in ForwardSteps : Forward[s] = Forward[t] => s = t
  BY ForwardRanks DEF ForwardSteps

(* No two steps of a compensation have the same rank. *)
LEMMA BackwardOrder ==
    /\ \A s \in BackwardSteps : Backward[s] \in Nat
    /\ \A s, t \in BackwardSteps : Backward[s] = Backward[t] => s = t
  BY BackwardRanks DEF BackwardSteps

(* No two steps of a recovery have the same rank. *)
LEMMA RepairOrder ==
    /\ \A s \in RepairSteps : Repair[s] \in Nat
    /\ \A s, t \in RepairSteps : Repair[s] = Repair[t] => s = t
  BY RepairRanks DEF RepairSteps

(* An operation is planned from the forward steps. *)
LEMMA PlanSteps ==
    ASSUME NEW op, op.kind \in {"create", "update", "delete", "clear", "policy"}
    PROVE  Plan(op) \subseteq ForwardSteps
  BY DEF Plan, ForwardSteps, Creation, Evacuation, Removal, PolicyChange

(* A compensation is made of the backward steps. *)
LEMMA UndoSteps ==
    ASSUME NEW kind \in {"create", "update", "delete", "clear", "policy"}, NEW did
    PROVE  Undo(kind, did) \subseteq BackwardSteps
  BY DEF Undo, BackwardSteps, PolicyChange

(* A recovery is made of the repair steps. *)
LEMMA RepairPlan ==
    ASSUME NEW op
    PROVE  Recovery(op) \subseteq RepairSteps
  BY DEF Recovery, RepairSteps, RemovalFinished, RoutesReturned

(* The fields of the journal when there is no operation. *)
LEMMA Begun ==
    NoOperation.kind = "none" /\ NoOperation.id = 0 /\ NoOperation.new = 0
    /\ NoOperation.phase = "none" /\ NoOperation.moved = {} /\ NoOperation.to = 0
  BY DEF NoOperation

---------------------------------------------------------------------------
(* What a step does to the saga itself.                                    *)

SameSaga == /\ saga'.mode = saga.mode /\ saga'.op = saga.op /\ saga'.ask = saga.ask
            /\ saga'.old = saga.old
Bounds == /\ past'.ops = past.ops /\ past'.moves = past.moves /\ past'.strayed = past.strayed
          /\ past'.oauth = past.oauth /\ past'.cut = past.cut

(* What Proceed leaves in each field of the saga. *)
LEMMA ProceedFields ==
    ASSUME SagaShape, NEW step, Proceed(step)
    PROVE  /\ SagaShape' /\ SameSaga /\ saga'.dirty = saga.dirty /\ past' = past
           /\ saga'.todo = saga.todo \ {step} /\ saga'.did = saga.did \cup {step}
  BY DEF SagaShape, Proceed, SameSaga

(* What TurnBack leaves in each field of the saga. *)
LEMMA TurnBackFields ==
    ASSUME SagaShape, NEW did, TurnBack(did)
    PROVE  /\ SagaShape' /\ saga'.op = saga.op /\ saga'.ask = saga.ask /\ saga'.old = saga.old
           /\ saga'.mode = "back" /\ saga'.dirty = saga.dirty
           /\ saga'.todo = Undo(saga.op.kind, did) /\ saga'.did = did
  BY DEF SagaShape, TurnBack

(* What Undone leaves in each field of the saga. *)
LEMMA UndoneFields ==
    ASSUME SagaShape, NEW step, Undone(step)
    PROVE  /\ SagaShape' /\ SameSaga /\ saga'.dirty = saga.dirty /\ past' = past
           /\ saga'.todo = saga.todo \ {step} /\ saga'.did = saga.did
  BY DEF SagaShape, Undone, SameSaga

(* What Keeps, an error that is kept, leaves in each field of the saga. *)
LEMMA KeepsFields ==
    ASSUME SagaShape, NEW step, Keeps(step)
    PROVE  /\ SagaShape' /\ SameSaga /\ saga'.dirty = TRUE
           /\ saga'.todo = saga.todo \ ({step} \cup DependOn(step))
           /\ saga'.did = IF step \in {"files", "restart"} THEN saga.did \cup {"unusable"}
                          ELSE saga.did
  BY DEF SagaShape, Keeps, SameSaga

(* What Recovered(step) does to the saga, whatever becomes of the bounds.   *)
Repairing(step) == saga' = [saga EXCEPT !.todo = @ \ {step}]

(* What a step of a recovery leaves in each field of the saga. *)
LEMMA RecoveredFields ==
    ASSUME SagaShape, NEW step, Repairing(step)
    PROVE  /\ SagaShape' /\ SameSaga /\ saga'.dirty = saga.dirty
           /\ saga'.todo = saga.todo \ {step} /\ saga'.did = saga.did
  BY DEF SagaShape, Repairing, SameSaga

(* The fields of a saga at rest, and of an Admin that is down. *)
LEMMA AtRestFields ==
    /\ AtRestNow.mode = "idle" /\ AtRestNow.todo = {} /\ AtRestNow.did = {}
    /\ AtRestNow.op = NoOperation /\ AtRestNow.dirty = FALSE
    /\ AtRestNow.ask = <<>> /\ AtRestNow.old = <<>>
    /\ Down.mode = "down" /\ Down.todo = {} /\ Down.did = {} /\ Down.op = NoOperation
    /\ Down.dirty = FALSE /\ Down.ask = <<>> /\ Down.old = <<>>
  BY DEF AtRestNow, Down

(* A saga that ends, or dies, is a saga. *)
LEMMA RestShape ==
    /\ saga' = AtRestNow => SagaShape'
    /\ saga' = Down => SagaShape'
  BY DEF SagaShape, AtRestNow, Down

(* A fault counts as one and moves nobody. *)
LEMMA FaultFields ==
    ASSUME PastTypes, Fault
    PROVE  PastTypes' /\ Bounds
  BY DEF PastTypes, PastShape, Fault, Bounds

(* A death counts as one and moves nobody. *)
LEMMA DiesFields ==
    ASSUME PastTypes, Dies
    PROVE  PastTypes' /\ Bounds /\ saga' = Down
  BY DEF PastTypes, PastShape, Dies, Bounds

CutBounds(dir) ==
    /\ past'.ops = past.ops /\ past'.moves = past.moves /\ past'.strayed = past.strayed
    /\ past'.oauth = past.oauth /\ past'.cut = past.cut \cup {dir.of}

(* A fault inside a copy or a removal adds the account of the directory *)
(* to those cut short.                                                  *)
LEMMA FaultCutFields ==
    ASSUME PastTypes, NEW dir \in Directory, FaultCut(dir)
    PROVE  PastTypes' /\ CutBounds(dir)
<1>1. dir.of \in Int
  BY DEF Directory, NoDir
<1>2. /\ PastShape' /\ CutBounds(dir)
      /\ past'.faults = past.faults + 1 /\ past'.crashes = past.crashes
  BY DEF PastTypes, PastShape, FaultCut, CutBounds
<1> QED
  BY <1>1, <1>2 DEF PastTypes, CutBounds

(* So does a death inside a copy. *)
LEMMA DiesCutFields ==
    ASSUME PastTypes, NEW dir \in Directory, DiesCut(dir)
    PROVE  PastTypes' /\ CutBounds(dir) /\ saga' = Down
<1>1. dir.of \in Int
  BY DEF Directory, NoDir
<1>2. /\ PastShape' /\ CutBounds(dir) /\ saga' = Down
      /\ past'.crashes = past.crashes + 1 /\ past'.faults = past.faults
  BY DEF PastTypes, PastShape, DiesCut, CutBounds
<1> QED
  BY <1>1, <1>2 DEF PastTypes, CutBounds

(* An operation in progress is the journalled one; it may be a phase ahead. *)
LEMMA OpOfSaga ==
    ASSUME OperationKnown, SagaKnown, Busy \/ saga.mode = "recover"
    PROVE  /\ Underway
           /\ saga.op.kind = journal.kind /\ saga.op.id = journal.id
           /\ saga.op.new = journal.new /\ saga.op.moved = journal.moved
           /\ saga.op.to = journal.to
           /\ journal.kind \in {"create", "update", "delete", "clear", "policy"}
           /\ journal.id \in AccountId /\ journal.id # 0
           /\ journal.kind = "update" => journal.new \in AccountId /\ journal.new # 0
           /\ journal.kind # "update" => journal.new = 0
           /\ Renames(saga.op) <=> Renames(journal)
           /\ FinalId(saga.op) = FinalId(journal)
<1>1. Underway
  BY DEF OperationKnown, Busy
<1>2. CASE Busy
  <2>1. CASE saga.op = journal
    BY <1>1, <2>1, AccountSagaAssumption DEF OperationKnown
  <2>2. CASE journal = [saga.op EXCEPT !.phase = "begun"] /\ OpShape(saga.op)
    BY <1>1, <2>2, AccountSagaAssumption DEF OperationKnown, OpShape, Renames, FinalId
  <2> QED
    BY <1>2, <2>1, <2>2 DEF SagaKnown
<1>3. CASE saga.mode = "recover"
  <2>1. saga.op = journal
    BY <1>3 DEF SagaKnown, RecoverKnown, AtRestNow
  <2> QED
    BY <1>1, <2>1, AccountSagaAssumption DEF OperationKnown
<1> QED
  BY <1>2, <1>3

(* A step that is next belongs to the plan of the journalled operation, *)
(* and exactly the steps of a lower rank are done.                      *)
LEMMA OnwardKnown ==
    ASSUME OperationKnown, SagaKnown, NEW step, Onward(step)
    PROVE  /\ saga.mode = "forward" /\ Busy /\ Underway /\ ~saga.dirty
           /\ step \in Plan(journal) /\ step \in saga.todo /\ step \notin saga.did
           /\ saga.did = Plan(journal) \ saga.todo
           /\ \A t \in Plan(journal) : /\ Forward[t] < Forward[step] => t \in saga.did
                                       /\ Forward[t] > Forward[step] => t \notin saga.did
<1>1. saga.mode = "forward" /\ Busy /\ step \in saga.todo
      /\ \A s \in saga.todo : Forward[step] <= Forward[s]
  BY DEF Onward, IsNext, Busy
<1>2. Underway /\ Plan(journal) \subseteq ForwardSteps
  BY <1>1, OpOfSaga, PlanSteps
<1>3. /\ saga.todo \subseteq Plan(journal) /\ saga.did = Plan(journal) \ saga.todo
      /\ ~saga.dirty
      /\ \A s \in saga.todo, t \in Plan(journal) : Forward[s] <= Forward[t] => t \in saga.todo
  BY <1>1 DEF SagaKnown, ForwardKnown, Ahead
<1>4. ASSUME NEW t \in Plan(journal)
      PROVE  /\ Forward[t] < Forward[step] => t \in saga.did
             /\ Forward[t] > Forward[step] => t \notin saga.did
  BY <1>1, <1>2, <1>3, ForwardOrder
<1> QED
  BY <1>1, <1>2, <1>3, <1>4

(* A step of a compensation that is next; without errors, exactly those *)
(* of a lower rank are undone.                                          *)
LEMMA BackwardKnown ==
    ASSUME OperationKnown, SagaKnown, NEW step, Back(step)
    PROVE  /\ saga.mode = "back" /\ Busy /\ Underway
           /\ step \in Undo(journal.kind, saga.did) /\ step \in saga.todo
           /\ ~saga.dirty => \A t \in Undo(journal.kind, saga.did) :
                                /\ Backward[t] < Backward[step] => t \notin saga.todo
                                /\ Backward[t] > Backward[step] => t \in saga.todo
<1>1. saga.mode = "back" /\ Busy /\ step \in saga.todo
      /\ \A s \in saga.todo : Backward[step] <= Backward[s]
  BY DEF Back, IsNext, Busy
<1>2. Underway /\ Undo(journal.kind, saga.did) \subseteq BackwardSteps
  BY <1>1, OpOfSaga, UndoSteps
<1>3. /\ saga.todo \subseteq Undo(journal.kind, saga.did)
      /\ ~saga.dirty => \A s \in saga.todo, t \in Undo(journal.kind, saga.did) :
                           Backward[s] <= Backward[t] => t \in saga.todo
  BY <1>1 DEF SagaKnown, BackKnown, Behind
<1>4. ASSUME NEW t \in Undo(journal.kind, saga.did), ~saga.dirty
      PROVE  /\ Backward[t] < Backward[step] => t \notin saga.todo
             /\ Backward[t] > Backward[step] => t \in saga.todo
  BY <1>1, <1>2, <1>3, <1>4, BackwardOrder
<1> QED
  BY <1>1, <1>2, <1>3, <1>4

(* A step of a recovery that is next: exactly those of a lower rank are *)
(* done.                                                                *)
LEMMA RecoveringKnown ==
    ASSUME OperationKnown, SagaKnown, NEW step, Recovering(step)
    PROVE  /\ saga.mode = "recover" /\ Underway /\ saga.op = journal
           /\ step \in Recovery(journal) /\ step \in saga.todo
           /\ saga.todo \subseteq Recovery(journal)
           /\ \A t \in Recovery(journal) :
                 /\ Repair[t] < Repair[step] => t \notin saga.todo
                 /\ Repair[t] > Repair[step] => t \in saga.todo
<1>1. saga.mode = "recover" /\ step \in saga.todo
      /\ \A s \in saga.todo : Repair[step] <= Repair[s]
  BY DEF Recovering, IsNext
<1>2. Underway /\ Recovery(journal) \subseteq RepairSteps
  BY <1>1, OpOfSaga, RepairPlan
<1>3. /\ saga.todo \subseteq Recovery(journal)
      /\ \A s \in saga.todo, t \in Recovery(journal) : Repair[s] <= Repair[t] => t \in saga.todo
      /\ saga = [AtRestNow EXCEPT !.mode = "recover", !.op = journal, !.todo = saga.todo]
  BY <1>1 DEF SagaKnown, RecoverKnown
<1>4. ASSUME NEW t \in Recovery(journal)
      PROVE  /\ Repair[t] < Repair[step] => t \notin saga.todo
             /\ Repair[t] > Repair[step] => t \in saga.todo
  BY <1>1, <1>2, <1>3, RepairOrder
<1>5. saga.op = journal
  BY <1>3 DEF AtRestNow
<1> QED
  BY <1>1, <1>2, <1>3, <1>4, <1>5

(* The order of the steps survives a step that succeeds. *)
LEMMA ForwardMoves ==
    ASSUME OperationKnown, SagaKnown, NEW step, Onward(step), saga'.mode = "forward",
           saga'.todo = saga.todo \ {step}, saga'.did = saga.did \cup {step},
           saga'.dirty = saga.dirty, Plan(journal)' = Plan(journal)
    PROVE  ForwardKnown' /\ BackKnown' /\ RecoverKnown' /\ saga'.dirty \in BOOLEAN
<1> USE DEF Ahead, Behind
<1>1. /\ saga.mode = "forward" /\ Underway /\ ~saga.dirty
      /\ step \in Plan(journal) /\ step \in saga.todo
      /\ saga.did = Plan(journal) \ saga.todo
  BY OnwardKnown
<1>2. saga'.dirty \in BOOLEAN /\ ~saga'.dirty
  BY <1>1 DEF SagaKnown
<1>3. /\ saga.todo \subseteq Plan(journal)
      /\ \A s \in saga.todo, t \in Plan(journal) : Forward[s] <= Forward[t] => t \in saga.todo
  BY <1>1 DEF SagaKnown, ForwardKnown
<1>4. \A s \in saga.todo : Forward[step] <= Forward[s]
  BY DEF Onward, IsNext
<1>5. Plan(journal) \subseteq ForwardSteps
  BY <1>1, OpOfSaga, PlanSteps DEF Busy
<1>6. ASSUME NEW s \in saga'.todo, NEW t \in Plan(journal), Forward[s] <= Forward[t]
      PROVE  t \in saga'.todo
  <2>1. s \in saga.todo /\ s # step /\ t \in saga.todo
    BY <1>3, <1>6
  <2>2. t # step
    BY <2>1, <1>4, <1>5, <1>6, <1>3, ForwardOrder
  <2> QED
    BY <2>1, <2>2
<1>7. ForwardKnown'
  BY <1>1, <1>2, <1>3, <1>6 DEF ForwardKnown
<1> QED
  BY <1>2, <1>7 DEF BackKnown, RecoverKnown

(* The saga goes on after a step that does not touch the journal. *)
LEMMA GoesOn ==
    ASSUME OperationKnown, SagaKnown, NEW step, Onward(step), Proceed(step),
           step \notin {"note", "plan"}, journal' = journal
    PROVE  SagaKnown'
<1> USE DEF Busy, Ahead, Behind, Did, Due, Moving
<1>1. SagaShape' /\ SameSaga /\ saga'.dirty = saga.dirty
      /\ saga'.todo = saga.todo \ {step} /\ saga'.did = saga.did \cup {step}
  BY ProceedFields DEF SagaKnown
<1>2. saga.mode = "forward" /\ Underway
  BY OnwardKnown
<1>3. saga'.mode = "forward"
  BY <1>1, <1>2 DEF SameSaga
<1>4. ForwardKnown' /\ BackKnown' /\ RecoverKnown' /\ saga'.dirty \in BOOLEAN
  BY <1>1, <1>3, ForwardMoves DEF Plan, Renames
<1>5. Busy' => /\ OpShape(saga'.op)
               /\ \/ saga'.op = journal'
                  \/ Did("note")' /\ journal' = [saga'.op EXCEPT !.phase = "begun"]
               /\ journal'.phase = "begun" <=> Did("note")'
               /\ Moving' => (journal'.phase = "accepted" <=> ~Did("plan")')
  BY <1>1, <1>2 DEF SagaKnown, SameSaga
<1> QED
  BY <1>1, <1>3, <1>4, <1>5 DEF SagaKnown

(* The saga turns back from the step that failed, over what it did. *)
LEMMA TurnsBack ==
    ASSUME OperationKnown, SagaKnown, NEW step, Onward(step), NEW did, TurnBack(did),
           did = saga.did \/ (did = saga.did \cup {step} /\ step \notin {"note", "plan"}),
           journal' = journal
    PROVE  SagaKnown'
<1> USE DEF Busy, Ahead, Behind, Did, Due, Moving
<1>1. /\ SagaShape' /\ saga'.op = saga.op /\ saga'.mode = "back" /\ saga'.dirty = saga.dirty
      /\ saga'.todo = Undo(saga.op.kind, did) /\ saga'.did = did
  BY TurnBackFields DEF SagaKnown
<1>2. /\ saga.mode = "forward" /\ Underway /\ ~saga.dirty
      /\ step \in Plan(journal) /\ saga.did = Plan(journal) \ saga.todo
      /\ \A t \in Plan(journal) : Forward[t] < Forward[step] => t \in saga.did
  BY OnwardKnown
<1>3. /\ saga.todo \subseteq Plan(journal)
      /\ \A s \in saga.todo, t \in Plan(journal) : Forward[s] <= Forward[t] => t \in saga.todo
  BY <1>2 DEF SagaKnown, ForwardKnown
<1>4. /\ Plan(journal) \subseteq ForwardSteps /\ saga.op.kind = journal.kind
      /\ "unusable" \notin ForwardSteps
  BY <1>2, OpOfSaga, PlanSteps DEF ForwardSteps
<1>5. ASSUME NEW s \in did, NEW t \in Plan(journal), Forward[t] <= Forward[s]
      PROVE  t \in did
  <2>1. CASE s \in saga.did
    BY <2>1, <1>2, <1>3, <1>4, <1>5, ForwardOrder
  <2>2. CASE s = step /\ did = saga.did \cup {step}
    <3>1. Forward[t] < Forward[step] \/ t = step
      BY <2>2, <1>2, <1>4, <1>5, ForwardOrder
    <3> QED
      BY <3>1, <2>2, <1>2
  <2> QED
    BY <2>1, <2>2
<1>6. BackKnown'
  BY <1>1, <1>2, <1>4, <1>5 DEF BackKnown
<1>7. ForwardKnown' /\ RecoverKnown'
  BY <1>1 DEF ForwardKnown, RecoverKnown
<1>8. Busy' => /\ OpShape(saga'.op)
               /\ \/ saga'.op = journal'
                  \/ Did("note")' /\ journal' = [saga'.op EXCEPT !.phase = "begun"]
               /\ journal'.phase = "begun" <=> Did("note")'
               /\ Moving' => (journal'.phase = "accepted" <=> ~Did("plan")')
  BY <1>1, <1>2 DEF SagaKnown
<1> QED
  BY <1>1, <1>2, <1>6, <1>7, <1>8 DEF SagaKnown

(* The saga goes on backwards after a step undone. *)
LEMMA GoesBack ==
    ASSUME OperationKnown, SagaKnown, NEW step, Back(step), Undone(step), journal' = journal
    PROVE  SagaKnown'
<1> USE DEF Busy, Ahead, Behind, Did, Due, Moving
<1>1. SagaShape' /\ SameSaga /\ saga'.dirty = saga.dirty
      /\ saga'.todo = saga.todo \ {step} /\ saga'.did = saga.did
  BY UndoneFields DEF SagaKnown
<1>2. /\ saga.mode = "back" /\ Underway /\ step \in saga.todo
      /\ \A s \in saga.todo : Backward[step] <= Backward[s]
      /\ Undo(journal.kind, saga.did) \subseteq BackwardSteps
  BY BackwardKnown, OpOfSaga, UndoSteps DEF Back, IsNext
<1>3. BackKnown
  BY DEF SagaKnown
<1>4. saga'.mode = "back" /\ saga'.dirty \in BOOLEAN
  BY <1>1, <1>2 DEF SameSaga, SagaKnown
<1>5. ASSUME ~saga.dirty, NEW s \in saga'.todo, NEW t \in Undo(journal.kind, saga.did),
             Backward[s] <= Backward[t]
      PROVE  t \in saga'.todo
  <2>1. s \in saga.todo /\ s # step /\ t \in saga.todo
        /\ s \in BackwardSteps /\ t \in BackwardSteps /\ step \in BackwardSteps
    BY <1>1, <1>2, <1>3, <1>5 DEF BackKnown
  <2>2. t # step
    BY <2>1, <1>2, <1>5, BackwardOrder
  <2> QED
    BY <2>1, <2>2, <1>1
<1>6. BackKnown'
  BY <1>1, <1>2, <1>3, <1>5 DEF BackKnown, SameSaga
<1>7. ForwardKnown' /\ RecoverKnown'
  BY <1>4 DEF ForwardKnown, RecoverKnown
<1>8. Busy' => /\ OpShape(saga'.op)
               /\ \/ saga'.op = journal'
                  \/ Did("note")' /\ journal' = [saga'.op EXCEPT !.phase = "begun"]
               /\ journal'.phase = "begun" <=> Did("note")'
               /\ Moving' => (journal'.phase = "accepted" <=> ~Did("plan")')
  BY <1>1, <1>2 DEF SagaKnown, SameSaga
<1> QED
  BY <1>1, <1>4, <1>6, <1>7, <1>8 DEF SagaKnown

(* That the restored OAuth is not proven usable does not change what has *)
(* to be undone.                                                         *)
LEMMA UnusableAside ==
    ASSUME NEW kind, NEW did
    PROVE  Undo(kind, did \cup {"unusable"}) = Undo(kind, did)
  BY DEF Undo

(* The saga goes on backwards after an error that is kept. *)
LEMMA GoesBackDirty ==
    ASSUME OperationKnown, SagaKnown, NEW step, Back(step), Keeps(step), journal' = journal
    PROVE  SagaKnown'
<1> USE DEF Busy, Ahead, Behind, Did, Due, Moving
<1>1. SagaShape' /\ SameSaga /\ saga'.dirty = TRUE
      /\ saga'.todo \subseteq saga.todo
      /\ saga'.did \in {saga.did, saga.did \cup {"unusable"}}
  BY KeepsFields DEF SagaKnown
<1>2. saga.mode = "back" /\ Underway
  BY BackwardKnown
<1>3. BackKnown
  BY DEF SagaKnown
<1>4. saga'.mode = "back" /\ saga'.dirty \in BOOLEAN
  <2>1. saga'.mode = "back"
    BY <1>1, <1>2 DEF SameSaga
  <2> QED
    BY <2>1, <1>1
<1>5. Undo(journal.kind, saga'.did) = Undo(journal.kind, saga.did)
  BY <1>1, UnusableAside
<1>9. "files" \notin saga'.todo
  <2>1. saga'.todo = saga.todo \ ({step} \cup DependOn(step))
    BY KeepsFields DEF SagaKnown
  <2>2. step \in BackwardSteps /\ \A s \in saga.todo : Backward[step] <= Backward[s]
    BY <1>2, BackwardKnown, OpOfSaga, UndoSteps DEF Back, IsNext
  <2>3. step = "files" \/ Backward[step] > Backward["files"]
    BY <2>2, BackwardRanks DEF BackwardSteps
  <2> QED
    BY <2>1, <2>2, <2>3, BackwardRanks, BackwardOrder
<1>6. BackKnown'
  BY <1>1, <1>2, <1>3, <1>5, <1>9 DEF BackKnown, SameSaga
<1>7. ForwardKnown' /\ RecoverKnown'
  BY <1>4 DEF ForwardKnown, RecoverKnown
<1>8. Busy' => /\ OpShape(saga'.op)
               /\ \/ saga'.op = journal'
                  \/ Did("note")' /\ journal' = [saga'.op EXCEPT !.phase = "begun"]
               /\ journal'.phase = "begun" <=> Did("note")'
               /\ Moving' => (journal'.phase = "accepted" <=> ~Did("plan")')
  BY <1>1, <1>2 DEF SagaKnown, SameSaga
<1> QED
  BY <1>1, <1>4, <1>6, <1>7, <1>8 DEF SagaKnown

(* The recovery goes on after a step. *)
LEMMA Recovers ==
    ASSUME OperationKnown, SagaKnown, NEW step, Recovering(step), Repairing(step),
           journal' = journal, Recovery(journal)' = Recovery(journal)
    PROVE  SagaKnown'
<1> USE DEF Busy, Ahead, Behind, Did, Due, Moving
<1>1. SagaShape' /\ SameSaga /\ saga'.dirty = saga.dirty
      /\ saga'.todo = saga.todo \ {step} /\ saga'.did = saga.did
  BY RecoveredFields DEF SagaKnown
<1>2. /\ saga.mode = "recover" /\ Underway /\ step \in saga.todo
      /\ \A s \in saga.todo : Repair[step] <= Repair[s]
      /\ Recovery(journal) \subseteq RepairSteps
  BY RecoveringKnown, RepairPlan DEF Recovering, IsNext
<1>3. RecoverKnown
  BY DEF SagaKnown
<1>4. saga'.mode = "recover" /\ saga'.dirty \in BOOLEAN
  BY <1>1, <1>2 DEF SameSaga, SagaKnown
<1>5. ASSUME NEW s \in saga'.todo, NEW t \in Recovery(journal), Repair[s] <= Repair[t]
      PROVE  t \in saga'.todo
  <2>1. s \in saga.todo /\ s # step /\ t \in saga.todo
        /\ s \in RepairSteps /\ t \in RepairSteps /\ step \in RepairSteps
    BY <1>1, <1>2, <1>3, <1>5 DEF RecoverKnown
  <2>2. t # step
    BY <2>1, <1>2, <1>5, RepairOrder
  <2> QED
    BY <2>1, <2>2, <1>1
<1>6. saga' = [AtRestNow EXCEPT !.mode = "recover", !.op = journal', !.todo = saga'.todo]
  <2>1. saga = [AtRestNow EXCEPT !.mode = "recover", !.op = journal, !.todo = saga.todo]
    BY <1>2, <1>3 DEF RecoverKnown
  <2>2. saga' = [saga EXCEPT !.todo = saga'.todo]
    BY <1>1, Repairing(step) DEF Repairing, SagaKnown, SagaShape
  <2> QED
    BY <2>1, <2>2 DEF AtRestNow
<1>7. RecoverKnown'
  BY <1>1, <1>2, <1>3, <1>5, <1>6 DEF RecoverKnown
<1>8. ForwardKnown' /\ BackKnown'
  BY <1>4 DEF ForwardKnown, BackKnown
<1> QED
  BY <1>1, <1>4, <1>7, <1>8 DEF SagaKnown

(* A process that has gone down is known. *)
LEMMA GoesDown ==
    ASSUME saga' = Down
    PROVE  SagaKnown' /\ ~Busy' /\ saga'.mode = "down" /\ saga'.todo = {}
<1>1. SagaShape'
  BY RestShape
<1> QED
  BY <1>1, AtRestFields DEF SagaKnown, ForwardKnown, BackKnown, RecoverKnown, Busy, Ahead, Behind

(* A saga that has ended is known. *)
LEMMA Rests ==
    ASSUME saga' = AtRestNow
    PROVE  SagaKnown' /\ ~Busy' /\ saga'.mode = "idle" /\ saga'.todo = {}
<1>1. SagaShape'
  BY RestShape
<1> QED
  BY <1>1, AtRestFields DEF SagaKnown, ForwardKnown, BackKnown, RecoverKnown, Busy, Ahead, Behind

---------------------------------------------------------------------------
(* How a move of the saga changes what the invariant asks of it.           *)

(* What depends on the account rows only is the same while they are. *)
LEMMA SameRows ==
    ASSUME row' = row
    PROVE  /\ \A a : Exists(a)' <=> Exists(a)
           /\ \A op : Desired(op)' = Desired(op)
           /\ \A op : Recovery(op)' = Recovery(op)
  BY DEF Exists, Desired, Recovery

(* An operation that changed the records has to change them back. *)
LEMMA ControlUndone ==
    ASSUME OperationKnown, SagaKnown, NEW step, Onward(step), saga.mode = "forward",
           "control" \in saga.did, NEW did, saga.did \subseteq did
    PROVE  "control" \in Undo(journal.kind, did)
<1>1. /\ journal.kind \in {"create", "update", "delete", "clear", "policy"}
      /\ saga.did \subseteq Plan(journal)
      /\ \A t \in Plan(journal) : Forward[t] < Forward[step] => t \in saga.did
      /\ \A t \in Plan(journal) : Forward[t] > Forward[step] => t \notin saga.did
      /\ step \in Plan(journal) /\ Plan(journal) \subseteq ForwardSteps /\ step \notin saga.did
  BY OnwardKnown, OpOfSaga, PlanSteps DEF Busy
<1>2. journal.kind # "clear"
  BY <1>1 DEF Plan, Evacuation
<1>3. Forward["control"] < Forward[step]
  <2>1. "control" \in ForwardSteps /\ "control" # step
    BY <1>1
  <2> QED
    BY <2>1, <1>1, ForwardOrder
<1>4. journal.kind = "update" => "note" \in saga.did
  <2>1. journal.kind = "update" => "note" \in Plan(journal)
    BY DEF Plan
  <2> QED
    BY <2>1, <1>1, <1>3, ForwardRanks, ForwardOrder
<1> QED
  BY <1>1, <1>2, <1>4 DEF Undo, PolicyChange

(* The steps that the records, and those that the facets are about. *)
RecordSteps == {"plan", "move", "expose", "control", "home", "publish"}
FacetSteps == {"directory", "archive", "copy", "files", "control", "secret1", "secret2",
               "render", "build", "commit", "stop", "remove", "secrets"}

Onwards(steps) ==
    /\ Busy' => Busy /\ saga'.ask = saga.ask /\ saga'.old = saga.old
    /\ Busy' => saga'.op.kind = saga.op.kind /\ saga'.op.id = saga.op.id /\ saga'.op.new = saga.op.new
    /\ Busy' => \A s \in steps : Did(s)' <=> Did(s)
    /\ Ahead' => Ahead
    /\ Behind' => Ahead \/ Behind
    /\ Behind' /\ Ahead => ~Did("remove")
    /\ Behind' /\ Behind /\ saga.dirty => saga'.dirty
    /\ Behind' /\ Behind => saga'.todo \subseteq saga.todo
    /\ \A s : Undid(s)' => s \notin steps \/ s = "control" \/ Undid(s)
    /\ Busy' => (Applied' => Applied)
    /\ Busy' /\ Did("control")' /\ Applied /\ ~Applied' =>
          saga'.dirty /\ saga'.todo \cap {"home", "render", "publish"} = {}

(* A step that succeeds is onwards for every other step. *)
LEMMA ProceedOnwards ==
    ASSUME OperationKnown, SagaKnown, NEW step, Onward(step), Proceed(step), NEW steps,
           step \notin steps, step # "control", journal' = journal
    PROVE  Onwards(steps) /\ Busy' /\ Ahead'
<1> DEFINE same == /\ saga'.mode = saga.mode /\ saga'.ask = saga.ask /\ saga'.old = saga.old
                   /\ saga'.op = saga.op /\ saga'.dirty = saga.dirty
                   /\ saga'.todo = saga.todo \ {step} /\ saga'.did = saga.did \cup {step}
                   /\ saga.mode = "forward" /\ ~saga.dirty
<1>1. same
  BY ProceedFields, OnwardKnown DEF SagaKnown, SameSaga
<1> HIDE DEF same
<1>2. (Busy' <=> Busy) /\ Busy /\ Ahead /\ Ahead' /\ ~Behind /\ ~Behind'
  BY <1>1 DEF same, Busy, Ahead, Behind
<1>3. \A s \in steps \cup {"control"} : Did(s)' <=> Did(s)
  BY <1>1 DEF same, Did
<1>4. (\A s : ~Undid(s)') /\ (Applied' <=> Applied)
  BY <1>2, <1>3 DEF Undid, Undoes, Applied
<1> QED
  BY <1>1, <1>2, <1>3, <1>4 DEF same, Onwards

(* Turning back is onwards: nothing is taken as done that was not. *)
LEMMA TurnOnwards ==
    ASSUME OperationKnown, SagaKnown, NEW step, Onward(step), NEW did, TurnBack(did), NEW steps,
           did = saga.did \/ (did = saga.did \cup {step} /\ step \notin steps \cup {"control"}),
           journal' = journal
    PROVE  Onwards(steps) /\ Busy' /\ Behind'
<1> DEFINE same == /\ saga'.mode = "back" /\ saga'.ask = saga.ask /\ saga'.old = saga.old
                   /\ saga'.op = saga.op /\ saga'.dirty = saga.dirty
                   /\ saga'.todo = Undo(journal.kind, did) /\ saga'.did = did
                   /\ saga.mode = "forward" /\ ~saga.dirty
<1>1. same
  BY TurnBackFields, OnwardKnown, OpOfSaga DEF SagaKnown
<1>2. Did("control") => "control" \in Undo(journal.kind, did)
  BY <1>1, ControlUndone DEF same, Did
<1>3. ~Did("remove")
  <2>1. /\ step \in Plan(journal) /\ saga.did \subseteq Plan(journal) /\ step \notin saga.did
        /\ \A t \in Plan(journal) : Forward[t] > Forward[step] => t \notin saga.did
        /\ Plan(journal) \subseteq ForwardSteps
    BY OnwardKnown, OpOfSaga, PlanSteps DEF Busy
  <2>2. step # "remove" /\ step \in ForwardSteps => Forward[step] < Forward["remove"]
    BY ForwardRanks DEF ForwardSteps
  <2> QED
    BY <2>1, <2>2, ForwardOrder DEF Did
<1> HIDE DEF same
<1>4. Busy' /\ Busy /\ Ahead /\ ~Ahead' /\ ~Behind /\ Behind'
  BY <1>1 DEF same, Busy, Ahead, Behind
<1>5. \A s \in steps \cup {"control"} : Did(s)' <=> Did(s)
  BY <1>1 DEF same, Did
<1>6. \A s : ~Undid(s)'
  BY <1>1 DEF same, Undid, Undoes, Due
<1>7. Applied' <=> Applied
  BY <1>1, <1>2, <1>4, <1>5 DEF same, Applied, Due
<1> QED
  BY <1>1, <1>3, <1>4, <1>5, <1>6, <1>7 DEF same, Onwards

(* A step undone is onwards for every other step. *)
LEMMA UndoneOnwards ==
    ASSUME OperationKnown, SagaKnown, NEW step, Back(step), Undone(step), NEW steps,
           step \notin steps \/ step = "control" \/ step \notin Undo(journal.kind, saga.did) \/ saga.dirty,
           step # "control" \/ ~Did("control"), journal' = journal
    PROVE  Onwards(steps) /\ Busy' /\ Behind'
<1> DEFINE same == /\ saga'.mode = saga.mode /\ saga'.ask = saga.ask /\ saga'.old = saga.old
                   /\ saga'.op = saga.op /\ saga'.dirty = saga.dirty
                   /\ saga'.todo = saga.todo \ {step} /\ saga'.did = saga.did
                   /\ saga.mode = "back"
<1>1. same
  BY UndoneFields, BackwardKnown DEF SagaKnown, SameSaga
<1> HIDE DEF same
<1>2. Busy' /\ Busy /\ ~Ahead /\ ~Ahead' /\ Behind /\ Behind'
  BY <1>1 DEF same, Busy, Ahead, Behind
<1>3. \A s : Did(s)' <=> Did(s)
  BY <1>1 DEF same, Did
<1>4. ASSUME NEW s, Undid(s)' PROVE s \notin steps \/ s = "control" \/ Undid(s)
  BY <1>1, <1>2, <1>4 DEF same, Undid, Undoes, Due
<1>5. Applied' <=> Applied
  BY <1>1, <1>2, <1>3 DEF same, Applied, Due, Did
<1> QED
  BY <1>1, <1>2, <1>3, <1>4, <1>5 DEF same, Onwards

(* An error that is kept is onwards: nothing counts as undone after it. *)
LEMMA KeepsOnwards ==
    ASSUME OperationKnown, SagaKnown, NEW step, Back(step), Keeps(step), NEW steps,
           "unusable" \notin steps, journal' = journal
    PROVE  Onwards(steps) /\ Busy' /\ Behind' /\ saga'.dirty
<1> DEFINE same == /\ saga'.mode = saga.mode /\ saga'.ask = saga.ask /\ saga'.old = saga.old
                   /\ saga'.op = saga.op /\ saga'.dirty = TRUE
                   /\ saga'.todo = saga.todo \ ({step} \cup DependOn(step))
                   /\ saga'.did \in {saga.did, saga.did \cup {"unusable"}}
                   /\ saga.mode = "back"
<1>1. same
  BY KeepsFields, BackwardKnown DEF SagaKnown, SameSaga
<1> HIDE DEF same
<1>2. Busy' /\ Busy /\ ~Ahead /\ ~Ahead' /\ Behind /\ Behind' /\ saga'.dirty
  BY <1>1 DEF same, Busy, Ahead, Behind
<1>3. \A s \in steps \cup {"control"} : Did(s)' <=> Did(s)
  BY <1>1 DEF same, Did
<1>4. \A s : ~Undid(s)'
  BY <1>1 DEF same, Undid, Undoes
<1>5. Applied' => Applied
  BY <1>1, <1>2, <1>3 DEF same, Applied, Due
<1>6. Applied /\ ~Applied' => step = "control" \/ "control" \in DependOn(step)
  BY <1>1, <1>2, <1>3 DEF same, Applied, Due
<1>7. Applied /\ ~Applied' => saga'.todo \cap {"home", "render", "publish"} = {}
  BY <1>1, <1>6 DEF same, DependOn
<1> QED
  BY <1>1, <1>2, <1>3, <1>4, <1>5, <1>7 DEF same, Onwards

(* A saga that is not at work is onwards of any. *)
LEMMA ElseOnwards ==
    ASSUME ~Busy', NEW steps
    PROVE  Onwards(steps)
  BY DEF Onwards, Busy, Ahead, Behind, Undid, Undoes

(* Done steps of a recovery. *)
Recoveries(steps) == \A s : Done(s)' => s \notin steps \/ Done(s)

(* A step of a recovery completes that step only. *)
LEMMA RecoveredOnwards ==
    ASSUME OperationKnown, SagaKnown, NEW step, Recovering(step), Repairing(step), NEW steps,
           step \notin steps, journal' = journal, row' = row
    PROVE  Recoveries(steps) /\ ~Busy'
<1>1. /\ saga'.mode = saga.mode /\ saga'.todo = saga.todo \ {step} /\ saga.mode = "recover"
  BY RecoveredFields, RecoveringKnown DEF SagaKnown, SameSaga
<1>2. Recovery(journal)' = Recovery(journal)
  BY SameRows DEF Recovery
<1> QED
  BY <1>1, <1>2 DEF Recoveries, Done, Due, Busy

(* Outside a recovery nothing counts as recovered. *)
LEMMA ElseRecoveries ==
    ASSUME saga'.mode # "recover", NEW steps
    PROVE  Recoveries(steps)
  BY DEF Recoveries, Done

---------------------------------------------------------------------------
(* Steps that leave rows, routes and snapshot alone.                       *)

SameJournal ==
    /\ journal'.kind = journal.kind /\ journal'.id = journal.id /\ journal'.new = journal.new
    /\ journal'.moved = journal.moved /\ journal'.to = journal.to
    /\ Underway' <=> Underway
    /\ \/ journal'.phase = journal.phase
       \/ journal'.phase = "begun" /\ (Moving => journal.phase # "accepted")

RecordsSame ==
    /\ UNCHANGED <<row, userRoute, homeOf, published>> /\ SameJournal
    /\ past'.ops = past.ops /\ past'.strayed = past.strayed

(* What is read from the journal is the same while the journal is. *)
LEMMA JournalKept ==
    journal' = journal => SameJournal
  BY DEF SameJournal, Underway

(* The facts about records and users survive a change elsewhere. *)
LEMMA RecordsFrame ==
    ASSUME Records, RecordsSame, Onwards(RecordSteps), Recoveries({"home", "publish"})
    PROVE  Records'
<1>1. (Busy' => Busy /\ saga'.ask = saga.ask /\ saga'.old = saga.old)
      /\ (Busy' => saga'.op.kind = saga.op.kind /\ saga'.op.id = saga.op.id /\ saga'.op.new = saga.op.new)
      /\ (Ahead' => Ahead) /\ (Behind' => Ahead \/ Behind) /\ (Ahead => Busy) /\ (Behind => Busy)
      /\ (Ahead' => Busy') /\ (Behind' => Busy')
      /\ (Behind' /\ Behind => saga'.todo \subseteq saga.todo)
      /\ (Behind' /\ Behind /\ saga.dirty => saga'.dirty)
      /\ (Busy' => (Applied' => Applied))
      /\ (Busy' /\ Did("control")' /\ Applied /\ ~Applied' =>
             saga'.dirty /\ saga'.todo \cap {"home", "render", "publish"} = {})
  BY DEF Onwards, Busy, Ahead, Behind
<1>2. Busy' => /\ Did("plan")' <=> Did("plan")
               /\ Did("control")' <=> Did("control")
               /\ Did("move")' <=> Did("move")
               /\ Did("home")' <=> Did("home")
               /\ Did("publish")' <=> Did("publish")
               /\ Did("expose")' <=> Did("expose")
  BY DEF Onwards, RecordSteps
<1>3. (Undid("home")' => Undid("home")) /\ (Undid("publish")' => Undid("publish"))
      /\ (Done("home")' => Done("home")) /\ (Done("publish")' => Done("publish"))
  BY DEF Onwards, RecordSteps, Recoveries
<1>4. Touched' = Touched /\ (Moving' <=> Moving) /\ Calm' = Calm /\ (Underway' <=> Underway)
      /\ (Busy' => OldRows' = OldRows /\ Bearer' = Bearer)
  BY <1>1, <1>2 DEF RecordsSame, SameJournal, OldRows, Bearer, Touched, Moving, Calm, Underway
<1>5. (\A a : Exists(a)' <=> Exists(a)) /\ (\A op : Desired(op)' = Desired(op))
      /\ (\A u : Home(u)' <=> Home(u))
      /\ Desired(journal)' = Desired(journal) /\ (Renames(journal)' <=> Renames(journal))
  BY SameRows DEF RecordsSame, SameJournal, Home, Desired, Renames
<1>6. AskKnown'
  BY <1>1, <1>2, <1>4, <1>5 DEF RecordsSame, SameJournal, AskKnown, Records
<1>7. OldRowsKnown'
  <2> SUFFICES ASSUME Busy', Did("control")' PROVE OldRowsKnown'
    BY DEF OldRowsKnown
  <2>1. OldRowsKnown /\ Busy /\ Did("control") /\ saga'.old = saga.old
        /\ saga'.op.kind = saga.op.kind /\ saga'.op.id = saga.op.id /\ saga'.op.new = saga.op.new
    BY <1>1, <1>2 DEF Records
  <2>2. CASE Applied'
    BY <2>1, <2>2, <1>1 DEF RecordsSame, SameJournal, OldRowsKnown, RowsAfter
  <2>3. CASE Applied /\ ~Applied'
    BY <2>1, <2>3, <1>1 DEF RecordsSame, SameJournal, OldRowsKnown, RowsAfter
  <2>4. CASE ~Applied /\ ~Applied'
    <3>1. Behind'
      BY <1>2, <2>4 DEF Applied, Ahead, Behind, Busy
    <3>2. Behind
      BY <3>1, <2>4, <2>1, <1>1 DEF Applied
    <3> QED
      BY <2>1, <2>4, <3>1, <3>2, <1>1 DEF RecordsSame, SameJournal, OldRowsKnown, RowsAfter
  <2> QED
    BY <2>2, <2>3, <2>4, <1>1
<1>8. OldAccounts'
  BY <1>1, <1>4, <1>5 DEF RecordsSame, SameJournal, OldAccounts, Records
<1>9. RowsKnown'
  BY <1>5 DEF RecordsSame, SameJournal, RowsKnown, Records
<1>10. UsersKnown'
  BY <1>4, <1>5 DEF RecordsSame, SameJournal, UsersKnown, Records
<1>11. OldUsers'
  BY <1>1, <1>4 DEF RecordsSame, SameJournal, OldUsers, Records
<1>12. RoutesMoved'
  BY <1>1, <1>2, <1>3, <1>4, <1>5 DEF RecordsSame, SameJournal, RoutesMoved, Records, Due
<1>13. RoutesRecovered'
  BY <1>3, <1>4, <1>5 DEF RoutesRecovered, Records
<1>14. PublishedKnown'
  BY <1>1, <1>2, <1>4, <1>5 DEF RecordsSame, SameJournal, PublishedKnown, Records, Due
<1>15. PublishedCurrent'
  BY <1>1, <1>2, <1>3, <1>4 DEF RecordsSame, SameJournal, PublishedCurrent, Records, Current
<1> QED
  BY <1>6, <1>7, <1>8, <1>9, <1>10, <1>11, <1>12, <1>13, <1>14, <1>15 DEF Records

---------------------------------------------------------------------------
(* Steps that leave rows, secrets, files and containers alone.             *)

RepairFacets == {"discard", "removal", "secret", "files", "render", "container"}

(* Whether a directory is sound depends on who has OAuth and on whose was *)
(* cut short, which only grows.                                           *)
LEMMA SameSound ==
    ASSUME past'.oauth = past.oauth, past'.cut = past.cut
    PROVE  \A dir, b : /\ SoundDir(dir, b)' <=> SoundDir(dir, b)
                       /\ Held(b)' <=> Held(b)
  BY DEF SoundDir, Held

SameOperation == /\ journal'.kind = journal.kind /\ journal'.id = journal.id
                 /\ journal'.new = journal.new
                 /\ journal'.phase # "begun" => journal.phase # "begun"
                 /\ journal'.phase = "accepted" => journal.phase = "accepted"
FacetsSame ==
    /\ UNCHANGED <<row, secret, oauthDir, configFile, container, backup, archived>>
    /\ SameOperation
    /\ past'.oauth = past.oauth /\ past'.cut = past.cut

(* The facts about files, secrets and containers survive a change *)
(* elsewhere.                                                     *)
LEMMA FacetsFrame ==
    ASSUME SagaBase, Facets, FacetsSame, Onwards(FacetSteps), Recoveries(RepairFacets),
           Behind' /\ Behind /\ Did("control") /\ Due("files") => Due("files")'
    PROVE  Facets'
<1>1. (Busy' => Busy /\ saga'.ask = saga.ask /\ saga'.old = saga.old)
      /\ (Ahead' => Ahead) /\ (Behind' => Ahead \/ Behind) /\ (Ahead => Busy) /\ (Behind => Busy)
      /\ (Ahead' => Busy') /\ (Behind' => Busy')
      /\ (Behind' /\ Ahead => ~Did("remove"))
  BY DEF Onwards, Busy, Ahead, Behind
<1>2. Busy' => /\ Did("directory")' <=> Did("directory")
               /\ Did("archive")' <=> Did("archive")
               /\ Did("copy")' <=> Did("copy")
               /\ Did("files")' <=> Did("files")
               /\ Did("control")' <=> Did("control")
               /\ Did("secret1")' <=> Did("secret1")
               /\ Did("secret2")' <=> Did("secret2")
               /\ Did("render")' <=> Did("render")
               /\ Did("build")' <=> Did("build")
               /\ Did("commit")' <=> Did("commit")
               /\ Did("stop")' <=> Did("stop")
               /\ Did("remove")' <=> Did("remove")
  BY DEF Onwards, FacetSteps
<1>3. (Undid("files")' => Undid("files")) /\ (Undid("build")' => Undid("build"))
      /\ (Undid("render")' => Undid("render")) /\ (Undid("secrets")' => Undid("secrets"))
  BY DEF Onwards, FacetSteps
<1>4. /\ Done("discard")' => Done("discard")
      /\ Done("removal")' => Done("removal")
      /\ Done("secret")' => Done("secret")
      /\ Done("files")' => Done("files")
      /\ Done("render")' => Done("render")
      /\ Done("container")' => Done("container")
  BY DEF Recoveries, RepairFacets
<1>5. Touched' = Touched /\ (Busy' => OldRows' = OldRows /\ Bearer' = Bearer)
  BY <1>1, <1>2 DEF FacetsSame, SameOperation, OldRows, Bearer, Touched
<1>6. /\ \A a : Exists(a)' <=> Exists(a)
      /\ Desired(journal)' = Desired(journal) /\ (Renames(journal)' <=> Renames(journal))
      /\ \A step : SecretName(journal, step)' = SecretName(journal, step)
  BY SameRows DEF FacetsSame, SameOperation, Desired, Renames, SecretName
<1>7. /\ \A dir, b : (SoundDir(dir, b)' <=> SoundDir(dir, b)) /\ (Held(b)' <=> Held(b))
      /\ \A a : /\ DirAgrees(a)' <=> DirAgrees(a)
                /\ ConfigAgrees(a)' <=> ConfigAgrees(a)
                /\ SecretAgrees(a)' <=> SecretAgrees(a)
                /\ ContainerAgrees(a)' <=> ContainerAgrees(a)
                /\ AccountAgrees(a)' <=> AccountAgrees(a)
  BY SameSound, <1>6 DEF FacetsSame, SameOperation, DirAgrees, ConfigAgrees, SecretAgrees, ContainerAgrees,
     AccountAgrees, SoundDir, Held
<1>8. OldSecrets'
  BY <1>1, <1>2, <1>5, <1>6 DEF FacetsSame, SameOperation, OldSecrets, Facets
<1>9. OthersAgree'
  BY <1>5, <1>7 DEF OthersAgree, Facets
<1>10. CreateKept'
  BY <1>6, <1>7 DEF FacetsSame, SameOperation, CreateKept, Facets
<1>11. UpdateKept'
  BY <1>6, <1>7 DEF FacetsSame, SameOperation, UpdateKept, Facets, SoundDir, Held
<1>12. DeleteKept'
  BY <1>6, <1>7 DEF FacetsSame, SameOperation, DeleteKept, Facets, SoundDir, Held
<1>13. ClearKept'
  BY <1>6, <1>7 DEF FacetsSame, SameOperation, ClearKept, Facets, Held
<1>14. PolicyKept'
  BY <1>7 DEF FacetsSame, SameOperation, PolicyKept, Facets
<1>15. CreateSteps'
  BY <1>1, <1>2, <1>3, <1>5 DEF FacetsSame, SameOperation, CreateSteps, Facets
<1>16. UpdateSteps'
  <2>1. Busy' /\ (Ahead' \/ Due("files")') => Ahead \/ Due("files")
    BY <1>1 DEF Onwards, Busy, Ahead, Behind, Due
  <2> QED
    BY <2>1, <1>1, <1>2, <1>3, <1>5, <1>6, <1>7
       DEF FacetsSame, SameOperation, UpdateSteps, Facets, SoundDir, Held
<1>17. DeleteSteps'
  <2> SUFFICES ASSUME Busy', journal'.kind = "delete" PROVE DeleteSteps'
    BY DEF DeleteSteps
  <2>1. Busy /\ journal.kind = "delete" /\ DeleteSteps /\ Bearer' = Bearer
    BY <1>1, <1>5 DEF FacetsSame, SameOperation, Facets
  <2>2. ASSUME Behind'
        PROVE  LET b == Bearer  dir == oauthDir[journal.id] IN
               /\ ~Did("remove")
               /\ ~Did("control") \/ ~Due("files")' => SoundDir(dir, b)
               /\ dir.of = b \/ (dir.of = 0 /\ b \in past.cut)
               /\ Held(b) => dir.is \in {"whole", "partial"}
    <3>1. CASE Ahead
      BY <3>1, <2>1, <2>2, <1>1 DEF DeleteSteps, SoundDir, Whole
    <3>2. CASE Behind
      BY <3>2, <2>1, <2>2 DEF DeleteSteps
    <3> QED
      BY <3>1, <3>2, <2>2, <1>1
  <2> QED
    BY <2>1, <2>2, <1>1, <1>2, <1>3, <1>7 DEF FacetsSame, SameOperation, DeleteSteps
<1>18. ClearSteps'
  BY <1>1, <1>2, <1>3, <1>5, <1>7 DEF FacetsSame, SameOperation, ClearSteps, Facets, SoundDir, Held
<1>19. RecoverySteps'
  BY <1>4, <1>6, <1>7 DEF FacetsSame, SameOperation, RecoverySteps, Facets, Held
<1>20. OAuthKnown'
  BY DEF FacetsSame, SameOperation, OAuthKnown, Facets
<1> QED
  BY <1>8, <1>9, <1>10, <1>11, <1>12, <1>13, <1>14, <1>15, <1>16, <1>17, <1>18, <1>19, <1>20
     DEF Facets

---------------------------------------------------------------------------
(* Steps that change nothing but the saga.                                 *)

WorldSame == UNCHANGED <<recordVars, fileVars, container, published, journal>>

(* A step that only moves the saga leaves every variable of the world. *)
LEMMA WorldFields ==
    ASSUME WorldSame
    PROVE  /\ row' = row /\ secret' = secret /\ userRoute' = userRoute /\ homeOf' = homeOf
           /\ oauthDir' = oauthDir /\ configFile' = configFile /\ container' = container
           /\ backup' = backup /\ archived' = archived /\ published' = published
           /\ journal' = journal
  BY DEF WorldSame, recordVars, fileVars

(* What is known of the operation survives while journal and rows do. *)
LEMMA OperationFrame ==
    ASSUME OperationKnown, Underway, journal' = journal, row' = row
    PROVE  OperationKnown'
<1>1. \A a : Exists(a)' <=> Exists(a)
  BY SameRows
<1> QED
  BY <1>1 DEF OperationKnown, Underway, OpShape, Moving, Touched

(* The invariant survives a step that only moves the saga, if it moves it *)
(* onwards.                                                               *)
LEMMA WorldFrame ==
    ASSUME SagaInv, WorldSame, PastTypes', Bounds, SagaKnown', Underway,
           Onwards(RecordSteps), Onwards(FacetSteps),
           Recoveries({"home", "publish"}), Recoveries(RepairFacets),
           Behind' /\ Behind /\ Did("control") /\ Due("files") => Due("files")'
    PROVE  SagaInv'
<1>1. WorldTypes'
  BY WorldFields DEF SagaInv, SagaBase, WorldTypes
<1>2. OperationKnown'
  BY WorldFields, OperationFrame DEF SagaInv, SagaBase
<1>3. Records'
  BY WorldFields, RecordsFrame, JournalKept DEF SagaInv, RecordsSame, Bounds
<1>4. Facets'
  BY WorldFields, FacetsFrame DEF SagaInv, FacetsSame, SameOperation, Bounds
<1>5. RemovedUnpublished'
  BY WorldFields DEF SagaInv, RemovedUnpublished, Bounds, Calm, Exists
<1> QED
  BY <1>1, <1>2, <1>3, <1>4, <1>5 DEF SagaInv, SagaBase

(* A step without effect on the model (the drain, the restart that *)
(* changes nothing) keeps the invariant.                           *)
LEMMA ProceedKeeps ==
    ASSUME SagaInv, NEW step \in {"drain", "restart"}, Onward(step), Proceed(step), WorldSame
    PROVE  SagaInv'
<1>1. OperationKnown /\ SagaKnown /\ PastTypes /\ SagaShape
  BY DEF SagaInv, SagaBase, SagaKnown
<1>2. journal' = journal /\ Underway
  BY <1>1, WorldFields, OnwardKnown
<1>3. SagaKnown'
  BY <1>1, <1>2, GoesOn
<1>4. past' = past
  BY <1>1, ProceedFields
<1>5. Onwards(RecordSteps) /\ Onwards(FacetSteps) /\ Ahead'
  BY <1>1, <1>2, ProceedOnwards DEF RecordSteps, FacetSteps
<1>6. Recoveries({"home", "publish"}) /\ Recoveries(RepairFacets) /\ ~Behind'
  BY <1>5, ElseRecoveries DEF Ahead, Behind
<1>7. PastTypes' /\ Bounds
  BY <1>1, <1>4 DEF PastTypes, PastShape, Bounds
<1> QED
  BY <1>2, <1>3, <1>5, <1>6, <1>7, WorldFrame

(* A step that is refused or that fails without effect keeps the *)
(* invariant.                                                    *)
LEMMA TurnKeeps ==
    ASSUME SagaInv, NEW step, Onward(step), Refuse \/ Fails, WorldSame
    PROVE  SagaInv'
<1>1. OperationKnown /\ SagaKnown /\ PastTypes
  BY DEF SagaInv, SagaBase
<1>2. journal' = journal /\ Underway
  BY <1>1, WorldFields, OnwardKnown
<1>3. TurnBack(saga.did) /\ PastTypes' /\ Bounds
  <2>1. CASE Refuse
    BY <1>1, <2>1 DEF Refuse, PastTypes, PastShape, Bounds
  <2>2. CASE Fails
    BY <1>1, <2>2, FaultFields DEF Fails
  <2> QED
    BY <2>1, <2>2
<1>4. SagaKnown'
  BY <1>1, <1>2, <1>3, TurnsBack
<1>5. Onwards(RecordSteps) /\ Onwards(FacetSteps) /\ Behind'
  BY <1>1, <1>2, <1>3, TurnOnwards
<1>6. Recoveries({"home", "publish"}) /\ Recoveries(RepairFacets) /\ ~Behind
  BY <1>5, ElseRecoveries DEF Behind, Onward
<1> QED
  BY <1>2, <1>3, <1>4, <1>5, <1>6, WorldFrame

(* A step of a compensation that fails without effect keeps the *)
(* invariant.                                                   *)
LEMMA StuckKeeps ==
    ASSUME SagaInv, NEW step, step # "files", Back(step), Stuck(step) \/ Conflicts(step), WorldSame
    PROVE  SagaInv'
<1>1. OperationKnown /\ SagaKnown /\ PastTypes /\ SagaShape
  BY DEF SagaInv, SagaBase, SagaKnown
<1>2. journal' = journal /\ Underway
  BY <1>1, WorldFields, BackwardKnown
<1>3. Keeps(step) /\ PastTypes' /\ Bounds
  <2>1. CASE Conflicts(step)
    BY <1>1, <2>1 DEF Conflicts, PastTypes, PastShape, Bounds
  <2>2. CASE Stuck(step)
    BY <1>1, <2>2, FaultFields DEF Stuck
  <2> QED
    BY <2>1, <2>2
<1>4. SagaKnown'
  BY <1>1, <1>2, <1>3, GoesBackDirty
<1>5. Onwards(RecordSteps) /\ Onwards(FacetSteps) /\ Behind'
  BY <1>1, <1>2, <1>3, KeepsOnwards DEF RecordSteps, FacetSteps
<1>6. Recoveries({"home", "publish"}) /\ Recoveries(RepairFacets)
  BY <1>5, ElseRecoveries DEF Behind
<1>7. Due("files") => Due("files")'
  <2>1. "files" \notin DependOn(step)
    BY DEF DependOn
  <2> QED
    BY <2>1, <1>1, <1>3, KeepsFields DEF Due
<1> QED
  BY <1>2, <1>3, <1>4, <1>5, <1>6, <1>7, WorldFrame

(* A step of a compensation that finds nothing to do keeps the invariant. *)
LEMMA UndoneKeeps ==
    ASSUME SagaInv, NEW step, Back(step), Undone(step), WorldSame,
           step = "restart" \/ (step = "home" /\ saga.dirty) \/ (step = "publish" /\ saga.dirty)
           \/ (step = "build" /\ saga.dirty)
           \/ (step = "control" /\ ~Did("control"))
    PROVE  SagaInv'
<1>1. OperationKnown /\ SagaKnown /\ PastTypes /\ SagaShape
  BY DEF SagaInv, SagaBase, SagaKnown
<1>2. journal' = journal /\ Underway
  BY <1>1, WorldFields, BackwardKnown
<1>3. PastTypes' /\ Bounds
  BY <1>1 DEF Undone, PastTypes, PastShape, Bounds
<1>4. SagaKnown'
  BY <1>1, <1>2, GoesBack
<1>5. Onwards(RecordSteps) /\ Onwards(FacetSteps) /\ Behind'
  BY <1>1, <1>2, UndoneOnwards DEF RecordSteps, FacetSteps
<1>6. Recoveries({"home", "publish"}) /\ Recoveries(RepairFacets)
  BY <1>5, ElseRecoveries DEF Behind
<1>7. Due("files") => Due("files")'
  BY <1>1, UndoneFields DEF Due
<1> QED
  BY <1>2, <1>3, <1>4, <1>5, <1>6, <1>7, WorldFrame

(* Going down, or ending with the journal in place, keeps the invariant: *)
(* whatever was under way, recovery can take over.                       *)
LEMMA DownKeeps ==
    ASSUME SagaInv, Underway, saga' = Down \/ (saga' = AtRestNow), PastTypes', Bounds, WorldSame
    PROVE  SagaInv'
<1>1. SagaKnown' /\ ~Busy' /\ saga'.mode # "recover"
  BY GoesDown, Rests
<1>2. Onwards(RecordSteps) /\ Onwards(FacetSteps)
  BY <1>1, ElseOnwards
<1>3. Recoveries({"home", "publish"}) /\ Recoveries(RepairFacets) /\ ~Behind'
  BY <1>1, ElseRecoveries DEF Busy, Behind
<1> QED
  BY <1>1, <1>2, <1>3, WorldFrame

(* The drain of a recovery keeps the invariant. *)
LEMMA RecoveredKeeps ==
    ASSUME SagaInv, NEW step, step = "drain", Recovering(step), Recovered(step), WorldSame
    PROVE  SagaInv'
<1>1. OperationKnown /\ SagaKnown /\ PastTypes /\ SagaShape /\ Repairing(step)
  BY DEF SagaInv, SagaBase, SagaKnown, Recovered, Repairing
<1>2. journal' = journal /\ row' = row /\ Underway /\ (\A op : Recovery(op)' = Recovery(op))
  BY <1>1, WorldFields, RecoveringKnown, SameRows
<1>3. SagaKnown'
  BY <1>1, <1>2, Recovers
<1>4. PastTypes' /\ Bounds
  BY <1>1 DEF Recovered, PastTypes, PastShape, Bounds
<1>5. Recoveries({"home", "publish"}) /\ Recoveries(RepairFacets) /\ ~Busy'
  BY <1>1, <1>2, RecoveredOnwards DEF RepairFacets
<1>6. Onwards(RecordSteps) /\ Onwards(FacetSteps) /\ ~Behind'
  BY <1>5, ElseOnwards DEF Busy, Behind
<1> QED
  BY <1>2, <1>3, <1>4, <1>5, <1>6, WorldFrame

(* A recovery that stops without effect keeps the invariant. *)
LEMMA StopsKeeps ==
    ASSUME SagaInv, saga.mode = "recover", Stops \/ CannotRecover, WorldSame
    PROVE  SagaInv'
<1>1. PastTypes' /\ Bounds /\ saga' = Down
  <2>1. CASE Stops
    BY <2>1, FaultFields DEF Stops, SagaInv, SagaBase
  <2>2. CASE CannotRecover
    BY <2>2 DEF CannotRecover, SagaInv, SagaBase, PastTypes, PastShape, Bounds
  <2> QED
    BY <2>1, <2>2
<1>2. Underway
  BY OpOfSaga DEF SagaInv, SagaBase
<1> QED
  BY <1>1, <1>2, DownKeeps

---------------------------------------------------------------------------
(* Steps forward that leave rows, routes and snapshot alone.               *)

(* Which kinds of operation have which steps. *)
LEMMA KindOfStep ==
    ASSUME NEW op, op.kind \in {"create", "update", "delete", "clear", "policy"}
    PROVE  /\ "directory" \in Plan(op) <=> op.kind = "create"
           /\ "archive" \in Plan(op) <=> op.kind = "delete"
           /\ "drain" \in Plan(op) <=> op.kind = "delete"
           /\ "stop" \in Plan(op) <=> op.kind = "delete"
           /\ "remove" \in Plan(op) <=> op.kind = "delete"
           /\ "copy" \in Plan(op) <=> op.kind = "clear" \/ (op.kind = "update" /\ Renames(op))
           /\ "files" \in Plan(op) <=> op.kind \in {"clear", "update"}
           /\ "home" \in Plan(op) <=> op.kind \in {"clear", "update"}
           /\ "plan" \in Plan(op) <=> op.kind \in {"clear", "update"}
           /\ "move" \in Plan(op) <=> op.kind \in {"clear", "update"}
           /\ "expose" \in Plan(op) <=> op.kind \in {"clear", "update"}
           /\ "secret1" \in Plan(op) <=> op.kind \in {"create", "update", "delete"}
           /\ "secret2" \in Plan(op) <=> op.kind = "update" /\ Renames(op)
           /\ "build" \in Plan(op) <=> op.kind \in {"create", "update", "delete"}
           /\ "render" \in Plan(op) <=> op.kind # "clear"
           /\ "control" \in Plan(op) <=> op.kind # "clear"
           /\ "restart" \in Plan(op) <=> op.kind = "clear"
           /\ "commit" \in Plan(op) <=> op.kind = "update"
           /\ "note" \in Plan(op) <=> op.kind # "policy"
           /\ "publish" \in Plan(op)
  BY DEF Plan, Creation, Evacuation, Removal, PolicyChange, Renames

(* When a step is next, those before it are done and those after it are *)
(* not.                                                                 *)
LEMMA StepBefore ==
    ASSUME OperationKnown, SagaKnown, NEW step, Onward(step)
    PROVE  /\ \A t \in Plan(journal) : /\ Forward[t] < Forward[step] => Did(t)
                                       /\ Forward[t] >= Forward[step] => ~Did(t)
           /\ \A t : t \notin Plan(journal) => ~Did(t)
           /\ step \in Plan(journal) /\ step \in ForwardSteps
<1>1. /\ step \in Plan(journal) /\ step \notin saga.did
      /\ saga.did = Plan(journal) \ saga.todo
      /\ \A t \in Plan(journal) : /\ Forward[t] < Forward[step] => t \in saga.did
                                  /\ Forward[t] > Forward[step] => t \notin saga.did
      /\ Plan(journal) \subseteq ForwardSteps
  BY OnwardKnown, OpOfSaga, PlanSteps
<1>2. \A t \in Plan(journal) : Forward[t] >= Forward[step] => t \notin saga.did
  BY <1>1, ForwardOrder
<1> QED
  BY <1>1, <1>2 DEF Did

(* The phase of the journal tells which steps were done *)
(* (advanceOperation).                                  *)
LEMMA PhaseKnown ==
    ASSUME OperationKnown, SagaKnown, Busy
    PROVE  /\ journal.phase = "begun" <=> Did("note")
           /\ Moving => (journal.phase = "accepted" <=> ~Did("plan"))
           /\ ~Moving => (journal.phase = "accepted" <=> ~Did("note"))
           /\ journal.phase \in {"accepted", "routes_prepared", "begun"}
  BY OpOfSaga DEF OperationKnown, SagaKnown, Moving

(* Nothing about the operation or the accounts changes; files may be cut.  *)
Grown == /\ past'.ops = past.ops /\ past'.strayed = past.strayed
         /\ past'.oauth = past.oauth /\ past.cut \subseteq past'.cut
StillThere == UNCHANGED <<row, userRoute, homeOf, published, journal>>
Sounder == \A dir, b : /\ SoundDir(dir, b) => SoundDir(dir, b)'
                       /\ Held(b)' => Held(b)

(* What a step that leaves the rows and the journal leaves with them. *)
LEMMA Static ==
    ASSUME journal' = journal, row' = row, Grown
    PROVE  /\ Touched' = Touched /\ Calm' = Calm /\ (Underway' <=> Underway)
           /\ \A a : Exists(a)' <=> Exists(a)
           /\ Desired(journal)' = Desired(journal)
           /\ Recovery(journal)' = Recovery(journal)
           /\ Renames(journal)' <=> Renames(journal)
           /\ Sounder
           /\ \A a : DirAgrees(a) /\ oauthDir'[a] = oauthDir[a] => DirAgrees(a)'
<1>1. /\ Touched' = Touched /\ Calm' = Calm /\ (Underway' <=> Underway)
      /\ \A a : Exists(a)' <=> Exists(a)
      /\ Desired(journal)' = Desired(journal)
      /\ Recovery(journal)' = Recovery(journal)
      /\ Renames(journal)' <=> Renames(journal)
  BY SameRows DEF Touched, Calm, Underway, Renames, Grown, Desired, Recovery
<1>2. Sounder
  BY DEF Sounder, SoundDir, Held, Grown
<1>3. ASSUME NEW a, DirAgrees(a), oauthDir'[a] = oauthDir[a]
      PROVE  DirAgrees(a)'
  <2>1. \A dir, b : SoundDir(dir, b) => /\ dir.of = b \/ (dir.of = 0 /\ b \in past'.cut)
                                        /\ b \in past'.oauth \ past'.cut => dir = Whole(b)
    BY DEF SoundDir, Held, Grown
  <2> QED
    BY <1>1, <1>3, <2>1 DEF DirAgrees, SoundDir, Held, Whole
<1> QED
  BY <1>1, <1>2, <1>3

Known == /\ saga.op.kind = journal.kind /\ saga.op.id = journal.id /\ saga.op.new = journal.new
         /\ Renames(saga.op) <=> Renames(journal)
         /\ FinalId(saga.op) = FinalId(journal)
         /\ journal.kind \in {"create", "update", "delete", "clear", "policy"}
         /\ journal.id \in AccountId /\ journal.id # 0
         /\ journal.kind = "update" => journal.new \in AccountId /\ journal.new # 0
         /\ journal.kind # "update" => journal.new = 0

Forwarded(step) ==
    /\ Grown /\ past' = past /\ Busy /\ Busy' /\ Ahead /\ Ahead' /\ ~Behind /\ ~Behind'
    /\ \A s : ~Undid(s)' /\ ~Done(s)' /\ ~Undid(s)
    /\ \A s : Did(s)' <=> Did(s) \/ s = step
    /\ saga'.ask = saga.ask /\ saga'.old = saga.old /\ saga'.mode # "recover"
    /\ OldRows' = OldRows /\ Bearer' = Bearer
    /\ Known /\ journal' = journal /\ row' = row

(* A step that succeeds and leaves records, users and snapshot: what is *)
(* left to show is about files, secrets and containers.                 *)
LEMMA StepForward ==
    ASSUME SagaInv, NEW step, step \notin RecordSteps \cup {"note"}, Onward(step), Proceed(step),
           StillThere
    PROVE  PastTypes' /\ OperationKnown' /\ SagaKnown' /\ Records' /\ Forwarded(step)
<1>1. OperationKnown /\ SagaKnown /\ PastTypes /\ SagaShape /\ Records
  BY DEF SagaInv, SagaBase, SagaKnown
<1>2. journal' = journal /\ row' = row /\ Underway
  BY <1>1, OnwardKnown DEF StillThere
<1>3. SagaKnown'
  BY <1>1, <1>2, GoesOn DEF RecordSteps
<1>4. /\ saga'.mode = saga.mode /\ saga'.op = saga.op /\ saga'.ask = saga.ask
      /\ saga'.old = saga.old /\ saga'.did = saga.did \cup {step} /\ past' = past
  BY <1>1, ProceedFields DEF SameSaga
<1>5. Onwards(RecordSteps) /\ Ahead' /\ Busy'
  BY <1>1, <1>2, ProceedOnwards DEF RecordSteps
<1>6. Recoveries({"home", "publish"}) /\ saga'.mode # "recover"
  BY <1>5, ElseRecoveries DEF Ahead
<1>7. PastTypes'
  BY <1>1, <1>4 DEF PastTypes, PastShape
<1>8. OperationKnown'
  BY <1>1, <1>2, OperationFrame
<1>9. Records'
  BY <1>1, <1>4, <1>5, <1>6, RecordsFrame, JournalKept DEF RecordsSame, StillThere
<1>10. Busy /\ Ahead /\ ~Behind /\ ~Behind' /\ (\A s : ~Undid(s)' /\ ~Done(s)' /\ ~Undid(s))
  BY <1>1, <1>5, OnwardKnown DEF Busy, Ahead, Behind, Undid, Undoes, Done
<1>11. \A s : Did(s)' <=> Did(s) \/ s = step
  BY <1>4 DEF Did
<1>12. OldRows' = OldRows /\ Bearer' = Bearer
  <2>1. Did("control")' <=> Did("control")
    BY <1>11 DEF RecordSteps
  <2> QED
    BY <2>1, <1>2, <1>4 DEF OldRows, Bearer
<1>13. Known
  BY <1>1, <1>10, OpOfSaga DEF Known
<1> QED
  BY <1>2, <1>3, <1>4, <1>5, <1>6, <1>7, <1>8, <1>9, <1>10, <1>11, <1>12, <1>13
     DEF Forwarded, Grown

Turned(did) ==
    /\ Busy /\ Busy' /\ Ahead /\ ~Ahead' /\ ~Behind /\ Behind'
    /\ \A s : ~Undid(s)' /\ ~Done(s)' /\ ~Undid(s)
    /\ \A s : Did(s)' <=> s \in did
    /\ \A s : Due(s)' <=> s \in Undo(journal.kind, did)
    /\ "remove" \notin saga.did
    /\ saga'.ask = saga.ask /\ saga'.old = saga.old /\ saga'.mode # "recover"
    /\ OldRows' = OldRows /\ Bearer' = Bearer
    /\ Known /\ journal' = journal /\ row' = row

(* The same for a step that fails. *)
LEMMA StepTurn ==
    ASSUME SagaInv, NEW step, Onward(step), NEW did, TurnBack(did),
           did = saga.did \/ (did = saga.did \cup {step} /\ step \notin RecordSteps \cup {"note"}),
           StillThere, Grown
    PROVE  OperationKnown' /\ SagaKnown' /\ Records' /\ Turned(did)
<1>1. OperationKnown /\ SagaKnown /\ PastTypes /\ SagaShape /\ Records
  BY DEF SagaInv, SagaBase, SagaKnown
<1>2. journal' = journal /\ row' = row /\ Underway /\ Busy /\ Ahead /\ ~Behind
  BY <1>1, OnwardKnown DEF StillThere, Ahead, Behind
<1>3. SagaKnown'
  BY <1>1, <1>2, TurnsBack DEF RecordSteps
<1>4. /\ saga'.mode = "back" /\ saga'.op = saga.op /\ saga'.ask = saga.ask
      /\ saga'.old = saga.old /\ saga'.did = did /\ saga'.todo = Undo(journal.kind, did)
  BY <1>1, <1>2, TurnBackFields, OpOfSaga
<1>5. Onwards(RecordSteps) /\ Behind' /\ Busy'
  BY <1>1, <1>2, TurnOnwards DEF RecordSteps
<1>6. Recoveries({"home", "publish"}) /\ saga'.mode # "recover" /\ ~Ahead'
  BY <1>5, ElseRecoveries DEF Behind, Ahead
<1>7. OperationKnown'
  BY <1>1, <1>2, OperationFrame
<1>8. Records'
  BY <1>1, <1>4, <1>5, <1>6, RecordsFrame, JournalKept DEF RecordsSame, StillThere, Grown
<1>9. \A s : ~Undid(s)' /\ ~Done(s)' /\ ~Undid(s)
  BY <1>2, <1>4 DEF Behind, Undid, Undoes, Done, Due
<1>10. (\A s : Did(s)' <=> s \in did) /\ (\A s : Due(s)' <=> s \in Undo(journal.kind, did))
  BY <1>4 DEF Did, Due
<1>11. "remove" \notin saga.did
  BY <1>2, <1>5 DEF Onwards, Did
<1>12. OldRows' = OldRows /\ Bearer' = Bearer
  <2>1. Did("control")' <=> Did("control")
    BY <1>10 DEF RecordSteps, Did
  <2> QED
    BY <2>1, <1>2, <1>4 DEF OldRows, Bearer
<1>13. Known
  BY <1>1, <1>2, OpOfSaga DEF Known
<1> QED
  BY <1>2, <1>3, <1>4, <1>5, <1>6, <1>7, <1>8, <1>9, <1>10, <1>11, <1>12, <1>13 DEF Turned

(* The same for a process that dies. *)
LEMMA StepDown ==
    ASSUME SagaInv, Underway, saga' = Down, StillThere, Grown
    PROVE  /\ OperationKnown' /\ SagaKnown' /\ Records'
           /\ ~Busy' /\ saga'.mode = "down" /\ journal' = journal /\ row' = row
<1>1. SagaKnown' /\ ~Busy' /\ saga'.mode = "down"
  BY GoesDown
<1>2. Onwards(RecordSteps) /\ Recoveries({"home", "publish"})
  BY <1>1, ElseOnwards, ElseRecoveries
<1>3. OperationKnown'
  BY OperationFrame DEF SagaInv, SagaBase, StillThere
<1>4. Records'
  BY <1>2, RecordsFrame, JournalKept DEF SagaInv, RecordsSame, StillThere, Grown
<1> QED
  BY <1>1, <1>3, <1>4 DEF StillThere

(* The accounts that the operation is not about stay as they are; *)
(* rendering writes what they have anyway.                        *)
LEMMA OthersFrame ==
    ASSUME OthersAgree, journal' = journal, row' = row, Grown,
           \A a \in AccountId \ Touched :
              /\ oauthDir'[a] = oauthDir[a] /\ secret'[a] = secret[a]
              /\ (configFile'[a] <=> configFile[a]) \/ (configFile'[a] <=> (configFile[a] \/ Exists(a)))
              /\ container'[a] = "none" <=> container[a] = "none"
    PROVE  OthersAgree'
<1>1. Touched' = Touched /\ (\A a : Exists(a)' <=> Exists(a))
      /\ \A a : DirAgrees(a) /\ oauthDir'[a] = oauthDir[a] => DirAgrees(a)'
  BY Static
<1>2. ASSUME NEW a \in AccountId \ Touched PROVE AccountAgrees(a)'
  <2>1. DirAgrees(a) /\ ConfigAgrees(a) /\ SecretAgrees(a) /\ ContainerAgrees(a)
    BY DEF OthersAgree, AccountAgrees
  <2> QED
    BY <1>1, <2>1 DEF AccountAgrees, ConfigAgrees, SecretAgrees, ContainerAgrees
<1> QED
  BY <1>1, <1>2 DEF OthersAgree

(* Archives only grow, and nobody gets lost while the rows stay. *)
LEMMA OAuthFrame ==
    ASSUME OAuthKnown, row' = row, Grown, archived \subseteq archived'
    PROVE  OAuthKnown'
  BY DEF OAuthKnown, Grown

(* The facets about the kind of the operation in progress. *)
LEMMA OtherKinds ==
    /\ journal'.kind # "create" => CreateKept' /\ CreateSteps'
    /\ journal'.kind # "update" => UpdateKept' /\ UpdateSteps'
    /\ journal'.kind # "delete" => DeleteKept' /\ DeleteSteps' /\ RemovedUnpublished'
    /\ journal'.kind # "clear" => ClearKept' /\ ClearSteps'
    /\ journal'.kind # "policy" => PolicyKept'
    /\ ~Busy' => CreateSteps' /\ UpdateSteps' /\ DeleteSteps' /\ ClearSteps' /\ OldSecrets'
    /\ saga'.mode # "recover" => RecoverySteps'
  BY DEF CreateKept, CreateSteps, UpdateKept, UpdateSteps, DeleteKept, DeleteSteps,
     RemovedUnpublished, ClearKept, ClearSteps, PolicyKept, OldSecrets, RecoverySteps, Done

---------------------------------------------------------------------------
(* The steps of an operation on the files.                                 *)

(* The parts of the invariant, to cite it once. *)
LEMMA Facts ==
    ASSUME SagaInv
    PROVE  /\ SagaBase /\ Records /\ Facets /\ RemovedUnpublished
           /\ PastTypes /\ WorldTypes /\ OperationKnown /\ SagaKnown /\ SagaShape
           /\ AskKnown /\ OldRowsKnown /\ OldAccounts /\ RowsKnown
           /\ UsersKnown /\ OldUsers /\ RoutesMoved /\ RoutesRecovered
           /\ PublishedKnown /\ PublishedCurrent
           /\ OldSecrets /\ OthersAgree
           /\ CreateKept /\ UpdateKept /\ DeleteKept /\ ClearKept /\ PolicyKept
           /\ CreateSteps /\ UpdateSteps /\ DeleteSteps /\ ClearSteps /\ RecoverySteps
           /\ OAuthKnown
  BY DEF SagaInv, SagaBase, SagaKnown, Records, Facets

(* The invariant from its parts. *)
LEMMA Together ==
    ASSUME PastTypes', WorldTypes', OperationKnown', SagaKnown', Records',
           OldSecrets', OthersAgree', OAuthKnown', RecoverySteps',
           CreateKept', UpdateKept', DeleteKept', ClearKept', PolicyKept',
           CreateSteps', UpdateSteps', DeleteSteps', ClearSteps', RemovedUnpublished'
    PROVE  SagaInv'
  BY DEF SagaInv, SagaBase, Facets

(* What becomes of a directory that is cut short. *)
LEMMA DirTypes ==
    /\ NoDir \in Directory
    /\ \A b \in Int : EmptyOf(b) \in Directory
    /\ \A dir \in Directory : /\ Partial(dir) \in Directory
                              /\ dir.of \in Int
                              /\ dir.is = "none" => dir = NoDir
                              /\ Partial(dir).of \in {0, dir.of}
                              /\ dir.is # "none" => Partial(dir).of = dir.of
                              /\ Partial(dir).is # "none"
                              /\ dir.is = "whole" => Partial(dir).is = "partial"
  BY DEF Directory, NoDir, EmptyOf, Partial

(* The account of an operation in progress, before and after its records.  *)
LEMMA Bearers ==
    ASSUME SagaInv, Busy
    PROVE  /\ Bearer \in Int
           /\ Bearer # 0
           /\ journal.kind \in {"create", "update", "delete", "clear", "policy"}
           /\ journal.kind # "create" /\ ~Did("control") =>
                 Exists(journal.id) /\ row[journal.id].born = Bearer
           /\ journal.kind = "create" /\ ~Did("note") => ~Exists(journal.id)
           /\ Renames(journal) /\ ~Did("control") => ~Exists(journal.new)
           /\ journal.kind \in {"clear", "update"} /\ ~Did("control") => Desired(journal) = journal.id
<1>1. /\ PastTypes /\ WorldTypes /\ OperationKnown /\ SagaKnown /\ AskKnown /\ OldRowsKnown
      /\ OldAccounts /\ RowsKnown /\ Underway
  BY Facts, OpOfSaga
<1>2. /\ journal.kind \in {"create", "update", "delete", "clear", "policy"}
      /\ journal.id \in AccountId
  BY <1>1, OpOfSaga
<1>3. OldRows \in [AccountId -> Account]
  BY <1>1 DEF OldRows, OldRowsKnown, WorldTypes
<1>4. Bearer \in Int
  BY <1>1, <1>2, <1>3 DEF Bearer, AskKnown, PastTypes, Account
<1>5. Bearer # 0
  <2>1. CASE journal.kind = "create"
    BY <1>1, <2>1 DEF Bearer, AskKnown, PastTypes
  <2>2. CASE journal.kind # "create"
    BY <1>1, <2>2 DEF Bearer, OldAccounts
  <2> QED
    BY <2>1, <2>2
<1>6. journal.kind # "create" /\ ~Did("control") =>
         Exists(journal.id) /\ row[journal.id].born = Bearer
  BY <1>5 DEF Bearer, OldRows, Exists
<1>7. journal.kind = "create" /\ ~Did("note") => ~Exists(journal.id)
  BY <1>1, PhaseKnown DEF RowsKnown, Moving
<1>8. Renames(journal) /\ ~Did("control") => ~Exists(journal.new)
  BY <1>1 DEF OldAccounts, OldRows, Exists
<1>9. journal.kind \in {"clear", "update"} /\ ~Did("control") => Desired(journal) = journal.id
  BY <1>6, <1>8 DEF Desired, Renames
<1> QED
  BY <1>2, <1>4, <1>5, <1>6, <1>7, <1>8, <1>9

(* Drain keeps the invariant. *)
LEMMA DrainKeeps ==
    ASSUME SagaInv, Drain
    PROVE  SagaInv'
<1>1. WorldSame
  BY DEF Drain, operationFrame, WorldSame
<1> QED
  BY <1>1, ProceedKeeps, TurnKeeps DEF Drain

(* PrepareDirectory keeps the invariant: the directory of a new account *)
(* is its own and empty.                                                *)
LEMMA PrepareDirectoryKeeps ==
    ASSUME SagaInv, PrepareDirectory
    PROVE  SagaInv'
<1>1. Onward("directory") /\ UNCHANGED <<row, secret, userRoute, homeOf, configFile, backup,
                                         archived, container, published, journal>>
  BY DEF PrepareDirectory, filesFrame, recordVars
<1>2. CASE (Refuse \/ Fails) /\ UNCHANGED oauthDir
  BY <1>1, <1>2, TurnKeeps DEF WorldSame, recordVars, fileVars
<1>3. CASE /\ ~PathsExist(saga.op.id)
           /\ oauthDir' = [oauthDir EXCEPT ![saga.op.id] = EmptyOf(saga.ask.born)]
           /\ Proceed("directory")
  <2>1. PastTypes' /\ OperationKnown' /\ SagaKnown' /\ Records' /\ Forwarded("directory")
    BY <1>1, <1>3, StepForward DEF RecordSteps, StillThere
  <2>2. /\ Grown /\ journal' = journal /\ row' = row /\ Busy /\ Busy' /\ Known
        /\ saga'.ask = saga.ask /\ saga'.old = saga.old /\ saga'.mode # "recover"
        /\ OldRows' = OldRows /\ Bearer' = Bearer
        /\ \A s : ~Undid(s)'
        /\ \A s : Did(s)' <=> Did(s) \/ s = "directory"
    BY <2>1 DEF Forwarded
  <2>3. journal.kind = "create" /\ ~Did("note") /\ ~Did("control") /\ ~Did("secret1")
        /\ ~Did("render") /\ ~Did("build")
    BY <1>1, <2>2, Facts, StepBefore, KindOfStep, ForwardRanks DEF Known
  <2>4. ~Exists(journal.id) /\ Bearer = saga.ask.born /\ Bearer \in Int
    BY <2>2, <2>3, Bearers DEF Bearer
  <2>5. (\A a : Exists(a)' <=> Exists(a)) /\ Touched' = Touched
    BY <2>2, Static
  <2>6. WorldTypes'
    BY <1>1, <1>3, <2>2, <2>4, Facts, DirTypes DEF WorldTypes, Known
  <2>7. OldSecrets'
    BY <1>1, <2>2, <2>5, Facts DEF OldSecrets, Renames
  <2>8. OthersAgree'
    BY <1>1, <1>3, <2>2, Facts, OthersFrame DEF Known, Touched, WorldTypes
  <2>9. OAuthKnown'
    BY <1>1, <2>2, Facts, OAuthFrame
  <2>10. CreateKept'
    BY <1>1, <2>2, <2>4, <2>5, Facts DEF CreateKept
  <2>11. CreateSteps'
    BY <1>1, <1>3, <2>2, <2>3, <2>4, Facts DEF CreateSteps, Known, WorldTypes
  <2> QED
    BY <2>1, <2>2, <2>3, <2>6, <2>7, <2>8, <2>9, <2>10, <2>11, OtherKinds, Together
<1> QED
  BY <1>1, <1>2, <1>3 DEF PrepareDirectory

(* CommitFiles keeps the invariant: the configuration of the old ID goes *)
(* when the new one is in place.                                         *)
LEMMA CommitFilesKeeps ==
    ASSUME SagaInv, CommitFiles
    PROVE  SagaInv'
<1>1. Onward("commit") /\ UNCHANGED <<row, secret, userRoute, homeOf, oauthDir, backup,
                                      archived, container, published, journal>>
  BY DEF CommitFiles, filesFrame, recordVars
<1>2. CASE Fails /\ UNCHANGED configFile
  BY <1>1, <1>2, TurnKeeps DEF WorldSame, recordVars, fileVars
<1>3. CASE /\ Proceed("commit")
           /\ configFile' = IF Renames(saga.op)
                            THEN [configFile EXCEPT ![saga.op.id] = FALSE] ELSE configFile
  <2>1. PastTypes' /\ OperationKnown' /\ SagaKnown' /\ Records' /\ Forwarded("commit")
    BY <1>1, <1>3, StepForward DEF RecordSteps, StillThere
  <2>2. /\ Grown /\ journal' = journal /\ row' = row /\ Busy /\ Busy' /\ Known /\ Ahead
        /\ saga'.ask = saga.ask /\ saga'.old = saga.old /\ saga'.mode # "recover"
        /\ OldRows' = OldRows /\ Bearer' = Bearer
        /\ \A s : ~Undid(s)'
        /\ \A s : Did(s)' <=> Did(s) \/ s = "commit"
    BY <2>1 DEF Forwarded
  <2>3. journal.kind = "update" /\ Did("note") /\ Did("files") /\ Did("control") /\ Did("secret1")
        /\ Did("render") /\ Did("build") /\ journal.phase = "begun"
    BY <1>1, <2>2, Facts, StepBefore, KindOfStep, ForwardRanks, PhaseKnown DEF Known
  <2>5. /\ (\A a : Exists(a)' <=> Exists(a)) /\ Touched' = Touched
        /\ Desired(journal)' = Desired(journal) /\ (Renames(journal)' <=> Renames(journal))
        /\ (\A dir, b : SoundDir(dir, b) => SoundDir(dir, b)')
    BY <2>2, Static DEF Sounder
  <2>6. WorldTypes'
    BY <1>1, <1>3, <2>2, Facts DEF WorldTypes, Known
  <2>7. OldSecrets'
    BY <1>1, <2>2, <2>5, Facts DEF OldSecrets
  <2>8. OthersAgree'
    BY <1>1, <1>3, <2>2, Facts, OthersFrame DEF Known, Touched, WorldTypes
  <2>9. OAuthKnown'
    BY <1>1, <2>2, Facts, OAuthFrame
  <2>10. UpdateKept'
    BY <1>1, <1>3, <2>2, <2>3, <2>5, Facts DEF UpdateKept, Known
  <2>11. UpdateSteps'
    <3>1. Renames(journal) => journal.new # journal.id
      BY DEF Renames
    <3>2. \A step : SecretName(journal, step)' = SecretName(journal, step)
      BY <2>2, <2>5 DEF SecretName
    <3> QED
      BY <1>1, <1>3, <2>2, <2>3, <2>5, <3>1, <3>2, Facts DEF UpdateSteps, Known, WorldTypes
  <2> QED
    BY <2>1, <2>2, <2>3, <2>6, <2>7, <2>8, <2>9, <2>10, <2>11, OtherKinds, Together
<1> QED
  BY <1>1, <1>2, <1>3 DEF CommitFiles

(* The account of a deletion whose records are gone. *)
LEMMA RemovedRow ==
    ASSUME SagaInv, Ahead, Did("control"), journal.kind = "delete"
    PROVE  ~Exists(journal.id)
<1>1. row = RowsAfter(saga.old.row) /\ saga.old.row \in [AccountId -> Account]
  BY Facts DEF OldRowsKnown, Busy, Ahead, Applied
<1>2. saga.op.kind = "delete" /\ saga.op.id = journal.id /\ journal.id \in AccountId
  BY Facts, OpOfSaga DEF Busy, Ahead
<1> QED
  BY <1>1, <1>2 DEF RowsAfter, Exists, NoAccount

(* RemoveFiles keeps the invariant: the files that a deletion removes are *)
(* in its backup.                                                         *)
LEMMA RemoveFilesKeeps ==
    ASSUME SagaInv, RemoveFiles
    PROVE  SagaInv'
<1>1. Onward("remove") /\ UNCHANGED <<row, secret, userRoute, homeOf, backup,
                                      archived, container, published, journal>>
  BY DEF RemoveFiles, filesFrame, recordVars
<1>2. Known /\ Busy /\ Ahead /\ ~Behind /\ (\A s : ~Undid(s))
  BY <1>1, Facts, OpOfSaga, OnwardKnown DEF Known, Busy, Ahead, Behind, Undid, Undoes
<1>3. journal.kind = "delete" /\ Did("note") /\ Did("archive") /\ Did("control")
      /\ Did("build") /\ Did("stop") /\ Did("secret1") /\ ~Did("remove") /\ journal.phase = "begun"
  BY <1>1, <1>2, Facts, StepBefore, KindOfStep, ForwardRanks, PhaseKnown DEF Known
<1>4. ~Exists(journal.id) /\ Bearer \in Int
  BY <1>2, <1>3, RemovedRow, Bearers
<1>5. CASE /\ Proceed("remove")
           /\ configFile' = [configFile EXCEPT ![saga.op.id] = FALSE]
           /\ oauthDir' = [oauthDir EXCEPT ![saga.op.id] = NoDir]
  <2>1. PastTypes' /\ OperationKnown' /\ SagaKnown' /\ Records' /\ Forwarded("remove")
    BY <1>1, <1>5, StepForward DEF RecordSteps, StillThere
  <2>2. /\ Grown /\ journal' = journal /\ row' = row /\ Busy' /\ Ahead' /\ ~Behind' /\ past' = past
        /\ saga'.ask = saga.ask /\ saga'.old = saga.old /\ saga'.mode # "recover"
        /\ OldRows' = OldRows /\ Bearer' = Bearer
        /\ \A s : ~Undid(s)'
        /\ \A s : Did(s)' <=> Did(s) \/ s = "remove"
    BY <2>1 DEF Forwarded
  <2>3. /\ (\A a : Exists(a)' <=> Exists(a)) /\ Touched' = Touched /\ Calm' = Calm
        /\ \A dir, b : (SoundDir(dir, b)' <=> SoundDir(dir, b)) /\ (Held(b)' <=> Held(b))
    BY <2>2, Static, SameSound
  <2>6. WorldTypes'
    BY <1>1, <1>2, <1>5, Facts, DirTypes DEF WorldTypes, Known
  <2>7. OldSecrets'
    BY <1>1, <1>2, <2>2, <2>3, Facts DEF OldSecrets, Renames
  <2>8. OthersAgree'
    BY <1>1, <1>2, <1>5, <2>2, Facts, OthersFrame DEF Known, Touched, WorldTypes
  <2>9. OAuthKnown'
    BY <1>1, <2>2, Facts, OAuthFrame
  <2>10. DeleteKept'
    BY <1>1, <1>3, <1>4, <2>2, <2>3 DEF DeleteKept
  <2>11. DeleteSteps'
    BY <1>1, <1>2, <1>3, <1>5, <2>2, <2>3, Facts DEF DeleteSteps, Known, WorldTypes
  <2>12. RemovedUnpublished'
    BY <1>1, <2>2, <2>3, Facts DEF RemovedUnpublished
  <2> QED
    BY <1>3, <2>1, <2>2, <2>6, <2>7, <2>8, <2>9, <2>10, <2>11, <2>12, OtherKinds, Together
<1>7. CASE /\ Fails
           /\ configFile' \in {configFile, [configFile EXCEPT ![saga.op.id] = FALSE]}
           /\ oauthDir' \in {oauthDir, [oauthDir EXCEPT ![saga.op.id] = Partial(@)]}
  <2> DEFINE dir == oauthDir[journal.id]
  <2>1. PastTypes' /\ Bounds /\ Grown /\ TurnBack(saga.did)
    BY <1>7, FaultFields, Facts DEF Fails, Bounds, Grown
  <2>2. OperationKnown' /\ SagaKnown' /\ Records' /\ Turned(saga.did)
    BY <1>1, <2>1, StepTurn DEF StillThere
  <2>3. /\ journal' = journal /\ row' = row /\ Busy' /\ ~Ahead' /\ Behind'
        /\ saga'.ask = saga.ask /\ saga'.old = saga.old /\ saga'.mode # "recover"
        /\ OldRows' = OldRows /\ Bearer' = Bearer
        /\ \A s : ~Undid(s)'
        /\ \A s : Did(s)' <=> Did(s)
        /\ \A s : Due(s)' <=> s \in Undo(journal.kind, saga.did)
    BY <2>2 DEF Turned, Did
  <2>4. /\ (\A a : Exists(a)' <=> Exists(a)) /\ Touched' = Touched /\ Calm' = Calm
        /\ \A d, b : (SoundDir(d, b)' <=> SoundDir(d, b)) /\ (Held(b)' <=> Held(b))
    BY <2>1, <2>3, Static, SameSound DEF Bounds
  <2>5. dir \in Directory /\ SoundDir(dir, Bearer)
    BY <1>2, <1>3, Facts DEF DeleteSteps, WorldTypes, Known
  <2>51. /\ Partial(dir) \in Directory
         /\ Partial(dir).of = Bearer \/ (Partial(dir).of = 0 /\ Bearer \in past.cut)
         /\ Held(Bearer) => Partial(dir).is \in {"whole", "partial"}
    <3>1. Partial(dir) \in Directory
      BY <2>5, DirTypes
    <3>2. Partial(dir).of = Bearer \/ (Partial(dir).of = 0 /\ Bearer \in past.cut)
      BY <2>5, DirTypes DEF SoundDir, NoDir
    <3>3. Held(Bearer) => Partial(dir).is \in {"whole", "partial"}
      BY <2>5, DirTypes DEF SoundDir, Whole
    <3> QED
      BY <3>1, <3>2, <3>3
  <2>52. /\ dir.of = Bearer \/ (dir.of = 0 /\ Bearer \in past.cut)
         /\ Held(Bearer) => dir.is \in {"whole", "partial"}
    BY <1>2, <1>3, Facts DEF DeleteSteps, SoundDir, Whole, Held
  <2>53. /\ oauthDir \in [AccountId -> Directory] /\ configFile \in [AccountId -> BOOLEAN]
         /\ journal.id \in AccountId /\ saga.op.id = journal.id
    BY <1>2, Facts DEF WorldTypes, Known
  <2>54. \/ oauthDir' = oauthDir
         \/ oauthDir' = [oauthDir EXCEPT ![journal.id] = Partial(dir)]
    BY <1>7, <2>53
  <2> HIDE DEF dir
  <2>55. /\ configFile' \in [AccountId -> BOOLEAN] /\ oauthDir' \in [AccountId -> Directory]
         /\ \A a \in AccountId \ {journal.id} :
               configFile'[a] = configFile[a] /\ oauthDir'[a] = oauthDir[a]
    <3>1. /\ configFile' \in [AccountId -> BOOLEAN]
          /\ \A a \in AccountId \ {journal.id} : configFile'[a] = configFile[a]
      BY <1>7, <2>53
    <3>2. /\ oauthDir' \in [AccountId -> Directory]
          /\ \A a \in AccountId \ {journal.id} : oauthDir'[a] = oauthDir[a]
      BY <2>51, <2>53, <2>54
    <3> QED
      BY <3>1, <3>2
  <2>56. LET now == oauthDir'[journal.id] IN
         /\ now.of = Bearer \/ (now.of = 0 /\ Bearer \in past.cut)
         /\ Held(Bearer) => now.is \in {"whole", "partial"}
    BY <2>51, <2>52, <2>53, <2>54 DEF dir
  <2>6. WorldTypes'
    BY <1>1, <1>2, <2>55, Facts DEF WorldTypes, Known
  <2>7. OldSecrets'
    BY <1>1, <1>2, <2>3, <2>4, Facts DEF OldSecrets, Renames
  <2>8. OthersAgree'
    BY <1>1, <1>2, <2>55, <2>1, <2>3, Facts, OthersFrame DEF Known, Touched, WorldTypes
  <2>9. OAuthKnown'
    BY <1>1, <2>1, <2>3, Facts, OAuthFrame
  <2>10. DeleteKept'
    BY <1>1, <1>3, <1>4, <2>3, <2>4 DEF DeleteKept
  <2>11. DeleteSteps'
    <3>1. Due("files")'
      BY <1>3, <2>3 DEF Undo, Did
    <3> QED
      BY <1>1, <1>2, <1>3, <2>1, <2>3, <2>4, <2>56, <3>1, Facts DEF DeleteSteps, Bounds, Undid
  <2>12. RemovedUnpublished'
    BY <1>1, <2>3, <2>4, Facts DEF RemovedUnpublished
  <2> QED
    BY <1>3, <2>1, <2>2, <2>3, <2>6, <2>7, <2>8, <2>9, <2>10, <2>11, <2>12, OtherKinds, Together
<1> QED
  BY <1>1, <1>5, <1>7 DEF RemoveFiles

(* Cutting a backup short, by a failure or by a crash. *)
LEMMA CopyFilesKeeps ==
    ASSUME SagaInv, NEW step \in {"archive", "copy"}, CopyFiles(step)
    PROVE  SagaInv'
<1> DEFINE dir == oauthDir[journal.id]
           cut == backup' \in {NoDir, Partial(dir)} /\ archived' = archived
<1>1. Onward(step) /\ UNCHANGED <<row, secret, userRoute, homeOf, oauthDir, configFile,
                                  container, published, journal>>
  BY DEF CopyFiles, filesFrame, recordVars
<1>2. Known /\ Busy /\ Ahead /\ ~Behind /\ (\A s : ~Undid(s)) /\ Underway
  BY <1>1, Facts, OpOfSaga, OnwardKnown DEF Known, Busy, Ahead, Behind, Undid, Undoes
<1>3. /\ \/ journal.kind = "delete" /\ step = "archive" /\ ~Did("note") /\ ~Did("archive")
         \/ journal.kind = "update" /\ step = "copy" /\ Did("note") /\ journal.phase = "begun"
            /\ Renames(journal)
         \/ journal.kind = "clear" /\ step = "copy" /\ Did("note") /\ journal.phase = "begun"
      /\ ~Did("files") /\ ~Did("control") /\ ~Did("remove") /\ ~Did("secret1")
  BY <1>1, <1>2, Facts, StepBefore, KindOfStep, ForwardRanks, PhaseKnown DEF Known
<1>4. Exists(journal.id) /\ row[journal.id].born = Bearer /\ Bearer \in Int /\ Bearer # 0
  BY <1>2, <1>3, Bearers
<1>5. journal.kind \in {"update", "clear"} => Desired(journal) = journal.id
  BY <1>2, <1>3, Bearers
<1>6. dir \in Directory /\ SoundDir(dir, Bearer)
  <2>1. dir \in Directory
    BY <1>2, Facts DEF Known, WorldTypes
  <2>2. CASE journal.kind = "delete"
    BY <1>2, <1>3, <2>1, <2>2, Facts DEF DeleteSteps
  <2>3. CASE journal.kind = "update"
    BY <1>2, <1>3, <2>1, <2>3, Facts DEF UpdateSteps
  <2>4. CASE journal.kind = "clear"
    BY <1>2, <1>3, <1>4, <2>1, <2>4, Facts DEF ClearSteps, DirAgrees
  <2> QED
    BY <1>3, <2>1, <2>2, <2>3, <2>4
<1>7. dir.of \in {0, Bearer} /\ (Held(Bearer) => dir = Whole(Bearer))
  BY <1>6 DEF SoundDir
<1>8. CASE Refuse /\ UNCHANGED <<backup, archived>>
  BY <1>1, <1>8, TurnKeeps DEF WorldSame, recordVars, fileVars
<1>9. CASE backup' = dir /\ archived' = archived \cup WholeOf(dir) /\ Proceed(step)
  <2>1. PastTypes' /\ OperationKnown' /\ SagaKnown' /\ Records' /\ Forwarded(step)
    BY <1>1, <1>9, StepForward DEF RecordSteps, StillThere
  <2>2. /\ Grown /\ journal' = journal /\ row' = row /\ Busy' /\ Ahead' /\ ~Behind' /\ past' = past
        /\ saga'.ask = saga.ask /\ saga'.old = saga.old /\ saga'.mode # "recover"
        /\ OldRows' = OldRows /\ Bearer' = Bearer
        /\ \A s : ~Undid(s)'
        /\ \A s : Did(s)' <=> Did(s) \/ s = step
    BY <2>1 DEF Forwarded
  <2>3. /\ (\A a : Exists(a)' <=> Exists(a)) /\ Touched' = Touched /\ Calm' = Calm
        /\ Desired(journal)' = Desired(journal) /\ (Renames(journal)' <=> Renames(journal))
        /\ \A d, b : (SoundDir(d, b)' <=> SoundDir(d, b)) /\ (Held(b)' <=> Held(b))
        /\ \A a : DirAgrees(a)' <=> DirAgrees(a)
    BY <1>1, <2>2, Static, SameSound DEF DirAgrees
  <2>4. Held(Bearer) => Bearer \in archived'
    BY <1>7, <1>9 DEF WholeOf, Whole
  <2>5. archived' \subseteq Int /\ archived \subseteq archived'
    BY <1>6, <1>9, Facts, DirTypes DEF WholeOf, WorldTypes
  <2>6. WorldTypes'
    BY <1>1, <1>2, <1>6, <1>9, <2>5, Facts DEF WorldTypes
  <2>7. OldSecrets'
    BY <1>1, <1>2, <1>3, <2>2, <2>3, Facts DEF OldSecrets
  <2>8. OthersAgree'
    BY <1>1, <1>2, <2>2, Facts, OthersFrame DEF WorldTypes
  <2>9. OAuthKnown'
    BY <1>1, <2>2, <2>5, Facts, OAuthFrame
  <2>10. DeleteKept' /\ UpdateKept'
    <3>1. /\ \A a : AccountAgrees(a)' <=> AccountAgrees(a)
      BY <1>1, <2>3 DEF AccountAgrees, ConfigAgrees, SecretAgrees, ContainerAgrees
    <3> QED
      BY <1>1, <1>3, <1>4, <1>5, <1>7, <1>9, <2>2, <2>3, <3>1, Facts DEF DeleteKept, UpdateKept
  <2>11. ClearKept'
    BY <1>1, <1>2, <1>3, <1>4, <1>6, <1>7, <1>9, <2>2, <2>3, <2>4, Facts
       DEF ClearKept, ClearSteps, ConfigAgrees, SecretAgrees, ContainerAgrees, Whole
  <2>12. DeleteSteps'
    BY <1>1, <1>2, <1>3, <1>6, <1>7, <1>9, <2>2, <2>3, <2>4, Facts DEF DeleteSteps, SecretAgrees
  <2>13. ClearSteps'
    BY <1>1, <1>2, <1>3, <1>4, <1>6, <1>9, <2>2, <2>3, <2>4, Facts DEF ClearSteps
  <2>14. UpdateSteps'
    <3>1. \A s : SecretName(journal, s)' = SecretName(journal, s)
      BY <2>2, <2>3 DEF SecretName
    <3>2. \A a : AccountAgrees(a)' <=> AccountAgrees(a)
      BY <1>1, <2>3 DEF AccountAgrees, ConfigAgrees, SecretAgrees, ContainerAgrees
    <3> QED
      BY <1>1, <1>2, <1>3, <2>2, <2>3, <3>1, <3>2, Facts DEF UpdateSteps, SecretAgrees
  <2>15. RemovedUnpublished'
    BY <1>1, <2>2, <2>3, Facts DEF RemovedUnpublished
  <2> QED
    BY <1>3, <2>1, <2>2, <2>6, <2>7, <2>8, <2>9, <2>10, <2>11, <2>12, <2>13, <2>14, <2>15,
       OtherKinds, Together
(* What is left of the backup is nobody's but the account's. *)
<1>10. ASSUME cut, Grown, journal' = journal, row' = row,
              PastTypes', Bounds
       PROVE  WorldTypes' /\ OthersAgree' /\ OAuthKnown' /\ UpdateKept' /\ DeleteKept' /\ ClearKept'
              /\ RemovedUnpublished' /\ backup'.of \in {0, Bearer}
  <2>1. /\ (\A a : Exists(a)' <=> Exists(a)) /\ Touched' = Touched /\ Calm' = Calm
        /\ Desired(journal)' = Desired(journal) /\ (Renames(journal)' <=> Renames(journal))
        /\ \A d, b : (SoundDir(d, b)' <=> SoundDir(d, b)) /\ (Held(b)' <=> Held(b))
        /\ \A a : DirAgrees(a)' <=> DirAgrees(a)
    BY <1>1, <1>10, Static, SameSound DEF DirAgrees, Bounds
  <2>2. \A a : AccountAgrees(a)' <=> AccountAgrees(a)
    BY <1>1, <2>1 DEF AccountAgrees, ConfigAgrees, SecretAgrees, ContainerAgrees
  <2>3. /\ backup' \in Directory /\ backup'.of \in {0, Bearer}
        /\ Held(Bearer) /\ backup' # NoDir => backup'.of = Bearer /\ backup'.is = "partial"
    BY <1>6, <1>7, <1>10, DirTypes DEF Whole, NoDir
  <2>4. WorldTypes'
    BY <1>1, <1>10, <2>3, Facts DEF WorldTypes
  <2>5. OthersAgree'
    BY <1>1, <1>10, Facts, OthersFrame
  <2>6. OAuthKnown'
    BY <1>10, Facts, OAuthFrame
  <2>7. UpdateKept' /\ DeleteKept'
    BY <1>1, <1>3, <1>4, <1>5, <1>10, <2>1, <2>2, <2>3, Facts DEF UpdateKept, DeleteKept
  <2>8. ClearKept'
    BY <1>1, <1>2, <1>3, <1>4, <1>6, <1>10, <2>1, <2>3, Facts
       DEF ClearKept, ClearSteps, ConfigAgrees, SecretAgrees, ContainerAgrees
  <2>9. RemovedUnpublished'
    BY <1>1, <1>10, <2>1, Facts DEF RemovedUnpublished
  <2> QED
    BY <2>3, <2>4, <2>5, <2>6, <2>7, <2>8, <2>9
<1>11. CASE Fails /\ cut
  <2>1. PastTypes' /\ Bounds /\ Grown /\ TurnBack(saga.did)
    BY <1>11, FaultFields, Facts DEF Fails, Bounds, Grown
  <2>2. OperationKnown' /\ SagaKnown' /\ Records' /\ Turned(saga.did)
    BY <1>1, <2>1, StepTurn DEF StillThere
  <2>3. /\ journal' = journal /\ row' = row /\ Busy' /\ ~Ahead' /\ Behind'
        /\ saga'.ask = saga.ask /\ saga'.old = saga.old /\ saga'.mode # "recover"
        /\ OldRows' = OldRows /\ Bearer' = Bearer
        /\ \A s : ~Undid(s)'
        /\ \A s : Did(s)' <=> Did(s)
    BY <2>2 DEF Turned, Did
  <2>4. /\ (\A a : Exists(a)' <=> Exists(a)) /\ Touched' = Touched /\ Calm' = Calm
        /\ (Renames(journal)' <=> Renames(journal))
        /\ \A d, b : (SoundDir(d, b)' <=> SoundDir(d, b)) /\ (Held(b)' <=> Held(b))
        /\ \A a : DirAgrees(a)' <=> DirAgrees(a)
    BY <1>1, <2>1, <2>3, Static, SameSound DEF Bounds, DirAgrees
  <2>5. WorldTypes' /\ OthersAgree' /\ OAuthKnown' /\ UpdateKept' /\ DeleteKept' /\ ClearKept'
        /\ RemovedUnpublished' /\ backup'.of \in {0, Bearer}
    BY <1>10, <1>11, <2>1, <2>3
  <2>6. OldSecrets'
    BY <1>1, <1>2, <1>3, <2>3, <2>4, Facts DEF OldSecrets
  <2>7. DeleteSteps'
    BY <1>1, <1>2, <1>3, <1>6, <1>7, <2>1, <2>3, <2>4, <2>5, Facts
       DEF DeleteSteps, SecretAgrees, SoundDir, Whole, Bounds
  <2>8. ClearSteps'
    BY <1>1, <1>2, <1>3, <1>4, <1>6, <2>3, <2>4, Facts, StepBefore, ForwardRanks
       DEF ClearSteps, Did, Known
  <2>9. UpdateSteps'
    <3>1. \A a : AccountAgrees(a)' <=> AccountAgrees(a)
      BY <1>1, <2>4 DEF AccountAgrees, ConfigAgrees, SecretAgrees, ContainerAgrees
    <3> QED
      BY <1>1, <1>2, <1>3, <2>3, <2>4, <3>1, Facts DEF UpdateSteps, SecretAgrees
  <2> QED
    BY <1>3, <2>1, <2>2, <2>3, <2>5, <2>6, <2>7, <2>8, <2>9, OtherKinds, Together
<1>12. CASE Dies /\ cut
  <2>1. PastTypes' /\ Bounds /\ Grown /\ saga' = Down
    BY <1>12, DiesFields, Facts DEF Bounds, Grown
  <2>2. /\ OperationKnown' /\ SagaKnown' /\ Records'
        /\ ~Busy' /\ saga'.mode = "down" /\ journal' = journal /\ row' = row
    BY <1>1, <1>2, <2>1, StepDown DEF StillThere
  <2>3. WorldTypes' /\ OthersAgree' /\ OAuthKnown' /\ UpdateKept' /\ DeleteKept' /\ ClearKept'
        /\ RemovedUnpublished' /\ backup'.of \in {0, Bearer}
    BY <1>10, <1>12, <2>1, <2>2
  <2> QED
    BY <1>3, <2>1, <2>2, <2>3, OtherKinds, Together
<1> QED
  BY <1>1, <1>2, <1>8, <1>9, <1>11, <1>12 DEF CopyFiles, Known

(* PrepareFiles keeps the invariant: a rename moves the directory as it *)
(* is, a clearing empties one that its backup holds.                    *)
LEMMA PrepareFilesKeeps ==
    ASSUME SagaInv, PrepareFiles
    PROVE  SagaInv'
<1> DEFINE id == journal.id
           new == journal.new
           dir == oauthDir[journal.id]
<1>1. Onward("files") /\ UNCHANGED <<row, secret, userRoute, homeOf, configFile, backup, archived,
                                     container, published, journal>>
  BY DEF PrepareFiles, filesFrame, recordVars
<1>2. Known /\ Busy /\ Ahead /\ ~Behind /\ (\A s : ~Undid(s)) /\ Underway
  BY <1>1, Facts, OpOfSaga, OnwardKnown DEF Known, Busy, Ahead, Behind, Undid, Undoes
<1>3. /\ journal.kind \in {"update", "clear"}
      /\ Did("note") /\ journal.phase = "begun" /\ ~Did("files") /\ ~Did("control") /\ ~Did("secret1")
      /\ ~Did("render") /\ ~Did("build") /\ ~Did("commit")
      /\ journal.kind = "clear" => Did("copy")
  BY <1>1, <1>2, Facts, StepBefore, KindOfStep, ForwardRanks, PhaseKnown DEF Known
<1>4. Exists(id) /\ row[id].born = Bearer /\ Bearer \in Int /\ Bearer # 0
      /\ (Renames(journal) => ~Exists(new) /\ new # id)
      /\ Desired(journal) = id
  BY <1>2, <1>3, Bearers DEF Renames
<1>5. dir \in Directory /\ SoundDir(dir, Bearer)
      /\ (journal.kind = "update" /\ Renames(journal) => oauthDir[new] = NoDir)
  <2>1. dir \in Directory
    BY <1>2, Facts DEF Known, WorldTypes
  <2>2. CASE journal.kind = "update"
    BY <1>2, <1>3, <2>1, <2>2, Facts DEF UpdateSteps
  <2>3. CASE journal.kind = "clear"
    BY <1>2, <1>3, <1>4, <2>1, <2>3, Facts DEF ClearSteps, DirAgrees
  <2> QED
    BY <1>3, <2>2, <2>3
<1>6. CASE Fails /\ UNCHANGED oauthDir
  BY <1>1, <1>6, TurnKeeps DEF WorldSame, recordVars, fileVars
<1>7. ASSUME Proceed("files"), oauthDir' \in [AccountId -> Directory],
             \A a \in AccountId \ Touched : oauthDir'[a] = oauthDir[a],
             journal.kind = "update" =>
                SoundDir(oauthDir'[new], Bearer) /\ (Renames(journal) => oauthDir'[id] = NoDir),
             journal.kind = "clear" => oauthDir'[id] = EmptyOf(Bearer)
      PROVE  SagaInv'
  <2>1. PastTypes' /\ OperationKnown' /\ SagaKnown' /\ Records' /\ Forwarded("files")
    BY <1>1, <1>7, StepForward DEF RecordSteps, StillThere
  <2>2. /\ Grown /\ journal' = journal /\ row' = row /\ Busy' /\ Ahead' /\ ~Behind' /\ past' = past
        /\ saga'.ask = saga.ask /\ saga'.old = saga.old /\ saga'.mode # "recover"
        /\ OldRows' = OldRows /\ Bearer' = Bearer
        /\ \A s : ~Undid(s)'
        /\ \A s : Did(s)' <=> Did(s) \/ s = "files"
    BY <2>1 DEF Forwarded
  <2>3. /\ (\A a : Exists(a)' <=> Exists(a)) /\ Touched' = Touched
        /\ Desired(journal)' = Desired(journal) /\ (Renames(journal)' <=> Renames(journal))
        /\ \A d, b : (SoundDir(d, b)' <=> SoundDir(d, b)) /\ (Held(b)' <=> Held(b))
        /\ \A d, b : /\ SoundDir(d, b) <=> /\ d.of = b \/ (d.of = 0 /\ b \in past.cut)
                                           /\ Held(b) => d = Whole(b)
    BY <1>1, <2>2, Static, SameSound DEF SoundDir
  <2>6. WorldTypes'
    BY <1>1, <1>7, Facts DEF WorldTypes
  <2>7. OldSecrets'
    BY <1>1, <1>2, <1>3, <2>2, <2>3, Facts DEF OldSecrets
  <2>8. OthersAgree'
    BY <1>1, <1>7, <2>2, Facts, OthersFrame
  <2>9. OAuthKnown'
    BY <1>1, <2>2, Facts, OAuthFrame
  <2>10. UpdateKept'
    BY <1>1, <1>3, <1>4, <1>7, <2>2, <2>3, Facts DEF UpdateKept, Renames
  <2>11. UpdateSteps'
    <3>1. \A step : SecretName(journal, step)' = SecretName(journal, step)
      BY <2>2, <2>3 DEF SecretName
    <3>2. \A a : SecretAgrees(a)' <=> SecretAgrees(a)
      BY <1>1, <2>3 DEF SecretAgrees
    <3> QED
      BY <1>1, <1>2, <1>3, <1>7, <2>2, <2>3, <3>1, <3>2, Facts DEF UpdateSteps
  <2>12. journal.kind = "clear" =>
            SoundDir(backup, Bearer) /\ (Held(Bearer) => Bearer \in archived)
    BY <1>2, <1>3, <1>4, Facts DEF ClearSteps
  <2>13. ClearKept'
    <3>1. journal.kind = "clear" => backup.of \in {0, Bearer} /\ (Held(Bearer) => backup = Whole(Bearer))
      BY <2>12 DEF SoundDir
    <3>2. journal.kind = "clear" /\ (backup = NoDir \/ Bearer \notin archived) => DirAgrees(id)'
      <4>1. journal.kind = "clear" /\ (backup = NoDir \/ Bearer \notin archived) => ~Held(Bearer)
        BY <2>12, <3>1 DEF Whole, NoDir
      <4> QED
        BY <1>4, <1>7, <2>2, <2>3, <4>1 DEF DirAgrees, EmptyOf
    <3>3. (ConfigAgrees(id)' <=> ConfigAgrees(id)) /\ (SecretAgrees(id)' <=> SecretAgrees(id))
      BY <1>1, <2>3 DEF ConfigAgrees, SecretAgrees
    <3> QED
      BY <1>1, <1>2, <1>3, <1>4, <2>2, <2>3, <2>12, <3>1, <3>2, <3>3, Facts DEF ClearKept
  <2>14. ClearSteps'
    BY <1>1, <1>2, <1>3, <1>4, <1>7, <2>2, <2>3, <2>12, Facts DEF ClearSteps
  <2> QED
    BY <1>3, <2>1, <2>2, <2>6, <2>7, <2>8, <2>9, <2>10, <2>11, <2>13, <2>14, OtherKinds, Together
<1>8. CASE /\ saga.op.kind = "update" /\ Proceed("files")
           /\ oauthDir' = IF Renames(saga.op)
                          THEN [oauthDir EXCEPT ![saga.op.id] = NoDir,
                                 ![saga.op.new] = IF oauthDir[saga.op.id] = NoDir THEN EmptyOf(0)
                                             ELSE oauthDir[saga.op.id]]
                          ELSE oauthDir
  <2>1. journal.kind = "update" /\ Proceed("files") /\ saga.op.id = id /\ saga.op.new = new
        /\ (Renames(saga.op) <=> Renames(journal)) /\ id \in AccountId /\ new \in AccountId
    BY <1>2, <1>8 DEF Known
  <2>2. oauthDir \in [AccountId -> Directory]
    BY Facts DEF WorldTypes
  <2>3. CASE Renames(journal)
    <3>1. oauthDir' = [oauthDir EXCEPT ![id] = NoDir,
                                       ![new] = IF dir = NoDir THEN EmptyOf(0) ELSE dir]
      BY <1>8, <2>1, <2>3
    <3>2. SoundDir(EmptyOf(0), Bearer) \/ dir # NoDir
      BY <1>5 DEF SoundDir, NoDir, EmptyOf, Whole
    <3>3. oauthDir'[id] = NoDir /\ oauthDir'[new] = (IF dir = NoDir THEN EmptyOf(0) ELSE dir)
      BY <1>4, <2>1, <2>2, <2>3, <3>1
    <3>4. \A a \in AccountId \ Touched : oauthDir'[a] = oauthDir[a]
      BY <2>1, <2>2, <3>1 DEF Touched
    <3>5. EmptyOf(0) \in Directory /\ NoDir \in Directory
      BY DirTypes
    <3>6. oauthDir' \in [AccountId -> Directory]
      BY <1>5, <2>2, <3>1, <3>5
    <3>7. SoundDir(oauthDir'[new], Bearer)
      BY <1>5, <3>2, <3>3
    <3> QED
      BY <1>7, <2>1, <3>3, <3>4, <3>6, <3>7
  <2>4. CASE ~Renames(journal)
    <3>1. oauthDir' = oauthDir /\ new = id
      BY <1>8, <2>1, <2>4 DEF Renames
    <3> QED
      BY <1>5, <1>7, <2>1, <2>2, <2>4, <3>1
  <2> QED
    BY <2>3, <2>4
<1>9. CASE /\ saga.op.kind = "clear" /\ Proceed("files")
           /\ oauthDir' = [oauthDir EXCEPT ![saga.op.id] = EmptyOf(row[saga.op.id].born)]
  <2>1. journal.kind = "clear" /\ oauthDir' = [oauthDir EXCEPT ![id] = EmptyOf(Bearer)]
        /\ id \in AccountId
    BY <1>2, <1>4, <1>9 DEF Known
  <2>2. oauthDir \in [AccountId -> Directory] /\ EmptyOf(Bearer) \in Directory
    BY <1>4, Facts, DirTypes DEF WorldTypes
  <2> QED
    BY <1>7, <1>9, <2>1, <2>2 DEF Touched
(* A clearing that is cut short *)
<1>10. ASSUME saga.op.kind = "clear", oauthDir' = [oauthDir EXCEPT ![saga.op.id] = Partial(@)],
              journal' = journal, row' = row, PastTypes', CutBounds(dir)
       PROVE  /\ Grown /\ WorldTypes' /\ OthersAgree' /\ OAuthKnown' /\ ClearKept' /\ DirAgrees(id)'
              /\ (\A a : Exists(a)' <=> Exists(a)) /\ Sounder
              /\ journal.kind = "clear" /\ Touched' = Touched
              /\ (Renames(journal)' <=> Renames(journal))
  <2>1. /\ journal.kind = "clear" /\ Bearer \in past'.cut /\ Grown /\ id \in AccountId
        /\ oauthDir' = [oauthDir EXCEPT ![id] = Partial(@)]
        /\ past'.cut = past.cut \cup {dir.of} /\ oauthDir \in [AccountId -> Directory]
    BY <1>2, <1>5, <1>10, Facts DEF Known, CutBounds, Grown, SoundDir, WorldTypes
  <2>2. /\ (\A a : Exists(a)' <=> Exists(a)) /\ Touched' = Touched /\ Sounder
        /\ (Renames(journal)' <=> Renames(journal))
    BY <1>10, <2>1, Static
  <2>3. oauthDir'[id] = Partial(dir) /\ Partial(dir) \in Directory
        /\ Partial(dir).of \in {0, Bearer}
    BY <1>5, <2>1, DirTypes DEF SoundDir
  <2>4. DirAgrees(id)'
    BY <1>4, <1>10, <2>1, <2>2, <2>3 DEF DirAgrees, SoundDir, Held
  <2>5. WorldTypes'
    <3>1. oauthDir' \in [AccountId -> Directory]
      BY <2>1, <2>3
    <3> QED
      BY <1>1, <3>1, Facts DEF WorldTypes
  <2>6. OthersAgree'
    BY <1>1, <1>10, <2>1, Facts, OthersFrame DEF Touched
  <2>7. OAuthKnown'
    BY <1>1, <1>10, <2>1, Facts, OAuthFrame
  <2>8. ClearKept'
    <3>1. (ConfigAgrees(id)' <=> ConfigAgrees(id)) /\ (SecretAgrees(id)' <=> SecretAgrees(id))
      BY <1>1, <2>2 DEF ConfigAgrees, SecretAgrees
    <3> QED
      BY <1>1, <1>2, <1>3, <1>4, <1>10, <2>1, <2>2, <2>4, <3>1, Facts DEF ClearKept, Held
  <2> QED
    BY <2>1, <2>2, <2>4, <2>5, <2>6, <2>7, <2>8
<1>11. CASE /\ saga.op.kind = "clear" /\ FaultCut(oauthDir[saga.op.id]) /\ TurnBack(saga.did)
            /\ oauthDir' = [oauthDir EXCEPT ![saga.op.id] = Partial(@)]
  <2>1. PastTypes' /\ CutBounds(dir) /\ journal' = journal /\ row' = row
    BY <1>1, <1>2, <1>5, <1>11, FaultCutFields, Facts DEF Known
  <2>2. /\ Grown /\ WorldTypes' /\ OthersAgree' /\ OAuthKnown' /\ ClearKept' /\ DirAgrees(id)'
        /\ (\A a : Exists(a)' <=> Exists(a)) /\ Sounder
        /\ journal.kind = "clear" /\ Touched' = Touched
        /\ (Renames(journal)' <=> Renames(journal))
    BY <1>10, <1>11, <2>1
  <2>3. OperationKnown' /\ SagaKnown' /\ Records' /\ Turned(saga.did)
    BY <1>1, <1>11, <2>2, StepTurn DEF StillThere
  <2>4. /\ Busy' /\ ~Ahead' /\ Behind'
        /\ saga'.ask = saga.ask /\ saga'.old = saga.old /\ saga'.mode # "recover"
        /\ OldRows' = OldRows /\ Bearer' = Bearer
        /\ \A s : ~Undid(s)'
        /\ \A s : Did(s)' <=> Did(s)
    BY <2>3 DEF Turned, Did
  <2>5. OldSecrets'
    BY <1>1, <1>2, <1>3, <2>2, <2>4, Facts DEF OldSecrets
  <2>6. ClearSteps'
    BY <1>1, <1>2, <1>3, <1>4, <2>1, <2>2, <2>4, Facts DEF ClearSteps, Sounder
  <2> QED
    BY <1>3, <2>1, <2>2, <2>3, <2>4, <2>5, <2>6, OtherKinds, Together
<1>12. CASE /\ saga.op.kind = "clear" /\ DiesCut(oauthDir[saga.op.id])
            /\ oauthDir' = [oauthDir EXCEPT ![saga.op.id] = Partial(@)]
  <2>1. PastTypes' /\ CutBounds(dir) /\ journal' = journal /\ row' = row /\ saga' = Down
    BY <1>1, <1>2, <1>5, <1>12, DiesCutFields, Facts DEF Known
  <2>2. /\ Grown /\ WorldTypes' /\ OthersAgree' /\ OAuthKnown' /\ ClearKept' /\ DirAgrees(id)'
        /\ journal.kind = "clear"
    BY <1>10, <1>12, <2>1
  <2>3. /\ OperationKnown' /\ SagaKnown' /\ Records'
        /\ ~Busy' /\ saga'.mode = "down"
    BY <1>1, <1>2, <2>1, <2>2, StepDown DEF StillThere
  <2> QED
    BY <1>3, <2>1, <2>2, <2>3, OtherKinds, Together
<1> QED
  BY <1>1, <1>6, <1>8, <1>9, <1>11, <1>12 DEF PrepareFiles

---------------------------------------------------------------------------
(* The steps of an operation on secrets, configs and containers.           *)

(* What the rows of the account are once the operation changed them *)
(* (ApplyAccountCreation, -Update, -Deletion).                      *)
LEMMA AfterRecords ==
    ASSUME SagaInv, Busy, Did("control"), row = RowsAfter(saga.old.row)
    PROVE  /\ journal.kind = "create" =>
                 Exists(journal.id) /\ row[journal.id].born = Bearer
                 /\ row[journal.id].proxy = saga.ask.proxy
           /\ journal.kind = "update" =>
                 Exists(journal.new) /\ row[journal.new].born = Bearer
                 /\ row[journal.new].proxy = saga.ask.proxy
                 /\ Desired(journal) = journal.new
                 /\ (Renames(journal) => ~Exists(journal.id))
           /\ journal.kind = "delete" => ~Exists(journal.id) /\ Desired(journal) = 0
<1>1. /\ saga.old.row \in [AccountId -> Account] /\ Known
      /\ OldRows = saga.old.row
  BY Facts, OpOfSaga DEF OldRowsKnown, Known, OldRows
<1>2. Bearer # 0 /\ Bearer \in Int
  BY Bearers
<1>3. journal.kind = "create" => row[journal.id].born = Bearer /\ row[journal.id].proxy = saga.ask.proxy
  BY <1>1 DEF Known, RowsAfter, Bearer
<1>4. journal.kind = "update" =>
         /\ row[journal.new].born = Bearer /\ row[journal.new].proxy = saga.ask.proxy
         /\ Renames(journal) => row[journal.id].born = 0
  <2>1. CASE journal.kind = "update"
    <3>1. row = [saga.old.row EXCEPT ![journal.id] = NoAccount,
                       ![journal.new] = [saga.old.row[journal.id] EXCEPT !.proxy = saga.ask.proxy,
                                                   !.enabled = @ /\ saga.ask.enabled]]
      BY <1>1, <2>1 DEF Known, RowsAfter
    <3>2. /\ row[journal.new] = [saga.old.row[journal.id] EXCEPT !.proxy = saga.ask.proxy,
                                                   !.enabled = @ /\ saga.ask.enabled]
          /\ journal.new # journal.id => row[journal.id] = NoAccount
      BY <1>1, <2>1, <3>1 DEF Known
    <3>3. saga.old.row[journal.id] \in Account
      BY <1>1 DEF Known
    <3>4. row[journal.new].born = saga.old.row[journal.id].born /\ row[journal.new].proxy = saga.ask.proxy
      BY <3>2, <3>3 DEF Account
    <3> QED
      BY <1>1, <2>1, <3>2, <3>4 DEF Bearer, Renames, NoAccount
  <2> QED
    BY <2>1
<1>5. journal.kind = "delete" => row[journal.id].born = 0
  BY <1>1 DEF Known, RowsAfter, NoAccount
<1> QED
  BY <1>1, <1>2, <1>3, <1>4, <1>5 DEF Exists, Desired, Known

(* An operation that goes on did not change its records back. *)
LEMMA AheadRecords ==
    ASSUME SagaInv, Ahead, Did("control")
    PROVE  Busy /\ row = RowsAfter(saga.old.row)
  BY Facts DEF OldRowsKnown, Applied, Busy, Ahead

(* ApplySecret keeps the invariant, between the two writes of a rename *)
(* too.                                                                *)
LEMMA ApplySecretKeeps ==
    ASSUME SagaInv, NEW step \in {"secret1", "secret2"}, ApplySecret(step)
    PROVE  SagaInv'
<1> DEFINE id == journal.id
           new == journal.new
           name == SecretName(journal, step)
<1>1. Onward(step) /\ UNCHANGED <<row, userRoute, homeOf, oauthDir, configFile, backup, archived,
                                  container, published, journal>>
  BY DEF ApplySecret, fileVars
<1>2. CASE Fails /\ UNCHANGED secret
  BY <1>1, <1>2, TurnKeeps DEF WorldSame, recordVars, fileVars
<1>3. CASE /\ secret' = [secret EXCEPT ![SecretName(saga.op, step)] =
                            IF SecretName(saga.op, step) = FinalId(saga.op) THEN saga.ask.url ELSE 0]
           /\ Proceed(step)
  <2>1. PastTypes' /\ OperationKnown' /\ SagaKnown' /\ Records' /\ Forwarded(step)
    BY <1>1, <1>3, StepForward DEF RecordSteps, StillThere
  <2>2. /\ Grown /\ journal' = journal /\ row' = row /\ Busy' /\ Ahead' /\ ~Behind' /\ past' = past
        /\ saga'.ask = saga.ask /\ saga'.old = saga.old /\ saga'.mode # "recover"
        /\ OldRows' = OldRows /\ Bearer' = Bearer
        /\ \A s : ~Undid(s)'
        /\ \A s : Did(s)' <=> Did(s) \/ s = step
        /\ Known /\ Busy /\ Ahead
    BY <2>1 DEF Forwarded
  <2>3. /\ (\A a : Exists(a)' <=> Exists(a)) /\ Touched' = Touched
        /\ Desired(journal)' = Desired(journal) /\ (Renames(journal)' <=> Renames(journal))
        /\ \A d, b : (SoundDir(d, b)' <=> SoundDir(d, b)) /\ (Held(b)' <=> Held(b))
        /\ \A a : /\ DirAgrees(a)' <=> DirAgrees(a)
                  /\ ContainerAgrees(a)' <=> ContainerAgrees(a)
    BY <1>1, <2>2, Static, SameSound DEF DirAgrees, ContainerAgrees
  <2>4. /\ journal.kind \in {"create", "update", "delete"}
        /\ Did("control") /\ Did("note") /\ journal.phase = "begun"
        /\ journal.kind = "update" => Did("files")
        /\ step = "secret1" => ~Did("secret1") /\ ~Did("secret2")
        /\ step = "secret2" => journal.kind = "update" /\ Renames(journal) /\ Did("secret1")
        /\ ~Did("render") /\ ~Did("build") /\ ~Did("commit")
    BY <1>1, <2>2, Facts, StepBefore, KindOfStep, ForwardRanks, PhaseKnown DEF Known
  <2>5. /\ journal.kind = "create" => Exists(id) /\ row[id].born = Bearer
        /\ journal.kind = "update" => /\ Exists(new) /\ row[new].born = Bearer
                                      /\ Desired(journal) = new
        /\ journal.kind = "delete" => ~Exists(id)
    BY <2>2, <2>4, AheadRecords, AfterRecords
  <2>6. /\ name \in AccountId /\ name \in {id, new}
        /\ journal.kind # "update" => name = id /\ FinalId(journal) = id
        /\ journal.kind = "update" => FinalId(journal) = new
        /\ SecretName(saga.op, step) = name /\ FinalId(saga.op) = FinalId(journal)
        /\ SecretName(journal, "secret2") # SecretName(journal, "secret1") \/ ~Renames(journal)
    BY <2>2, <2>4 DEF Known, SecretName, FinalId, Renames
  <2>7. /\ saga.ask.url \in {0, Bearer} /\ Bearer \in Int
        /\ journal.kind = "delete" => saga.ask.url = 0
    BY <2>2, <2>4, Facts, Bearers DEF AskKnown
  <2>8. /\ secret \in [AccountId -> Int]
        /\ secret' = [secret EXCEPT ![name] = IF name = FinalId(journal) THEN saga.ask.url ELSE 0]
    BY <1>3, <2>6, Facts DEF WorldTypes
  <2>9. /\ secret' \in [AccountId -> Int]
        /\ secret'[name] = (IF name = FinalId(journal) THEN saga.ask.url ELSE 0)
        /\ \A a \in AccountId : a # name => secret'[a] = secret[a]
        /\ secret'[name] \in {0, Bearer}
    BY <2>6, <2>7, <2>8
  <2> HIDE DEF name
  <2>10. WorldTypes'
    BY <1>1, <2>9, Facts DEF WorldTypes
  <2>11. OldSecrets'
    BY <1>1, <2>2, <2>3, <2>4, <2>6, <2>9, Facts DEF OldSecrets, Touched
  <2>12. OthersAgree'
    BY <1>1, <2>2, <2>6, <2>9, Facts, OthersFrame DEF Touched
  <2>13. OAuthKnown'
    BY <1>1, <2>2, Facts, OAuthFrame
  <2>14. CreateKept'
    BY <1>1, <2>2, <2>3, <2>4, <2>5, <2>6, <2>9, Facts DEF CreateKept
  <2>15. CreateSteps'
    BY <1>1, <2>2, <2>4, <2>6, <2>9, Facts DEF CreateSteps
  <2>16. UpdateKept'
    BY <1>1, <2>2, <2>3, <2>4, <2>5, <2>6, <2>9, Facts DEF UpdateKept, Known
  <2>17. UpdateSteps'
    <3> SUFFICES ASSUME journal.kind = "update" PROVE UpdateSteps'
      BY <2>2 DEF UpdateSteps
    <3>1. \A s : SecretName(journal, s)' = SecretName(journal, s)
      BY <2>2, <2>3 DEF SecretName
    <3>2. \A s \in {"secret1", "secret2"} : Did(s)' =>
             secret'[SecretName(journal, s)] =
                (IF SecretName(journal, s) = new THEN saga.ask.url ELSE 0)
      <4>1. ASSUME NEW s \in {"secret1", "secret2"}, Did(s)'
            PROVE  secret'[SecretName(journal, s)] =
                      (IF SecretName(journal, s) = new THEN saga.ask.url ELSE 0)
        <5>1. CASE s = step
          BY <5>1, <2>6, <2>9 DEF name
        <5>2. CASE s # step
          <6>1. s = "secret1" /\ step = "secret2" /\ Did("secret1") /\ Renames(journal)
            BY <5>2, <4>1, <2>2, <2>4
          <6>2. SecretName(journal, s) # name /\ SecretName(journal, s) \in AccountId
            BY <6>1, <2>2, <2>6 DEF name, SecretName, Known
          <6> QED
            BY <6>1, <6>2, <2>2, <2>9, Facts DEF UpdateSteps
        <5> QED
          BY <5>1, <5>2
      <4> QED
        BY <4>1
    <3> QED
      BY <1>1, <2>2, <2>3, <2>4, <3>1, <3>2, Facts DEF UpdateSteps
  <2>18. DeleteKept'
    BY <1>1, <2>2, <2>3, <2>4, <2>5 DEF DeleteKept
  <2>19. DeleteSteps'
    BY <1>1, <2>2, <2>3, <2>4, <2>6, <2>7, <2>9, Facts DEF DeleteSteps
  <2>20. RemovedUnpublished'
    BY <1>1, <2>2, <2>3, Facts DEF RemovedUnpublished, Calm
  <2> QED
    BY <2>1, <2>2, <2>4, <2>10, <2>11, <2>12, <2>13, <2>14, <2>15, <2>16, <2>17, <2>18, <2>19,
       <2>20, OtherKinds, Together
<1> QED
  BY <1>1, <1>2, <1>3 DEF ApplySecret

(* RenderConfigs keeps the invariant: it writes the configuration of *)
(* every account there is.                                           *)
LEMMA RenderConfigsKeeps ==
    ASSUME SagaInv, RenderConfigs
    PROVE  SagaInv'
<1> DEFINE id == journal.id
           new == journal.new
<1>1. Onward("render") /\ UNCHANGED <<row, secret, userRoute, homeOf, oauthDir, backup, archived,
                                      container, published, journal>>
  BY DEF RenderConfigs, filesFrame, recordVars
<1>2. CASE (Refuse \/ Fails) /\ UNCHANGED configFile
  BY <1>1, <1>2, TurnKeeps DEF WorldSame, recordVars, fileVars
<1>3. CASE RenderRows /\ Proceed("render")
  <2>1. PastTypes' /\ OperationKnown' /\ SagaKnown' /\ Records' /\ Forwarded("render")
    BY <1>1, <1>3, StepForward DEF RecordSteps, StillThere
  <2>2. /\ Grown /\ journal' = journal /\ row' = row /\ Busy' /\ Ahead' /\ ~Behind' /\ past' = past
        /\ saga'.ask = saga.ask /\ saga'.old = saga.old /\ saga'.mode # "recover"
        /\ OldRows' = OldRows /\ Bearer' = Bearer
        /\ \A s : ~Undid(s)'
        /\ \A s : Did(s)' <=> Did(s) \/ s = "render"
        /\ Known /\ Busy /\ Ahead
    BY <2>1 DEF Forwarded
  <2>3. /\ (\A a : Exists(a)' <=> Exists(a)) /\ Touched' = Touched
        /\ Desired(journal)' = Desired(journal) /\ (Renames(journal)' <=> Renames(journal))
        /\ \A d, b : (SoundDir(d, b)' <=> SoundDir(d, b)) /\ (Held(b)' <=> Held(b))
        /\ \A a : /\ DirAgrees(a)' <=> DirAgrees(a)
                  /\ ContainerAgrees(a)' <=> ContainerAgrees(a)
                  /\ SecretAgrees(a)' <=> SecretAgrees(a)
    BY <1>1, <2>2, Static, SameSound DEF DirAgrees, ContainerAgrees, SecretAgrees
  <2>4. /\ journal.kind \in {"create", "update", "delete", "policy"}
        /\ Did("control") /\ (journal.kind # "policy" => Did("note") /\ journal.phase = "begun")
        /\ journal.kind = "create" => Did("directory")
        /\ journal.kind = "update" => Did("files")
        /\ ~Did("build") /\ ~Did("commit") /\ ~Did("remove")
    BY <1>1, <2>2, Facts, StepBefore, KindOfStep, ForwardRanks, PhaseKnown DEF Known
  <2>5. /\ journal.kind = "create" => Exists(id)
        /\ journal.kind = "update" => Exists(new)
        /\ journal.kind = "delete" => ~Exists(id)
    BY <2>2, <2>4, AheadRecords, AfterRecords
  <2>6. /\ configFile' \in [AccountId -> BOOLEAN]
        /\ \A a \in AccountId : configFile'[a] <=> configFile[a] \/ Exists(a)
        /\ \A a \in AccountId : ConfigAgrees(a) => ConfigAgrees(a)'
    <3>1. configFile' = [a \in AccountId |-> configFile[a] \/ Exists(a)]
      BY <1>3 DEF RenderRows
    <3>2. ASSUME NEW a \in AccountId PROVE (configFile[a] \/ Exists(a)) \in BOOLEAN
      OBVIOUS
    <3> QED
      BY <2>3, <3>1, <3>2 DEF ConfigAgrees
  <2>10. WorldTypes'
    BY <1>1, <2>6, Facts DEF WorldTypes
  <2>11. OldSecrets'
    BY <1>1, <2>2, <2>3, <2>4, Facts DEF OldSecrets, Touched
  <2>12. OthersAgree'
    BY <1>1, <2>2, <2>6, Facts, OthersFrame DEF Touched
  <2>13. OAuthKnown'
    BY <1>1, <2>2, Facts, OAuthFrame
  <2>14. CreateKept'
    BY <1>1, <2>2, <2>3, <2>4, Facts DEF CreateKept
  <2>15. CreateSteps'
    BY <1>1, <2>2, <2>4, <2>5, <2>6, Facts DEF CreateSteps, Known
  <2>16. UpdateKept'
    BY <1>1, <2>2, <2>3, <2>4, <2>6, Facts DEF UpdateKept, Known
  <2>17. UpdateSteps'
    <3>1. \A s : SecretName(journal, s)' = SecretName(journal, s)
      BY <2>2, <2>3 DEF SecretName
    <3> QED
      BY <1>1, <2>2, <2>3, <2>4, <2>5, <2>6, <3>1, Facts DEF UpdateSteps, Known
  <2>18. DeleteKept'
    BY <1>1, <2>2, <2>3, <2>4, <2>5 DEF DeleteKept
  <2>19. DeleteSteps'
    BY <1>1, <2>2, <2>3, <2>4, <2>5, <2>6, Facts DEF DeleteSteps, Known
  <2>20. PolicyKept'
    BY <1>1, <2>2, <2>3, <2>6, Facts DEF PolicyKept, AccountAgrees, Known
  <2>21. RemovedUnpublished'
    BY <1>1, <2>2, <2>3, Facts DEF RemovedUnpublished, Calm
  <2> QED
    BY <2>1, <2>2, <2>4, <2>10, <2>11, <2>12, <2>13, <2>14, <2>15, <2>16, <2>17, <2>18, <2>19,
       <2>20, <2>21, OtherKinds, Together
<1> QED
  BY <1>1, <1>2, <1>3 DEF RenderConfigs

(* A step forward on the containers alone, that succeeds. *)
LEMMA ContainerForward ==
    ASSUME SagaInv, NEW step \in {"build", "stop", "restart"}, Onward(step), Proceed(step),
           UNCHANGED <<recordVars, fileVars, published, journal>>,
           container' \in [AccountId -> {"none", "running", "stopped"}],
           \A a \in AccountId \ Touched : container'[a] = container[a],
           journal.kind = "create" => container'[journal.id] = "running",
           journal.kind = "update" => container'[journal.new] = "running"
                                      /\ (Renames(journal) => container'[journal.id] = "none"),
           journal.kind = "delete" => /\ step = "stop" => container'[journal.id] = "none"
                                      /\ step # "stop" => container' = container,
           journal.kind = "clear" => container'[journal.id] = "running"
    PROVE  SagaInv'
  <2>0. UNCHANGED <<row, secret, userRoute, homeOf, oauthDir, configFile, backup, archived,
                    published, journal>>
    BY DEF recordVars, fileVars
  <2>1. PastTypes' /\ OperationKnown' /\ SagaKnown' /\ Records' /\ Forwarded(step)
    BY <2>0, StepForward DEF RecordSteps, StillThere
  <2>2. /\ Grown /\ journal' = journal /\ row' = row /\ Busy' /\ Ahead' /\ ~Behind' /\ past' = past
        /\ saga'.ask = saga.ask /\ saga'.old = saga.old /\ saga'.mode # "recover"
        /\ OldRows' = OldRows /\ Bearer' = Bearer
        /\ \A s : ~Undid(s)'
        /\ \A s : Did(s)' <=> Did(s) \/ s = step
        /\ Known /\ Busy /\ Ahead
    BY <2>1 DEF Forwarded
  <2>3. /\ (\A a : Exists(a)' <=> Exists(a)) /\ Touched' = Touched /\ Calm' = Calm
        /\ Desired(journal)' = Desired(journal) /\ (Renames(journal)' <=> Renames(journal))
        /\ \A d, b : (SoundDir(d, b)' <=> SoundDir(d, b)) /\ (Held(b)' <=> Held(b))
        /\ \A a : /\ DirAgrees(a)' <=> DirAgrees(a)
                  /\ ConfigAgrees(a)' <=> ConfigAgrees(a)
                  /\ SecretAgrees(a)' <=> SecretAgrees(a)
    BY <2>0, <2>2, Static, SameSound DEF DirAgrees, ConfigAgrees, SecretAgrees
  <2>4. /\ journal.kind # "policy" /\ Did("note") /\ journal.phase = "begun"
        /\ step = "build" => journal.kind \in {"create", "update", "delete"} /\ Did("control")
        /\ step = "stop" => journal.kind = "delete" /\ Did("control") /\ Did("build") /\ Did("publish")
        /\ step = "restart" => journal.kind = "clear"
        /\ journal.kind = "update" => Did("files")
    BY <2>2, Facts, StepBefore, KindOfStep, ForwardRanks, PhaseKnown DEF Known
  <2>10. WorldTypes'
    BY <2>0, Facts DEF WorldTypes
  <2>11. OldSecrets'
    BY <2>0, <2>2, <2>3, <2>4, Facts DEF OldSecrets, Touched
  <2>12. OthersAgree'
    BY <2>0, <2>2, Facts, OthersFrame DEF Touched
  <2>13. OAuthKnown'
    BY <2>0, <2>2, Facts, OAuthFrame
  <2>14. CreateKept'
    BY <2>0, <2>2, <2>3, <2>4, Facts DEF CreateKept
  <2>15. CreateSteps'
    BY <2>0, <2>2, <2>4, Facts DEF CreateSteps, Known
  <2>16. UpdateKept'
    BY <2>0, <2>2, <2>3, <2>4, Facts DEF UpdateKept, Known
  <2>17. UpdateSteps'
    <3>1. \A s : SecretName(journal, s)' = SecretName(journal, s)
      BY <2>2, <2>3 DEF SecretName
    <3> QED
      BY <2>0, <2>2, <2>3, <2>4, <3>1, Facts DEF UpdateSteps, Known
  <2>18. DeleteKept'
    BY <2>0, <2>2, <2>3, <2>4, Facts DEF DeleteKept
  <2>19. DeleteSteps'
    BY <2>0, <2>2, <2>3, <2>4, Facts DEF DeleteSteps, Known
  <2>20. ClearKept' /\ ClearSteps'
    BY <2>0, <2>2, <2>3, <2>4, Facts DEF ClearKept, ClearSteps
  <2>21. RemovedUnpublished'
    <3>1. step = "stop" => \A u \in Calm : published.route[u] # journal.id
      BY <2>2, <2>4, Facts DEF PublishedKnown
    <3> QED
      BY <2>0, <2>2, <2>3, <2>4, <3>1, Facts DEF RemovedUnpublished
  <2> QED
    BY <2>1, <2>2, <2>4, <2>10, <2>11, <2>12, <2>13, <2>14, <2>15, <2>16, <2>17, <2>18, <2>19,
       <2>20, <2>21, OtherKinds, Together

(* One that fails: a container may have been stopped, that of an update    *)
(* even removed.                                                           *)
LEMMA ContainerTurn ==
    ASSUME SagaInv, NEW step \in {"build", "stop", "restart"}, Onward(step), Fault,
           NEW did, TurnBack(did),
           UNCHANGED <<recordVars, fileVars, published, journal>>,
           \/ did = saga.did /\ container' = StoppedAt(journal.id)
           \/ /\ journal.kind = "update" /\ step = "build" /\ did = saga.did \cup {step}
              /\ container' = [container EXCEPT ![journal.id] = "none"]
    PROVE  SagaInv'
  <2>0. UNCHANGED <<row, secret, userRoute, homeOf, oauthDir, configFile, backup, archived,
                    published, journal>>
    BY DEF recordVars, fileVars
  <2>1. PastTypes' /\ Bounds /\ Grown
    BY FaultFields, Facts DEF Bounds, Grown
  <2>2. OperationKnown' /\ SagaKnown' /\ Records' /\ Turned(did)
    BY <2>0, <2>1, StepTurn DEF StillThere, RecordSteps
  <2>3. /\ journal' = journal /\ row' = row /\ Busy' /\ ~Ahead' /\ Behind' /\ Busy /\ Ahead
        /\ saga'.ask = saga.ask /\ saga'.old = saga.old /\ saga'.mode # "recover"
        /\ OldRows' = OldRows /\ Bearer' = Bearer
        /\ \A s : ~Undid(s)'
        /\ \A s : Did(s)' <=> s \in did
        /\ \A s : Due(s)' <=> s \in Undo(journal.kind, did)
        /\ Known
    BY <2>2 DEF Turned
  <2>4. /\ (\A a : Exists(a)' <=> Exists(a)) /\ Touched' = Touched /\ Calm' = Calm
        /\ Desired(journal)' = Desired(journal) /\ (Renames(journal)' <=> Renames(journal))
        /\ \A d, b : (SoundDir(d, b)' <=> SoundDir(d, b)) /\ (Held(b)' <=> Held(b))
        /\ \A a : /\ DirAgrees(a)' <=> DirAgrees(a)
                  /\ ConfigAgrees(a)' <=> ConfigAgrees(a)
                  /\ SecretAgrees(a)' <=> SecretAgrees(a)
    BY <2>0, <2>1, <2>3, Static, SameSound DEF DirAgrees, ConfigAgrees, SecretAgrees, Bounds
  <2>5. /\ journal.kind # "policy" /\ Did("note") /\ journal.phase = "begun"
        /\ step = "build" => journal.kind \in {"create", "update", "delete"} /\ Did("control")
        /\ step = "stop" => journal.kind = "delete" /\ Did("control") /\ Did("build")
        /\ step = "restart" => journal.kind = "clear"
        /\ journal.kind = "update" => Did("files")
        /\ \A s : Did(s)' <=> Did(s) \/ (s = "build" /\ s \in did)
        /\ ~Did("remove")
    <3>1. ~Did("remove")
      BY <2>2 DEF Turned, Did
    <3> QED
      BY <2>3, <3>1, Facts, StepBefore, KindOfStep, ForwardRanks, PhaseKnown DEF Known, Did
  <2>6. /\ container' \in [AccountId -> {"none", "running", "stopped"}]
        /\ \A a \in AccountId : a # journal.id => container'[a] = container[a]
        /\ container'[journal.id] = "none" <=> container[journal.id] = "none" \/ did # saga.did
    <3>1. container \in [AccountId -> {"none", "running", "stopped"}] /\ journal.id \in AccountId
      BY <2>3, Facts DEF WorldTypes, Known
    <3>2. CASE did = saga.did /\ container' = StoppedAt(journal.id)
      BY <3>1, <3>2 DEF StoppedAt
    <3>3. CASE /\ journal.kind = "update" /\ step = "build" /\ did = saga.did \cup {step}
               /\ container' = [container EXCEPT ![journal.id] = "none"]
      <4>1. "build" \notin saga.did /\ "build" \in did
        BY <3>3, Facts, OnwardKnown
      <4>2. did # saga.did
        BY <4>1
      <4> QED
        BY <3>1, <3>3, <4>2
    <3> QED
      BY <3>2, <3>3
  <2>7. did # saga.did => journal.kind = "update" /\ step = "build" /\ "build" \in did
    OBVIOUS
  <2>10. WorldTypes'
    BY <2>0, <2>6, Facts DEF WorldTypes
  <2>11. OldSecrets'
    BY <2>0, <2>3, <2>4, <2>5, Facts DEF OldSecrets, Touched
  <2>12. OthersAgree'
    BY <2>0, <2>1, <2>3, <2>6, Facts, OthersFrame DEF Touched
  <2>13. OAuthKnown'
    BY <2>0, <2>1, <2>3, Facts, OAuthFrame
  <2>14. CreateKept'
    <3>1. past'.oauth = past.oauth /\ journal'.phase = "begun" /\ CreateKept
      BY <2>1, <2>3, <2>5, Facts DEF Bounds
    <3> QED
      BY <2>0, <2>4, <3>1 DEF CreateKept
  <2>15. CreateSteps'
    BY <2>0, <2>3, <2>5, <2>6, <2>7, Facts DEF CreateSteps, Known
  <2>16. UpdateKept'
    BY <2>0, <2>3, <2>4, <2>5, Facts DEF UpdateKept, Known
  <2>17. UpdateSteps'
    <3>1. Renames(journal) => journal.new # journal.id
      BY DEF Renames
    <3> QED
      BY <2>0, <2>3, <2>4, <2>5, <2>6, <2>7, <3>1, Facts DEF UpdateSteps, Known
  <2>18. DeleteKept'
    BY <2>0, <2>3, <2>4, <2>5, Facts DEF DeleteKept
  <2>19. DeleteSteps'
    <3>1. journal.kind = "delete" => Due("files")'
      BY <2>3, <2>5 DEF Undo, Did
    <3> QED
      BY <2>0, <2>1, <2>3, <2>4, <2>5, <2>6, <2>7, <3>1, Facts
         DEF DeleteSteps, Known, SoundDir, Held, Whole, Bounds
  <2>20. ClearKept' /\ ClearSteps'
    BY <2>0, <2>3, <2>4, <2>5, <2>6, <2>7, Facts DEF ClearKept, ClearSteps
  <2>21. RemovedUnpublished'
    BY <2>0, <2>3, <2>4, <2>6, <2>7, Facts DEF RemovedUnpublished
  <2> QED
    BY <2>1, <2>2, <2>3, <2>5, <2>10, <2>11, <2>12, <2>13, <2>14, <2>15, <2>16, <2>17, <2>18, <2>19,
       <2>20, <2>21, OtherKinds, Together

(* The containers after one or two of them changed. *)
LEMMA ContainerTypes ==
    ASSUME SagaInv, NEW a \in AccountId, NEW b \in AccountId, NEW c \in {"none", "running"}
    PROVE  /\ [container EXCEPT ![a] = c] \in [AccountId -> {"none", "running", "stopped"}]
           /\ [container EXCEPT ![a] = "none", ![b] = c] \in [AccountId -> {"none", "running", "stopped"}]
  BY Facts DEF WorldTypes

(* PrepareRuntime keeps the invariant, also when it fails between the *)
(* removal of the old container and the new one.                      *)
LEMMA PrepareRuntimeKeeps ==
    ASSUME SagaInv, PrepareRuntime
    PROVE  SagaInv'
<1>1. Onward("build") /\ UNCHANGED <<recordVars, fileVars, published, journal>>
  BY DEF PrepareRuntime, runtimeFrame
<1>2. Known /\ journal.kind \in {"create", "update", "delete"} /\ Did("control")
  BY <1>1, Facts, OpOfSaga, OnwardKnown, StepBefore, KindOfStep, ForwardRanks DEF Known
<1>3. CASE (Refuse \/ Fails) /\ UNCHANGED container
  BY <1>1, <1>3, TurnKeeps DEF WorldSame
<1>4. CASE journal.kind = "create" /\ Proceed("build")
           /\ container' = [container EXCEPT ![saga.op.id] = "running"]
  BY <1>1, <1>2, <1>4, ContainerForward, ContainerTypes, Facts DEF Known, Touched, WorldTypes
<1>5. CASE journal.kind = "update" /\ Proceed("build")
           /\ container' = [container EXCEPT ![saga.op.id] = "none", ![saga.op.new] = "running"]
  BY <1>1, <1>2, <1>5, ContainerForward, ContainerTypes, Facts DEF Known, Touched, WorldTypes, Renames
<1>6. CASE journal.kind = "update" /\ Fails /\ container' = StoppedAt(saga.op.id)
  BY <1>1, <1>2, <1>6, ContainerTurn DEF Known, Fails
<1>7. CASE journal.kind = "update" /\ Fault /\ TurnBack(saga.did \cup {"build"})
           /\ container' = [container EXCEPT ![saga.op.id] = "none"]
  BY <1>1, <1>2, <1>7, ContainerTurn DEF Known
<1>8. CASE journal.kind = "delete" /\ Proceed("build") /\ UNCHANGED container
  BY <1>1, <1>2, <1>8, ContainerForward, Facts DEF WorldTypes
<1> QED
  BY <1>2, <1>3, <1>4, <1>5, <1>6, <1>7, <1>8 DEF PrepareRuntime, Known

(* CommitRuntime keeps the invariant: a container is removed after the *)
(* snapshot without its account is active.                             *)
LEMMA CommitRuntimeKeeps ==
    ASSUME SagaInv, CommitRuntime
    PROVE  SagaInv'
<1>1. Onward("stop") /\ UNCHANGED <<recordVars, fileVars, published, journal>>
  BY DEF CommitRuntime, runtimeFrame
<1>2. Known /\ journal.kind = "delete"
  BY <1>1, Facts, OpOfSaga, OnwardKnown, StepBefore, KindOfStep DEF Known
<1>3. CASE Fails /\ UNCHANGED container
  BY <1>1, <1>3, TurnKeeps DEF WorldSame
<1>4. CASE Proceed("stop") /\ container' = [container EXCEPT ![saga.op.id] = "none"]
  BY <1>1, <1>2, <1>4, ContainerForward, ContainerTypes, Facts DEF Known, Touched, WorldTypes
<1>5. CASE Fails /\ container' = StoppedAt(saga.op.id)
  BY <1>1, <1>2, <1>5, ContainerTurn DEF Known, Fails
<1> QED
  BY <1>3, <1>4, <1>5 DEF CommitRuntime

(* RestartAccount keeps the invariant. *)
LEMMA RestartAccountKeeps ==
    ASSUME SagaInv, RestartAccount
    PROVE  SagaInv'
<1>1. Onward("restart") /\ UNCHANGED <<recordVars, fileVars, published, journal>>
  BY DEF RestartAccount, runtimeFrame
<1>2. Known /\ journal.kind = "clear"
  BY <1>1, Facts, OpOfSaga, OnwardKnown, StepBefore, KindOfStep DEF Known
<1>3. CASE Fails /\ UNCHANGED container
  BY <1>1, <1>3, TurnKeeps DEF WorldSame
<1>4. CASE Proceed("restart") /\ container' = [container EXCEPT ![saga.op.id] = "running"]
  BY <1>1, <1>2, <1>4, ContainerForward, ContainerTypes, Facts DEF Known, Touched, WorldTypes
<1>5. CASE Fails /\ container' = StoppedAt(saga.op.id)
  BY <1>1, <1>2, <1>5, ContainerTurn DEF Known, Fails
<1> QED
  BY <1>3, <1>4, <1>5 DEF RestartAccount

---------------------------------------------------------------------------
(* The steps of an operation on routes, records and the snapshot.          *)

RowRecords == AskKnown /\ OldRowsKnown /\ OldAccounts /\ RowsKnown

(* The facts about the rows survive while rows and journal do. *)
LEMMA RowRecordsFrame ==
    ASSUME SagaInv, row' = row, journal' = journal, past'.ops = past.ops,
           Onwards({"plan", "control"})
    PROVE  RowRecords'
<1>0. RowRecords
  BY Facts DEF RowRecords
<1>1. (Busy' => Busy /\ saga'.ask = saga.ask /\ saga'.old = saga.old)
      /\ (Busy' => saga'.op.kind = saga.op.kind /\ saga'.op.id = saga.op.id /\ saga'.op.new = saga.op.new)
      /\ (Ahead' => Ahead) /\ (Behind' => Ahead \/ Behind) /\ (Ahead => Busy) /\ (Behind => Busy)
      /\ (Ahead' => Busy') /\ (Behind' => Busy')
      /\ (Behind' /\ Behind => saga'.todo \subseteq saga.todo)
      /\ (Behind' /\ Behind /\ saga.dirty => saga'.dirty)
      /\ (Busy' => (Applied' => Applied))
      /\ (Busy' /\ Did("control")' /\ Applied /\ ~Applied' =>
             saga'.dirty /\ saga'.todo \cap {"home", "render", "publish"} = {})
  BY DEF Onwards, Busy, Ahead, Behind
<1>2. Busy' => /\ Did("plan")' <=> Did("plan")
               /\ Did("control")' <=> Did("control")
  BY DEF Onwards
<1>4. Touched' = Touched /\ (Moving' <=> Moving) /\ (Underway' <=> Underway)
      /\ (Busy' => OldRows' = OldRows /\ Bearer' = Bearer)
  BY <1>1, <1>2 DEF OldRows, Bearer, Touched, Moving, Underway
<1>5. \A a : Exists(a)' <=> Exists(a)
  BY SameRows
<1>6. AskKnown'
  BY <1>0, <1>1, <1>2, <1>4, <1>5 DEF AskKnown, RowRecords
<1>7. OldRowsKnown'
  <2> SUFFICES ASSUME Busy', Did("control")' PROVE OldRowsKnown'
    BY DEF OldRowsKnown
  <2>1. OldRowsKnown /\ Busy /\ Did("control") /\ saga'.old = saga.old
        /\ saga'.op.kind = saga.op.kind /\ saga'.op.id = saga.op.id /\ saga'.op.new = saga.op.new
    BY <1>0, <1>1, <1>2 DEF RowRecords
  <2>2. CASE Applied'
    BY <2>1, <2>2, <1>1 DEF OldRowsKnown, RowsAfter
  <2>3. CASE Applied /\ ~Applied'
    BY <2>1, <2>3, <1>1 DEF OldRowsKnown, RowsAfter
  <2>4. CASE ~Applied /\ ~Applied'
    <3>1. Behind'
      BY <1>2, <2>4 DEF Applied, Ahead, Behind, Busy
    <3>2. Behind
      BY <3>1, <2>4, <2>1, <1>1 DEF Applied
    <3> QED
      BY <2>1, <2>4, <3>1, <3>2, <1>1 DEF OldRowsKnown, RowsAfter
  <2> QED
    BY <2>2, <2>3, <2>4, <1>1
<1>8. OldAccounts'
  BY <1>0, <1>1, <1>4 DEF OldAccounts, RowRecords
<1>9. RowsKnown'
  BY <1>0, <1>5 DEF RowsKnown, RowRecords
<1> QED
  BY <1>6, <1>7, <1>8, <1>9 DEF RowRecords

(* The facts about records and users from their parts. *)
LEMMA AllRecords ==
    ASSUME RowRecords', UsersKnown', OldUsers', RoutesMoved', RoutesRecovered',
           PublishedKnown', PublishedCurrent'
    PROVE  Records'
  BY DEF RowRecords, Records

(* The invariant from its four parts. *)
LEMMA Joined ==
    ASSUME PastTypes', WorldTypes', OperationKnown', SagaKnown', Records', Facets',
           RemovedUnpublished'
    PROVE  SagaInv'
  BY DEF SagaInv, SagaBase

RoutesFrame == UNCHANGED <<row, secret, oauthDir, configFile, backup, archived, container, journal>>

(* A step forward on the routes and the snapshot. *)
LEMMA RouteForward ==
    ASSUME SagaInv, NEW step \in {"move", "expose", "home", "publish"}, Onward(step),
           Proceed(step), RoutesFrame
    PROVE  /\ PastTypes' /\ OperationKnown' /\ SagaKnown' /\ RowRecords' /\ Facets'
           /\ Forwarded(step) /\ Underway
<1>1. OperationKnown /\ SagaKnown /\ PastTypes /\ SagaShape /\ SagaBase /\ Facets
  BY DEF SagaInv, SagaBase, SagaKnown
<1>2. journal' = journal /\ row' = row /\ Underway
  BY <1>1, OnwardKnown DEF RoutesFrame
<1>3. SagaKnown'
  BY <1>1, <1>2, GoesOn
<1>4. /\ saga'.mode = saga.mode /\ saga'.op = saga.op /\ saga'.ask = saga.ask
      /\ saga'.old = saga.old /\ saga'.did = saga.did \cup {step} /\ past' = past
  BY <1>1, ProceedFields DEF SameSaga
<1>5. Onwards({"plan", "control"}) /\ Onwards(FacetSteps) /\ Ahead' /\ Busy'
  BY <1>1, <1>2, ProceedOnwards DEF FacetSteps
<1>6. Recoveries(RepairFacets) /\ saga'.mode # "recover" /\ ~Behind'
  BY <1>5, ElseRecoveries DEF Ahead, Behind
<1>7. PastTypes'
  BY <1>1, <1>4 DEF PastTypes, PastShape
<1>8. OperationKnown'
  BY <1>1, <1>2, OperationFrame
<1>9. RowRecords'
  BY <1>1, <1>2, <1>4, <1>5, RowRecordsFrame
<1>10. Facets'
  BY <1>1, <1>4, <1>5, <1>6, FacetsFrame DEF FacetsSame, SameOperation, RoutesFrame
<1>11. Busy /\ Ahead /\ ~Behind /\ ~Behind' /\ (\A s : ~Undid(s)' /\ ~Done(s)' /\ ~Undid(s))
  BY <1>1, <1>5, OnwardKnown DEF Busy, Ahead, Behind, Undid, Undoes, Done
<1>12. \A s : Did(s)' <=> Did(s) \/ s = step
  BY <1>4 DEF Did
<1>13. OldRows' = OldRows /\ Bearer' = Bearer
  <2>1. Did("control")' <=> Did("control")
    BY <1>12
  <2> QED
    BY <2>1, <1>2, <1>4 DEF OldRows, Bearer
<1>14. Known
  BY <1>1, <1>11, OpOfSaga DEF Known
<1> QED
  BY <1>2, <1>3, <1>4, <1>5, <1>6, <1>7, <1>8, <1>9, <1>10, <1>11, <1>12, <1>13, <1>14
     DEF Forwarded, Grown

(* One that fails. *)
LEMMA RouteTurn ==
    ASSUME SagaInv, NEW step, Onward(step), Fails, RoutesFrame
    PROVE  /\ PastTypes' /\ OperationKnown' /\ SagaKnown' /\ RowRecords' /\ Facets'
           /\ Turned(saga.did) /\ Underway /\ Bounds
<1>1. OperationKnown /\ SagaKnown /\ PastTypes /\ SagaShape /\ SagaBase /\ Facets
  BY DEF SagaInv, SagaBase, SagaKnown
<1>2. journal' = journal /\ row' = row /\ Underway /\ Busy /\ Ahead /\ ~Behind
  BY <1>1, OnwardKnown DEF RoutesFrame, Ahead, Behind
<1>3. TurnBack(saga.did) /\ PastTypes' /\ Bounds
  BY <1>1, FaultFields DEF Fails
<1>4. SagaKnown'
  BY <1>1, <1>2, <1>3, TurnsBack
<1>5. /\ saga'.mode = "back" /\ saga'.op = saga.op /\ saga'.ask = saga.ask
      /\ saga'.old = saga.old /\ saga'.did = saga.did /\ saga'.todo = Undo(journal.kind, saga.did)
  BY <1>1, <1>2, <1>3, TurnBackFields, OpOfSaga
<1>6. Onwards({"plan", "control"}) /\ Onwards(FacetSteps) /\ Behind' /\ Busy'
  BY <1>1, <1>2, <1>3, TurnOnwards
<1>7. Recoveries(RepairFacets) /\ saga'.mode # "recover" /\ ~Ahead'
  BY <1>6, ElseRecoveries DEF Behind, Ahead
<1>8. OperationKnown'
  BY <1>1, <1>2, OperationFrame
<1>9. RowRecords'
  BY <1>1, <1>2, <1>3, <1>6, RowRecordsFrame DEF Bounds
<1>10. Facets'
  BY <1>1, <1>2, <1>3, <1>6, <1>7, FacetsFrame DEF FacetsSame, SameOperation, RoutesFrame, Bounds
<1>11. \A s : ~Undid(s)' /\ ~Done(s)' /\ ~Undid(s)
  BY <1>2, <1>5 DEF Behind, Undid, Undoes, Done, Due
<1>12. (\A s : Did(s)' <=> s \in saga.did) /\ (\A s : Due(s)' <=> s \in Undo(journal.kind, saga.did))
  BY <1>5 DEF Did, Due
<1>13. "remove" \notin saga.did
  BY <1>2, <1>6 DEF Onwards, Did
<1>14. OldRows' = OldRows /\ Bearer' = Bearer
  <2>1. Did("control")' <=> Did("control")
    BY <1>12 DEF Did
  <2> QED
    BY <2>1, <1>2, <1>5 DEF OldRows, Bearer
<1>15. Known
  BY <1>1, <1>2, OpOfSaga DEF Known
<1> QED
  BY <1>2, <1>3, <1>4, <1>5, <1>6, <1>7, <1>8, <1>9, <1>10, <1>11, <1>12, <1>13, <1>14, <1>15
     DEF Turned

(* Where a user is, were the snapshot made anew. *)
RouteFits ==
    \A u \in Calm :
        LET r == userRoute[u]  id == journal.id IN
        /\ r \in Touched \/ Exists(r)
        /\ Ahead /\ journal.kind = "update" /\ Did("expose") /\ ~Did("home") => r \notin Touched
        /\ Behind /\ journal.kind = "update" /\ Did("expose") /\ ~Did("home") /\ Due("home") =>
              r \notin Touched
        /\ Busy /\ Renames(journal) /\ ~Did("home") => r # journal.new
        /\ journal.kind = "create" => r # id
        /\ Ahead /\ journal.kind = "delete" /\ Did("publish") => r # id
        /\ Renames(journal) /\ Exists(journal.new) => r # id

(* What a step does not need the whole invariant for. *)
RouteBase == SagaBase /\ RowRecords /\ UsersKnown /\ RoutesMoved

(* The order in which an operation evacuates, begins and changes the *)
(* records.                                                          *)
LEMMA PlanGround ==
    SagaBase /\ Busy =>
        /\ Did("expose") => Did("move")
        /\ Did("control") /\ Moving => Did("move") /\ Did("note") /\ Did("plan")
        /\ Ahead /\ Did("publish") /\ journal.kind # "clear" => Did("control")
<1> SUFFICES ASSUME SagaBase, Busy
             PROVE  /\ Did("expose") => Did("move")
                    /\ Did("control") /\ Moving => Did("move") /\ Did("note") /\ Did("plan")
                    /\ Ahead /\ Did("publish") /\ journal.kind # "clear" => Did("control")
  OBVIOUS
<1>1. /\ OperationKnown /\ SagaKnown /\ ForwardKnown /\ BackKnown
      /\ journal.kind \in {"create", "update", "delete", "clear", "policy"}
  BY OpOfSaga DEF SagaBase, SagaKnown
<1>2. /\ "expose" \in Plan(journal) => "move" \in Plan(journal)
      /\ Moving => {"move", "note", "plan"} \subseteq Plan(journal)
      /\ journal.kind # "clear" => "control" \in Plan(journal)
  BY <1>1, KindOfStep DEF Moving
<1>3. ASSUME NEW s \in saga.did, NEW t \in Plan(journal), s # "unusable", Forward[t] <= Forward[s]
      PROVE  t \in saga.did
  <2>1. CASE Ahead
    BY <2>1, <1>1, <1>3 DEF ForwardKnown
  <2>2. CASE Behind
    BY <2>2, <1>1, <1>3 DEF BackKnown
  <2> QED
    BY <2>1, <2>2 DEF Busy, Ahead, Behind
<1>4. "expose" \in saga.did => "expose" \in Plan(journal)
  BY <1>1 DEF ForwardKnown, BackKnown, Busy, Ahead, Behind
<1> QED
  BY <1>2, <1>3, <1>4, ForwardRanks DEF Did

(* Everybody is routed to an account that exists or that the operation is *)
(* about.                                                                 *)
LEMMA RouteThere ==
    SagaBase /\ UsersKnown =>
        \A u \in Calm : /\ userRoute[u] \in AccountId
                        /\ userRoute[u] \in Touched \/ Exists(userRoute[u])
<1> SUFFICES ASSUME SagaBase, UsersKnown, NEW u \in Calm
             PROVE  /\ userRoute[u] \in AccountId
                    /\ userRoute[u] \in Touched \/ Exists(userRoute[u])
  OBVIOUS
<1>1. userRoute[u] \in AccountId
  BY DEF SagaBase, WorldTypes, Calm
<1>2. CASE u \notin journal.moved
  BY <1>2, <1>1 DEF UsersKnown, Home
<1>3. CASE u \in journal.moved
  <2>1. Underway /\ journal.to # 0
    BY <1>3, Begun DEF SagaBase, OperationKnown, Underway
  <2>2. Exists(journal.to) /\ userRoute[u] \in Touched \cup {journal.to}
    BY <1>3, <2>1 DEF SagaBase, OperationKnown, UsersKnown
  <2> QED
    BY <1>1, <2>2
<1> QED
  BY <1>2, <1>3

(* An operation that evacuates nobody leaves everybody at home. *)
LEMMA StayHome ==
    SagaBase /\ UsersKnown /\ ~Moving => \A u \in Calm : Home(u)
<1> SUFFICES ASSUME SagaBase, UsersKnown, ~Moving, NEW u \in Calm PROVE Home(u)
  OBVIOUS
<1>1. journal.moved = {}
  BY Begun DEF SagaBase, OperationKnown, Underway
<1> QED
  BY <1>1 DEF UsersKnown

(* A deletion that goes on after the records were changed has no row *)
(* left.                                                             *)
LEMMA DeletedRow ==
    SagaBase /\ RowRecords /\ Ahead /\ Did("control") /\ journal.kind = "delete" =>
        ~Exists(journal.id)
<1> SUFFICES ASSUME SagaBase, RowRecords, Ahead, Did("control"), journal.kind = "delete"
             PROVE  ~Exists(journal.id)
  OBVIOUS
<1>1. row = RowsAfter(saga.old.row) /\ saga.old.row \in [AccountId -> Account]
  BY DEF RowRecords, OldRowsKnown, Busy, Ahead, Applied
<1>2. saga.op.kind = "delete" /\ saga.op.id = journal.id /\ journal.id \in AccountId
  BY OpOfSaga DEF Busy, Ahead, SagaBase
<1> QED
  BY <1>1, <1>2 DEF RowsAfter, Exists, NoAccount

(* Routes are fit to be published at any time. *)
LEMMA AreFit ==
    RouteBase => RouteFits
<1> SUFFICES ASSUME RouteBase, NEW u \in Calm
             PROVE  LET r == userRoute[u]  id == journal.id IN
                    /\ r \in Touched \/ Exists(r)
                    /\ Ahead /\ journal.kind = "update" /\ Did("expose") /\ ~Did("home") => r \notin Touched
                    /\ Behind /\ journal.kind = "update" /\ Did("expose") /\ ~Did("home") /\ Due("home") =>
                          r \notin Touched
                    /\ Busy /\ Renames(journal) /\ ~Did("home") => r # journal.new
                    /\ journal.kind = "create" => r # id
                    /\ Ahead /\ journal.kind = "delete" /\ Did("publish") => r # id
                    /\ Renames(journal) /\ Exists(journal.new) => r # id
  BY DEF RouteFits
<1>1. SagaBase /\ RowRecords /\ UsersKnown /\ RoutesMoved /\ (Ahead => Busy) /\ (Behind => Busy)
  BY DEF RouteBase, Ahead, Behind, Busy
<1>2. userRoute[u] \in Touched \/ Exists(userRoute[u])
  BY <1>1, RouteThere
<1>3. Busy => /\ Did("expose") => Did("move")
              /\ Ahead /\ Did("publish") /\ journal.kind # "clear" => Did("control")
  BY <1>1, PlanGround
<1>4. ASSUME Ahead, journal.kind = "delete", Did("publish") PROVE userRoute[u] # journal.id
  <2>1. ~Exists(journal.id)
    BY <1>1, <1>3, <1>4, DeletedRow
  <2>2. Home(u)
    BY <1>1, <1>4, StayHome DEF Moving
  <2> QED
    BY <2>1, <2>2 DEF Home
<1> QED
  BY <1>1, <1>2, <1>3, <1>4 DEF UsersKnown, RoutesMoved, Moving, Renames

(* A snapshot made anew. *)
UpToDate == published = Current

(* A snapshot that has just been published fits the records. *)
LEMMA AnewKnown ==
    RouteBase /\ UpToDate => PublishedKnown /\ PublishedCurrent /\ RemovedUnpublished
<1> SUFFICES ASSUME RouteBase, UpToDate
             PROVE  PublishedKnown /\ PublishedCurrent /\ RemovedUnpublished
  OBVIOUS
<1>1. RouteFits /\ published.route = userRoute
  BY AreFit DEF UpToDate, Current
<1>2. PublishedKnown /\ PublishedCurrent
  BY <1>1 DEF RouteFits, PublishedKnown, PublishedCurrent, UpToDate
<1>3. RemovedUnpublished
  <2>1. journal.kind = "delete" => \A u \in Calm : Home(u)
    BY StayHome DEF Moving, RouteBase
  <2> QED
    BY <1>1, <2>1 DEF RemovedUnpublished, Home
<1> QED
  BY <1>2, <1>3

(* The facts about users survive while their routes and the rows do. *)
LEMMA UsersFrame ==
    ASSUME SagaInv, UNCHANGED <<row, userRoute, homeOf, journal>>, past'.strayed = past.strayed,
           Onwards({"move", "control", "home"}), Recoveries({"home"})
    PROVE  UsersKnown' /\ OldUsers' /\ RoutesMoved' /\ RoutesRecovered'
<1>0. UsersKnown /\ OldUsers /\ RoutesMoved /\ RoutesRecovered
  BY Facts
<1>1. (Busy' => Busy /\ saga'.ask = saga.ask /\ saga'.old = saga.old)
      /\ (Ahead' => Ahead) /\ (Behind' => Ahead \/ Behind) /\ (Ahead => Busy) /\ (Behind => Busy)
      /\ (Ahead' => Busy') /\ (Behind' => Busy')
      /\ (Behind' /\ Behind => saga'.todo \subseteq saga.todo)
      /\ (Busy' => (Applied' => Applied))
  BY DEF Onwards, Busy, Ahead, Behind
<1>2. Busy' => /\ Did("control")' <=> Did("control")
               /\ Did("move")' <=> Did("move")
               /\ Did("home")' <=> Did("home")
  BY DEF Onwards
<1>3. (Undid("home")' => Undid("home")) /\ (Done("home")' => Done("home"))
  BY DEF Onwards, Recoveries
<1>4. Touched' = Touched /\ (Moving' <=> Moving) /\ Calm' = Calm
      /\ (Busy' => OldRows' = OldRows /\ Bearer' = Bearer)
  BY <1>1, <1>2 DEF OldRows, Bearer, Touched, Moving, Calm
<1>5. (\A a : Exists(a)' <=> Exists(a)) /\ Desired(journal)' = Desired(journal)
      /\ (\A u : Home(u)' <=> Home(u))
  BY SameRows DEF Home, Desired
<1>6. UsersKnown'
  BY <1>0, <1>4, <1>5 DEF UsersKnown
<1>7. OldUsers'
  BY <1>0, <1>1, <1>4 DEF OldUsers
<1>8. RoutesMoved'
  BY <1>0, <1>1, <1>2, <1>3, <1>4, <1>5 DEF RoutesMoved, Due
<1>9. RoutesRecovered'
  BY <1>0, <1>3, <1>4, <1>5 DEF RoutesRecovered
<1> QED
  BY <1>6, <1>7, <1>8, <1>9

(* What is published is a snapshot. *)
LEMMA CurrentType ==
    WorldTypes => Current \in [route : [Evacuee -> AccountId], account : [AccountId -> Account]]
  BY DEF WorldTypes, Current

(* The snapshot made anew by a step of an operation, of its compensation,  *)
(* of its recovery.                                                        *)
LEMMA AnewKeeps ==
    ASSUME SagaInv, published' = Current,
           UNCHANGED <<row, secret, userRoute, homeOf, oauthDir, configFile, backup, archived,
                       container, journal>>,
           past'.strayed = past.strayed, PastTypes', OperationKnown', SagaKnown', RowRecords',
           Facets', Onwards({"move", "control", "home"}), Recoveries({"home"})
    PROVE  SagaInv'
<1>1. UsersKnown' /\ OldUsers' /\ RoutesMoved' /\ RoutesRecovered'
  BY UsersFrame
<1>2. WorldTypes'
  BY CurrentType, Facts DEF WorldTypes
<1>3. UpToDate'
  BY DEF UpToDate, Current
<1>4. RouteBase'
  BY <1>1, <1>2 DEF RouteBase, SagaBase
<1>5. RouteBase' /\ UpToDate' =>
         PublishedKnown' /\ PublishedCurrent' /\ RemovedUnpublished'
  BY AnewKnown, PTL
<1> QED
  BY <1>1, <1>2, <1>3, <1>4, <1>5, AllRecords, Joined

(* ExposeFallback keeps the invariant: from here on nobody is sent to the *)
(* account under maintenance.                                             *)
LEMMA ExposeFallbackKeeps ==
    ASSUME SagaInv, ExposeFallback
    PROVE  SagaInv'
<1>1. Onward("expose") /\ UNCHANGED <<row, secret, userRoute, homeOf, oauthDir, configFile, backup,
                                      archived, container, journal>>
  BY DEF ExposeFallback, routesFrame, fileVars
<1>2. Known /\ Moving /\ Busy /\ Ahead /\ Did("move") /\ ~Did("control") /\ ~Did("home")
      /\ saga.op.moved = journal.moved
  BY <1>1, Facts, OpOfSaga, OnwardKnown, StepBefore, KindOfStep, ForwardRanks
     DEF Known, Moving, Ahead
<1>3. CASE Proceed("expose") /\ (published' = Current \/ (saga.op.moved = {} /\ UNCHANGED published))
  <2>1. published' = Current
    BY <1>2, <1>3, Facts DEF PublishedCurrent
  <2>2. /\ PastTypes' /\ OperationKnown' /\ SagaKnown' /\ RowRecords' /\ Facets'
        /\ Forwarded("expose")
    BY <1>1, <1>3, RouteForward DEF RoutesFrame
  <2>3. past'.strayed = past.strayed /\ saga'.mode # "recover"
    BY <2>2 DEF Forwarded
  <2>4. Onwards({"move", "control", "home"}) /\ Recoveries({"home"})
    BY <1>1, <1>3, <2>3, Facts, ProceedOnwards, ElseRecoveries
  <2> QED
    BY <1>1, <2>1, <2>2, <2>3, <2>4, AnewKeeps
<1>4. CASE Fails /\ UNCHANGED published
  BY <1>1, <1>4, TurnKeeps DEF WorldSame, recordVars, fileVars
<1>5. CASE Fails /\ published' = Current
  <2>1. /\ PastTypes' /\ OperationKnown' /\ SagaKnown' /\ RowRecords' /\ Facets'
        /\ Turned(saga.did) /\ Bounds /\ TurnBack(saga.did)
    BY <1>1, <1>5, RouteTurn DEF RoutesFrame, Fails
  <2>2. past'.strayed = past.strayed /\ saga'.mode # "recover"
    BY <2>1 DEF Turned, Bounds
  <2>3. Onwards({"move", "control", "home"}) /\ Recoveries({"home"})
    BY <1>1, <2>1, <2>2, Facts, TurnOnwards, ElseRecoveries
  <2> QED
    BY <1>1, <1>5, <2>1, <2>2, <2>3, AnewKeeps
<1>6. \/ Proceed("expose") /\ (published' = Current \/ (saga.op.moved = {} /\ UNCHANGED published))
      \/ Fails /\ published' \in {published, Current}
  BY DEF ExposeFallback, PublishAuthSnapshot, MayPublish
<1> QED
  BY <1>3, <1>4, <1>5, <1>6

(* PublishStep keeps the invariant, whether or not a failed publication *)
(* took effect.                                                         *)
LEMMA PublishStepKeeps ==
    ASSUME SagaInv, PublishStep
    PROVE  SagaInv'
<1>1. Onward("publish") /\ UNCHANGED <<row, secret, userRoute, homeOf, oauthDir, configFile, backup,
                                       archived, container, journal>>
  BY DEF PublishStep, recordVars, fileVars
<1>2. Known /\ Busy /\ Ahead /\ (journal.kind = "clear" => ~Did("control"))
      /\ saga.op.moved = journal.moved
  BY <1>1, Facts, OpOfSaga, OnwardKnown, StepBefore, KindOfStep DEF Known, Ahead
<1>3. CASE Proceed("publish") /\ (published' = Current \/ (Unmoved /\ UNCHANGED published))
  <2>1. published' = Current
    BY <1>2, <1>3, Facts DEF PublishedCurrent, Unmoved, Moving, Known
  <2>2. /\ PastTypes' /\ OperationKnown' /\ SagaKnown' /\ RowRecords' /\ Facets'
        /\ Forwarded("publish")
    BY <1>1, <1>3, RouteForward DEF RoutesFrame
  <2>3. past'.strayed = past.strayed /\ saga'.mode # "recover"
    BY <2>2 DEF Forwarded
  <2>4. Onwards({"move", "control", "home"}) /\ Recoveries({"home"})
    BY <1>1, <1>3, <2>3, Facts, ProceedOnwards, ElseRecoveries
  <2> QED
    BY <1>1, <2>1, <2>2, <2>3, <2>4, AnewKeeps
<1>4. CASE Fails /\ UNCHANGED published
  BY <1>1, <1>4, TurnKeeps DEF WorldSame, recordVars, fileVars
<1>5. CASE Fails /\ published' = Current
  <2>1. /\ PastTypes' /\ OperationKnown' /\ SagaKnown' /\ RowRecords' /\ Facets'
        /\ Turned(saga.did) /\ Bounds /\ TurnBack(saga.did)
    BY <1>1, <1>5, RouteTurn DEF RoutesFrame, Fails
  <2>2. past'.strayed = past.strayed /\ saga'.mode # "recover"
    BY <2>1 DEF Turned, Bounds
  <2>3. Onwards({"move", "control", "home"}) /\ Recoveries({"home"})
    BY <1>1, <2>1, <2>2, Facts, TurnOnwards, ElseRecoveries
  <2> QED
    BY <1>1, <1>5, <2>1, <2>2, <2>3, AnewKeeps
<1>6. \/ Proceed("publish") /\ (published' = Current \/ (Unmoved /\ UNCHANGED published))
      \/ Fails /\ published' \in {published, Current}
  BY DEF PublishStep, PublishAuthSnapshot, MayPublish
<1> QED
  BY <1>3, <1>4, <1>5, <1>6

(* The account of an operation that moves users, before its records.       *)
LEMMA MovedUsers ==
    ASSUME SagaInv, Underway, journal.moved # {}
    PROVE  /\ Moving /\ journal.phase # "accepted"
           /\ journal.to \in AccountId \ Touched /\ Exists(journal.to) /\ row[journal.to].enabled
  BY Facts DEF OperationKnown

(* MoveRoutes keeps the invariant: the evacuated users are on the *)
(* replacement.                                                   *)
LEMMA MoveRoutesKeeps ==
    ASSUME SagaInv, MoveRoutes
    PROVE  SagaInv'
<1>1. Onward("move") /\ UNCHANGED <<row, secret, homeOf, oauthDir, configFile, backup,
                                    archived, container, published, journal>>
  BY DEF MoveRoutes, routesFrame, fileVars
<1>2. CASE (Refuse \/ Fails) /\ UNCHANGED userRoute
  BY <1>1, <1>2, TurnKeeps DEF WorldSame, recordVars, fileVars
<1>3. CASE /\ \A u \in saga.op.moved : userRoute[u] = saga.op.id
           /\ RestoreTo(saga.op, saga.op.to) /\ Proceed("move")
  <2>1. /\ PastTypes' /\ OperationKnown' /\ SagaKnown' /\ RowRecords' /\ Facets'
        /\ Forwarded("move") /\ Underway
    BY <1>1, <1>3, RouteForward DEF RoutesFrame
  <2>2. /\ past' = past /\ Busy /\ Busy' /\ Ahead /\ Ahead' /\ ~Behind /\ ~Behind'
        /\ \A s : ~Undid(s)' /\ ~Done(s)'
        /\ \A s : Did(s)' <=> Did(s) \/ s = "move"
        /\ OldRows' = OldRows /\ Bearer' = Bearer /\ Known /\ journal' = journal /\ row' = row
    BY <2>1 DEF Forwarded
  <2>3. /\ Moving /\ Did("plan") /\ ~Did("move") /\ ~Did("control") /\ ~Did("home")
        /\ ~Did("expose") /\ ~Did("publish") /\ journal.phase # "accepted"
        /\ saga.op.moved = journal.moved /\ saga.op.to = journal.to /\ saga.op.id = journal.id
    BY <1>1, <2>2, Facts, OpOfSaga, StepBefore, KindOfStep, ForwardRanks, PhaseKnown
       DEF Known, Moving
  <2>4. Desired(journal) = journal.id
    BY <2>2, <2>3, Bearers DEF Moving
  <2>5. /\ (\A a : Exists(a)' <=> Exists(a)) /\ Touched' = Touched /\ Calm' = Calm
        /\ Desired(journal)' = Desired(journal) /\ (Renames(journal)' <=> Renames(journal))
    BY <2>2, Static DEF Grown
  <2>6. /\ userRoute \in [Evacuee -> AccountId] /\ journal.moved \subseteq Evacuee
        /\ journal.moved # {} => journal.to \in AccountId \ Touched
    BY <2>1, Facts, MovedUsers DEF WorldTypes, OperationKnown
  <2>7. userRoute' = [u \in Evacuee |-> IF u \in journal.moved THEN journal.to ELSE userRoute[u]]
    BY <1>3, <2>3 DEF RestoreTo
  <2>8. /\ userRoute' \in [Evacuee -> AccountId]
        /\ \A u \in Evacuee : u \in journal.moved => userRoute'[u] = journal.to
                                                     /\ userRoute'[u] \notin Touched
        /\ \A u \in Evacuee : u \notin journal.moved => userRoute'[u] = userRoute[u]
        /\ journal.moved = {} => userRoute' = userRoute
    BY <2>6, <2>7
  <2>9. \A u \in Calm : u \in Evacuee /\ (u \in journal.moved => userRoute[u] = journal.id)
    BY <1>3, <2>3 DEF Calm
  <2>10. WorldTypes'
    BY <1>1, <2>8, Facts DEF WorldTypes
  <2>11. UsersKnown'
    <3> SUFFICES ASSUME NEW u \in Calm
                 PROVE  /\ u \notin journal.moved => Home(u)'
                        /\ u \notin journal.moved => userRoute'[u] \notin Touched
                        /\ u \in journal.moved =>
                              IF row[journal.id].enabled
                              THEN homeOf[u] = row[journal.id].born
                              ELSE homeOf[u] = row[journal.to].born
                        /\ Renames(journal) => ~Exists(journal.new)
      BY <1>1, <2>2, <2>3, <2>4, <2>5, <2>8, <2>9 DEF UsersKnown, Moving
    <3>1. Renames(journal) => ~Exists(journal.new)
      BY <2>2, <2>3, Bearers
    <3>2. u \notin journal.moved => Home(u)' /\ userRoute'[u] \notin Touched
      BY <1>1, <2>2, <2>3, <2>5, <2>8, <2>9, Facts DEF UsersKnown, Home
    <3> QED
      BY <3>1, <3>2, <2>4, Facts DEF UsersKnown
  <2>12. OldUsers' /\ RoutesRecovered'
    BY <2>2, <2>3 DEF OldUsers, Applied, RoutesRecovered
  <2>13. RoutesMoved'
    <3> SUFFICES ASSUME NEW u \in Calm
                 PROVE  /\ u \in journal.moved => OldRows[journal.id].enabled
                        /\ userRoute'[u] \notin Touched
      BY <2>2, <2>3, <2>5 DEF RoutesMoved, Touched
    <3>1. u \notin journal.moved => userRoute[u] \notin Touched
      BY <2>3, Facts DEF UsersKnown
    <3> QED
      BY <3>1, <2>2, <2>3, <2>8, <2>9, Facts DEF RoutesMoved
  <2>14. PublishedKnown'
    BY <1>1, <2>2, <2>3, <2>5, Facts DEF PublishedKnown
  <2>15. PublishedCurrent'
    <3> SUFFICES ASSUME journal.moved = {} PROVE published' = Current'
      BY <2>1, <2>2, <2>3 DEF PublishedCurrent, Moving, Underway
    <3>1. published = Current
      BY <2>2, <2>3, Facts DEF PublishedCurrent
    <3> QED
      BY <3>1, <1>1, <2>8 DEF Current
  <2>16. RemovedUnpublished'
    BY <2>2, <2>3 DEF RemovedUnpublished, Moving
  <2> QED
    BY <2>1, <2>10, <2>11, <2>12, <2>13, <2>14, <2>15, <2>16, AllRecords, Joined
<1> QED
  BY <1>1, <1>2, <1>3 DEF MoveRoutes

(* BringHome keeps the invariant: who was evacuated is on the account *)
(* again, unless it was disabled.                                     *)
LEMMA BringHomeKeeps ==
    ASSUME SagaInv, BringHome
    PROVE  SagaInv'
<1>1. Onward("home") /\ UNCHANGED <<row, secret, homeOf, oauthDir, configFile, backup,
                                    archived, container, published, journal>>
  BY DEF BringHome, routesFrame, fileVars
<1>2. CASE (Refuse \/ Fails) /\ UNCHANGED userRoute
  BY <1>1, <1>2, TurnKeeps DEF WorldSame, recordVars, fileVars
<1>3. CASE /\ Proceed("home")
           /\ \/ UNCHANGED userRoute /\ \/ saga.op.moved = {}
                                        \/ saga.op.kind = "update" /\ ~row[FinalId(saga.op)].enabled
              \/ RestoreTo(saga.op, FinalId(saga.op)) /\ saga.op.moved # {}
                 /\ (saga.op.kind = "update" => row[FinalId(saga.op)].enabled)
  <2> DEFINE found == FinalId(journal)
  <2>1. /\ PastTypes' /\ OperationKnown' /\ SagaKnown' /\ RowRecords' /\ Facets'
        /\ Forwarded("home") /\ Underway
    BY <1>1, <1>3, RouteForward DEF RoutesFrame
  <2>2. /\ past' = past /\ Busy /\ Busy' /\ Ahead /\ Ahead' /\ ~Behind /\ ~Behind'
        /\ \A s : ~Undid(s)' /\ ~Done(s)'
        /\ \A s : Did(s)' <=> Did(s) \/ s = "home"
        /\ OldRows' = OldRows /\ Bearer' = Bearer /\ Known /\ journal' = journal /\ row' = row
        /\ saga'.ask = saga.ask /\ saga'.old = saga.old
    BY <2>1 DEF Forwarded
  <2>3. /\ Moving /\ Did("plan") /\ Did("move") /\ ~Did("home") /\ ~Did("publish")
        /\ journal.kind = "update" => Did("control")
        /\ journal.kind = "clear" => ~Did("control")
        /\ journal.phase # "accepted"
        /\ saga.op.moved = journal.moved /\ saga.op.to = journal.to /\ saga.op.id = journal.id
    BY <1>1, <2>2, Facts, OpOfSaga, StepBefore, KindOfStep, ForwardRanks, PhaseKnown
       DEF Known, Moving
  <2>4. /\ Desired(journal) = found /\ found \in Touched /\ found \in AccountId
        /\ Exists(found) /\ (Renames(journal) => found = journal.new /\ journal.new # journal.id)
        /\ FinalId(saga.op) = found
    <3>1. CASE journal.kind = "update"
      BY <2>2, <2>3, <3>1, AheadRecords, AfterRecords DEF FinalId, Touched, Known, Renames
    <3>2. CASE journal.kind = "clear"
      BY <2>2, <2>3, <3>2, Bearers DEF FinalId, Touched, Known, Renames
    <3> QED
      BY <2>3, <3>1, <3>2 DEF Moving
  <2>5. /\ (\A a : Exists(a)' <=> Exists(a)) /\ Touched' = Touched /\ Calm' = Calm
        /\ Desired(journal)' = Desired(journal) /\ (Renames(journal)' <=> Renames(journal))
    BY <2>2, Static DEF Grown
  <2>6. journal.kind = "clear" => \A u \in Calm : u \in journal.moved => row[found].enabled
    BY <2>2, <2>3, Facts DEF RoutesMoved, FinalId, OldRows
  <2>7. /\ userRoute \in [Evacuee -> AccountId] /\ journal.moved \subseteq Evacuee
    BY <2>1, Facts DEF WorldTypes, OperationKnown
  <2>8. /\ userRoute' \in [Evacuee -> AccountId]
        /\ \A u \in Evacuee : u \notin journal.moved => userRoute'[u] = userRoute[u]
        /\ \A u \in Calm : u \in journal.moved =>
              \/ row[found].enabled /\ userRoute'[u] = found
              \/ ~row[found].enabled /\ userRoute'[u] = userRoute[u]
        /\ journal.moved = {} => userRoute' = userRoute
    <3>1. CASE UNCHANGED userRoute
               /\ (saga.op.moved = {} \/ (saga.op.kind = "update" /\ ~row[FinalId(saga.op)].enabled))
      BY <3>1, <2>3, <2>4, <2>7
    <3>2. CASE RestoreTo(saga.op, FinalId(saga.op)) /\ saga.op.moved # {}
               /\ (saga.op.kind = "update" => row[FinalId(saga.op)].enabled)
      <4>1. userRoute' = [u \in Evacuee |-> IF u \in journal.moved THEN found ELSE userRoute[u]]
        BY <3>2, <2>3, <2>4 DEF RestoreTo
      <4>2. \A u \in Calm : u \in journal.moved => row[found].enabled
        BY <3>2, <2>2, <2>3, <2>4, <2>6 DEF Moving, Known
      <4> QED
        BY <3>2, <4>1, <4>2, <2>3, <2>4, <2>7 DEF Calm
    <3> QED
      BY <1>3, <3>1, <3>2
  <2> HIDE DEF found
  <2>9. \A u \in Calm : Home(u)'
    <3> SUFFICES ASSUME NEW u \in Calm PROVE Home(u)'
      OBVIOUS
    <3>1. CASE u \notin journal.moved
      BY <3>1, <1>1, <2>2, <2>5, <2>8, Facts DEF UsersKnown, Home, Calm
    <3>2. CASE u \in journal.moved /\ row[found].enabled
      BY <3>2, <1>1, <2>2, <2>4, <2>5, <2>8, Facts DEF UsersKnown, Home, Calm
    <3>3. CASE u \in journal.moved /\ ~row[found].enabled
      <4>1. homeOf[u] = row[journal.to].born /\ userRoute[u] = journal.to
        BY <3>3, <2>4, Facts DEF UsersKnown
      <4>2. Exists(journal.to) /\ row[journal.to].enabled
        BY <3>3, <2>1, MovedUsers
      <4> QED
        BY <3>3, <4>1, <4>2, <1>1, <2>2, <2>5, <2>8 DEF Home
    <3> QED
      BY <3>1, <3>2, <3>3
  <2>10. WorldTypes'
    BY <1>1, <2>8, Facts DEF WorldTypes
  <2>11. UsersKnown'
    <3> SUFFICES ASSUME NEW u \in Calm
                 PROVE  /\ u \notin journal.moved => userRoute'[u] \notin Touched
                        /\ u \in journal.moved =>
                              IF row[found].enabled
                              THEN homeOf[u] = row[found].born
                                   /\ userRoute'[u] \in Touched \cup {journal.to}
                              ELSE homeOf[u] = row[journal.to].born /\ userRoute'[u] = journal.to
                        /\ Renames(journal) => userRoute'[u] # journal.id
      BY <1>1, <2>2, <2>3, <2>4, <2>5, <2>9 DEF UsersKnown, Moving
    <3>1. u \notin journal.moved => userRoute'[u] \notin Touched
      BY <2>3, <2>8, Facts DEF UsersKnown, Calm
    <3>2. u \in journal.moved =>
             IF row[found].enabled
             THEN homeOf[u] = row[found].born /\ userRoute'[u] \in Touched \cup {journal.to}
             ELSE homeOf[u] = row[journal.to].born /\ userRoute'[u] = journal.to
      BY <2>4, <2>8, Facts DEF UsersKnown
    <3>3. Renames(journal) => userRoute'[u] # journal.id
      <4>1. Renames(journal) => userRoute[u] # journal.id
        BY <2>4, Facts DEF UsersKnown
      <4> QED
        BY <4>1, <2>4, <2>8 DEF Calm
    <3> QED
      BY <3>1, <3>2, <3>3
  <2>12. OldUsers' /\ RoutesRecovered'
    <3> SUFFICES ASSUME Applied' PROVE OldUsers'
      BY <2>2 DEF OldUsers, RoutesRecovered
    <3>1. Applied /\ (Did("control")' <=> Did("control"))
      BY <2>2 DEF Applied
    <3> QED
      BY <1>1, <2>2, <2>3, <2>5, <2>8, <3>1, Facts DEF OldUsers, Calm
  <2>13. RoutesMoved'
    BY <2>2, <2>3, <2>5, <2>9, Facts DEF RoutesMoved
  <2>14. PublishedKnown'
    BY <1>1, <2>2, <2>3, <2>5, Facts DEF PublishedKnown
  <2>15. PublishedCurrent'
    <3> SUFFICES ASSUME journal.moved = {}, ~Did("control") PROVE published' = Current'
      BY <2>1, <2>2, <2>3 DEF PublishedCurrent, Moving, Underway
    <3>1. published = Current
      BY <2>2, <2>3, Facts DEF PublishedCurrent
    <3> QED
      BY <3>1, <1>1, <2>8 DEF Current
  <2>16. RemovedUnpublished'
    BY <2>2, <2>3 DEF RemovedUnpublished, Moving
  <2> QED
    BY <2>1, <2>10, <2>11, <2>12, <2>13, <2>14, <2>15, <2>16, AllRecords, Joined
<1>4. \/ (Refuse \/ Fails) /\ UNCHANGED userRoute
      \/ /\ Proceed("home")
         /\ \/ UNCHANGED userRoute /\ \/ saga.op.moved = {}
                                      \/ saga.op.kind = "update" /\ ~row[FinalId(saga.op)].enabled
            \/ RestoreTo(saga.op, FinalId(saga.op)) /\ saga.op.moved # {}
               /\ (saga.op.kind = "update" => row[FinalId(saga.op)].enabled)
  BY DEF BringHome
<1> QED
  BY <1>2, <1>3, <1>4

---------------------------------------------------------------------------
(* The steps of an operation on its journal.                               *)

(* Note keeps the invariant: with the phase "begun" recovery no longer *)
(* takes the accounts for untouched.                                   *)
LEMMA NoteKeeps ==
    ASSUME SagaInv, Note
    PROVE  SagaInv'
<1>1. Onward("note") /\ UNCHANGED <<row, secret, userRoute, homeOf, oauthDir, configFile, backup,
                                    archived, container, published>>
  BY DEF Note, operationFrame, recordVars, fileVars
<1>2. CASE Fails /\ UNCHANGED journal
  BY <1>1, <1>2, TurnKeeps DEF WorldSame, recordVars, fileVars
<1>3. CASE journal' = [saga.op EXCEPT !.phase = "begun"] /\ Proceed("note")
  <2>1. /\ saga'.mode = saga.mode /\ saga'.op = saga.op /\ saga'.ask = saga.ask /\ SagaShape'
        /\ saga'.old = saga.old /\ saga'.did = saga.did \cup {"note"} /\ past' = past
        /\ saga'.todo = saga.todo \ {"note"} /\ saga'.dirty = saga.dirty
    BY <1>3, ProceedFields, Facts DEF SameSaga
  <2>2. /\ Busy /\ Ahead /\ ~Behind /\ Underway /\ ~Did("note") /\ saga.mode = "forward"
        /\ Plan(journal) \subseteq ForwardSteps
        /\ Moving => Did("plan")
        /\ journal.kind # "policy"
    BY <1>1, Facts, OnwardKnown, OpOfSaga, StepBefore, KindOfStep, ForwardRanks, PlanSteps
       DEF Ahead, Behind, Did, Moving
  <2>3. saga.op = journal /\ OpShape(journal) /\ (Moving => journal.phase # "accepted")
        /\ journal.phase # "begun"
    BY <2>2, Facts DEF SagaKnown, OperationKnown
  <2>4. /\ journal' = [journal EXCEPT !.phase = "begun"] /\ OpShape(journal')
        /\ journal'.phase = "begun" /\ SameJournal /\ SameOperation
        /\ (Moving' <=> Moving) /\ (Renames(journal)' <=> Renames(journal)) /\ Underway'
    <3>1. journal' = [journal EXCEPT !.phase = "begun"]
      BY <1>3, <2>3
    <3>2. /\ journal'.kind = journal.kind /\ journal'.id = journal.id /\ journal'.new = journal.new
          /\ journal'.moved = journal.moved /\ journal'.to = journal.to /\ journal'.phase = "begun"
          /\ OpShape(journal')
      BY <2>3, <3>1 DEF OpShape
    <3>3. Underway'
      BY <3>2, Begun DEF Underway
    <3> QED
      BY <2>2, <2>3, <3>1, <3>2, <3>3 DEF SameJournal, SameOperation, Moving, Renames
  <2>5. Plan(journal)' = Plan(journal)
    BY <2>4 DEF Plan, SameJournal
  <2>6. SagaKnown'
    <3>1. ForwardKnown' /\ BackKnown' /\ RecoverKnown' /\ saga'.dirty \in BOOLEAN
      BY <1>1, <2>1, <2>2, <2>5, ForwardMoves, Facts
    <3>2. saga'.op = journal /\ Did("note")' /\ (Did("plan")' <=> Did("plan"))
      BY <2>1, <2>3 DEF Did
    <3> QED
      BY <2>1, <2>2, <2>3, <2>4, <3>1, <3>2 DEF SagaKnown, Busy, Moving
  <2>7. OperationKnown'
    <3>1. (\A a : Exists(a)' <=> Exists(a)) /\ Touched' = Touched
      BY <1>1, <2>4 DEF Exists, Touched, SameJournal
    <3> QED
      BY <1>1, <2>1, <2>2, <2>4, <3>1, Facts DEF OperationKnown, SameJournal, Moving
  <2>8. \A steps : "note" \notin steps => Onwards(steps)
    <3> SUFFICES ASSUME NEW steps, "note" \notin steps PROVE Onwards(steps)
      OBVIOUS
    <3>1. Busy' /\ Ahead' /\ ~Behind'
      BY <2>1, <2>2 DEF Busy, Ahead, Behind
    <3>2. \A s \in steps \cup {"control"} : Did(s)' <=> Did(s)
      BY <2>1 DEF Did
    <3>3. \A s : ~Undid(s)'
      BY <3>1 DEF Undid, Undoes
    <3>4. Applied' => Applied
      BY <2>2, <3>2 DEF Applied
    <3>5. Applied' \/ ~Did("control")'
      BY <3>1 DEF Applied
    <3> QED
      BY <2>1, <2>2, <3>1, <3>2, <3>3, <3>4, <3>5 DEF Onwards
  <2>9. Onwards(RecordSteps) /\ Onwards(FacetSteps)
    BY <2>8 DEF RecordSteps, FacetSteps
  <2>10. saga'.mode # "recover" /\ ~Behind
    BY <2>1, <2>2
  <2>11. Recoveries({"home", "publish"}) /\ Recoveries(RepairFacets)
    BY <2>10, ElseRecoveries
  <2>12. Records'
    BY <1>1, <2>1, <2>4, <2>9, <2>11, Facts, RecordsFrame DEF RecordsSame
  <2>13. Facets'
    BY <1>1, <2>1, <2>4, <2>9, <2>10, <2>11, Facts, FacetsFrame DEF FacetsSame
  <2>14. PastTypes' /\ WorldTypes'
    BY <1>1, <2>1, Facts DEF PastTypes, PastShape, WorldTypes
  <2>15. RemovedUnpublished'
    BY <1>1, <2>1, <2>4, Facts DEF RemovedUnpublished, SameJournal, Exists, Calm
  <2> QED
    BY <2>6, <2>7, <2>12, <2>13, <2>14, <2>15, Joined
<1> QED
  BY <1>1, <1>2, <1>3 DEF Note

(* The death of Admin between two steps keeps the invariant. *)
LEMMA DeathKeeps ==
    ASSUME SagaInv, Death
    PROVE  SagaInv'
<1>1. WorldSame /\ PastTypes' /\ Bounds /\ saga' = Down
  BY DiesFields, Facts DEF Death, WorldSame
<1>2. Underway
  BY OpOfSaga, Facts DEF Death, Busy
<1> QED
  BY <1>1, <1>2, DownKeeps

(* The drain of a recovery keeps the invariant. *)
LEMMA RecoverDrainKeeps ==
    ASSUME SagaInv, RecoverDrain
    PROVE  SagaInv'
<1>1. WorldSame /\ Recovering("drain") /\ saga.mode = "recover"
  BY DEF RecoverDrain, operationFrame, WorldSame, Recovering
<1> QED
  BY <1>1, RecoveredKeeps, StopsKeeps DEF RecoverDrain

(* PlanRoutes keeps the invariant: the evacuated are those on the *)
(* account, and the replacement exists.                           *)
LEMMA PlanRoutesKeeps ==
    ASSUME SagaInv, PlanRoutes
    PROVE  SagaInv'
<1> DEFINE id == journal.id
           new == journal.new
           users == {u \in Evacuee : userRoute[u] = journal.id}
           needed == users # {} \/ ~saga.ask.enabled
<1>1. Onward("plan") /\ UNCHANGED <<row, secret, userRoute, homeOf, oauthDir, configFile, backup,
                                    archived, container, published>>
  BY DEF PlanRoutes, operationFrame, recordVars, fileVars
<1>2. CASE (Refuse \/ Fails) /\ UNCHANGED journal
  BY <1>1, <1>2, TurnKeeps DEF WorldSame, recordVars, fileVars
<1>3. /\ Busy /\ Ahead /\ ~Behind /\ Underway /\ saga.mode = "forward" /\ Known
      /\ Moving /\ ~Did("plan") /\ ~Did("move") /\ ~Did("expose") /\ ~Did("note") /\ ~Did("control")
      /\ ~Did("home") /\ ~Did("publish") /\ ~saga.dirty
  BY <1>1, Facts, OnwardKnown, OpOfSaga, StepBefore, KindOfStep, ForwardRanks
     DEF Ahead, Behind, Moving, Known
<1>4. saga.op = journal /\ OpShape(journal) /\ journal.phase = "accepted" /\ journal.moved = {}
      /\ journal.new \in AccountId \cup {0}
  BY <1>3, Facts DEF SagaKnown, OperationKnown, Known
<1>5. Exists(id) /\ (Renames(journal) => ~Exists(new) /\ new # id) /\ Desired(journal) = id
  BY <1>3, Bearers DEF Moving, Renames
<1>6. ASSUME NEW to,
             needed => to \in Fallbacks(id),
             ~needed => to = 0,
             journal' = [journal EXCEPT !.phase = "routes_prepared", !.moved = users, !.to = to],
             saga' = [saga EXCEPT !.todo = @ \ {"plan"}, !.op = journal', !.did = @ \cup {"plan"}],
             past' = past
      PROVE  SagaInv'
  <2>1. /\ saga'.mode = saga.mode /\ saga'.op = journal' /\ saga'.ask = saga.ask /\ SagaShape'
        /\ saga'.old = saga.old /\ saga'.did = saga.did \cup {"plan"}
        /\ saga'.todo = saga.todo \ {"plan"} /\ saga'.dirty = saga.dirty
    BY <1>6, Facts DEF SagaShape
  <2>2. /\ journal'.kind = journal.kind /\ journal'.id = id /\ journal'.new = new
        /\ journal'.moved = users /\ journal'.to = to /\ journal'.phase = "routes_prepared"
        /\ OpShape(journal')
    BY <1>4, <1>6 DEF OpShape
  <2>3. /\ Underway' /\ (Moving' <=> Moving) /\ (Renames(journal)' <=> Renames(journal))
        /\ Touched' = Touched /\ Calm' = Calm /\ Desired(journal)' = Desired(journal)
        /\ (\A a : Exists(a)' <=> Exists(a)) /\ (\A u : Home(u)' <=> Home(u))
    BY <1>1, <1>6, <2>2, Begun, SameRows DEF Underway, Moving, Renames, Touched, Calm, Desired, Home
  <2>4. /\ Busy' /\ Ahead' /\ ~Behind' /\ saga'.mode # "recover"
        /\ \A s : ~Undid(s)' /\ ~Done(s)'
        /\ \A s : Did(s)' <=> Did(s) \/ s = "plan"
        /\ OldRows = row /\ OldRows' = row /\ Bearer' = Bearer
    BY <1>1, <1>3, <2>1, <2>2
       DEF Busy, Ahead, Behind, Undid, Undoes, Done, Did, OldRows, Bearer
  <2>5. to # 0 => needed /\ to \in AccountId \ Touched /\ Exists(to) /\ row[to].enabled
    BY <1>3, <1>5, <1>6 DEF Fallbacks, Touched, Moving, Renames, Known
  <2>6. needed => to # 0
    BY <1>6, AccountSagaAssumption DEF Fallbacks
  <2>7. \A u \in Calm : /\ u \in Evacuee /\ Home(u)
                        /\ u \in users <=> userRoute[u] = id
                        /\ u \notin users => userRoute[u] \notin Touched
                        /\ Renames(journal) => userRoute[u] # new
    <3> SUFFICES ASSUME NEW u \in Calm
                 PROVE  /\ Home(u) /\ userRoute[u] # id => userRoute[u] \notin Touched
                        /\ Home(u) /\ Renames(journal) => userRoute[u] # new
                        /\ Home(u)
      BY DEF Calm
    <3>1. Home(u)
      BY <1>4, Facts DEF UsersKnown
    <3>2. Exists(userRoute[u]) /\ userRoute[u] \in AccountId /\ userRoute[u] # 0
      BY <3>1, Facts, AccountSagaAssumption DEF Home, WorldTypes, Calm
    <3> QED
      BY <3>1, <3>2, <1>3, <1>5 DEF Touched, Moving, Renames, Known
  <2> HIDE DEF needed, users
  <2>8. SagaKnown'
    <3>1. Plan(journal)' = Plan(journal)
      BY <2>2, <2>3 DEF Plan
    <3>2. ForwardKnown' /\ BackKnown' /\ RecoverKnown' /\ saga'.dirty \in BOOLEAN
      BY <1>1, <1>3, <2>1, <3>1, ForwardMoves, Facts
    <3> QED
      BY <1>3, <2>1, <2>2, <2>4, <3>2 DEF SagaKnown, Busy
  <2>9. OperationKnown'
    <3>1. users \subseteq Evacuee /\ (users # {} => needed)
      BY DEF users, needed
    <3> QED
      BY <1>1, <1>3, <2>1, <2>2, <2>3, <2>5, <2>6, <3>1, Facts DEF OperationKnown, Moving
  <2>10. RowRecords'
    <3>1. AskKnown'
      <4>1. ~saga.ask.enabled => needed
        BY DEF needed
      <4> QED
        BY <1>1, <1>3, <1>6, <2>1, <2>2, <2>3, <2>4, <2>6, <4>1, Facts DEF AskKnown
    <3>2. OldRowsKnown' /\ OldAccounts'
      BY <1>1, <1>3, <2>1, <2>2, <2>3, <2>4, Facts DEF OldRowsKnown, OldAccounts
    <3>3. RowsKnown'
      BY <1>1, <1>4, <1>6, <2>2, <2>3, Facts DEF RowsKnown
    <3> QED
      BY <3>1, <3>2, <3>3 DEF RowRecords
  <2>11. UsersKnown'
    <3>1. \A u \in users : userRoute[u] = id
      BY DEF users
    <3> QED
      BY <1>1, <1>3, <1>5, <2>2, <2>3, <2>7, <3>1 DEF UsersKnown, Home, Moving, Touched
  <2>12. OldUsers' /\ RoutesRecovered'
    BY <1>3, <2>4 DEF OldUsers, Applied, RoutesRecovered
  <2>13. RoutesMoved'
    BY <1>1, <1>3, <2>1, <2>2, <2>3, <2>4, <2>7 DEF RoutesMoved, Home
  <2>14. PublishedKnown'
    BY <1>1, <1>3, <1>5, <2>2, <2>3, <2>4, Facts DEF PublishedKnown, Moving
  <2>15. PublishedCurrent'
    BY <1>1, <1>3, Facts DEF PublishedCurrent, Current
  <2>16. RemovedUnpublished'
    BY <1>3, <2>2 DEF RemovedUnpublished, Moving
  <2>17. Onwards(FacetSteps)
    <3>1. \A s \in FacetSteps \cup {"control"} : Did(s)' <=> Did(s)
      BY <2>4 DEF FacetSteps
    <3> QED
      BY <1>3, <2>1, <2>2, <2>4, <3>1 DEF Onwards, Applied, Known
  <2>18. Recoveries(RepairFacets)
    BY <2>4, ElseRecoveries
  <2>19. Facets'
    BY <1>1, <1>3, <1>4, <1>6, <2>2, <2>17, <2>18, Facts, FacetsFrame DEF FacetsSame, SameOperation
  <2>20. PastTypes' /\ WorldTypes'
    BY <1>1, <1>6, Facts DEF PastTypes, PastShape, WorldTypes
  <2> QED
    BY <2>8, <2>9, <2>10, <2>11, <2>12, <2>13, <2>14, <2>15, <2>16, <2>19, <2>20, AllRecords, Joined
<1>7. CASE \E to \in IF needed THEN Fallbacks(saga.op.id) ELSE {0} :
              /\ journal' = [saga.op EXCEPT !.phase = "routes_prepared", !.moved = users, !.to = to]
              /\ saga' = [saga EXCEPT !.todo = @ \ {"plan"}, !.op = journal', !.did = @ \cup {"plan"}]
              /\ past' = past
  <2>1. PICK to \in IF needed THEN Fallbacks(saga.op.id) ELSE {0} :
              /\ journal' = [saga.op EXCEPT !.phase = "routes_prepared", !.moved = users, !.to = to]
              /\ saga' = [saga EXCEPT !.todo = @ \ {"plan"}, !.op = journal', !.did = @ \cup {"plan"}]
              /\ past' = past
    BY <1>7
  <2> HIDE DEF needed, users
  <2> QED
    BY <1>4, <1>6, <2>1
<1> DEFINE there == {u \in Evacuee : userRoute[u] = saga.op.id}
<1>8. there = users
  BY <1>4
<1>9. \/ \E to \in IF there # {} \/ ~saga.ask.enabled THEN Fallbacks(saga.op.id) ELSE {0} :
            /\ journal' = [saga.op EXCEPT !.phase = "routes_prepared", !.moved = there, !.to = to]
            /\ saga' = [saga EXCEPT !.todo = @ \ {"plan"}, !.op = journal', !.did = @ \cup {"plan"}]
            /\ past' = past
      \/ (Refuse \/ Fails) /\ UNCHANGED journal
  BY Zenon DEF PlanRoutes
<1> HIDE DEF there, users
<1> QED
  BY <1>2, <1>7, <1>8, <1>9

(* The account of an operation in progress, once for all. *)
LEMMA TheBearer ==
    ASSUME SagaInv, Busy
    PROVE  /\ journal.kind = "update" => row[Desired(journal)].born = Bearer
           /\ journal.kind # "update" /\ Exists(journal.id) => row[journal.id].born = Bearer
           /\ ~Did("control") \/ row = saga.old.row \/ row = RowsAfter(saga.old.row)
<1>1. Known /\ Bearer # 0 /\ OldRowsKnown /\ OldAccounts
  BY Facts, OpOfSaga, Bearers DEF Known
<1>2. CASE ~Did("control")
  BY <1>1, <1>2, Bearers DEF Bearer, OldRows, OldAccounts, Exists
<1>3. CASE Did("control") /\ row = saga.old.row
  BY <1>1, <1>3 DEF Bearer, OldRows, OldAccounts, Exists, Desired, Renames
<1>4. CASE Did("control") /\ row = RowsAfter(saga.old.row)
  <2>1. CASE journal.kind # "policy" /\ journal.kind # "clear"
    BY <1>1, <1>4, <2>1, AfterRecords DEF Known
  <2>2. CASE journal.kind = "policy"
    BY <1>1, <1>4, <2>2 DEF RowsAfter, Bearer, OldRows, OldRowsKnown, Known, Account
  <2>3. CASE journal.kind = "clear"
    <3>1. "control" \notin Plan(journal)
      BY <1>1, <2>3, KindOfStep DEF Known
    <3>2. saga.did \subseteq Plan(journal) \cup {"unusable"}
      BY Facts DEF SagaKnown, ForwardKnown, BackKnown, Busy, Ahead, Behind
    <3> QED
      BY <1>4, <3>1, <3>2 DEF Did
  <2> QED
    BY <2>1, <2>2, <2>3
<1>5. Did("control") => row = saga.old.row \/ row = RowsAfter(saga.old.row)
  BY <1>1 DEF OldRowsKnown
<1> QED
  BY <1>2, <1>3, <1>4, <1>5

---------------------------------------------------------------------------
(* The records.                                                            *)

(* ApplyToRecords keeps the invariant: rows and routes change together, *)
(* and what they were is remembered.                                    *)
LEMMA ApplyToRecordsKeeps ==
    ASSUME SagaInv, ApplyToRecords
    PROVE  SagaInv'
<1> DEFINE id == journal.id
           new == journal.new
<1>1. Onward("control") /\ UNCHANGED <<secret, oauthDir, configFile, backup, archived, container,
                                       published, journal>>
  BY DEF ApplyToRecords, fileVars
<1>2. /\ Busy /\ Ahead /\ ~Behind /\ Underway /\ Known /\ OperationKnown /\ SagaKnown /\ SagaShape
      /\ PastTypes /\ SagaBase /\ saga.mode = "forward" /\ ~saga.dirty
      /\ saga.op.to = journal.to
  <2>1. saga.mode = "forward" /\ Busy /\ Underway /\ ~saga.dirty
    BY <1>1, Facts, OnwardKnown
  <2>2. Known /\ saga.op.to = journal.to
    BY <2>1, Facts, OpOfSaga DEF Known
  <2> QED
    BY <2>1, <2>2, Facts DEF Behind, Ahead
<1>3. CASE (Refuse \/ Fails) /\ UNCHANGED <<row, userRoute, homeOf>>
  BY <1>1, <1>3, TurnKeeps DEF WorldSame, recordVars, fileVars
<1>4. CASE /\ ~(journal.kind = "create" /\ Exists(id)) /\ ~(Renames(journal) /\ Exists(new))
           /\ row' = RowsAfter(row) /\ userRoute' = RoutesAfter /\ homeOf' = HomesAfter
           /\ saga' = [saga EXCEPT
                         !.todo = @ \ {"control"}, !.did = @ \cup {"control"},
                         !.old = [secret |-> @.secret, container |-> @.container,
                                  row |-> row, route |-> userRoute, home |-> homeOf,
                                  routeAfter |-> RoutesAfter, homeAfter |-> HomesAfter]]
           /\ UNCHANGED past
  <2>1. /\ SagaShape' /\ saga'.mode = saga.mode /\ saga'.op = saga.op /\ saga'.ask = saga.ask
        /\ saga'.did = saga.did \cup {"control"} /\ past' = past
        /\ saga'.todo = saga.todo \ {"control"} /\ saga'.dirty = saga.dirty
        /\ saga'.old.secret = saga.old.secret /\ saga'.old.container = saga.old.container
        /\ saga'.old.row = row /\ saga'.old.route = userRoute /\ saga'.old.home = homeOf
        /\ saga'.old.routeAfter = RoutesAfter /\ saga'.old.homeAfter = HomesAfter
    BY <1>2, <1>4 DEF SagaShape
  <2>2. /\ journal.kind \in {"create", "update", "delete", "policy"}
        /\ ~Did("control") /\ ~Did("home") /\ ~Did("publish") /\ ~Did("secret1") /\ ~Did("stop")
        /\ journal.kind # "policy" => Did("note") /\ journal.phase = "begun"
        /\ journal.kind = "update" => /\ Did("files") /\ Did("move") /\ Did("expose")
                                      /\ Did("plan")
        /\ journal.kind = "create" => Did("directory")
        /\ journal.kind = "delete" => Did("archive")
        /\ journal.kind = "policy" => journal.phase = "accepted"
    <3>1. journal.kind \in {"create", "update", "delete", "policy"}
      BY <1>1, <1>2, StepBefore, KindOfStep DEF Known
    <3>2. /\ ~Did("control") /\ ~Did("home") /\ ~Did("publish") /\ ~Did("secret1") /\ ~Did("stop")
          /\ journal.kind # "policy" => Did("note")
          /\ journal.kind = "update" => /\ Did("files") /\ Did("move") /\ Did("expose")
                                        /\ Did("plan")
          /\ journal.kind = "create" => Did("directory")
          /\ journal.kind = "delete" => Did("archive")
      BY <1>1, <1>2, <3>1, StepBefore, KindOfStep, ForwardRanks DEF Known
    <3>3. journal.kind # "policy" => journal.phase = "begun"
      BY <1>2, <3>2, PhaseKnown
    <3>4. journal.kind = "policy" => journal.phase = "accepted"
      BY <1>2 DEF OperationKnown
    <3> QED
      BY <3>1, <3>2, <3>3, <3>4
  <2>3. /\ Busy' /\ Ahead' /\ ~Behind' /\ saga'.mode # "recover"
        /\ \A s : ~Undid(s)' /\ ~Done(s)'
        /\ \A s : Did(s)' <=> Did(s) \/ s = "control"
    BY <1>2, <2>1 DEF Busy, Ahead, Behind, Undid, Undoes, Done, Did
  <2>4. /\ OldRows = row /\ OldRows' = row /\ Bearer' = Bearer /\ Touched' = Touched
        /\ Calm' = Calm /\ (Renames(journal)' <=> Renames(journal)) /\ (Underway' <=> Underway)
        /\ Applied'
    BY <1>1, <2>1, <2>2, <2>3 DEF OldRows, Bearer, Touched, Calm, Renames, Underway, Applied
  <2>5. /\ row \in [AccountId -> Account] /\ id \in AccountId
        /\ journal.kind = "update" => new \in AccountId
        /\ userRoute \in [Evacuee -> AccountId] /\ homeOf \in [Evacuee -> Int]
        /\ saga.ask.born = 0 - past.ops /\ past.ops > 0 /\ past.ops \in Nat /\ saga.ask.born \in Int
        /\ saga.ask.proxy \in {"inherit", "custom"} /\ saga.ask.enabled \in BOOLEAN
        /\ Bearer \in Int /\ Bearer # 0
        /\ row[id].born = (IF journal.kind = "create" THEN 0 ELSE Bearer)
        /\ journal.kind = "create" => Bearer = saga.ask.born
    BY <1>2, <2>2, <2>4, Facts, Bearers
       DEF WorldTypes, Known, AskKnown, PastTypes, OldAccounts, Bearer
  <2>6. /\ row' \in [AccountId -> Account]
        /\ \A a \in AccountId \ Touched : row'[a] = row[a]
        /\ \A a \in AccountId \ {id} : journal.kind # "update" => row'[a] = row[a]
        /\ journal.kind = "policy" => row'[id] = [row[id] EXCEPT !.enabled = saga.ask.enabled]
        /\ journal.kind = "update" =>
              /\ row'[new].born = row[id].born /\ (row'[new].enabled <=> row[id].enabled /\ saga.ask.enabled)
              /\ Renames(journal) => row'[id].born = 0
        /\ journal.kind = "create" => row'[id].born = saga.ask.born /\ row'[id].enabled
        /\ journal.kind = "delete" => row'[id].born = 0
    <3>0. NoAccount \in Account /\ NoAccount.born = 0
      BY DEF NoAccount, Account
    <3>1. CASE journal.kind = "create"
      <4>1. row' = [row EXCEPT ![id] = [born |-> saga.ask.born, proxy |-> saga.ask.proxy,
                                        enabled |-> TRUE]]
        BY <1>2, <1>4, <3>1 DEF RowsAfter, Known
      <4> QED
        BY <2>5, <3>1, <4>1 DEF Touched, Account, Renames
    <3>2. CASE journal.kind = "update"
      <4>1. row' = [row EXCEPT ![id] = NoAccount,
                               ![new] = [row[id] EXCEPT !.proxy = saga.ask.proxy,
                                                        !.enabled = @ /\ saga.ask.enabled]]
        BY <1>2, <1>4, <3>2 DEF RowsAfter, Known
      <4>2. [row[id] EXCEPT !.proxy = saga.ask.proxy, !.enabled = @ /\ saga.ask.enabled] \in Account
        BY <2>5 DEF Account
      <4>3. [row[id] EXCEPT !.proxy = saga.ask.proxy, !.enabled = @ /\ saga.ask.enabled].born = row[id].born
        BY <2>5 DEF Account
      <4>4. [row[id] EXCEPT !.proxy = saga.ask.proxy, !.enabled = @ /\ saga.ask.enabled].enabled
               <=> row[id].enabled /\ saga.ask.enabled
        BY <2>5 DEF Account
      <4> DEFINE moved == [row[id] EXCEPT !.proxy = saga.ask.proxy, !.enabled = @ /\ saga.ask.enabled]
      <4>5. row' = [row EXCEPT ![id] = NoAccount, ![new] = moved] /\ moved \in Account
            /\ moved.born = row[id].born /\ (moved.enabled <=> row[id].enabled /\ saga.ask.enabled)
        BY <4>1, <4>2, <4>3, <4>4
      <4> HIDE DEF moved
      <4> QED
        BY <2>5, <3>0, <3>2, <4>5 DEF Touched, Renames
    <3>3. CASE journal.kind = "delete"
      <4>1. row' = [row EXCEPT ![id] = NoAccount]
        BY <1>2, <1>4, <3>3 DEF RowsAfter, Known
      <4> QED
        BY <2>5, <3>0, <3>3, <4>1 DEF Touched, Renames
    <3>4. CASE journal.kind = "policy"
      <4>1. row' = [row EXCEPT ![id].enabled = saga.ask.enabled]
        BY <1>2, <1>4, <3>4 DEF RowsAfter, Known
      <4> QED
        BY <2>5, <3>4, <4>1 DEF Touched, Renames, Account
    <3> QED
      BY <2>2, <3>1, <3>2, <3>3, <3>4
  <2>7. /\ \A a, b \in AccountId : a # b /\ row[a].born # 0 => row[a].born # row[b].born
        /\ \A a \in AccountId : row[a].born > saga.ask.born
        /\ Renames(journal) => row[new].born = 0
    BY <1>2, <2>4, Facts DEF OldAccounts
  <2>8. /\ SourceLeaves <=> \/ journal.kind = "delete"
                            \/ journal.kind \in {"update", "policy"} /\ ~saga.ask.enabled
        /\ SourceLeaves => /\ FallbackOf \in AccountId /\ FallbackOf # id
                           /\ row[FallbackOf].born # 0 /\ row[FallbackOf].enabled
                           /\ row'[FallbackOf] = row[FallbackOf]
                           /\ journal.kind = "update" =>
                                 FallbackOf = journal.to /\ FallbackOf \notin Touched
    <3>1. SourceLeaves <=> \/ journal.kind = "delete"
                           \/ journal.kind \in {"update", "policy"} /\ ~saga.ask.enabled
      BY <1>2 DEF SourceLeaves, Known
    <3>2. CASE journal.kind = "update" /\ ~saga.ask.enabled
      <4>1. saga.ask.to = 0 /\ journal.to # 0
        BY <1>2, <2>2, <3>2, Facts DEF AskKnown
      <4>2. /\ journal.to \in AccountId \ Touched /\ row[journal.to].born # 0
            /\ row[journal.to].enabled
        BY <1>2, <4>1 DEF OperationKnown, Exists
      <4> QED
        BY <1>2, <2>6, <3>1, <4>1, <4>2 DEF FallbackOf, Touched
    <3>3. CASE journal.kind = "delete" \/ (journal.kind = "policy" /\ ~saga.ask.enabled)
      <4>1. /\ saga.ask.to \in AccountId \ {id} /\ row[saga.ask.to].born # 0
            /\ row[saga.ask.to].enabled
        BY <1>2, <3>3, Facts DEF AskKnown, Exists
      <4>2. saga.ask.to # 0
        BY <4>1, AccountSagaAssumption
      <4> QED
        BY <2>6, <3>1, <3>3, <4>1, <4>2 DEF FallbackOf
    <3> QED
      BY <3>1, <3>2, <3>3
  <2>9. /\ userRoute' \in [Evacuee -> AccountId] /\ homeOf' \in [Evacuee -> Int]
        /\ \A u \in Evacuee : userRoute[u] # id => userRoute'[u] = userRoute[u]
        /\ \A u \in Evacuee : userRoute[u] = id =>
              userRoute'[u] = (IF SourceLeaves THEN FallbackOf ELSE FinalId(journal))
        /\ \A u \in Evacuee :
              homeOf'[u] = (IF SourceLeaves /\ homeOf[u] = row[id].born
                            THEN row[FallbackOf].born ELSE homeOf[u])
    <3>1. FinalId(journal) \in AccountId
      BY <2>5 DEF FinalId
    <3>2. userRoute' = [u \in Evacuee |->
              IF userRoute[u] # id THEN userRoute[u]
              ELSE IF SourceLeaves THEN FallbackOf ELSE FinalId(journal)]
      BY <1>2, <1>4 DEF RoutesAfter, Known
    <3>3. homeOf' = [u \in Evacuee |-> IF SourceLeaves /\ homeOf[u] = row[id].born
                                       THEN row[FallbackOf].born ELSE homeOf[u]]
      BY <1>2, <1>4 DEF HomesAfter, Known
    <3>4. SourceLeaves => row[FallbackOf].born \in Int
      BY <2>5, <2>8 DEF Account
    <3> QED
      BY <2>5, <2>8, <3>1, <3>2, <3>3, <3>4
  <2>10. \A u \in Calm :
            /\ u \in Evacuee
            /\ u \notin journal.moved => Home(u)
            /\ journal.kind = "update" => userRoute[u] \notin Touched
            /\ u \in journal.moved =>
                  /\ journal.kind = "update" /\ row[id].enabled
                  /\ homeOf[u] = row[id].born /\ userRoute[u] = journal.to
            /\ journal.kind = "create" => userRoute[u] # id
    <3> SUFFICES ASSUME NEW u \in Calm
                 PROVE  /\ u \in Evacuee
                        /\ u \notin journal.moved => Home(u)
                        /\ journal.kind = "update" => userRoute[u] \notin Touched
                        /\ u \in journal.moved =>
                              /\ journal.kind = "update" /\ row[id].enabled
                              /\ homeOf[u] = row[id].born /\ userRoute[u] = journal.to
                        /\ journal.kind = "create" => userRoute[u] # id
      OBVIOUS
    <3>1. u \in journal.moved => journal.kind = "update"
      BY <1>2, <2>2 DEF OperationKnown, Moving
    <3>2. journal.kind = "update" => userRoute[u] \notin Touched
      BY <1>2, <2>2, Facts DEF RoutesMoved, Moving
    <3>3. journal.kind = "update" => Desired(journal) = id
      BY <1>2, <2>2, Bearers
    <3>4. u \in journal.moved => row[id].enabled
      BY <1>2, <2>4, <3>1, Facts DEF RoutesMoved, Moving
    <3>5. u \in journal.moved => homeOf[u] = row[id].born /\ userRoute[u] \in Touched \cup {journal.to}
      BY <3>1, <3>3, <3>4, Facts DEF UsersKnown
    <3> QED
      BY <3>1, <3>2, <3>4, <3>5, Facts DEF UsersKnown, Calm
  <2>11. \A u \in Calm : u \notin journal.moved => Home(u)'
    <3> SUFFICES ASSUME NEW u \in Calm, u \notin journal.moved PROVE Home(u)'
      OBVIOUS
    <3>1. /\ u \in Evacuee /\ userRoute[u] \in AccountId /\ row[userRoute[u]].born # 0
          /\ row[userRoute[u]].enabled /\ row[userRoute[u]].born = homeOf[u]
      BY <2>5, <2>10 DEF Home, Exists
    <3>2. CASE userRoute[u] # id
      <4>1. homeOf[u] # row[id].born
        BY <2>5, <2>7, <3>1, <3>2
      <4>2. row'[userRoute[u]] = row[userRoute[u]]
        BY <2>6, <2>10, <3>1, <3>2
      <4> QED
        BY <2>9, <3>1, <3>2, <4>1, <4>2 DEF Home, Exists
    <3>3. CASE userRoute[u] = id
      <4>1. journal.kind \in {"delete", "policy"}
        BY <2>2, <2>10, <3>3 DEF Touched
      <4>2. CASE SourceLeaves
        BY <2>8, <2>9, <3>1, <3>3, <4>2 DEF Home, Exists
      <4>3. CASE ~SourceLeaves
        <5>1. journal.kind = "policy" /\ saga.ask.enabled /\ FinalId(journal) = id
          BY <2>8, <4>1, <4>3 DEF FinalId
        <5>2. row'[id].born = row[id].born /\ row'[id].enabled
          BY <2>5, <2>6, <5>1 DEF Account
        <5> QED
          BY <2>9, <3>1, <3>3, <4>3, <5>1, <5>2 DEF Home, Exists
      <4> QED
        BY <4>2, <4>3
    <3> QED
      BY <3>2, <3>3
  <2>12. /\ \A a \in AccountId \ Touched : Exists(a)' <=> Exists(a)
         /\ \A a \in AccountId : Exists(a)' <=> row'[a].born # 0
         /\ journal.kind = "update" => Desired(journal)' = new /\ Exists(new)'
         /\ Renames(journal) => ~Exists(id)' /\ new # id
         /\ journal.kind \in {"create", "policy"} => Exists(id)'
         /\ journal.kind = "delete" => ~Exists(id)'
         /\ row[id].born # 0 <=> journal.kind # "create"
    <3>1. \A a : Exists(a)' <=> row'[a].born # 0
      BY DEF Exists
    <3>2. /\ Renames(journal) => new # id
          /\ row[id].born # 0 <=> journal.kind # "create"
      BY <2>5 DEF Renames
    <3>3. journal.kind = "policy" => row'[id].born = row[id].born
      BY <2>5, <2>6 DEF Account
    <3>4. journal.kind = "update" => row'[new].born # 0
      BY <2>6, <3>2
    <3>5. journal.kind = "create" => row'[id].born # 0
      BY <2>5, <2>6
    <3>6. journal.kind = "update" => Desired(journal)' = new
      BY <1>1, <3>1, <3>4 DEF Desired
    <3> QED
      <4>1. \A a \in AccountId \ Touched : Exists(a)' <=> Exists(a)
        BY <2>6, <3>1 DEF Exists
      <4>2. journal.kind = "delete" => ~Exists(id)'
        BY <1>1, <2>6, <3>1
      <4>3. journal.kind \in {"create", "policy"} => Exists(id)'
        BY <1>1, <3>1, <3>2, <3>3, <3>5
      <4>4. /\ journal.kind = "update" => Exists(new)'
            /\ Renames(journal) => ~Exists(id)'
        BY <1>1, <2>6, <3>1, <3>4 DEF Renames
      <4> QED
        BY <3>1, <3>2, <3>6, <4>1, <4>2, <4>3, <4>4
  <2>13. PastTypes' /\ Grown /\ past'.cut = past.cut
    BY <1>2, <2>1 DEF PastTypes, PastShape, Grown
  <2>14. WorldTypes'
    BY <1>1, <2>6, <2>9, Facts DEF WorldTypes
  <2>15. OperationKnown'
    BY <1>1, <1>2, <2>1, <2>4, <2>6, <2>12 DEF OperationKnown, Moving, Exists
  <2>16. SagaKnown'
    <3>1. ForwardKnown' /\ BackKnown' /\ RecoverKnown' /\ saga'.dirty \in BOOLEAN
      <4>1. Plan(journal)' = Plan(journal)
        BY <1>1 DEF Plan, Evacuation
      <4> QED
        BY <1>1, <1>2, <2>1, <4>1, ForwardMoves
    <3> QED
      BY <1>1, <1>2, <2>1, <2>3, <3>1 DEF SagaKnown, Busy, Moving
  <2>17. AskKnown'
    <3>1. journal.kind = "delete" \/ (journal.kind = "policy" /\ ~saga.ask.enabled) =>
               /\ saga.ask.to \in AccountId \ {id}
               /\ row'[saga.ask.to].born # 0 /\ row'[saga.ask.to].enabled
      BY <1>2, <2>6, Facts DEF AskKnown, Exists
    <3> QED
      BY <1>1, <1>2, <2>1, <2>3, <2>4, <3>1, Facts DEF AskKnown, Exists
  <2>18. OldRowsKnown'
    <3>1. RoutesAfter \in [Evacuee -> AccountId] /\ HomesAfter \in [Evacuee -> Int]
      BY <1>4, <2>9
    <3>2. RowsAfter(saga.old.row)' = RowsAfter(row)
      BY <2>1 DEF RowsAfter
    <3> QED
      BY <1>4, <2>1, <2>4, <2>5, <3>1, <3>2 DEF OldRowsKnown
  <2>19. OldAccounts'
    BY <1>1, <1>2, <2>1, <2>4, Facts DEF OldAccounts
  <2>20. RowsKnown'
    <3>1. \A a, b \in AccountId : a # b /\ Exists(a)' => row'[a].born # row'[b].born
      <4>1. CASE journal.kind = "create"
        BY <2>5, <2>6, <2>7, <2>12, <4>1
      <4>2. CASE journal.kind = "update"
        <5>1. \A a \in AccountId : row'[a].born # 0 =>
                 \/ a = new /\ row'[a].born = row[id].born
                 \/ a # new /\ a # id /\ row'[a].born = row[a].born
          BY <2>5, <2>6, <4>2 DEF Touched, Renames
        <5> QED
          BY <2>5, <2>7, <2>12, <4>2, <5>1
      <4>3. CASE journal.kind \in {"delete", "policy"}
        <5>1. \A a \in AccountId : row'[a].born # 0 => row'[a].born = row[a].born
          BY <2>5, <2>6, <4>3 DEF Account
        <5> QED
          BY <2>5, <2>7, <2>12, <5>1
      <4> QED
        BY <2>2, <4>1, <4>2, <4>3
    <3>2. \A a \in AccountId : row'[a].born >= 0 - past'.ops
      <4>1. \A a \in AccountId : \/ row'[a].born = saga.ask.born
                               \/ row'[a].born = 0
                               \/ row'[a].born = row[id].born
                               \/ row'[a].born = row[a].born
        BY <2>2, <2>5, <2>6 DEF Touched, Account, Renames
      <4> QED
        BY <2>1, <2>5, <2>7, <4>1 DEF Account
    <3> QED
      BY <1>1, <2>2, <2>4, <2>12, <3>1, <3>2 DEF RowsKnown
  <2>21. UsersKnown'
    <3> SUFFICES ASSUME NEW u \in Calm
                 PROVE  /\ journal.kind = "update" /\ u \notin journal.moved => userRoute'[u] \notin Touched
                        /\ u \in journal.moved =>
                              /\ journal.kind = "update" /\ userRoute'[u] = journal.to
                              /\ IF row'[new].enabled THEN homeOf'[u] = row'[new].born
                                 ELSE homeOf'[u] = row'[journal.to].born
                        /\ journal.kind = "create" => userRoute'[u] # id
                        /\ Renames(journal) => userRoute'[u] # id
      BY <1>1, <2>2, <2>4, <2>11, <2>12 DEF UsersKnown, Moving
    <3>1. journal.kind = "update" => userRoute'[u] = userRoute[u] /\ userRoute[u] \notin Touched
      BY <2>9, <2>10 DEF Touched
    <3>2. journal.kind = "create" => userRoute'[u] # id
      BY <2>9, <2>10
    <3>3. Renames(journal) => journal.kind = "update"
      BY DEF Renames
    <3>4. u \in journal.moved =>
             IF row'[new].enabled THEN homeOf'[u] = row'[new].born
             ELSE homeOf'[u] = row'[journal.to].born
      <4> SUFFICES ASSUME u \in journal.moved
                   PROVE  IF row'[new].enabled THEN homeOf'[u] = row'[new].born
                          ELSE homeOf'[u] = row'[journal.to].born
        OBVIOUS
      <4>1. journal.kind = "update" /\ row[id].enabled /\ homeOf[u] = row[id].born /\ u \in Evacuee
        BY <2>10
      <4>2. CASE saga.ask.enabled
        BY <2>6, <2>8, <2>9, <4>1, <4>2
      <4>3. CASE ~saga.ask.enabled
        BY <2>6, <2>8, <2>9, <4>1, <4>3
      <4> QED
        BY <4>2, <4>3
    <3> QED
      BY <2>10, <3>1, <3>2, <3>3, <3>4 DEF Touched
  <2>22. OldUsers'
    <3> SUFFICES ASSUME NEW u \in Calm
                 PROVE  /\ homeOf'[u] = HomesAfter[u] /\ userRoute'[u] = RoutesAfter[u]
                        /\ u \notin journal.moved =>
                              row[userRoute[u]].born = homeOf[u] /\ homeOf[u] # 0
                              /\ row[userRoute[u]].enabled
                        /\ u \in journal.moved => homeOf[u] = Bearer /\ row[id].enabled
                        /\ journal.kind = "update" => RoutesAfter[u] = userRoute[u]
      BY <1>1, <2>1, <2>4 DEF OldUsers
    <3>1. journal.kind = "update" => userRoute'[u] = userRoute[u]
      BY <2>9, <2>10 DEF Touched
    <3> QED
      BY <1>4, <2>5, <2>10, <3>1 DEF Home, Exists
  <2>23. RoutesMoved' /\ RoutesRecovered'
    <3>1. RoutesRecovered'
      BY <2>3 DEF RoutesRecovered
    <3> SUFFICES ASSUME journal.kind = "update" PROVE RoutesMoved'
      BY <1>1, <2>2, <3>1 DEF RoutesMoved, Moving
    <3>2. \A u \in Calm : /\ userRoute'[u] \notin Touched
                          /\ u \in journal.moved => row[id].enabled
      BY <2>9, <2>10 DEF Touched
    <3> QED
      BY <1>1, <2>2, <2>3, <2>4, <3>2 DEF RoutesMoved, Touched
  <2>24. PublishedKnown'
    <3> SUFFICES ASSUME NEW u \in Calm
                 PROVE  /\ published.route[u] \in Touched \/ Exists(published.route[u])'
                        /\ journal.kind = "update" => published.route[u] \notin Touched
                        /\ journal.kind = "create" => published.route[u] # id
      BY <1>1, <2>2, <2>3, <2>4 DEF PublishedKnown, Touched, Renames
    <3>1. published.route[u] \in AccountId
      BY <2>10, Facts DEF WorldTypes
    <3> QED
      <4>1. /\ published.route[u] \in Touched \/ Exists(published.route[u])
            /\ journal.kind = "update" => published.route[u] \notin Touched
            /\ journal.kind = "create" => published.route[u] # id
        BY <1>2, <2>2, Facts DEF PublishedKnown
      <4>2. published.route[u] \in Touched \/ Exists(published.route[u])'
        BY <1>1, <2>12, <3>1, <4>1
      <4> QED
        BY <4>1, <4>2
  <2>25. PublishedCurrent'
    BY <1>1, <1>2, <2>2, <2>3, <2>4 DEF PublishedCurrent, Moving, Underway
  <2>26. RemovedUnpublished'
    <3>1. journal.kind = "delete" => container[id] # "none"
      BY <1>2, <2>2, Facts DEF DeleteSteps
    <3> QED
      BY <1>1, <3>1 DEF RemovedUnpublished
  <2>27. Records'
    BY <2>17, <2>18, <2>19, <2>20, <2>21, <2>22, <2>23, <2>24, <2>25, AllRecords DEF RowRecords
  <2>28. /\ \A d, b : (SoundDir(d, b)' <=> SoundDir(d, b)) /\ (Held(b)' <=> Held(b))
         /\ \A a \in AccountId :
               row'[a].born = row[a].born /\ row'[a].proxy = row[a].proxy =>
                  (AccountAgrees(a) => AccountAgrees(a)')
    <3>1. \A d, b : (SoundDir(d, b)' <=> SoundDir(d, b)) /\ (Held(b)' <=> Held(b))
      BY <2>1, SameSound
    <3> QED
      BY <1>1, <3>1 DEF AccountAgrees, DirAgrees, ConfigAgrees, SecretAgrees, ContainerAgrees, Exists
  <2>29. OldSecrets'
    BY <1>1, <1>2, <2>1, <2>3, <2>4, Facts DEF OldSecrets
  <2>30. OthersAgree'
    BY <2>4, <2>6, <2>28, Facts DEF OthersAgree
  <2>31. OAuthKnown'
    <3> SUFFICES ASSUME NEW b \in Established \ (archived \cup past.cut)
                 PROVE  b \in past.oauth /\ \E a \in AccountId : row'[a].born = b
      BY <1>1, <2>1 DEF OAuthKnown, Established
    <3>1. PICK a \in AccountId : row[a].born = b
      BY Facts DEF OAuthKnown
    <3>2. b \in past.oauth /\ b > 0 /\ b \in Int
      BY Facts, AccountSagaAssumption DEF OAuthKnown, Established
    <3>3. CASE row'[a].born = row[a].born
      BY <3>1, <3>2, <3>3
    <3>4. CASE row'[a].born # row[a].born
      <4>1. journal.kind = "delete" => a # id
        <5>1. journal.kind = "delete" => (Held(row[id].born) => row[id].born \in archived)
          BY <1>2, <2>2, <2>5, Facts DEF DeleteSteps
        <5> QED
          BY <3>1, <3>2, <5>1 DEF Held
      <4>2. journal.kind = "create" => a # id
        BY <2>5, <3>1, <3>2
      <4>3. journal.kind = "policy" => a # id
        BY <2>5, <2>6, <3>4 DEF Account
      <4>4. a \in Touched /\ journal.kind = "update"
        BY <2>2, <2>6, <3>4, <4>1, <4>2, <4>3
      <4>5. a = id
        BY <2>7, <3>1, <3>2, <4>4 DEF Touched, Renames
      <4> QED
        BY <2>5, <2>6, <3>1, <3>2, <4>4, <4>5
    <3> QED
      BY <3>3, <3>4
  <2>32. CreateKept' /\ CreateSteps'
    <3> SUFFICES ASSUME journal.kind = "create" PROVE CreateKept' /\ CreateSteps'
      BY <1>1 DEF CreateKept, CreateSteps
    <3>1. Bearer \notin past.oauth
      BY <2>5, Facts, AccountSagaAssumption DEF PastTypes, Established
    <3>2. secret[id] = 0 /\ oauthDir[id] = EmptyOf(Bearer)
      BY <1>2, <2>2, Facts DEF CreateSteps
    <3>3. CreateKept'
      BY <1>1, <2>1, <2>2, <2>5, <2>6, <3>1, <3>2, Facts DEF CreateKept, EmptyOf
    <3>4. CreateSteps'
      BY <1>1, <1>2, <2>1, <2>2, <2>3, <2>4, Facts DEF CreateSteps
    <3> QED
      BY <3>3, <3>4
  <2>33. UpdateKept'
    <3> SUFFICES ASSUME journal.kind = "update" PROVE UpdateKept'
      BY <1>1 DEF UpdateKept
    <3>1. row[Desired(journal)].born = Bearer /\ row'[new].born = Bearer
      BY <1>2, <2>5, <2>6, TheBearer
    <3> QED
      BY <1>1, <2>2, <2>4, <2>12, <2>28, <3>1, Facts DEF UpdateKept
  <2>34. UpdateSteps'
    <3> SUFFICES ASSUME journal.kind = "update" PROVE UpdateSteps'
      BY <1>1 DEF UpdateSteps
    <3> QED
      BY <1>1, <1>2, <2>1, <2>2, <2>3, <2>4, <2>28, Facts DEF UpdateSteps
  <2>35. DeleteKept'
    BY <1>1, <2>2, <2>12, Facts DEF DeleteKept
  <2>36. DeleteSteps'
    <3> SUFFICES ASSUME journal.kind = "delete" PROVE DeleteSteps'
      BY <1>1 DEF DeleteSteps
    <3> QED
      BY <1>1, <1>2, <2>1, <2>2, <2>3, <2>4, <2>28, Facts DEF DeleteSteps
  <2>37. PolicyKept'
    <3>1. journal.kind = "policy" => row'[id].born = row[id].born /\ row'[id].proxy = row[id].proxy
      BY <2>5, <2>6 DEF Account
    <3> QED
      BY <1>1, <2>5, <2>28, <3>1, Facts DEF PolicyKept
  <2> QED
    BY <1>1, <2>2, <2>3, <2>13, <2>14, <2>15, <2>16, <2>26, <2>27, <2>29, <2>30, <2>31, <2>32, <2>33,
       <2>34, <2>35, <2>36, <2>37, OtherKinds, Together
<1>5. \/ (Refuse \/ Fails) /\ UNCHANGED <<row, userRoute, homeOf>>
      \/ /\ ~(journal.kind = "create" /\ Exists(id)) /\ ~(Renames(journal) /\ Exists(new))
         /\ row' = RowsAfter(row) /\ userRoute' = RoutesAfter /\ homeOf' = HomesAfter
         /\ saga' = [saga EXCEPT
                       !.todo = @ \ {"control"}, !.did = @ \cup {"control"},
                       !.old = [secret |-> @.secret, container |-> @.container,
                                row |-> row, route |-> userRoute, home |-> homeOf,
                                routeAfter |-> RoutesAfter, homeAfter |-> HomesAfter]]
         /\ UNCHANGED past
  BY <1>2 DEF ApplyToRecords, Known, Renames
<1> QED
  BY <1>3, <1>4, <1>5

(* Every step of an operation keeps the invariant. *)
LEMMA StepKeeps ==
    ASSUME SagaInv, Step
    PROVE  SagaInv'
  BY PlanRoutesKeeps, MoveRoutesKeeps, ExposeFallbackKeeps, NoteKeeps, DrainKeeps, CopyFilesKeeps,
     PrepareDirectoryKeeps, PrepareFilesKeeps, CommitFilesKeeps, RemoveFilesKeeps,
     ApplyToRecordsKeeps, ApplySecretKeeps, RenderConfigsKeeps, PublishStepKeeps,
     PrepareRuntimeKeeps, CommitRuntimeKeeps, RestartAccountKeeps, BringHomeKeeps DEF Step
=============================================================================
