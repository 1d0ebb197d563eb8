------------------------ MODULE AccountRecoveryProofs ------------------------
(***************************************************************************)
(* Proofs about AccountSaga, continued: compensation, recovery, the end of *)
(* an operation and its beginning keep the invariant SagaInv.  From it     *)
(* follow, for every set of accounts and users and every bound on          *)
(* operations, failures, deaths and moves, that accounts agree and users   *)
(* are back when an operation has ended, and that nothing is lost between. *)
(* The theorems assume that operators name free IDs (~TakenIds): that an   *)
(* ID in use is refused too late is what the run taken_account_id shows.   *)
(***************************************************************************)
EXTENDS AccountSagaProofs

---------------------------------------------------------------------------
(* Compensation.                                                           *)

Reversed == /\ Busy /\ Busy' /\ Behind /\ Behind' /\ ~Ahead /\ ~Ahead'
            /\ \A s : ~Done(s)'
            /\ saga'.ask = saga.ask /\ saga'.old = saga.old /\ saga'.mode # "recover"
            /\ OldRows' = OldRows /\ Bearer' = Bearer /\ Underway
            /\ Known /\ journal' = journal /\ row' = row
            /\ \A s : Due(s)' => Due(s)

Undoing(step) ==
    /\ Reversed /\ Grown /\ past' = past /\ saga'.dirty = saga.dirty
    /\ \A s : Did(s)' <=> Did(s)
    /\ \A s : Due(s)' <=> Due(s) /\ s # step
    /\ \A s : Undid(s)' <=> Undid(s) \/ (s = step /\ ~saga.dirty)

(* A step of a compensation that succeeds and leaves records, users and *)
(* snapshot.                                                            *)
LEMMA StepUndone ==
    ASSUME SagaInv, NEW step \in {"files", "build", "restart", "secrets", "render"}, Back(step),
           Undone(step), StillThere
    PROVE  PastTypes' /\ OperationKnown' /\ SagaKnown' /\ Records' /\ Undoing(step)
<1>1. OperationKnown /\ SagaKnown /\ PastTypes /\ SagaShape /\ Records
  BY DEF SagaInv, SagaBase, SagaKnown
<1>2. journal' = journal /\ row' = row /\ Underway /\ Busy /\ Behind /\ ~Ahead
      /\ step \in Undo(journal.kind, saga.did)
  BY <1>1, BackwardKnown DEF StillThere, Ahead, Behind
<1>3. SagaKnown'
  BY <1>1, <1>2, GoesBack
<1>4. /\ saga'.mode = saga.mode /\ saga'.op = saga.op /\ saga'.ask = saga.ask
      /\ saga'.old = saga.old /\ saga'.did = saga.did /\ past' = past
      /\ saga'.todo = saga.todo \ {step} /\ saga'.dirty = saga.dirty
  BY <1>1, UndoneFields DEF SameSaga
<1>5. Onwards(RecordSteps) /\ Behind' /\ Busy'
  BY <1>1, <1>2, UndoneOnwards DEF RecordSteps
<1>6. Recoveries({"home", "publish"}) /\ saga'.mode # "recover" /\ ~Ahead' /\ \A s : ~Done(s)'
  BY <1>5, ElseRecoveries DEF Behind, Ahead, Done
<1>7. PastTypes'
  BY <1>1, <1>4 DEF PastTypes, PastShape
<1>8. OperationKnown'
  BY <1>1, <1>2, OperationFrame
<1>9. Records'
  BY <1>1, <1>2, <1>4, <1>5, <1>6, RecordsFrame, JournalKept DEF RecordsSame, StillThere
<1>10. (\A s : Did(s)' <=> Did(s)) /\ (\A s : Due(s)' <=> Due(s) /\ s # step)
  BY <1>4 DEF Did, Due
<1>11. \A s : Undid(s)' <=> Undid(s) \/ (s = step /\ ~saga.dirty)
  BY <1>2, <1>4, <1>5, <1>10 DEF Undid, Undoes
<1>12. OldRows' = OldRows /\ Bearer' = Bearer
  BY <1>2, <1>4, <1>10 DEF OldRows, Bearer
<1>13. Known
  BY <1>1, <1>2, OpOfSaga DEF Known
<1> QED
  BY <1>2, <1>3, <1>4, <1>5, <1>6, <1>7, <1>8, <1>9, <1>10, <1>11, <1>12, <1>13
     DEF Undoing, Reversed, Grown

Kept(step) ==
    /\ Reversed /\ saga'.dirty
    /\ \A s : s # "unusable" => (Did(s)' <=> Did(s))
    /\ \A s : Due(s)' => s # step
    /\ \A s : ~Undid(s)'

(* The same for one whose error is kept. *)
LEMMA StepKept ==
    ASSUME SagaInv, NEW step, Back(step), Keeps(step), StillThere, Grown
    PROVE  OperationKnown' /\ SagaKnown' /\ Records' /\ Kept(step)
<1>1. OperationKnown /\ SagaKnown /\ PastTypes /\ SagaShape /\ Records
  BY DEF SagaInv, SagaBase, SagaKnown
<1>2. journal' = journal /\ row' = row /\ Underway /\ Busy /\ Behind /\ ~Ahead
  BY <1>1, BackwardKnown DEF StillThere, Ahead, Behind
<1>3. SagaKnown'
  BY <1>1, <1>2, GoesBackDirty
<1>4. /\ saga'.mode = saga.mode /\ saga'.op = saga.op /\ saga'.ask = saga.ask
      /\ saga'.old = saga.old /\ saga'.dirty
      /\ saga'.did \in {saga.did, saga.did \cup {"unusable"}}
      /\ saga'.todo = saga.todo \ ({step} \cup DependOn(step))
  BY <1>1, KeepsFields DEF SameSaga
<1>5. Onwards(RecordSteps) /\ Behind' /\ Busy'
  BY <1>1, <1>2, KeepsOnwards DEF RecordSteps
<1>6. Recoveries({"home", "publish"}) /\ saga'.mode # "recover" /\ ~Ahead' /\ \A s : ~Done(s)'
  BY <1>5, ElseRecoveries DEF Behind, Ahead, Done
<1>8. OperationKnown'
  BY <1>1, <1>2, OperationFrame
<1>9. Records'
  BY <1>1, <1>2, <1>4, <1>5, <1>6, RecordsFrame, JournalKept DEF RecordsSame, StillThere, Grown
<1>10. /\ \A s : s # "unusable" => (Did(s)' <=> Did(s))
       /\ \A s : Due(s)' => Due(s) /\ s # step
  BY <1>4 DEF Did, Due
<1>11. \A s : ~Undid(s)'
  BY <1>4 DEF Undid, Undoes
<1>12. OldRows' = OldRows /\ Bearer' = Bearer
  BY <1>2, <1>4, <1>10 DEF OldRows, Bearer
<1>13. Known
  BY <1>1, <1>2, OpOfSaga DEF Known
<1> QED
  BY <1>2, <1>3, <1>4, <1>5, <1>6, <1>8, <1>9, <1>10, <1>11, <1>12, <1>13 DEF Kept, Reversed

(* What is restored from a sound backup is sound. *)
LEMMA RestoredSound ==
    ASSUME SagaInv, NEW b \in Int, b # 0, SoundDir(backup, b)
    PROVE  /\ Restored \in Directory /\ SoundDir(Restored, b)
           /\ Partial(Restored) \in Directory /\ Partial(Restored).of \in {0, b}
<1>1. backup \in Directory
  BY Facts DEF WorldTypes
<1>2. Restored \in Directory
  BY <1>1, DirTypes DEF Restored
<1>3. SoundDir(Restored, b)
  BY <1>1, DirTypes DEF Restored, SoundDir, EmptyOf, NoDir, Whole
<1> QED
  BY <1>2, <1>3, DirTypes DEF SoundDir

(* The files are as they were. *)
LEMMA FilesUndone ==
    ASSUME SagaInv, Back("files"), Undone("files"),
           UNCHANGED <<row, secret, userRoute, homeOf, backup, archived, container, published, journal>>,
           oauthDir' \in [AccountId -> Directory], configFile' \in [AccountId -> BOOLEAN],
           \A a \in AccountId \ Touched : oauthDir'[a] = oauthDir[a] /\ configFile'[a] = configFile[a],
           journal.kind = "create" => oauthDir'[journal.id] = NoDir /\ ~configFile'[journal.id],
           journal.kind = "update" =>
              /\ SoundDir(oauthDir'[journal.id], Bearer)
              /\ configFile'[journal.id] = configFile[journal.id]
              /\ Renames(journal) => oauthDir'[journal.new] = NoDir /\ ~configFile'[journal.new],
           journal.kind \in {"update", "clear"} /\ ~Did("files") =>
              oauthDir' = oauthDir /\ configFile' = configFile,
           journal.kind = "delete" =>
              SoundDir(oauthDir'[journal.id], Bearer) /\ configFile'[journal.id],
           journal.kind = "clear" =>
              SoundDir(oauthDir'[journal.id], Bearer) /\ configFile' = configFile
    PROVE  SagaInv'
<1> DEFINE id == journal.id
           new == journal.new
<1>1. PastTypes' /\ OperationKnown' /\ SagaKnown' /\ Records' /\ Undoing("files")
  BY StepUndone DEF StillThere
<1>2. /\ Reversed /\ Grown /\ past' = past /\ saga'.dirty = saga.dirty
      /\ \A s : Did(s)' <=> Did(s)
      /\ \A s : Due(s)' <=> Due(s) /\ s # "files"
      /\ \A s : Undid(s)' <=> Undid(s) \/ (s = "files" /\ ~saga.dirty)
  BY <1>1 DEF Undoing
<1>3. /\ Busy /\ Busy' /\ Behind /\ Behind' /\ ~Ahead' /\ Known /\ Underway
      /\ saga'.ask = saga.ask /\ saga'.old = saga.old /\ saga'.mode # "recover"
      /\ OldRows' = OldRows /\ Bearer' = Bearer
  BY <1>2 DEF Reversed
<1>4. /\ journal.kind \in {"create", "update", "delete", "clear"}
      /\ journal.kind \in {"update", "clear"} => Did("note") /\ journal.phase = "begun"
      /\ journal.kind = "delete" /\ ~Did("note") => ~Did("control") /\ Exists(id)
      /\ ~Did("remove")
  <2>1. "files" \in Undo(journal.kind, saga.did)
    BY Facts, BackwardKnown
  <2>2. journal.kind # "policy" /\ (journal.kind \in {"update", "clear"} => Did("note"))
    BY <2>1 DEF Undo, Did, PolicyChange
  <2>3. journal.kind = "delete" /\ ~Did("note") => ~Did("control")
    <3>1. \A s \in saga.did \ {"unusable"}, t \in Plan(journal) :
             Forward[t] <= Forward[s] => t \in saga.did
      BY <1>3, Facts DEF SagaKnown, BackKnown
    <3> QED
      BY <1>3, <3>1, KindOfStep, ForwardRanks DEF Did, Known
  <2>4. ~Did("control") /\ journal.kind # "create" => Exists(id)
    BY <1>3, Bearers
  <2>5. ~Did("remove")
    <3>1. CASE journal.kind = "delete"
      BY <1>3, <3>1, Facts DEF DeleteSteps
    <3>2. CASE journal.kind # "delete"
      BY <1>3, <3>2, Facts, KindOfStep DEF SagaKnown, BackKnown, Did, Known
    <3> QED
      BY <3>1, <3>2
  <2> QED
    BY <1>3, <2>2, <2>3, <2>4, <2>5, Facts, PhaseKnown DEF Known
<1>5. /\ (\A a : Exists(a)' <=> Exists(a)) /\ Touched' = Touched
      /\ Desired(journal)' = Desired(journal) /\ (Renames(journal)' <=> Renames(journal))
      /\ \A d, b : (SoundDir(d, b)' <=> SoundDir(d, b)) /\ (Held(b)' <=> Held(b))
      /\ \A d, b : /\ SoundDir(d, b) <=> /\ d.of = b \/ (d.of = 0 /\ b \in past.cut)
                                         /\ Held(b) => d = Whole(b)
      /\ \A a : /\ SecretAgrees(a)' <=> SecretAgrees(a)
                /\ ContainerAgrees(a)' <=> ContainerAgrees(a)
  BY <1>2, Static, SameSound DEF SoundDir, SecretAgrees, ContainerAgrees
<1>6. /\ journal.kind = "update" => row[Desired(journal)].born = Bearer
      /\ Exists(id) /\ journal.kind # "update" => row[id].born = Bearer
      /\ Bearer # 0 /\ Bearer \in Int
      /\ ~Did("control") /\ journal.kind # "create" => Exists(id)
  BY <1>3, TheBearer, Bearers
<1>7. WorldTypes'
  BY Facts DEF WorldTypes
<1>8. OldSecrets'
  BY <1>2, <1>3, <1>5, Facts DEF OldSecrets
<1>9. OthersAgree'
  BY <1>2, Facts, OthersFrame
<1>10. OAuthKnown'
  BY <1>2, Facts, OAuthFrame
<1>11. CreateKept' /\ CreateSteps'
  BY <1>2, <1>3, <1>5, Facts DEF CreateKept, CreateSteps
<1>12. UpdateKept'
  BY <1>3, <1>4, <1>5, <1>6, Facts DEF UpdateKept, Renames
<1>13. UpdateSteps'
  <2> SUFFICES ASSUME journal.kind = "update" PROVE UpdateSteps'
    BY DEF UpdateSteps
  <2>1. ~Did("files") => \A a : AccountAgrees(a)' <=> AccountAgrees(a)
    BY <1>5 DEF AccountAgrees, DirAgrees, ConfigAgrees
  <2>2. Renames(journal) => new # id
    BY DEF Renames
  <2> QED
    BY <1>2, <1>3, <1>5, <2>1, <2>2, Facts DEF UpdateSteps, Known
<1>14. DeleteKept'
  BY <1>3, <1>4, <1>5, <1>6, Facts, PhaseKnown
     DEF DeleteKept, AccountAgrees, DirAgrees, ConfigAgrees, Moving
<1>15. DeleteSteps'
  BY <1>2, <1>3, <1>4, <1>5, Facts DEF DeleteSteps, Whole
<1>16. ClearKept'
  BY <1>3, <1>4, <1>5, <1>6, Facts DEF ClearKept, DirAgrees, ConfigAgrees, RowsKnown
<1>17. ClearSteps'
  BY <1>2, <1>3, <1>4, <1>5, <1>6, Facts DEF ClearSteps, DirAgrees, RowsKnown
<1>18. RemovedUnpublished'
  BY <1>2, <1>5, Facts DEF RemovedUnpublished, Calm
<1> QED
  BY <1>1, <1>3, <1>4, <1>7, <1>8, <1>9, <1>10, <1>11, <1>12, <1>13, <1>14, <1>15, <1>16, <1>17, <1>18,
     OtherKinds, Together

(* They are not: an error is kept, or Admin is gone. *)
SoundThen(dir, b) == /\ dir.of = b \/ (dir.of = 0 /\ b \in past'.cut)
                     /\ b \in past'.oauth \ past'.cut => dir = Whole(b)

(* Files after a restoration that failed or was cut short. *)
LEMMA FilesKept ==
    ASSUME SagaInv, Back("files"), Keeps("files") \/ saga' = Down, Grown, PastTypes',
           UNCHANGED <<row, secret, userRoute, homeOf, backup, archived, container,
                       published, journal>>,
           \/ configFile' = [configFile EXCEPT ![journal.id] = TRUE] /\ journal.kind = "delete"
           \/ UNCHANGED configFile,
           oauthDir' \in [AccountId -> Directory],
           \A a \in AccountId \ Touched : oauthDir'[a] = oauthDir[a],
           journal.kind \in {"create", "update"} => oauthDir' = oauthDir,
           journal.kind = "delete" => SoundThen(oauthDir'[journal.id], Bearer),
           journal.kind = "clear" =>
              Did("files") /\ (oauthDir' = oauthDir \/ SoundThen(oauthDir'[journal.id], Bearer))
    PROVE  SagaInv'
<1> DEFINE id == journal.id
           new == journal.new
<1>1. /\ Busy /\ Behind /\ Underway /\ Known /\ journal' = journal /\ row' = row
      /\ "files" \in Undo(journal.kind, saga.did)
  BY Facts, BackwardKnown, OpOfSaga DEF Behind, Known
<1>2. OperationKnown' /\ SagaKnown' /\ Records' /\ saga'.mode # "recover"
      /\ (Busy' => Kept("files"))
  <2>1. CASE Keeps("files")
    <3>1. OperationKnown' /\ SagaKnown' /\ Records' /\ Kept("files")
      BY <2>1, StepKept DEF StillThere
    <3> QED
      BY <3>1 DEF Kept, Reversed
  <2>2. CASE saga' = Down
    <3>1. /\ OperationKnown' /\ SagaKnown' /\ Records'
          /\ ~Busy' /\ saga'.mode = "down"
      BY <1>1, <2>2, StepDown DEF StillThere
    <3> QED
      BY <3>1
  <2> QED
    BY <2>1, <2>2
<1>3. Busy' => /\ Behind' /\ ~Ahead' /\ saga'.ask = saga.ask /\ saga'.old = saga.old
               /\ OldRows' = OldRows /\ Bearer' = Bearer
               /\ \A s : s # "unusable" => (Did(s)' <=> Did(s))
               /\ ~Due("files")'
               /\ \A s : ~Undid(s)'
  BY <1>2 DEF Kept, Reversed
<1>4. /\ journal.kind \in {"create", "update", "delete", "clear"}
      /\ journal.kind \in {"update", "clear"} => Did("note") /\ journal.phase = "begun"
      /\ journal.kind = "delete" /\ ~Did("note") => Exists(id)
      /\ ~Did("remove")
  <2>2. journal.kind # "policy" /\ (journal.kind \in {"update", "clear"} => Did("note"))
    BY <1>1 DEF Undo, Did, PolicyChange
  <2>3. journal.kind = "delete" /\ ~Did("note") => ~Did("control")
    <3>1. \A s \in saga.did \ {"unusable"}, t \in Plan(journal) :
             Forward[t] <= Forward[s] => t \in saga.did
      BY <1>1, Facts DEF SagaKnown, BackKnown
    <3> QED
      BY <1>1, <3>1, KindOfStep, ForwardRanks DEF Did, Known
  <2>4. ~Did("control") /\ journal.kind # "create" => Exists(id)
    BY <1>1, Bearers
  <2>5. ~Did("remove")
    <3>1. CASE journal.kind = "delete"
      BY <1>1, <3>1, Facts DEF DeleteSteps
    <3>2. CASE journal.kind # "delete"
      BY <1>1, <3>2, Facts, KindOfStep DEF SagaKnown, BackKnown, Did, Known
    <3> QED
      BY <3>1, <3>2
  <2> QED
    BY <1>1, <2>2, <2>3, <2>4, <2>5, Facts, PhaseKnown DEF Known
<1>5. /\ (\A a : Exists(a)' <=> Exists(a)) /\ Touched' = Touched /\ Calm' = Calm
      /\ Desired(journal)' = Desired(journal) /\ (Renames(journal)' <=> Renames(journal))
      /\ \A d, b : (SoundDir(d, b) => SoundDir(d, b)') /\ (Held(b)' => Held(b))
      /\ \A a : /\ SecretAgrees(a)' <=> SecretAgrees(a)
                /\ ContainerAgrees(a)' <=> ContainerAgrees(a)
                /\ DirAgrees(a) /\ oauthDir'[a] = oauthDir[a] => DirAgrees(a)'
  BY <1>1, Static DEF Sounder, SecretAgrees, ContainerAgrees
<1>55. /\ configFile' \in [AccountId -> BOOLEAN]
       /\ \A a \in AccountId \ Touched : configFile'[a] = configFile[a]
       /\ journal.kind # "delete" => configFile' = configFile
       /\ \A a : ConfigAgrees(a) /\ configFile'[a] = configFile[a] => ConfigAgrees(a)'
       /\ journal.kind = "delete" /\ Exists(id) /\ ConfigAgrees(id) => ConfigAgrees(id)'
       /\ journal.kind = "delete" /\ configFile[id] => configFile'[id]
  <2>1. configFile \in [AccountId -> BOOLEAN] /\ id \in AccountId /\ id \in Touched
    BY <1>1, Facts DEF WorldTypes, Known, Touched
  <2>2. CASE configFile' = configFile
    BY <1>5, <2>1, <2>2 DEF ConfigAgrees
  <2>3. CASE configFile' = [configFile EXCEPT ![id] = TRUE] /\ journal.kind = "delete"
    <3>1. configFile'[id] /\ \A a \in AccountId \ {id} : configFile'[a] = configFile[a]
      BY <2>1, <2>3
    <3>2. configFile' \in [AccountId -> BOOLEAN]
      BY <2>1, <2>3
    <3> QED
      BY <1>5, <2>1, <2>3, <3>1, <3>2 DEF ConfigAgrees
  <2> QED
    BY <2>2, <2>3
<1>6. /\ Exists(id) /\ journal.kind # "update" => row[id].born = Bearer
      /\ Bearer # 0 /\ Bearer \in Int
      /\ journal.kind = "clear" => Exists(id)
  BY <1>1, TheBearer, Bearers, Facts DEF RowsKnown
<1>7. WorldTypes'
  BY <1>55, Facts DEF WorldTypes
<1>8. OldSecrets'
  BY <1>1, <1>3, <1>5, <1>55, Facts DEF OldSecrets
<1>9. OthersAgree'
  BY <1>1, <1>55, Facts, OthersFrame
<1>10. OAuthKnown'
  BY <1>1, Facts, OAuthFrame
<1>11. CreateKept' /\ CreateSteps'
  BY <1>1, <1>3, <1>5, <1>55, Facts DEF CreateKept, CreateSteps, Grown
<1>12. UpdateKept'
  BY <1>1, <1>4, <1>5, <1>55, Facts DEF UpdateKept
<1>13. UpdateSteps'
  <2> SUFFICES ASSUME journal.kind = "update" PROVE UpdateSteps'
    BY <1>1 DEF UpdateSteps
  <2>1. \A a : AccountAgrees(a) => AccountAgrees(a)'
    BY <1>5, <1>55 DEF AccountAgrees
  <2> QED
    BY <1>1, <1>3, <1>5, <1>55, <2>1, Facts DEF UpdateSteps, Known
<1>14. /\ \A d, b : SoundDir(d, b)' <=> SoundThen(d, b)
       /\ \A b : Held(b)' <=> b \in past'.oauth \ past'.cut
  BY DEF SoundThen, SoundDir, Held
<1>15. DeleteKept'
  BY <1>1, <1>4, <1>5, <1>55, <1>6, <1>14, Facts, PhaseKnown DEF DeleteKept, AccountAgrees, DirAgrees, Moving
<1>16. DeleteSteps'
  BY <1>1, <1>3, <1>4, <1>5, <1>55, <1>14, Facts DEF DeleteSteps, SoundThen, Whole
<1>17. ClearKept'
  BY <1>1, <1>4, <1>5, <1>55, <1>6, <1>14, Facts DEF ClearKept, DirAgrees
<1>18. ClearSteps'
  BY <1>1, <1>3, <1>5, <1>55, Facts DEF ClearSteps
<1>19. RemovedUnpublished'
  BY <1>1, <1>5, Facts DEF RemovedUnpublished
<1> QED
  BY <1>1, <1>2, <1>4, <1>7, <1>8, <1>9, <1>10, <1>11, <1>12, <1>13, <1>15, <1>16, <1>17, <1>18, <1>19,
     OtherKinds, Together

(* RollbackFiles keeps the invariant, when a copy back is cut short as *)
(* well.                                                               *)
LEMMA RollbackFilesKeeps ==
    ASSUME SagaInv, RollbackFiles
    PROVE  SagaInv'
<1> DEFINE id == journal.id
           new == journal.new
           preparation == CASE journal.kind = "create" -> "directory"
                            [] journal.kind = "delete" -> "archive"
                            [] OTHER -> "files"
           prepared == preparation \in saga.did
           plain == journal.kind = "update" /\ ~Renames(journal)
           short == journal.kind \in {"delete", "clear"}
           restored ==
              CASE journal.kind = "create" -> [oauthDir EXCEPT ![id] = NoDir]
                [] journal.kind = "update" -> [oauthDir EXCEPT ![new] = NoDir,
                                                               ![id] = oauthDir[new]]
                [] OTHER -> [oauthDir EXCEPT ![id] = Restored]
           configured ==
              CASE journal.kind = "create" -> [configFile EXCEPT ![id] = FALSE]
                [] journal.kind = "update" -> [configFile EXCEPT ![new] = FALSE]
                [] journal.kind = "delete" -> [configFile EXCEPT ![id] = TRUE]
                [] journal.kind = "clear" -> configFile
<1>1. Back("files") /\ UNCHANGED <<row, secret, userRoute, homeOf, backup, archived, container,
                                   published, journal>>
  BY DEF RollbackFiles, filesFrame, recordVars
<1>2. /\ Busy /\ Behind /\ Underway /\ Known /\ ~Ahead /\ Due("files")
      /\ "files" \in Undo(journal.kind, saga.did)
      /\ \A s \in saga.did \ {"unusable"}, t \in Plan(journal) :
            Forward[t] <= Forward[s] => t \in saga.did
  <2>1. /\ saga.mode = "back" /\ Busy /\ Underway /\ "files" \in saga.todo
        /\ "files" \in Undo(journal.kind, saga.did)
    BY <1>1, Facts, BackwardKnown
  <2>2. Known
    BY <2>1, Facts, OpOfSaga DEF Known
  <2> QED
    BY <2>1, <2>2, Facts DEF SagaKnown, BackKnown, Behind, Ahead, Due
<1>3. /\ journal.kind \in {"create", "update", "delete", "clear"}
      /\ journal.kind = "update" /\ ~Did("files") => ~Did("render")
      /\ journal.kind = "delete" /\ ~Did("archive") => ~Did("control")
      /\ journal.kind = "clear" /\ Did("files") => Did("copy")
      /\ journal.kind = "clear" => ~Did("control")
  <2>1. journal.kind # "policy"
    BY <1>2 DEF Undo, PolicyChange
  <2>2. journal.kind = "clear" => ~Did("control")
    BY <1>2, KindOfStep, Facts DEF SagaKnown, BackKnown, Did, Known
  <2> QED
    BY <1>2, <2>1, <2>2, KindOfStep, ForwardRanks DEF Did, Known
<1>4. /\ oauthDir \in [AccountId -> Directory] /\ configFile \in [AccountId -> BOOLEAN]
      /\ backup \in Directory /\ id \in AccountId /\ (journal.kind = "update" => new \in AccountId)
      /\ Bearer \in Int /\ Bearer # 0
      /\ id \in Touched /\ new \in Touched /\ NoDir \in Directory
  BY <1>2, Facts, Bearers, DirTypes DEF WorldTypes, Known, Touched
<1>5. journal.kind \in {"create", "update", "clear"} /\ ~Did("files") /\ ~Did("control") /\ journal.kind = "clear"
         => SoundDir(oauthDir[id], Bearer)
  BY <1>2, Facts, Bearers DEF ClearSteps, DirAgrees
<1>6. \/ (~prepared \/ plain) /\ Undone("files") /\ UNCHANGED <<oauthDir, configFile>>
      \/ /\ prepared /\ ~plain /\ Undone("files")
         /\ oauthDir' = restored /\ configFile' = configured
      \/ /\ prepared /\ Keeps("files") /\ UNCHANGED <<oauthDir, configFile>>
         /\ IF oauthDir[id].is = "partial" THEN FaultCut(oauthDir[id]) ELSE Fault
      \/ /\ prepared /\ short /\ ((FaultCut(backup) /\ Keeps("files")) \/ DiesCut(backup))
         /\ configFile' = IF journal.kind = "delete"
                          THEN [configFile EXCEPT ![id] = TRUE] ELSE configFile
         /\ \E dir \in {NoDir, Partial(Restored)} : oauthDir' = [oauthDir EXCEPT ![id] = dir]
  BY <1>2, Zenon DEF RollbackFiles, Known
<1>7. CASE (~prepared \/ plain) /\ Undone("files") /\ UNCHANGED <<oauthDir, configFile>>
  <2>1. journal.kind = "create" => oauthDir[id] = NoDir /\ ~configFile[id]
    BY <1>2, <1>7, Facts DEF CreateSteps, Did
  <2>2. journal.kind = "update" =>
           /\ SoundDir(oauthDir[id], Bearer)
           /\ Renames(journal) => oauthDir[new] = NoDir /\ ~configFile[new]
    <3>1. CASE journal.kind = "update" /\ ~Did("files")
      BY <1>2, <1>3, <3>1, Facts DEF UpdateSteps
    <3>2. CASE journal.kind = "update" /\ Did("files") /\ new = id /\ ~Renames(journal)
      BY <1>2, <3>2, Facts DEF UpdateSteps
    <3> QED
      BY <1>7, <3>1, <3>2 DEF Did, Renames
  <2>3. journal.kind = "delete" => SoundDir(oauthDir[id], Bearer) /\ configFile[id]
    BY <1>2, <1>3, <1>7, Facts DEF DeleteSteps, Did
  <2>4. journal.kind = "clear" => SoundDir(oauthDir[id], Bearer)
    BY <1>3, <1>5, <1>7 DEF Did
  <2> HIDE DEF id, new, preparation, prepared, plain, short, restored, configured
  <2> QED
    BY <1>1, <1>4, <1>7, <2>1, <2>2, <2>3, <2>4, FilesUndone DEF id, new
<1>8. CASE prepared /\ ~plain /\ Undone("files") /\ oauthDir' = restored /\ configFile' = configured
  <2>1. CASE journal.kind = "create"
    BY <1>1, <1>4, <1>8, <2>1, FilesUndone
  <2>2. CASE journal.kind = "update"
    <3>1. SoundDir(oauthDir[new], Bearer) /\ Renames(journal) /\ new # id /\ Did("files")
      BY <1>2, <1>8, <2>2, Facts DEF UpdateSteps, Did, Renames
    <3> QED
      BY <1>1, <1>4, <1>8, <2>2, <3>1, FilesUndone
  <2>3. CASE journal.kind \in {"delete", "clear"}
    <3>1. SoundDir(backup, Bearer)
      BY <1>2, <1>3, <1>8, <2>3, Facts DEF DeleteSteps, ClearSteps, Did, Bearer, OldRows
    <3>2. Restored \in Directory /\ SoundDir(Restored, Bearer)
      BY <1>4, <3>1, RestoredSound
    <3> QED
      BY <1>1, <1>4, <1>8, <2>3, <3>2, FilesUndone DEF Did
  <2> QED
    BY <1>3, <2>1, <2>2, <2>3
<1>9. CASE /\ prepared /\ Keeps("files") /\ UNCHANGED <<oauthDir, configFile>>
           /\ IF oauthDir[id].is = "partial" THEN FaultCut(oauthDir[id]) ELSE Fault
  <2>1. /\ PastTypes' /\ Grown
        /\ oauthDir[id].is = "partial" => past'.cut = past.cut \cup {oauthDir[id].of}
    BY <1>4, <1>9, Facts, FaultCutFields, FaultFields DEF Grown, Bounds, CutBounds
  <2>2. journal.kind = "delete" => SoundThen(oauthDir[id], Bearer)
    <3> SUFFICES ASSUME journal.kind = "delete" PROVE SoundThen(oauthDir[id], Bearer)
      OBVIOUS
    <3>1. /\ oauthDir[id].of = Bearer \/ (oauthDir[id].of = 0 /\ Bearer \in past.cut)
          /\ Held(Bearer) => oauthDir[id].is \in {"whole", "partial"}
      BY <1>2, Facts DEF DeleteSteps
    <3>2. CASE Bearer \in past'.cut
      BY <2>1, <3>1, <3>2 DEF SoundThen, Grown
    <3>3. CASE Bearer \notin past'.oauth
      BY <2>1, <3>1, <3>3 DEF SoundThen, Grown
    <3>4. CASE Bearer \in past'.oauth \ past'.cut
      <4>1. Bearer \notin past.cut /\ Held(Bearer) /\ oauthDir[id].of = Bearer
        BY <2>1, <3>1, <3>4 DEF Grown, Held
      <4>2. oauthDir[id].is = "whole"
        BY <2>1, <3>1, <3>4, <4>1
      <4>3. oauthDir[id] = Whole(Bearer)
        BY <1>4, <4>1, <4>2, DirTypes DEF Directory, NoDir, Whole
      <4> QED
        BY <4>1, <4>3 DEF SoundThen
    <3> QED
      BY <3>2, <3>3, <3>4
  <2>3. journal.kind = "clear" => Did("files")
    BY <1>9 DEF Did
  <2> HIDE DEF id, new, preparation, prepared, plain, short, restored, configured
  <2> QED
    BY <1>1, <1>4, <1>9, <2>1, <2>2, <2>3, FilesKept DEF id
<1>10. CASE /\ prepared /\ short /\ ((FaultCut(backup) /\ Keeps("files")) \/ DiesCut(backup))
            /\ configFile' = IF journal.kind = "delete"
                             THEN [configFile EXCEPT ![id] = TRUE] ELSE configFile
            /\ \E dir \in {NoDir, Partial(Restored)} : oauthDir' = [oauthDir EXCEPT ![id] = dir]
  <2>1. PICK dir \in {NoDir, Partial(Restored)} : oauthDir' = [oauthDir EXCEPT ![id] = dir]
    BY <1>10
  <2>2. SoundDir(backup, Bearer)
    BY <1>2, <1>3, <1>10, Facts DEF DeleteSteps, ClearSteps, Did, Bearer, OldRows
  <2>3. /\ PastTypes' /\ Grown /\ past'.cut = past.cut \cup {backup.of}
        /\ Keeps("files") \/ saga' = Down
    BY <1>4, <1>10, Facts, FaultCutFields, DiesCutFields DEF Grown, CutBounds
  <2>4. Partial(Restored) \in Directory /\ Partial(Restored).of \in {0, Bearer}
    BY <1>4, <2>2, RestoredSound
  <2>5. dir \in Directory /\ dir.of \in {0, Bearer}
    BY <1>4, <2>1, <2>4 DEF NoDir
  <2>6. Bearer \in past'.cut
    BY <2>2, <2>3 DEF SoundDir
  <2>7. SoundThen(dir, Bearer)
    BY <2>5, <2>6 DEF SoundThen
  <2>8. oauthDir' \in [AccountId -> Directory] /\ oauthDir'[id] = dir
        /\ \A a \in AccountId \ Touched : oauthDir'[a] = oauthDir[a]
    BY <1>4, <2>1, <2>5
  <2>9. short /\ (journal.kind = "clear" => Did("files"))
    BY <1>10 DEF Did
  <2> HIDE DEF preparation, prepared, plain, restored, configured
  <2> QED
    BY <1>1, <1>10, <2>3, <2>7, <2>8, <2>9, FilesKept
<1> QED
  BY <1>6, <1>7, <1>8, <1>9, <1>10

(* A container in the course of a compensation. *)
LEMMA ContainerBack ==
    ASSUME SagaInv, NEW step \in {"build", "restart"}, Back(step),
           UNCHANGED <<row, secret, userRoute, homeOf, oauthDir, configFile, backup, archived,
                       published, journal>>,
           container' \in [AccountId -> {"none", "running", "stopped"}],
           \A a \in AccountId \ Touched : container'[a] = container[a],
           \/ Undone(step)
           \/ Keeps(step) /\ PastTypes' /\ Bounds /\ (step = "build" => Did("build")),
           step = "build" /\ ~Did("build") => container' = container,
           ~saga'.dirty /\ step = "build" /\ Did("build") =>
              /\ journal.kind = "create" => container'[journal.id] = "none"
              /\ journal.kind = "update" => container'[journal.id] # "none"
                                            /\ (Renames(journal) => container'[journal.new] = "none")
              /\ journal.kind = "delete" => container'[journal.id] # "none",
           journal.kind = "delete" =>
              (container'[journal.id] = "none" => container[journal.id] = "none"),
           journal.kind = "clear" => container'[journal.id] # "none"
    PROVE  SagaInv'
<1> DEFINE id == journal.id
           new == journal.new
<1>1. /\ Busy /\ Behind /\ Underway /\ Known /\ ~Ahead
      /\ step \in Undo(journal.kind, saga.did)
      /\ \A s \in saga.did \ {"unusable"}, t \in Plan(journal) :
            Forward[t] <= Forward[s] => t \in saga.did
      /\ saga.did \subseteq Plan(journal) \cup {"unusable"}
  <2>1. /\ saga.mode = "back" /\ Busy /\ Underway
        /\ step \in Undo(journal.kind, saga.did)
    BY Facts, BackwardKnown
  <2>2. Known
    BY <2>1, Facts, OpOfSaga DEF Known
  <2> QED
    BY <2>1, <2>2, Facts DEF SagaKnown, BackKnown, Behind, Ahead
<1>2. /\ journal.kind \in {"create", "update", "delete", "clear"}
      /\ journal.phase = "begun"
      /\ ~Did("files") /\ journal.kind = "update" => ~Did("build")
      /\ step = "build" => journal.kind # "clear"
      /\ step = "restart" => journal.kind = "clear"
  <2>1. /\ journal.kind # "policy" /\ (journal.kind \in {"update", "clear"} => Did("note"))
        /\ journal.kind \in {"create", "delete"} => Did("control")
        /\ step = "build" => journal.kind # "clear"
        /\ step = "restart" => journal.kind = "clear"
    <3>1. CASE journal.kind = "update"
      BY <1>1, <3>1 DEF Undo, Did
    <3>2. CASE journal.kind = "clear"
      BY <1>1, <3>2 DEF Undo, Did
    <3>3. CASE journal.kind \in {"create", "delete"}
      BY <1>1, <3>3 DEF Undo, Did
    <3>4. journal.kind # "policy"
      BY <1>1 DEF Undo, PolicyChange
    <3> QED
      BY <1>1, <3>1, <3>2, <3>3, <3>4 DEF Known
  <2>2. Did("note") /\ (~Did("files") /\ journal.kind = "update" => ~Did("build"))
    BY <1>1, <2>1, KindOfStep, ForwardRanks DEF Did, Known
  <2> QED
    BY <1>1, <2>1, <2>2, Facts, PhaseKnown DEF Known
<1>3. /\ PastTypes' /\ OperationKnown' /\ SagaKnown' /\ Records' /\ Reversed
      /\ Grown /\ past'.cut = past.cut
      /\ \A s : s # "unusable" => (Did(s)' <=> Did(s))
      /\ Due("files")' <=> Due("files")
      /\ \A s : Undid(s)' => (Undid(s) /\ s # step) \/ (s = step /\ ~saga'.dirty)
      /\ Undone(step) \/ (step = "build" => Did("build"))
  <2>1. CASE Undone(step)
    <3>1. PastTypes' /\ OperationKnown' /\ SagaKnown' /\ Records' /\ Undoing(step)
      BY <2>1, StepUndone DEF StillThere
    <3>2. ~Undid(step)
      <4>1. step \in saga.todo
        BY Facts, BackwardKnown
      <4> QED
        BY <4>1 DEF Undid, Due
    <3> QED
      BY <2>1, <3>1, <3>2 DEF Undoing
  <2>2. CASE Keeps(step) /\ PastTypes' /\ Bounds /\ (step = "build" => Did("build"))
    <3>1. OperationKnown' /\ SagaKnown' /\ Records' /\ Kept(step)
      BY <2>2, StepKept DEF StillThere, Grown, Bounds
    <3>2. Due("files")' <=> Due("files")
      <4>1. "files" \notin DependOn(step) /\ "files" # step
        BY DEF DependOn
      <4>2. saga'.todo = saga.todo \ ({step} \cup DependOn(step))
        BY <2>2, KeepsFields, Facts
      <4> QED
        BY <4>1, <4>2 DEF Due
    <3> QED
      BY <2>2, <3>1, <3>2 DEF Bounds, Grown, Kept
  <2> QED
    BY <2>1, <2>2
<1>4. /\ Busy /\ Busy' /\ Behind /\ Behind' /\ ~Ahead' /\ Known /\ Underway
      /\ saga'.ask = saga.ask /\ saga'.old = saga.old /\ saga'.mode # "recover"
      /\ OldRows' = OldRows /\ Bearer' = Bearer
  BY <1>3 DEF Reversed
<1>5. /\ (\A a : Exists(a)' <=> Exists(a)) /\ Touched' = Touched /\ Calm' = Calm
      /\ Desired(journal)' = Desired(journal) /\ (Renames(journal)' <=> Renames(journal))
      /\ \A d, b : (SoundDir(d, b)' <=> SoundDir(d, b)) /\ (Held(b)' <=> Held(b))
      /\ \A a : /\ SecretAgrees(a)' <=> SecretAgrees(a)
                /\ DirAgrees(a)' <=> DirAgrees(a)
                /\ ConfigAgrees(a)' <=> ConfigAgrees(a)
  <2>1. \A a : Exists(a)' <=> Exists(a)
    BY <1>3, Static
  <2>2. \A d, b : (SoundDir(d, b)' <=> SoundDir(d, b)) /\ (Held(b)' <=> Held(b))
    BY <1>3, SameSound DEF Grown
  <2> QED
    BY <1>3, <2>1, <2>2, Static DEF SecretAgrees, DirAgrees, ConfigAgrees
<1>6. WorldTypes'
  BY Facts DEF WorldTypes
<1>7. OldSecrets'
  BY <1>3, <1>4, <1>5, Facts DEF OldSecrets
<1>8. OthersAgree'
  BY <1>3, Facts, OthersFrame
<1>9. OAuthKnown'
  BY <1>3, Facts, OAuthFrame
<1>10. CreateKept'
  BY <1>2, <1>3, <1>5, Facts DEF CreateKept, Grown
<1>11. CreateSteps'
  <2> SUFFICES ASSUME journal.kind = "create" PROVE CreateSteps'
    BY DEF CreateSteps
  <2>1. step = "build"
    BY <1>2
  <2>2. ~Did("build") \/ Undid("build")' => container'[id] = "none"
    BY <1>3, <1>4, <2>1, Facts DEF CreateSteps
  <2> QED
    BY <1>3, <1>4, <1>5, <2>2, Facts DEF CreateSteps
<1>12. UpdateKept'
  BY <1>2, <1>3, <1>5, Facts DEF UpdateKept
<1>13. UpdateSteps'
  <2> SUFFICES ASSUME journal.kind = "update" PROVE UpdateSteps'
    BY DEF UpdateSteps
  <2>1. step = "build"
    BY <1>2
  <2>2. ~Did("build") \/ Undid("build")' =>
           container'[id] # "none" /\ (Renames(journal) => container'[new] = "none")
    BY <1>3, <1>4, <2>1, Facts DEF UpdateSteps
  <2>3. ~Did("files") => \A a : AccountAgrees(a) => AccountAgrees(a)'
    BY <1>2, <1>5, <2>1 DEF AccountAgrees, ContainerAgrees
  <2> QED
    BY <1>3, <1>4, <1>5, <2>2, <2>3, Facts DEF UpdateSteps
<1>14. DeleteKept'
  BY <1>2, <1>3, <1>5, Facts DEF DeleteKept
<1>15. DeleteSteps'
  <2> SUFFICES ASSUME journal.kind = "delete" PROVE DeleteSteps'
    BY DEF DeleteSteps
  <2>2. ~Did("build") \/ Undid("build")' => container'[id] # "none"
    BY <1>2, <1>3, <1>4, Facts DEF DeleteSteps
  <2> QED
    BY <1>3, <1>4, <1>5, <2>2, Facts DEF DeleteSteps
<1>16. ClearKept'
  BY <1>2, <1>3, <1>5, Facts DEF ClearKept
<1>17. ClearSteps'
  BY <1>2, <1>3, <1>4, <1>5, Facts DEF ClearSteps
<1>18. RemovedUnpublished'
  BY <1>3, <1>5, Facts DEF RemovedUnpublished
<1> QED
  BY <1>2, <1>3, <1>4, <1>6, <1>7, <1>8, <1>9, <1>10, <1>11, <1>12, <1>13, <1>14, <1>15, <1>16, <1>17,
     <1>18, OtherKinds, Together

(* RollbackRuntime keeps the invariant. *)
LEMMA RollbackRuntimeKeeps ==
    ASSUME SagaInv, RollbackRuntime
    PROVE  SagaInv'
<1> DEFINE id == journal.id
           gone == [container EXCEPT ![FinalId(journal)] =
                      IF journal.kind = "delete" THEN @ ELSE "none"]
<1>1. Back("build") /\ UNCHANGED <<row, secret, userRoute, homeOf, oauthDir, configFile, backup,
                                   archived, published, journal>>
  BY DEF RollbackRuntime, runtimeFrame, recordVars, fileVars
<1>2. Busy /\ Known /\ Underway
  BY <1>1, Facts, BackwardKnown, OpOfSaga DEF Known
<1>3. \/ ~Did("build") /\ Undone("build") /\ UNCHANGED container
      \/ Did("build") /\ Undone("build") /\ container' = [gone EXCEPT ![id] = saga.old.container]
      \/ /\ Did("build") /\ (Stuck("build") \/ Conflicts("build"))
         /\ container' \in {container, gone}
  BY <1>2, Zenon DEF RollbackRuntime, Known, Did
<1>4. /\ id \in Touched /\ FinalId(journal) \in Touched /\ id \in AccountId
      /\ FinalId(journal) \in AccountId
      /\ journal.kind # "update" => FinalId(journal) = id
      /\ journal.kind = "update" => FinalId(journal) = journal.new
      /\ Renames(journal) => journal.new # id
      /\ container \in [AccountId -> {"none", "running", "stopped"}]
      /\ saga.old.container \in {"none", "running", "stopped"}
      /\ saga.old.container = "none" <=> journal.kind = "create"
      /\ journal.kind # "clear"
  <2>1. "build" \in Undo(journal.kind, saga.did)
    BY <1>1, Facts, BackwardKnown
  <2>2. journal.kind # "clear"
    BY <2>1 DEF Undo
  <2> QED
    BY <1>2, <2>2, Facts DEF WorldTypes, OldSecrets, Touched, Known, FinalId, Renames
<1>5. CASE ~Did("build") /\ Undone("build") /\ UNCHANGED container
  <2> HIDE DEF id, gone
  <2> QED
    BY <1>1, <1>4, <1>5, ContainerBack
<1>6. CASE Did("build") /\ Undone("build") /\ container' = [gone EXCEPT ![id] = saga.old.container]
  <2>1. /\ container' \in [AccountId -> {"none", "running", "stopped"}]
        /\ \A a \in AccountId \ Touched : container'[a] = container[a]
        /\ container'[id] = saga.old.container
        /\ Renames(journal) => container'[journal.new] = "none"
    BY <1>4, <1>6 DEF Renames
  <2> HIDE DEF gone
  <2> QED
    BY <1>1, <1>4, <1>6, <2>1, ContainerBack
<1>7. CASE /\ Did("build") /\ (Stuck("build") \/ Conflicts("build"))
           /\ container' \in {container, gone}
  <2>1. /\ container' \in [AccountId -> {"none", "running", "stopped"}]
        /\ \A a \in AccountId \ Touched : container'[a] = container[a]
        /\ journal.kind = "delete" => container'[id] = container[id]
    BY <1>4, <1>7
  <2>2. Keeps("build") /\ PastTypes' /\ Bounds
    <3>1. CASE Stuck("build")
      BY <3>1, Facts, FaultFields DEF Stuck
    <3>2. CASE Conflicts("build")
      BY <3>2, Facts DEF Conflicts, PastTypes, PastShape, Bounds
    <3> QED
      BY <1>7, <3>1, <3>2
  <2> HIDE DEF gone
  <2>4. saga'.dirty
    BY <2>2, KeepsFields, Facts
  <2> QED
    BY <1>1, <1>4, <1>7, <2>1, <2>2, <2>4, ContainerBack
<1> QED
  BY <1>3, <1>5, <1>6, <1>7

(* RestartRestored keeps the invariant. *)
LEMMA RestartRestoredKeeps ==
    ASSUME SagaInv, RestartRestored
    PROVE  SagaInv'
<1> DEFINE id == journal.id
<1>1. Back("restart") /\ UNCHANGED <<row, secret, userRoute, homeOf, oauthDir, configFile, backup,
                                     archived, published, journal>>
  BY DEF RestartRestored, runtimeFrame, recordVars, fileVars
<1>2. Busy /\ Known /\ Underway
  BY <1>1, Facts, BackwardKnown, OpOfSaga DEF Known
<1>3. \/ Undone("restart") /\ container' \in {container, [container EXCEPT ![id] = "running"]}
      \/ Stuck("restart") /\ container' \in {container, StoppedAt(id)}
  BY <1>2 DEF RestartRestored, Known
<1>4. /\ id \in Touched /\ id \in AccountId /\ journal.kind = "clear"
      /\ container \in [AccountId -> {"none", "running", "stopped"}] /\ container[id] # "none"
  <2>1. "restart" \in Undo(journal.kind, saga.did)
    BY <1>1, Facts, BackwardKnown
  <2>2. journal.kind = "clear"
    <3>1. CASE journal.kind \in {"update", "create", "delete"}
      BY <2>1, <3>1 DEF Undo
    <3>2. journal.kind # "policy"
      BY <2>1 DEF Undo, PolicyChange
    <3> QED
      BY <1>2, <3>1, <3>2 DEF Known
  <2> QED
    BY <1>2, <2>2, Facts DEF WorldTypes, ClearSteps, Touched, Known
<1>5. /\ container' \in [AccountId -> {"none", "running", "stopped"}]
      /\ \A a \in AccountId \ Touched : container'[a] = container[a]
      /\ container'[id] # "none"
  BY <1>3, <1>4 DEF StoppedAt
<1>6. Undone("restart") \/ (Keeps("restart") /\ PastTypes' /\ Bounds)
  BY <1>3, Facts, FaultFields DEF Stuck
<1> QED
  BY <1>1, <1>4, <1>5, <1>6, ContainerBack

(* The secrets are restored, in part if it fails. *)
LEMMA RollbackSecretsKeeps ==
    ASSUME SagaInv, RollbackSecrets
    PROVE  SagaInv'
<1> DEFINE id == journal.id
           new == journal.new
<1>1. Back("secrets") /\ UNCHANGED <<row, userRoute, homeOf, oauthDir, configFile, backup,
                                     archived, container, published, journal>>
  BY DEF RollbackSecrets, fileVars
<1>2. /\ Busy /\ Behind /\ Underway /\ Known /\ ~Ahead
      /\ "secrets" \in Undo(journal.kind, saga.did) /\ "secrets" \in saga.todo
      /\ \A s \in saga.did \ {"unusable"}, t \in Plan(journal) :
            Forward[t] <= Forward[s] => t \in saga.did
  <2>1. /\ saga.mode = "back" /\ Busy /\ Underway
        /\ "secrets" \in Undo(journal.kind, saga.did) /\ "secrets" \in saga.todo
    BY <1>1, Facts, BackwardKnown
  <2>2. Known
    BY <2>1, Facts, OpOfSaga DEF Known
  <2> QED
    BY <2>1, <2>2, Facts DEF SagaKnown, BackKnown, Behind, Ahead
<1>3. /\ journal.kind \in {"create", "update", "delete"}
      /\ journal.phase = "begun"
      /\ journal.kind \in {"create", "delete"} => Did("control")
      /\ ~Did("files") /\ journal.kind = "update" => ~Did("secret1")
      /\ ~Did("control") => ~Did("secret1")
  <2>1. /\ journal.kind \in {"create", "update", "delete"}
        /\ journal.kind = "update" => Did("note")
        /\ journal.kind \in {"create", "delete"} => Did("control")
    <3>1. CASE journal.kind = "update"
      BY <1>2, <3>1 DEF Undo, Did
    <3>2. journal.kind # "clear"
      BY <1>2 DEF Undo
    <3>3. CASE journal.kind \in {"create", "delete"}
      BY <1>2, <3>3 DEF Undo, Did
    <3>4. journal.kind # "policy"
      BY <1>2 DEF Undo, PolicyChange
    <3> QED
      BY <1>2, <3>1, <3>2, <3>3, <3>4 DEF Known
  <2>2. /\ Did("note") /\ (~Did("files") /\ journal.kind = "update" => ~Did("secret1"))
        /\ ~Did("control") => ~Did("secret1")
    BY <1>2, <2>1, KindOfStep, ForwardRanks DEF Did, Known
  <2> QED
    BY <1>2, <2>1, <2>2, Facts, PhaseKnown DEF Known
<1>4. /\ \A a \in AccountId : secret'[a] \in {secret[a], saga.old.secret[a]}
      /\ secret' \in [AccountId -> Int] /\ secret \in [AccountId -> Int]
      /\ saga.old.secret \in [AccountId -> Int]
  <2>1. secret \in [AccountId -> Int] /\ saga.old.secret \in [AccountId -> Int]
    BY <1>2, Facts DEF WorldTypes, OldSecrets
  <2>2. CASE secret' = saga.old.secret
    BY <2>1, <2>2
  <2>3. CASE \E kept \in SUBSET {saga.op.id, FinalId(saga.op)} :
                secret' = [a \in AccountId |-> IF a \in kept THEN secret[a] ELSE saga.old.secret[a]]
    BY <2>1, <2>3
  <2> QED
    BY <2>1, <2>2, <2>3 DEF RollbackSecrets
<1>5. /\ \/ Undone("secrets") /\ secret' = saga.old.secret
         \/ Keeps("secrets")
         \/ saga' = Down
      /\ Undone("secrets") \/ (PastTypes' /\ Bounds)
  BY Facts, FaultFields, DiesFields DEF Stuck, RollbackSecrets
<1>6. /\ PastTypes' /\ OperationKnown' /\ SagaKnown' /\ Records'
      /\ Busy' => Reversed
      /\ Grown /\ past'.cut = past.cut /\ saga'.mode # "recover"
      /\ Busy' => /\ \A s : s # "unusable" => (Did(s)' <=> Did(s))
                  /\ Due("files")' <=> Due("files")
                  /\ \A s : Undid(s)' => Undid(s) \/ (s = "secrets" /\ secret' = saga.old.secret)
                  /\ Undid("secrets")' => secret' = saga.old.secret
  <2>1. CASE Undone("secrets") /\ secret' = saga.old.secret
    <3>1. PastTypes' /\ OperationKnown' /\ SagaKnown' /\ Records' /\ Undoing("secrets")
      BY <1>1, <2>1, StepUndone DEF StillThere
    <3> QED
      BY <2>1, <3>1 DEF Undoing, Reversed
  <2>2. CASE Keeps("secrets") /\ PastTypes' /\ Bounds
    <3>1. OperationKnown' /\ SagaKnown' /\ Records' /\ Kept("secrets")
      BY <1>1, <2>2, StepKept DEF StillThere, Grown, Bounds
    <3>2. Due("files")' <=> Due("files")
      <4>1. "files" \notin DependOn("secrets")
        BY DEF DependOn
      <4>2. saga'.todo = saga.todo \ ({"secrets"} \cup DependOn("secrets"))
        BY <2>2, KeepsFields, Facts
      <4> QED
        BY <4>1, <4>2 DEF Due
    <3> QED
      BY <2>2, <3>1, <3>2 DEF Bounds, Grown, Kept, Reversed
  <2>3. CASE saga' = Down /\ PastTypes' /\ Bounds
    <3>1. OperationKnown' /\ SagaKnown' /\ Records' /\ ~Busy' /\ saga'.mode = "down"
      BY <1>1, <1>2, <2>3, StepDown DEF StillThere, Grown, Bounds
    <3> QED
      BY <2>3, <3>1 DEF Bounds, Grown
  <2>4. CASE Undone("secrets") /\ ~(secret' = saga.old.secret) /\ ~(PastTypes' /\ Bounds)
    BY <1>5, <2>4, <2>1, GoesDown, UndoneFields, Facts DEF Down, AtRestNow, PastTypes, PastShape, Bounds
  <2> QED
    BY <1>5, <2>1, <2>2, <2>3, <2>4
<1>7. Busy' => /\ Behind /\ Behind' /\ ~Ahead' /\ saga'.ask = saga.ask /\ saga'.old = saga.old
               /\ OldRows' = OldRows /\ Bearer' = Bearer
  BY <1>6 DEF Reversed
<1>8. journal' = journal /\ row' = row
  BY <1>1
<1>9. /\ (\A a : Exists(a)' <=> Exists(a)) /\ Touched' = Touched /\ Calm' = Calm
      /\ Desired(journal)' = Desired(journal) /\ (Renames(journal)' <=> Renames(journal))
      /\ \A d, b : (SoundDir(d, b)' <=> SoundDir(d, b)) /\ (Held(b)' <=> Held(b))
      /\ \A a : /\ ContainerAgrees(a)' <=> ContainerAgrees(a)
                /\ DirAgrees(a)' <=> DirAgrees(a)
                /\ ConfigAgrees(a)' <=> ConfigAgrees(a)
  <2>1. \A a : Exists(a)' <=> Exists(a)
    BY <1>6, <1>8, Static
  <2>2. \A d, b : (SoundDir(d, b)' <=> SoundDir(d, b)) /\ (Held(b)' <=> Held(b))
    BY <1>6, SameSound DEF Grown
  <2> QED
    BY <1>1, <1>6, <2>1, <2>2, Static DEF ContainerAgrees, DirAgrees, ConfigAgrees
<1>10. /\ journal.kind = "create" => saga.old.secret[id] = 0
       /\ journal.kind # "create" => saga.old.secret[id] \in {0, Bearer}
       /\ Renames(journal) => saga.old.secret[new] = 0
       /\ \A a \in AccountId \ Touched : saga.old.secret[a] = secret[a]
       /\ ~Did("secret1") => saga.old.secret = secret
       /\ Bearer # 0 /\ Bearer \in Int
       /\ journal.kind = "update" => row[Desired(journal)].born = Bearer
       /\ Exists(id) /\ journal.kind # "update" => row[id].born = Bearer
  BY <1>2, Facts, TheBearer, Bearers DEF OldSecrets
<1>11. /\ \A a \in AccountId \ Touched : secret'[a] = secret[a]
       /\ ~Did("secret1") => secret' = secret
  BY <1>4, <1>10
<1>12. WorldTypes'
  BY <1>1, <1>4, Facts DEF WorldTypes
<1>13. OldSecrets'
  <2> SUFFICES ASSUME Busy' PROVE OldSecrets'
    BY DEF OldSecrets
  <2>1. ~Did("secret1")' => secret' = saga.old.secret
    BY <1>6, <1>10, <1>11
  <2> QED
    BY <1>2, <1>6, <1>7, <1>8, <1>9, <1>10, <1>11, <2>1, Facts DEF OldSecrets
<1>14. OthersAgree'
  BY <1>1, <1>6, <1>11, Facts, OthersFrame
<1>15. OAuthKnown'
  BY <1>1, <1>6, Facts, OAuthFrame
<1>16. CreateKept'
  <2> SUFFICES ASSUME journal.kind = "create" PROVE CreateKept'
    BY <1>8 DEF CreateKept
  <2> QED
    BY <1>1, <1>2, <1>3, <1>4, <1>6, <1>9, <1>10, Facts DEF CreateKept, Grown, Known
<1>17. CreateSteps'
  <2> SUFFICES ASSUME journal.kind = "create", Busy' PROVE CreateSteps'
    BY <1>8 DEF CreateSteps
  <2> QED
    BY <1>1, <1>2, <1>3, <1>4, <1>6, <1>7, <1>9, <1>10, Facts DEF CreateSteps, Known
<1>18. UpdateKept'
  <2> SUFFICES ASSUME journal.kind = "update" PROVE UpdateKept'
    BY <1>8 DEF UpdateKept
  <2>1. secret'[id] \in {0, Bearer} /\ secret'[new] \in {0, Bearer}
    BY <1>2, <1>4, <1>10, Facts DEF UpdateKept, Known, Renames
  <2> QED
    BY <1>1, <1>3, <1>9, <1>10, <2>1, Facts DEF UpdateKept
<1>19. UpdateSteps'
  <2> SUFFICES ASSUME journal.kind = "update", Busy' PROVE UpdateSteps'
    BY <1>8 DEF UpdateSteps
  <2>1. /\ ~Did("files") => \A a : AccountAgrees(a) => AccountAgrees(a)'
        /\ ~Did("control") => \A a : SecretAgrees(a) => SecretAgrees(a)'
    BY <1>1, <1>3, <1>9, <1>11 DEF AccountAgrees, SecretAgrees
  <2> QED
    BY <1>1, <1>2, <1>6, <1>7, <1>9, <2>1, Facts DEF UpdateSteps
<1>20. DeleteKept'
  <2> SUFFICES ASSUME journal.kind = "delete" PROVE DeleteKept'
    BY <1>8 DEF DeleteKept
  <2> QED
    BY <1>1, <1>2, <1>3, <1>4, <1>9, <1>10, Facts DEF DeleteKept, Known
<1>21. DeleteSteps'
  <2> SUFFICES ASSUME journal.kind = "delete", Busy' PROVE DeleteSteps'
    BY <1>8 DEF DeleteSteps
  <2> QED
    BY <1>1, <1>2, <1>3, <1>4, <1>6, <1>7, <1>9, <1>10, Facts DEF DeleteSteps, Known
<1>22. RemovedUnpublished'
  BY <1>1, <1>9, Facts DEF RemovedUnpublished
<1> QED
  BY <1>3, <1>6, <1>8, <1>12, <1>13, <1>14, <1>15, <1>16, <1>17, <1>18, <1>19, <1>20, <1>21, <1>22,
     OtherKinds, Together

(* RestoreProjection keeps the invariant; it needs that a custom proxy *)
(* has its secret again.                                               *)
LEMMA RestoreProjectionKeeps ==
    ASSUME SagaInv, RestoreProjection
    PROVE  SagaInv'
<1> DEFINE id == journal.id
           new == journal.new
<1>1. Back("render") /\ UNCHANGED <<row, secret, userRoute, homeOf, oauthDir, backup, archived,
                                    container, published, journal>>
  BY DEF RestoreProjection, filesFrame, recordVars
<1>2. CASE (Stuck("render") \/ Conflicts("render")) /\ UNCHANGED configFile
  BY <1>1, <1>2, StuckKeeps DEF WorldSame, recordVars, fileVars
<1>3. CASE RenderRows /\ Undone("render")
  <2>1. PastTypes' /\ OperationKnown' /\ SagaKnown' /\ Records' /\ Undoing("render")
    BY <1>1, <1>3, StepUndone DEF StillThere
  <2>2. /\ Reversed /\ Grown /\ past' = past /\ saga'.dirty = saga.dirty
        /\ \A s : Did(s)' <=> Did(s)
        /\ \A s : Due(s)' <=> Due(s) /\ s # "render"
        /\ \A s : Undid(s)' <=> Undid(s) \/ (s = "render" /\ ~saga.dirty)
    BY <2>1 DEF Undoing
  <2>3. /\ Busy /\ Busy' /\ Behind /\ Behind' /\ ~Ahead' /\ Known /\ Underway /\ ~Ahead
        /\ saga'.ask = saga.ask /\ saga'.old = saga.old /\ saga'.mode # "recover"
        /\ OldRows' = OldRows /\ Bearer' = Bearer
    BY <2>2 DEF Reversed
  <2>4. /\ journal.kind \in {"create", "update", "delete", "policy"}
        /\ journal.kind = "update" => journal.phase = "begun"
        /\ journal.kind = "create" => Did("directory") /\ journal.phase = "begun"
    <3>1. "render" \in Undo(journal.kind, saga.did)
      BY <1>1, Facts, BackwardKnown
    <3>2. /\ journal.kind # "clear" /\ (journal.kind = "update" => Did("note"))
          /\ journal.kind = "create" => Did("control")
      BY <3>1 DEF Undo, Did
    <3>3. \A s \in saga.did \ {"unusable"}, t \in Plan(journal) :
              Forward[t] <= Forward[s] => t \in saga.did
      BY <2>3, Facts DEF SagaKnown, BackKnown
    <3>4. journal.kind = "create" => Did("directory") /\ Did("note")
      BY <2>3, <3>2, <3>3, KindOfStep, ForwardRanks DEF Did, Known
    <3> QED
      BY <2>3, <3>2, <3>4, Facts, PhaseKnown DEF Known
  <2>5. OldRows = row
    <3>1. ~Due("control") /\ "render" \in saga.todo
      BY <1>1, BackwardRanks DEF Back, IsNext, Due
    <3>2. Did("control") => row = saga.old.row
      BY <2>3, <3>1, Facts DEF OldRowsKnown, Applied
    <3> QED
      BY <3>2 DEF OldRows
  <2>6. /\ (\A a : Exists(a)' <=> Exists(a)) /\ Touched' = Touched /\ Calm' = Calm
        /\ Desired(journal)' = Desired(journal) /\ (Renames(journal)' <=> Renames(journal))
        /\ \A d, b : (SoundDir(d, b)' <=> SoundDir(d, b)) /\ (Held(b)' <=> Held(b))
    <3>1. \A d, b : (SoundDir(d, b)' <=> SoundDir(d, b)) /\ (Held(b)' <=> Held(b))
      BY <2>2, SameSound
    <3> QED
      BY <1>1, <2>2, <3>1, Static
  <2>7. /\ configFile' \in [AccountId -> BOOLEAN]
        /\ \A a \in AccountId : configFile'[a] <=> configFile[a] \/ Exists(a)
        /\ id \in AccountId /\ (journal.kind = "update" => new \in AccountId)
        /\ (Renames(journal) => new \in AccountId)
    BY <1>3, <2>3, Facts DEF RenderRows, WorldTypes, Known, Renames
  <2>8. \A a \in AccountId : AccountAgrees(a) => AccountAgrees(a)'
    BY <1>1, <2>2, <2>6, <2>7, Static
       DEF AccountAgrees, ConfigAgrees, DirAgrees, SecretAgrees, ContainerAgrees
  <2>9. /\ journal.kind = "create" => ~Exists(id)
        /\ Renames(journal) => ~Exists(new)
        /\ journal.kind # "create" => Exists(id)
    BY <2>3, <2>5, Facts DEF OldAccounts, Exists
  <2>10. WorldTypes'
    BY <1>1, <2>7, Facts DEF WorldTypes
  <2>11. OldSecrets'
    BY <1>1, <2>2, <2>3, <2>6, Facts DEF OldSecrets
  <2>12. OthersAgree'
    BY <1>1, <2>2, <2>7, Facts, OthersFrame
  <2>13. OAuthKnown'
    BY <1>1, <2>2, Facts, OAuthFrame
  <2>14. CreateKept' /\ CreateSteps'
    <3> SUFFICES ASSUME journal.kind = "create" PROVE CreateKept' /\ CreateSteps'
      BY <1>1 DEF CreateKept, CreateSteps
    <3>1. configFile'[id] <=> configFile[id]
      BY <2>7, <2>9
    <3> QED
      BY <1>1, <2>2, <2>3, <2>6, <3>1, Facts DEF CreateKept, CreateSteps
  <2>15. UpdateKept'
    <3> SUFFICES ASSUME journal.kind = "update" PROVE UpdateKept'
      BY <1>1 DEF UpdateKept
    <3> QED
      BY <1>1, <2>4, <2>6, <2>7, Facts DEF UpdateKept
  <2>16. UpdateSteps'
    <3> SUFFICES ASSUME journal.kind = "update" PROVE UpdateSteps'
      BY <1>1 DEF UpdateSteps
    <3>1. /\ configFile[id] => configFile'[id]
          /\ Undid("render")' => configFile'[id]
          /\ Renames(journal) => (configFile'[new] <=> configFile[new])
      BY <2>7, <2>9
    <3>2. \A a \in AccountId : SecretAgrees(a) => SecretAgrees(a)'
      BY <1>1, <2>6 DEF SecretAgrees
    <3> QED
      BY <1>1, <2>2, <2>3, <2>6, <2>7, <2>8, <3>1, <3>2, Facts DEF UpdateSteps
  <2>17. DeleteKept' /\ DeleteSteps'
    <3> SUFFICES ASSUME journal.kind = "delete" PROVE DeleteKept' /\ DeleteSteps'
      BY <1>1 DEF DeleteKept, DeleteSteps
    <3>1. SecretAgrees(id) => SecretAgrees(id)'
      BY <1>1, <2>6 DEF SecretAgrees
    <3>2. DeleteKept'
      BY <1>1, <2>6, <2>7, <2>8, Facts DEF DeleteKept
    <3>3. DeleteSteps'
      BY <1>1, <2>2, <2>3, <2>6, <2>7, <3>1, Facts DEF DeleteSteps
    <3> QED
      BY <3>2, <3>3
  <2>18. PolicyKept'
    BY <1>1, <2>7, <2>8, Facts DEF PolicyKept
  <2>19. RemovedUnpublished'
    BY <1>1, <2>6, Facts DEF RemovedUnpublished
  <2> QED
    BY <1>1, <2>1, <2>3, <2>4, <2>10, <2>11, <2>12, <2>13, <2>14, <2>15, <2>16, <2>17, <2>18, <2>19,
       OtherKinds, Together
<1> QED
  BY <1>1, <1>2, <1>3 DEF RestoreProjection

(* RestoreSnapshot keeps the invariant. *)
LEMMA RestoreSnapshotKeeps ==
    ASSUME SagaInv, RestoreSnapshot
    PROVE  SagaInv'
<1>1. Back("publish") /\ UNCHANGED <<row, secret, userRoute, homeOf, oauthDir, configFile, backup,
                                     archived, container, journal>>
  BY DEF RestoreSnapshot, recordVars, fileVars
<1>2. /\ Busy /\ Underway /\ Known /\ OperationKnown /\ SagaKnown /\ SagaShape /\ PastTypes
      /\ SagaBase /\ Facets /\ saga.op.moved = journal.moved
  BY <1>1, Facts, BackwardKnown, OpOfSaga DEF Known
<1>3. CASE Stuck("publish") /\ published' = published
  BY <1>1, <1>3, StuckKeeps DEF WorldSame, recordVars, fileVars
<1>4. CASE published' = Current /\ (Undone("publish") \/ Stuck("publish"))
  <2>1. PastTypes' /\ Bounds
    <3>1. CASE Undone("publish")
      BY <1>2, <3>1 DEF Undone, PastTypes, PastShape, Bounds
    <3>2. CASE Stuck("publish")
      BY <1>2, <3>2, FaultFields DEF Stuck
    <3> QED
      BY <1>4, <3>1, <3>2
  <2>2. Undone("publish") \/ Keeps("publish")
    BY <1>4 DEF Stuck
  <2>3. SagaKnown'
    BY <1>1, <1>2, <2>2, GoesBack, GoesBackDirty
  <2>4. Onwards({"move", "control", "home"}) /\ Onwards({"plan", "control"}) /\ Onwards(FacetSteps)
        /\ Behind'
    <3>1. CASE Undone("publish")
      BY <1>1, <1>2, <3>1, UndoneOnwards DEF FacetSteps
    <3>2. CASE Keeps("publish")
      BY <1>1, <1>2, <3>2, KeepsOnwards DEF FacetSteps
    <3> QED
      BY <2>2, <3>1, <3>2
  <2>5. Recoveries({"home"}) /\ Recoveries(RepairFacets)
    BY <2>4, ElseRecoveries DEF Behind
  <2>6. Due("files") => Due("files")'
    <3>1. CASE Undone("publish")
      BY <1>2, <3>1, UndoneFields DEF Due
    <3>2. CASE Keeps("publish")
      <4>1. "files" \notin DependOn("publish")
        BY DEF DependOn
      <4>2. saga'.todo = saga.todo \ ({"publish"} \cup DependOn("publish"))
        BY <1>2, <3>2, KeepsFields
      <4> QED
        BY <4>1, <4>2 DEF Due
    <3> QED
      BY <2>2, <3>1, <3>2
  <2>7. OperationKnown'
    BY <1>1, <1>2, OperationFrame
  <2>8. RowRecords'
    BY <1>1, <2>1, <2>4, RowRecordsFrame DEF Bounds
  <2>9. Facets'
    BY <1>1, <1>2, <2>1, <2>4, <2>5, <2>6, FacetsFrame DEF FacetsSame, SameOperation, Bounds
  <2> QED
    BY <1>1, <1>4, <2>1, <2>3, <2>4, <2>5, <2>7, <2>8, <2>9, AnewKeeps DEF Bounds
<1>5. CASE Unmoved /\ Undone("publish") /\ UNCHANGED published
  <2>1. journal.kind = "clear" /\ journal.moved = {}
    BY <1>2, <1>5 DEF Unmoved, Known
  <2>2. ~Did("control")
    BY <1>2, <2>1, KindOfStep DEF SagaKnown, ForwardKnown, BackKnown, Did, Known, Busy, Ahead, Behind
  <2>3. published = Current
    BY <1>2, <2>1, <2>2, Facts DEF PublishedCurrent, Moving
  <2> QED
    BY <1>4, <1>5, <2>3
<1> QED
  BY <1>1, <1>3, <1>4, <1>5 DEF RestoreSnapshot, MayPublish, PublishAuthSnapshot

(* The evacuated users are sent back to the account. *)
LEMMA RestoreRoutesKeeps ==
    ASSUME SagaInv, RestoreRoutes
    PROVE  SagaInv'
<1> DEFINE id == journal.id
           target == IF "unusable" \in saga.did THEN journal.to ELSE id
<1>1. Back("home") /\ UNCHANGED <<row, secret, homeOf, oauthDir, configFile, backup, archived,
                                  container, published, journal>>
  BY DEF RestoreRoutes, routesFrame, fileVars
<1>2. /\ Busy /\ Behind /\ ~Ahead /\ Underway /\ Known /\ OperationKnown /\ SagaKnown /\ SagaShape
      /\ PastTypes /\ SagaBase /\ Facets
      /\ saga.op.moved = journal.moved /\ saga.op.to = journal.to
      /\ "home" \in Undo(journal.kind, saga.did) /\ Due("home")
      /\ ~saga.dirty => (\A t \in Undo(journal.kind, saga.did) :
                            Backward[t] > Backward["home"] => t \in saga.todo)
      /\ ~saga.dirty => "unusable" \notin saga.did
      /\ \A s \in saga.did \ {"unusable"}, t \in Plan(journal) :
            Forward[t] <= Forward[s] => t \in saga.did
  <2>1. /\ saga.mode = "back" /\ Busy /\ Underway
        /\ "home" \in Undo(journal.kind, saga.did) /\ "home" \in saga.todo
        /\ ~saga.dirty => (\A t \in Undo(journal.kind, saga.did) :
                              Backward[t] > Backward["home"] => t \in saga.todo)
    BY <1>1, Facts, BackwardKnown
  <2>2. Known /\ saga.op.moved = journal.moved /\ saga.op.to = journal.to
    BY <2>1, Facts, OpOfSaga DEF Known
  <2> QED
    BY <2>1, <2>2, Facts DEF SagaKnown, BackKnown, Behind, Ahead, Due
<1>3. CASE (Stuck("home") \/ Conflicts("home")) /\ UNCHANGED userRoute
  BY <1>1, <1>3, StuckKeeps DEF WorldSame, recordVars, fileVars
<1>4. CASE RestoreTo(saga.op, target) /\ Undone("home")
  <2>1. /\ journal.kind \in {"update", "clear"} /\ Did("move") /\ Did("plan")
        /\ "publish" \in Undo(journal.kind, saga.did)
    <3>1. /\ journal.kind \in {"update", "clear"} /\ (Did("note") \/ Did("move"))
          /\ "publish" \in Undo(journal.kind, saga.did)
      <4>1. CASE journal.kind = "update"
        BY <1>2, <4>1 DEF Undo, Did
      <4>2. CASE journal.kind = "clear"
        BY <1>2, <4>2 DEF Undo, Did
      <4>3. journal.kind \notin {"create", "delete"}
        BY <1>2 DEF Undo
      <4>4. journal.kind # "policy"
        BY <1>2 DEF Undo, PolicyChange
      <4> QED
        BY <1>2, <4>1, <4>2, <4>3, <4>4 DEF Known
    <3> QED
      BY <1>2, <3>1, KindOfStep, ForwardRanks DEF Did, Known
  <2>2. journal.phase # "accepted" /\ Moving
    BY <1>2, <2>1, PhaseKnown DEF Moving
  <2>3. ~Due("control")
    BY <1>1, BackwardRanks DEF Back, IsNext, Due
  <2>4. OldRows = row /\ ~Applied
    <3>1. Did("control") => row = saga.old.row
      BY <1>2, <2>3, Facts DEF OldRowsKnown, Applied, Due
    <3> QED
      BY <1>2, <2>3, <3>1 DEF OldRows, Applied
  <2>5. /\ Exists(id) /\ (Renames(journal) => ~Exists(journal.new) /\ journal.new # id)
        /\ Desired(journal) = id
    <3>1. Exists(id) /\ (Renames(journal) => ~Exists(journal.new) /\ journal.new # id)
      BY <1>2, <2>1, <2>4, Facts DEF OldAccounts, Exists, Renames
    <3>2. journal.new = id \/ ~(journal.kind = "update" /\ Exists(journal.new))
      BY <3>1 DEF Renames
    <3> QED
      BY <2>1, <3>1, <3>2 DEF Desired
  <2>6. /\ saga'.mode = saga.mode /\ saga'.ask = saga.ask /\ saga'.old = saga.old
        /\ saga'.did = saga.did /\ past' = past
        /\ saga'.todo = saga.todo \ {"home"} /\ saga'.dirty = saga.dirty
    BY <1>2, <1>4, UndoneFields DEF SameSaga
  <2>7. /\ Busy' /\ Behind' /\ ~Ahead' /\ saga'.mode # "recover" /\ \A s : ~Done(s)'
        /\ \A s : Did(s)' <=> Did(s)
        /\ \A s : Due(s)' <=> Due(s) /\ s # "home"
        /\ \A s : Undid(s)' => Undid(s) \/ (s = "home" /\ ~saga.dirty)
        /\ Undid("home")' => ~saga.dirty
        /\ ~Undid("publish")'
        /\ OldRows' = OldRows
    <3>1. /\ Busy' /\ Behind' /\ ~Ahead' /\ saga'.mode # "recover" /\ \A s : ~Done(s)'
          /\ \A s : Did(s)' <=> Did(s)
          /\ \A s : Due(s)' <=> Due(s) /\ s # "home"
      BY <1>2, <2>6 DEF Busy, Behind, Ahead, Done, Did, Due
    <3>2. \A s : Undid(s)' => /\ ~saga.dirty
                              /\ Undid(s) \/ s = "home"
      BY <1>1, <1>2, <2>6, <3>1 DEF Undid, Undoes
    <3>3. ~Undid("publish")'
      <4>1. ~saga.dirty => Due("publish")'
        BY <1>2, <2>1, <3>1, BackwardRanks DEF Due
      <4> QED
        BY <3>2, <4>1 DEF Undid, Undoes
    <3>4. OldRows' = OldRows
      BY <1>1, <2>6, <3>1 DEF OldRows
    <3> QED
      BY <3>1, <3>2, <3>3, <3>4
  <2>8. PastTypes' /\ Grown /\ past'.cut = past.cut
    BY <1>2, <2>6 DEF PastTypes, PastShape, Grown
  <2>9. SagaKnown' /\ OperationKnown'
    BY <1>1, <1>2, <1>4, GoesBack, OperationFrame
  <2>10. Onwards({"plan", "control"}) /\ Onwards(FacetSteps)
    BY <1>1, <1>2, <1>4, UndoneOnwards DEF FacetSteps
  <2>11. Recoveries(RepairFacets)
    BY <2>7, ElseRecoveries
  <2>12. RowRecords'
    BY <1>1, <2>8, <2>10, RowRecordsFrame DEF Grown
  <2>13. Facets'
    BY <1>1, <1>2, <2>7, <2>8, <2>10, <2>11, FacetsFrame DEF FacetsSame, SameOperation, Grown
  <2>14. /\ (\A a : Exists(a)' <=> Exists(a)) /\ Touched' = Touched /\ Calm' = Calm
         /\ Desired(journal)' = Desired(journal) /\ (Renames(journal)' <=> Renames(journal))
    BY <1>1, <2>8, Static
  <2>15. /\ userRoute \in [Evacuee -> AccountId] /\ journal.moved \subseteq Evacuee
         /\ journal.moved # {} => journal.to \in AccountId \ Touched /\ target \in AccountId
         /\ id \in Touched /\ (Renames(journal) => journal.new \in Touched)
    BY <1>2, Facts, MovedUsers DEF WorldTypes, OperationKnown, Known, Touched
  <2>16. userRoute' = [u \in Evacuee |-> IF u \in journal.moved THEN target ELSE userRoute[u]]
    BY <1>2, <1>4 DEF RestoreTo
  <2>17. /\ userRoute' \in [Evacuee -> AccountId]
         /\ \A u \in Evacuee : u \in journal.moved =>
               userRoute'[u] \in {id, journal.to} /\ (~saga.dirty => userRoute'[u] = id)
         /\ \A u \in Evacuee : u \notin journal.moved => userRoute'[u] = userRoute[u]
         /\ journal.moved = {} => userRoute' = userRoute
    BY <1>2, <2>15, <2>16
  <2> HIDE DEF target
  <2>18. \A u \in Calm : /\ u \in Evacuee
                         /\ u \in journal.moved => row[id].enabled /\ homeOf[u] = row[id].born
    BY <1>2, <2>2, <2>4, <2>5, Facts DEF Calm, RoutesMoved, UsersKnown
  <2>19. WorldTypes'
    BY <1>1, <2>17, Facts DEF WorldTypes
  <2>20. \A u \in Calm : u \notin journal.moved => Home(u)'
    BY <1>1, <2>14, <2>17, <2>18, Facts DEF UsersKnown, Home
  <2>21. UsersKnown'
    <3> SUFFICES ASSUME NEW u \in Calm
                 PROVE  /\ u \notin journal.moved => userRoute'[u] \notin Touched
                        /\ u \in journal.moved => userRoute'[u] \in Touched \cup {journal.to}
      BY <1>1, <2>1, <2>2, <2>5, <2>14, <2>18, <2>20 DEF UsersKnown, Moving
    <3>1. u \notin journal.moved => userRoute'[u] \notin Touched
      BY <2>2, <2>17, <2>18, Facts DEF UsersKnown
    <3> QED
      BY <3>1, <2>15, <2>17, <2>18
  <2>22. OldUsers' /\ RoutesRecovered'
    BY <2>3, <2>7 DEF OldUsers, Applied, RoutesRecovered
  <2>23. RoutesMoved'
    <3> SUFFICES ASSUME NEW u \in Calm
                 PROVE  /\ u \in journal.moved => OldRows[id].enabled
                        /\ Renames(journal) /\ ~Did("home") => userRoute'[u] # journal.new
                        /\ ~saga.dirty => Home(u)'
      BY <1>1, <2>1, <2>7, <2>14 DEF RoutesMoved
    <3>1. Renames(journal) /\ ~Did("home") => userRoute'[u] # journal.new
      <4>1. Renames(journal) /\ ~Did("home") => userRoute[u] # journal.new
        BY <1>2, <2>2, Facts DEF RoutesMoved
      <4> QED
        BY <4>1, <2>5, <2>15, <2>17, <2>18
    <3>2. ~saga.dirty => Home(u)'
      BY <1>1, <2>5, <2>14, <2>17, <2>18, <2>20 DEF Home
    <3> QED
      BY <3>1, <3>2, <2>4, <2>18
  <2>24. PublishedKnown'
    BY <1>1, <1>2, <2>7, <2>14, Facts DEF PublishedKnown
  <2>25. PublishedCurrent'
    <3> SUFFICES ASSUME journal.moved = {}, ~Did("control") PROVE published' = Current'
      BY <1>1, <1>2, <2>1, <2>2, <2>7 DEF PublishedCurrent, Underway
    <3>1. published = Current
      BY <1>2, <2>2, Facts DEF PublishedCurrent
    <3> QED
      BY <3>1, <1>1, <2>17 DEF Current
  <2>26. RemovedUnpublished'
    BY <1>1, <2>1 DEF RemovedUnpublished
  <2> QED
    BY <2>8, <2>9, <2>12, <2>13, <2>19, <2>21, <2>22, <2>23, <2>24, <2>25, <2>26, AllRecords, Joined
<1>5. \/ (Stuck("home") \/ Conflicts("home")) /\ UNCHANGED userRoute
      \/ RestoreTo(saga.op, target) /\ Undone("home")
  BY <1>2 DEF RestoreRoutes, Known
<1> QED
  BY <1>3, <1>4, <1>5

(* The records are as they were. *)
LEMMA RestoreRecordsKeeps ==
    ASSUME SagaInv, RestoreRecords
    PROVE  SagaInv'
<1> DEFINE id == journal.id
           new == journal.new
           old == saga.old
           changed == {u \in Evacuee : old.routeAfter[u] # old.route[u]}
           conflict == \/ \E u \in changed : userRoute[u] # old.routeAfter[u]
                       \/ journal.kind = "create" /\ (\E u \in Evacuee : userRoute[u] = id)
<1>1. Back("control") /\ UNCHANGED <<secret, oauthDir, configFile, backup, archived, container,
                                     published, journal>>
  BY DEF RestoreRecords, fileVars
<1>2. /\ Busy /\ Behind /\ ~Ahead /\ Underway /\ Known /\ OperationKnown /\ SagaKnown /\ SagaShape
      /\ PastTypes /\ SagaBase
      /\ "control" \in Undo(journal.kind, saga.did) /\ Due("control")
      /\ ~saga.dirty => (\A t \in Undo(journal.kind, saga.did) :
                            Backward[t] > Backward["control"] => t \in saga.todo)
      /\ \A s \in saga.did \ {"unusable"}, t \in Plan(journal) :
            Forward[t] <= Forward[s] => t \in saga.did
      /\ saga.did \subseteq Plan(journal) \cup {"unusable"}
  <2>1. /\ saga.mode = "back" /\ Busy /\ Underway
        /\ "control" \in Undo(journal.kind, saga.did) /\ "control" \in saga.todo
        /\ ~saga.dirty => (\A t \in Undo(journal.kind, saga.did) :
                              Backward[t] > Backward["control"] => t \in saga.todo)
    BY <1>1, Facts, BackwardKnown
  <2>2. Known
    BY <2>1, Facts, OpOfSaga DEF Known
  <2> QED
    BY <2>1, <2>2, Facts DEF SagaKnown, BackKnown, Behind, Ahead, Due
<1>3. \/ ~Did("control") /\ Undone("control") /\ UNCHANGED <<row, userRoute, homeOf>>
      \/ (Stuck("control") \/ Conflicts("control")) /\ UNCHANGED <<row, userRoute, homeOf>>
      \/ /\ Did("control") /\ Undone("control") /\ row' = old.row /\ ~conflict
         /\ userRoute' = [u \in Evacuee |-> IF u \in changed THEN old.route[u] ELSE userRoute[u]]
         /\ homeOf' = [u \in Evacuee |-> IF homeOf[u] = old.homeAfter[u] THEN old.home[u]
                                                                         ELSE homeOf[u]]
  BY <1>2, Zenon DEF RestoreRecords, Known, Did
<1>4. CASE ~Did("control") /\ Undone("control") /\ UNCHANGED <<row, userRoute, homeOf>>
  BY <1>1, <1>4, UndoneKeeps DEF WorldSame, recordVars, fileVars
<1>5. CASE (Stuck("control") \/ Conflicts("control")) /\ UNCHANGED <<row, userRoute, homeOf>>
  BY <1>1, <1>5, StuckKeeps DEF WorldSame, recordVars, fileVars
<1>6. CASE /\ Did("control") /\ Undone("control") /\ row' = old.row
           /\ userRoute' = [u \in Evacuee |-> IF u \in changed THEN old.route[u] ELSE userRoute[u]]
           /\ homeOf' = [u \in Evacuee |-> IF homeOf[u] = old.homeAfter[u] THEN old.home[u]
                                                                           ELSE homeOf[u]]
  <2>1. /\ journal.kind # "clear" /\ Did("control")
        /\ journal.kind # "policy" => Did("note") /\ journal.phase = "begun"
        /\ journal.kind = "update" => Did("files") /\ Did("move") /\ Did("plan")
        /\ journal.kind = "create" => Did("directory")
    <3>1. journal.kind # "clear"
      BY <1>2, <1>6, KindOfStep DEF Did, Known
    <3>2. /\ journal.kind # "policy" => Did("note")
          /\ journal.kind = "update" => Did("files") /\ Did("move") /\ Did("plan")
          /\ journal.kind = "create" => Did("directory")
      BY <1>2, <1>6, <3>1, KindOfStep, ForwardRanks DEF Did, Known
    <3> QED
      BY <1>2, <1>6, <3>1, <3>2, PhaseKnown
  <2>2. ~Due("files")
    BY <1>1, BackwardRanks DEF Back, IsNext, Due
  <2>3. /\ saga'.mode = saga.mode /\ saga'.op = saga.op /\ saga'.ask = saga.ask
        /\ saga'.old = saga.old /\ saga'.did = saga.did /\ past' = past
        /\ saga'.todo = saga.todo \ {"control"} /\ saga'.dirty = saga.dirty
    BY <1>2, <1>6, UndoneFields DEF SameSaga
  <2>4. /\ old.row \in [AccountId -> Account] /\ row = RowsAfter(old.row) /\ Applied
        /\ old.route \in [Evacuee -> AccountId] /\ old.home \in [Evacuee -> Int]
        /\ OldRows = old.row /\ OldRows' = old.row /\ row' = old.row
        /\ (Did("control")' <=> Did("control"))
        /\ old.row[id].born = IF journal.kind = "create" THEN 0 ELSE Bearer
        /\ Bearer \in Int /\ Bearer # 0
    <3>1. Applied /\ OldRows = old.row /\ OldRows' = old.row /\ (Did("control")' <=> Did("control"))
      BY <1>2, <2>1, <2>3 DEF Applied, OldRows, Did
    <3> QED
      BY <1>2, <1>6, <2>1, <3>1, Facts, Bearers DEF OldRowsKnown, OldAccounts, Bearer
  <2>5. /\ \A a \in AccountId \ Touched : row'[a] = row[a]
        /\ \A a \in AccountId \ {id} : journal.kind # "update" => row'[a] = row[a]
        /\ journal.kind = "policy" => /\ row'[id].born = row[id].born
                                      /\ row'[id].proxy = row[id].proxy
        /\ journal.kind = "update" => row[new].born = row'[id].born
        /\ journal.kind = "create" => row[id].born = saga.ask.born
        /\ id \in AccountId /\ (journal.kind = "update" => new \in AccountId)
    BY <1>2, <2>1, <2>4 DEF RowsAfter, Known, Touched, Account, Renames
  <2>6. /\ Bearer' = Bearer /\ Touched' = Touched /\ Calm' = Calm
        /\ (Renames(journal)' <=> Renames(journal)) /\ (Underway' <=> Underway)
    BY <1>1, <2>3, <2>4 DEF Bearer, Touched, Calm, Renames, Underway
  <2>7. /\ \A a \in AccountId \ Touched : Exists(a)' <=> Exists(a)
        /\ Exists(id)' <=> journal.kind # "create"
        /\ Renames(journal) => ~Exists(new)'
        /\ \A a, b \in AccountId : a # b /\ Exists(a)' => row'[a].born # row'[b].born
        /\ \A a \in AccountId : row'[a].born > saga.ask.born
        /\ saga.ask.born = 0 - past.ops /\ past.ops > 0 /\ past.ops \in Nat
        /\ journal.kind = "update" => Desired(journal)' = id
    <3>1. /\ \A a \in AccountId \ Touched : Exists(a)' <=> Exists(a)
          /\ Exists(id)' <=> journal.kind # "create"
          /\ Renames(journal) => ~Exists(new)'
          /\ \A a, b \in AccountId : a # b /\ Exists(a)' => row'[a].born # row'[b].born
          /\ \A a \in AccountId : row'[a].born > saga.ask.born
          /\ saga.ask.born = 0 - past.ops /\ past.ops > 0 /\ past.ops \in Nat
      <4>1. /\ row'[id].born = 0 <=> journal.kind = "create"
            /\ Renames(journal) => row'[new].born = 0
            /\ \A a \in AccountId : row'[a].born > saga.ask.born
            /\ \A a, b \in AccountId : a # b /\ row'[a].born # 0 => row'[a].born # row'[b].born
        BY <1>2, <2>4, Facts DEF OldAccounts
      <4>2. saga.ask.born = 0 - past.ops /\ past.ops > 0 /\ past.ops \in Nat
        BY <1>2, Facts DEF AskKnown, PastTypes
      <4> QED
        BY <1>1, <4>1, <4>2, <2>5 DEF Exists
    <3>2. journal.kind = "update" => Desired(journal)' = id
      BY <1>1, <3>1 DEF Desired, Renames
    <3> QED
      BY <3>1, <3>2
  <2>8. /\ Busy' /\ Behind' /\ ~Ahead' /\ saga'.mode # "recover" /\ \A s : ~Done(s)'
        /\ \A s : Did(s)' <=> Did(s)
        /\ \A s : Due(s)' <=> Due(s) /\ s # "control"
        /\ \A s : s # "control" => (Undid(s)' <=> Undid(s))
        /\ ~Undid("publish")' /\ ~Undid("home")'
        /\ ~Applied'
    <3>1. /\ Busy' /\ Behind' /\ ~Ahead' /\ saga'.mode # "recover" /\ \A s : ~Done(s)'
          /\ \A s : Did(s)' <=> Did(s)
          /\ \A s : Due(s)' <=> Due(s) /\ s # "control"
      BY <1>2, <2>3 DEF Busy, Behind, Ahead, Done, Did, Due
    <3>2. \A s : s # "control" => (Undid(s)' <=> Undid(s))
      BY <1>1, <1>2, <2>3, <3>1 DEF Undid, Undoes
    <3>3. ~Undid("publish")' /\ ~Undid("home")'
      BY <1>2, <3>2, BackwardRanks DEF Undid, Undoes, Due
    <3>4. ~Applied'
      BY <3>1 DEF Applied
    <3> QED
      BY <3>1, <3>2, <3>3, <3>4
  <2>9. PastTypes' /\ Grown /\ past'.cut = past.cut
    BY <1>2, <2>3 DEF PastTypes, PastShape, Grown
  <2>10. SagaKnown'
    BY <1>1, <1>2, <1>6, GoesBack
  <2>11. OperationKnown'
    BY <1>1, <1>2, <2>3, <2>5, <2>6, <2>7 DEF OperationKnown, Moving
  <2>12. \A u \in Calm :
            /\ u \in Evacuee
            /\ homeOf'[u] = old.home[u]
            /\ u \notin journal.moved => userRoute'[u] = old.route[u]
            /\ journal.kind = "update" => userRoute'[u] = userRoute[u]
    <3> SUFFICES ASSUME NEW u \in Calm
                 PROVE  /\ u \in Evacuee
                        /\ homeOf'[u] = old.home[u]
                        /\ u \notin journal.moved => userRoute'[u] = old.route[u]
                        /\ journal.kind = "update" => userRoute'[u] = userRoute[u]
      OBVIOUS
    <3>1. u \in Evacuee /\ homeOf[u] = old.homeAfter[u]
          /\ (u \notin journal.moved => userRoute[u] = old.routeAfter[u])
          /\ (journal.kind = "update" => old.routeAfter[u] = old.route[u])
      BY <1>2, <2>4, Facts DEF OldUsers, Calm
    <3> QED
      BY <1>6, <3>1
  <2>13. \A u \in Calm : u \notin journal.moved => Home(u)'
    <3> SUFFICES ASSUME NEW u \in Calm, u \notin journal.moved PROVE Home(u)'
      OBVIOUS
    <3>1. /\ old.row[old.route[u]].born = old.home[u] /\ old.home[u] # 0
          /\ old.row[old.route[u]].enabled
      BY <1>2, <2>4, Facts DEF OldUsers
    <3> QED
      BY <2>4, <2>12, <3>1 DEF Home, Exists
  <2>14. WorldTypes'
    <3>1. userRoute' \in [Evacuee -> AccountId] /\ homeOf' \in [Evacuee -> Int]
      BY <1>6, <2>4, Facts DEF WorldTypes
    <3> QED
      BY <1>1, <2>4, <3>1, Facts DEF WorldTypes
  <2>15. RowRecords'
    <3>1. AskKnown'
      <4>1. journal.kind = "delete" \/ (journal.kind = "policy" /\ ~saga.ask.enabled) =>
               /\ saga.ask.to \in AccountId \ {id}
               /\ row'[saga.ask.to].born # 0 /\ row'[saga.ask.to].enabled
        BY <1>2, <2>5, Facts DEF AskKnown, Exists
      <4> QED
        BY <1>1, <1>2, <2>3, <2>6, <2>8, <4>1, Facts DEF AskKnown, Exists
    <3>2. OldRowsKnown'
      BY <1>2, <2>3, <2>4, <2>8, Facts DEF OldRowsKnown
    <3>3. OldAccounts'
      BY <1>1, <1>2, <2>3, <2>4, <2>6, Facts DEF OldAccounts
    <3>4. RowsKnown'
      <4>1. \A a \in AccountId : row'[a].born >= 0 - past'.ops
        BY <2>3, <2>4, <2>7 DEF Account
      <4> QED
        BY <1>1, <1>2, <2>1, <2>5, <2>6, <2>7, <4>1 DEF RowsKnown, Renames, Known
    <3> QED
      BY <3>1, <3>2, <3>3, <3>4 DEF RowRecords
  <2>16. UsersKnown'
    <3> SUFFICES ASSUME NEW u \in Calm
                 PROVE  /\ u \notin journal.moved /\ journal.kind = "update" =>
                               userRoute'[u] \notin Touched
                        /\ u \in journal.moved =>
                              LET found == Desired(journal)' IN
                              /\ row'[found].enabled /\ homeOf'[u] = row'[found].born
                              /\ userRoute'[u] \in Touched \cup {journal.to}
                        /\ journal.kind = "create" => userRoute'[u] # id
      BY <1>1, <2>1, <2>6, <2>7, <2>13 DEF UsersKnown, Moving
    <3>1. journal.kind = "update" /\ u \notin journal.moved => userRoute'[u] \notin Touched
      BY <1>2, <2>1, <2>12, Facts DEF UsersKnown, Moving
    <3>2. journal.kind = "create" => u \notin journal.moved
      BY <1>2, Facts DEF OperationKnown, Moving
    <3>3. journal.kind = "create" => userRoute'[u] # id
      BY <1>1, <2>7, <2>13, <3>2 DEF Home, Exists
    <3>4. u \in journal.moved =>
             /\ journal.kind = "update"
             /\ old.home[u] = Bearer /\ old.row[id].enabled
             /\ userRoute[u] \in Touched \cup {journal.to}
      <4>1. u \in journal.moved => journal.kind = "update"
        BY <1>2, <2>1, Facts DEF OperationKnown, Moving
      <4>2. u \in journal.moved => old.home[u] = Bearer /\ old.row[id].enabled
        BY <1>2, <2>4, Facts DEF OldUsers
      <4> QED
        BY <4>1, <4>2, Facts DEF UsersKnown
    <3> QED
      BY <2>4, <2>7, <2>12, <3>1, <3>3, <3>4
  <2>17. OldUsers' /\ RoutesRecovered'
    BY <2>8 DEF OldUsers, RoutesRecovered
  <2>18. RoutesMoved'
    <3> SUFFICES ASSUME journal.kind = "update" PROVE RoutesMoved'
      BY <1>1, <2>1 DEF RoutesMoved, Moving
    <3>1. \A u \in Calm : /\ u \in journal.moved => old.row[id].enabled
                          /\ Did("move") /\ ~Did("home") /\ Due("home") => userRoute[u] \notin Touched
                          /\ Renames(journal) /\ ~Did("home") => userRoute[u] # new
      BY <1>2, <2>4, Facts DEF RoutesMoved, Moving
    <3> QED
      BY <1>1, <2>1, <2>4, <2>6, <2>8, <2>12, <3>1 DEF RoutesMoved
  <2>19. PublishedKnown'
    <3>1. \A u \in Calm : published.route[u] \in AccountId
      BY <2>12, Facts DEF WorldTypes
    <3> QED
      BY <1>1, <1>2, <2>6, <2>7, <2>8, <3>1, Facts DEF PublishedKnown
  <2>20. PublishedCurrent'
    BY <1>1, <1>2, <2>1, <2>6, <2>8 DEF PublishedCurrent, Moving, Known
  <2>21. RemovedUnpublished'
    BY <1>1, <2>7 DEF RemovedUnpublished
  <2>22. /\ \A d, b : (SoundDir(d, b)' <=> SoundDir(d, b)) /\ (Held(b)' <=> Held(b))
         /\ \A a \in AccountId :
               row'[a].born = row[a].born /\ row'[a].proxy = row[a].proxy =>
                  (AccountAgrees(a) => AccountAgrees(a)')
    <3>1. \A d, b : (SoundDir(d, b)' <=> SoundDir(d, b)) /\ (Held(b)' <=> Held(b))
      BY <2>3, SameSound
    <3> QED
      BY <1>1, <3>1 DEF AccountAgrees, DirAgrees, ConfigAgrees, SecretAgrees, ContainerAgrees, Exists
  <2>23. OldSecrets'
    BY <1>1, <1>2, <2>3, <2>4, <2>6, <2>8, Facts DEF OldSecrets
  <2>24. OthersAgree'
    BY <2>5, <2>6, <2>22, Facts DEF OthersAgree
  <2>25. OAuthKnown'
    <3> SUFFICES ASSUME NEW b \in Established \ (archived \cup past.cut)
                 PROVE  b \in past.oauth /\ \E a \in AccountId : row'[a].born = b
      BY <1>1, <2>3 DEF OAuthKnown, Established
    <3>1. PICK a \in AccountId : row[a].born = b
      BY Facts DEF OAuthKnown
    <3>2. b \in past.oauth /\ b > 0 /\ b \in Int
      BY Facts, AccountSagaAssumption DEF OAuthKnown, Established
    <3>3. CASE row'[a].born = row[a].born
      BY <3>1, <3>2, <3>3
    <3>4. CASE row'[a].born # row[a].born
      <4>1. journal.kind = "update" /\ a = new
        <5>1. journal.kind # "create" \/ a # id
          BY <2>5, <2>7, <3>1, <3>2
        <5>2. CASE journal.kind = "update"
          <6>1. a = id => (a = new \/ ~Exists(id))
            BY <1>2, <5>2, <2>4 DEF RowsAfter, Known, Exists, NoAccount
          <6> QED
            BY <2>5, <3>1, <3>2, <3>4, <5>2, <6>1 DEF Touched, Exists
        <5>3. CASE journal.kind = "delete"
          <6>1. ~Exists(id)
            BY <1>2, <5>3, <2>1, <2>4, AfterRecords
          <6> QED
            BY <2>5, <3>1, <3>2, <3>4, <5>3, <6>1 DEF Exists
        <5> QED
          BY <1>2, <2>1, <2>5, <3>4, <5>1, <5>2, <5>3 DEF Known
      <4> QED
        BY <2>5, <3>1, <3>2, <4>1
    <3> QED
      BY <3>3, <3>4
  <2>26. CreateKept' /\ CreateSteps'
    <3> SUFFICES ASSUME journal.kind = "create" PROVE CreateKept' /\ CreateSteps'
      BY <1>1 DEF CreateKept, CreateSteps
    <3>1. CreateKept'
      BY <1>1, <2>1, <2>7, Facts DEF CreateKept
    <3>2. CreateSteps'
      BY <1>1, <1>2, <2>1, <2>3, <2>6, <2>8, Facts DEF CreateSteps
    <3> QED
      BY <3>1, <3>2
  <2>27. UpdateKept'
    <3> SUFFICES ASSUME journal.kind = "update" PROVE UpdateKept'
      BY <1>1 DEF UpdateKept
    <3>1. row[Desired(journal)].born = Bearer /\ row'[id].born = Bearer
      BY <1>2, <2>4, TheBearer
    <3> QED
      BY <1>1, <2>1, <2>6, <2>7, <2>22, <3>1, Facts DEF UpdateKept
  <2>28. UpdateSteps'
    <3> SUFFICES ASSUME journal.kind = "update" PROVE UpdateSteps'
      BY <1>1 DEF UpdateSteps
    <3> QED
      BY <1>1, <1>2, <2>1, <2>3, <2>6, <2>8, <2>22, Facts DEF UpdateSteps
  <2>29. DeleteKept'
    <3> SUFFICES ASSUME journal.kind = "delete" PROVE DeleteKept'
      BY <1>1 DEF DeleteKept
    <3>1. row'[id].born = Bearer
      BY <2>4
    <3> QED
      BY <1>1, <1>2, <2>1, <2>2, <2>22, <3>1, Facts DEF DeleteKept, DeleteSteps
  <2>30. DeleteSteps'
    <3> SUFFICES ASSUME journal.kind = "delete" PROVE DeleteSteps'
      BY <1>1 DEF DeleteSteps
    <3> QED
      BY <1>1, <1>2, <2>1, <2>3, <2>6, <2>8, <2>22, Facts DEF DeleteSteps
  <2>31. PolicyKept'
    BY <1>1, <2>5, <2>22, Facts DEF PolicyKept
  <2>32. Records'
    BY <2>15, <2>16, <2>17, <2>18, <2>19, <2>20, AllRecords
  <2> QED
    BY <1>1, <2>1, <2>8, <2>9, <2>10, <2>11, <2>14, <2>21, <2>23, <2>24, <2>25, <2>26, <2>27, <2>28,
       <2>29, <2>30, <2>31, <2>32, OtherKinds, Together
<1> QED
  BY <1>3, <1>4, <1>5, <1>6

---------------------------------------------------------------------------
(* Recovery.                                                               *)

(* AdminStart keeps the invariant: the recovery begins with what the *)
(* journal says.                                                     *)
LEMMA AdminStartKeeps ==
    ASSUME SagaInv, AdminStart
    PROVE  SagaInv'
<1>1. WorldSame /\ past' = past
  BY DEF AdminStart, operationFrame, WorldSame
<1>2. Underway /\ OperationKnown /\ SagaKnown /\ PastTypes
  BY Facts DEF AdminStart, OperationKnown, Underway
<1>3. saga' = [AtRestNow EXCEPT !.mode = "recover", !.op = journal, !.todo = Recovery(journal)]
  BY <1>2 DEF AdminStart, Underway
<1>4. /\ SagaShape' /\ saga'.mode = "recover" /\ saga'.op = journal /\ saga'.dirty = FALSE
      /\ saga'.todo = Recovery(journal)
  BY <1>3 DEF AtRestNow, SagaShape
<1>5. journal' = journal /\ row' = row /\ Recovery(journal)' = Recovery(journal)
  BY <1>1, WorldFields, SameRows
<1>6. ~Busy' /\ ~Behind' /\ ~Ahead' /\ \A s : ~Done(s)'
  BY <1>4, <1>5 DEF Busy, Behind, Ahead, Done, Due
<1>7. SagaKnown'
  <2>1. RecoverKnown'
    BY <1>3, <1>4, <1>5 DEF RecoverKnown
  <2> QED
    BY <1>4, <1>6, <2>1 DEF SagaKnown, ForwardKnown, BackKnown
<1>8. PastTypes' /\ Bounds
  BY <1>1, <1>2 DEF PastTypes, PastShape, Bounds
<1>9. Onwards(RecordSteps) /\ Onwards(FacetSteps)
  BY <1>6, ElseOnwards
<1>10. Recoveries({"home", "publish"}) /\ Recoveries(RepairFacets)
  BY <1>6 DEF Recoveries
<1> QED
  BY <1>1, <1>2, <1>6, <1>7, <1>8, <1>9, <1>10, WorldFrame

(* What is recovered had begun, unless nothing but the routes moved. *)
LEMMA RecoveryBegun ==
    ASSUME SagaInv, saga.mode = "recover"
    PROVE  /\ Underway /\ Known /\ ~Busy /\ ~Behind /\ ~Ahead
           /\ saga.op = journal /\ saga.todo \subseteq Recovery(journal)
           /\ "secret" \in Recovery(journal) => journal.phase = "begun" /\ journal.kind # "policy"
           /\ "files" \in Recovery(journal) =>
                 /\ journal.phase = "begun" /\ journal.kind # "policy" /\ Desired(journal) # 0
                 /\ Recovery(journal) =
                       {"secret", "files", "render", "container", "home", "publish"}
           /\ "container" \in Recovery(journal) <=> "files" \in Recovery(journal)
           /\ "removal" \in Recovery(journal) =>
                 /\ journal.phase = "begun" /\ Desired(journal) = 0
                 /\ journal.kind \in {"create", "delete"}
                 /\ Recovery(journal) \in {{"secret", "render", "publish", "removal", "discard"},
                                           RemovalFinished}
           /\ "drain" \in Recovery(journal) => "removal" \in Recovery(journal)
           /\ "discard" \in Recovery(journal) => Desired(journal) = 0
                                                 /\ journal.kind \in {"create", "delete"}
           /\ journal.kind \in {"update", "clear", "policy"} => Desired(journal) # 0
           /\ journal.kind # "update" => Desired(journal) = (IF Exists(journal.id) THEN journal.id ELSE 0)
           /\ Desired(journal) \in {0, journal.id, journal.new}
           /\ Desired(journal) # 0 => Exists(Desired(journal)) /\ Desired(journal) \in AccountId
<1>1. /\ Underway /\ Known /\ saga.op = journal /\ saga.todo \subseteq Recovery(journal)
      /\ OperationKnown /\ RowsKnown /\ ~Busy /\ ~Behind /\ ~Ahead
  <2>1. Underway /\ Known
    BY Facts, OpOfSaga DEF Known
  <2>2. RecoverKnown /\ SagaKnown /\ OperationKnown /\ RowsKnown
    BY Facts DEF SagaKnown
  <2>3. saga.op = journal /\ saga.todo \subseteq Recovery(journal)
    BY <2>2 DEF RecoverKnown, AtRestNow
  <2> QED
    BY <2>1, <2>2, <2>3 DEF Busy, Behind, Ahead
<1>2. /\ journal.kind # "update" => Desired(journal) = (IF Exists(journal.id) THEN journal.id ELSE 0)
      /\ Desired(journal) \in {0, journal.id, journal.new}
      /\ Desired(journal) # 0 => Exists(Desired(journal)) /\ Desired(journal) \in AccountId
      /\ journal.kind \in {"update", "clear", "policy"} => Desired(journal) # 0
  BY <1>1, Begun DEF Desired, Known, RowsKnown, OperationKnown
<1>3. journal.phase # "begun" /\ journal.kind # "policy" =>
         Desired(journal) = (IF journal.kind = "create" THEN 0 ELSE journal.id)
  BY <1>1, <1>2 DEF Known, RowsKnown, OperationKnown, Desired, Renames, Moving
<1>4. journal.phase # "begun" =>
         Recovery(journal) \in {{"render", "publish"}, RoutesReturned, {"discard"}, {}}
         /\ ("discard" \in Recovery(journal) => journal.kind = "create")
  BY <1>1, <1>3 DEF Recovery, OperationKnown, Moving, RoutesReturned
<1>5. journal.kind = "policy" => Recovery(journal) = {"render", "publish"}
  BY DEF Recovery
<1>6. journal.phase = "begun" /\ journal.kind # "policy" =>
         Recovery(journal) =
            (IF Desired(journal) = 0 /\ journal.kind = "create"
             THEN {"secret", "render", "publish", "removal", "discard"}
             ELSE IF Desired(journal) = 0 /\ journal.kind = "delete" THEN RemovalFinished
             ELSE {"secret", "files", "render", "container", "home", "publish"})
  BY <1>1 DEF Recovery, Known
<1> QED
  BY <1>1, <1>2, <1>3, <1>4, <1>5, <1>6 DEF RemovalFinished, RoutesReturned, Known

(* What a step of the recovery leaves alone. *)
Repaired(step) ==
    /\ Grown /\ ~Busy' /\ saga'.mode = "recover"
    /\ \A s : Done(s)' <=> Done(s) \/ s = step
    /\ journal' = journal /\ row' = row

(* A step of a recovery that leaves records, users and snapshot. *)
LEMMA StepRepaired ==
    ASSUME SagaInv, NEW step, step \notin {"home", "publish"}, Recovering(step), Repairing(step),
           StillThere, Grown
    PROVE  OperationKnown' /\ SagaKnown' /\ Records' /\ Repaired(step)
<1>1. OperationKnown /\ SagaKnown /\ PastTypes /\ SagaShape /\ Records
  BY DEF SagaInv, SagaBase, SagaKnown
<1>2. /\ journal' = journal /\ row' = row /\ Underway /\ saga.mode = "recover"
      /\ step \in Recovery(journal) /\ step \in saga.todo
  BY <1>1, RecoveringKnown DEF StillThere
<1>3. Recovery(journal)' = Recovery(journal) /\ \A op : Recovery(op)' = Recovery(op)
  BY <1>2, SameRows DEF Recovery
<1>4. SagaKnown'
  BY <1>1, <1>2, <1>3, Recovers
<1>5. /\ saga'.mode = saga.mode /\ saga'.todo = saga.todo \ {step}
  BY <1>1, RecoveredFields DEF SameSaga
<1>6. Recoveries({"home", "publish"}) /\ ~Busy'
  BY <1>1, <1>2, RecoveredOnwards
<1>7. Onwards(RecordSteps)
  BY <1>6, ElseOnwards
<1>9. OperationKnown'
  BY <1>1, <1>2, OperationFrame
<1>10. Records'
  BY <1>1, <1>2, <1>5, <1>6, <1>7, RecordsFrame, JournalKept DEF RecordsSame, StillThere, Grown
<1>11. \A s : Done(s)' <=> Done(s) \/ s = step
  BY <1>2, <1>3, <1>5 DEF Done, Due
<1> QED
  BY <1>2, <1>4, <1>5, <1>6, <1>9, <1>10, <1>11 DEF Repaired

(* Which steps of the recovery are done. *)
LEMMA DoneBefore ==
    ASSUME SagaInv, NEW step, Recovering(step)
    PROVE  /\ saga.mode = "recover" /\ step \in Recovery(journal)
           /\ \A t \in RepairSteps : Done(t) <=> t \in Recovery(journal) /\ Repair[t] < Repair[step]
           /\ \A t : t \notin Recovery(journal) => ~Done(t)
<1>1. /\ saga.mode = "recover" /\ step \in Recovery(journal) /\ step \in saga.todo
      /\ \A t \in Recovery(journal) : /\ Repair[t] < Repair[step] => t \notin saga.todo
                                      /\ Repair[t] > Repair[step] => t \in saga.todo
  BY Facts, RecoveringKnown
<1>2. step \in RepairSteps
  BY <1>1, RepairPlan
<1>3. \A t \in RepairSteps : \/ t = step \/ Repair[t] < Repair[step] \/ Repair[t] > Repair[step]
  BY <1>2, RepairOrder
<1>4. \A t \in RepairSteps : ~(Repair[t] < Repair[step] /\ Repair[t] > Repair[step])
                             /\ ~(Repair[step] < Repair[step])
  BY <1>2, RepairOrder
<1> QED
  BY <1>1, <1>2, <1>3, <1>4 DEF Done, Due

(* A step of the recovery that ends here or goes down: what is left to say. *)
LEMMA RepairTogether ==
    ASSUME SagaInv, PastTypes', OperationKnown', SagaKnown', Records', WorldTypes', ~Busy', Grown,
           row' = row, journal' = journal, archived' = archived,
           \A a \in AccountId \ Touched :
               /\ oauthDir'[a] = oauthDir[a] /\ secret'[a] = secret[a]
               /\ (configFile'[a] <=> configFile[a]) \/ (configFile'[a] <=> (configFile[a] \/ Exists(a)))
               /\ container'[a] = "none" <=> container[a] = "none",
           CreateKept', UpdateKept', DeleteKept', ClearKept', PolicyKept', RecoverySteps',
           RemovedUnpublished'
    PROVE  SagaInv'
<1>1. OthersAgree' /\ OAuthKnown'
  BY Facts, OthersFrame, OAuthFrame
<1> QED
  BY <1>1, OtherKinds, Together

(* What each facet of the records says, if the files and containers of the *)
(* operation stay or become what recovery wants them to be.                *)
LEMMA Repairs ==
    ASSUME SagaInv, saga.mode = "recover", row' = row, journal' = journal, Grown
    PROVE  /\ (\A a : Exists(a)' <=> Exists(a)) /\ Touched' = Touched /\ Calm' = Calm
           /\ Desired(journal)' = Desired(journal) /\ (Renames(journal)' <=> Renames(journal))
           /\ Sounder
           /\ Underway /\ Known /\ saga.op = journal
           /\ Desired(journal) \in {0, journal.id, journal.new}
           /\ journal.kind # "update" => Desired(journal) = (IF Exists(journal.id) THEN journal.id ELSE 0)
  BY Static, RecoveryBegun

(* RecoverSecrets keeps the invariant, between the two writes that give a *)
(* secret its new name too.                                               *)
LEMMA RecoverSecretsKeeps ==
    ASSUME SagaInv, RecoverSecrets
    PROVE  SagaInv'
<1> DEFINE id == journal.id
           new == journal.new
           found == Desired(journal)
           re == Renames(journal)
           other == IF found = new THEN id ELSE new
           drop(a) == secret' = [secret EXCEPT ![a] = 0] /\ Recovered("secret")
           require == IF row[found].proxy = "custom" /\ secret[found] = 0
                      THEN CannotRecover /\ UNCHANGED secret
                      ELSE Recovered("secret") /\ UNCHANGED secret
<1>1. /\ Recovering("secret") /\ saga.mode = "recover"
      /\ UNCHANGED <<row, userRoute, homeOf, oauthDir, configFile, backup, archived, container,
                     published, journal>>
  BY DEF RecoverSecrets, fileVars, Recovering
<1>2. /\ Underway /\ Known /\ saga.op = journal /\ "secret" \in Recovery(journal)
      /\ journal.phase = "begun" /\ journal.kind # "policy"
      /\ \A s : ~Done(s)
      /\ found \in {0, id, new}
      /\ journal.kind \in {"update", "clear"} => found # 0
      /\ journal.kind # "update" => found = (IF Exists(id) THEN id ELSE 0)
      /\ found # 0 => found \in AccountId /\ Exists(found)
  <2>1. \A t : ~Done(t)
    BY <1>1, DoneBefore, RepairRanks, RepairPlan DEF RepairSteps
  <2> QED
    BY <1>1, <2>1, DoneBefore, RecoveryBegun
<1>3. ASSUME (Stops \/ CannotRecover) /\ UNCHANGED secret PROVE SagaInv'
  BY <1>1, <1>3, StopsKeeps DEF WorldSame, recordVars, fileVars
<1>4. ASSUME OperationKnown', SagaKnown', Records', PastTypes', ~Busy', Grown,
             saga'.mode = "recover", NEW done \in BOOLEAN,
             \A s : Done(s)' => s = "secret" /\ done,
             secret' \in [AccountId -> Int],
             \A a \in AccountId \ Touched : secret'[a] = secret[a],
             journal.kind = "clear" => secret' = secret,
             \A b : secret[id] \in {0, b} /\ (re => secret[new] \in {0, b})
                    => secret'[id] \in {0, b} /\ (re => secret'[new] \in {0, b}),
             done /\ found = 0 => secret'[id] = 0,
             done /\ re => secret'[other] = 0
      PROVE  SagaInv'
  <2>1. /\ (\A a : Exists(a)' <=> Exists(a)) /\ Touched' = Touched /\ Calm' = Calm
        /\ Desired(journal)' = Desired(journal) /\ (Renames(journal)' <=> Renames(journal))
        /\ Sounder
    BY <1>1, <1>4, Repairs
  <2>2. id \in Touched \cap AccountId
    BY <1>2 DEF Touched, Known
  <2>3. WorldTypes'
    BY <1>1, <1>4, Facts DEF WorldTypes
  <2>4. CreateKept'
    BY <1>1, <1>2, <1>4, <2>1, <2>2, Facts DEF CreateKept, Renames, Grown
  <2>5. UpdateKept'
    <3> SUFFICES ASSUME journal.kind = "update" PROVE UpdateKept'
      BY <1>1 DEF UpdateKept
    <3>1. ~re => new = id
      BY DEF Renames
    <3> QED
      BY <1>1, <1>2, <1>4, <2>1, <2>2, <3>1, Facts DEF UpdateKept, Sounder
  <2>6. DeleteKept'
    <3> SUFFICES ASSUME journal.kind = "delete" PROVE DeleteKept'
      BY <1>1 DEF DeleteKept
    <3> QED
      BY <1>1, <1>2, <1>4, <2>1, <2>2, Facts DEF DeleteKept, Renames, Sounder
  <2>7. ClearKept'
    <3> SUFFICES ASSUME journal.kind = "clear" PROVE ClearKept'
      BY <1>1 DEF ClearKept
    <3> QED
      BY <1>1, <1>2, <1>4, <2>1, Facts
         DEF ClearKept, Sounder, ConfigAgrees, SecretAgrees, DirAgrees
  <2>8. PolicyKept'
    BY <1>1, <1>2 DEF PolicyKept
  <2>9. RecoverySteps'
    BY <1>1, <1>4, <2>1 DEF RecoverySteps
  <2>10. RemovedUnpublished'
    BY <1>1, <2>1, Facts DEF RemovedUnpublished
  <2> QED
    BY <1>1, <1>4, <2>3, <2>4, <2>5, <2>6, <2>7, <2>8, <2>9, <2>10, RepairTogether
<1>5. ASSUME Recovered("secret"), secret' \in [AccountId -> Int],
             \A a \in AccountId \ Touched : secret'[a] = secret[a],
             journal.kind = "clear" => secret' = secret,
             \A b : secret[id] \in {0, b} /\ (re => secret[new] \in {0, b})
                    => secret'[id] \in {0, b} /\ (re => secret'[new] \in {0, b}),
             found = 0 => secret'[id] = 0,
             re => secret'[other] = 0
      PROVE  SagaInv'
  <2>1. PastTypes' /\ Grown /\ Repairing("secret")
    BY <1>5, Facts DEF Recovered, Repairing, PastTypes, PastShape, Grown
  <2>2. OperationKnown' /\ SagaKnown' /\ Records' /\ Repaired("secret")
    BY <1>1, <2>1, StepRepaired DEF StillThere
  <2>3. /\ ~Busy' /\ saga'.mode = "recover" /\ \A s : Done(s)' => s = "secret"
    BY <1>2, <2>2 DEF Repaired
  <2> QED
    BY <1>4, <1>5, <2>1, <2>2, <2>3
<1>6. secret \in [AccountId -> Int] /\ id \in AccountId /\ (re => new \in AccountId /\ new # id)
      /\ id \in Touched /\ new \in Touched
  BY <1>2, Facts DEF WorldTypes, Known, Renames, Touched
<1>7. ASSUME NEW a \in {id, new} \cap AccountId, drop(a), found = 0 => a = id, re => a = other,
             journal.kind # "clear"
      PROVE  SagaInv'
  <2>1. secret' = [secret EXCEPT ![a] = 0] /\ Recovered("secret")
    BY <1>7
  <2>2. secret' \in [AccountId -> Int] /\ secret'[a] = 0 /\ \A b \in AccountId : b # a => secret'[b] = secret[b]
    BY <1>6, <2>1
  <2> HIDE DEF found, other, re
  <2> QED
    BY <1>5, <1>6, <1>7, <2>1, <2>2
<1>8. ASSUME require, found # 0, re => secret[other] = 0
      PROVE  SagaInv'
  <2>1. CASE CannotRecover /\ UNCHANGED secret
    BY <1>3, <2>1
  <2>2. CASE Recovered("secret") /\ UNCHANGED secret
    <3> HIDE DEF found, other, re
    <3> QED
      BY <1>5, <1>6, <1>8, <2>2
  <2> QED
    BY <1>8, <2>1, <2>2
<1>9. ASSUME Renames(journal), found = new, secret[new] = 0, secret[id] # 0,
             secret' = [secret EXCEPT ![new] = secret[id]], UNCHANGED <<saga, past>>
      PROVE  SagaInv'
  <2>1. /\ journal' = journal /\ row' = row /\ saga' = saga /\ past' = past
        /\ Recovery(journal)' = Recovery(journal) /\ Plan(journal)' = Plan(journal)
    BY <1>1, <1>9, SameRows DEF Plan
  <2>2. PastTypes' /\ Grown /\ ~Busy' /\ saga'.mode = "recover"
    BY <1>1, <2>1, Facts DEF PastTypes, PastShape, Grown, Busy
  <2>3. SagaKnown'
    <3>1. SagaShape' /\ RecoverKnown'
      BY <2>1, Facts DEF SagaKnown, SagaShape, RecoverKnown
    <3> QED
      BY <1>1, <2>1, <2>2, <3>1, Facts DEF SagaKnown, ForwardKnown, BackKnown, Ahead, Behind
  <2>4. OperationKnown'
    BY <1>2, <2>1, Facts, OperationFrame
  <2>5. \A s : Done(s)' <=> Done(s)
    BY <2>1 DEF Done, Due
  <2>6. Records'
    <3>1. Onwards(RecordSteps) /\ Recoveries({"home", "publish"})
      BY <2>2, <2>5, ElseOnwards DEF Recoveries
    <3> QED
      BY <1>1, <2>2, <3>1, Facts, RecordsFrame, JournalKept DEF RecordsSame, Grown
  <2>7. /\ secret' \in [AccountId -> Int] /\ secret'[new] = secret[id] /\ secret'[id] = secret[id]
        /\ \A a \in AccountId \ Touched : secret'[a] = secret[a]
    BY <1>6, <1>9
  <2>8. journal.kind # "clear"
    BY <1>9 DEF Renames
  <2> HIDE DEF found, other
  <2> QED
    BY <1>2, <1>4, <2>2, <2>3, <2>4, <2>5, <2>6, <2>7, <2>8
<1>10. \/ CASE journal.kind = "clear" \/ (journal.kind = "delete" /\ found # 0) ->
                 Recovered("secret") /\ UNCHANGED secret
            [] journal.kind # "clear" /\ found = 0 -> drop(id)
            [] journal.kind = "create" /\ found # 0 -> require
            [] journal.kind = "update" /\ ~Renames(journal) -> require
            [] Renames(journal) /\ found = id -> drop(new)
            [] Renames(journal) /\ found = new ->
                 IF secret[new] # 0 THEN drop(id)
                 ELSE IF secret[id] # 0
                 THEN /\ secret' = [secret EXCEPT ![new] = secret[id]]
                      /\ UNCHANGED <<saga, past>>
                 ELSE require
       \/ Stops /\ UNCHANGED secret
  BY <1>2, Zenon DEF RecoverSecrets
<1>11. \/ (journal.kind = "clear" \/ (journal.kind = "delete" /\ found # 0))
          /\ Recovered("secret") /\ UNCHANGED secret
       \/ journal.kind # "clear" /\ found = 0 /\ drop(id)
       \/ journal.kind = "create" /\ found # 0 /\ require
       \/ journal.kind = "update" /\ ~Renames(journal) /\ require
       \/ Renames(journal) /\ found = id /\ drop(new)
       \/ Renames(journal) /\ found = new /\ secret[new] # 0 /\ drop(id)
       \/ Renames(journal) /\ found = new /\ secret[new] = 0 /\ secret[id] # 0
          /\ secret' = [secret EXCEPT ![new] = secret[id]] /\ UNCHANGED <<saga, past>>
       \/ Renames(journal) /\ found = new /\ secret[new] = 0 /\ secret[id] = 0 /\ require
       \/ Stops /\ UNCHANGED secret
  <2>1. Renames(journal) => journal.kind = "update"
    BY DEF Renames
  <2> HIDE DEF found, require, drop, id, new
  <2> QED
    BY <1>2, <1>10, <2>1 DEF Known, id, new
<1>12. ASSUME journal.kind = "clear" \/ (journal.kind = "delete" /\ found # 0),
              Recovered("secret"), UNCHANGED secret
       PROVE  SagaInv'
  <2>1. ~re /\ found # 0
    BY <1>2, <1>12 DEF Renames
  <2> HIDE DEF found, other, re
  <2> QED
    BY <1>5, <1>6, <1>12, <2>1
<1>13. ASSUME journal.kind # "clear", found = 0, drop(id) PROVE SagaInv'
  <2>1. ~re
    BY <1>2, <1>13 DEF Renames
  <2> HIDE DEF found, other, re, drop
  <2> QED
    BY <1>6, <1>7, <1>13, <2>1
<1>14. ASSUME journal.kind = "create" \/ (journal.kind = "update" /\ ~Renames(journal)), found # 0, require
       PROVE SagaInv'
  <2>1. ~re
    BY <1>14 DEF Renames
  <2> HIDE DEF found, other, re, require
  <2> QED
    BY <1>8, <1>14, <2>1
<1>15. ASSUME Renames(journal), found = id, drop(new) PROVE SagaInv'
  <2>1. other = new /\ journal.kind # "clear" /\ id # new /\ found # 0
    BY <1>2, <1>15 DEF Renames, Known
  <2> HIDE DEF found, other, drop
  <2> QED
    BY <1>6, <1>7, <1>15, <2>1
<1>16. ASSUME Renames(journal), found = new, drop(id) PROVE SagaInv'
  <2>1. other = id /\ journal.kind # "clear"
    BY <1>16 DEF Renames
  <2> HIDE DEF found, other, drop
  <2> QED
    BY <1>6, <1>7, <1>16, <2>1
<1>17. ASSUME Renames(journal), found = new, secret[id] = 0, require PROVE SagaInv'
  <2>1. other = id /\ found # 0
    BY <1>2, <1>17 DEF Renames, Known
  <2> HIDE DEF found, other, require
  <2> QED
    BY <1>8, <1>17, <2>1
<1>18. journal.kind = "update" => found # 0
  BY <1>2
<1> HIDE DEF found, other, drop, require, re
<1> QED
  BY <1>3, <1>9, <1>11, <1>12, <1>13, <1>14, <1>15, <1>16, <1>17, <1>18

(* The files as the recovery leaves them, whether it goes on or goes down. *)
LEMMA RepairFiles ==
    ASSUME SagaInv, Recovering("files"), Grown, PastTypes',
           UNCHANGED <<row, secret, userRoute, homeOf, backup, archived, container, published, journal>>,
           oauthDir' \in [AccountId -> Directory], configFile' \in [AccountId -> BOOLEAN],
           \A a \in AccountId \ Touched : oauthDir'[a] = oauthDir[a] /\ configFile'[a] = configFile[a],
           NEW found, found = Desired(journal),
           NEW other, other = (IF found = journal.new THEN journal.id ELSE journal.new),
           NEW b, b = row[found].born,
           journal.kind = "create" => oauthDir'[journal.id] = NoDir \/ oauthDir'[journal.id].of = b,
           journal.kind \in {"update", "delete"} => SoundThen(oauthDir'[found], b),
           Renames(journal) => oauthDir'[other] = NoDir,
           journal.kind = "update" /\ ~Renames(journal) => configFile' = configFile,
           journal.kind = "clear" =>
              /\ configFile' = configFile
              /\ \/ oauthDir' = oauthDir /\ past' = past
                 \/ /\ backup # NoDir /\ oauthDir'[journal.id] = EmptyOf(b)
                    /\ b \in past'.oauth \ past'.cut => b \in archived,
           \/ saga' = Down
           \/ /\ Repairing("files")
              /\ journal.kind # "clear" => SoundThen(oauthDir'[found], b)
              /\ Renames(journal) => ~configFile'[other]
              /\ journal.kind = "clear" /\ backup # NoDir =>
                    /\ oauthDir'[journal.id] = EmptyOf(b)
                    /\ b \in past'.oauth \ past'.cut => b \in archived
    PROVE  SagaInv'
<1> DEFINE id == journal.id
           new == journal.new
           re == Renames(journal)
<1>1. saga.mode = "recover"
  BY DEF Recovering
<1>2. /\ Underway /\ Known /\ journal.phase = "begun" /\ journal.kind # "policy"
      /\ found # 0 /\ found \in AccountId /\ Exists(found) /\ found \in {id, new}
      /\ journal.kind # "update" => found = id
      /\ \A s : Done(s) <=> s = "secret"
  <2>1. /\ "files" \in Recovery(journal)
        /\ \A t \in RepairSteps : Done(t) <=> t \in Recovery(journal) /\ Repair[t] < Repair["files"]
        /\ \A t : t \notin Recovery(journal) => ~Done(t)
    BY DoneBefore
  <2>2. Recovery(journal) = {"secret", "files", "render", "container", "home", "publish"}
    BY <1>1, <2>1, RecoveryBegun
  <2>3. \A s : Done(s) <=> s = "secret"
    BY <2>1, <2>2, RepairRanks DEF RepairSteps
  <2> QED
    BY <1>1, <2>1, <2>3, RecoveryBegun
<1>3. /\ OperationKnown' /\ SagaKnown' /\ Records' /\ ~Busy'
      /\ \/ saga'.mode = "down"
         \/ Repairing("files") /\ saga'.mode = "recover" /\ \A s : Done(s)' <=> s \in {"secret", "files"}
  <2>1. CASE saga' = Down
    BY <1>2, <2>1, StepDown DEF StillThere
  <2>2. CASE Repairing("files")
    <3>1. OperationKnown' /\ SagaKnown' /\ Records' /\ Repaired("files")
      BY <2>2, StepRepaired DEF StillThere
    <3> QED
      BY <1>2, <2>2, <3>1 DEF Repaired
  <2> QED
    BY <2>1, <2>2
<1>4. /\ (\A a : Exists(a)' <=> Exists(a)) /\ Touched' = Touched /\ Calm' = Calm
      /\ Desired(journal)' = Desired(journal) /\ (Renames(journal)' <=> Renames(journal))
      /\ Sounder
  BY <1>1, Repairs
<1>5. \A d : SoundThen(d, b) <=> (d.of = b \/ (d.of = 0 /\ b \in past'.cut))
                                 /\ (b \in past'.oauth \ past'.cut => d = Whole(b))
  BY DEF SoundThen
<1>6. WorldTypes'
  BY Facts DEF WorldTypes
<1>7. CreateKept'
  <2> SUFFICES ASSUME journal.kind = "create" PROVE CreateKept'
    BY DEF CreateKept
  <2> QED
    BY <1>2, <1>4, Facts DEF CreateKept, Grown
<1>8. UpdateKept'
  <2> SUFFICES ASSUME journal.kind = "update" PROVE UpdateKept'
    BY DEF UpdateKept
  <2>1. SoundDir(oauthDir[found], b)'
    BY <1>5 DEF SoundDir, Held
  <2>2. journal'.phase = "begun" /\ Desired(journal)' = found /\ row'[found].born = b
    BY <1>2, <1>4
  <2>3. /\ secret'[id] \in {0, b} /\ secret'[new] \in {0, b} /\ backup'.of \in {0, b}
        /\ ~re => configFile[id]
    BY Facts DEF UpdateKept
  <2>4. re => \/ found = id /\ other = new
              \/ found = new /\ other = id
    BY <1>2 DEF Renames
  <2>5. ~re => found = id
    BY <1>2 DEF Renames
  <2>6. \A d : /\ SoundDir(oauthDir[id], b)' <=> SoundThen(oauthDir'[id], b)
               /\ SoundDir(oauthDir[new], b)' <=> SoundThen(oauthDir'[new], b)
    BY DEF SoundDir, Held, SoundThen
  <2>7. /\ ~re => SoundDir(oauthDir[id], b)' /\ configFile'[id]
        /\ re => \/ SoundDir(oauthDir[id], b)' /\ oauthDir'[new] = NoDir
                 \/ SoundDir(oauthDir[new], b)' /\ oauthDir'[id] = NoDir
    BY <2>3, <2>4, <2>5, <2>6
  <2> QED
    BY <1>4, <2>2, <2>3, <2>7 DEF UpdateKept
<1>9. DeleteKept'
  <2> SUFFICES ASSUME journal.kind = "delete" PROVE DeleteKept'
    BY DEF DeleteKept
  <2>1. SoundDir(oauthDir[id], row[id].born)' <=> SoundThen(oauthDir'[id], row[id].born)
    BY DEF SoundDir, Held, SoundThen
  <2> QED
    BY <1>2, <1>4, <2>1, Facts DEF DeleteKept
<1>10. ClearKept'
  <2> SUFFICES ASSUME journal.kind = "clear" PROVE ClearKept'
    BY DEF ClearKept
  <2>1. ConfigAgrees(id)' /\ SecretAgrees(id)'
    BY <1>4, Facts DEF ClearKept, ConfigAgrees, SecretAgrees
  <2>2. ClearKept /\ Exists(id) /\ id = found
    BY <1>2, Facts
  <2>3. backup = NoDir \/ b \notin archived => DirAgrees(id)'
    <3>1. CASE oauthDir' = oauthDir /\ past' = past
      BY <1>4, <2>2, <3>1 DEF ClearKept, DirAgrees, SoundDir, Held
    <3>2. CASE /\ backup # NoDir /\ oauthDir'[id] = EmptyOf(b)
               /\ b \in past'.oauth \ past'.cut => b \in archived
      <4>1. EmptyOf(b).of = b
        BY DEF EmptyOf
      <4> QED
        BY <1>4, <2>2, <3>2, <4>1 DEF DirAgrees, SoundDir, Held
    <3> QED
      BY <3>1, <3>2
  <2>4. /\ backup'.of \in {0, b}
        /\ Held(b)' /\ backup' # NoDir => backup'.of = b /\ (backup'.is = "partial" \/ b \in archived')
    BY <1>4, <2>2 DEF ClearKept, Sounder
  <2> QED
    BY <1>2, <1>4, <2>1, <2>2, <2>3, <2>4 DEF ClearKept
<1>11. PolicyKept'
  BY <1>2 DEF PolicyKept
<1>12. RemovedUnpublished'
  BY <1>4, Facts DEF RemovedUnpublished
<1>13. RecoverySteps'
  <2>1. CASE saga'.mode = "down"
    BY <2>1 DEF RecoverySteps, Done
  <2>2. CASE Repairing("files") /\ \A s : Done(s)' <=> s \in {"secret", "files"}
    <3>1. \/ saga' = Down
          \/ /\ journal.kind # "clear" => SoundThen(oauthDir'[found], b)
             /\ Renames(journal) => ~configFile'[other]
             /\ journal.kind = "clear" /\ backup # NoDir =>
                   /\ oauthDir'[journal.id] = EmptyOf(b)
                   /\ b \in past'.oauth \ past'.cut => b \in archived
      OBVIOUS
    <3>2. saga' # Down
      BY <2>2, AtRestFields DEF Done
    <3>3. /\ re => secret[other] = 0
      BY <1>2, Facts DEF RecoverySteps
    <3>4. journal.kind # "clear" => DirAgrees(found)'
      BY <1>2, <1>4, <3>1, <3>2 DEF SoundThen, DirAgrees, SoundDir, Held
    <3>5. journal.kind = "clear" /\ backup' # NoDir =>
              oauthDir'[id] = EmptyOf(row'[id].born) /\ (Held(row[id].born)' => row'[id].born \in archived')
      <4>1. CASE journal.kind = "clear" /\ backup # NoDir
        <5>1. found = id /\ b = row[id].born
          BY <1>2, <4>1
        <5> QED
          BY <3>1, <3>2, <4>1, <5>1 DEF Held
      <4> QED
        BY <4>1
    <3>6. re => oauthDir'[other] = NoDir /\ ~configFile'[other]
      BY <3>1, <3>2
    <3>7. Desired(journal)' = found
      BY <1>4
    <3>8. DirAgrees(Desired(journal))' <=> DirAgrees(found)'
      BY <3>7 DEF DirAgrees, SoundDir, Exists, Held
    <3> QED
      BY <1>2, <1>4, <2>2, <3>3, <3>4, <3>5, <3>6, <3>7, <3>8 DEF RecoverySteps
  <2> QED
    BY <1>3, <2>1, <2>2
<1> QED
  BY <1>3, <1>6, <1>7, <1>8, <1>9, <1>10, <1>11, <1>12, <1>13, RepairTogether

(* RecoverFiles keeps the invariant: whichever side of a rename has the *)
(* directory, whatever was restored, and cleared only what the backup   *)
(* holds.                                                               *)
LEMMA RecoverFilesKeeps ==
    ASSUME SagaInv, RecoverFiles
    PROVE  SagaInv'
<1> DEFINE id == journal.id
           new == journal.new
           found == Desired(journal)
           other == IF found = new THEN id ELSE new
           b == row[found].born
           becomes(a, dir) == oauthDir' = [oauthDir EXCEPT ![a] = dir] /\ Recovered("files")
           copied(a) ==
              \/ becomes(a, Restored)
              \/ /\ (FaultCut(backup) /\ saga' = Down) \/ DiesCut(backup)
                 /\ oauthDir' = [oauthDir EXCEPT ![a] = Partial(Restored)]
           ensured(a) == becomes(a, IF oauthDir[a] = NoDir THEN EmptyOf(row[a].born)
                                                           ELSE oauthDir[a])
           moved ==
              IF oauthDir[other] # NoDir /\ oauthDir[found] # NoDir
              THEN CannotRecover /\ UNCHANGED oauthDir
              ELSE IF oauthDir[found] # NoDir THEN Recovered("files") /\ UNCHANGED oauthDir
              ELSE IF oauthDir[other] # NoDir
              THEN /\ oauthDir' = [oauthDir EXCEPT ![found] = oauthDir[other],
                                                   ![other] = NoDir]
                   /\ Recovered("files")
              ELSE copied(found)
<1>1. /\ Recovering("files") /\ saga.mode = "recover"
      /\ UNCHANGED <<row, secret, userRoute, homeOf, backup, archived, container, published, journal>>
  BY DEF RecoverFiles, filesFrame, recordVars, Recovering
<1>2. /\ Underway /\ Known /\ saga.op = journal /\ journal.kind # "policy"
      /\ found # 0 /\ found \in AccountId /\ Exists(found) /\ found \in {id, new}
      /\ journal.kind # "update" => found = id
      /\ journal.phase = "begun"
  <2>1. "files" \in Recovery(journal)
    BY <1>1, DoneBefore
  <2> QED
    BY <1>1, <2>1, RecoveryBegun
<1>3. /\ oauthDir \in [AccountId -> Directory] /\ configFile \in [AccountId -> BOOLEAN]
      /\ backup \in Directory /\ id \in AccountId /\ (journal.kind = "update" => new \in AccountId)
      /\ b \in Int /\ b # 0 /\ id \in Touched /\ new \in Touched /\ NoDir \in Directory
      /\ NoDir.of = 0 /\ EmptyOf(b) \in Directory /\ EmptyOf(b).of = b
      /\ Renames(journal) => \/ found = id /\ other = new /\ id # new
                             \/ found = new /\ other = id /\ id # new
  <2>1. b \in Int /\ b # 0
    BY <1>2, Facts DEF WorldTypes, Account, Exists
  <2>2. EmptyOf(b) \in Directory /\ EmptyOf(b).of = b /\ NoDir.of = 0
    BY <2>1, DirTypes DEF EmptyOf, NoDir
  <2> QED
    BY <1>2, <2>1, <2>2, Facts, DirTypes DEF WorldTypes, Known, Touched, Renames
<1>4. ASSUME (Stops \/ CannotRecover) /\ UNCHANGED <<oauthDir, configFile>> PROVE SagaInv'
  BY <1>1, <1>4, StopsKeeps DEF WorldSame, recordVars, fileVars
<1>5. ASSUME Recovered("files")
      PROVE  Repairing("files") /\ past' = past /\ PastTypes' /\ Grown /\ saga'.mode = "recover"
             /\ \A d : SoundDir(d, b) => SoundThen(d, b)
  <2>1. Repairing("files") /\ past' = past /\ PastTypes' /\ Grown
    BY <1>5, Facts DEF Recovered, Repairing, PastTypes, PastShape, Grown
  <2>2. saga'.mode = "recover"
    BY <1>1, <2>1, Facts, RecoveredFields DEF SameSaga
  <2> QED
    BY <2>1, <2>2 DEF SoundDir, SoundThen, Held
<1>6. ASSUME (FaultCut(backup) /\ saga' = Down) \/ DiesCut(backup)
      PROVE  saga' = Down /\ PastTypes' /\ Grown /\ saga'.mode = "down"
  BY <1>3, <1>6, Facts, FaultCutFields, DiesCutFields, AtRestFields DEF Grown, CutBounds
<1>7. b \in past.cut /\ backup.of \in {0, b} =>
         /\ Restored \in Directory /\ SoundDir(Restored, b)
         /\ Partial(Restored) \in Directory /\ Partial(Restored).of \in {0, b}
  <2>1. b \in past.cut /\ backup.of \in {0, b} => SoundDir(backup, b)
    BY DEF SoundDir, Held
  <2> HIDE DEF b
  <2> QED
    BY <1>3, <2>1, RestoredSound
<1>8. ASSUME Grown, b \in past.cut, NEW d, d.of \in {0, b} PROVE SoundThen(d, b)
  BY <1>8 DEF SoundThen, Grown
<1>9. ASSUME journal.kind = "create" \/ (journal.kind = "update" /\ ~Renames(journal)),
             ensured(found), UNCHANGED configFile
      PROVE  SagaInv'
  <2>1. found = id
    BY <1>2, <1>9 DEF Renames
  <2> DEFINE dir == IF oauthDir[id] = NoDir THEN EmptyOf(b) ELSE oauthDir[id]
  <2>2. oauthDir' = [oauthDir EXCEPT ![id] = dir] /\ Recovered("files")
    BY <1>9, <2>1
  <2>3. dir \in Directory /\ dir # NoDir => dir \in Directory
    BY <1>3
  <2>4. /\ oauthDir' \in [AccountId -> Directory] /\ oauthDir'[id] = dir
        /\ \A a \in AccountId \ Touched : oauthDir'[a] = oauthDir[a]
    BY <1>3, <2>2
  <2>5. journal.kind = "create" => dir.of = b /\ b \notin past.oauth
    BY <1>2, <1>3, <2>1, Facts DEF CreateKept
  <2>6. journal.kind = "update" => SoundDir(dir, b)
    <3>1. journal.kind = "update" => SoundDir(oauthDir[id], b)
      BY <1>9, Facts DEF UpdateKept
    <3>2. SoundDir(NoDir, b) => b \in past.cut
      BY <1>3 DEF SoundDir
    <3>3. b \in past.cut => SoundDir(EmptyOf(b), b)
      BY <1>3 DEF SoundDir, Held
    <3> QED
      BY <3>1, <3>2, <3>3
  <2>7. SoundDir(dir, b)
    BY <1>9, <2>5, <2>6 DEF SoundDir, Held
  <2>8. /\ Repairing("files") /\ PastTypes' /\ Grown /\ SoundThen(dir, b)
    BY <1>5, <2>2, <2>7
  <2>9. ~Renames(journal) /\ journal.kind # "clear"
    BY <1>9 DEF Renames
  <2> HIDE DEF id, new, found, other, b, dir
  <2> QED
    BY <1>1, <1>3, <1>9, <2>1, <2>4, <2>5, <2>8, <2>9, RepairFiles DEF id, new, found, other, b
<1>10. ASSUME Renames(journal), moved,
              configFile' = IF saga'.mode = "down" THEN configFile
                            ELSE [configFile EXCEPT ![other] = FALSE]
       PROVE  SagaInv'
  <2>1. journal.kind = "update" /\ other \in AccountId /\ other \in Touched /\ other # found
        /\ found \in Touched
    BY <1>2, <1>3, <1>10 DEF Renames
  <2>2. \/ SoundDir(oauthDir[found], b) /\ oauthDir[other] = NoDir
        \/ SoundDir(oauthDir[other], b) /\ oauthDir[found] = NoDir
    BY <1>3, <1>10, <2>1, Facts DEF UpdateKept
  <2>3. backup.of \in {0, b}
    BY <2>1, Facts DEF UpdateKept
  <2>4. ASSUME Recovered("files"), oauthDir' \in [AccountId -> Directory],
               \A a \in AccountId \ Touched : oauthDir'[a] = oauthDir[a],
               SoundDir(oauthDir'[found], b), oauthDir'[other] = NoDir
        PROVE  SagaInv'
    <3>1. Repairing("files") /\ PastTypes' /\ Grown /\ saga'.mode = "recover"
          /\ SoundThen(oauthDir'[found], b)
      BY <1>5, <2>4
    <3>2. configFile' = [configFile EXCEPT ![other] = FALSE]
      BY <1>10, <3>1
    <3>3. configFile' \in [AccountId -> BOOLEAN] /\ ~configFile'[other]
          /\ \A a \in AccountId \ Touched : configFile'[a] = configFile[a]
      BY <1>3, <2>1, <3>2
    <3> HIDE DEF id, new, found, other, b, moved
    <3> QED
      BY <1>1, <1>10, <2>1, <2>4, <3>1, <3>3, RepairFiles DEF id, new, found, other, b
  <2>5. CASE oauthDir[other] # NoDir /\ oauthDir[found] # NoDir
    BY <2>2, <2>5
  <2>6. CASE oauthDir[found] # NoDir /\ oauthDir[other] = NoDir
    <3>1. Recovered("files") /\ oauthDir' = oauthDir
      BY <1>10, <2>6
    <3> HIDE DEF found, other, b, moved
    <3> QED
      BY <1>3, <2>2, <2>4, <2>6, <3>1
  <2>7. CASE oauthDir[found] = NoDir /\ oauthDir[other] # NoDir
    <3>1. /\ oauthDir' = [oauthDir EXCEPT ![found] = oauthDir[other], ![other] = NoDir]
          /\ Recovered("files")
      BY <1>10, <2>7
    <3>2. SoundDir(oauthDir[other], b)
      BY <2>2, <2>7
    <3>3. /\ oauthDir'[found] = oauthDir[other] /\ oauthDir'[other] = NoDir
          /\ oauthDir' \in [AccountId -> Directory]
          /\ \A a \in AccountId \ Touched : oauthDir'[a] = oauthDir[a]
      <4> HIDE DEF found, other, b, moved
      <4> QED
        BY <1>2, <1>3, <2>1, <3>1
    <3> HIDE DEF found, other, b, moved
    <3> QED
      BY <2>4, <3>1, <3>2, <3>3
  <2>8. CASE oauthDir[found] = NoDir /\ oauthDir[other] = NoDir
    <3>1. copied(found)
      BY <1>10, <2>8
    <3>2. b \in past.cut
      BY <1>3, <2>2, <2>8 DEF SoundDir
    <3>3. CASE becomes(found, Restored)
      <4>1. Restored \in Directory /\ SoundDir(Restored, b) /\ Recovered("files")
            /\ oauthDir' = [oauthDir EXCEPT ![found] = Restored]
        BY <1>7, <2>3, <3>2, <3>3
      <4> HIDE DEF found, other, b, moved
      <4>2. /\ oauthDir'[found] = Restored /\ oauthDir'[other] = NoDir
            /\ oauthDir' \in [AccountId -> Directory]
            /\ \A a \in AccountId \ Touched : oauthDir'[a] = oauthDir[a]
        BY <1>2, <1>3, <2>1, <2>8, <4>1
      <4> QED
        BY <2>4, <4>1, <4>2
    <3>4. CASE /\ (FaultCut(backup) /\ saga' = Down) \/ DiesCut(backup)
               /\ oauthDir' = [oauthDir EXCEPT ![found] = Partial(Restored)]
      <4>1. saga' = Down /\ PastTypes' /\ Grown /\ saga'.mode = "down"
        BY <1>6, <3>4
      <4>2. Partial(Restored) \in Directory /\ SoundThen(Partial(Restored), b)
        BY <1>7, <1>8, <2>3, <3>2, <4>1
      <4>3. configFile' = configFile
        BY <1>10, <4>1
      <4> HIDE DEF found, other, b, moved
      <4>4. /\ oauthDir'[found] = Partial(Restored) /\ oauthDir'[other] = NoDir
            /\ oauthDir' \in [AccountId -> Directory]
            /\ \A a \in AccountId \ Touched : oauthDir'[a] = oauthDir[a]
        BY <1>2, <1>3, <2>1, <2>8, <3>4, <4>2
      <4> HIDE DEF id, new
      <4> QED
        BY <1>1, <1>3, <1>10, <2>1, <4>1, <4>2, <4>3, <4>4, RepairFiles DEF id, new, found, other, b
    <3> QED
      BY <3>1, <3>3, <3>4
  <2> QED
    BY <2>5, <2>6, <2>7, <2>8
<1>11. ASSUME journal.kind = "delete",
              IF oauthDir[id] = NoDir THEN copied(id) ELSE Recovered("files") /\ UNCHANGED oauthDir,
              configFile' = [configFile EXCEPT ![id] = TRUE]
       PROVE  SagaInv'
  <2>1. found = id /\ ~Renames(journal)
    BY <1>2, <1>11 DEF Renames
  <2>2. SoundDir(oauthDir[id], b) /\ backup.of \in {0, b}
    BY <1>2, <1>11, <2>1, Facts DEF DeleteKept
  <2>3. configFile' \in [AccountId -> BOOLEAN] /\ \A a \in AccountId \ Touched : configFile'[a] = configFile[a]
    BY <1>3, <1>11
  <2>4. CASE oauthDir[id] # NoDir
    <3>1. Repairing("files") /\ PastTypes' /\ Grown /\ SoundThen(oauthDir'[id], b) /\ oauthDir' = oauthDir
      BY <1>5, <1>11, <2>2, <2>4
    <3> HIDE DEF id, new, found, other, b
    <3> QED
      BY <1>1, <1>3, <1>11, <2>1, <2>3, <3>1, RepairFiles DEF id, new, found, other, b
  <2>5. CASE oauthDir[id] = NoDir
    <3>1. copied(id) /\ b \in past.cut
      BY <1>3, <1>11, <2>2, <2>5 DEF SoundDir
    <3>2. CASE becomes(id, Restored)
      <4>1. Restored \in Directory /\ SoundDir(Restored, b) /\ Recovered("files")
            /\ oauthDir' = [oauthDir EXCEPT ![id] = Restored]
        BY <1>7, <2>2, <3>1, <3>2
      <4>2. Repairing("files") /\ PastTypes' /\ Grown /\ SoundThen(Restored, b)
        BY <1>5, <4>1
      <4> HIDE DEF found, other, b
      <4>3. /\ oauthDir'[id] = Restored /\ oauthDir' \in [AccountId -> Directory]
            /\ \A a \in AccountId \ Touched : oauthDir'[a] = oauthDir[a]
        BY <1>3, <4>1
      <4>4. SoundThen(oauthDir'[found], b)
        BY <2>1, <4>2, <4>3
      <4> HIDE DEF id, new
      <4> QED
        BY <1>1, <1>11, <2>1, <2>3, <4>2, <4>3, <4>4, RepairFiles DEF id, new, found, other, b
    <3>3. CASE /\ (FaultCut(backup) /\ saga' = Down) \/ DiesCut(backup)
               /\ oauthDir' = [oauthDir EXCEPT ![id] = Partial(Restored)]
      <4>1. saga' = Down /\ PastTypes' /\ Grown
        BY <1>6, <3>3
      <4>2. Partial(Restored) \in Directory /\ SoundThen(Partial(Restored), b)
        BY <1>7, <1>8, <2>2, <3>1, <4>1
      <4> HIDE DEF found, other, b
      <4>3. /\ oauthDir'[id] = Partial(Restored) /\ oauthDir' \in [AccountId -> Directory]
            /\ \A a \in AccountId \ Touched : oauthDir'[a] = oauthDir[a]
        BY <1>3, <3>3, <4>2
      <4>4. SoundThen(oauthDir'[found], b)
        BY <2>1, <4>2, <4>3
      <4> HIDE DEF id, new
      <4> QED
        BY <1>1, <1>11, <2>1, <2>3, <4>1, <4>3, <4>4, RepairFiles DEF id, new, found, other, b
    <3> QED
      BY <3>1, <3>2, <3>3
  <2> QED
    BY <2>4, <2>5
<1>12. ASSUME journal.kind = "clear", UNCHANGED configFile,
              IF backup = NoDir THEN Recovered("files") /\ UNCHANGED oauthDir
              ELSE /\ oauthDir' = [oauthDir EXCEPT ![id] = EmptyOf(row[id].born)]
                   /\ saga' = [saga EXCEPT !.todo = @ \ {"files"}]
                   /\ past' = IF backup.is # "partial" THEN past
                              ELSE [past EXCEPT !.cut = @ \cup {backup.of}]
       PROVE  SagaInv'
  <2>1. found = id /\ ~Renames(journal)
    BY <1>2, <1>12 DEF Renames
  <2>2. CASE backup = NoDir
    <3>1. Repairing("files") /\ PastTypes' /\ Grown /\ oauthDir' = oauthDir /\ past' = past
      BY <1>5, <1>12, <2>2
    <3> HIDE DEF id, new, found, other, b
    <3> QED
      BY <1>1, <1>3, <1>12, <2>1, <2>2, <3>1, RepairFiles DEF id, new, found, other, b
  <2>3. CASE backup # NoDir
    <3>1. /\ oauthDir' = [oauthDir EXCEPT ![id] = EmptyOf(b)] /\ Repairing("files")
          /\ past' = IF backup.is # "partial" THEN past
                     ELSE [past EXCEPT !.cut = @ \cup {backup.of}]
      BY <1>12, <2>1, <2>3 DEF Repairing
    <3>2. PastTypes' /\ Grown /\ (backup.is = "partial" => backup.of \in past'.cut)
      <4>1. CASE backup.is # "partial"
        BY <3>1, <4>1, Facts DEF PastTypes, PastShape, Grown
      <4>2. CASE backup.is = "partial"
        <5>1. /\ past'.ops = past.ops /\ past'.faults = past.faults /\ past'.crashes = past.crashes
              /\ past'.moves = past.moves /\ past'.strayed = past.strayed /\ past'.oauth = past.oauth
              /\ past'.cut = past.cut \cup {backup.of} /\ PastShape'
          BY <3>1, <4>2, Facts DEF PastTypes, PastShape
        <5>2. backup.of \in Int
          BY <1>3, DirTypes
        <5> QED
          BY <5>1, <5>2, Facts DEF PastTypes, Grown
      <4> QED
        BY <4>1, <4>2
    <3>3. b \in past'.oauth \ past'.cut => b \in archived
      <4>1. b \in past'.oauth \ past'.cut => Held(b)
        BY <3>2 DEF Grown, Held
      <4>2. Held(b) => backup.of = b /\ (backup.is = "partial" \/ b \in archived)
        BY <1>12, <2>1, <2>3, Facts DEF ClearKept
      <4> QED
        BY <3>2, <4>1, <4>2
    <3> HIDE DEF found, other, b
    <3>4. /\ oauthDir'[id] = EmptyOf(b) /\ oauthDir' \in [AccountId -> Directory]
          /\ \A a \in AccountId \ Touched : oauthDir'[a] = oauthDir[a]
      BY <1>3, <3>1
    <3> HIDE DEF id, new
    <3> QED
      BY <1>1, <1>3, <1>12, <2>1, <2>3, <3>1, <3>2, <3>3, <3>4, RepairFiles DEF id, new, found, other, b
  <2> QED
    BY <2>2, <2>3
<1>13. \/ CASE journal.kind = "create" \/ (journal.kind = "update" /\ ~Renames(journal)) ->
                 ensured(found) /\ UNCHANGED configFile
            [] Renames(journal) ->
                 /\ moved
                 /\ configFile' = IF saga'.mode = "down" THEN configFile
                                  ELSE [configFile EXCEPT ![other] = FALSE]
            [] journal.kind = "delete" ->
                 /\ IF oauthDir[id] = NoDir THEN copied(id) ELSE Recovered("files") /\ UNCHANGED oauthDir
                 /\ configFile' = [configFile EXCEPT ![id] = TRUE]
            [] journal.kind = "clear" ->
                 /\ IF backup = NoDir THEN Recovered("files") /\ UNCHANGED oauthDir
                    ELSE /\ oauthDir' = [oauthDir EXCEPT ![id] = EmptyOf(row[id].born)]
                         /\ saga' = [saga EXCEPT !.todo = @ \ {"files"}]
                         /\ past' = IF backup.is # "partial" THEN past
                                    ELSE [past EXCEPT !.cut = @ \cup {backup.of}]
                 /\ UNCHANGED configFile
       \/ Stops /\ UNCHANGED <<oauthDir, configFile>>
  BY <1>2, Zenon DEF RecoverFiles
<1>14. journal.kind \in {"create", "update", "delete", "clear"} /\ (Renames(journal) => journal.kind = "update")
  BY <1>2 DEF Known, Renames
<1> HIDE DEF ensured, moved, copied, becomes, found, other, b, id, new
<1> QED
  BY <1>4, <1>9, <1>10, <1>11, <1>12, <1>13, <1>14

(* DiscardFiles keeps the invariant: what is discarded belongs to no *)
(* account.                                                          *)
LEMMA DiscardFilesKeeps ==
    ASSUME SagaInv, DiscardFiles
    PROVE  SagaInv'
<1> DEFINE id == journal.id
<1>1. /\ Recovering("discard") /\ saga.mode = "recover"
      /\ UNCHANGED <<row, secret, userRoute, homeOf, backup, archived, container, published, journal>>
  BY DEF DiscardFiles, filesFrame, recordVars, Recovering
<1>2. /\ Underway /\ Known /\ saga.op = journal /\ Desired(journal) = 0
      /\ journal.kind \in {"create", "delete"} /\ ~Exists(id)
      /\ journal.kind = "delete" => journal.phase # "accepted"
      /\ \A s : Done(s) => s # "files"
  <2>1. "discard" \in Recovery(journal)
    BY <1>1, DoneBefore
  <2>2. /\ Underway /\ Known /\ saga.op = journal /\ Desired(journal) = 0
        /\ journal.kind \in {"create", "delete"} /\ "files" \notin Recovery(journal)
        /\ journal.kind # "update" => Desired(journal) = (IF Exists(id) THEN id ELSE 0)
    BY <1>1, <2>1, RecoveryBegun
  <2>3. ~Exists(id)
    BY <2>2 DEF Known
  <2> QED
    BY <2>2, <2>3, Facts DEF Done, RowsKnown
<1>3. CASE Stops /\ UNCHANGED <<oauthDir, configFile>>
  BY <1>1, <1>3, StopsKeeps DEF WorldSame, recordVars, fileVars
<1>4. CASE /\ Recovered("discard")
           /\ oauthDir' = [oauthDir EXCEPT ![id] = NoDir]
           /\ configFile' = [configFile EXCEPT ![id] = FALSE]
  <2>1. PastTypes' /\ Grown /\ Repairing("discard")
    BY <1>4, Facts DEF Recovered, Repairing, PastTypes, PastShape, Grown
  <2>2. OperationKnown' /\ SagaKnown' /\ Records' /\ Repaired("discard")
    BY <1>1, <2>1, StepRepaired DEF StillThere
  <2>3. /\ ~Busy' /\ saga'.mode = "recover" /\ \A s : Done(s)' <=> Done(s) \/ s = "discard"
    BY <2>2 DEF Repaired
  <2>4. /\ (\A a : Exists(a)' <=> Exists(a)) /\ Touched' = Touched /\ Calm' = Calm
        /\ Desired(journal)' = Desired(journal) /\ (Renames(journal)' <=> Renames(journal))
        /\ Sounder
    BY <1>1, <2>1, Repairs
  <2>5. /\ oauthDir' \in [AccountId -> Directory] /\ configFile' \in [AccountId -> BOOLEAN]
        /\ oauthDir'[id] = NoDir /\ ~configFile'[id] /\ id \in Touched
        /\ \A a \in AccountId \ Touched : oauthDir'[a] = oauthDir[a] /\ configFile'[a] = configFile[a]
    BY <1>2, <1>4, Facts, DirTypes DEF WorldTypes, Known, Touched
  <2>6. WorldTypes'
    BY <1>1, <2>5, Facts DEF WorldTypes
  <2>7. CreateKept' /\ DeleteKept'
    BY <1>1, <1>2, <2>4, Facts DEF CreateKept, DeleteKept
  <2>8. UpdateKept' /\ ClearKept' /\ PolicyKept'
    BY <1>1, <1>2 DEF UpdateKept, ClearKept, PolicyKept
  <2>9. RemovedUnpublished'
    BY <1>1, <2>4, Facts DEF RemovedUnpublished
  <2>10. RecoverySteps'
    <3>1. ~Renames(journal) /\ journal' = journal /\ container' = container /\ secret' = secret
      BY <1>1, <1>2 DEF Renames
    <3>2. /\ Done("removal") => container[id] = "none"
          /\ Done("secret") => secret[id] = 0
          /\ ~Done("container")
      BY <1>1, <1>2, Facts, RecoveryBegun DEF RecoverySteps, Done
    <3> QED
      BY <1>2, <2>3, <2>4, <2>5, <3>1, <3>2 DEF RecoverySteps
  <2> QED
    BY <1>1, <2>1, <2>2, <2>3, <2>5, <2>6, <2>7, <2>8, <2>9, <2>10, RepairTogether
<1> QED
  BY <1>1, <1>2, <1>3, <1>4 DEF DiscardFiles

(* RecoverProjection keeps the invariant. *)
LEMMA RecoverProjectionKeeps ==
    ASSUME SagaInv, RecoverProjection
    PROVE  SagaInv'
<1> DEFINE id == journal.id
           new == journal.new
           found == Desired(journal)
           re == Renames(journal)
           other == IF found = new THEN id ELSE new
<1>1. /\ Recovering("render") /\ saga.mode = "recover"
      /\ UNCHANGED <<row, secret, userRoute, homeOf, oauthDir, backup, archived, container, published,
                     journal>>
  BY DEF RecoverProjection, filesFrame, recordVars, Recovering
<1>2. CASE (Stops \/ CannotRecover) /\ UNCHANGED configFile
  BY <1>1, <1>2, StopsKeeps DEF WorldSame, recordVars, fileVars
<1>3. CASE ~Unrenderable /\ RenderRows /\ Recovered("render")
  <2>1. PastTypes' /\ Grown /\ Repairing("render") /\ past' = past
    BY <1>3, Facts DEF Recovered, Repairing, PastTypes, PastShape, Grown
  <2>2. OperationKnown' /\ SagaKnown' /\ Records' /\ Repaired("render")
    BY <1>1, <2>1, StepRepaired DEF StillThere
  <2>3. /\ ~Busy' /\ saga'.mode = "recover" /\ \A s : Done(s)' <=> Done(s) \/ s = "render"
    BY <2>2 DEF Repaired
  <2>4. /\ (\A a : Exists(a)' <=> Exists(a)) /\ Touched' = Touched /\ Calm' = Calm
        /\ Desired(journal)' = Desired(journal) /\ (Renames(journal)' <=> Renames(journal))
        /\ Underway /\ Known /\ saga.op = journal /\ found \in {0, id, new}
        /\ journal.kind # "update" => found = (IF Exists(id) THEN id ELSE 0)
    BY <1>1, <2>1, Repairs
  <2>5. /\ ~Done("discard") /\ ~Done("removal") /\ ~Done("container")
        /\ found # 0 => found \in AccountId /\ Exists(found)
    BY <1>1, DoneBefore, RecoveryBegun, RepairRanks DEF RepairSteps
  <2>6. /\ configFile' \in [AccountId -> BOOLEAN]
        /\ \A a \in AccountId : configFile'[a] <=> configFile[a] \/ Exists(a)
    BY <1>3, Facts DEF RenderRows, WorldTypes
  <2>7. \A d, b : (SoundDir(d, b)' <=> SoundDir(d, b)) /\ (Held(b)' <=> Held(b))
    BY <2>1, SameSound
  <2>8. /\ id \in AccountId /\ (journal.kind = "update" => new \in AccountId) /\ id # 0
        /\ re => \/ found = id /\ other = new
                 \/ found = new /\ other = id
        /\ re => other \in AccountId /\ ~Exists(other) /\ found # 0
    <3>1. journal.kind = "update" => Exists(id) \/ Exists(new)
      BY Facts DEF RowsKnown
    <3>2. re => ~Exists(id) \/ ~Exists(new)
      BY Facts DEF RowsKnown, Renames
    <3>3. journal.kind = "update" => found = (IF Exists(new) THEN new ELSE id)
      BY <2>4, <3>1 DEF Desired
    <3> QED
      BY <2>4, <3>1, <3>2, <3>3 DEF Known, Renames
  <2>9. \A a \in AccountId : AccountAgrees(a) => AccountAgrees(a)'
    BY <1>1, <2>4, <2>6, <2>7
       DEF AccountAgrees, ConfigAgrees, DirAgrees, SecretAgrees, ContainerAgrees
  <2>10. WorldTypes'
    BY <1>1, <2>6, Facts DEF WorldTypes
  <2>11. CreateKept'
    BY <1>1, <2>1, <2>4, Facts DEF CreateKept
  <2>12. UpdateKept'
    <3> SUFFICES ASSUME journal.kind = "update" PROVE UpdateKept'
      BY <1>1 DEF UpdateKept
    <3> QED
      BY <1>1, <2>4, <2>6, <2>7, <2>8, <2>9, Facts DEF UpdateKept
  <2>13. DeleteKept'
    BY <1>1, <2>4, <2>7, <2>8, <2>9, Facts DEF DeleteKept
  <2>14. ClearKept'
    <3> SUFFICES ASSUME journal.kind = "clear" PROVE ClearKept'
      BY <1>1 DEF ClearKept
    <3>1. /\ ConfigAgrees(id) => ConfigAgrees(id)'
          /\ SecretAgrees(id) => SecretAgrees(id)'
          /\ ContainerAgrees(id) => ContainerAgrees(id)'
          /\ DirAgrees(id) => DirAgrees(id)'
      BY <1>1, <2>4, <2>6, <2>7, <2>8 DEF ConfigAgrees, DirAgrees, SecretAgrees, ContainerAgrees
    <3> QED
      BY <1>1, <2>4, <2>7, <3>1, Facts DEF ClearKept
  <2>15. PolicyKept'
    BY <1>1, <2>8, <2>9, Facts DEF PolicyKept
  <2>16. RemovedUnpublished'
    BY <1>1, <2>4, Facts DEF RemovedUnpublished
  <2>17. found # 0 => configFile'[found] /\ (row[found].proxy = "custom" => secret[found] # 0)
    BY <1>3, <2>5, <2>6 DEF Unrenderable
  <2>18. RecoverySteps'
    <3>1. re /\ ~configFile[other] => ~configFile'[other]
      BY <2>6, <2>8
    <3>2. DirAgrees(found) => DirAgrees(found)'
      BY <1>1, <2>4, <2>7 DEF DirAgrees
    <3>3. DirAgrees(Desired(journal))' <=> DirAgrees(found)'
      BY <2>4 DEF DirAgrees, Exists, SoundDir, Held
    <3>4. RecoverySteps
      BY Facts
    <3>5. Done("files")' /\ journal.kind # "clear" => DirAgrees(Desired(journal))'
      BY <2>3, <3>2, <3>3, <3>4 DEF RecoverySteps
    <3> QED
      BY <1>1, <2>3, <2>4, <2>5, <2>7, <2>17, <3>1, <3>4, <3>5 DEF RecoverySteps
  <2> QED
    BY <1>1, <2>1, <2>2, <2>3, <2>6, <2>10, <2>11, <2>12, <2>13, <2>14, <2>15, <2>16, <2>18, RepairTogether
<1> QED
  BY <1>1, <1>2, <1>3 DEF RecoverProjection

(* RecoverSnapshot keeps the invariant: what is published is what the *)
(* records say.                                                       *)
LEMMA RecoverSnapshotKeeps ==
    ASSUME SagaInv, RecoverSnapshot
    PROVE  SagaInv'
<1>1. /\ Recovering("publish") /\ saga.mode = "recover"
      /\ UNCHANGED <<row, secret, userRoute, homeOf, oauthDir, configFile, backup, archived,
                     container, journal>>
  BY DEF RecoverSnapshot, recordVars, fileVars, Recovering
<1>2. /\ Underway /\ OperationKnown /\ SagaKnown /\ SagaShape /\ PastTypes /\ SagaBase /\ Facets
  BY <1>1, Facts, RecoveryBegun
<1>3. CASE Stops /\ published' = published
  BY <1>1, <1>3, StopsKeeps DEF WorldSame, recordVars, fileVars
<1>4. CASE published' = Current /\ (Recovered("publish") \/ Stops)
  <2>1. PastTypes' /\ Bounds
    <3>1. CASE Recovered("publish")
      BY <1>2, <3>1 DEF Recovered, PastTypes, PastShape, Bounds
    <3>2. CASE Stops
      BY <1>2, <3>2, FaultFields DEF Stops
    <3> QED
      BY <1>4, <3>1, <3>2
  <2>2. SagaKnown' /\ ~Busy' /\ Recoveries({"home"}) /\ Recoveries(RepairFacets)
    <3>1. CASE Recovered("publish")
      <4>1. Repairing("publish") /\ Recovery(journal)' = Recovery(journal)
        BY <1>1, <3>1, SameRows DEF Recovered, Repairing
      <4> QED
        BY <1>1, <1>2, <4>1, Recovers, RecoveredOnwards DEF RepairFacets
    <3>2. CASE Stops
      BY <3>2, GoesDown, ElseRecoveries DEF Stops
    <3> QED
      BY <1>4, <3>1, <3>2
  <2>3. Onwards({"move", "control", "home"}) /\ Onwards({"plan", "control"}) /\ Onwards(FacetSteps)
        /\ ~Behind'
    BY <2>2, ElseOnwards DEF Behind, Busy
  <2>4. OperationKnown'
    BY <1>1, <1>2, OperationFrame
  <2>5. RowRecords'
    BY <1>1, <2>1, <2>3, RowRecordsFrame DEF Bounds
  <2>6. Facets'
    BY <1>1, <1>2, <2>1, <2>2, <2>3, FacetsFrame DEF FacetsSame, SameOperation, Bounds
  <2> QED
    BY <1>1, <1>4, <2>1, <2>2, <2>3, <2>4, <2>5, <2>6, AnewKeeps DEF Bounds
<1> QED
  BY <1>1, <1>3, <1>4 DEF RecoverSnapshot, MayPublish, PublishAuthSnapshot

(* Reconcile keeps the invariant: the removed container is one that the *)
(* recovered snapshot does not route to, or it is made anew.            *)
LEMMA ReconcileKeeps ==
    ASSUME SagaInv, NEW step \in {"container", "removal"}, Reconcile(step)
    PROVE  SagaInv'
<1> DEFINE id == journal.id
           new == journal.new
           found == Desired(journal)
           re == Renames(journal)
           other == IF found = new THEN id ELSE new
           gone == {a \in {id, new, found} : a # 0}
           without == [a \in AccountId |-> IF a \in gone THEN "none" ELSE container[a]]
<1>1. /\ Recovering(step) /\ saga.mode = "recover"
      /\ UNCHANGED <<row, secret, userRoute, homeOf, oauthDir, configFile, backup, archived, published,
                     journal>>
  BY DEF Reconcile, runtimeFrame, recordVars, fileVars, Recovering
<1>2. /\ Underway /\ Known /\ saga.op = journal /\ found \in {0, id, new}
      /\ journal.phase = "begun" /\ journal.kind # "policy"
      /\ step = "container" <=> found # 0
      /\ found # 0 => found \in AccountId /\ Exists(found)
      /\ journal.kind = "update" => found # 0
      /\ step = "removal" /\ journal.kind = "delete" => Done("publish")
      /\ journal.kind # "update" => found = (IF Exists(id) THEN id ELSE 0)
  <2>1. /\ step \in Recovery(journal)
        /\ \A t \in RepairSteps : Done(t) <=> t \in Recovery(journal) /\ Repair[t] < Repair[step]
    BY <1>1, DoneBefore
  <2>2. step = "removal" => Done("publish")
    <3>1. step = "removal" => "publish" \in Recovery(journal)
      BY <1>1, <2>1, RecoveryBegun DEF RemovalFinished
    <3> QED
      BY <2>1, <3>1, RepairRanks DEF RepairSteps
  <2> QED
    BY <1>1, <2>1, <2>2, RecoveryBegun
<1>3. /\ container \in [AccountId -> {"none", "running", "stopped"}]
      /\ id \in AccountId /\ id # 0 /\ (journal.kind = "update" => new \in AccountId /\ new # 0)
      /\ id \in Touched /\ new \in Touched
      /\ re => journal.kind = "update" /\ \/ found = id /\ other = new /\ id # new
                                          \/ found = new /\ other = id /\ id # new
  BY <1>2, Facts DEF WorldTypes, Known, Touched, Renames
<1>4. /\ without \in [AccountId -> {"none", "running", "stopped"}]
      /\ without[id] = "none" /\ (re => without[other] = "none")
      /\ \A a \in AccountId \ Touched : without[a] = container[a]
  <2>1. \A a \in AccountId \ Touched : a \notin gone
    BY <1>2 DEF Touched
  <2>2. id \in gone /\ (re => other \in gone /\ other \in AccountId)
    BY <1>3
  <2> HIDE DEF gone, other, found
  <2> QED
    BY <1>3, <2>1, <2>2
<1>5. ASSUME PastTypes', Grown, OperationKnown', SagaKnown', Records', ~Busy', RecoverySteps',
             container' \in [AccountId -> {"none", "running", "stopped"}],
             \A a \in AccountId \ Touched : container'[a] = "none" <=> container[a] = "none"
      PROVE  SagaInv'
  <2>1. /\ (\A a : Exists(a)' <=> Exists(a)) /\ Touched' = Touched /\ Calm' = Calm
        /\ Desired(journal)' = Desired(journal) /\ (Renames(journal)' <=> Renames(journal))
        /\ Sounder
    BY <1>1, <1>5, Repairs
  <2>2. WorldTypes'
    BY <1>1, <1>5, Facts DEF WorldTypes
  <2>3. CreateKept'
    BY <1>1, <1>2, <1>5, <2>1, Facts DEF CreateKept, Grown
  <2>4. UpdateKept'
    BY <1>1, <1>2, <2>1, Facts DEF UpdateKept, Sounder
  <2>5. DeleteKept'
    BY <1>1, <1>2, <2>1, Facts DEF DeleteKept, Sounder
  <2>6. ClearKept'
    BY <1>1, <1>2, <1>5, <2>1, Facts
       DEF ClearKept, Sounder, ConfigAgrees, SecretAgrees, DirAgrees
  <2>7. PolicyKept'
    BY <1>1, <1>2 DEF PolicyKept
  <2>8. RemovedUnpublished'
    <3> SUFFICES ASSUME journal.kind = "delete", ~Exists(id), NEW u \in Calm
                 PROVE  published.route[u] # id
      BY <1>1, <2>1 DEF RemovedUnpublished
    <3>1. step = "removal" /\ Done("publish")
      BY <1>2
    <3>2. published = Current
      BY <3>1, Facts DEF PublishedCurrent
    <3>3. Home(u)
      BY Facts, StayHome DEF Moving
    <3> QED
      BY <3>2, <3>3 DEF Home, Current, Calm
  <2> QED
    BY <1>1, <1>5, <2>2, <2>3, <2>4, <2>5, <2>6, <2>7, <2>8, RepairTogether
<1>6. ASSUME Stops, container' \in [AccountId -> {"none", "running", "stopped"}],
             \A a \in AccountId \ Touched : container'[a] = "none" <=> container[a] = "none"
      PROVE  SagaInv'
  <2>1. PastTypes' /\ Grown /\ saga' = Down
    BY <1>6, Facts, FaultFields DEF Stops, Bounds, Grown
  <2>2. OperationKnown' /\ SagaKnown' /\ Records' /\ ~Busy' /\ saga'.mode = "down"
    BY <1>1, <1>2, <2>1, StepDown DEF StillThere
  <2> QED
    BY <1>5, <1>6, <2>1, <2>2, OtherKinds
<1>7. ASSUME Recovered(step), container' = IF found = 0 THEN without ELSE [without EXCEPT ![found] = "running"]
      PROVE  SagaInv'
  <2>1. PastTypes' /\ Grown /\ Repairing(step)
    BY <1>7, Facts DEF Recovered, Repairing, PastTypes, PastShape, Grown
  <2>2. OperationKnown' /\ SagaKnown' /\ Records' /\ Repaired(step)
    BY <1>1, <2>1, StepRepaired DEF StillThere
  <2>3. /\ ~Busy' /\ saga'.mode = "recover" /\ \A s : Done(s)' <=> Done(s) \/ s = step
    BY <2>2 DEF Repaired
  <2>4. /\ container' \in [AccountId -> {"none", "running", "stopped"}]
        /\ \A a \in AccountId \ Touched : container'[a] = container[a]
        /\ found = 0 => container'[id] = "none"
        /\ found # 0 => container'[found] # "none"
        /\ re /\ found # 0 => container'[other] = "none"
    <3> HIDE DEF without
    <3>1. found # 0 => found \in Touched
      BY <1>2 DEF Touched
    <3>2. re => other # found
      BY <1>3
    <3> HIDE DEF found, other
    <3> QED
      BY <1>2, <1>3, <1>4, <1>7, <3>1, <3>2
  <2>5. /\ Desired(journal)' = found /\ (Renames(journal)' <=> re)
        /\ \A d, b : (SoundDir(d, b)' <=> SoundDir(d, b)) /\ (Held(b)' <=> Held(b))
        /\ \A a : Exists(a)' <=> Exists(a)
    <3>1. past'.oauth = past.oauth /\ past'.cut = past.cut
      BY <1>7 DEF Recovered
    <3> QED
      BY <1>1, <2>1, <3>1, Repairs, SameSound
  <2>6. RecoverySteps'
    <3>1. DirAgrees(found) => DirAgrees(found)'
      BY <1>1, <2>5 DEF DirAgrees
    <3>2. DirAgrees(Desired(journal))' <=> DirAgrees(found)'
      BY <2>5 DEF DirAgrees, SoundDir, Held, Exists
    <3>3. /\ Done("removal")' => container'[id] = "none"
          /\ Done("container")' => container'[found] # "none" /\ (re => container'[other] = "none")
      <4>1. Done("removal")' => found = 0
        <5>1. Done("removal")' => "removal" \in Recovery(journal)
          BY <1>1, <2>3, DoneBefore DEF Done
        <5> QED
          BY <1>1, <5>1, RecoveryBegun
      <4>2. Done("container")' => found # 0
        <5>1. Done("container")' => "container" \in Recovery(journal)
          BY <1>1, <2>3, DoneBefore DEF Done
        <5> QED
          BY <1>1, <5>1, RecoveryBegun
      <4> QED
        BY <2>4, <4>1, <4>2
    <3>4. RecoverySteps
      BY Facts
    <3>5. Done("files")' /\ journal.kind # "clear" => DirAgrees(Desired(journal))'
      <4>1. Done("files")' => Done("files")
        BY <2>3
      <4> QED
        BY <4>1, <3>1, <3>2, <3>4 DEF RecoverySteps
    <3> QED
      BY <1>1, <2>3, <2>5, <3>3, <3>4, <3>5 DEF RecoverySteps
  <2> QED
    BY <1>5, <2>1, <2>2, <2>3, <2>4, <2>6
<1>8. \/ Recovered(step) /\ container' = IF found = 0 THEN without ELSE [without EXCEPT ![found] = "running"]
      \/ Stops /\ container' \in {container, without, StoppedAt(id)}
  BY <1>2, Zenon DEF Reconcile
<1>9. ASSUME container' \in {container, without, StoppedAt(id)}
      PROVE  /\ container' \in [AccountId -> {"none", "running", "stopped"}]
             /\ \A a \in AccountId \ Touched : container'[a] = "none" <=> container[a] = "none"
  <2> HIDE DEF without
  <2> QED
    BY <1>3, <1>4, <1>9 DEF StoppedAt
<1> QED
  BY <1>6, <1>7, <1>8, <1>9

(* RecoverRoutes keeps the invariant: evacuated users return to the *)
(* account, under whichever ID it has.                              *)
LEMMA RecoverRoutesKeeps ==
    ASSUME SagaInv, RecoverRoutes
    PROVE  SagaInv'
<1> DEFINE id == journal.id
           found == Desired(journal)
<1>1. /\ Recovering("home") /\ saga.mode = "recover"
      /\ UNCHANGED <<row, secret, homeOf, oauthDir, configFile, backup, archived, container, published,
                     journal>>
  BY DEF RecoverRoutes, routesFrame, fileVars, Recovering
<1>2. /\ Underway /\ Known /\ saga.op = journal /\ found # 0 /\ found \in AccountId /\ Exists(found)
      /\ found \in {id, journal.new}
      /\ journal.phase # "accepted"
      /\ ~Done("publish") /\ ~Busy
      /\ OperationKnown /\ SagaKnown /\ SagaShape /\ PastTypes /\ SagaBase /\ Facets
  <2>1. "home" \in Recovery(journal) /\ ~Done("publish")
    BY <1>1, DoneBefore, RepairRanks DEF RepairSteps
  <2>2. /\ Underway /\ Known /\ saga.op = journal /\ ~Busy
        /\ found \in {0, id, journal.new} /\ (found # 0 => found \in AccountId /\ Exists(found))
    BY <1>1, RecoveryBegun
  <2>3. journal.phase # "accepted" /\ found # 0
    <3>1. /\ "secret" \in Recovery(journal) => journal.phase = "begun"
          /\ "files" \in Recovery(journal) => journal.phase = "begun" /\ found # 0
          /\ journal.kind \in {"update", "clear"} => found # 0
      BY <1>1, RecoveryBegun
    <3>2. \/ "files" \in Recovery(journal)
          \/ journal.phase = "routes_prepared"
      BY <2>1 DEF Recovery, RemovalFinished, RoutesReturned
    <3> QED
      BY <2>2, <3>1, <3>2, Facts DEF OperationKnown, Moving
  <2> QED
    BY <2>1, <2>2, <2>3, Facts
<1>3. ASSUME (Stops \/ CannotRecover) /\ UNCHANGED userRoute PROVE SagaInv'
  BY <1>1, <1>3, StopsKeeps DEF WorldSame, recordVars, fileVars
<1>4. ASSUME Recovered("home"), userRoute' \in [Evacuee -> AccountId],
             \A u \in Calm : u \notin journal.moved => userRoute'[u] = userRoute[u],
             \A u \in Calm : u \in journal.moved =>
                IF row[found].enabled THEN userRoute'[u] = found ELSE userRoute'[u] = userRoute[u]
      PROVE  SagaInv'
  <2>1. PastTypes' /\ Grown /\ Bounds /\ Repairing("home") /\ Recovery(journal)' = Recovery(journal)
    BY <1>1, <1>2, <1>4, SameRows DEF Recovered, Repairing, PastTypes, PastShape, Grown, Bounds
  <2>2. SagaKnown' /\ OperationKnown' /\ Recoveries(RepairFacets) /\ ~Busy'
    BY <1>1, <1>2, <2>1, Recovers, RecoveredOnwards, OperationFrame DEF RepairFacets
  <2>3. Onwards({"plan", "control"}) /\ Onwards(FacetSteps) /\ ~Behind' /\ ~Ahead'
    BY <2>2, ElseOnwards DEF Behind, Ahead, Busy
  <2>4. RowRecords'
    BY <1>1, <2>1, <2>3, RowRecordsFrame DEF Bounds
  <2>5. Facets'
    BY <1>1, <1>2, <2>1, <2>2, <2>3, FacetsFrame DEF FacetsSame, SameOperation, Bounds
  <2>6. /\ (\A a : Exists(a)' <=> Exists(a)) /\ Touched' = Touched /\ Calm' = Calm
        /\ Desired(journal)' = found /\ (Renames(journal)' <=> Renames(journal))
    BY <1>1, <2>1, Repairs
  <2>7. ~Done("publish")'
    <3>1. saga'.todo = saga.todo \ {"home"} /\ saga'.mode = saga.mode
      BY <1>2, <2>1, RecoveredFields DEF SameSaga
    <3> QED
      BY <1>1, <1>2, <2>1, <3>1 DEF Done, Due
  <2>8. WorldTypes'
    BY <1>1, <1>4, Facts DEF WorldTypes
  <2>9. \A u \in Calm : Home(u)'
    <3> SUFFICES ASSUME NEW u \in Calm
                 PROVE  /\ Exists(userRoute'[u]) /\ row[userRoute'[u]].enabled
                        /\ row[userRoute'[u]].born = homeOf[u]
      BY <1>1, <2>6 DEF Home
    <3>1. CASE u \notin journal.moved
      BY <1>4, <3>1, Facts DEF UsersKnown, Home
    <3>2. CASE u \in journal.moved /\ row[found].enabled
      BY <1>2, <1>4, <3>2, Facts DEF UsersKnown
    <3>3. CASE u \in journal.moved /\ ~row[found].enabled
      <4>1. Exists(journal.to) /\ row[journal.to].enabled
        BY <1>2, <3>3, MovedUsers
      <4> QED
        BY <1>4, <3>3, <4>1, Facts DEF UsersKnown
    <3> QED
      BY <3>1, <3>2, <3>3
  <2>10. UsersKnown'
    <3> SUFFICES ASSUME NEW u \in Calm
                 PROVE  /\ u \notin journal.moved /\ Moving => userRoute'[u] \notin Touched
                        /\ u \in journal.moved =>
                              IF row[found].enabled
                              THEN homeOf[u] = row[found].born /\ userRoute'[u] \in Touched \cup {journal.to}
                              ELSE homeOf[u] = row[journal.to].born /\ userRoute'[u] = journal.to
                        /\ journal.kind = "create" => userRoute'[u] # id
                        /\ Renames(journal) /\ Exists(journal.new) => userRoute'[u] # id
      BY <1>1, <2>6, <2>9 DEF UsersKnown, Moving
    <3>1. UsersKnown /\ (journal.kind = "create" => journal.moved = {})
      BY <1>2, Facts DEF OperationKnown, Moving
    <3>2. Renames(journal) /\ Exists(journal.new) => found = journal.new /\ journal.new # id
      BY DEF Renames, Desired
    <3>3. found \in Touched
      BY <1>2 DEF Touched
    <3>4. CASE u \notin journal.moved
      BY <1>2, <1>4, <3>1, <3>4 DEF UsersKnown
    <3>5. CASE u \in journal.moved
      BY <1>4, <3>1, <3>2, <3>3, <3>5 DEF UsersKnown
    <3> QED
      BY <3>4, <3>5
  <2>11. OldUsers' /\ RoutesMoved'
    BY <2>2 DEF OldUsers, RoutesMoved
  <2>12. RoutesRecovered'
    BY <2>6, <2>9 DEF RoutesRecovered
  <2>13. PublishedKnown'
    BY <1>1, <2>2, <2>3, <2>6, Facts DEF PublishedKnown
  <2>14. PublishedCurrent'
    BY <1>1, <1>2, <2>2, <2>3, <2>7 DEF PublishedCurrent, Underway, Undid, Undoes
  <2>15. RemovedUnpublished'
    BY <1>1, <2>6, Facts DEF RemovedUnpublished
  <2> QED
    BY <2>1, <2>2, <2>4, <2>5, <2>8, <2>10, <2>11, <2>12, <2>13, <2>14, <2>15, AllRecords, Joined
<1>5. \/ ~row[found].enabled /\ Recovered("home") /\ UNCHANGED userRoute
      \/ row[found].enabled /\ RestoreTo(journal, found) /\ Recovered("home")
      \/ (Stops \/ CannotRecover) /\ UNCHANGED userRoute
  <2> HIDE DEF found
  <2> QED
    BY <1>2 DEF RecoverRoutes, found
<1>6. userRoute \in [Evacuee -> AccountId] /\ Calm \subseteq Evacuee
  BY Facts DEF WorldTypes, Calm
<1>7. CASE ~row[found].enabled /\ Recovered("home") /\ UNCHANGED userRoute
  <2> HIDE DEF found
  <2> QED
    BY <1>4, <1>6, <1>7
<1>8. CASE row[found].enabled /\ RestoreTo(journal, found) /\ Recovered("home")
  <2>1. userRoute' = [u \in Evacuee |-> IF u \in journal.moved THEN found ELSE userRoute[u]]
    BY <1>8 DEF RestoreTo
  <2> HIDE DEF found
  <2> QED
    BY <1>2, <1>4, <1>6, <1>8, <2>1
<1> QED
  BY <1>3, <1>5, <1>7, <1>8

---------------------------------------------------------------------------
(* The end of an operation.                                                *)

(* The journal goes, and with it the backup: nothing is left to be done.   *)
LEMMA JournalGone ==
    ASSUME SagaInv, JournalRemoved, Underway, Known,
           UNCHANGED <<recordVars, oauthDir, configFile, archived, container, published>>,
           published = Current, \A u \in Calm : Home(u),
           \A a \in AccountId : ConfigAgrees(a) /\ SecretAgrees(a) /\ ContainerAgrees(a),
           \A a \in AccountId :
               \/ DirAgrees(a)
               \/ ClearingDone /\ a = journal.id /\ oauthDir[a] = EmptyOf(row[a].born),
           ClearingDone /\ Held(row[journal.id].born) => row[journal.id].born \in archived
    PROVE  SagaInv'
<1> DEFINE id == journal.id
<1>1. /\ row' = row /\ secret' = secret /\ userRoute' = userRoute /\ homeOf' = homeOf
      /\ oauthDir' = oauthDir /\ configFile' = configFile /\ container' = container
      /\ archived' = archived /\ published' = published
      /\ journal' = NoOperation /\ backup' = NoDir /\ saga' = AtRestNow
  BY DEF JournalRemoved, recordVars
<1>2. /\ PastShape' /\ past'.ops = past.ops /\ past'.faults = past.faults
      /\ past'.crashes = past.crashes /\ past'.moves = past.moves
      /\ past'.strayed = past.strayed /\ past'.cut = past.cut
      /\ past'.oauth = {b \in past.oauth : \E a \in AccountId :
                           row[a].born = b /\ ~(ClearingDone /\ a = id)}
  BY Facts DEF JournalRemoved, PastTypes, PastShape, Known
<1>3. /\ saga.op.kind = journal.kind /\ saga.op.id = id /\ id \in AccountId
      /\ ClearingDone => journal.kind = "clear" /\ Exists(id)
  BY Facts DEF Known, ClearingDone, RowsKnown
<1>4. PastTypes' /\ past'.oauth \subseteq past.oauth
  BY <1>2, Facts DEF PastTypes
<1>5. /\ journal'.kind = "none" /\ journal'.id = 0 /\ journal'.new = 0 /\ journal'.moved = {}
      /\ journal'.phase = "none" /\ journal'.to = 0 /\ ~Underway'
  BY <1>1, Begun DEF Underway
<1>6. SagaKnown' /\ ~Busy' /\ saga'.mode = "idle"
  BY <1>1, Rests
<1>7. ~Behind' /\ ~Ahead' /\ \A s : ~Done(s)'
  BY <1>6 DEF Behind, Ahead, Done
<1>8. OperationKnown'
  BY <1>1, <1>5, <1>6 DEF OperationKnown, OpShape, NoOperation
<1>9. WorldTypes'
  BY <1>1, Facts, DirTypes DEF WorldTypes
<1>10. /\ (\A a : Exists(a)' <=> Exists(a)) /\ Calm' = Calm /\ Touched' = {0}
       /\ 0 \notin AccountId /\ ~Renames(journal)'
  BY <1>1, <1>2, <1>5, AccountSagaAssumption, SameRows DEF Calm, Touched, Renames
<1>11. RowRecords'
  BY <1>1, <1>2, <1>5, <1>6, Facts
     DEF RowRecords, AskKnown, OldRowsKnown, OldAccounts, RowsKnown, Exists, Renames
<1>12. UsersKnown'
  <2>1. \A u \in Calm : Home(u)'
    BY <1>1 DEF Home, Exists
  <2> QED
    BY <1>5, <1>10, <2>1 DEF UsersKnown, Moving
<1>13. OldUsers' /\ RoutesMoved' /\ RoutesRecovered'
  BY <1>6, <1>7 DEF OldUsers, RoutesMoved, RoutesRecovered
<1>14. PublishedKnown'
  <2>1. \A u \in Calm : Exists(published.route[u])
    BY DEF Current, Home, Calm
  <2> QED
    BY <1>1, <1>5, <1>6, <1>7, <1>10, <2>1 DEF PublishedKnown
<1>15. PublishedCurrent'
  BY <1>1 DEF PublishedCurrent, Current
<1>16. \A a \in AccountId : AccountAgrees(a)'
  <2> SUFFICES ASSUME NEW a \in AccountId PROVE AccountAgrees(a)'
    OBVIOUS
  <2>1. ConfigAgrees(a)' /\ SecretAgrees(a)' /\ ContainerAgrees(a)'
    BY <1>1 DEF ConfigAgrees, SecretAgrees, ContainerAgrees, Exists
  <2>2. DirAgrees(a)'
    <3>1. CASE DirAgrees(a)
      BY <1>1, <1>2, <1>4, <3>1 DEF DirAgrees, SoundDir, Held, Exists
    <3>2. CASE ClearingDone /\ a = id /\ oauthDir[a] = EmptyOf(row[a].born)
      <4>1. Exists(id) /\ \A c \in AccountId : c # id => row[c].born # row[id].born
        BY <1>3, <3>2, Facts DEF RowsKnown
      <4>2. row[id].born \notin past'.oauth
        BY <1>2, <3>2, <4>1
      <4>3. EmptyOf(row[id].born).of = row[id].born
        BY DEF EmptyOf
      <4> QED
        BY <1>1, <3>2, <4>1, <4>2, <4>3 DEF DirAgrees, SoundDir, Held, Exists
    <3> QED
      BY <3>1, <3>2
  <2> QED
    BY <2>1, <2>2 DEF AccountAgrees
<1>17. OthersAgree'
  BY <1>16 DEF OthersAgree
<1>18. OAuthKnown'
  <2> SUFFICES ASSUME NEW b \in Established \ (archived \cup past.cut)
               PROVE  b \in past'.oauth /\ \E a \in AccountId : row[a].born = b
    BY <1>1, <1>2 DEF OAuthKnown
  <2>1. b \in past.oauth /\ \E a \in AccountId : row[a].born = b
    BY Facts DEF OAuthKnown
  <2>2. PICK a \in AccountId : row[a].born = b
    BY <2>1
  <2>3. ~(ClearingDone /\ a = id)
    BY <2>1, <2>2 DEF Held
  <2> QED
    BY <1>2, <2>1, <2>2, <2>3
<1>19. CreateKept' /\ UpdateKept' /\ DeleteKept' /\ ClearKept' /\ PolicyKept' /\ RemovedUnpublished'
       /\ CreateSteps' /\ UpdateSteps' /\ DeleteSteps' /\ ClearSteps' /\ OldSecrets' /\ RecoverySteps'
  BY <1>5, <1>6, OtherKinds
<1>20. Records'
  BY <1>11, <1>12, <1>13, <1>14, <1>15, AllRecords
<1> QED
  BY <1>4, <1>6, <1>8, <1>9, <1>17, <1>18, <1>19, <1>20, Together

(* FinishRecovery keeps the invariant: a recovery that did all of its *)
(* steps has restored every account.                                  *)
LEMMA FinishRecoveryKeeps ==
    ASSUME SagaInv, FinishRecovery
    PROVE  SagaInv'
<1> DEFINE id == journal.id
           new == journal.new
           found == Desired(journal)
           re == Renames(journal)
           other == IF found = new THEN id ELSE new
           b == row[found].born
           prepared == journal.phase # "begun"
<1>1. /\ saga.mode = "recover" /\ saga.todo = {}
      /\ UNCHANGED <<recordVars, oauthDir, configFile, archived, container, published>>
  BY DEF FinishRecovery
<1>2. CASE Stops /\ UNCHANGED <<journal, backup>>
  BY <1>1, <1>2, StopsKeeps DEF WorldSame, fileVars
<1>3. CASE JournalRemoved
  <2>1. /\ Underway /\ Known /\ saga.op = journal
        /\ found \in {0, id, new} /\ (found # 0 => found \in AccountId /\ Exists(found))
        /\ journal.kind \in {"update", "clear", "policy"} => found # 0
        /\ journal.kind # "update" => found = (IF Exists(id) THEN id ELSE 0)
        /\ id \in AccountId /\ id # 0 /\ (journal.kind = "update" => new \in AccountId)
        /\ ~Busy
    BY <1>1, RecoveryBegun DEF Known
  <2>2. \A s : Done(s) <=> s \in Recovery(journal)
    BY <1>1 DEF Done, Due
  <2>3. /\ prepared /\ journal.kind # "policy" =>
              /\ found = (IF journal.kind = "create" THEN 0 ELSE id)
              /\ journal.phase = "accepted" => Recovery(journal) = (IF journal.kind = "create" THEN {"discard"} ELSE {})
              /\ journal.phase # "accepted" => Recovery(journal) = RoutesReturned
                                               /\ journal.kind \in {"update", "clear"}
        /\ journal.kind = "policy" => Recovery(journal) = {"render", "publish"}
        /\ ~prepared /\ journal.kind # "policy" =>
              Recovery(journal) =
                (IF found = 0 /\ journal.kind = "create"
                 THEN {"secret", "render", "publish", "removal", "discard"}
                 ELSE IF found = 0 /\ journal.kind = "delete" THEN RemovalFinished
                 ELSE {"secret", "files", "render", "container", "home", "publish"})
    <3>1. prepared /\ journal.kind # "policy" => found = (IF journal.kind = "create" THEN 0 ELSE id)
      BY <2>1, Facts DEF RowsKnown, OperationKnown, Known, Desired, Renames, Moving
    <3>2. /\ journal.phase \in {"accepted", "routes_prepared", "begun"}
          /\ journal.phase = "routes_prepared" => journal.kind \in {"update", "clear"}
      BY <2>1, Facts DEF OperationKnown, Moving
    <3>3. journal.kind = "policy" => Recovery(journal) = {"render", "publish"}
      BY DEF Recovery
    <3> HIDE DEF id
    <3>4. journal.phase = "accepted" /\ journal.kind # "policy" =>
             Recovery(journal) = (IF journal.kind = "create" THEN {"discard"} ELSE {})
      BY <3>1 DEF Recovery, id
    <3>5. journal.phase = "routes_prepared" => Recovery(journal) = RoutesReturned
      BY <3>1, <3>2 DEF Recovery, id
    <3>6. journal.phase = "begun" /\ journal.kind # "policy" =>
             Recovery(journal) =
                (IF found = 0 /\ journal.kind = "create"
                 THEN {"secret", "render", "publish", "removal", "discard"}
                 ELSE IF found = 0 /\ journal.kind = "delete" THEN RemovalFinished
                 ELSE {"secret", "files", "render", "container", "home", "publish"})
      BY <2>1 DEF Recovery, Known
    <3> QED
      BY <3>1, <3>2, <3>3, <3>4, <3>5, <3>6
  <2>4. /\ journal.phase \in {"accepted", "routes_prepared", "begun"}
        /\ journal.kind = "policy" => journal.phase = "accepted"
        /\ ~Moving => journal.moved = {}
        /\ journal.phase = "accepted" => journal.moved = {}
        /\ journal.kind \in {"create", "update", "delete", "clear", "policy"}
    BY <2>1, Facts DEF OperationKnown, Known
  <2> HIDE DEF found, other, b, id, new, re
  <2>5. published = Current
    <3>1. CASE journal.phase = "accepted" /\ journal.kind # "policy"
      BY <3>1, Facts DEF PublishedCurrent
    <3>2. CASE journal.phase # "accepted" \/ journal.kind = "policy"
      <4>1. Done("publish")
        BY <2>2, <2>3, <2>4, <3>2 DEF RoutesReturned, RemovalFinished
      <4> QED
        BY <4>1, Facts DEF PublishedCurrent
    <3> QED
      BY <3>1, <3>2
  <2>6. \A u \in Calm : Home(u)
    <3>1. CASE journal.moved = {}
      BY <3>1, Facts DEF UsersKnown
    <3>2. CASE journal.moved # {}
      <4>1. Done("home")
        BY <2>1, <2>2, <2>3, <2>4, <3>2 DEF RoutesReturned, Moving
      <4> QED
        BY <4>1, Facts DEF RoutesRecovered
    <3> QED
      BY <3>1, <3>2
  <2>7. /\ RecoverySteps /\ OthersAgree /\ RowsKnown /\ CreateKept /\ UpdateKept /\ DeleteKept
        /\ ClearKept /\ PolicyKept
    BY Facts
  <2>8. ASSUME NEW a \in AccountId, a \notin Touched PROVE AccountAgrees(a)
    BY <2>7, <2>8 DEF OthersAgree
  <2>9. CASE prepared \/ journal.kind = "policy"
    <3>1. \A a \in AccountId : a \in Touched => AccountAgrees(a)
      <4>1. Touched \subseteq {id, new} /\ (journal.kind # "update" => new = 0) /\ 0 \notin AccountId
        BY <2>1, AccountSagaAssumption DEF Touched, id, new, Known
      <4>2. CASE journal.kind = "create"
        <5>1. journal.phase = "accepted" /\ ~Exists(id) /\ Done("discard")
          BY <2>1, <2>2, <2>3, <2>4, <2>9, <4>2
        <5>2. /\ oauthDir[id] = NoDir /\ ~configFile[id] /\ secret[id] = 0 /\ container[id] = "none"
          BY <2>7, <4>2, <5>1 DEF RecoverySteps, CreateKept, id
        <5>3. AccountAgrees(id)
          BY <5>1, <5>2 DEF AccountAgrees, DirAgrees, ConfigAgrees, SecretAgrees, ContainerAgrees
        <5> QED
          BY <4>1, <4>2, <5>3
      <4>3. CASE journal.kind = "update"
        BY <2>7, <2>9, <4>1, <4>3 DEF UpdateKept, id, new
      <4>4. CASE journal.kind = "delete"
        <5>1. journal.phase = "accepted"
          BY <2>3, <2>4, <2>9, <4>4
        <5> QED
          BY <2>7, <4>1, <4>4, <5>1 DEF DeleteKept, id
      <4>5. CASE journal.kind = "clear"
        <5>1. AccountAgrees(id)
          BY <2>7, <2>9, <4>5 DEF ClearKept, AccountAgrees, id
        <5> QED
          BY <4>1, <4>5, <5>1
      <4>6. CASE journal.kind = "policy"
        BY <2>7, <4>1, <4>6 DEF PolicyKept, id
      <4> QED
        BY <2>4, <4>2, <4>3, <4>4, <4>5, <4>6
    <3>2. \A a \in AccountId : AccountAgrees(a)
      BY <2>8, <3>1
    <3>3. ~ClearingDone
      BY <1>1, <2>1, <2>9 DEF ClearingDone, Known
    <3> QED
      BY <1>1, <1>3, <2>1, <2>5, <2>6, <3>2, <3>3, JournalGone DEF AccountAgrees
  <2>10. CASE ~prepared /\ journal.kind # "policy" /\ found = 0
    <3>1. /\ journal.kind \in {"create", "delete"} /\ ~Exists(id) /\ ~ClearingDone
          /\ Done("secret") /\ Done("removal") /\ Done("discard")
      BY <2>1, <2>2, <2>3, <2>4, <2>10 DEF RemovalFinished, ClearingDone, Known
    <3>2. /\ oauthDir[id] = NoDir /\ ~configFile[id] /\ secret[id] = 0 /\ container[id] = "none"
      BY <2>7, <2>10, <3>1 DEF RecoverySteps, id, found
    <3>3. AccountAgrees(id)
      BY <3>1, <3>2 DEF AccountAgrees, DirAgrees, ConfigAgrees, SecretAgrees, ContainerAgrees
    <3>4. \A a \in AccountId : a \in Touched => a = id
      BY <2>1, <3>1, AccountSagaAssumption DEF Touched, id, Known
    <3>5. \A a \in AccountId : AccountAgrees(a)
      BY <2>8, <3>3, <3>4
    <3> QED
      BY <1>1, <1>3, <2>1, <2>5, <2>6, <3>1, <3>5, JournalGone DEF AccountAgrees
  <2>11. CASE ~prepared /\ journal.kind # "policy" /\ found # 0
    <3>1. /\ found \in AccountId /\ Exists(found) /\ found \in {id, new}
          /\ Done("secret") /\ Done("files") /\ Done("render") /\ Done("container")
      BY <2>1, <2>2, <2>3, <2>11
    <3>2. /\ configFile[found] /\ (row[found].proxy = "custom" => secret[found] # 0)
          /\ container[found] # "none"
          /\ re => /\ secret[other] = 0 /\ oauthDir[other] = NoDir /\ ~configFile[other]
                   /\ container[other] = "none"
          /\ journal.kind # "clear" => DirAgrees(found)
      BY <2>7, <2>11, <3>1 DEF RecoverySteps, id, new, found, re, other
    <3>3. secret[found] \in {0, b}
      <4>0. journal.kind # "update" => found = id /\ Exists(id)
        BY <2>1, <2>11, <3>1
      <4>1. journal.kind = "create" => found = id /\ secret[id] \in {0, b}
        BY <2>7, <4>0 DEF CreateKept, id, b
      <4>2. journal.kind = "update" => secret[found] \in {0, b}
        BY <2>7, <3>1 DEF UpdateKept, id, new, b, found
      <4>3. journal.kind = "delete" => found = id /\ secret[id] \in {0, b}
        BY <2>7, <4>0 DEF DeleteKept, id, b
      <4>4. journal.kind = "clear" => found = id /\ SecretAgrees(id)
        BY <2>1, <2>7, <3>1 DEF ClearKept, id
      <4>5. journal.kind = "clear" => secret[found] \in {0, b}
        BY <3>1, <4>4 DEF SecretAgrees, b
      <4> QED
        BY <2>4, <2>11, <4>1, <4>2, <4>3, <4>5
    <3>4. ConfigAgrees(found) /\ SecretAgrees(found) /\ ContainerAgrees(found)
      BY <3>1, <3>2, <3>3 DEF ConfigAgrees, SecretAgrees, ContainerAgrees, b
    <3>5. re => /\ ~Exists(other) /\ AccountAgrees(other)
      <4>1. re => ~Exists(id) \/ ~Exists(new)
        BY <2>7 DEF RowsKnown, re, id, new, Renames
      <4>2. re => ~Exists(other)
        BY <3>1, <4>1 DEF other
      <4> QED
        BY <3>2, <4>2 DEF AccountAgrees, DirAgrees, ConfigAgrees, SecretAgrees, ContainerAgrees
    <3>6. ASSUME NEW a \in AccountId, a # found
          PROVE  AccountAgrees(a)
      <4>1. CASE a \notin Touched
        BY <2>8, <4>1
      <4>2. CASE a \in Touched
        <5>1. a \in {id, new} /\ 0 \notin AccountId
          BY <4>2, AccountSagaAssumption DEF Touched, id, new
        <5>2. journal.kind # "update" => new = 0 /\ found = id
          BY <2>1, <2>11 DEF Known, id, new
        <5>3. re /\ a = other
          BY <3>1, <3>6, <5>1, <5>2 DEF re, Renames, other, id, new
        <5> QED
          BY <3>5, <5>3
      <4> QED
        BY <4>1, <4>2
    <3>7. \A a \in AccountId : ConfigAgrees(a) /\ SecretAgrees(a) /\ ContainerAgrees(a)
      BY <3>4, <3>6 DEF AccountAgrees
    <3>8. CASE DirAgrees(found) /\ ~ClearingDone
      <4>1. \A a \in AccountId : DirAgrees(a)
        BY <3>6, <3>8 DEF AccountAgrees
      <4> QED
        BY <1>1, <1>3, <2>1, <2>5, <2>6, <3>7, <3>8, <4>1, JournalGone
    <3>9. CASE journal.kind = "clear" /\ backup # NoDir
      <4>1. /\ found = id /\ oauthDir[id] = EmptyOf(row[id].born)
            /\ Held(row[id].born) => row[id].born \in archived
        BY <2>1, <2>7, <3>1, <3>9 DEF RecoverySteps, id
      <4>2. ClearingDone
        BY <1>1, <2>1, <2>11, <3>9 DEF ClearingDone, Known
      <4>3. \A a \in AccountId : \/ DirAgrees(a)
                                 \/ ClearingDone /\ a = id /\ oauthDir[a] = EmptyOf(row[a].born)
        BY <3>6, <4>1, <4>2 DEF AccountAgrees
      <4> QED
        BY <1>1, <1>3, <2>1, <2>5, <2>6, <3>7, <4>1, <4>3, JournalGone DEF id
    <3>10. journal.kind = "clear" /\ backup = NoDir => DirAgrees(found) /\ ~ClearingDone
      BY <1>1, <2>1, <2>7, <3>1 DEF ClearKept, ClearingDone, id
    <3>11. journal.kind # "clear" => DirAgrees(found) /\ ~ClearingDone
      BY <2>1, <3>2 DEF ClearingDone, Known
    <3> QED
      BY <3>8, <3>9, <3>10, <3>11
  <2> QED
    BY <2>9, <2>10, <2>11
<1> QED
  BY <1>2, <1>3 DEF FinishRecovery

(* An operation that did all of its steps. *)
LEMMA ForwardEnds ==
    ASSUME SagaInv, Ahead, saga.todo = {}, JournalRemoved,
           UNCHANGED <<recordVars, oauthDir, configFile, archived, container, published>>
    PROVE  SagaInv'
<1> DEFINE id == journal.id
           new == journal.new
<1>1. /\ Busy /\ Underway /\ Known /\ SagaBase /\ id \in AccountId /\ id # 0
      /\ journal.kind = "update" => new \in AccountId
      /\ journal.kind # "update" => new = 0
      /\ saga.did = Plan(journal)
  BY Facts, OpOfSaga DEF Busy, Ahead, Known, SagaKnown, ForwardKnown
<1>2. Did("publish") /\ published = Current
  BY <1>1, KindOfStep, Facts DEF Did, Known, PublishedCurrent
<1>3. \A u \in Calm : Home(u)
  <2>1. CASE Moving
    BY <1>1, <2>1, KindOfStep, Facts DEF RoutesMoved, Did, Moving, Known
  <2>2. CASE ~Moving
    BY <1>1, <2>2, Facts, StayHome
  <2> QED
    BY <2>1, <2>2
<1>4. \A a \in AccountId : a \notin Touched => AccountAgrees(a)
  BY Facts DEF OthersAgree
<1>5. Touched \subseteq {id, new} /\ 0 \notin AccountId
  BY AccountSagaAssumption DEF Touched
<1>6. CASE journal.kind = "clear"
  <2>1. Did("copy") /\ Did("files") /\ ClearingDone /\ Exists(id)
    BY <1>1, <1>6, KindOfStep, Facts DEF Did, ClearingDone, Known, Ahead, RowsKnown
  <2>2. /\ ConfigAgrees(id) /\ SecretAgrees(id) /\ container[id] # "none"
        /\ oauthDir[id] = EmptyOf(row[id].born)
        /\ Held(row[id].born) => row[id].born \in archived
    BY <1>1, <1>6, <2>1, Facts DEF ClearKept, ClearSteps
  <2>3. ContainerAgrees(id)
    BY <2>1, <2>2 DEF ContainerAgrees
  <2>4. \A a \in AccountId : a # id => AccountAgrees(a)
    BY <1>1, <1>4, <1>5, <1>6
  <2>5. \A a \in AccountId : ConfigAgrees(a) /\ SecretAgrees(a) /\ ContainerAgrees(a)
    BY <2>2, <2>3, <2>4 DEF AccountAgrees
  <2>6. \A a \in AccountId : \/ DirAgrees(a)
                             \/ ClearingDone /\ a = id /\ oauthDir[a] = EmptyOf(row[a].born)
    BY <2>1, <2>2, <2>4 DEF AccountAgrees
  <2> QED
    BY <1>1, <1>2, <1>3, <2>2, <2>5, <2>6, JournalGone
<1>7. CASE journal.kind # "clear"
  <2>1. ~ClearingDone
    BY <1>1, <1>7 DEF ClearingDone, Known
  <2>2. CASE journal.kind = "policy"
    <3>1. \A a \in AccountId : AccountAgrees(a)
      BY <1>1, <1>4, <1>5, <2>2, Facts DEF PolicyKept
    <3> QED
      BY <1>1, <1>2, <1>3, <2>1, <3>1, JournalGone DEF AccountAgrees
  <2>3. CASE journal.kind # "policy"
    <3>1. Did("control") /\ Did("note") /\ Did("secret1") /\ Did("render") /\ Did("build")
      BY <1>1, <1>7, <2>3, KindOfStep DEF Did, Known
    <3>2. row = RowsAfter(saga.old.row)
      BY <3>1, AheadRecords
    <3>3. CASE journal.kind = "create"
      <4>1. Did("directory")
        BY <1>1, <3>3, KindOfStep DEF Did, Known
      <4>2. Exists(id) /\ row[id].born = Bearer /\ row[id].proxy = saga.ask.proxy
        BY <1>1, <3>1, <3>2, <3>3, AfterRecords
      <4>3. /\ oauthDir[id] = EmptyOf(Bearer) /\ secret[id] = saga.ask.url
            /\ configFile[id] /\ container[id] = "running"
        BY <1>1, <3>1, <3>3, <4>1, Facts DEF CreateSteps
      <4>4. saga.ask.url \in {0, Bearer} /\ (saga.ask.proxy = "custom" => saga.ask.url # 0)
        BY <1>1, <3>3, Facts DEF AskKnown
      <4>5. Bearer \notin past.oauth /\ EmptyOf(Bearer).of = Bearer
        BY <3>3, <4>2, Facts DEF CreateKept, EmptyOf
      <4>6. DirAgrees(id)
        BY <4>2, <4>3, <4>5 DEF DirAgrees, SoundDir, Held
      <4>7. AccountAgrees(id)
        BY <4>2, <4>3, <4>4, <4>6
           DEF AccountAgrees, ConfigAgrees, SecretAgrees, ContainerAgrees
      <4>8. \A a \in AccountId : AccountAgrees(a)
        BY <1>1, <1>4, <1>5, <3>3, <4>7
      <4> QED
        BY <1>1, <1>2, <1>3, <2>1, <4>8, JournalGone DEF AccountAgrees
    <3>4. CASE journal.kind = "update"
      <4>1. Did("files") /\ Did("commit") /\ (Renames(journal) => Did("secret2"))
        BY <1>1, <3>4, KindOfStep DEF Did, Known
      <4>2. /\ Exists(new) /\ row[new].born = Bearer /\ row[new].proxy = saga.ask.proxy
            /\ Renames(journal) => ~Exists(id)
        BY <1>1, <3>1, <3>2, <3>4, AfterRecords
      <4>3. /\ SoundDir(oauthDir[new], Bearer) /\ configFile[new] /\ container[new] = "running"
            /\ Renames(journal) =>
                  oauthDir[id] = NoDir /\ ~configFile[id] /\ container[id] = "none"
        BY <1>1, <3>1, <3>4, <4>1, Facts DEF UpdateSteps
      <4>4. saga.ask.url \in {0, Bearer} /\ (saga.ask.proxy = "custom" => saga.ask.url # 0)
        BY <1>1, <3>4, Facts DEF AskKnown
      <4>5. \A step \in {"secret1", "secret2"} : Did(step) =>
                LET name == SecretName(journal, step) IN
                secret[name] = IF name = new THEN saga.ask.url ELSE 0
        BY <1>1, <3>4, Facts DEF UpdateSteps
      <4>6. secret[new] = saga.ask.url /\ (Renames(journal) => secret[id] = 0)
        <5>1. CASE ~Renames(journal)
          <6>1. id = new /\ SecretName(journal, "secret1") = id
            BY <3>4, <5>1 DEF Renames, SecretName
          <6> QED
            BY <3>1, <4>5, <5>1, <6>1
        <5>2. CASE Renames(journal)
          <6>1. id # new /\ {SecretName(journal, "secret1"), SecretName(journal, "secret2")} = {id, new}
            BY <5>2 DEF Renames, SecretName
          <6> HIDE DEF id, new
          <6> QED
            BY <3>1, <4>1, <4>5, <5>2, <6>1
        <5> QED
          BY <5>1, <5>2
      <4>7. AccountAgrees(new)
        BY <4>2, <4>3, <4>4, <4>6
           DEF AccountAgrees, DirAgrees, ConfigAgrees, SecretAgrees, ContainerAgrees
      <4>8. Renames(journal) => AccountAgrees(id)
        BY <4>2, <4>3, <4>6
           DEF AccountAgrees, DirAgrees, ConfigAgrees, SecretAgrees, ContainerAgrees
      <4>9. ~Renames(journal) => id = new
        BY <3>4 DEF Renames
      <4>10. \A a \in AccountId : AccountAgrees(a)
        BY <1>1, <1>4, <1>5, <4>7, <4>8, <4>9
      <4> QED
        BY <1>1, <1>2, <1>3, <2>1, <4>10, JournalGone DEF AccountAgrees
    <3>5. CASE journal.kind = "delete"
      <4>1. Did("stop") /\ Did("remove")
        BY <1>1, <3>5, KindOfStep DEF Did, Known
      <4>2. ~Exists(id)
        BY <3>1, <3>5, RemovedRow
      <4>3. oauthDir[id] = NoDir /\ ~configFile[id] /\ secret[id] = 0 /\ container[id] = "none"
        BY <1>1, <3>1, <3>5, <4>1, Facts DEF DeleteSteps
      <4>4. AccountAgrees(id)
        BY <4>2, <4>3 DEF AccountAgrees, DirAgrees, ConfigAgrees, SecretAgrees, ContainerAgrees
      <4>5. \A a \in AccountId : AccountAgrees(a)
        BY <1>1, <1>4, <1>5, <3>5, <4>4
      <4> QED
        BY <1>1, <1>2, <1>3, <2>1, <4>5, JournalGone DEF AccountAgrees
    <3> QED
      BY <1>1, <1>7, <2>3, <3>3, <3>4, <3>5 DEF Known
  <2> QED
    BY <2>2, <2>3
<1> QED
  BY <1>6, <1>7

(* A compensation that undid all that the operation had done. *)
LEMMA BackwardEnds ==
    ASSUME SagaInv, Behind, ~saga.dirty, saga.todo = {}, JournalRemoved,
           UNCHANGED <<recordVars, oauthDir, configFile, archived, container, published>>
    PROVE  SagaInv'
<1> DEFINE id == journal.id
           new == journal.new
           re == Renames(journal)
           undo == Undo(journal.kind, saga.did)
<1>1. /\ Busy /\ Underway /\ Known /\ SagaBase /\ id \in AccountId /\ id # 0 /\ ~Ahead
      /\ journal.kind = "update" => new \in AccountId
      /\ journal.kind # "update" => new = 0
      /\ \A s \in undo : Undid(s)
      /\ ~ClearingDone
  BY Facts, OpOfSaga DEF Busy, Ahead, Behind, Known, Undid, Undoes, Due, ClearingDone
<1>2. /\ \A s : Did(s) => s \in Plan(journal)
      /\ Did("control") /\ journal.kind # "policy" => Did("note")
      /\ Did("files") => Did("note")
      /\ Did("build") => Did("control")
      /\ Did("commit") => Did("control")
      /\ Did("secret1") => Did("control")
  <2>1. /\ saga.did \subseteq Plan(journal)
        /\ \A s \in saga.did, t \in Plan(journal) : Forward[t] <= Forward[s] => t \in saga.did
    BY <1>1, Facts DEF SagaKnown, BackKnown
  <2> QED
    BY <1>1, <2>1, KindOfStep, ForwardRanks DEF Did, Known
<1>3. OldRows = row /\ ~Applied /\ Bearer # 0
  <2>1. Did("control") => row = saga.old.row
    BY <1>1, Facts DEF OldRowsKnown, Applied, Due
  <2> QED
    BY <1>1, <2>1, Bearers DEF OldRows, Applied, Due
<1>4. /\ journal.kind = "create" => ~Exists(id)
      /\ journal.kind # "create" => Exists(id) /\ row[id].born = Bearer
      /\ re => ~Exists(new) /\ new # id
  BY <1>1, <1>3, Facts DEF OldAccounts, Exists, Bearer, Renames
<1>5. "publish" \in undo \/ (~Did("move") /\ ~Did("control"))
  <2>1. CASE journal.kind \in {"update", "clear"}
    BY <1>2, <2>1 DEF Undo, Did
  <2>2. CASE journal.kind \in {"create", "delete"}
    BY <1>1, <1>2, <2>2, KindOfStep DEF Undo, Did, Known
  <2>3. CASE journal.kind = "policy"
    BY <1>1, <1>2, <2>3, KindOfStep DEF Undo, Did, Known, PolicyChange
  <2> QED
    BY <1>1, <2>1, <2>2, <2>3 DEF Known
<1>6. published = Current
  BY <1>1, <1>5, Facts DEF PublishedCurrent
<1>7. \A u \in Calm : Home(u)
  <2>1. CASE ~Moving
    BY <1>1, <2>1, Facts, StayHome
  <2>2. CASE Moving /\ "home" \in undo
    BY <1>1, <2>2, Facts DEF RoutesMoved
  <2>3. CASE Moving /\ "home" \notin undo
    <3>1. ~Did("move") /\ ~Did("control")
      BY <1>2, <2>3 DEF Undo, Did, Moving
    <3>2. Desired(journal) = id /\ Exists(id)
      BY <1>1, <1>4, <2>3, <3>1, Bearers DEF Moving
    <3> SUFFICES ASSUME NEW u \in Calm PROVE Home(u)
      OBVIOUS
    <3>3. CASE u \notin journal.moved
      BY <3>3, Facts DEF UsersKnown
    <3>4. CASE u \in journal.moved
      <4>1. userRoute[u] = id /\ row[id].enabled
        BY <1>1, <1>3, <2>3, <3>1, <3>4, Facts DEF RoutesMoved
      <4>2. homeOf[u] = row[id].born
        BY <3>2, <3>4, <4>1, Facts DEF UsersKnown
      <4> QED
        BY <3>2, <4>1, <4>2 DEF Home
    <3> QED
      BY <3>3, <3>4
  <2> QED
    BY <2>1, <2>2, <2>3
<1>8. \A a \in AccountId : a \notin Touched => AccountAgrees(a)
  BY Facts DEF OthersAgree
<1>9. Touched \subseteq {id, new} /\ 0 \notin AccountId
  BY AccountSagaAssumption DEF Touched
<1>10. /\ Did("control") /\ journal.kind \in {"create", "update", "delete"} =>
             Undid("build") /\ Undid("secrets")
       /\ journal.kind \in {"create", "delete"} => Undid("files")
       /\ journal.kind \in {"update", "clear"} /\ Did("note") => Undid("files")
       /\ journal.kind = "update" /\ Did("note") => Undid("build") /\ Undid("secrets") /\ Undid("render")
  BY <1>1, <1>2 DEF Undo, Did
<1>11. ASSUME journal.kind # "create", secret = saga.old.secret
       PROVE  SecretAgrees(id) /\ (re => secret[new] = 0)
  BY <1>1, <1>3, <1>4, <1>11, Facts DEF OldSecrets, SecretAgrees
<1>12. CASE journal.kind = "create"
  <2>1. oauthDir[id] = NoDir /\ ~configFile[id]
    BY <1>1, <1>10, <1>12, Facts DEF CreateSteps
  <2>2. secret[id] = 0
    BY <1>1, <1>10, <1>12, Facts DEF CreateSteps, OldSecrets
  <2>3. container[id] = "none"
    BY <1>1, <1>2, <1>10, <1>12, Facts DEF CreateSteps
  <2>4. AccountAgrees(id)
    BY <1>4, <1>12, <2>1, <2>2, <2>3
       DEF AccountAgrees, DirAgrees, ConfigAgrees, SecretAgrees, ContainerAgrees
  <2> QED
    BY <1>1, <1>8, <1>9, <1>12, <1>6, <1>7, <2>4, JournalGone DEF AccountAgrees
<1>13. CASE journal.kind = "update"
  <2>1. AccountAgrees(id) /\ AccountAgrees(new)
    <3>1. CASE ~Did("note")
      BY <1>1, <1>2, <1>13, <3>1, Facts DEF UpdateSteps
    <3>2. CASE Did("note")
      <4>1. /\ SoundDir(oauthDir[id], Bearer) /\ configFile[id] /\ container[id] # "none"
            /\ secret = saga.old.secret
            /\ re => oauthDir[new] = NoDir /\ ~configFile[new] /\ container[new] = "none"
        BY <1>1, <1>10, <1>13, <3>2, Facts DEF UpdateSteps
      <4>2. AccountAgrees(id)
        BY <1>4, <1>11, <1>13, <4>1
           DEF AccountAgrees, DirAgrees, ConfigAgrees, ContainerAgrees
      <4>3. re => AccountAgrees(new)
        BY <1>4, <1>11, <1>13, <4>1
           DEF AccountAgrees, DirAgrees, ConfigAgrees, SecretAgrees, ContainerAgrees
      <4>4. ~re => new = id
        BY <1>13 DEF Renames
      <4> QED
        BY <4>2, <4>3, <4>4
    <3> QED
      BY <3>1, <3>2
  <2> QED
    BY <1>1, <1>8, <1>9, <1>13, <1>6, <1>7, <2>1, JournalGone DEF AccountAgrees
<1>14. CASE journal.kind = "delete"
  <2>1. configFile[id] /\ SoundDir(oauthDir[id], Bearer)
    BY <1>1, <1>10, <1>14, Facts DEF DeleteSteps, Due
  <2>2. container[id] # "none"
    BY <1>1, <1>2, <1>10, <1>14, Facts DEF DeleteSteps
  <2>3. SecretAgrees(id)
    <3>1. CASE Did("control")
      BY <1>1, <1>10, <1>11, <1>14, <3>1, Facts DEF DeleteSteps
    <3>2. CASE ~Did("control")
      BY <1>1, <1>14, <3>2, Facts DEF DeleteSteps
    <3> QED
      BY <3>1, <3>2
  <2>4. AccountAgrees(id)
    BY <1>4, <1>14, <2>1, <2>2, <2>3 DEF AccountAgrees, DirAgrees, ConfigAgrees, ContainerAgrees
  <2> QED
    BY <1>1, <1>8, <1>9, <1>14, <1>6, <1>7, <2>4, JournalGone DEF AccountAgrees
<1>15. CASE journal.kind = "clear"
  <2>1. ConfigAgrees(id) /\ SecretAgrees(id) /\ container[id] # "none" /\ DirAgrees(id)
    BY <1>1, <1>2, <1>10, <1>15, Facts DEF ClearKept, ClearSteps
  <2>2. AccountAgrees(id)
    BY <1>4, <1>15, <2>1 DEF AccountAgrees, ContainerAgrees
  <2> QED
    BY <1>1, <1>8, <1>9, <1>15, <1>6, <1>7, <2>2, JournalGone DEF AccountAgrees
<1>16. CASE journal.kind = "policy"
  <2>1. AccountAgrees(id)
    BY <1>16, Facts DEF PolicyKept
  <2> QED
    BY <1>1, <1>8, <1>9, <1>16, <1>6, <1>7, <2>1, JournalGone DEF AccountAgrees
<1> QED
  BY <1>1, <1>12, <1>13, <1>14, <1>15, <1>16 DEF Known

(* End keeps the invariant: with the journal gone, with an error kept, or *)
(* with a journal that could not be removed.                              *)
LEMMA EndKeeps ==
    ASSUME SagaInv, End
    PROVE  SagaInv'
<1>1. /\ saga.mode \in {"forward", "back"} /\ saga.todo = {} /\ Busy /\ Underway
      /\ UNCHANGED <<recordVars, oauthDir, configFile, archived, container, published>>
  BY Facts, OpOfSaga DEF End, Busy
<1>2. CASE ~saga.dirty /\ JournalRemoved
  BY <1>1, <1>2, ForwardEnds, BackwardEnds DEF Ahead, Behind
<1>3. CASE saga.dirty /\ saga' = AtRestNow /\ UNCHANGED <<journal, backup, past>>
  <2>1. PastTypes' /\ Bounds
    BY <1>3, Facts DEF PastTypes, PastShape, Bounds
  <2> QED
    BY <1>1, <1>3, <2>1, DownKeeps DEF WorldSame, fileVars
<1>4. CASE ~saga.dirty /\ Fault /\ saga' = AtRestNow /\ UNCHANGED <<journal, backup>>
  BY <1>1, <1>4, Facts, FaultFields, DownKeeps DEF WorldSame, fileVars
<1> QED
  BY <1>1, <1>2, <1>3, <1>4 DEF End

---------------------------------------------------------------------------
(* The beginning of an operation, and what others do.                      *)

(* Between operations every account agrees and everybody is at home. *)
LEMMA AtRest ==
    ASSUME SagaInv, ~Underway
    PROVE  /\ saga.mode = "idle" /\ backup = NoDir /\ published = Current
           /\ \A a \in AccountId : AccountAgrees(a)
           /\ \A u \in Calm : Home(u)
<1>1. Touched = {0} /\ 0 \notin AccountId /\ journal.moved = {}
  BY Begun, AccountSagaAssumption DEF Underway, Touched
<1> QED
  BY <1>1, Facts DEF OperationKnown, PublishedCurrent, OthersAgree, UsersKnown

(* Begin keeps the invariant: an accepted operation starts from accounts *)
(* that agree.                                                           *)
LEMMA BeginKeeps ==
    ASSUME SagaInv, ~TakenIds,
           NEW kind \in {"create", "update", "delete", "clear", "policy"}, NEW id \in AccountId,
           NEW new, NEW proxy \in {"inherit", "custom"}, NEW enabled \in BOOLEAN,
           NEW to, kind \in {"create", "update", "clear"} => to = 0,
           IF kind = "update" THEN new \in AccountId ELSE new = 0,
           Begin(kind, id, new, proxy, enabled, to)
    PROVE  SagaInv'
<1> DEFINE op == [kind |-> kind, id |-> id, new |-> new, phase |-> "accepted",
                  moved |-> {}, to |-> 0]
           url == CASE kind = "create" -> IF proxy = "custom" THEN NewIdentity ELSE 0
                    [] kind = "update" -> IF proxy = "custom" THEN row[id].born ELSE secret[id]
                    [] OTHER -> 0
           ask == [proxy |-> proxy, enabled |-> enabled, to |-> to, url |-> url, born |-> NewIdentity]
           old == [secret |-> secret, container |-> container[id]]
<1>1. /\ ~Underway /\ saga.mode = "idle" /\ backup = NoDir /\ published = Current
      /\ \A a \in AccountId : AccountAgrees(a)
      /\ \A u \in Calm : Home(u)
  BY AtRest DEF Begin, Underway
<1>2. /\ row' = row /\ secret' = secret /\ userRoute' = userRoute /\ homeOf' = homeOf
      /\ oauthDir' = oauthDir /\ configFile' = configFile /\ container' = container
      /\ backup' = backup /\ archived' = archived /\ published' = published
  BY DEF Begin, operationFrame, recordVars, fileVars
<1>3. /\ kind = "create" => secret[id] = 0 /\ ~Exists(id)
      /\ kind # "create" => Exists(id)
      /\ kind = "update" /\ new # id => secret[new] = 0 /\ ~Exists(new)
      /\ kind = "delete" \/ (kind = "policy" /\ ~enabled) => to \in Fallbacks(id)
  BY DEF Begin
<1>4. journal' = op /\ saga' = [AtRestNow EXCEPT !.mode = "forward", !.todo = Plan(op), !.op = op,
                                                 !.ask = ask, !.old = old]
      /\ past' = [past EXCEPT !.ops = @ + 1]
  BY DEF Begin
<1> HIDE DEF ask, old, url
<1>5. /\ journal'.kind = kind /\ journal'.id = id /\ journal'.new = new
      /\ journal'.phase = "accepted" /\ journal'.moved = {} /\ journal'.to = 0
      /\ Underway' /\ journal' = op
  BY <1>4, Begun DEF Underway
<1>6. /\ saga'.mode = "forward" /\ saga'.todo = Plan(op) /\ saga'.did = {} /\ saga'.op = op
      /\ saga'.ask = ask /\ saga'.old = old /\ saga'.dirty = FALSE /\ SagaShape'
  BY <1>4 DEF AtRestNow, SagaShape
<1> HIDE DEF op
<1>7. /\ PastShape' /\ past'.ops = past.ops + 1 /\ past'.faults = past.faults
      /\ past'.crashes = past.crashes /\ past'.moves = past.moves /\ past'.strayed = past.strayed
      /\ past'.oauth = past.oauth /\ past'.cut = past.cut
  BY <1>4, Facts DEF PastTypes, PastShape
<1>8. PastTypes' /\ past.ops \in Nat
  BY <1>7, Facts DEF PastTypes
<1>9. WorldTypes'
  BY <1>2, Facts DEF WorldTypes
<1>10. /\ Busy' /\ Ahead' /\ ~Behind' /\ \A s : ~Did(s)'
       /\ \A s : ~Undid(s)'
       /\ OldRows' = row /\ ~Applied'
       /\ \A a : Exists(a)' <=> Exists(a)
       /\ Calm' = Calm /\ Touched' = {id, new}
       /\ Renames(journal)' <=> kind = "update" /\ new # id
       /\ Moving' <=> kind \in {"update", "clear"}
  BY <1>2, <1>5, <1>6, <1>7
     DEF Busy, Ahead, Behind, Did, Undid, Undoes, OldRows, Applied, Exists, Calm, Touched,
         Renames, Moving
<1>11. /\ ask.born = 0 - past'.ops /\ past'.ops > 0 /\ ask.proxy = proxy
       /\ ask.enabled = enabled /\ ask.to = to /\ ask.url = url
       /\ old.secret = secret /\ old.container = container[id]
  BY <1>7, <1>8 DEF ask, old, NewIdentity
<1>12. Bearer' = (IF kind = "create" THEN 0 - past'.ops ELSE row[id].born)
  BY <1>5, <1>6, <1>10, <1>11 DEF Bearer
<1>13. OperationKnown'
  <2>1. OpShape(journal)'
    BY <1>5 DEF OpShape, op
  <2> QED
    BY <1>5, <1>10, <2>1 DEF OperationKnown
<1>14. SagaKnown'
  <2>1. Plan(journal)' = Plan(op)
    BY <1>5 DEF Plan, Renames
  <2>2. ForwardKnown' /\ BackKnown' /\ RecoverKnown'
    BY <1>6, <1>10, <2>1 DEF ForwardKnown, BackKnown, RecoverKnown
  <2>3. OpShape(saga.op)'
    BY <1>6 DEF OpShape, op
  <2> QED
    BY <1>5, <1>6, <1>10, <2>2, <2>3 DEF SagaKnown
<1>15. \A a \in AccountId : AccountAgrees(a)'
  BY <1>1, <1>2, <1>7, <1>10
     DEF AccountAgrees, DirAgrees, ConfigAgrees, SecretAgrees, ContainerAgrees, SoundDir, Held
<1>16. /\ row \in [AccountId -> Account]
       /\ \A a \in AccountId : row[a].born \in Int /\ row[a].born >= 0 - past.ops
       /\ \A a, b \in AccountId : a # b /\ Exists(a) => row[a].born # row[b].born
  BY Facts DEF WorldTypes, Account, RowsKnown
<1>17. /\ SecretAgrees(id) /\ ContainerAgrees(id) /\ DirAgrees(id) /\ ConfigAgrees(id)
       /\ kind # "create" => secret[id] \in {0, row[id].born} /\ row[id].born # 0
                             /\ (row[id].proxy = "custom" => secret[id] # 0)
       /\ kind # "create" => container[id] # "none" /\ SoundDir(oauthDir[id], row[id].born)
                             /\ configFile[id]
       /\ kind = "create" => container[id] = "none" /\ oauthDir[id] = NoDir /\ ~configFile[id]
       /\ kind = "update" /\ new # id => container[new] = "none" /\ oauthDir[new] = NoDir
                                         /\ ~configFile[new]
  <2>1. AccountAgrees(id) /\ (kind = "update" => AccountAgrees(new))
    BY <1>1
  <2> QED
    BY <1>3, <2>1 DEF AccountAgrees, SecretAgrees, ContainerAgrees, DirAgrees, ConfigAgrees, Exists
<1>18. AskKnown'
  <2>1. kind \in {"create", "update"} => /\ url \in {0, Bearer'}
                                         /\ proxy = "custom" => url # 0
    BY <1>7, <1>8, <1>12, <1>17 DEF url, NewIdentity
  <2>2. kind = "delete" => url = 0
    BY DEF url
  <2>3. kind = "delete" \/ (kind = "policy" /\ ~enabled) =>
           to \in AccountId \ {id} /\ Exists(to) /\ row[to].enabled
    BY <1>3 DEF Fallbacks
  <2> QED
    BY <1>2, <1>5, <1>6, <1>10, <1>11, <2>1, <2>2, <2>3 DEF AskKnown
<1>19. OldRowsKnown'
  BY <1>10 DEF OldRowsKnown
<1>20. OldAccounts'
  BY <1>3, <1>5, <1>6, <1>7, <1>8, <1>10, <1>11, <1>16 DEF OldAccounts, Exists
<1>21. RowsKnown'
  <2>1. \A a \in AccountId : row[a].born >= 0 - (past.ops + 1)
    BY <1>8, <1>16
  <2> QED
    BY <1>2, <1>3, <1>5, <1>7, <1>10, <1>16, <2>1 DEF RowsKnown
<1>22. UsersKnown' /\ OldUsers' /\ RoutesMoved' /\ RoutesRecovered'
  <2>1. \A u \in Calm : Home(u)' /\ Exists(userRoute[u])
    BY <1>1, <1>2, <1>10 DEF Home
  <2>2. UsersKnown'
    BY <1>2, <1>3, <1>5, <1>10, <2>1 DEF UsersKnown
  <2>3. RoutesMoved'
    BY <1>2, <1>3, <1>5, <1>10, <2>1 DEF RoutesMoved
  <2>4. OldUsers' /\ RoutesRecovered'
    BY <1>6, <1>10 DEF OldUsers, RoutesRecovered, Done
  <2> QED
    BY <2>2, <2>3, <2>4
<1>23. PublishedCurrent' /\ published'.route = userRoute
  BY <1>1, <1>2 DEF PublishedCurrent, Current
<1>24. PublishedKnown'
  <2>1. \A u \in Calm : Exists(userRoute[u])
    BY <1>1 DEF Home
  <2> QED
    BY <1>3, <1>5, <1>10, <1>23, <2>1 DEF PublishedKnown
<1>25. Records'
  BY <1>18, <1>19, <1>20, <1>21, <1>22, <1>23, <1>24 DEF Records
<1>26. OldSecrets'
  <2>1. /\ secret \in [AccountId -> Int] /\ container[id] \in {"none", "running", "stopped"}
    BY Facts DEF WorldTypes
  <2> QED
    BY <1>2, <1>3, <1>5, <1>6, <1>10, <1>11, <1>12, <1>17, <2>1 DEF OldSecrets
<1>27. OthersAgree'
  BY <1>15 DEF OthersAgree
<1>28. OAuthKnown'
  BY <1>2, <1>7, Facts DEF OAuthKnown
<1>29. RecoverySteps'
  BY <1>6, OtherKinds
<1>30. NoDir.of = 0
  BY DEF NoDir
<1>31. \A dir, b : SoundDir(dir, b)' <=> SoundDir(dir, b)
  BY <1>7 DEF SoundDir, Held
<1>32. CreateKept' /\ CreateSteps'
  BY <1>1, <1>2, <1>3, <1>5, <1>6, <1>10, <1>11, <1>12, <1>17 DEF CreateKept, CreateSteps
<1>33. UpdateKept' /\ UpdateSteps'
  <2> SUFFICES ASSUME kind = "update" PROVE UpdateKept' /\ UpdateSteps'
    BY <1>5, OtherKinds
  <2>1. Desired(journal)' = id
    BY <1>3, <1>5, <1>10 DEF Desired
  <2>2. new # id \/ new = id
    OBVIOUS
  <2>3. SoundDir(oauthDir[id], row[id].born)'
    BY <1>2, <1>17, <1>31
  <2>4. /\ secret[id] \in {0, row[id].born} /\ secret[new] \in {0, row[id].born}
        /\ SecretAgrees(id)' /\ SecretAgrees(new)'
    BY <1>3, <1>15, <1>17 DEF AccountAgrees
  <2>5. UpdateKept'
    BY <1>1, <1>2, <1>5, <1>10, <1>15, <1>17, <1>30, <2>1, <2>3, <2>4 DEF UpdateKept
  <2>6. UpdateSteps'
    BY <1>1, <1>2, <1>5, <1>6, <1>10, <1>12, <1>15, <1>17, <2>1, <2>3, <2>4 DEF UpdateSteps
  <2> QED
    BY <2>5, <2>6
<1>34. DeleteKept' /\ DeleteSteps' /\ RemovedUnpublished'
  <2> SUFFICES ASSUME kind = "delete" PROVE DeleteKept' /\ DeleteSteps' /\ RemovedUnpublished'
    BY <1>5, OtherKinds
  <2>1. SoundDir(oauthDir[id], row[id].born)' /\ SecretAgrees(id)' /\ AccountAgrees(id)'
    BY <1>2, <1>15, <1>17, <1>31 DEF AccountAgrees
  <2>2. DeleteKept' /\ RemovedUnpublished'
    BY <1>1, <1>2, <1>3, <1>5, <1>10, <1>17, <1>30, <2>1 DEF DeleteKept, RemovedUnpublished
  <2>3. DeleteSteps'
    BY <1>1, <1>2, <1>5, <1>10, <1>12, <1>17, <1>30, <2>1 DEF DeleteSteps
  <2> QED
    BY <2>2, <2>3
<1>35. ClearKept' /\ ClearSteps'
  <2> SUFFICES ASSUME kind = "clear" PROVE ClearKept' /\ ClearSteps'
    BY <1>5, OtherKinds
  <2>1. DirAgrees(id)' /\ ConfigAgrees(id)' /\ SecretAgrees(id)' /\ ContainerAgrees(id)'
    BY <1>15 DEF AccountAgrees
  <2> QED
    BY <1>1, <1>2, <1>5, <1>10, <1>17, <1>30, <2>1 DEF ClearKept, ClearSteps
<1>36. PolicyKept'
  BY <1>1, <1>2, <1>5, <1>15 DEF PolicyKept
<1> QED
  BY <1>8, <1>9, <1>13, <1>14, <1>25, <1>26, <1>27, <1>28, <1>29, <1>32, <1>33, <1>34, <1>35,
     <1>36, Together

(* OperatorAsks keeps the invariant, for each operation that an operator *)
(* can ask for.                                                          *)
LEMMA OperatorAsksKeeps ==
    ASSUME SagaInv, ~TakenIds, OperatorAsks
    PROVE  SagaInv'
<1>1. PICK id \in AccountId :
        \/ \E proxy \in {"inherit", "custom"} : Begin("create", id, 0, proxy, TRUE, 0)
        \/ \E new \in AccountId, enabled \in BOOLEAN, proxy \in {"inherit", "custom"} :
              Begin("update", id, new, proxy, enabled, 0)
        \/ \E to \in AccountId : Begin("delete", id, 0, row[id].proxy, FALSE, to)
        \/ Begin("clear", id, 0, row[id].proxy, TRUE, 0)
        \/ \E enabled \in BOOLEAN, to \in AccountId \cup {0} :
              Begin("policy", id, 0, row[id].proxy, enabled, to)
  BY DEF OperatorAsks
<1>2. row[id].proxy \in {"inherit", "custom"}
  BY Facts DEF WorldTypes, Account
<1>3. CASE \E proxy \in {"inherit", "custom"} : Begin("create", id, 0, proxy, TRUE, 0)
  BY <1>3, BeginKeeps
<1>4. CASE \E new \in AccountId, enabled \in BOOLEAN, proxy \in {"inherit", "custom"} :
              Begin("update", id, new, proxy, enabled, 0)
  BY <1>4, BeginKeeps
<1>5. CASE \E to \in AccountId : Begin("delete", id, 0, row[id].proxy, FALSE, to)
  BY <1>2, <1>5, BeginKeeps
<1>6. CASE Begin("clear", id, 0, row[id].proxy, TRUE, 0)
  BY <1>2, <1>6, BeginKeeps
<1>7. CASE \E enabled \in BOOLEAN, to \in AccountId \cup {0} :
              Begin("policy", id, 0, row[id].proxy, enabled, to)
  BY <1>2, <1>7, BeginKeeps
<1> QED
  BY <1>1, <1>3, <1>4, <1>5, <1>6, <1>7

(* A saga that stays where it is. *)
LEMMA SagaWaits ==
    ASSUME UNCHANGED <<row, journal, saga>>, NEW steps
    PROVE  Onwards(steps) /\ Recoveries(steps)
<1>1. /\ (Behind' <=> Behind) /\ (Busy' <=> Busy) /\ (Ahead' <=> Ahead)
      /\ ~(Ahead /\ Behind) /\ (Ahead => Busy) /\ (Behind => Busy)
      /\ \A s : (Due(s)' <=> Due(s)) /\ (Did(s)' <=> Did(s)) /\ (Undid(s)' <=> Undid(s))
      /\ saga'.todo = saga.todo /\ saga'.dirty = saga.dirty /\ saga'.ask = saga.ask
      /\ saga'.old = saga.old /\ saga'.op = saga.op
  BY DEF Behind, Busy, Ahead, Due, Did, Undid, Undoes
<1>2. Recovery(journal)' = Recovery(journal)
  BY SameRows
<1>3. \A s : Done(s)' <=> Done(s)
  BY <1>1, <1>2 DEF Done
<1>4. Onwards(steps)
  <2>1. Applied' <=> Applied
    BY <1>1 DEF Applied
  <2> QED
    BY <1>1, <2>1 DEF Onwards
<1>5. Recoveries(steps)
  BY <1>3 DEF Recoveries
<1> QED
  BY <1>4, <1>5

(* What is known of a saga that stays where it is. *)
LEMMA SagaStays ==
    ASSUME SagaInv, UNCHANGED <<row, journal, saga>>, past'.ops = past.ops
    PROVE  /\ SagaKnown' /\ RowRecords'
           /\ (Behind' <=> Behind) /\ (Busy' <=> Busy) /\ (Ahead' <=> Ahead) /\ (Underway' <=> Underway)
           /\ \A s : (Due(s)' <=> Due(s)) /\ (Did(s)' <=> Did(s)) /\ (Undid(s)' <=> Undid(s))
                     /\ (Done(s)' <=> Done(s))
<1>1. /\ (Behind' <=> Behind) /\ (Busy' <=> Busy) /\ (Ahead' <=> Ahead) /\ (Underway' <=> Underway)
      /\ ~(Ahead /\ Behind) /\ (Ahead => Busy) /\ (Behind => Busy)
      /\ \A s : (Due(s)' <=> Due(s)) /\ (Did(s)' <=> Did(s)) /\ (Undid(s)' <=> Undid(s))
  BY DEF Behind, Busy, Ahead, Underway, Due, Did, Undid, Undoes
<1>2. /\ \A a : Exists(a)' <=> Exists(a)
      /\ Recovery(journal)' = Recovery(journal) /\ Plan(journal)' = Plan(journal)
  BY SameRows DEF Plan, Renames
<1>3. \A s : Done(s)' <=> Done(s)
  BY <1>1, <1>2 DEF Done
<1>5. SagaKnown'
  <2>1. SagaShape' /\ OpShape(saga.op)' = OpShape(saga.op) /\ (Moving' <=> Moving)
    BY Facts DEF SagaShape, OpShape, Moving
  <2>2. ForwardKnown' /\ BackKnown' /\ RecoverKnown'
    BY <1>1, <1>2, Facts DEF SagaKnown, ForwardKnown, BackKnown, RecoverKnown
  <2> QED
    BY <1>1, <2>1, <2>2, Facts DEF SagaKnown
<1>6. RowRecords'
  BY SagaWaits, RowRecordsFrame
<1> QED
  BY <1>1, <1>3, <1>5, <1>6

(* OthersMove keeps the invariant: a user that Failover or the Portal *)
(* moves during an operation is not counted upon any more.            *)
LEMMA OthersMoveKeeps ==
    ASSUME SagaInv, OthersMove
    PROVE  SagaInv'
<1>1. PICK u \in Evacuee, to \in AccountId :
        /\ Exists(to) /\ row[to].enabled
        /\ userRoute' = [userRoute EXCEPT ![u] = to]
        /\ homeOf' = [homeOf EXCEPT ![u] = row[to].born]
        /\ published' = [route |-> userRoute', account |-> row]
        /\ past' = [past EXCEPT !.moves = @ + 1,
                                !.strayed = IF journal = NoOperation THEN @ ELSE @ \cup {u}]
        /\ UNCHANGED <<row, secret, fileVars, container, journal, saga>>
  BY DEF OthersMove
<1>2. /\ row' = row /\ secret' = secret /\ oauthDir' = oauthDir /\ configFile' = configFile
      /\ backup' = backup /\ archived' = archived /\ container' = container
      /\ journal' = journal /\ saga' = saga
  BY <1>1 DEF fileVars
<1>3. /\ PastShape' /\ past'.ops = past.ops /\ past'.faults = past.faults
      /\ past'.crashes = past.crashes /\ past'.moves = past.moves + 1
      /\ past'.strayed = (IF journal = NoOperation THEN past.strayed ELSE past.strayed \cup {u})
      /\ past'.oauth = past.oauth /\ past'.cut = past.cut
  BY <1>1, Facts DEF PastTypes, PastShape
<1>4. PastTypes'
  BY <1>3, Facts DEF PastTypes
<1>5. /\ userRoute \in [Evacuee -> AccountId] /\ homeOf \in [Evacuee -> Int]
      /\ row \in [AccountId -> Account] /\ row[to].born \in Int
  BY Facts DEF WorldTypes, Account
<1>6. /\ userRoute' \in [Evacuee -> AccountId] /\ homeOf' \in [Evacuee -> Int]
      /\ userRoute'[u] = to /\ homeOf'[u] = row[to].born
      /\ \A v \in Evacuee \ {u} : userRoute'[v] = userRoute[v] /\ homeOf'[v] = homeOf[v]
  BY <1>1, <1>5
<1>7. WorldTypes'
  BY <1>1, <1>2, <1>6, Facts DEF WorldTypes
<1>8. /\ SagaKnown' /\ RowRecords'
      /\ (Behind' <=> Behind) /\ (Busy' <=> Busy) /\ (Ahead' <=> Ahead) /\ (Underway' <=> Underway)
      /\ \A s : (Due(s)' <=> Due(s)) /\ (Did(s)' <=> Did(s)) /\ (Undid(s)' <=> Undid(s))
                /\ (Done(s)' <=> Done(s))
  BY <1>2, <1>3, SagaStays
<1>9. OperationKnown'
  BY <1>2, Facts DEF OperationKnown, OpShape, Underway, Touched, Exists, Moving
<1>10. Facets'
  BY <1>2, <1>3, <1>8, Facts, SagaWaits, FacetsFrame DEF FacetsSame, SameOperation
<1>11. /\ \A a : Exists(a)' <=> Exists(a)
       /\ Desired(journal)' = Desired(journal) /\ Touched' = Touched
       /\ (Moving' <=> Moving) /\ (Renames(journal)' <=> Renames(journal))
       /\ Calm' \subseteq Calm /\ (Applied' <=> Applied) /\ OldRows' = OldRows /\ Bearer' = Bearer
       /\ Busy => Underway
  BY <1>2, <1>3, <1>8, SameRows, Facts, OpOfSaga
     DEF Touched, Moving, Renames, Calm, Applied, OldRows, Bearer
<1>12. ASSUME Underway
       PROVE  UsersKnown' /\ OldUsers' /\ RoutesMoved' /\ RoutesRecovered'
  <2>1. \A v \in Calm' : v \in Calm /\ v # u /\ userRoute'[v] = userRoute[v] /\ homeOf'[v] = homeOf[v]
                         /\ (Home(v)' <=> Home(v))
    BY <1>2, <1>3, <1>6, <1>11, <1>12 DEF Calm, Underway, Home
  <2>2. UsersKnown'
    BY <1>2, <1>11, <2>1, Facts DEF UsersKnown
  <2>3. OldUsers'
    BY <1>2, <1>8, <1>11, <2>1, Facts DEF OldUsers
  <2>4. RoutesMoved'
    BY <1>2, <1>8, <1>11, <2>1, Facts DEF RoutesMoved
  <2>5. RoutesRecovered'
    BY <1>8, <2>1, Facts DEF RoutesRecovered
  <2> QED
    BY <2>2, <2>3, <2>4, <2>5
<1>13. ASSUME ~Underway
       PROVE  UsersKnown' /\ OldUsers' /\ RoutesMoved' /\ RoutesRecovered'
  <2>1. journal.kind = "none" /\ journal.moved = {} /\ saga.mode = "idle" /\ ~Busy
    BY <1>13, AtRest, Begun DEF Underway, Busy
  <2>2. \A v \in Calm' : Home(v)'
    BY <1>2, <1>1, <1>6, <1>11, <1>13, AtRest DEF Home, Calm
  <2>3. UsersKnown'
    BY <1>2, <2>1, <2>2, <1>11 DEF UsersKnown, Moving, Renames
  <2>4. OldUsers' /\ RoutesMoved' /\ RoutesRecovered'
    BY <1>2, <1>8, <2>1, <2>2 DEF OldUsers, RoutesMoved, RoutesRecovered
  <2> QED
    BY <2>3, <2>4
<1>14. UsersKnown' /\ OldUsers' /\ RoutesMoved' /\ RoutesRecovered'
  BY <1>12, <1>13
<1>15. UpToDate'
  BY <1>1, <1>2 DEF UpToDate, Current
<1>16. RouteBase'
  BY <1>4, <1>7, <1>8, <1>9, <1>14 DEF RouteBase, SagaBase
<1>17. RouteBase' /\ UpToDate' => PublishedKnown' /\ PublishedCurrent' /\ RemovedUnpublished'
  BY AnewKnown, PTL
<1>18. Records'
  BY <1>8, <1>14, <1>15, <1>16, <1>17, AllRecords
<1> QED
  BY <1>4, <1>7, <1>8, <1>9, <1>10, <1>15, <1>16, <1>17, <1>18, Joined

---------------------------------------------------------------------------
(* What the invariant says of the accounts, their OAuth and their users.   *)

(* Between operations everything agrees. *)
LEMMA InvSettled ==
    SagaInv => SettledAgrees
<1> SUFFICES ASSUME SagaInv, Settled
             PROVE  /\ published = Current /\ EvacueesBack
                    /\ \A a \in AccountId : AccountAgrees(a)
  BY DEF SettledAgrees
<1> QED
  BY AtRest DEF Settled, Underway, EvacueesBack, Home, Calm

(* The OAuth files of an account that were neither archived nor cut short  *)
(* are in one of the directories of its operation.                         *)
LEMMA InvOAuth ==
    SagaInv => OAuthKept
<1> SUFFICES ASSUME SagaInv, NEW b \in Established, b \notin archived \cup past.cut
             PROVE  \E a \in AccountId : oauthDir[a] = Whole(b)
  BY DEF OAuthKept, Established, Whole
<1>1. Held(b) /\ b # 0
  BY Facts, AccountSagaAssumption DEF OAuthKnown, Held, Established
<1>2. PICK a \in AccountId : row[a].born = b
  BY Facts DEF OAuthKnown
<1>3. Exists(a) /\ b \in past.oauth
  BY <1>1, <1>2 DEF Exists, Held
<1>4. \A dir : SoundDir(dir, b) => dir = Whole(b)
  BY <1>1 DEF SoundDir
<1>5. CASE a \notin Touched
  <2>1. DirAgrees(a)
    BY <1>5, Facts DEF OthersAgree, AccountAgrees
  <2> QED
    BY <1>2, <1>3, <1>4, <2>1 DEF DirAgrees
<1>6. CASE a \in Touched
  <2>1. Underway /\ a # 0
    BY <1>6, Begun, AccountSagaAssumption DEF Touched, Underway
  <2>2. /\ journal.kind \in {"create", "update", "delete", "clear", "policy"}
        /\ journal.kind # "update" => a = journal.id
        /\ a \in {journal.id, journal.new} /\ journal.id \in AccountId
        /\ journal.kind = "update" => journal.new \in AccountId
    BY <1>6, <2>1, Facts DEF OperationKnown, Touched
  <2>3. CASE journal.kind = "create"
    BY <1>2, <1>3, <2>2, <2>3, Facts DEF CreateKept
  <2>4. CASE journal.kind = "update"
    <3>1. Desired(journal) = a
      BY <1>3, <2>2, <2>4, Facts DEF Desired, RowsKnown, Renames
    <3> QED
      BY <1>2, <1>4, <2>2, <2>4, <3>1, Facts DEF UpdateKept
  <2>5. CASE journal.kind = "delete"
    BY <1>2, <1>3, <1>4, <2>2, <2>5, Facts DEF DeleteKept
  <2>6. CASE journal.kind = "clear"
    BY <1>2, <1>3, <1>4, <2>2, <2>6, Facts DEF ClearKept, DirAgrees
  <2>7. CASE journal.kind = "policy"
    BY <1>2, <1>3, <1>4, <2>2, <2>7, Facts DEF PolicyKept, AccountAgrees, DirAgrees
  <2> QED
    BY <2>2, <2>3, <2>4, <2>5, <2>6, <2>7
<1> QED
  BY <1>5, <1>6

(* The account that a user is sent to has its container, but for the *)
(* three cases of Rebuilt.                                           *)
LEMMA InvServed ==
    SagaInv => ServedRunning
<1> SUFFICES ASSUME SagaInv, NEW u \in Calm, ~Rebuilt(published.route[u])
             PROVE  container[published.route[u]] # "none"
  BY DEF ServedRunning, Calm
<1> DEFINE r == published.route[u]
           id == journal.id
           new == journal.new
<1>1. r \in AccountId /\ r # 0
  BY Facts, AccountSagaAssumption DEF WorldTypes, Calm
<1>2. r \in Touched \/ Exists(r)
  BY Facts DEF PublishedKnown
<1>3. CASE r \notin Touched
  BY <1>1, <1>2, <1>3, Facts DEF OthersAgree, AccountAgrees, ContainerAgrees
<1>4. CASE r \in Touched
  <2>1. Underway
    BY <1>1, <1>4, Begun DEF Touched, Underway
  <2>2. /\ journal.kind \in {"create", "update", "delete", "clear", "policy"}
        /\ journal.kind # "update" => r = id
        /\ r \in {id, new} /\ id \in AccountId
        /\ saga.mode \in {"idle", "down", "forward", "back", "recover"}
    BY <1>1, <1>4, <2>1, Facts DEF OperationKnown, Touched, SagaKnown
  <2>3. ~Busy => Rebuilt(Desired(journal)) /\ (journal.kind = "update" => Rebuilt(new))
    BY <2>2 DEF Busy, Rebuilt
  <2>4. Behind => /\ "home" \in saga.did => Rebuilt(FinalId(journal))
                  /\ saga.dirty => Rebuilt(id)
    BY Facts, OpOfSaga DEF Behind, Busy, Rebuilt
  <2> HIDE DEF r
  <2>5. ~Rebuilt(r)
    BY DEF r
  <2>6. Busy => Ahead \/ Behind
    BY DEF Busy, Ahead, Behind
  <2>7. CASE journal.kind = "create"
    BY <2>2, <2>7, Facts DEF PublishedKnown, r
  <2>8. CASE journal.kind = "policy"
    BY <2>2, <2>8, Facts DEF PolicyKept, AccountAgrees, ContainerAgrees, RowsKnown, r
  <2>9. CASE journal.kind = "clear"
    <3>1. Busy
      BY <2>2, <2>3, <2>5, <2>9, Facts DEF Desired, RowsKnown
    <3> QED
      BY <2>2, <2>9, <3>1, Facts DEF ClearSteps, r
  <2>10. CASE journal.kind = "delete"
    <3>1. CASE ~Exists(id)
      BY <2>2, <2>10, <3>1, Facts DEF RemovedUnpublished, r
    <3>2. CASE Exists(id)
      <4>1. Busy /\ (Behind => ~saga.dirty)
        BY <2>2, <2>3, <2>4, <2>5, <2>10, <3>2 DEF Desired
      <4>2. CASE Ahead
        <5>1. ~Did("control")
          BY <2>10, <3>2, <4>2, RemovedRow
        <5>2. ~Did("stop")
          BY <2>10, <4>1, <4>2, <5>1, Facts, KindOfStep, ForwardRanks
             DEF SagaKnown, ForwardKnown, Did
        <5> QED
          BY <2>2, <2>10, <4>1, <4>2, <5>2, Facts DEF DeleteSteps, r
      <4>3. CASE Behind
        <5>1. CASE ~Did("build")
          BY <2>2, <2>10, <4>1, <5>1, Facts DEF DeleteSteps, r
        <5>2. CASE Did("build")
          <6>1. Did("control")
            BY <2>10, <4>3, <5>2, Facts, KindOfStep, ForwardRanks DEF SagaKnown, BackKnown, Did
          <6>2. {"build", "control"} \subseteq Undo(journal.kind, saga.did)
            BY <2>10, <6>1 DEF Undo, Did
          <6>3. ~Applied
            BY <2>10, <3>2, <4>1, <6>1, Facts, AfterRecords DEF OldRowsKnown
          <6>4. ~Due("build")
            BY <4>1, <4>3, <6>1, <6>2, <6>3, Facts, BackwardRanks
               DEF SagaKnown, BackKnown, Applied, Due
          <6>5. Undid("build")
            BY <4>1, <4>3, <6>2, <6>4 DEF Undid, Undoes
          <6> QED
            BY <2>2, <2>10, <4>1, <6>5, Facts DEF DeleteSteps, r
        <5> QED
          BY <5>1, <5>2
      <4> QED
        BY <2>6, <4>1, <4>2, <4>3
    <3> QED
      BY <3>1, <3>2
  <2>11. CASE journal.kind = "update"
    <3>1. /\ Renames(journal) /\ Exists(new) => r # id
          /\ Busy /\ Renames(journal) /\ ~Did("home") => r # new
          /\ Ahead /\ Did("expose") /\ ~Did("home") => r \notin Touched
          /\ Behind /\ Did("expose") /\ ~Did("home") /\ Due("home") => r \notin Touched
      BY <2>11, Facts DEF PublishedKnown, r
    <3>2. Renames(journal) <=> id # new
      BY <2>11 DEF Renames
    <3>3. Busy
      BY <2>2, <2>3, <2>5, <2>11, <3>1, <3>2, Facts DEF Desired, RowsKnown
    <3>4. /\ ~Did("build") \/ Undid("build") => container[id] # "none"
          /\ Ahead /\ Did("build") => container[new] = "running"
      BY <2>11, <3>3, Facts DEF UpdateSteps
    <3>5. CASE Ahead
      <4>1. /\ \A s \in saga.did, t \in Plan(journal) : Forward[t] <= Forward[s] => t \in saga.did
            /\ saga.did \subseteq Plan(journal)
        <5>1. /\ saga.did = Plan(journal) \ saga.todo
              /\ \A s \in saga.todo, t \in Plan(journal) : Forward[s] <= Forward[t] => t \in saga.todo
          BY <3>5, Facts DEF SagaKnown, ForwardKnown
        <5>2. \A s, t \in Plan(journal) : Forward[s] \in Nat /\ Forward[t] \in Nat
          BY <2>2, PlanSteps, ForwardOrder
        <5>3. ASSUME NEW s \in saga.did, NEW t \in Plan(journal), Forward[t] <= Forward[s]
              PROVE  t \in saga.did
          BY <5>1, <5>2, <5>3
        <5> QED
          BY <5>1, <5>3
      <4>2. CASE Did("home")
        <5>1. Did("build") /\ Did("control")
          BY <2>11, <4>1, <4>2, KindOfStep, ForwardRanks DEF Did
        <5>2. Exists(new)
          BY <2>11, <3>5, <5>1, AheadRecords, AfterRecords
        <5> QED
          BY <2>2, <3>1, <3>2, <3>4, <3>5, <5>1, <5>2 DEF r
      <4>3. CASE ~Did("home")
        <5>1. ~Did("expose")
          BY <1>4, <3>1, <3>5, <4>3 DEF r
        <5>2. ~Did("build")
          BY <2>11, <4>1, <5>1, KindOfStep, ForwardRanks DEF Did
        <5> QED
          BY <2>2, <3>1, <3>2, <3>3, <3>4, <4>3, <5>2 DEF r
      <4> QED
        BY <4>2, <4>3
    <3>6. CASE Behind
      <4>1. /\ \A s \in saga.did \ {"unusable"}, t \in Plan(journal) :
                  Forward[t] <= Forward[s] => t \in saga.did
            /\ ~saga.dirty => \A s \in saga.todo, t \in Undo(journal.kind, saga.did) :
                                  Backward[s] <= Backward[t] => t \in saga.todo
        BY <3>6, Facts DEF SagaKnown, BackKnown
      <4>2. /\ Did("build") => Did("note") /\ Did("control") /\ Did("expose")
            /\ Did("expose") => Did("move")
            /\ Did("home") => Did("build")
        BY <2>11, <4>1, KindOfStep, ForwardRanks DEF Did
      <4>3. r = id /\ ~saga.dirty
        <5>1. ~Did("home") => r = id
          BY <2>2, <3>1, <3>2, <3>3
        <5>2. Did("home") => r # new
          BY <2>4, <2>5, <2>11, <3>6 DEF Did, FinalId
        <5> QED
          BY <2>2, <2>4, <2>5, <3>6, <5>1, <5>2
      <4>4. CASE ~Did("build")
        BY <3>4, <4>3, <4>4 DEF r
      <4>5. CASE Did("build")
        <5>1. {"build", "control", "home"} \subseteq Undo(journal.kind, saga.did)
          BY <2>11, <4>2, <4>5 DEF Undo, Did
        <5>2. ~Due("build")
          <6>1. CASE Did("home")
            <7>1. Renames(journal)
              BY <2>4, <2>5, <2>11, <3>2, <3>6, <4>3, <6>1 DEF Did, FinalId
            <7>2. ~Applied
              BY <2>11, <3>1, <3>3, <4>2, <4>3, <4>5, <7>1, Facts, AfterRecords DEF OldRowsKnown
            <7> QED
              BY <4>1, <4>2, <4>3, <4>5, <5>1, <7>2, BackwardRanks DEF Applied, Due
          <6>2. CASE ~Did("home")
            <7>1. ~Due("home")
              BY <1>4, <3>1, <3>6, <4>2, <4>5, <6>2 DEF r
            <7> QED
              BY <4>1, <4>3, <5>1, <7>1, BackwardRanks DEF Due
          <6> QED
            BY <6>1, <6>2
        <5>3. Undid("build")
          BY <3>6, <4>3, <5>1, <5>2 DEF Undid, Undoes
        <5> QED
          BY <3>4, <4>3, <5>3 DEF r
      <4> QED
        BY <4>4, <4>5
    <3> QED
      BY <2>6, <3>3, <3>5, <3>6
  <2> QED
    BY <2>2, <2>7, <2>8, <2>9, <2>10, <2>11
<1> QED
  BY <1>3, <1>4

---------------------------------------------------------------------------
(* The invariant holds at the start and in every step.                     *)
LEMMA InvInitially ==
    ASSUME SagaInit
    PROVE  SagaInv
<1>1. PICK custom \in SUBSET (Established \cap {1}) :
        /\ row = [a \in AccountId |->
                    IF a \in Established
                    THEN [born |-> a, enabled |-> TRUE,
                          proxy |-> IF a \in custom THEN "custom" ELSE "inherit"]
                    ELSE NoAccount]
        /\ secret = [a \in AccountId |-> IF a \in custom THEN a ELSE 0]
  BY Zenon DEF SagaInit, Established
<1>2. /\ userRoute = [u \in Evacuee |-> 1] /\ homeOf = [u \in Evacuee |-> 1]
      /\ oauthDir = [a \in AccountId |->
                       IF a \in Established THEN [of |-> a, is |-> "whole"] ELSE NoDir]
      /\ configFile = [a \in AccountId |-> a \in Established]
      /\ container = [a \in AccountId |-> IF a \in Established THEN "running" ELSE "none"]
      /\ backup = NoDir /\ archived = {} /\ published = Current
      /\ journal = NoOperation /\ saga = AtRestNow
      /\ past = [ops |-> 0, faults |-> 0, crashes |-> 0, moves |-> 0,
                 strayed |-> {}, oauth |-> Established, cut |-> {}]
  BY DEF SagaInit, Established
<1>3. /\ AccountId \subseteq Nat \ {0} /\ 1 \in AccountId /\ 2 \in AccountId
      /\ 1 \in Established /\ Established \subseteq AccountId /\ 0 \notin AccountId
  BY AccountSagaAssumption DEF Established
<1>4. \A a \in AccountId :
        /\ row[a].born = (IF a \in Established THEN a ELSE 0)
        /\ a \in Established => row[a].enabled
        /\ row[a] \in Account
        /\ row[a].proxy = "custom" => a \in custom
        /\ Exists(a) <=> a \in Established
        /\ secret[a] = (IF a \in custom THEN a ELSE 0)
        /\ oauthDir[a] = (IF a \in Established THEN [of |-> a, is |-> "whole"] ELSE NoDir)
        /\ configFile[a] <=> a \in Established
        /\ container[a] = (IF a \in Established THEN "running" ELSE "none")
  <2> SUFFICES ASSUME NEW a \in AccountId
               PROVE  /\ row[a].born = (IF a \in Established THEN a ELSE 0)
                      /\ a \in Established => row[a].enabled
                      /\ row[a] \in Account
                      /\ row[a].proxy = "custom" => a \in custom
                      /\ secret[a] = (IF a \in custom THEN a ELSE 0)
    BY <1>2, <1>3 DEF Exists
  <2>1. secret[a] = (IF a \in custom THEN a ELSE 0) /\ a \in Int
    BY <1>1, <1>3
  <2>2. row[a] = IF a \in Established
                 THEN [born |-> a, enabled |-> TRUE,
                       proxy |-> IF a \in custom THEN "custom" ELSE "inherit"]
                 ELSE [born |-> 0, proxy |-> "inherit", enabled |-> FALSE]
    BY <1>1 DEF NoAccount
  <2> QED
    BY <2>1, <2>2 DEF Account
<1>5. PastTypes
  BY <1>2 DEF PastTypes, PastShape
<1>6. WorldTypes
  <2>1. row \in [AccountId -> Account] /\ secret \in [AccountId -> Int]
    <3>1. row = [a \in AccountId |-> row[a]] /\ secret = [a \in AccountId |-> secret[a]]
      BY <1>1
    <3>2. \A a \in AccountId : row[a] \in Account
      BY <1>4
    <3>3. \A a \in AccountId : secret[a] \in Int
      <4>1. \A a \in AccountId : secret[a] \in {0, a}
        BY <1>4
      <4> QED
        BY <1>3, <4>1
    <3> QED
      BY <3>1, <3>2, <3>3
  <2>2. userRoute \in [Evacuee -> AccountId] /\ homeOf \in [Evacuee -> Int]
    BY <1>2, <1>3
  <2>3. oauthDir \in [AccountId -> Directory] /\ backup \in Directory
    BY <1>2, <1>3, DirTypes DEF Directory
  <2>4. configFile \in [AccountId -> BOOLEAN]
    BY <1>2
  <2>5. container \in [AccountId -> {"none", "running", "stopped"}] /\ archived \subseteq Int
    BY <1>2
  <2>6. published \in [route : [Evacuee -> AccountId], account : [AccountId -> Account]]
    BY <1>2, <2>1, <2>2 DEF Current
  <2> QED
    BY <2>1, <2>2, <2>3, <2>4, <2>5, <2>6 DEF WorldTypes
<1>7. ~Underway /\ journal.kind = "none" /\ journal.id = 0 /\ journal.new = 0
      /\ journal.moved = {} /\ journal.phase = "none" /\ ~Renames(journal) /\ Touched = {0}
      /\ ~Moving
  BY <1>2, Begun DEF Underway, Renames, Touched, Moving
<1>8. /\ saga.mode = "idle" /\ ~Busy /\ ~Ahead /\ ~Behind /\ saga.dirty = FALSE
  BY <1>2, AtRestFields DEF Busy, Ahead, Behind
<1>9. OperationKnown
  <2>1. OpShape(journal)
    BY <1>2 DEF OpShape, NoOperation
  <2> QED
    BY <1>2, <1>7, <1>8, <2>1 DEF OperationKnown
<1>10. SagaKnown
  <2>1. SagaShape
    BY <1>2 DEF SagaShape, AtRestNow
  <2> QED
    BY <1>2, <1>8, <2>1 DEF SagaKnown, ForwardKnown, BackKnown, RecoverKnown
<1>11. AskKnown /\ OldRowsKnown /\ OldAccounts /\ OldUsers /\ RoutesMoved
  BY <1>8 DEF AskKnown, OldRowsKnown, OldAccounts, OldUsers, RoutesMoved
<1>12. RowsKnown
  <2>1. past.ops = 0
    BY <1>2
  <2>2. \A a \in AccountId : a \in Nat \ {0} /\ row[a].born \in {0, a}
                             /\ (Exists(a) => row[a].born = a)
    BY <1>3, <1>4 DEF Exists
  <2>3. \A a \in AccountId : row[a].born >= 0 - past.ops
    BY <2>1, <2>2
  <2>4. \A a, b \in AccountId : a # b /\ Exists(a) => row[a].born # row[b].born
    BY <2>2
  <2> QED
    BY <1>7, <2>3, <2>4 DEF RowsKnown
<1>13. \A u \in Evacuee : userRoute[u] = 1 /\ homeOf[u] = 1 /\ Home(u)
  BY <1>2, <1>3, <1>4 DEF Home
<1>14. UsersKnown /\ RoutesRecovered
  BY <1>7, <1>8, <1>13 DEF UsersKnown, RoutesRecovered, Done, Calm
<1>15. PublishedKnown /\ PublishedCurrent
  <2>1. \A u \in Calm : published.route[u] = 1 /\ Exists(1)
    BY <1>2, <1>3, <1>4, <1>13 DEF Current, Calm
  <2> QED
    BY <1>2, <1>7, <1>8, <2>1 DEF PublishedKnown, PublishedCurrent
<1>16. \A a \in AccountId : AccountAgrees(a)
  <2> SUFFICES ASSUME NEW a \in AccountId PROVE AccountAgrees(a)
    OBVIOUS
  <2>1. ConfigAgrees(a) /\ SecretAgrees(a) /\ ContainerAgrees(a)
    BY <1>1, <1>3, <1>4 DEF ConfigAgrees, SecretAgrees, ContainerAgrees
  <2>2. DirAgrees(a)
    BY <1>2, <1>3, <1>4 DEF DirAgrees, SoundDir, Held, Whole
  <2> QED
    BY <2>1, <2>2 DEF AccountAgrees
<1>17. OthersAgree
  BY <1>16 DEF OthersAgree
<1>18. OAuthKnown
  BY <1>2, <1>3, <1>4 DEF OAuthKnown
<1>19. CreateKept /\ UpdateKept /\ DeleteKept /\ ClearKept /\ PolicyKept /\ RemovedUnpublished
  BY <1>7 DEF CreateKept, UpdateKept, DeleteKept, ClearKept, PolicyKept, RemovedUnpublished
<1>20. CreateSteps /\ UpdateSteps /\ DeleteSteps /\ ClearSteps /\ OldSecrets
  BY <1>8 DEF CreateSteps, UpdateSteps, DeleteSteps, ClearSteps, OldSecrets
<1>21. RecoverySteps
  BY <1>8 DEF RecoverySteps, Done
<1> QED
  BY <1>5, <1>6, <1>9, <1>10, <1>11, <1>12, <1>14, <1>15, <1>17, <1>18, <1>19, <1>20, <1>21
     DEF SagaInv, SagaBase, Records, Facets

(* Every step of a compensation keeps the invariant. *)
LEMMA CompensationKeeps ==
    ASSUME SagaInv, Compensation
    PROVE  SagaInv'
  BY RollbackFilesKeeps, RollbackRuntimeKeeps, RollbackSecretsKeeps, RestoreRecordsKeeps,
     RestoreRoutesKeeps, RestartRestoredKeeps, RestoreProjectionKeeps, RestoreSnapshotKeeps
     DEF Compensation

(* Every step of a recovery keeps the invariant. *)
LEMMA RecoverKeeps ==
    ASSUME SagaInv, Recover
    PROVE  SagaInv'
  BY AdminStartKeeps, RecoverSecretsKeeps, RecoverFilesKeeps, DiscardFilesKeeps,
     RecoverProjectionKeeps, RecoverSnapshotKeeps, RecoverDrainKeeps, ReconcileKeeps,
     RecoverRoutesKeeps, FinishRecoveryKeeps DEF Recover, ReconcileAccount

(* A step that changes nothing. *)
LEMMA StandstillKeeps ==
    ASSUME SagaInv, UNCHANGED sagaVars
    PROVE  SagaInv'
<1>1. /\ row' = row /\ secret' = secret /\ userRoute' = userRoute /\ homeOf' = homeOf
      /\ oauthDir' = oauthDir /\ configFile' = configFile /\ container' = container
      /\ backup' = backup /\ archived' = archived /\ published' = published
      /\ journal' = journal /\ saga' = saga /\ past' = past
  BY DEF sagaVars, recordVars, fileVars
<1>2. /\ SagaKnown' /\ (Behind' <=> Behind) /\ (Underway' <=> Underway)
      /\ \A s : (Due(s)' <=> Due(s)) /\ (Did(s)' <=> Did(s))
  BY <1>1, SagaStays
<1>3. PastTypes' /\ WorldTypes'
  BY <1>1, Facts DEF PastTypes, PastShape, WorldTypes
<1>4. OperationKnown'
  BY <1>1, Facts DEF OperationKnown, OpShape, Underway, Touched, Exists, Moving
<1>5. Records'
  BY <1>1, SagaWaits, RecordsFrame, JournalKept, Facts DEF RecordsSame
<1>6. Facets'
  BY <1>1, <1>2, SagaWaits, FacetsFrame, Facts DEF FacetsSame, SameOperation
<1>7. RemovedUnpublished'
  BY <1>1, Facts DEF RemovedUnpublished, Calm, Exists
<1> QED
  BY <1>2, <1>3, <1>4, <1>5, <1>6, <1>7, Joined

(* Every step of the system keeps the invariant. *)
LEMMA NextKeeps ==
    ASSUME SagaInv, ~TakenIds, [SagaNext]_sagaVars
    PROVE  SagaInv'
  BY OperatorAsksKeeps, StepKeeps, CompensationKeeps, EndKeeps, RecoverKeeps, DeathKeeps,
     OthersMoveKeeps, StandstillKeeps DEF SagaNext, SagaProgress

---------------------------------------------------------------------------
(* Whatever the operators ask of accounts whose IDs are free, and whatever *)
(* fails, dies or is moved meanwhile, the state of the accounts is one     *)
(* that the operation, its compensation or its recovery can finish from.   *)
THEOREM SagaInductive ==
    ~TakenIds => (SagaSpec => []SagaInv)
<1> SUFFICES ASSUME ~TakenIds PROVE SagaSpec => []SagaInv
  OBVIOUS
<1>1. SagaInit => SagaInv
  BY InvInitially
<1>2. SagaInv /\ [SagaNext]_sagaVars => SagaInv'
  BY NextKeeps
<1> QED
  BY <1>1, <1>2, PTL DEF SagaSpec

(* Once an operation has ended, database, files, secrets, containers and   *)
(* snapshot agree on every account, and the evacuated users are back.      *)
THEOREM SettledAlwaysAgrees ==
    ~TakenIds => (SagaSpec => []SettledAgrees)
<1> SUFFICES ASSUME ~TakenIds PROVE SagaSpec => []SettledAgrees
  OBVIOUS
<1>1. SagaSpec => []SagaInv
  BY SagaInductive
<1> QED
  BY <1>1, InvSettled, PTL

(* Neither the OAuth files nor the users of an account are lost in an      *)
(* operation, in its compensation or in its recovery.                      *)
THEOREM InterruptionsAlwaysHarmless ==
    ~TakenIds => (SagaSpec => []InterruptionsHarmless)
<1> SUFFICES ASSUME ~TakenIds PROVE SagaSpec => []InterruptionsHarmless
  OBVIOUS
<1>1. SagaSpec => []SagaInv
  BY SagaInductive
<1>2. SagaInv => InterruptionsHarmless
  BY InvOAuth, InvServed DEF InterruptionsHarmless
<1> QED
  BY <1>1, <1>2, PTL
=============================================================================
