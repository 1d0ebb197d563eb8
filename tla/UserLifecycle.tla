--------------------------- MODULE UserLifecycle ---------------------------
(***************************************************************************)
(* The life of a user (internal/admin/user_lifecycle.go, internal/identity *)
(* and the transactions of internal/controlplane/user_lifecycle.go): one   *)
(* operation changes the control database, then, each in a step that may   *)
(* fail, the portal credential in another database, the key lists of the   *)
(* CPA containers (internal/accountprojection) and the auth snapshot the   *)
(* Gateway serves.  A failing step is compensated step by step; nothing is *)
(* journalled, so a crash of Admin compensates nothing.                    *)
(*                                                                         *)
(* Admin and Portal hold one lock (identityOperationLock) for an operation.*)
(* The Collector and the Failover worker are other processes: they read    *)
(* the active users and later reconcile the internal keys with that,       *)
(* possibly outdated, set (EnsureInternalKeys), and Failover publishes.    *)
(*                                                                         *)
(* A secret is the number of the user's secret, 0 for none.  The rows of   *)
(* one user always carry one external key here; old rotated rows are not   *)
(* kept, as nothing reads them.  A route is only present or absent: which  *)
(* account it names is the subject of DataPlane.                           *)
(*                                                                         *)
(* A definition marked "Deviation" is what the definition after it must    *)
(* not be; no specification uses it.                                       *)
(***************************************************************************)
EXTENDS Integers, Sequences

CONSTANTS
    Person,         \* users
    CPA,            \* CPA accounts, each with its own rendered key list
    Peer,           \* rounds of the Collector or the Failover worker at a time
    MaxSecret       \* bound: external and internal secrets per user

ASSUME UserLifecycleAssumption == MaxSecret \in Nat /\ CPA # {}

VARIABLES
    rows,       \* key_records of a user: status, external key
    routed,     \* users with a row of user_routes
    internal,   \* internal_keys of a user: secret and status
    credential, \* portal_credentials of a user, in the usage database
    accepted,   \* the internal keys each CPA's rendered config accepts
    served,     \* the published auth snapshot: external and internal key
    task,       \* the operation of the user manager
    scan,       \* what a peer read before it reconciles the internal keys
    login,      \* users authenticated in a password change under way
    issued,     \* external and internal secrets generated so far
    unresolved  \* users whose last operation was abandoned, or reported
                \* that its compensation failed

userVars == <<rows, routed, internal, credential, accepted, served, task,
              scan, login, issued, unresolved>>

tables == <<rows, routed, internal>>

NoRows   == [status |-> "none", key |-> 0]
NoSecret == [key |-> 0, active |-> FALSE]
NotServed == [key |-> 0, internal |-> 0]
NoTask   == [kind |-> "none", user |-> "none", plan |-> <<>>, mode |-> "forward",
             synced |-> FALSE, failed |-> FALSE,
             before |-> [rows |-> NoRows, routed |-> FALSE,
                         internal |-> NoSecret, credential |-> "none"]]

ActiveUsers == {u \in Person : rows[u].status = "active"}

InternalKeysOf(u) == {<<u, n>> : n \in 1..MaxSecret}

-----------------------------------------------------------------------------
(***************************************************************************)
(* Internal keys and the two projections of the tables.                    *)
(***************************************************************************)

(* EnsureInternalKeys(users): a key for each, active; all others inactive. *)
Missing(users) == {u \in users : internal[u].key = 0}

EnsureInternalKeys(users) ==
    /\ \A u \in Missing(users) : issued[u].internal < MaxSecret
    /\ issued' = [u \in Person |-> IF u \in Missing(users)
                     THEN [issued[u] EXCEPT !.internal = @ + 1] ELSE issued[u]]
    /\ internal' = [u \in Person |->
          [key    |-> IF u \in Missing(users) THEN issued[u].internal + 1
                                              ELSE internal[u].key,
           active |-> u \in users]]

(* Renderer.Render and buildPayload refuse an active user without a key.   *)
KeysComplete == \A u \in ActiveUsers : internal[u].key # 0 /\ internal[u].active

ActiveKeys == {<<u, internal[u].key>> : u \in ActiveUsers}

(* The snapshot names the active users that have a route.                  *)
SnapshotImage ==
    [u \in Person |-> IF rows[u].status = "active" /\ u \in routed
                        THEN [key |-> rows[u].key, internal |-> internal[u].key]
                        ELSE NotServed]

WriteSnapshot == KeysComplete /\ served' = SnapshotImage

-----------------------------------------------------------------------------
(***************************************************************************)
(* Operations: the control change, then the plan of the remaining steps.   *)
(***************************************************************************)

(* The steps that follow the control change, as each operation calls them. *)
CreateUser == <<"credential", "render", "verify", "publish">>

(* Deviation: a revocation ends with the snapshot. *)
RevokeUserUnrendered == <<"publish">>

RevokeUser == <<"publish", "render">>

DeleteUser == <<"publish", "render", "portal">>

RotateUserKey == <<"publish">>

Forward == [create |-> CreateUser, revoke |-> RevokeUser, delete |-> DeleteUser,
            rotate |-> RotateUserKey, assign |-> <<"publish">>]

(* The compensating steps, all attempted unless an earlier one failed.     *)
RollbackCreation == <<"rows", "credential", "internal", "render", "publish">>

RollbackRevocation == <<"rows", "internal", "render", "publish">>

RollbackDeletion == <<"rows", "render", "publish">>

(* Deviation: the rows of a rotation are restored without a publication. *)
RollbackRotationUnpublished == <<"rows">>

RollbackRotation == <<"rows", "publish">>

Rollback == [create |-> RollbackCreation, revoke |-> RollbackRevocation,
             delete |-> RollbackDeletion, rotate |-> RollbackRotation,
             assign |-> <<"rows", "publish">>]

Before(u) == [rows |-> rows[u], routed |-> u \in routed,
              internal |-> internal[u], credential |-> credential[u]]

Start(kind, u) ==
    task' = [NoTask EXCEPT !.kind = kind, !.user = u,
                           !.plan = Forward[kind], !.before = Before(u)]

Idle == task.kind = "none"

NewExternalKey(u) == /\ issued[u].external < MaxSecret
                     /\ issued' = [issued EXCEPT ![u].external = @ + 1]

(* Deviation: a revoked user's route survives. *)
ApplyUserCreationKeepsRoute(u) ==
    /\ Idle
    /\ rows[u].status # "active"
    /\ NewExternalKey(u)
    /\ rows' = [rows EXCEPT ![u] = [status |-> "active",
                                    key |-> issued[u].external + 1]]
    /\ Start("create", u)
    /\ UNCHANGED <<routed, internal, credential, accepted, served, scan, login,
                   unresolved>>

(* CreateUser: rows for every account; a stale route is cleared.           *)
ApplyUserCreation(u) ==
    /\ Idle
    /\ rows[u].status # "active"
    /\ NewExternalKey(u)
    /\ rows' = [rows EXCEPT ![u] = [status |-> "active",
                                    key |-> issued[u].external + 1]]
    /\ routed' = routed \ {u}
    /\ Start("create", u)
    /\ UNCHANGED <<internal, credential, accepted, served, scan, login, unresolved>>

ApplyUserRevocation(u) ==
    /\ Idle
    /\ rows[u].status = "active"
    /\ rows' = [rows EXCEPT ![u].status = "revoked"]
    /\ Start("revoke", u)
    /\ UNCHANGED <<routed, internal, credential, accepted, served, scan, login,
                   issued, unresolved>>

ApplyUserDeletion(u) ==
    /\ Idle
    /\ rows[u].status # "none"
    /\ \E revokeActive \in BOOLEAN : rows[u].status = "active" => revokeActive
    /\ rows' = [rows EXCEPT ![u] = NoRows]
    /\ routed' = routed \ {u}
    /\ internal' = [internal EXCEPT ![u] = NoSecret]
    /\ Start("delete", u)
    /\ UNCHANGED <<credential, accepted, served, scan, login, issued, unresolved>>

(* The key the caller saw may be outdated: the expected key must match.    *)
ApplyUserKeyRotationExpected(u) ==
    /\ Idle
    /\ \E expected \in 1..MaxSecret :
          rows[u] = [status |-> "active", key |-> expected]
    /\ NewExternalKey(u)
    /\ rows' = [rows EXCEPT ![u].key = issued[u].external + 1]
    /\ Start("rotate", u)
    /\ UNCHANGED <<routed, internal, credential, accepted, served, scan, login,
                   unresolved>>

(* autoAssignRoute: the first route of a user who has changed the initial  *)
(* password (MoveUser with an empty expected route).                       *)
AssignRoute(u) ==
    /\ Idle
    /\ rows[u].status = "active"
    /\ credential[u] = "own"
    /\ u \notin routed
    /\ routed' = routed \cup {u}
    /\ Start("assign", u)
    /\ UNCHANGED <<rows, internal, credential, accepted, served, scan, login,
                   issued, unresolved>>

ResetUserPassword(u) ==
    /\ Idle
    /\ rows[u].status # "none"
    /\ credential' = [credential EXCEPT ![u] = "initial"]
    /\ UNCHANGED <<tables, accepted, served, task, scan, login, issued, unresolved>>

(* changePassword: authenticated from the rows and the credential as they  *)
(* are, written later, without the lock and without rereading either.      *)
AuthenticatePasswordChange(u) ==
    /\ rows[u].status = "active"
    /\ credential[u] # "none"
    /\ login' = login \cup {u}
    /\ UNCHANGED <<tables, credential, accepted, served, task, scan, issued, unresolved>>

ChangePassword(u) ==
    /\ u \in login
    /\ login' = login \ {u}
    /\ credential' = [credential EXCEPT ![u] = "own"]
    /\ UNCHANGED <<tables, accepted, served, task, scan, issued, unresolved>>

-----------------------------------------------------------------------------
(***************************************************************************)
(* The steps of an operation, forward or compensating.                     *)
(***************************************************************************)

At(step) == task.plan # <<>> /\ Head(task.plan) = step

Advance == [task EXCEPT !.plan = Tail(@), !.synced = FALSE]

Planned(step) == \E i \in DOMAIN task.plan : task.plan[i] = step

(* Deviation: the rest of the compensation runs all the same. *)
FailureContinues ==
    IF task.mode = "forward"
      THEN [task EXCEPT !.mode = "rollback", !.synced = FALSE,
              !.plan = IF task.kind = "create" /\ At("credential")
                         THEN <<"rows">> ELSE Rollback[task.kind]]
      ELSE [task EXCEPT !.failed = TRUE, !.synced = FALSE, !.plan = Tail(@)]

(* A failing step forward starts the compensation; a failing compensation  *)
(* is reported and skips the rest of it, but not the credential's.         *)
Failure ==
    IF task.mode = "forward"
      THEN [task EXCEPT !.mode = "rollback", !.synced = FALSE,
              !.plan = IF task.kind = "create" /\ At("credential")
                         THEN <<"rows">> ELSE Rollback[task.kind]]
      ELSE [task EXCEPT !.failed = TRUE, !.synced = FALSE,
              !.plan = IF At("credential") THEN Tail(@)
                         ELSE IF Planned("credential") THEN <<"credential">> ELSE <<>>]

StepFails ==
    /\ task.plan # <<>>
    /\ task' = Failure
    /\ UNCHANGED <<tables, credential, accepted, served, scan, login, issued, unresolved>>

(* Deviation: the internal key of a deleted user is left to be reissued. *)
RestoreRowsOnly ==
    LET u == task.user  before == task.before IN
    /\ At("rows") /\ task.mode = "rollback"
    /\ rows' = [rows EXCEPT ![u] = before.rows]
    /\ routed' = IF before.routed THEN routed \cup {u} ELSE routed \ {u}
    /\ task' = Advance
    /\ UNCHANGED <<internal, credential, accepted, served, scan, login, issued,
                   unresolved>>

(* What each restoring transaction checks before it writes.                *)
CreationIntact(u) == rows[u].status = "active"

RevocationIntact(u) == rows[u] = [task.before.rows EXCEPT !.status = "revoked"]

(* A deleted internal key is inserted again, which conflicts with a row    *)
(* that another process has created meanwhile.                             *)
DeletionIntact(u) == /\ rows[u] = NoRows
                     /\ task.before.internal.key # 0 => internal[u].key = 0

RotationIntact(u) == /\ rows[u].status = "active"
                     /\ rows[u].key # task.before.rows.key

RestoreRows ==
    LET u == task.user  before == task.before IN
    /\ At("rows") /\ task.mode = "rollback"
    /\ \/ task.kind = "create" /\ CreationIntact(u)
       \/ task.kind = "revoke" /\ RevocationIntact(u)
       \/ task.kind = "delete" /\ DeletionIntact(u)
       \/ task.kind = "rotate" /\ RotationIntact(u)
       \/ task.kind = "assign"
    /\ rows' = [rows EXCEPT ![u] = before.rows]
    /\ routed' = IF before.routed THEN routed \cup {u} ELSE routed \ {u}
    /\ internal' = IF task.kind = "delete" /\ before.internal.key # 0
                     THEN [internal EXCEPT ![u] = before.internal] ELSE internal
    /\ task' = Advance
    /\ UNCHANGED <<credential, accepted, served, scan, login, issued, unresolved>>

RestoreInternalKey ==
    /\ At("internal")
    /\ internal' = [internal EXCEPT ![task.user] = task.before.internal]
    /\ task' = Advance
    /\ UNCHANGED <<rows, routed, credential, accepted, served, scan, login, issued,
                   unresolved>>

SetCredential ==
    /\ At("credential")
    /\ credential' = [credential EXCEPT ![task.user] =
                         IF task.mode = "forward" THEN "initial"
                                                  ELSE task.before.credential]
    /\ task' = Advance
    /\ UNCHANGED <<tables, accepted, served, scan, login, issued, unresolved>>

DeleteUserState ==
    /\ At("portal")
    /\ credential' = [credential EXCEPT ![task.user] = "none"]
    /\ task' = Advance
    /\ UNCHANGED <<tables, accepted, served, scan, login, issued, unresolved>>

(* A rendering and a publication first reconcile the internal keys.        *)
SyncInternalKeys ==
    /\ At("render") \/ At("publish")
    /\ ~task.synced
    /\ EnsureInternalKeys(ActiveUsers)
    /\ task' = [task EXCEPT !.synced = TRUE]
    /\ UNCHANGED <<rows, routed, credential, accepted, served, scan, login, unresolved>>

(* The account files are written one after another: an error leaves the    *)
(* first of them new and the others old.                                   *)
Render ==
    /\ At("render") /\ task.synced
    /\ KeysComplete
    /\ \E written \in SUBSET CPA :
          /\ accepted' = [a \in CPA |-> IF a \in written THEN ActiveKeys ELSE accepted[a]]
          /\ task' = IF written = CPA THEN Advance ELSE Failure
    /\ UNCHANGED <<tables, credential, served, scan, login, issued, unresolved>>

(* The new user's own internal key is answered by an enabled account.      *)
VerifyUserKey ==
    /\ At("verify")
    /\ internal[task.user].active
    /\ \E a \in CPA : <<task.user, internal[task.user].key>> \in accepted[a]
    /\ task' = Advance
    /\ UNCHANGED <<tables, credential, accepted, served, scan, login, issued, unresolved>>

(* The snapshot is in place, but the Gateway may not confirm it in time.   *)
Publish ==
    /\ At("publish") /\ task.synced
    /\ WriteSnapshot
    /\ \E confirmed \in BOOLEAN : task' = IF confirmed THEN Advance ELSE Failure
    /\ UNCHANGED <<tables, credential, accepted, scan, login, issued, unresolved>>

Return ==
    /\ ~Idle /\ task.plan = <<>>
    /\ task' = NoTask
    /\ unresolved' =
          IF task.failed THEN unresolved \cup {task.user}
          ELSE IF task.mode = "forward" /\ task.kind \in {"create", "revoke", "delete"}
            THEN unresolved \ {task.user} ELSE unresolved
    /\ UNCHANGED <<tables, credential, accepted, served, scan, login, issued>>

(* Admin dies: the operation is gone, its database changes are not.        *)
AdminCrash ==
    /\ ~Idle \/ login # {}
    /\ task' = NoTask
    /\ login' = {}
    /\ unresolved' = IF Idle THEN unresolved ELSE unresolved \cup {task.user}
    /\ UNCHANGED <<tables, credential, accepted, served, scan, issued>>

-----------------------------------------------------------------------------
(***************************************************************************)
(* The Collector (RunOnce) and the Failover worker (PublishAuthSnapshot).  *)
(***************************************************************************)

ReadUsers(p) ==
    /\ scan[p].at = "idle"
    /\ scan' = [scan EXCEPT ![p] = [at |-> "read", users |-> ActiveUsers]]
    /\ UNCHANGED <<tables, credential, accepted, served, task, login, issued, unresolved>>

Reconcile(p) ==
    /\ scan[p].at = "read"
    /\ EnsureInternalKeys(scan[p].users)
    /\ scan' = [scan EXCEPT ![p] = [at |-> "synced", users |-> {}]]
    /\ UNCHANGED <<rows, routed, credential, accepted, served, task, login, unresolved>>

(* A failing read or transaction ends the peer's round; the Collector's    *)
(* publishes nothing anyway.                                               *)
PeerFails(p) ==
    /\ scan[p].at # "idle"
    /\ scan' = [scan EXCEPT ![p] = [at |-> "idle", users |-> {}]]
    /\ UNCHANGED <<tables, credential, accepted, served, task, login, issued, unresolved>>

PeerPublish(p) ==
    /\ scan[p].at = "synced"
    /\ scan' = [scan EXCEPT ![p].at = "idle"]
    /\ IF KeysComplete THEN served' = SnapshotImage ELSE UNCHANGED served
    /\ UNCHANGED <<tables, credential, accepted, task, login, issued, unresolved>>

-----------------------------------------------------------------------------
UserInit ==
    /\ rows = [u \in Person |-> NoRows]
    /\ routed = {}
    /\ internal = [u \in Person |-> NoSecret]
    /\ credential = [u \in Person |-> "none"]
    /\ accepted = [a \in CPA |-> {}]
    /\ served = [u \in Person |-> NotServed]
    /\ task = NoTask
    /\ scan = [p \in Peer |-> [at |-> "idle", users |-> {}]]
    /\ login = {}
    /\ issued = [u \in Person |-> [external |-> 0, internal |-> 0]]
    /\ unresolved = {}

UserRequest(u) ==
    \/ ApplyUserCreation(u) \/ ApplyUserRevocation(u) \/ ApplyUserDeletion(u)
    \/ ApplyUserKeyRotationExpected(u) \/ AssignRoute(u) \/ ResetUserPassword(u)
    \/ AuthenticatePasswordChange(u) \/ ChangePassword(u)

UserStep ==
    \/ RestoreRows \/ RestoreInternalKey \/ SetCredential \/ DeleteUserState
    \/ SyncInternalKeys \/ Render \/ VerifyUserKey \/ Publish \/ StepFails \/ Return

UserNext ==
    \/ \E u \in Person : UserRequest(u)
    \/ UserStep
    \/ AdminCrash
    \/ \E p \in Peer : ReadUsers(p) \/ Reconcile(p) \/ PeerFails(p) \/ PeerPublish(p)

UserSpec == UserInit /\ [][UserNext]_userVars

-----------------------------------------------------------------------------
(***************************************************************************)
(* Properties.                                                             *)
(***************************************************************************)

Secret == 0..MaxSecret

Memory == [rows : [status : {"none", "active", "revoked"}, key : Secret],
           routed : BOOLEAN, internal : [key : Secret, active : BOOLEAN],
           credential : {"none", "initial", "own"}]

(* The type invariant of the user manager's state.                         *)
UserTypeOK ==
    /\ rows \in [Person -> [status : {"none", "active", "revoked"}, key : Secret]]
    /\ routed \subseteq Person
    /\ internal \in [Person -> [key : Secret, active : BOOLEAN]]
    /\ credential \in [Person -> {"none", "initial", "own"}]
    /\ accepted \in [CPA -> SUBSET (Person \X Secret)]
    /\ served \in [Person -> [key : Secret, internal : Secret]]
    /\ task.kind \in DOMAIN Forward \cup {"none"}
    /\ task.kind # "none" => task.user \in Person
    /\ task.mode \in {"forward", "rollback"}
    /\ task.before \in Memory
    /\ scan \in [Peer -> [at : {"idle", "read", "synced"}, users : SUBSET Person]]
    /\ login \subseteq Person
    /\ issued \in [Person -> [external : Secret, internal : Secret]]
    /\ unresolved \subseteq Person

(* RevokeUser and DeleteUser: once no operation runs and the user's last   *)
(* one was neither abandoned nor incompletely compensated, a user without  *)
(* active rows is in no published snapshot and no CPA accepts a key of it. *)
RemovedNotServed ==
    \A u \in Person \ unresolved :
        Idle /\ rows[u].status # "active" =>
            /\ served[u] = NotServed
            /\ \A a \in CPA : accepted[a] \cap InternalKeysOf(u) = {}

(* CreateUser, RotateUserKey and the rollbacks: under the same condition   *)
(* an active user can log in, every CPA accepts the internal key, and the  *)
(* snapshot serves exactly the external key of the rows.                   *)
ActiveServed ==
    \A u \in ActiveUsers \ unresolved :
        Idle =>
            /\ credential[u] # "none"
            /\ \A a \in CPA : <<u, internal[u].key>> \in accepted[a]
            /\ served[u] = SnapshotImage[u]

(* rollbackCreation, rollbackRevocation, rollbackDeletion, RotateUserKey:  *)
(* a compensation that reports no error has restored the user's rows and   *)
(* route, and an active user's internal key.                               *)
CompensationExact ==
    LET u == task.user  before == task.before IN
    ~Idle /\ task.plan = <<>> /\ task.mode = "rollback" /\ ~task.failed =>
        /\ rows[u] = before.rows
        /\ (u \in routed) = before.routed
        /\ before.rows.status = "active" /\ before.internal.key # 0 =>
              internal[u].key = before.internal.key

(* CreateUser: no snapshot, whoever publishes it, serves a new user's key  *)
(* before a CPA has answered the user's internal key (VerifyUserKey).      *)
NotServedBeforeVerified ==
    task.kind = "create" /\ task.mode = "forward" /\ Len(task.plan) > 1 =>
        served[task.user].key # rows[task.user].key

(* Snapshot and key lists serve exactly the active users, at no time a key *)
(* that no CPA has answered: the three above.                              *)
ServedExactly == RemovedNotServed /\ ActiveServed /\ NotServedBeforeVerified

(* Users are served as their rows say, and a compensation that reports     *)
(* success has undone the operation: the two above.                        *)
UsersConsistent == ServedExactly /\ CompensationExact

(* EnsureInternalKeys, RestoreInternalKey: the key between the Gateway and *)
(* the CPAs is stable as long as the user stays active.  (An abandoned     *)
(* creation may leave a user without one.)                                 *)
InternalKeyStable ==
    [][\A u \in Person :
          u \in ActiveUsers \ unresolved /\ u \in ActiveUsers' /\ internal[u].key # 0 =>
              internal'[u].key = internal[u].key]_userVars
=============================================================================
