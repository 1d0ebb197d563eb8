-------------------------------- MODULE Teams --------------------------------
(***************************************************************************)
(* Teams, who belongs to them and which team the usage of a key is         *)
(* recorded for (internal/controlplane/catalogs.go, user_lifecycle.go;     *)
(* internal/admin/users.go: applyUserTeamUpdate; internal/collector/       *)
(* runtime.go: RunOnce; internal/usage/writer.go: SyncUserTeams).          *)
(*                                                                         *)
(* Memberships are rows of the control database with a version.  Requests  *)
(* of Admin change them, several at once and without the operation lock,   *)
(* and then copy them to the identities of the usage database; so does     *)
(* each round of the Collector before it drains the queues.  The user      *)
(* operations run one at a time under the lock: they create, delete and    *)
(* restore memberships together with the rows of the user.                 *)
(*                                                                         *)
(* A key of a user is its number; each creation issues another one, and    *)
(* events of any of them may still be in a queue.  Whoever has read        *)
(* memberships and not yet written them (a request, the Collector) has a   *)
(* window: the memberships that held since it read.                        *)
(*                                                                         *)
(* Bounds: MaxKeyNumber, MaxRequests.                                      *)
(***************************************************************************)
EXTENDS Naturals, FiniteSets

CONSTANTS
    Human,          \* users
    Group,          \* IDs of teams
    NoGroup,
    Clerk,          \* requests of Admin that may run at once
    MaxKeyNumber,   \* creations of a user
    MaxRequests     \* requests and operations in all

ASSUME TeamsAssumption ==
    /\ Group # {} /\ NoGroup \notin Group
    /\ "collector" \notin Clerk
    /\ {MaxKeyNumber, MaxRequests} \subseteq Nat

VARIABLES
    teams,          \* IDs that exist
    buried,         \* IDs of deleted teams; an ID is not used again
    rowsOf,         \* the key rows of a user: absent, active, revoked
    keyOf,          \* the number of a user's last key
    member,         \* user_team_memberships
    identity,       \* key_identities: team and version of each known key
    clerk,          \* the requests under way
    userOp,         \* the user operation under the lock
    round,          \* the Collector's round
    window,         \* per reader: the memberships of each user since it read
    asked,          \* bounds
    late            \* users assigned while being created or after their removal

teamVars == <<teams, buried, rowsOf, keyOf, member, identity, clerk, userOp, round, window,
              asked, late>>

NotMember == [found |-> FALSE, team |-> NoGroup, version |-> 0]
NoIdentity == [known |-> FALSE, team |-> NoGroup, version |-> 0]
NoRequest == [step |-> "none", users |-> {}, team |-> NoGroup, expected |-> {}, read |-> <<>>]
NoUserOp == [kind |-> "none", user |-> CHOOSE u \in Human : TRUE, before |-> NotMember,
             rows |-> "absent", teamChanged |-> FALSE]
NoRound == [step |-> "idle", users |-> {}, keys |-> {}, read |-> <<>>]

Known == {u \in Human : rowsOf[u] # "absent"}
KeyNumbers == 0..MaxKeyNumber
Identified(m) == [known |-> TRUE, team |-> m.team, version |-> m.version]
Readers == Clerk \cup {"collector"}

TeamsInit ==
    /\ teams = {CHOOSE t \in Group : TRUE}
    /\ buried = {}
    /\ rowsOf = [u \in Human |-> "active"] /\ keyOf = [u \in Human |-> 0]
    /\ member = [u \in Human |-> NotMember]
    /\ identity = [u \in Human |-> [n \in KeyNumbers |-> NoIdentity]]
    /\ clerk = [c \in Clerk |-> NoRequest]
    /\ userOp = NoUserOp /\ round = NoRound
    /\ window = [r \in Readers |-> [u \in Human |-> {}]]
    /\ asked = 0 /\ late = {}

Ask == asked < MaxRequests /\ asked' = asked + 1

(* Memberships change: every reader's window has the new ones as well.     *)
Memberships(new) ==
    /\ member' = new
    /\ window' = [r \in Readers |-> [u \in Human |-> window[r][u] \cup {new[u]}]]

WindowFrom(r) == [window EXCEPT ![r] = [u \in Human |-> {member[u]}]]

---------------------------------------------------------------------------
(* The catalog of teams.  Names and descriptions are left out.             *)

CreateTeam ==
    /\ Ask
    /\ \E t \in Group \ (teams \cup buried) : teams' = teams \cup {t}
    /\ UNCHANGED <<buried, rowsOf, keyOf, member, identity, clerk, userOp, round, window, late>>

Empty(t) == \A u \in Human : member[u].team # t

DeleteTeam ==
    /\ Ask
    /\ \E t \in teams : /\ Empty(t)
                        /\ teams' = teams \ {t} /\ buried' = buried \cup {t}
    /\ UNCHANGED <<rowsOf, keyOf, member, identity, clerk, userOp, round, window, late>>

(* A membership refers to an existing team (the foreign key of the table). *)
Referable(m) == m.team \in teams \cup {NoGroup}

---------------------------------------------------------------------------
(* applyUserTeamUpdate: the users are looked up, the memberships set in    *)
(* one transaction, read back and copied.  A step that fails ends the      *)
(* request.                                                                *)

clerkFrame == UNCHANGED <<teams, buried, rowsOf, keyOf, userOp, round>>

(* "expected" is empty when the request has no expectation. *)
LookUp(c) ==
    /\ clerk[c] = NoRequest /\ Ask
    /\ \E users \in (SUBSET Known) \ {{}}, t \in Group \cup {NoGroup},
          expected \in {{}} \cup {{x} : x \in Group \cup {NoGroup}} :
        clerk' = [clerk EXCEPT ![c] = [NoRequest EXCEPT !.step = "set", !.users = users,
                                         !.team = t, !.expected = expected]]
    /\ clerkFrame /\ UNCHANGED <<member, identity, window, late>>

ClerkFails(c) ==
    /\ clerk[c].step # "none"
    /\ clerk' = [clerk EXCEPT ![c] = NoRequest]
    /\ clerkFrame /\ UNCHANGED <<member, identity, window, asked, late>>

Assigned(m, t) ==
    IF m.team = t THEN m ELSE [found |-> TRUE, team |-> t, version |-> m.version + 1]

SetUserTeamsExpected(c) ==
    LET users == clerk[c].users  t == clerk[c].team
        new == [u \in Human |-> IF u \in users THEN Assigned(member[u], t) ELSE member[u]]
    IN
    /\ clerk[c].step = "set"
    /\ t \in teams \cup {NoGroup}
    /\ clerk[c].expected # {} => \A u \in users : member[u].team \in clerk[c].expected
    /\ Memberships(new)
    /\ late' = late \cup {u \in users : /\ new[u] # member[u]
                                        /\ u \notin Known \/ userOp.user = u}
    /\ clerk' = [clerk EXCEPT ![c].step = "read"]
    /\ clerkFrame /\ UNCHANGED <<identity, asked>>

ReadBack(c) ==
    /\ clerk[c].step = "read"
    /\ clerk' = [clerk EXCEPT ![c] = [@ EXCEPT !.step = "sync", !.read = member]]
    /\ window' = WindowFrom(c)
    /\ clerkFrame /\ UNCHANGED <<member, identity, asked, late>>

(* Every known key of the users gets what was read. *)
SyncUserTeams(users, read) ==
    identity' = [u \in Human |-> [n \in KeyNumbers |->
                    IF u \in users /\ identity[u][n].known THEN Identified(read[u])
                                                           ELSE identity[u][n]]]

(* The Collector may be draining: what it records then is as old as what   *)
(* the request had read.                                                   *)
SyncAssigned(c) ==
    /\ clerk[c].step = "sync"
    /\ SyncUserTeams(clerk[c].users, clerk[c].read)
    /\ window' = [window EXCEPT !["collector"] =
                     [u \in Human |-> @[u] \cup (IF u \in clerk[c].users THEN window[c][u] ELSE {})]]
    /\ clerk' = [clerk EXCEPT ![c] = NoRequest]
    /\ clerkFrame /\ UNCHANGED <<member, asked, late>>

ClerkStep(c) == \/ LookUp(c) \/ SetUserTeamsExpected(c) \/ ReadBack(c) \/ SyncAssigned(c)
                \/ ClerkFails(c)

---------------------------------------------------------------------------
(* User operations and their compensation, as far as teams are concerned.  *)

userFrame == UNCHANGED <<teams, buried, identity, clerk, round>>

ApplyUserCreation(u) ==
    /\ userOp.kind = "none" /\ rowsOf[u] # "active" /\ keyOf[u] < MaxKeyNumber /\ Ask
    /\ \E t \in teams \cup {NoGroup} :
        /\ Memberships(IF t = NoGroup THEN member
                       ELSE [member EXCEPT ![u] = [found |-> TRUE, team |-> t,
                                                   version |-> member[u].version + 1]])
        /\ userOp' = [kind |-> "create", user |-> u, before |-> member[u], rows |-> rowsOf[u],
                      teamChanged |-> t # NoGroup]
    /\ rowsOf' = [rowsOf EXCEPT ![u] = "active"]
    /\ keyOf' = [keyOf EXCEPT ![u] = @ + 1]
    /\ userFrame /\ UNCHANGED late

RestoreUserCreation ==
    LET u == userOp.user IN
    /\ userOp.kind = "create" /\ (userOp.teamChanged => Referable(userOp.before))
    /\ rowsOf' = [rowsOf EXCEPT ![u] = userOp.rows]
    /\ Memberships(IF userOp.teamChanged THEN [member EXCEPT ![u] = userOp.before] ELSE member)
    /\ late' = IF userOp.teamChanged /\ ~userOp.before.found THEN late \ {u} ELSE late
    /\ userOp' = NoUserOp
    /\ userFrame /\ UNCHANGED <<keyOf, asked>>

ApplyUserDeletion(u) ==
    /\ userOp.kind = "none" /\ u \in Known /\ Ask
    /\ Memberships([member EXCEPT ![u] = NotMember])
    /\ late' = late \ {u}
    /\ rowsOf' = [rowsOf EXCEPT ![u] = "absent"]
    /\ userOp' = [kind |-> "delete", user |-> u, before |-> member[u], rows |-> rowsOf[u],
                  teamChanged |-> TRUE]
    /\ userFrame /\ UNCHANGED keyOf

(* A membership that was set meanwhile is replaced. *)
RestoreUserDeletion ==
    LET u == userOp.user IN
    /\ userOp.kind = "delete" /\ Referable(userOp.before)
    /\ rowsOf' = [rowsOf EXCEPT ![u] = userOp.rows]
    /\ Memberships([member EXCEPT ![u] = userOp.before])
    /\ late' = late \ {u}
    /\ userOp' = NoUserOp
    /\ userFrame /\ UNCHANGED <<keyOf, asked>>

ApplyUserRevocation(u) ==
    /\ userOp.kind = "none" /\ rowsOf[u] = "active" /\ Ask
    /\ rowsOf' = [rowsOf EXCEPT ![u] = "revoked"]
    /\ userFrame /\ UNCHANGED <<keyOf, member, userOp, window, late>>

(* It succeeds, its compensation fails, or Admin dies. *)
UserOpEnds ==
    /\ userOp.kind # "none" /\ userOp' = NoUserOp
    /\ userFrame /\ UNCHANGED <<rowsOf, keyOf, member, window, asked, late>>

UserStep == \/ RestoreUserCreation \/ RestoreUserDeletion \/ UserOpEnds
            \/ \E u \in Human : ApplyUserCreation(u) \/ ApplyUserDeletion(u) \/ ApplyUserRevocation(u)

---------------------------------------------------------------------------
(* A round of the Collector: keys, their identities, memberships, their    *)
(* copy, and then the queues.  It may end after any step.                  *)

roundFrame == UNCHANGED <<teams, buried, rowsOf, keyOf, member, clerk, userOp, asked, late>>

ReadKeys ==
    /\ round.step = "idle"
    /\ round' = [NoRound EXCEPT !.step = "keys", !.users = Known,
                    !.keys = {<<u, keyOf[u]>> : u \in {v \in Human : rowsOf[v] = "active"}}]
    /\ roundFrame /\ UNCHANGED <<identity, window>>

(* A known key keeps its team. *)
SyncIdentities ==
    /\ round.step = "keys"
    /\ identity' = [u \in Human |-> [n \in KeyNumbers |->
                       IF <<u, n>> \in round.keys THEN [identity[u][n] EXCEPT !.known = TRUE]
                                                  ELSE identity[u][n]]]
    /\ round' = [round EXCEPT !.step = "identified"]
    /\ roundFrame /\ UNCHANGED window

ReadUserTeams ==
    /\ round.step = "identified"
    /\ round' = [round EXCEPT !.step = "read", !.read = member]
    /\ window' = WindowFrom("collector")
    /\ roundFrame /\ UNCHANGED identity

(* Deviation: a failing copy does not end the round. *)
SyncRoundOptional ==
    /\ round.step = "read"
    /\ SyncUserTeams(round.users, round.read) \/ UNCHANGED identity
    /\ round' = [round EXCEPT !.step = "drain"]
    /\ roundFrame /\ UNCHANGED window

SyncRound ==
    /\ round.step = "read"
    /\ SyncUserTeams(round.users, round.read)
    /\ round' = [round EXCEPT !.step = "drain"]
    /\ roundFrame /\ UNCHANGED window

RoundEnds ==
    /\ round.step # "idle" /\ round' = NoRound
    /\ roundFrame /\ UNCHANGED <<identity, window>>

RoundStep == ReadKeys \/ SyncIdentities \/ ReadUserTeams \/ SyncRound \/ RoundEnds

TeamsNext == \/ CreateTeam \/ DeleteTeam \/ UserStep \/ RoundStep
             \/ \E c \in Clerk : ClerkStep(c)

TeamsSpec == TeamsInit /\ [][TeamsNext]_teamVars

---------------------------------------------------------------------------
(* While the Collector drains, an event of a user it knows is recorded for *)
(* a membership, team and version, that held since the Collector read, or  *)
(* since a request read that has copied its reading during the round; it   *)
(* is never recorded for no team because a key is new or a copy failed     *)
(* (RunOnce: "return result, err" before the drain).                       *)
RecordedForCurrentTeam ==
    round.step = "drain" =>
        \A u \in round.users, n \in KeyNumbers : identity[u][n].known =>
            \E m \in window["collector"][u] : identity[u][n] = Identified(m)

(* A membership names a team that exists, and belongs to a user who does;  *)
(* or else it was assigned while the user was being created or deleted: a  *)
(* request looks users up before, not inside, its transaction.             *)
MembershipsAgree ==
    \A u \in Human :
        /\ Referable(member[u])
        /\ member[u].found => u \in Known \cup late

(* Teams, their members and the usage recorded for them: the two above.    *)
TeamsAgree == RecordedForCurrentTeam /\ MembershipsAgree
=============================================================================
