----------------------------- MODULE Projection -----------------------------
(***************************************************************************)
(* What Admin renders from the account rows, and the CPAs that read it     *)
(* (internal/accountprojection/renderer.go, config_file.go; internal/      *)
(* runtimeops/account_lifecycle.go: MigrateLegacyConfigMounts).            *)
(*                                                                         *)
(* Every operation that changes accounts, users or settings holds one lock *)
(* (cmd/admin/main.go: identityOperationLock), changes the rows, renders   *)
(* all files, and when that fails puts the rows back and renders again.    *)
(* The catalogs are replaced atomically; the config of an account is       *)
(* rewritten in place while its CPA, which watches the file, may read it   *)
(* at any moment.                                                          *)
(*                                                                         *)
(* Before Admin serves, it renders once and replaces the containers of an  *)
(* older release, which mount a file of their own that is not rendered any *)
(* more, by containers that mount the directory of the config.             *)
(*                                                                         *)
(* A text is what was rendered: the keys of the callers and the proxy.     *)
(* Its length is the number of keys, and one for the rest of it.  A file   *)
(* also has a size, and a tail when bytes of an older, longer text follow  *)
(* the text.                                                               *)
(*                                                                         *)
(* Not modelled: key.map, which depends on routes and is read by nobody;   *)
(* the Ticket proxy of plugins; checks that concern one text alone.        *)
(*                                                                         *)
(* Bounds: MaxChanges, MaxFaults.                                          *)
(***************************************************************************)
EXTENDS Naturals, FiniteSets

CONSTANTS
    Cpa,            \* IDs of accounts
    Caller,         \* users, by their internal keys
    MaxChanges,     \* operations
    MaxFaults       \* failing steps and deaths of Admin

ASSUME ProjectionAssumption == IsFiniteSet(Caller)

VARIABLES
    rows,           \* accounts, keys of active users, proxy settings
    config,         \* configs/<account>/config.yaml
    catalogs,       \* compose.accounts.yml and the maps: the accounts they name
    admin,          \* what Admin is doing
    cpa,            \* per account: its CPA, what it loaded, an event to act on
    mount,          \* the container of an account: none, legacy, directory
    legacyFile,     \* accounts whose file of the older release exists
    had,            \* the container an account came with: none, stopped, running
    lost,           \* accounts that lost it to a death or a failing restoration
    behind,         \* the last change was neither rendered nor undone
    broken,         \* configs that a failed write has left broken
    changes, faults \* bounds

mountVars == <<mount, legacyFile, had, lost>>
projectionVars == <<rows, config, catalogs, admin, cpa, mountVars, behind, broken, changes,
                    faults>>

Broken == [keys |-> {}, proxy |-> "broken"]
NoFile == [text |-> Broken, size |-> 0, tail |-> FALSE]
NotRunning == [runs |-> FALSE, text |-> Broken, tail |-> FALSE, event |-> FALSE]
Legacy == [NotRunning EXCEPT !.runs = TRUE, !.text = [keys |-> {}, proxy |-> "legacy"]]
Size(text) == Cardinality(text.keys) + 1
Whole(text) == [text |-> text, size |-> Size(text), tail |-> FALSE]
Larger(m, n) == IF m > n THEN m ELSE n

(* "unset": a proxy is enabled and has no URL, so nothing can be rendered. *)
Rows == [accounts : SUBSET Cpa, keys : SUBSET Caller, proxy : {"direct", "custom", "unset"}]
Renderable(r) == r.proxy # "unset"
Text(r) == [keys |-> r.keys, proxy |-> r.proxy]

NoRows == [accounts |-> {}, keys |-> {}, proxy |-> "direct"]
Idle == [step |-> "idle", op |-> "none", before |-> NoRows, todo |-> {}, file |-> "none",
         old |-> NoFile]
Down == [Idle EXCEPT !.step = "down"]

ProjectionInit ==
    /\ rows \in {r \in Rows : Renderable(r)}
    /\ config = [a \in Cpa |-> NoFile] /\ catalogs = {}
    /\ admin = Down
    /\ had \in [Cpa -> {"none", "stopped", "running"}]
    /\ \A a \in Cpa \ rows.accounts : had[a] = "none"
    /\ legacyFile = {a \in Cpa : had[a] # "none"} /\ lost = {}
    /\ mount = [a \in Cpa |-> IF had[a] = "none" THEN "none" ELSE "legacy"]
    /\ cpa = [a \in Cpa |-> IF had[a] = "running" THEN Legacy ELSE NotRunning]
    /\ behind = TRUE /\ broken = {} /\ changes = 0 /\ faults = 0

Fault == faults < MaxFaults /\ faults' = faults + 1

---------------------------------------------------------------------------
(* Operations.                                                             *)

Boot ==
    /\ admin.step = "down"
    /\ admin' = [Idle EXCEPT !.step = "render", !.op = "start"]
    /\ UNCHANGED <<rows, config, catalogs, cpa, mountVars, behind, broken, changes, faults>>

(* An operation changes accounts, users or settings in one transaction. *)
Change ==
    /\ admin.step = "idle" /\ changes < MaxChanges /\ changes' = changes + 1
    /\ \E new \in Rows :
        /\ Cardinality({f \in DOMAIN new : new[f] # rows[f]}) = 1
        /\ rows' = new
    /\ admin' = [Idle EXCEPT !.step = "render", !.op = "change", !.before = rows]
    /\ UNCHANGED <<config, catalogs, cpa, mountVars, behind, broken, faults>>

(* Render: all outputs are built and checked, then written one by one.     *)
Render ==
    /\ admin.step = "render" /\ Renderable(rows)
    /\ admin' = [admin EXCEPT !.step = "files", !.todo = rows.accounts]
    /\ UNCHANGED <<rows, config, catalogs, cpa, mountVars, behind, broken, changes, faults>>

(* The rows go back, unless that fails too; Admin does not start.          *)
Failed ==
    \/ /\ admin.op = "change"
       /\ rows' = admin.before
       /\ admin' = [Idle EXCEPT !.step = "render", !.op = "undo"]
       /\ UNCHANGED <<behind, faults>>
    \/ /\ admin.op = "change" /\ Fault
       /\ admin' = Idle /\ behind' = TRUE /\ UNCHANGED rows
    \/ /\ admin.op # "change"
       /\ admin' = (IF admin.op = "start" THEN Down ELSE Idle)
       /\ behind' = TRUE /\ UNCHANGED <<rows, faults>>

Refuse ==
    /\ admin.step = "render" /\ ~Renderable(rows) /\ Failed
    /\ UNCHANGED <<config, catalogs, cpa, mountVars, broken, changes>>

(* Containers and directories of accounts that are gone are removed.       *)
Done ==
    LET kept == rows.accounts IN
    /\ admin.step = "done" /\ admin.op # "start"
    /\ cpa' = [a \in Cpa |-> IF a \in kept THEN cpa[a] ELSE NotRunning]
    /\ config' = [a \in Cpa |-> IF a \in kept THEN config[a] ELSE NoFile]
    /\ mount' = [a \in Cpa |-> IF a \in kept THEN mount[a] ELSE "none"]
    /\ had' = [a \in Cpa |-> IF a \in kept THEN had[a] ELSE "none"]
    /\ lost' = lost \cap kept /\ broken' = broken \cap kept
    /\ behind' = FALSE /\ admin' = Idle
    /\ UNCHANGED <<rows, catalogs, legacyFile, changes, faults>>

(* Admin dies; a write under way may have got half way. *)
Die ==
    /\ admin.step # "down" /\ Fault
    /\ admin' = Down /\ behind' = TRUE
    /\ LET half == {admin.file} \cap (IF admin.step \in {"write", "back"} THEN Cpa ELSE {}) IN
       \E torn \in SUBSET half :
        /\ config' = [a \in Cpa |-> IF a \in torn THEN [config[a] EXCEPT !.text = Broken]
                                                  ELSE config[a]]
        /\ broken' = broken \cup torn
        /\ cpa' = [a \in Cpa |-> [cpa[a] EXCEPT !.event = @ \/ (a \in torn /\ cpa[a].runs)]]
    /\ lost' = lost \cup (IF admin.step \in {"create", "rebuild"} /\ mount[admin.file] = "none"
                          THEN {admin.file} ELSE {})
    /\ UNCHANGED <<rows, catalogs, mount, legacyFile, had, changes>>

---------------------------------------------------------------------------
(* writeAccountConfig.  A watching CPA gets an event of every write.       *)

writeFrame == UNCHANGED <<rows, catalogs, mountVars, behind, changes>>

Put(a, file) ==
    /\ config' = [config EXCEPT ![a] = file]
    /\ cpa' = [cpa EXCEPT ![a].event = cpa[a].runs /\ mount[a] = "directory"]

Open(a) ==
    /\ admin.step = "files" /\ a \in admin.todo
    /\ admin' = [admin EXCEPT !.todo = @ \ {a}, !.file = a, !.old = config[a],
                    !.step = IF config[a] = NoFile THEN "new"
                             ELSE IF config[a] = Whole(Text(rows)) THEN "files" ELSE "write"]
    /\ writeFrame /\ UNCHANGED <<config, cpa, broken, faults>>

(* The first config of an account is a new file. *)
WriteAtomic ==
    /\ admin.step = "new"
    /\ Put(admin.file, Whole(Text(rows)))
    /\ admin' = [admin EXCEPT !.step = "files"]
    /\ writeFrame /\ UNCHANGED <<broken, faults>>

(* replaceConfigContents: "text" and blanks up to "oldSize" in one write.  *)
Overwritten(file, text, oldSize) ==
    LET written == Larger(Size(text), oldSize) IN
    [text |-> text, size |-> Larger(file.size, written), tail |-> file.size > written]

(* Deviation: the restored text is not padded to the length of the new one. *)
RestoredOverPrevious(file, text, oldSize) ==
    LET written == Larger(Size(text), admin.old.size) IN
    [text |-> text, size |-> Larger(file.size, written), tail |-> file.size > written]

Restored(file, text, oldSize) == Overwritten(file, text, oldSize)

Cut(file) == Whole(file.text)

WriteAt ==
    /\ admin.step = "write"
    /\ Put(admin.file, Overwritten(config[admin.file], Text(rows), admin.old.size))
    /\ broken' = broken \ {admin.file}
    /\ admin' = [admin EXCEPT !.step = "cut"]
    /\ writeFrame /\ UNCHANGED faults

Truncate ==
    /\ admin.step = "cut"
    /\ Put(admin.file, Cut(config[admin.file]))
    /\ admin' = [admin EXCEPT !.step = "sync"]
    /\ writeFrame /\ UNCHANGED <<broken, faults>>

Sync ==
    /\ admin.step = "sync"
    /\ admin' = [admin EXCEPT !.step = "files"]
    /\ writeFrame /\ UNCHANGED <<config, cpa, broken, faults>>

(* A short write, or a step that fails: the previous contents go back.     *)
WriteFails ==
    /\ admin.step \in {"write", "cut", "sync"} /\ Fault
    /\ IF admin.step = "write"
       THEN /\ Put(admin.file, [config[admin.file] EXCEPT !.text = Broken])
            /\ broken' = broken \cup {admin.file}
       ELSE UNCHANGED <<config, cpa, broken>>
    /\ admin' = [admin EXCEPT !.step = "back"]
    /\ writeFrame

Restore ==
    LET previous == admin.old.text IN
    /\ admin.step = "back"
    /\ Put(admin.file, Restored(config[admin.file], previous,
                                Larger(admin.old.size, Size(Text(rows)))))
    /\ broken' = IF previous = Broken THEN broken \cup {admin.file} ELSE broken \ {admin.file}
    /\ admin' = [admin EXCEPT !.step = "backcut"]
    /\ writeFrame /\ UNCHANGED faults

TruncateBack ==
    /\ admin.step = "backcut"
    /\ Put(admin.file, Cut(config[admin.file]))
    /\ admin' = [admin EXCEPT !.step = "failed"]
    /\ writeFrame /\ UNCHANGED <<broken, faults>>

RestoreFails ==
    /\ admin.step \in {"back", "backcut"} /\ Fault
    /\ admin' = [admin EXCEPT !.step = "failed"]
    /\ writeFrame /\ UNCHANGED <<config, cpa, broken>>

WriteCatalogs ==
    /\ admin.step = "files" /\ admin.todo = {}
    /\ catalogs' = rows.accounts
    /\ admin' = [admin EXCEPT !.step = "done"]
    /\ UNCHANGED <<rows, config, cpa, mountVars, behind, broken, changes, faults>>

(* Any other write fails, before it has changed anything. *)
FileFails ==
    /\ admin.step \in {"files", "new"} /\ Fault
    /\ admin' = [admin EXCEPT !.step = "failed"]
    /\ UNCHANGED <<rows, config, catalogs, cpa, mountVars, behind, broken, changes>>

RenderFails ==
    /\ admin.step = "failed" /\ Failed
    /\ UNCHANGED <<config, catalogs, cpa, mountVars, broken, changes>>

---------------------------------------------------------------------------
(* MigrateLegacyConfigMounts, when Admin starts and has rendered.  A step  *)
(* that fails ends the start, and the next start goes on.                  *)

migrateFrame == UNCHANGED <<rows, config, catalogs, behind, broken, changes>>
Started(a) == [NotRunning EXCEPT !.runs = TRUE, !.text = config[a].text, !.tail = config[a].tail]
WasRunning(a) == had[a] = "running"
Goto(step) == admin' = [admin EXCEPT !.step = step]

BeginMigration ==
    /\ admin.step = "done" /\ admin.op = "start"
    /\ admin' = [admin EXCEPT !.step = "migrate", !.todo = rows.accounts]
    /\ migrateFrame /\ UNCHANGED <<cpa, mountVars, faults>>

(* An account without a container is passed over.  A running container is  *)
(* drained; that may time out.                                             *)
InspectMount(a) ==
    /\ admin.step = "migrate" /\ a \in admin.todo
    /\ admin' = [admin EXCEPT !.todo = @ \ {a}, !.file = a,
                    !.step = CASE mount[a] = "none" -> "migrate"
                               [] mount[a] = "legacy" -> "remove"
                               [] mount[a] = "directory" -> "unlink"]
    /\ migrateFrame /\ UNCHANGED <<cpa, mountVars, faults>>

RemoveLegacy ==
    /\ admin.step = "remove" /\ Goto("create")
    /\ mount' = [mount EXCEPT ![admin.file] = "none"]
    /\ cpa' = [cpa EXCEPT ![admin.file] = NotRunning]
    /\ migrateFrame /\ UNCHANGED <<legacyFile, had, lost, faults>>

(* The image stays the same; a stopped container stays stopped. *)
CreateReplacement ==
    LET a == admin.file IN
    /\ admin.step = "create" /\ Goto(IF WasRunning(a) THEN "probe" ELSE "unlink")
    /\ mount' = [mount EXCEPT ![a] = "directory"]
    /\ cpa' = [cpa EXCEPT ![a] = IF WasRunning(a) THEN Started(a) ELSE NotRunning]
    /\ migrateFrame /\ UNCHANGED <<legacyFile, had, lost, faults>>

ProbeReplacement ==
    /\ admin.step = "probe" /\ Goto("unlink")
    /\ migrateFrame /\ UNCHANGED <<cpa, mountVars, faults>>

(* Creation or probe fails: what was created is removed again. *)
ReplacementFails ==
    /\ admin.step \in {"create", "probe"} /\ Fault /\ Goto("rebuild")
    /\ mount' = [mount EXCEPT ![admin.file] = "none"]
    /\ cpa' = [cpa EXCEPT ![admin.file] = NotRunning]
    /\ migrateFrame /\ UNCHANGED <<legacyFile, had, lost>>

RebuildLegacy ==
    LET a == admin.file IN
    /\ admin.step = "rebuild" /\ Goto("failed")
    /\ mount' = [mount EXCEPT ![a] = "legacy"]
    /\ cpa' = [cpa EXCEPT ![a] = IF WasRunning(a) THEN Legacy ELSE NotRunning]
    /\ migrateFrame /\ UNCHANGED <<legacyFile, had, lost, faults>>

RebuildFails ==
    /\ admin.step = "rebuild" /\ Fault /\ Goto("failed")
    /\ lost' = lost \cup {admin.file}
    /\ migrateFrame /\ UNCHANGED <<cpa, mount, legacyFile, had>>

RemoveLegacyFile ==
    /\ admin.step = "unlink" /\ Goto("migrate")
    /\ legacyFile' = legacyFile \ {admin.file}
    /\ migrateFrame /\ UNCHANGED <<cpa, mount, had, lost, faults>>

MigrationFails ==
    /\ admin.step \in {"migrate", "remove", "unlink"} /\ Fault /\ Goto("failed")
    /\ migrateFrame /\ UNCHANGED <<cpa, mountVars>>

EndMigration ==
    /\ admin.step = "migrate" /\ admin.todo = {}
    /\ admin' = Idle /\ behind' = FALSE
    /\ UNCHANGED <<rows, config, catalogs, cpa, mountVars, broken, changes, faults>>

Migration == \/ BeginMigration \/ RemoveLegacy \/ CreateReplacement \/ ProbeReplacement
             \/ ReplacementFails \/ RebuildLegacy \/ RebuildFails \/ RemoveLegacyFile
             \/ MigrationFails \/ EndMigration \/ \E a \in Cpa : InspectMount(a)

---------------------------------------------------------------------------
(* A CPA has an event: it reads its config as it is.                       *)

Load(a) ==
    /\ cpa[a].event /\ config[a] # NoFile
    /\ cpa' = [cpa EXCEPT ![a] = Started(a)]
    /\ UNCHANGED <<rows, config, catalogs, admin, mountVars, behind, broken, changes, faults>>

(* A container is created, or a stopped one started, when Admin serves. *)
StartCpa(a) ==
    /\ a \in rows.accounts /\ ~cpa[a].runs /\ config[a] # NoFile /\ admin.step = "idle"
    /\ cpa' = [cpa EXCEPT ![a] = Started(a)]
    /\ mount' = [mount EXCEPT ![a] = "directory"] /\ lost' = lost \ {a}
    /\ UNCHANGED <<rows, config, catalogs, admin, legacyFile, had, behind, broken, changes, faults>>

Writing == \/ WriteAtomic \/ WriteAt \/ Truncate \/ Sync \/ WriteFails
           \/ Restore \/ TruncateBack \/ RestoreFails \/ WriteCatalogs
           \/ \E a \in Cpa : Open(a)

ProjectionNext == \/ Boot \/ Change \/ Render \/ Refuse \/ Done \/ Die
                  \/ Writing \/ FileFails \/ RenderFails
                  \/ Migration \/ \E a \in Cpa : Load(a) \/ StartCpa(a)

ProjectionSpec == ProjectionInit /\ [][ProjectionNext]_projectionVars

---------------------------------------------------------------------------
(* When Admin is idle and its last change was rendered or undone, all      *)
(* files say what the rows say, and a CPA has loaded its own or is about   *)
(* to, whatever failed on the way.                                         *)
FilesAgree ==
    admin.step = "idle" /\ ~behind =>
        /\ catalogs = rows.accounts
        /\ \A a \in rows.accounts :
            /\ config[a] = Whole(Text(rows))
            /\ cpa[a].runs /\ ~cpa[a].event => cpa[a].text = Text(rows)

(* A CPA that reads its config in the middle of a write sees no keys of    *)
(* another text behind it ("cannot see old trailing keys or an empty       *)
(* file"), and half a text only while a failed write has left one.         *)
WholeConfigsRead ==
    \A a \in Cpa : cpa[a].runs /\ ~cpa[a].event =>
        /\ ~cpa[a].tail
        /\ cpa[a].text = Broken => a \in broken

(* "The legacy file is removed only after the replacement container has    *)
(* loaded": a container of the older release has its file, none is left    *)
(* when Admin serves, and no account is without the container it came      *)
(* with, running if that ran, unless restoring it failed or Admin died.    *)
MountsMigrated ==
    LET replacing == {admin.file} \cap (IF admin.step \in {"create", "rebuild"} THEN Cpa ELSE {}) IN
    \A a \in rows.accounts :
        /\ mount[a] = "legacy" => a \in legacyFile /\ admin.step # "idle"
        /\ a \notin lost \cup replacing /\ had[a] # "none" =>
              mount[a] # "none" /\ (had[a] = "running" => cpa[a].runs)

(* What is rendered, what is read of it, and from where: the three above.  *)
ProjectionSound == FilesAgree /\ WholeConfigsRead /\ MountsMigrated
=============================================================================
