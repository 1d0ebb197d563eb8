----------------------------- MODULE CpaRuntime -----------------------------
(***************************************************************************)
(* The CPA containers and what they run (internal/runtimeops: images.go,   *)
(* extensions.go, the containers of account_lifecycle.go and the start and *)
(* stop of docker.go): the image of a mutable channel is pulled as a       *)
(* candidate, applied to running CPAs one after another and recorded as    *)
(* applied, in the control database and in the Compose environment; a      *)
(* plugin is installed on one CPA in a staging configuration and then      *)
(* pinned.                                                                 *)
(*                                                                         *)
(* Pulls and updates run in jobs under the operation lock, one at a time   *)
(* (task).  Start, stop and restart jobs do not take the lock; the job     *)
(* manager keeps them away from the target of another job (RuntimeJobs).   *)
(* An image is its number, 0 for none; the plugin is a version, 0 for      *)
(* none.  The order in which CPAs are updated is left open.                *)
(*                                                                         *)
(* Bounds: LastImage, MaxJobs, MaxFailures.  A definition marked           *)
(* "Deviation" is what the definition after it must not be.                *)
(***************************************************************************)
EXTENDS Naturals, Sequences

CONSTANTS
    Unit,           \* accounts
    EnabledUnit,    \* those whose group is enabled
    AllUnits,       \* the target "all"
    LastImage,      \* images the channel ever names
    MaxJobs,        \* updates, pulls and starts or stops
    MaxFailures     \* failing steps and deaths of Admin

ASSUME CpaRuntimeAssumption ==
    /\ EnabledUnit \subseteq Unit /\ AllUnits \notin Unit
    /\ {LastImage, MaxJobs, MaxFailures} \subseteq Nat

VARIABLES
    channel,        \* the image the registry has for the configured channel
    pulled,         \* the image the local tag of the channel names
    imageState,     \* runtime state "cliproxy_image": candidate and applied
    projected,      \* CLIPROXY_IMAGE of the Compose environment
    cpa,            \* the container of an account: image, state, plugin
    rollbackRef,    \* the image an account's rollback tag names
    installed,      \* the recorded plugin of an account
    rendered,       \* the plugin in its rendered configuration
    running,        \* the job under the operation lock
    failed,         \* a rollback failed or Admin died over a job
    work            \* bounds

runtimeVars == <<channel, pulled, imageState, projected, cpa, rollbackRef, installed,
                 rendered, running, failed, work>>

NoPlugin == [version |-> 0, staging |-> FALSE]
NoJob == [kind |-> "none", step |-> "", target |-> AllUnits, image |-> 0, todo |-> {},
          attempted |-> <<>>, outcome |-> "", before |-> <<>>, previous |-> NoPlugin]
NoContainer == [image |-> 0, state |-> "none", plugin |-> 0]

(* imageAndListenAddress *)
AppliedImage == IF imageState.applied = 0 THEN pulled ELSE imageState.applied

RuntimeInit ==
    /\ channel = 1 /\ pulled = 1 /\ projected = 1
    /\ imageState \in [candidate : {1}, applied : {0, 1}]
    /\ cpa = [u \in Unit |-> [image |-> 1, state |-> "running", plugin |-> 0]]
    /\ rollbackRef = [u \in Unit |-> 0]
    /\ installed = [u \in Unit |-> NoPlugin]
    /\ rendered = installed
    /\ running = NoJob
    /\ failed = FALSE
    /\ work = [jobs |-> 0, failures |-> 0]

Job == work.jobs < MaxJobs /\ work' = [work EXCEPT !.jobs = @ + 1]
Mishap == work.failures < MaxFailures /\ work' = [work EXCEPT !.failures = @ + 1]

ChannelMoves ==
    /\ channel < LastImage
    /\ channel' = channel + 1
    /\ UNCHANGED <<pulled, imageState, projected, cpa, rollbackRef, installed, rendered,
                   running, failed, work>>

---------------------------------------------------------------------------
(* Containers.                                                             *)

(* A container reads its rendered configuration when it is created or      *)
(* starts.                                                                 *)
Created(u, image) == [image |-> image, state |-> "running", plugin |-> rendered[u].version]
Started(c, u) == [c EXCEPT !.state = "running", !.plugin = rendered[u].version]

imageFrame == UNCHANGED <<channel, pulled, imageState, projected, rollbackRef>>
pluginFrame == UNCHANGED <<installed, rendered>>

(* Manager.Start, Stop and Restart, for one account, outside the lock.     *)
Unclaimed(u) == running.kind \notin {"update", "plugin"} \/ running.target \notin {u, AllUnits}

Operate(u) ==
    /\ Unclaimed(u) /\ cpa[u].state # "none" /\ Job
    /\ cpa' \in {[cpa EXCEPT ![u] = Started(@, u)], [cpa EXCEPT ![u].state = "stopped"]}
    /\ imageFrame /\ pluginFrame /\ UNCHANGED <<running, failed>>

(* An account operation makes the container anew.                          *)
CreateAccountContainer(u) ==
    /\ running.kind = "none" /\ u \in EnabledUnit /\ Job
    /\ cpa' = [cpa EXCEPT ![u] = Created(u, AppliedImage)]
    /\ imageFrame /\ pluginFrame /\ UNCHANGED <<running, failed>>

---------------------------------------------------------------------------
(* PullImage: the tag moves; then the image is inspected, its version is   *)
(* asked for, and it becomes the candidate.                                *)
PullImage ==
    /\ running.kind = "none" /\ Job
    /\ pulled' = channel
    /\ imageState' = [imageState EXCEPT !.candidate = channel]
    /\ UNCHANGED <<channel, projected, cpa, rollbackRef, running, failed>>
    /\ pluginFrame

PullFails ==
    /\ running.kind = "none" /\ Mishap
    /\ pulled' = channel
    /\ UNCHANGED <<channel, imageState, projected, cpa, rollbackRef, running, failed>>
    /\ pluginFrame

---------------------------------------------------------------------------
(* UpdateImage.                                                            *)

Selected(target) == IF target = AllUnits THEN EnabledUnit ELSE {target}
Outdated(units) == {u \in units : cpa[u].state = "running" /\ cpa[u].image # pulled}
Current(units) == {u \in units : cpa[u].state = "running" /\ cpa[u].image = pulled}

(* The local image becomes the candidate if it is not; all old images are  *)
(* tagged before the first container is replaced.                          *)
BeginUpdate ==
    /\ running.kind = "none" /\ Job
    /\ \E target \in EnabledUnit \cup {AllUnits} :
        LET units == Selected(target) IN
        /\ imageState' = [imageState EXCEPT !.candidate = pulled]
        /\ rollbackRef' = [u \in Unit |-> IF u \in Outdated(units) THEN cpa[u].image
                                                                  ELSE rollbackRef[u]]
        /\ running' =
             IF Outdated(units) = {} /\ Current(units) = {} THEN NoJob
             ELSE [NoJob EXCEPT !.kind = "update", !.target = target, !.image = pulled,
                     !.step = IF Outdated(units) = {} THEN "record" ELSE "remove",
                     !.todo = Outdated(units),
                     !.before = [unit |-> cpa, state |-> imageState', file |-> projected]]
    /\ UNCHANGED <<channel, pulled, projected, cpa, failed>> /\ pluginFrame

BeginUpdateFails ==
    /\ running.kind = "none" /\ Mishap
    /\ \E target \in EnabledUnit \cup {AllUnits} :
       \E tagged \in SUBSET Outdated(Selected(target)) :
          rollbackRef' = [u \in Unit |-> IF u \in tagged THEN cpa[u].image ELSE rollbackRef[u]]
    /\ imageState' \in {imageState, [imageState EXCEPT !.candidate = pulled]}
    /\ UNCHANGED <<channel, pulled, projected, cpa, running, failed>> /\ pluginFrame

UpdateAt(step) == running.kind = "update" /\ running.step = step
Goes(step) == running' = [running EXCEPT !.step = step] /\ UNCHANGED <<failed, work>>
(* The first failure starts the rollback; nothing was replaced when the    *)
(* CPAs were only probed, so nothing is rolled back then.                  *)
TurnsBack == Mishap /\ running' = [running EXCEPT !.step = "undo"] /\ UNCHANGED failed
updateFrame ==
    /\ UNCHANGED <<channel, pulled, rollbackRef>> /\ pluginFrame
Attempting == running.attempted[Len(running.attempted)]

(* replaceAccountImage; a container that cannot be removed is stopped.     *)
RemoveOld ==
    /\ UpdateAt("remove")
    /\ \E u \in running.todo :
        LET job == [running EXCEPT !.todo = @ \ {u}, !.attempted = Append(@, u)] IN
        \/ /\ cpa' = [cpa EXCEPT ![u] = NoContainer]
           /\ running' = [job EXCEPT !.step = "create"]
           /\ UNCHANGED <<failed, work>>
        \/ /\ Mishap
           /\ cpa' \in {cpa, [cpa EXCEPT ![u].state = "stopped"]}
           /\ running' = [job EXCEPT !.step = "undo"]
           /\ UNCHANGED failed
    /\ UNCHANGED <<imageState, projected>> /\ updateFrame

CreateNew ==
    /\ UpdateAt("create")
    /\ \/ cpa' = [cpa EXCEPT ![Attempting] = Created(Attempting, running.image)] /\ Goes("probe")
       \/ TurnsBack /\ UNCHANGED cpa
    /\ UNCHANGED <<imageState, projected>> /\ updateFrame

(* A container that does not answer is removed, if that succeeds.          *)
ProbeNew ==
    /\ UpdateAt("probe")
    /\ \/ UNCHANGED cpa /\ Goes(IF running.todo = {} THEN "record" ELSE "remove")
       \/ TurnsBack /\ cpa' \in {cpa, [cpa EXCEPT ![Attempting] = NoContainer]}
    /\ UNCHANGED <<imageState, projected>> /\ updateFrame

(* commitCPAImageApplied: the record, then the Compose environment; a      *)
(* failing second step takes the first one back, if that succeeds.         *)
RecordApplied ==
    /\ UpdateAt("record")
    /\ \/ /\ imageState' = [candidate |-> running.image, applied |-> running.image]
          /\ Goes("project")
       \/ TurnsBack /\ UNCHANGED imageState
    /\ UNCHANGED <<cpa, projected>> /\ updateFrame

ProjectCPAImage ==
    /\ UpdateAt("project")
    /\ \/ /\ projected' = running.image
          /\ running' = [running EXCEPT !.step = "done", !.outcome = "updated"]
          /\ UNCHANGED <<imageState, failed, work>>
       \/ /\ Mishap
          /\ running' = [running EXCEPT !.step = "undo"]
          /\ \/ imageState' = running.before.state /\ UNCHANGED failed
             \/ failed' = TRUE /\ UNCHANGED imageState
          /\ UNCHANGED projected
    /\ UNCHANGED cpa /\ updateFrame

RollbackLastOnly ==        \* Deviation: only the account that failed is restored
    /\ UpdateAt("undo") /\ running.attempted # <<>>
    /\ cpa' = [cpa EXCEPT ![Attempting] = Created(Attempting, rollbackRef[Attempting])]
    /\ running' = [running EXCEPT !.step = "done", !.outcome = "restored"]
    /\ UNCHANGED <<failed, work, imageState, projected>> /\ updateFrame

(* rollbackCPAImages: in reverse order, continuing after a failure.        *)
RollbackImages ==
    /\ UpdateAt("undo")
    /\ IF running.attempted = <<>>
       THEN /\ running' = [running EXCEPT !.step = "done", !.outcome = "restored"]
            /\ UNCHANGED <<cpa, failed, work>>
       ELSE LET u == Attempting
                restored == Created(u, rollbackRef[u])
            IN  /\ running' = [running EXCEPT
                                  !.attempted = SubSeq(@, 1, Len(@) - 1)]
                /\ \/ cpa' = [cpa EXCEPT ![u] = restored] /\ UNCHANGED <<failed, work>>
                   \/ /\ Mishap /\ failed' = TRUE
                      /\ \E left \in {cpa[u], NoContainer, restored} :
                            cpa' = [cpa EXCEPT ![u] = left]
    /\ UNCHANGED <<imageState, projected>> /\ updateFrame

EndUpdate ==
    /\ UpdateAt("done") /\ running' = NoJob
    /\ UNCHANGED <<cpa, failed, work, imageState, projected>> /\ updateFrame

---------------------------------------------------------------------------
(* UpdatePlugin.                                                           *)

PluginAt(step) == running.kind = "plugin" /\ running.step = step
Target == running.target
installFrame == imageFrame
Renders == rendered' = installed
PluginBack == Mishap /\ running' = [running EXCEPT !.step = "reset"] /\ UNCHANGED failed
PluginGoes(step) == running' = [running EXCEPT !.step = step] /\ UNCHANGED <<failed, work>>

(* The artifact is there and loads in an isolated container; the record    *)
(* says staging.                                                           *)
BeginPlugin ==
    /\ running.kind = "none" /\ Job
    /\ \E u \in EnabledUnit :
        /\ cpa[u].state = "running"
        /\ running' = [NoJob EXCEPT !.kind = "plugin", !.target = u, !.step = "render",
                                    !.previous = installed[u]]
        /\ installed' = [installed EXCEPT ![u] = [version |-> @.version + 1, staging |-> TRUE]]
    /\ UNCHANGED <<cpa, rendered, failed>> /\ installFrame

RenderPlugin ==
    /\ PluginAt("render")
    /\ (Renders /\ PluginGoes("restart")) \/ (PluginBack /\ UNCHANGED rendered)
    /\ UNCHANGED <<cpa, installed>> /\ installFrame

(* RestartRunningAccount: the drain, the restart and the probe.            *)
RestartPlugin ==
    /\ PluginAt("restart")
    /\ \/ cpa' = [cpa EXCEPT ![Target] = Started(@, Target)] /\ PluginGoes("verify")
       \/ PluginBack /\ cpa' \in {cpa, [cpa EXCEPT ![Target] = Started(@, Target)]}
    /\ UNCHANGED <<installed, rendered>> /\ installFrame

(* activate: CPA reports the version; commitInstallation.                  *)
PinPlugin ==
    /\ PluginAt("verify")
    /\ \/ /\ installed' = [installed EXCEPT ![Target].staging = FALSE]
          /\ PluginGoes("publish")
       \/ PluginBack /\ UNCHANGED installed
    /\ UNCHANGED <<cpa, rendered>> /\ installFrame

RenderPinned ==
    /\ PluginAt("publish")
    /\ \/ Renders /\ running' = NoJob /\ UNCHANGED <<failed, work>>
       \/ PluginBack /\ UNCHANGED rendered
    /\ UNCHANGED <<cpa, installed>> /\ installFrame

ResetRecordOnly ==         \* Deviation: the CPA keeps the staging configuration
    /\ PluginAt("reset")
    /\ installed' = [installed EXCEPT ![Target] = running.previous]
    /\ running' = NoJob
    /\ UNCHANGED <<cpa, rendered, failed, work>> /\ installFrame

(* The previous record, its rendering and a restart; the first failure     *)
(* ends the rollback.                                                      *)
ResetPlugin ==
    /\ PluginAt("reset")
    /\ running' = NoJob
    /\ \/ /\ installed' = [installed EXCEPT ![Target] = running.previous]
          /\ rendered' = installed'
          /\ cpa' = [cpa EXCEPT ![Target].state = "running",
                                ![Target].plugin = running.previous.version]
          /\ UNCHANGED <<failed, work>>
       \/ /\ Mishap /\ failed' = TRUE
          /\ installed' \in {installed, [installed EXCEPT ![Target] = running.previous]}
          /\ rendered' \in {rendered, installed'}
          /\ UNCHANGED cpa
    /\ installFrame

---------------------------------------------------------------------------
(* Admin dies; nothing is journalled.  When it starts it renders.          *)
AdminFalls ==
    /\ running.kind # "none" /\ Mishap
    /\ running' = NoJob /\ failed' = TRUE
    /\ Renders
    /\ UNCHANGED <<cpa, installed>> /\ imageFrame

UpdateSteps == BeginUpdate \/ BeginUpdateFails \/ RemoveOld \/ CreateNew \/ ProbeNew
               \/ RecordApplied \/ ProjectCPAImage \/ RollbackImages \/ EndUpdate
PluginSteps == BeginPlugin \/ RenderPlugin \/ RestartPlugin \/ PinPlugin \/ RenderPinned
               \/ ResetPlugin

RuntimeNext ==
    \/ ChannelMoves \/ PullImage \/ PullFails
    \/ \E u \in Unit : Operate(u) \/ CreateAccountContainer(u)
    \/ UpdateSteps \/ PluginSteps \/ AdminFalls

RuntimeSpec == RuntimeInit /\ [][RuntimeNext]_runtimeVars

---------------------------------------------------------------------------
(* An update ends either with every CPA it replaced on the target and that *)
(* image applied and projected, or with every CPA, the record and the      *)
(* Compose environment as they were (UpdateImage: a "failure rolls all     *)
(* attempted accounts back").                                              *)
UpdateAllOrNothing ==
    UpdateAt("done") /\ ~failed =>
        LET units == Selected(Target)
            runningBefore == {u \in units : running.before.unit[u].state = "running"}
        IN  IF running.outcome = "updated"
            THEN /\ \A u \in runningBefore : /\ cpa[u].state = "running"
                                             /\ cpa[u].image = running.image
                 /\ imageState.applied = running.image /\ projected = running.image
            ELSE /\ \A u \in units : cpa[u] = running.before.unit[u]
                 /\ imageState = running.before.state /\ projected = running.before.file

(* Between jobs a running CPA has the plugin that is recorded for it, none *)
(* is left staging, and the Compose environment names the applied image    *)
(* (UpdatePlugin and its rollback, commitCPAImageApplied).                 *)
RuntimeSettled ==
    running.kind = "none" /\ ~failed =>
        /\ rendered = installed
        /\ \A u \in Unit : /\ ~installed[u].staging
                           /\ cpa[u].state = "running" => cpa[u].plugin = installed[u].version
        /\ imageState.applied # 0 => projected = imageState.applied

(* Images and plugins: the two above.                                      *)
RuntimeConsistent == UpdateAllOrNothing /\ RuntimeSettled
=============================================================================
