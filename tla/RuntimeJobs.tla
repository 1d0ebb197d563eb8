---------------------------- MODULE RuntimeJobs ----------------------------
(***************************************************************************)
(* The runtime jobs of Admin (internal/runtimeops/jobs.go): a manager with *)
(* one mutex, a bounded pool (pond) whose workers call execute, and one    *)
(* goroutine per job that waits for its task and calls finish.  A job      *)
(* occupies its target, or all targets; a queued job can be cancelled      *)
(* while the pool still holds its task.                                    *)
(*                                                                         *)
(* What a job does is left out: its work ends somehow, and earlier if its  *)
(* context is cancelled.  The response to a submission that reuses or      *)
(* conflicts with an active job changes nothing and is left out.           *)
(*                                                                         *)
(* Bounds: JobId.  A definition marked "Deviation" is what the definition  *)
(* after it must not be.                                                   *)
(***************************************************************************)
EXTENDS Integers, Sequences, FiniteSets

CONSTANTS
    JobId,          \* identifiers newID may give
    Target, All,    \* targets of jobs, and the target that means all of them
    Workers,        \* concurrency of the pool
    QueueSize, History

NoJob == "no job"

ASSUME RuntimeJobsAssumption ==
    /\ All \in Target /\ NoJob \notin JobId
    /\ Workers \in Nat \ {0} /\ QueueSize \in Nat \ {0} /\ History \in Nat \ {0}

VARIABLES
    jobs,           \* status and target of every job
    order,          \* jobs in the order of their submission
    active,         \* the job that occupies a target
    pool,           \* queued tasks of the pool
    task,           \* a task that has left the queue: how far it is
    cancelled,      \* jobs whose context is cancelled
    stopped         \* Close was called

jobVars == <<jobs, order, active, pool, task, cancelled, stopped>>

(* A status "none" is an unused identifier, "trimmed" one that is deleted. *)
Terminal == {"succeeded", "failed", "cancelled"}
Live == {"queued", "running", "cancelling"}
Status == Terminal \cup Live \cup {"none", "trimmed"}

(* A task is in the pool, taken by a worker, at work, returned, waited for.*)
AtWork == {"taken", "working"}
Outcome == {"ok", "error", "context cancelled"}

-----------------------------------------------------------------------------
Conflict(t, s) == t = s \/ t = All \/ s = All

(* findConflictLocked *)
Occupied(t) == \E s \in Target : active[s] # NoJob /\ Conflict(t, s)

(* trimLocked drops the oldest finished jobs beyond the history; live ones *)
(* met on the way move to the end.  The loop ends only if there are enough *)
(* finished ones.                                                          *)
Finished(js, id) == js[id].status \in Terminal
Excess(o) == Len(o) - History

TrimCut(o, js) ==
    CHOOSE k \in 1..Len(o) :
        /\ Finished(js, o[k])
        /\ Cardinality({i \in 1..k : Finished(js, o[i])}) = Excess(o)

Trim(js, o) ==
    IF Excess(o) <= 0 THEN jobs' = js /\ order' = o
    ELSE LET cut == TrimCut(o, js)
             dropped == {o[i] : i \in 1..cut}
             live(id) == ~Finished(js, id)
         IN  /\ jobs' = [id \in JobId |->
                    IF id \in dropped /\ Finished(js, id)
                      THEN [js[id] EXCEPT !.status = "trimmed"] ELSE js[id]]
             /\ order' = SubSeq(o, cut + 1, Len(o))
                         \o SelectSeq(SubSeq(o, 1, cut), live)

Marked(id, status) == [jobs EXCEPT ![id] = [@ EXCEPT !.status = status]]

-----------------------------------------------------------------------------
(* Deviation: when the pool refuses the task only the job is withdrawn. *)
SubmitKeepsSlot(id, t) ==
    /\ jobs[id].status = "none" /\ ~stopped /\ ~Occupied(t)
    /\ active' = [active EXCEPT ![t] = id]
    /\ IF Len(pool) < QueueSize
         THEN /\ jobs' = [jobs EXCEPT ![id] = [status |-> "queued", target |-> t]]
              /\ order' = Append(order, id)
              /\ pool' = Append(pool, id)
         ELSE /\ jobs' = Marked(id, "trimmed")
              /\ UNCHANGED <<order, pool>>
    /\ UNCHANGED <<task, cancelled, stopped>>

(* A full pool refuses the task, and everything is withdrawn: the job was  *)
(* never seen, for the mutex is held.                                      *)
Submit(id, t) ==
    /\ jobs[id].status = "none" /\ ~stopped /\ ~Occupied(t)
    /\ IF Len(pool) < QueueSize
         THEN /\ jobs' = [jobs EXCEPT ![id] = [status |-> "queued", target |-> t]]
              /\ order' = Append(order, id)
              /\ active' = [active EXCEPT ![t] = id]
              /\ pool' = Append(pool, id)
              /\ UNCHANGED cancelled
         ELSE /\ jobs' = Marked(id, "trimmed")
              /\ cancelled' = cancelled \cup {id}
              /\ UNCHANGED <<order, active, pool>>
    /\ UNCHANGED <<task, stopped>>

PoolTakes ==
    /\ pool # <<>>
    /\ Cardinality({id \in JobId : task[id] \in AtWork}) < Workers
    /\ task' = [task EXCEPT ![Head(pool)] = "taken"]
    /\ pool' = Tail(pool)
    /\ UNCHANGED <<jobs, order, active, cancelled, stopped>>

(* The pool whose context is cancelled drops what it has not started.      *)
PoolDrops ==
    /\ stopped /\ pool # <<>>
    /\ task' = [task EXCEPT ![Head(pool)] = "context cancelled"]
    /\ pool' = Tail(pool)
    /\ UNCHANGED <<jobs, order, active, cancelled, stopped>>

(* execute under the mutex: a deleted or cancelled job is not begun.       *)
Execute(id) ==
    /\ task[id] = "taken"
    /\ IF jobs[id].status \in {"none", "trimmed"}
         THEN task' = [task EXCEPT ![id] = "error"] /\ UNCHANGED jobs
       ELSE IF id \in cancelled
         THEN task' = [task EXCEPT ![id] = "context cancelled"] /\ UNCHANGED jobs
       ELSE /\ task' = [task EXCEPT ![id] = "working"]
            /\ jobs' = Marked(id, "running")
    /\ UNCHANGED <<order, active, pool, cancelled, stopped>>

WorkEnds(id) ==
    /\ task[id] = "working"
    /\ \E outcome \in IF id \in cancelled THEN Outcome ELSE {"ok", "error"} :
         task' = [task EXCEPT ![id] = outcome]
    /\ UNCHANGED <<jobs, order, active, pool, cancelled, stopped>>

FinalStatus(outcome) == IF outcome = "context cancelled" THEN "cancelled"
                        ELSE IF outcome = "error" THEN "failed" ELSE "succeeded"

(* Deviation: a job that Cancel has finished is finished once more. *)
FinishTwice(id) ==
    /\ task[id] \in Outcome
    /\ task' = [task EXCEPT ![id] = "none"]
    /\ IF jobs[id].status \notin Live \cup {"cancelled"} THEN UNCHANGED <<jobs, order, active>>
       ELSE /\ Trim(Marked(id, FinalStatus(task[id])), order)
            /\ active' = [active EXCEPT ![jobs[id].target] = NoJob]
    /\ UNCHANGED <<pool, cancelled, stopped>>

(* Deviation: a job that is being cancelled is left to Cancel. *)
FinishRunning(id) ==
    /\ task[id] \in Outcome
    /\ task' = [task EXCEPT ![id] = "none"]
    /\ IF jobs[id].status \notin {"queued", "running"} THEN UNCHANGED <<jobs, order, active>>
       ELSE /\ Trim(Marked(id, FinalStatus(task[id])), order)
            /\ active' = [active EXCEPT ![jobs[id].target] = NoJob]
    /\ UNCHANGED <<pool, cancelled, stopped>>

Finish(id) ==
    /\ task[id] \in Outcome
    /\ task' = [task EXCEPT ![id] = "none"]
    /\ IF jobs[id].status \notin Live THEN UNCHANGED <<jobs, order, active>>
       ELSE /\ Trim(Marked(id, FinalStatus(task[id])), order)
            /\ active' = [active EXCEPT ![jobs[id].target] = NoJob]
    /\ UNCHANGED <<pool, cancelled, stopped>>

(* Deviation: a running job gives its target back at once. *)
CancelFrees(id) ==
    /\ jobs[id].status \in {"queued", "running"}
    /\ cancelled' = cancelled \cup {id}
    /\ Trim(Marked(id, "cancelled"), order)
    /\ active' = [active EXCEPT ![jobs[id].target] = NoJob]
    /\ UNCHANGED <<pool, task, stopped>>

(* A queued job is finished at once and its target is free, a running one  *)
(* keeps its target until its work has ended.                              *)
Cancel(id) ==
    /\ jobs[id].status \in {"queued", "running"}
    /\ cancelled' = cancelled \cup {id}
    /\ IF jobs[id].status = "queued"
         THEN /\ Trim(Marked(id, "cancelled"), order)
              /\ active' = [active EXCEPT ![jobs[id].target] = NoJob]
         ELSE jobs' = Marked(id, "cancelling") /\ UNCHANGED <<order, active>>
    /\ UNCHANGED <<pool, task, stopped>>

CloseJobs ==
    /\ ~stopped /\ stopped' = TRUE
    /\ cancelled' = JobId
    /\ UNCHANGED <<jobs, order, active, pool, task>>

-----------------------------------------------------------------------------
JobsInit ==
    /\ jobs = [id \in JobId |-> [status |-> "none", target |-> All]]
    /\ order = <<>> /\ pool = <<>>
    /\ active = [t \in Target |-> NoJob]
    /\ task = [id \in JobId |-> "none"]
    /\ cancelled = {} /\ stopped = FALSE

JobProgress ==
    PoolTakes \/ PoolDrops
    \/ \E id \in JobId : Execute(id) \/ WorkEnds(id) \/ Finish(id)

JobsNext ==
    \/ JobProgress \/ CloseJobs
    \/ \E id \in JobId : Cancel(id) \/ \E t \in Target : Submit(id, t)

JobsSpec == JobsInit /\ [][JobsNext]_jobVars

(* The pool and the goroutines run, and the calls of a job have timeouts.  *)
JobsFairness ==
    /\ WF_jobVars(PoolTakes)
    /\ \A id \in JobId : WF_jobVars(Execute(id)) /\ WF_jobVars(WorkEnds(id))
                         /\ WF_jobVars(Finish(id))

JobsFairSpec == JobsSpec /\ JobsFairness

-----------------------------------------------------------------------------
JobsTypeOK ==
    /\ jobs \in [JobId -> [status : Status, target : Target]]
    /\ order \in Seq(JobId) /\ pool \in Seq(JobId)
    /\ active \in [Target -> JobId \cup {NoJob}]
    /\ task \in [JobId -> {"none"} \cup AtWork \cup Outcome]
    /\ cancelled \in SUBSET JobId /\ stopped \in BOOLEAN

(* The targets that are occupied are exactly those of the live jobs: a     *)
(* refused, cancelled, finished or trimmed job holds none, a job that is   *)
(* being cancelled still holds its own, and nobody frees another's.  And   *)
(* no two jobs work on the same target, nor any beside a job for all.      *)
TargetsKept ==
    /\ \A t \in Target : active[t] # NoJob =>
           jobs[active[t]].status \in Live /\ jobs[active[t]].target = t
    /\ \A id \in JobId : jobs[id].status \in Live => active[jobs[id].target] = id
    /\ \A i, j \in JobId : i # j /\ task[i] = "working" /\ task[j] = "working" =>
           ~Conflict(jobs[i].target, jobs[j].target)

(* Every job ends, cancelled or not, and its target is free again.         *)
JobsSettle ==
    \A id \in JobId : jobs[id].status \in Live ~> jobs[id].status \notin Live
=============================================================================
