--------------------------- MODULE OwnershipLease ---------------------------
(***************************************************************************)
(* Ownership leases and write fencing: internal/controlplane/lease.go,     *)
(* the worker guard internal/ownership/guard.go, and the operator commands *)
(* of cmd/ownership.                                                       *)
(*                                                                         *)
(* Every lease record is a row of control-plane.sqlite3.  A worker process *)
(* joins the runtime-wide lease of its owner, takes the lease of its own   *)
(* scope, installs both as the fence of its Store and then runs under a    *)
(* heartbeat.  Every transaction of a fenced Store checks the fence inside *)
(* the transaction and under the cross-process file lock (writeTransaction)*)
(* and is one step here; WithWriteFence keeps the file lock while another  *)
(* store is written and is the two steps BeginFenced and EndFenced.        *)
(*                                                                         *)
(* The 32 random bytes of a token are drawn with the generation, so a      *)
(* token is named by the generation that drew it.                          *)
(*                                                                         *)
(* A definition marked "Deviation" is what the definition after it must    *)
(* not be; no specification uses it.                                       *)
(***************************************************************************)
EXTENDS Integers

CONSTANTS
    Process,            \* worker process instances
    Operator,           \* invocations of the cpa-ownership command
    WorkerScope,        \* worker scopes
    Runtime,            \* ownership.RuntimeScope
    Owner,              \* runtime owner labels
    ScopeOf,            \* the worker scope of a process
    OwnerOf,            \* the runtime owner a process is configured with
    None,               \* nobody holds the file lock
    TTL,                \* lease lifetime in ticks
    MaxTime,            \* bound: the clock stops here
    MaxGeneration,      \* bound: generations of one scope
    ClockMayStepBack    \* the wall clock may be set back

ASSUME ConstantsAssumption ==
    /\ ScopeOf \in [Process -> WorkerScope]
    /\ OwnerOf \in [Process -> Owner]
    /\ Runtime \notin WorkerScope
    /\ None \notin Process
    /\ TTL \in Nat \ {0}
    /\ MaxTime \in Nat
    /\ MaxGeneration \in Nat
    /\ ClockMayStepBack \in BOOLEAN

VARIABLES
    now,        \* the wall clock, in the granularity of the records
    lease,      \* the lease record of every scope
    pc,         \* where a process is in ownership.Run
    rt,         \* the runtime lease a process installed in its fence
    wk,         \* the worker lease a process installed in its fence
    beat,       \* what the heartbeat of a process does next
    lock,       \* the holder of the file lock across a WithWriteFence
    command,    \* what an operator command has read and confirmed
    stamp       \* the generations under which a scope was last written

vars == <<now, lease, pc, rt, wk, beat, lock, command, stamp>>

Scope == WorkerScope \cup {Runtime}
NoToken == 0

(* What identifies one holder: the fields RenewLease, ReleaseLease and the *)
(* fence compare.                                                          *)
Claim(l) == [owner |-> l.owner, generation |-> l.generation, token |-> l.token]

NoClaim == [owner |-> None, generation |-> 0, token |-> NoToken]

NoLease == [owner |-> None, generation |-> 0, token |-> NoToken,
            acquiredAt |-> 0, renewedAt |-> 0, expiresAt |-> 0]

Found(l) == l.generation > 0

(* readLease refuses a stored record whose times are out of order. *)
Readable(l) ==
    Found(l) => /\ l.acquiredAt >= 1
                /\ l.renewedAt >= l.acquiredAt
                /\ l.expiresAt >= l.renewedAt

Active(l) == Found(l) /\ Readable(l) /\ l.expiresAt > now

Renewed(l) == [l EXCEPT !.renewedAt = now, !.expiresAt = now + TTL]

(* Deviation: a release backdates the expiry. *)
ReleasedBackdated(l) ==
    [l EXCEPT !.token = NoToken, !.renewedAt = now, !.expiresAt = now - TTL - 1]

Released(l) ==
    [l EXCEPT !.token = NoToken, !.renewedAt = now, !.expiresAt = now]

Taken(l, owner) ==
    [owner |-> owner, generation |-> l.generation + 1,
     token |-> l.generation + 1,
     acquiredAt |-> now, renewedAt |-> now, expiresAt |-> now + TTL]

(* Deviation: any unexpired lease of the scope passes. *)
HoldsAnyActive(s, claim) == Active(lease[s]) /\ lease[s].token # NoToken

(* The lease of s is unexpired and is exactly the one claimed. *)
Holds(s, claim) ==
    /\ Active(lease[s])
    /\ lease[s].token # NoToken
    /\ Claim(lease[s]) = claim

(* Deviation: the fence compares the worker lease only. *)
FenceValidWorkerOnly(p) == Holds(ScopeOf[p], wk[p])

(* validateWriteFence: both installed leases are still the current ones. *)
FenceValid(p) == Holds(Runtime, rt[p]) /\ Holds(ScopeOf[p], wk[p])

(* TakeLease inside its transaction, for a scope nobody holds. *)
Takeable(s) == Readable(lease[s]) /\ ~Active(lease[s])

(* Deviation: the lease is taken without the file lock. *)
TakeLeaseUnlocked(s, owner) ==
    /\ Takeable(s)
    /\ lease[s].generation < MaxGeneration
    /\ lease' = [lease EXCEPT ![s] = Taken(@, owner)]

TakeLease(s, owner) ==
    /\ lock = None
    /\ Takeable(s)
    /\ lease[s].generation < MaxGeneration
    /\ lease' = [lease EXCEPT ![s] = Taken(@, owner)]
-----------------------------------------------------------------------------
Init ==
    /\ now = 1
    /\ lease = [s \in Scope |-> NoLease]
    /\ pc = [p \in Process |-> "idle"]
    /\ rt = [p \in Process |-> NoClaim]
    /\ wk = [p \in Process |-> NoClaim]
    /\ beat = [p \in Process |-> "runtime"]
    /\ lock = None
    /\ command = [o \in Operator |-> [kind |-> "none", scope |-> Runtime, claim |-> NoClaim]]
    /\ stamp = [s \in WorkerScope |-> [runtime |-> 0, worker |-> 0]]

(* JoinLease: prolong the runtime lease of the process's own owner.  A     *)
(* refusal ends the process, which changes nothing.                        *)
Join(p) ==
    /\ pc[p] = "idle"
    /\ lock = None
    /\ Active(lease[Runtime])
    /\ lease[Runtime].token # NoToken
    /\ lease[Runtime].owner = OwnerOf[p]
    /\ lease' = [lease EXCEPT ![Runtime] = Renewed(@)]
    /\ rt' = [rt EXCEPT ![p] = Claim(lease[Runtime])]
    /\ pc' = [pc EXCEPT ![p] = "joined"]
    /\ UNCHANGED <<now, wk, beat, lock, command, stamp>>

(* TakeLease of the worker scope, then InstallWriteFence and the start of  *)
(* the heartbeat, which touch this process only.                           *)
Take(p) ==
    /\ pc[p] = "joined"
    /\ TakeLease(ScopeOf[p], p)
    /\ wk' = [wk EXCEPT ![p] = Claim(Taken(lease[ScopeOf[p]], p))]
    /\ pc' = [pc EXCEPT ![p] = "running"]
    /\ beat' = [beat EXCEPT ![p] = "runtime"]
    /\ UNCHANGED <<now, rt, lock, command, stamp>>

(* The worker scope is held, or its record unreadable: Run returns and the *)
(* runtime lease stays prolonged.                                          *)
TakeRefused(p) ==
    /\ pc[p] = "joined"
    /\ lock = None
    /\ ~Takeable(ScopeOf[p])
    /\ pc' = [pc EXCEPT ![p] = "idle"]
    /\ rt' = [rt EXCEPT ![p] = NoClaim]
    /\ UNCHANGED <<now, lease, wk, beat, lock, command, stamp>>

(* Deviation: a lost lease does not end the heartbeat. *)
RenewKeepsBeating(p, s, next) ==
    /\ pc[p] = "running"
    /\ lock = None
    /\ lease' = IF FenceValid(p) THEN [lease EXCEPT ![s] = Renewed(@)] ELSE lease
    /\ beat' = [beat EXCEPT ![p] = next]
    /\ UNCHANGED <<now, pc, rt, wk, lock, command, stamp>>

(* One RenewLease of the heartbeat; the fence is checked in the same       *)
(* transaction.  An error ends the heartbeat and cancels the operation.    *)
Renew(p, s, next) ==
    /\ pc[p] = "running"
    /\ lock = None
    /\ \/ /\ FenceValid(p)
          /\ lease' = [lease EXCEPT ![s] = Renewed(@)]
          /\ beat' = [beat EXCEPT ![p] = next]
       \/ /\ ~FenceValid(p)
          /\ beat' = [beat EXCEPT ![p] = "failed"]
          /\ UNCHANGED lease
    /\ UNCHANGED <<now, pc, rt, wk, lock, command, stamp>>

RenewRuntime(p) == beat[p] = "runtime" /\ Renew(p, Runtime, "worker")
RenewWorker(p)  == beat[p] = "worker"  /\ Renew(p, ScopeOf[p], "runtime")

(* A renewal that runs into its deadline or a database error. *)
RenewError(p) ==
    /\ pc[p] = "running"
    /\ beat[p] # "failed"
    /\ beat' = [beat EXCEPT ![p] = "failed"]
    /\ UNCHANGED <<now, lease, pc, rt, wk, lock, command, stamp>>

Stamped(p) ==
    [stamp EXCEPT ![ScopeOf[p]] =
        [runtime |-> rt[p].generation, worker |-> wk[p].generation]]

(* Deviation: the fence is not checked in the transaction. *)
ControlWriteUnfenced(p) ==
    /\ pc[p] = "running"
    /\ lock = None
    /\ stamp' = Stamped(p)
    /\ UNCHANGED <<now, lease, pc, rt, wk, beat, lock, command>>

(* A control-plane transaction of a running worker: fence and mutation     *)
(* commit together.  A cancelled operation may still try.                  *)
ControlWrite(p) ==
    /\ pc[p] = "running"
    /\ lock = None
    /\ FenceValid(p)
    /\ stamp' = Stamped(p)
    /\ UNCHANGED <<now, lease, pc, rt, wk, beat, lock, command>>

(* WithWriteFence: the fence is checked once, the file lock is kept, and   *)
(* the mutation of the other store takes effect before it is given up.     *)
BeginFenced(p) ==
    /\ pc[p] = "running"
    /\ lock = None
    /\ FenceValid(p)
    /\ lock' = p
    /\ UNCHANGED <<now, lease, pc, rt, wk, beat, command, stamp>>

EndFenced(p) ==
    /\ lock = p
    /\ stamp' = Stamped(p)
    /\ lock' = None
    /\ UNCHANGED <<now, lease, pc, rt, wk, beat, command>>

(* Back to the state of a process that is not running. *)
Leave(p) ==
    /\ pc' = [pc EXCEPT ![p] = "idle"]
    /\ rt' = [rt EXCEPT ![p] = NoClaim]
    /\ wk' = [wk EXCEPT ![p] = NoClaim]
    /\ beat' = [beat EXCEPT ![p] = "runtime"]

(* Deviation: the scope is released without comparing the lease. *)
FinishReleasesScope(p) ==
    /\ pc[p] = "running"
    /\ lock = None
    /\ beat[p] = "runtime"
    /\ lease' = [lease EXCEPT ![ScopeOf[p]] = Released(@)]
    /\ Leave(p)
    /\ UNCHANGED <<now, lock, command, stamp>>

(* The operation returned and the heartbeat stopped between two rounds.    *)
(* The worker lease is released only when the heartbeat had no error, by a *)
(* fenced transaction.                                                     *)
Finish(p) ==
    /\ pc[p] = "running"
    /\ lock # p
    /\ beat[p] # "worker"
    /\ beat[p] # "failed" => lock = None
    /\ lease' = IF beat[p] # "failed" /\ FenceValid(p)
                THEN [lease EXCEPT ![ScopeOf[p]] = Released(@)]
                ELSE lease
    /\ Leave(p)
    /\ UNCHANGED <<now, lock, command, stamp>>

(* The process dies; the kernel drops its file lock. *)
Crash(p) ==
    /\ pc[p] # "idle"
    /\ Leave(p)
    /\ lock' = IF lock = p THEN None ELSE lock
    /\ UNCHANGED <<now, lease, command, stamp>>
-----------------------------------------------------------------------------
(* runActivate: the record is read and compared with what the operator     *)
(* confirmed ...                                                           *)
ConfirmActivate(o) ==
    /\ command[o].kind = "none"
    /\ Takeable(Runtime)
    /\ command' = [command EXCEPT ![o] =
          [kind |-> "activate", scope |-> Runtime, claim |-> Claim(lease[Runtime])]]
    /\ UNCHANGED <<now, lease, pc, rt, wk, beat, lock, stamp>>

Forget(o) ==
    command' = [command EXCEPT ![o] = [kind |-> "none", scope |-> Runtime, claim |-> NoClaim]]

(* ... and the lease is then taken by a transaction of its own, which      *)
(* looks only at what is stored then.                                      *)
Activate(o) ==
    /\ command[o].kind = "activate"
    /\ \E owner \in Owner : TakeLease(Runtime, owner)
    /\ Forget(o)
    /\ UNCHANGED <<now, pc, rt, wk, beat, lock, stamp>>

(* runRelease: the record read, token included, is the one released. *)
ConfirmRelease(o) ==
    /\ command[o].kind = "none"
    /\ \E s \in Scope :
          /\ Found(lease[s])
          /\ Readable(lease[s])
          /\ command' = [command EXCEPT ![o] =
                [kind |-> "release", scope |-> s, claim |-> Claim(lease[s])]]
    /\ UNCHANGED <<now, lease, pc, rt, wk, beat, lock, stamp>>

Release(o) ==
    /\ command[o].kind = "release"
    /\ lock = None
    /\ LET s == command[o].scope
       IN  /\ Readable(lease[s])
           /\ command[o].claim.token # NoToken
           /\ Claim(lease[s]) = command[o].claim
           /\ lease' = [lease EXCEPT ![s] = Released(@)]
    /\ Forget(o)
    /\ UNCHANGED <<now, pc, rt, wk, beat, lock, stamp>>

(* The command is refused, or interrupted before its transaction. *)
Abandon(o) ==
    /\ command[o].kind # "none"
    /\ Forget(o)
    /\ UNCHANGED <<now, lease, pc, rt, wk, beat, lock, stamp>>
-----------------------------------------------------------------------------
Tick ==
    /\ now < MaxTime
    /\ now' = now + 1
    /\ UNCHANGED <<lease, pc, rt, wk, beat, lock, command, stamp>>

StepBack ==
    /\ ClockMayStepBack
    /\ now' \in 1 .. (now - 1)
    /\ UNCHANGED <<lease, pc, rt, wk, beat, lock, command, stamp>>

Worker(p) ==
    \/ Join(p) \/ Take(p) \/ TakeRefused(p)
    \/ RenewRuntime(p) \/ RenewWorker(p) \/ RenewError(p)
    \/ ControlWrite(p) \/ BeginFenced(p) \/ EndFenced(p)
    \/ Finish(p) \/ Crash(p)

OperatorStep(o) ==
    \/ ConfirmActivate(o) \/ Activate(o)
    \/ ConfirmRelease(o) \/ Release(o) \/ Abandon(o)

Next ==
    \/ \E p \in Process : Worker(p)
    \/ \E o \in Operator : OperatorStep(o)
    \/ Tick
    \/ StepBack

Spec == Init /\ [][Next]_vars
-----------------------------------------------------------------------------
Label == Owner \cup Process \cup {None}

ClaimType == [owner : Label, generation : Nat, token : Nat]

LeaseType ==
    [owner : Label, generation : Nat, token : Nat,
     acquiredAt : Nat, renewedAt : Nat, expiresAt : Nat]

(* The type of every variable. *)
TypeOK ==
    /\ now \in Nat
    /\ lease \in [Scope -> LeaseType]
    /\ pc \in [Process -> {"idle", "joined", "running"}]
    /\ rt \in [Process -> ClaimType]
    /\ wk \in [Process -> ClaimType]
    /\ beat \in [Process -> {"runtime", "worker", "failed"}]
    /\ lock \in Process \cup {None}
    /\ command \in [Operator -> [kind : {"none", "activate", "release"},
                                  scope : Scope, claim : ClaimType]]
    /\ stamp \in [WorkerScope -> [runtime : Nat, worker : Nat]]

(* While a worker mutates another store inside WithWriteFence (lease.go    *)
(* 108-138), both of its leases stay the current ones: no transfer and no  *)
(* release happens under it, even when its leases expire meanwhile.        *)
FencedHolderIsCurrent ==
    lock # None =>
        /\ pc[lock] = "running"
        /\ Claim(lease[Runtime]) = rt[lock]
        /\ Claim(lease[ScopeOf[lock]]) = wk[lock]
        /\ rt[lock].token # NoToken /\ wk[lock].token # NoToken

(* The rest of the inductive invariant.  A token is the one drawn with the *)
(* current generation, or cleared; ...                                     *)
TokenOfGeneration ==
    \A s \in Scope : lease[s].token \in {NoToken, lease[s].generation}

(* ... no process claims a generation that was not given out yet; ...      *)
ClaimsNotAhead ==
    \A p \in Process :
        /\ rt[p].generation <= lease[Runtime].generation
        /\ wk[p].generation <= lease[ScopeOf[p]].generation

(* ... no generation of a scope was given out twice; ...                   *)
ClaimsDistinct ==
    \A p, q \in Process :
        /\ p # q
        /\ pc[p] = "running" /\ pc[q] = "running"
        /\ ScopeOf[p] = ScopeOf[q]
        => wk[p].generation # wk[q].generation

(* ... and a process joined the runtime of its own owner.                  *)
JoinedOwnRuntime ==
    \A p \in Process : pc[p] # "idle" => rt[p].owner = OwnerOf[p]

IInv ==
    /\ TypeOK
    /\ FencedHolderIsCurrent
    /\ TokenOfGeneration
    /\ ClaimsNotAhead
    /\ ClaimsDistinct
    /\ JoinedOwnRuntime

(* Two running processes of one scope never both pass validateWriteFence   *)
(* (lease.go 81-106): duplicates of a worker, or the same worker of two    *)
(* runtimes, cannot both write.                                            *)
OneFencedWriter ==
    \A p, q \in Process :
        /\ pc[p] = "running" /\ pc[q] = "running"
        /\ ScopeOf[p] = ScopeOf[q]
        /\ FenceValid(p) /\ FenceValid(q)
        => p = q

(* Whoever passes the fence, or is inside a fenced mutation, belongs to    *)
(* the runtime that owns the deployment now: JoinLease (lease.go 196-233)  *)
(* admits only the owner's workers, and a transfer cuts them all off.      *)
WriterOfCurrentRuntime ==
    \A p \in Process :
        pc[p] = "running" /\ (FenceValid(p) \/ lock = p)
        => lease[Runtime].owner = OwnerOf[p]

(* A worker that shuts down releases its own lease only: a process that    *)
(* may write keeps that right across the exit of any other (ReleaseLease,  *)
(* lease.go 270-294, called by guard.go 138-154 with a possibly stale      *)
(* lease).                                                                 *)
ExitKeepsOthersFence ==
    [][\A p, q \in Process :
          /\ p # q
          /\ pc[p] = "running" /\ pc'[p] = "idle"
          /\ pc[q] = "running" /\ FenceValid(q)
          => FenceValid(q)']_vars

(* No write takes effect under generations that are not the current ones   *)
(* (FencedWriter): the promise of InstallWriteFence, lease.go 57-62.       *)
Fence == INSTANCE FencedWriter
             WITH generation <- [s \in Scope |-> lease[s].generation]
FencingImplemented == Fence!FWSpec

Superseded(p) ==
    /\ pc[p] = "running"
    /\ \/ Claim(lease[Runtime]) # rt[p]
       \/ Claim(lease[ScopeOf[p]]) # wk[p]

(* The heartbeat ticker fires again and again and its transactions get     *)
(* the file lock in turn; a fenced mutation ends; an operation whose       *)
(* context the heartbeat cancelled returns (guard.go 189-228, 138-154).    *)
Heartbeat(p) ==
    \/ RenewRuntime(p) \/ RenewWorker(p)
    \/ beat[p] = "failed" /\ Finish(p)

Fairness ==
    \A p \in Process : SF_vars(Heartbeat(p)) /\ WF_vars(EndFenced(p))

LiveSpec == Spec /\ Fairness

(* A process that lost either lease to a transfer or a release stops: the  *)
(* heartbeat notices and cancels the operation (guard.go 189-228), though  *)
(* nothing tells the process.                                              *)
SupersededStops == \A p \in Process : Superseded(p) ~> ~Superseded(p)

(* An activation replaces the very generation the operator confirmed:      *)
(* "--expected-generation must exactly match the expired prior generation" *)
(* (cmd/ownership/main.go 285).                                            *)
ActivationReplacesConfirmed ==
    [][\A o \in Operator :
          /\ command[o].kind = "activate" /\ command'[o].kind = "none"
          /\ lease'[Runtime].generation # lease[Runtime].generation
          => lease[Runtime].generation = command[o].claim.generation]_vars
=============================================================================
