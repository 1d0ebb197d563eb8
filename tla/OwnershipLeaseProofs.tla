------------------------ MODULE OwnershipLeaseProofs ------------------------
(***************************************************************************)
(* Proofs about OwnershipLease for every set of processes, scopes, owners  *)
(* and operators, every lease lifetime, and a clock that may go back: the  *)
(* fence never relies on time.  And about LogFiles, the worker that rotates *)
(* the access log, for any number of backups, sizes, lines and failures.   *)
(***************************************************************************)
EXTENDS OwnershipLease, LogFiles, FiniteSetTheorems, SequenceTheorems, TLAPS

-----------------------------------------------------------------------------
(* What the operators of the lease record build. *)

(* Scopes of workers are not the runtime scope. *)
LEMMA WorkerScopes ==
    ASSUME NEW p \in Process
    PROVE  ScopeOf[p] \in Scope /\ ScopeOf[p] # Runtime /\ Runtime \in Scope
BY ConstantsAssumption DEF Scope

(* Renewal, release and takeover of a record, and the claim on it, are     *)
(* well typed.                                                             *)
LEMMA ClaimTypes ==
    ASSUME NEW l \in LeaseType
    PROVE  Claim(l) \in ClaimType
BY DEF LeaseType, ClaimType, Claim

(* A record that a renewal or a release writes is well typed.              *)
LEMMA RecordTypes ==
    ASSUME NEW l \in LeaseType, now \in Nat
    PROVE  /\ Renewed(l) \in LeaseType
           /\ Released(l) \in LeaseType
<1>1. now + TTL \in Nat
  BY ConstantsAssumption
<1> QED
  BY <1>1 DEF LeaseType, Renewed, Released, NoToken

(* A record that a takeover writes, for any owner label, is well typed.    *)
LEMMA TakenTypes ==
    ASSUME NEW l \in LeaseType, now \in Nat, NEW owner \in Label
    PROVE  Taken(l, owner) \in LeaseType
<1>1. now + TTL \in Nat /\ l.generation + 1 \in Nat
  BY ConstantsAssumption DEF LeaseType
<1> QED
  BY <1>1 DEF LeaseType, Taken

(* Renewal keeps the claim; takeover raises the generation. *)
LEMMA RecordClaims ==
    ASSUME NEW l \in LeaseType
    PROVE  /\ Claim(Renewed(l)) = Claim(l)
           /\ Renewed(l).generation = l.generation
           /\ Renewed(l).owner = l.owner
           /\ Renewed(l).token = l.token
           /\ Released(l).generation = l.generation
           /\ Released(l).owner = l.owner
           /\ Released(l).token = NoToken
BY DEF LeaseType, Renewed, Released, Claim

(* A release keeps the generation and clears the token.                    *)
LEMMA ReleasedFields ==
    \A l \in LeaseType : /\ Released(l).generation = l.generation
                         /\ Released(l).token = NoToken
BY RecordClaims

(* The records that stand for no lease and no claim are well typed.        *)
LEMMA NoneTypes == NoClaim \in ClaimType /\ NoLease \in LeaseType
BY DEF NoClaim, NoLease, ClaimType, LeaseType, NoToken, Label

(* A process and a runtime owner can both be named in a record.            *)
LEMMA Labels ==
    /\ \A p \in Process : p \in Label
    /\ \A owner \in Owner : owner \in Label
BY DEF Label

-----------------------------------------------------------------------------
(* Every variable has its type at the start ...                            *)
LEMMA TypeInit == Init => TypeOK
BY NoneTypes, ConstantsAssumption DEF Init, TypeOK, Scope

(* ... and every step keeps it.                                            *)
LEMMA TypeNext == TypeOK /\ [Next]_vars => TypeOK'
<1> SUFFICES ASSUME TypeOK, [Next]_vars PROVE TypeOK'
  OBVIOUS
<1> USE WorkerScopes, ClaimTypes, RecordTypes, TakenTypes, NoneTypes, Labels
<1>1. ASSUME NEW p \in Process, Join(p) PROVE TypeOK'
  <2>1. /\ Renewed(lease[Runtime]) \in LeaseType
        /\ Claim(lease[Runtime]) \in ClaimType
    BY DEF TypeOK
  <2>2. /\ lease' = [lease EXCEPT ![Runtime] = Renewed(lease[Runtime])]
        /\ rt' = [rt EXCEPT ![p] = Claim(lease[Runtime])]
        /\ pc' = [pc EXCEPT ![p] = "joined"]
        /\ UNCHANGED <<now, wk, beat, lock, command, stamp>>
    BY <1>1 DEF Join
  <2> QED
    BY <2>1, <2>2 DEF TypeOK
<1>2. ASSUME NEW p \in Process, Take(p) PROVE TypeOK'
  <2> DEFINE t == Taken(lease[ScopeOf[p]], p)
  <2>1. t \in LeaseType /\ Claim(t) \in ClaimType
    BY DEF TypeOK
  <2>2. /\ lease' = [lease EXCEPT ![ScopeOf[p]] = t]
        /\ wk' = [wk EXCEPT ![p] = Claim(t)]
        /\ pc' = [pc EXCEPT ![p] = "running"]
        /\ beat' = [beat EXCEPT ![p] = "runtime"]
        /\ UNCHANGED <<now, rt, lock, command, stamp>>
    BY <1>2 DEF Take, TakeLease
  <2> HIDE DEF t
  <2> QED
    BY <2>1, <2>2 DEF TypeOK
<1>3. ASSUME NEW p \in Process, TakeRefused(p) PROVE TypeOK'
  BY <1>3 DEF TakeRefused, TypeOK
<1>4. ASSUME NEW p \in Process, RenewRuntime(p) \/ RenewWorker(p) PROVE TypeOK'
  <2>1. PICK s \in Scope, next \in {"runtime", "worker"} : Renew(p, s, next)
    BY <1>4 DEF RenewRuntime, RenewWorker
  <2>2. Renewed(lease[s]) \in LeaseType
    BY DEF TypeOK
  <2>3. lease' = lease \/ lease' = [lease EXCEPT ![s] = Renewed(lease[s])]
    BY <2>1 DEF Renew
  <2>4. lease' \in [Scope -> LeaseType]
    BY <2>2, <2>3 DEF TypeOK
  <2>5. beat' \in [Process -> {"runtime", "worker", "failed"}]
    BY <2>1 DEF Renew, TypeOK
  <2> QED
    BY <2>1, <2>4, <2>5 DEF Renew, TypeOK
<1>5. ASSUME NEW p \in Process, RenewError(p) PROVE TypeOK'
  BY <1>5 DEF RenewError, TypeOK
<1>6. ASSUME NEW p \in Process, ControlWrite(p) \/ EndFenced(p) PROVE TypeOK'
  <2>1. rt[p].generation \in Nat /\ wk[p].generation \in Nat
    BY DEF TypeOK, ClaimType
  <2> DEFINE mark == [runtime |-> rt[p].generation, worker |-> wk[p].generation]
  <2>2. mark \in [runtime : Nat, worker : Nat]
    BY <2>1
  <2>3. stamp' = [stamp EXCEPT ![ScopeOf[p]] = mark]
    BY <1>6 DEF ControlWrite, EndFenced, Stamped
  <2>4. stamp' \in [WorkerScope -> [runtime : Nat, worker : Nat]]
    <3> HIDE DEF mark
    <3> QED
      BY <2>2, <2>3 DEF TypeOK
  <2> QED
    BY <1>6, <2>4 DEF ControlWrite, EndFenced, TypeOK
<1>7. ASSUME NEW p \in Process, BeginFenced(p) PROVE TypeOK'
  BY <1>7 DEF BeginFenced, TypeOK
<1>8. ASSUME NEW p \in Process, Finish(p) \/ Crash(p) PROVE TypeOK'
  <2>1. Released(lease[ScopeOf[p]]) \in LeaseType
    BY DEF TypeOK
  <2>2. \/ lease' = lease
        \/ lease' = [lease EXCEPT ![ScopeOf[p]] = Released(lease[ScopeOf[p]])]
    BY <1>8 DEF Finish, Crash
  <2>3. lease' \in [Scope -> LeaseType]
    BY <2>1, <2>2 DEF TypeOK
  <2>4. Leave(p) /\ UNCHANGED <<now, command, stamp>> /\ lock' \in {lock, None}
    BY <1>8 DEF Finish, Crash
  <2> QED
    BY <2>3, <2>4 DEF Leave, TypeOK
<1>9. ASSUME NEW o \in Operator, OperatorStep(o) PROVE TypeOK'
  <2>1. CASE ConfirmActivate(o)
    BY <2>1, ConstantsAssumption DEF ConfirmActivate, TypeOK, Scope, LeaseType
  <2>2. CASE Activate(o)
    BY <2>2, ConstantsAssumption DEF Activate, TakeLease, Forget, TypeOK, Scope
  <2>3. CASE ConfirmRelease(o)
    BY <2>3, ConstantsAssumption DEF ConfirmRelease, TypeOK, LeaseType
  <2>4. CASE Release(o)
    BY <2>4, ConstantsAssumption DEF Release, Forget, TypeOK, Scope
  <2>5. CASE Abandon(o)
    BY <2>5, ConstantsAssumption DEF Abandon, Forget, TypeOK, Scope
  <2> QED
    BY <1>9, <2>1, <2>2, <2>3, <2>4, <2>5 DEF OperatorStep
<1>10. CASE Tick \/ StepBack
  BY <1>10 DEF Tick, StepBack, TypeOK
<1>11. CASE UNCHANGED vars
  BY <1>11 DEF vars, TypeOK
<1> QED
  BY <1>1, <1>2, <1>3, <1>4, <1>5, <1>6, <1>7, <1>8, <1>9, <1>10, <1>11
     DEF Next, Worker

(* Every variable keeps its type. *)
THEOREM TypeCorrect == Spec => []TypeOK
BY TypeInit, TypeNext, PTL DEF Spec
-----------------------------------------------------------------------------
(* The inductive invariant holds while no lease was ever taken.            *)
LEMMA InvInit == Init => IInv
<1> SUFFICES ASSUME Init PROVE IInv
  OBVIOUS
<1>1. TypeOK
  BY TypeInit
<1>2. /\ lease = [s \in Scope |-> NoLease]
      /\ pc = [p \in Process |-> "idle"]
      /\ rt = [p \in Process |-> NoClaim]
      /\ wk = [p \in Process |-> NoClaim]
      /\ lock = None
  BY DEF Init
<1>3. FencedHolderIsCurrent /\ ClaimsDistinct /\ JoinedOwnRuntime
  BY <1>2 DEF FencedHolderIsCurrent, ClaimsDistinct, JoinedOwnRuntime
<1>4. TokenOfGeneration
  BY <1>2 DEF TokenOfGeneration, NoLease, NoToken
<1>5. ClaimsNotAhead
  <2>1. NoClaim.generation = 0 /\ NoLease.generation = 0
    BY DEF NoClaim, NoLease
  <2> SUFFICES ASSUME NEW p \in Process
               PROVE  /\ rt[p].generation <= lease[Runtime].generation
                      /\ wk[p].generation <= lease[ScopeOf[p]].generation
    BY DEF ClaimsNotAhead
  <2>2. /\ rt[p] = NoClaim /\ wk[p] = NoClaim
        /\ lease[Runtime] = NoLease /\ lease[ScopeOf[p]] = NoLease
    BY <1>2, WorkerScopes
  <2> QED
    BY <2>1, <2>2
<1> QED
  BY <1>1, <1>3, <1>4, <1>5 DEF IInv

(* Equal claims agree on every field the fence compares. *)
LEMMA ClaimFields ==
    ASSUME NEW k \in LeaseType, NEW l \in LeaseType, Claim(k) = Claim(l)
    PROVE  k.owner = l.owner /\ k.generation = l.generation /\ k.token = l.token
<1>1. /\ Claim(k).owner = k.owner /\ Claim(l).owner = l.owner
      /\ Claim(k).generation = k.generation /\ Claim(l).generation = l.generation
      /\ Claim(k).token = k.token /\ Claim(l).token = l.token
  BY DEF Claim
<1> QED
  BY <1>1

(* A step that changes no holder and no process's claim. *)
LEMMA SameClaims ==
    ASSUME IInv, TypeOK',
           \A s \in Scope : Claim(lease'[s]) = Claim(lease[s]),
           UNCHANGED <<pc, rt, wk, lock>>
    PROVE  IInv'
<1>1. \A s \in Scope : /\ lease'[s].generation = lease[s].generation
                       /\ lease'[s].token = lease[s].token
                       /\ lease'[s].owner = lease[s].owner
  BY ClaimFields DEF IInv, TypeOK
<1>2. FencedHolderIsCurrent'
  BY WorkerScopes DEF IInv, FencedHolderIsCurrent, TypeOK
<1>3. TokenOfGeneration'
  BY <1>1 DEF IInv, TokenOfGeneration
<1>4. ClaimsNotAhead'
  BY <1>1, WorkerScopes DEF IInv, ClaimsNotAhead
<1>5. ClaimsDistinct' /\ JoinedOwnRuntime'
  BY DEF IInv, ClaimsDistinct, JoinedOwnRuntime
<1> QED
  BY <1>2, <1>3, <1>4, <1>5 DEF IInv

(* A step of another store, of the clock or of an operator that only reads *)
(* leaves the leases alone; a renewal keeps every claim.                   *)
LEMMA QuietStep ==
    ASSUME IInv, TypeOK', UNCHANGED <<lease, pc, rt, wk, lock>>
    PROVE  IInv'
BY SameClaims

(* A renewal under a valid fence prolongs the lease of the very claim it   *)
(* compared (lease.go 235-268).                                            *)
LEMMA RenewStep ==
    ASSUME IInv, TypeOK', NEW p \in Process, RenewRuntime(p) \/ RenewWorker(p)
    PROVE  IInv'
<1>1. PICK s \in Scope, next \in {"runtime", "worker"} : Renew(p, s, next)
  BY WorkerScopes DEF RenewRuntime, RenewWorker
<1>2. lease' = lease \/ lease' = [lease EXCEPT ![s] = Renewed(lease[s])]
  BY <1>1 DEF Renew
<1>3. \A x \in Scope : Claim(lease'[x]) = Claim(lease[x])
  BY <1>2, RecordClaims DEF IInv, TypeOK
<1>4. UNCHANGED <<pc, rt, wk, lock>>
  BY <1>1 DEF Renew
<1> QED
  BY <1>3, <1>4, SameClaims

(* Joining prolongs the runtime lease of the process's own owner and       *)
(* claims its current generation (lease.go 200-233).                       *)
LEMMA JoinStep ==
    ASSUME IInv, TypeOK', NEW p \in Process, Join(p)
    PROVE  IInv'
<1>1. /\ lease' = [lease EXCEPT ![Runtime] = Renewed(lease[Runtime])]
      /\ rt' = [rt EXCEPT ![p] = Claim(lease[Runtime])]
      /\ pc' = [pc EXCEPT ![p] = "joined"]
      /\ UNCHANGED <<wk, lock>>
      /\ lock = None
      /\ lease[Runtime].owner = OwnerOf[p]
  BY DEF Join
<1>2. \A s \in Scope : /\ lease'[s].generation = lease[s].generation
                       /\ lease'[s].token = lease[s].token
  BY <1>1, RecordClaims DEF IInv, TypeOK
<1>3. /\ Claim(lease[Runtime]).generation = lease[Runtime].generation
      /\ Claim(lease[Runtime]).owner = OwnerOf[p]
  BY <1>1 DEF Claim
<1>4. FencedHolderIsCurrent'
  BY <1>1 DEF FencedHolderIsCurrent
<1>5. TokenOfGeneration'
  BY <1>2 DEF IInv, TokenOfGeneration
<1>6. ClaimsNotAhead'
  <2> SUFFICES ASSUME NEW q \in Process
               PROVE  /\ rt'[q].generation <= lease'[Runtime].generation
                      /\ wk'[q].generation <= lease'[ScopeOf[q]].generation
    BY DEF ClaimsNotAhead
  <2>1. lease[Runtime].generation \in Nat
    BY WorkerScopes DEF IInv, TypeOK, LeaseType
  <2>2. rt'[q].generation \in {rt[q].generation, lease[Runtime].generation}
    BY <1>1, <1>3 DEF IInv, TypeOK
  <2> QED
    BY <1>1, <1>2, <2>1, <2>2, WorkerScopes DEF IInv, ClaimsNotAhead
<1>7. ClaimsDistinct'
  BY <1>1 DEF IInv, TypeOK, ClaimsDistinct
<1>8. JoinedOwnRuntime'
  BY <1>1, <1>3 DEF IInv, TypeOK, JoinedOwnRuntime
<1> QED
  BY <1>4, <1>5, <1>6, <1>7, <1>8 DEF IInv

(* Taking a worker lease gives out a generation that nobody has claimed,   *)
(* and never while a fenced mutation holds the file lock (lease.go         *)
(* 158-194).                                                               *)
LEMMA TakeStep ==
    ASSUME IInv, TypeOK', NEW p \in Process, Take(p)
    PROVE  IInv'
<1> DEFINE t == Taken(lease[ScopeOf[p]], p)
<1>1. /\ lease' = [lease EXCEPT ![ScopeOf[p]] = t]
      /\ wk' = [wk EXCEPT ![p] = Claim(t)]
      /\ pc' = [pc EXCEPT ![p] = "running"]
      /\ pc[p] = "joined"
      /\ UNCHANGED <<rt, lock>>
      /\ lock = None
  BY DEF Take, TakeLease
<1>2. /\ t.generation = lease[ScopeOf[p]].generation + 1
      /\ t.token = t.generation
      /\ Claim(t).generation = t.generation
  BY DEF Taken, Claim
<1>3. \A s \in Scope : lease[s].generation \in Nat
  BY DEF IInv, TypeOK, LeaseType
<1>4. \A q \in Process : wk[q].generation \in Nat /\ rt[q].generation \in Nat
  BY DEF IInv, TypeOK, ClaimType
<1> HIDE DEF t
<1>5. FencedHolderIsCurrent'
  BY <1>1 DEF FencedHolderIsCurrent
<1>6. TokenOfGeneration'
  BY <1>1, <1>2 DEF IInv, TypeOK, TokenOfGeneration
<1>7. lease'[Runtime] = lease[Runtime]
  BY <1>1, WorkerScopes DEF IInv, TypeOK
<1>8. \A q \in Process :
        /\ lease'[ScopeOf[q]].generation >= lease[ScopeOf[q]].generation
        /\ ScopeOf[q] = ScopeOf[p] => lease'[ScopeOf[q]] = t
  BY <1>1, <1>2, <1>3, WorkerScopes DEF IInv, TypeOK
<1>9. \A q \in Process : /\ q = p => wk'[q] = Claim(t)
                         /\ q # p => wk'[q] = wk[q]
  BY <1>1 DEF IInv, TypeOK
<1>10. ClaimsNotAhead'
  <2> SUFFICES ASSUME NEW q \in Process
               PROVE  /\ rt'[q].generation <= lease'[Runtime].generation
                      /\ wk'[q].generation <= lease'[ScopeOf[q]].generation
    BY DEF ClaimsNotAhead
  <2>1. rt'[q].generation <= lease'[Runtime].generation
    BY <1>1, <1>7 DEF IInv, ClaimsNotAhead
  <2>2. CASE q = p
    BY <2>1, <2>2, <1>2, <1>3, <1>8, <1>9, WorkerScopes
  <2>3. CASE q # p
    <3>1. wk[q].generation <= lease[ScopeOf[q]].generation
      BY DEF IInv, ClaimsNotAhead
    <3>2. lease'[ScopeOf[q]].generation \in Nat
      BY WorkerScopes DEF TypeOK, LeaseType
    <3> QED
      BY <2>1, <2>3, <3>1, <3>2, <1>3, <1>4, <1>8, <1>9, WorkerScopes
  <2> QED
    BY <2>2, <2>3
<1>11. ClaimsDistinct'
  <2>1. \A q \in Process : q # p /\ ScopeOf[q] = ScopeOf[p]
          => wk'[q].generation < wk'[p].generation
    BY <1>2, <1>3, <1>4, <1>9, WorkerScopes DEF IInv, ClaimsNotAhead
  <2>2. \A q \in Process : wk'[q].generation \in Nat
    BY DEF TypeOK, ClaimType
  <2>3. \A q \in Process : q # p => pc'[q] = pc[q]
    BY <1>1 DEF IInv, TypeOK
  <2> SUFFICES ASSUME NEW q \in Process, NEW r \in Process, q # r,
                      pc'[q] = "running", pc'[r] = "running", ScopeOf[q] = ScopeOf[r]
               PROVE  wk'[q].generation # wk'[r].generation
    BY DEF ClaimsDistinct
  <2>4. CASE q = p \/ r = p
    BY <2>1, <2>2, <2>4
  <2>5. CASE q # p /\ r # p
    BY <2>3, <2>5, <1>9 DEF IInv, ClaimsDistinct
  <2> QED
    BY <2>4, <2>5
<1>12. JoinedOwnRuntime'
  BY <1>1 DEF IInv, TypeOK, JoinedOwnRuntime
<1> QED
  BY <1>5, <1>6, <1>10, <1>11, <1>12 DEF IInv

(* A process that stops, whether or not it releases its worker lease. *)
LEMMA LeaveStep ==
    ASSUME IInv, TypeOK', NEW p \in Process, Finish(p) \/ Crash(p) \/ TakeRefused(p)
    PROVE  IInv'
<1>1. /\ pc' = [pc EXCEPT ![p] = "idle"]
      /\ rt' = [rt EXCEPT ![p] = NoClaim]
      /\ wk' = wk \/ wk' = [wk EXCEPT ![p] = NoClaim]
  BY DEF Finish, Crash, TakeRefused, Leave
<1>2. \/ lease' = lease
      \/ /\ lease' = [lease EXCEPT ![ScopeOf[p]] = Released(lease[ScopeOf[p]])]
         /\ lock = None
  BY DEF Finish, Crash, TakeRefused
<1>3. /\ lock' \in {lock, None}
      /\ lock' # p
  <2>1. TakeRefused(p) \/ Finish(p) => lock' = lock /\ lock' # p
    BY ConstantsAssumption DEF TakeRefused, Finish
  <2> QED
    BY <2>1, ConstantsAssumption DEF Crash
<1>4. \A s \in Scope : /\ lease'[s].generation = lease[s].generation
                       /\ lease'[s].token \in {lease[s].token, NoToken}
  BY <1>2, ReleasedFields DEF IInv, TypeOK
<1>5. FencedHolderIsCurrent'
  <2> SUFFICES ASSUME lock' # None PROVE FencedHolderIsCurrent'
    BY DEF FencedHolderIsCurrent
  <2>1. lock' = lock /\ lock \in Process /\ lock # p /\ lease' = lease
    BY <1>2, <1>3 DEF IInv, TypeOK
  <2>2. pc'[lock] = pc[lock] /\ rt'[lock] = rt[lock] /\ wk'[lock] = wk[lock]
    BY <1>1, <2>1 DEF IInv, TypeOK
  <2> QED
    BY <2>1, <2>2 DEF IInv, FencedHolderIsCurrent
<1>6. TokenOfGeneration'
  BY <1>4 DEF IInv, TokenOfGeneration
<1>7. ClaimsNotAhead'
  <2> SUFFICES ASSUME NEW q \in Process
               PROVE  /\ rt'[q].generation <= lease'[Runtime].generation
                      /\ wk'[q].generation <= lease'[ScopeOf[q]].generation
    BY DEF ClaimsNotAhead
  <2>1. NoClaim.generation = 0
    BY DEF NoClaim
  <2>2. /\ rt'[q].generation \in {rt[q].generation, 0}
        /\ wk'[q].generation \in {wk[q].generation, 0}
    BY <1>1, <2>1 DEF IInv, TypeOK
  <2>3. /\ lease[Runtime].generation \in Nat
        /\ lease[ScopeOf[q]].generation \in Nat
    BY WorkerScopes DEF IInv, TypeOK, LeaseType
  <2> QED
    BY <1>4, <2>2, <2>3, WorkerScopes DEF IInv, ClaimsNotAhead
<1>8. ClaimsDistinct'
  <2>1. \A q \in Process : pc'[q] = "running" => wk'[q] = wk[q] /\ pc[q] = "running"
    BY <1>1 DEF IInv, TypeOK
  <2> QED
    BY <2>1 DEF IInv, ClaimsDistinct
<1>9. JoinedOwnRuntime'
  BY <1>1 DEF IInv, TypeOK, JoinedOwnRuntime
<1> QED
  BY <1>5, <1>6, <1>7, <1>8, <1>9 DEF IInv

(* Entering WithWriteFence needs a valid fence; leaving it changes no      *)
(* lease (lease.go 114-138).                                               *)
LEMMA FencedStep ==
    ASSUME IInv, TypeOK', NEW p \in Process, BeginFenced(p) \/ EndFenced(p)
    PROVE  IInv'
<1>1. UNCHANGED <<lease, pc, rt, wk>>
  BY DEF BeginFenced, EndFenced
<1>2. FencedHolderIsCurrent'
  <2>1. CASE BeginFenced(p)
    <3>1. lock' = p /\ pc[p] = "running" /\ FenceValid(p)
      BY <2>1 DEF BeginFenced
    <3>2. /\ Claim(lease[Runtime]) = rt[p] /\ lease[Runtime].token # NoToken
          /\ Claim(lease[ScopeOf[p]]) = wk[p] /\ lease[ScopeOf[p]].token # NoToken
      BY <3>1 DEF FenceValid, Holds
    <3>3. rt[p].token # NoToken /\ wk[p].token # NoToken
      BY <3>2 DEF Claim
    <3> QED
      BY <1>1, <3>1, <3>2, <3>3 DEF FencedHolderIsCurrent
  <2>2. CASE EndFenced(p)
    BY <2>2 DEF EndFenced, FencedHolderIsCurrent
  <2> QED
    BY <2>1, <2>2
<1>3. TokenOfGeneration' /\ ClaimsNotAhead' /\ ClaimsDistinct' /\ JoinedOwnRuntime'
  BY <1>1 DEF IInv, TokenOfGeneration, ClaimsNotAhead, ClaimsDistinct, JoinedOwnRuntime
<1> QED
  BY <1>2, <1>3 DEF IInv

(* An activation or a release by the operator waits for the file lock, so  *)
(* it never happens under a fenced mutation (main.go 293, 343).            *)
LEMMA OperatorLeaseStep ==
    ASSUME IInv, TypeOK', NEW o \in Operator, Activate(o) \/ Release(o)
    PROVE  IInv'
<1>1. lock = None /\ UNCHANGED <<pc, rt, wk, lock>>
  BY DEF Activate, Release, TakeLease
<1>2. PICK s \in Scope : \E r :
        /\ lease' = [lease EXCEPT ![s] = r]
        /\ \/ \E owner \in Owner : r = Taken(lease[s], owner)
           \/ r = Released(lease[s])
  <2>1. CASE Activate(o)
    BY <2>1 DEF Activate, TakeLease, Scope
  <2>2. CASE Release(o)
    BY <2>2 DEF Release, IInv, TypeOK
  <2> QED
    BY <2>1, <2>2
<1>r. PICK r :
        /\ lease' = [lease EXCEPT ![s] = r]
        /\ \/ \E owner \in Owner : r = Taken(lease[s], owner)
           \/ r = Released(lease[s])
  BY <1>2
<1>3. lease[s] \in LeaseType /\ lease[s].generation \in Nat
  BY DEF IInv, TypeOK, LeaseType
<1>4. /\ r.generation \in {lease[s].generation, lease[s].generation + 1}
      /\ r.token \in {NoToken, r.generation}
  <2>1. CASE \E owner \in Owner : r = Taken(lease[s], owner)
    BY <2>1 DEF Taken
  <2>2. CASE r = Released(lease[s])
    BY <2>2, <1>3, ReleasedFields
  <2> QED
    BY <1>r, <2>1, <2>2
<1>5. \A x \in Scope : /\ lease'[x].generation >= lease[x].generation
                       /\ lease'[x].generation \in Nat
                       /\ lease'[x].token \in {NoToken, lease'[x].generation}
  <2> SUFFICES ASSUME NEW x \in Scope
               PROVE  /\ lease'[x].generation >= lease[x].generation
                      /\ lease'[x].generation \in Nat
                      /\ lease'[x].token \in {NoToken, lease'[x].generation}
    OBVIOUS
  <2>1. lease[x].generation \in Nat /\ lease[x].token \in {NoToken, lease[x].generation}
    BY DEF IInv, TypeOK, LeaseType, TokenOfGeneration
  <2>2. lease'[x] = IF x = s THEN r ELSE lease[x]
    BY <1>r DEF IInv, TypeOK
  <2> QED
    BY <1>3, <1>4, <2>1, <2>2
<1>6. FencedHolderIsCurrent'
  BY <1>1 DEF FencedHolderIsCurrent
<1>7. TokenOfGeneration'
  BY <1>5 DEF TokenOfGeneration
<1>8. ClaimsNotAhead'
  <2> SUFFICES ASSUME NEW q \in Process
               PROVE  /\ rt'[q].generation <= lease'[Runtime].generation
                      /\ wk'[q].generation <= lease'[ScopeOf[q]].generation
    BY DEF ClaimsNotAhead
  <2>1. /\ rt[q].generation \in Nat /\ wk[q].generation \in Nat
        /\ lease[Runtime].generation \in Nat /\ lease[ScopeOf[q]].generation \in Nat
    BY WorkerScopes DEF IInv, TypeOK, ClaimType, LeaseType
  <2>2. /\ rt[q].generation <= lease[Runtime].generation
        /\ wk[q].generation <= lease[ScopeOf[q]].generation
    BY DEF IInv, ClaimsNotAhead
  <2> QED
    BY <1>1, <1>5, <2>1, <2>2, WorkerScopes
<1>9. ClaimsDistinct' /\ JoinedOwnRuntime'
  BY <1>1 DEF IInv, ClaimsDistinct, JoinedOwnRuntime
<1> QED
  BY <1>6, <1>7, <1>8, <1>9 DEF IInv

(* Every step keeps the inductive invariant.                               *)
LEMMA InvNext == IInv /\ [Next]_vars => IInv'
<1> SUFFICES ASSUME IInv, [Next]_vars PROVE IInv'
  OBVIOUS
<1>1. TypeOK'
  BY TypeNext DEF IInv
<1>2. ASSUME NEW p \in Process, Worker(p) PROVE IInv'
  <2>1. CASE RenewError(p) \/ ControlWrite(p)
    BY <1>1, <2>1, QuietStep DEF RenewError, ControlWrite
  <2> QED
    BY <1>1, <1>2, <2>1, JoinStep, TakeStep, LeaveStep, RenewStep, FencedStep DEF Worker
<1>3. ASSUME NEW o \in Operator, OperatorStep(o) PROVE IInv'
  <2>1. CASE ConfirmActivate(o) \/ ConfirmRelease(o) \/ Abandon(o)
    BY <1>1, <2>1, QuietStep DEF ConfirmActivate, ConfirmRelease, Abandon
  <2> QED
    BY <1>1, <1>3, <2>1, OperatorLeaseStep DEF OperatorStep
<1>4. CASE Tick \/ StepBack \/ UNCHANGED vars
  BY <1>1, <1>4, QuietStep DEF Tick, StepBack, vars
<1> QED
  BY <1>2, <1>3, <1>4 DEF Next

(* The inductive invariant of the lease protocol holds in every reachable  *)
(* state: tokens belong to their generation, no process claims a           *)
(* generation that was not given out, no two running processes of a scope  *)
(* claim one generation, and a fenced mutation is current.                 *)
THEOREM Inductive == Spec => []IInv
BY InvInit, InvNext, PTL DEF Spec

-----------------------------------------------------------------------------
(* What the invariant says of the fence. *)

(* A process that passes the fence claims the current generations. *)
LEMMA FenceIsCurrent ==
    ASSUME TypeOK, NEW p \in Process, FenceValid(p)
    PROVE  /\ rt[p].generation = lease[Runtime].generation
           /\ wk[p].generation = lease[ScopeOf[p]].generation
           /\ rt[p].owner = lease[Runtime].owner
           /\ lease[Runtime].generation > 0
           /\ lease[ScopeOf[p]].generation > 0
<1>1. /\ Claim(lease[Runtime]) = rt[p]
      /\ Claim(lease[ScopeOf[p]]) = wk[p]
      /\ Found(lease[Runtime]) /\ Found(lease[ScopeOf[p]])
  BY DEF FenceValid, Holds, Active
<1> QED
  BY <1>1 DEF Claim, Found

(* A mutation inside WithWriteFence is never overlapped by a transfer or a *)
(* release of its leases, however long it takes (lease.go 108-138).        *)
THEOREM FencedHolder == Spec => []FencedHolderIsCurrent
<1>1. IInv => FencedHolderIsCurrent
  BY DEF IInv
<1> QED
  BY <1>1, Inductive, PTL

(* Two valid fences of one scope claim one generation, which the invariant *)
(* gives to a single process.                                              *)
LEMMA InvOneWriter == IInv => OneFencedWriter
BY FenceIsCurrent DEF IInv, ClaimsDistinct, OneFencedWriter

(* At most one process of a scope passes the fence (lease.go 81-106). *)
THEOREM OneWriter == Spec => []OneFencedWriter
BY InvOneWriter, Inductive, PTL

(* A valid or retained fence claims the current runtime lease, and a       *)
(* process claims only its own runtime's.                                  *)
LEMMA InvCurrentRuntime == IInv => WriterOfCurrentRuntime
<1> SUFFICES ASSUME IInv, NEW p \in Process, pc[p] = "running",
                    FenceValid(p) \/ lock = p
             PROVE  lease[Runtime].owner = OwnerOf[p]
  BY DEF WriterOfCurrentRuntime
<1>1. rt[p].owner = OwnerOf[p]
  BY DEF IInv, JoinedOwnRuntime
<1>2. CASE FenceValid(p)
  BY <1>1, <1>2, FenceIsCurrent DEF IInv
<1>3. CASE lock = p
  <2>1. Claim(lease[Runtime]) = rt[p]
    BY <1>3, ConstantsAssumption DEF IInv, FencedHolderIsCurrent
  <2> QED
    BY <1>1, <2>1 DEF Claim
<1> QED
  BY <1>2, <1>3

(* Whoever can write belongs to the runtime that owns the deployment. *)
THEOREM CurrentRuntime == Spec => []WriterOfCurrentRuntime
BY InvCurrentRuntime, Inductive, PTL

(* The exit of one process never costs another its fence. *)
LEMMA ExitStep ==
    ASSUME IInv, [Next]_vars,
           NEW p \in Process, NEW q \in Process, p # q,
           pc[p] = "running", pc'[p] = "idle", pc[q] = "running", FenceValid(q)
    PROVE  FenceValid(q)'
<1>1. Finish(p) \/ Crash(p)
  <2>1. ASSUME NEW r \in Process, Worker(r) PROVE Finish(p) \/ Crash(p)
    <3>1. CASE Finish(r) \/ Crash(r)
      <4>1. r = p
        BY <3>1 DEF Finish, Crash, Leave, IInv, TypeOK
      <4> QED
        BY <3>1, <4>1
    <3>2. CASE Join(r) \/ Take(r) \/ TakeRefused(r)
      BY <3>2 DEF Join, Take, TakeRefused, IInv, TypeOK
    <3>3. CASE RenewRuntime(r) \/ RenewWorker(r) \/ RenewError(r)
      BY <3>3 DEF RenewRuntime, RenewWorker, Renew, RenewError
    <3>4. CASE ControlWrite(r) \/ BeginFenced(r) \/ EndFenced(r)
      BY <3>4 DEF ControlWrite, BeginFenced, EndFenced
    <3> QED
      BY <2>1, <3>1, <3>2, <3>3, <3>4 DEF Worker
  <2>2. ASSUME NEW o \in Operator, OperatorStep(o) PROVE FALSE
    BY <2>2 DEF OperatorStep, ConfirmActivate, Activate, ConfirmRelease, Release, Abandon
  <2>3. CASE Tick \/ StepBack \/ UNCHANGED vars
    BY <2>3 DEF Tick, StepBack, vars
  <2> QED
    BY <2>1, <2>2, <2>3 DEF Next
<1>2. now' = now /\ rt'[q] = rt[q] /\ wk'[q] = wk[q]
  BY <1>1 DEF Finish, Crash, Leave, IInv, TypeOK
<1>3. lease'[Runtime] = lease[Runtime]
  BY <1>1, WorkerScopes DEF Finish, Crash, IInv, TypeOK
<1>4. lease'[ScopeOf[q]] = lease[ScopeOf[q]]
  <2>1. CASE ScopeOf[q] # ScopeOf[p]
    BY <1>1, <2>1, WorkerScopes DEF Finish, Crash, IInv, TypeOK
  <2>2. CASE ScopeOf[q] = ScopeOf[p]
    <3>1. ~FenceValid(p)
      BY <2>2, InvOneWriter DEF OneFencedWriter
    <3> QED
      BY <1>1, <3>1 DEF Finish, Crash
  <2> QED
    BY <2>1, <2>2
<1> QED
  BY <1>2, <1>3, <1>4 DEF FenceValid, Holds, Active, Found, Readable

(* A worker that stops, with or without releasing, leaves the fence of     *)
(* every other process as it was (guard.go 138-154).                       *)
THEOREM ExitIsSafe == Spec => ExitKeepsOthersFence
<1>1. IInv /\ [Next]_vars
      => [\A p, q \in Process :
            /\ p # q
            /\ pc[p] = "running" /\ pc'[p] = "idle"
            /\ pc[q] = "running" /\ FenceValid(q)
            => FenceValid(q)']_vars
  BY ExitStep
<1> QED
  BY <1>1, Inductive, PTL DEF Spec, ExitKeepsOthersFence
-----------------------------------------------------------------------------
(* The lease protocol implements FencedWriter. *)

Generation == [s \in Scope |-> lease[s].generation]

(* The initial states are initial states of the abstract specification.    *)
LEMMA RefineInit == Init => Fence!FWInit
BY DEF Init, Fence!FWInit, Scope, Fence!Scope, NoLease

(* A step in which no generation moves and nothing is written. *)
LEMMA RefineStutter ==
    ASSUME \A s \in Scope : lease'[s].generation = lease[s].generation,
           UNCHANGED stamp
    PROVE  UNCHANGED Fence!fwVars
BY DEF Fence!fwVars

(* A takeover supersedes the previous holder of one scope. *)
LEMMA RefineTake ==
    ASSUME TypeOK, NEW s \in Scope, NEW owner, TakeLease(s, owner), UNCHANGED stamp
    PROVE  Fence!FWNext
<1>1. lease' = [lease EXCEPT ![s] = Taken(lease[s], owner)]
  BY DEF TakeLease
<1>2. Taken(lease[s], owner).generation = lease[s].generation + 1
  BY DEF Taken
<1>3. Generation' = [Generation EXCEPT ![s] = @ + 1]
  BY <1>1, <1>2 DEF TypeOK, Generation
<1>4. Fence!Supersede(s)
  BY <1>3 DEF Fence!Supersede, Generation
<1> QED
  BY <1>4 DEF Fence!FWNext, Fence!Scope, Scope

(* A write carries the current generations. *)
LEMMA RefineWrite ==
    ASSUME IInv, NEW p \in Process, ControlWrite(p) \/ EndFenced(p)
    PROVE  Fence!FWNext
<1>1. /\ rt[p].generation = lease[Runtime].generation
      /\ wk[p].generation = lease[ScopeOf[p]].generation
      /\ lease[Runtime].generation > 0
      /\ lease[ScopeOf[p]].generation > 0
  <2>1. CASE ControlWrite(p)
    BY <2>1, FenceIsCurrent DEF ControlWrite, IInv
  <2>2. CASE EndFenced(p)
    <3>1. /\ Claim(lease[Runtime]) = rt[p] /\ rt[p].token # NoToken
          /\ Claim(lease[ScopeOf[p]]) = wk[p] /\ wk[p].token # NoToken
      BY <2>2, ConstantsAssumption DEF EndFenced, IInv, FencedHolderIsCurrent
    <3>2. \A s \in Scope : /\ lease[s].token \in {NoToken, lease[s].generation}
                           /\ lease[s].generation \in Nat
      BY DEF IInv, TokenOfGeneration, TypeOK, LeaseType
    <3> QED
      BY <3>1, <3>2, WorkerScopes DEF Claim, NoToken
  <2> QED
    BY <2>1, <2>2
<1>2. stamp' = [stamp EXCEPT ![ScopeOf[p]] =
                   [runtime |-> lease[Runtime].generation,
                    worker |-> lease[ScopeOf[p]].generation]]
  BY <1>1 DEF ControlWrite, EndFenced, Stamped
<1>3. Generation[Runtime] > 0 /\ Generation[ScopeOf[p]] > 0
  BY <1>1, WorkerScopes DEF Generation
<1>4. Generation' = Generation
  BY DEF ControlWrite, EndFenced, Generation
<1>5. stamp' = [stamp EXCEPT ![ScopeOf[p]] =
                   [runtime |-> Generation[Runtime], worker |-> Generation[ScopeOf[p]]]]
  BY <1>2, WorkerScopes DEF Generation
<1>6. Fence!CurrentWrite(ScopeOf[p])
  BY <1>3, <1>4, <1>5 DEF Fence!CurrentWrite, Fence!Stamp, Generation
<1> QED
  BY <1>6, ConstantsAssumption DEF Fence!FWNext

(* Every step of the protocol is a step of the abstract specification or   *)
(* leaves its variables alone.                                             *)
LEMMA RefineNext == IInv /\ [Next]_vars => [Fence!FWNext]_(Fence!fwVars)
<1> SUFFICES ASSUME IInv, [Next]_vars
             PROVE  Fence!FWNext \/ UNCHANGED Fence!fwVars
  OBVIOUS
<1>1. ASSUME NEW p \in Process, Worker(p)
      PROVE  Fence!FWNext \/ UNCHANGED Fence!fwVars
  <2>1. CASE Join(p) \/ RenewRuntime(p) \/ RenewWorker(p)
    <3>1. PICK s \in Scope : \/ lease' = lease
                            \/ lease' = [lease EXCEPT ![s] = Renewed(lease[s])]
      BY <2>1, WorkerScopes DEF Join, RenewRuntime, RenewWorker, Renew
    <3>2. \A x \in Scope : lease'[x].generation = lease[x].generation
      BY <3>1, RecordClaims DEF IInv, TypeOK
    <3> QED
      BY <2>1, <3>2, RefineStutter DEF Join, RenewRuntime, RenewWorker, Renew
  <2>2. CASE Take(p)
    BY <2>2, WorkerScopes, RefineTake DEF Take, IInv
  <2>3. CASE TakeRefused(p) \/ RenewError(p) \/ BeginFenced(p)
    BY <2>3, RefineStutter DEF TakeRefused, RenewError, BeginFenced
  <2>4. CASE ControlWrite(p) \/ EndFenced(p)
    BY <2>4, RefineWrite
  <2>5. CASE Finish(p) \/ Crash(p)
    <3>1. \/ lease' = lease
          \/ lease' = [lease EXCEPT ![ScopeOf[p]] = Released(lease[ScopeOf[p]])]
      BY <2>5 DEF Finish, Crash
    <3>2. \A x \in Scope : lease'[x].generation = lease[x].generation
      BY <3>1, ReleasedFields DEF IInv, TypeOK
    <3> QED
      BY <2>5, <3>2, RefineStutter DEF Finish, Crash
  <2> QED
    BY <1>1, <2>1, <2>2, <2>3, <2>4, <2>5 DEF Worker
<1>2. ASSUME NEW o \in Operator, OperatorStep(o)
      PROVE  Fence!FWNext \/ UNCHANGED Fence!fwVars
  <2>1. CASE Activate(o)
    BY <2>1, RefineTake DEF Activate, IInv, Scope
  <2>2. CASE Release(o)
    <3>1. PICK s : lease' = [lease EXCEPT ![s] = Released(lease[s])]
      BY <2>2 DEF Release
    <3>2. \A x \in Scope : lease'[x].generation = lease[x].generation
      BY <3>1, ReleasedFields DEF IInv, TypeOK
    <3> QED
      BY <2>2, <3>2, RefineStutter DEF Release
  <2>3. CASE ConfirmActivate(o) \/ ConfirmRelease(o) \/ Abandon(o)
    BY <2>3, RefineStutter DEF ConfirmActivate, ConfirmRelease, Abandon
  <2> QED
    BY <1>2, <2>1, <2>2, <2>3 DEF OperatorStep
<1>3. CASE Tick \/ StepBack \/ UNCHANGED vars
  BY <1>3, RefineStutter DEF Tick, StepBack, vars
<1> QED
  BY <1>1, <1>2, <1>3 DEF Next

(* No write takes effect under superseded generations (lease.go 57-62). *)
THEOREM Fencing == Spec => FencingImplemented
BY RefineInit, RefineNext, Inductive, PTL DEF Spec, FencingImplemented, Fence!FWSpec

-----------------------------------------------------------------------------
(* The access log. *)

Cell == Nat \X {1, 2}

LogTypes ==
    /\ tick \in Nat \ {0} /\ began \in Seq(Nat) /\ Len(began) <= MaxLines
    /\ log \in Seq(Cell) /\ backup \in [1..Backups -> Seq(Cell)]
    /\ rotation \in [step : {"none", "shift", "publish", "truncate"}, copy : Seq(Cell), at : Nat]
    /\ reader \in [known : BOOLEAN, offset : Nat, prefix : Seq(Nat \X (0..2)), pending : {<<>>},
                   rows : [1..MaxLines -> {0, 1}], lastNow : Nat, now : Nat,
                   step : {"idle", "prefix", "answer"}, file : SUBSET Lines]
    /\ torn \in BOOLEAN

(* Lines follow each other, each with all its cells; the last is the       *)
(* newest line of all.                                                     *)
Tidy(cells, last) ==
    /\ \A i \in DOMAIN cells : cells[i][1] \in 1..last
    /\ \A i, j \in DOMAIN cells :
          i < j => \/ cells[i][1] < cells[j][1]
                   \/ cells[i][1] = cells[j][1] /\ cells[i][2] = 1 /\ cells[j][2] = 2
    /\ \A i \in DOMAIN cells : cells[i][2] = 2 /\ cells[i][1] % 2 = 1 =>
          i > 1 /\ cells[i - 1] = <<cells[i][1], 1>>
    /\ \A i \in DOMAIN cells : cells[i][2] = 1 =>
          cells[i][1] % 2 = 1 /\ i < Len(cells) /\ cells[i + 1] = <<cells[i][1], 2>>
    /\ Len(cells) > 0 => cells[Len(cells)] = <<last, 2>>

(* What an interrupted or successful rotation has kept at each step.       *)
RotationKnown ==
    /\ \A i \in 1..Backups : LinesOf(backup[i]) \subseteq Lines
    /\ rotation.step # "none" =>
          /\ rotation.copy # <<>> /\ LinesOf(rotation.copy) \subseteq Lines
          /\ LinesOf(log) \subseteq LinesOf(rotation.copy) \cup excused
          /\ \A i \in 1..Backups : backup[i] # <<>> => Last(backup[i])[1] <= Last(rotation.copy)[1]
    /\ rotation.step = "shift" => /\ rotation.at \in 1..Backups
                                  /\ rotation.at < Backups => backup[rotation.at + 1] = <<>>
    /\ rotation.step = "publish" => backup[1] = <<>>
    /\ rotation.step = "truncate" => backup[1] = rotation.copy

(* What was counted is behind the offset, or of a file that is gone.       *)
RowsBehind ==
    \A n \in 1..MaxLines : reader.rows[n] > 0 =>
        /\ n \in Lines /\ reader.offset > 0
        /\ \A i \in DOMAIN log : i > reader.offset => n < log[i][1]

(* The file that was read is the log up to the offset, or is gone.         *)
Same == /\ reader.offset <= Len(log) /\ reader.file = LinesOf(Prefix(log, reader.offset))
        /\ reader.offset > 0 => Ends(log[reader.offset])
Gone == /\ reader.step # "prefix" /\ reader.offset > 0
        /\ \A i \in DOMAIN log, n \in reader.file : n < log[i][1]

FileKnown ==
    /\ ~reader.known => reader.offset = 0 /\ reader.step = "idle"
    /\ reader.known /\ ~torn =>
          /\ Same \/ Gone
          /\ reader.step # "prefix" /\ reader.offset > 0 =>
                Len(reader.prefix) > 0 /\ reader.prefix[1][1] \in reader.file

Asked == IF reader.step = "idle" THEN reader.lastNow ELSE reader.now
RowsExact ==
    reader.known /\ ~torn =>
        \A n \in Lines : InWindow(n, Asked) => (reader.rows[n] > 0 <=> n \in reader.file)

LogInv == LogTypes /\ Tidy(log, Len(began)) /\ RotationKnown /\ LinesKept /\ BackupsOrdered
          /\ RowsBehind /\ FileKnown /\ RowsExact

-----------------------------------------------------------------------------
(* A file of tidy lines, appended to and read.                             *)

LEMMA LineCells ==
    ASSUME NEW n \in Nat \ {0}
    PROVE  /\ Cells(n) \in Seq(Cell)
           /\ n % 2 = 1 => Len(Cells(n)) = 2 /\ Cells(n)[1] = <<n, 1>> /\ Cells(n)[2] = <<n, 2>>
           /\ n % 2 # 1 => Len(Cells(n)) = 1 /\ Cells(n)[1] = <<n, 2>>
<1>1. <<n, 1>> \in Cell /\ <<n, 2>> \in Cell BY DEF Cell
<1>2. CASE n % 2 = 1
  <2>1. Cells(n) = <<<<n, 1>>, <<n, 2>>>> BY <1>2 DEF Cells
  <2>2. <<<<n, 1>>, <<n, 2>>>> \in Seq(Cell) BY <1>1
  <2> QED BY <2>1, <2>2, <1>2
<1>3. CASE n % 2 # 1
  <2>1. Cells(n) = <<<<n, 2>>>> BY <1>3 DEF Cells
  <2>2. <<<<n, 2>>>> \in Seq(Cell) BY <1>1
  <2> QED BY <2>1, <2>2, <1>3
<1> QED BY <1>2, <1>3

LEMMA CellParts ==
    ASSUME NEW cells \in Seq(Cell), NEW i \in DOMAIN cells
    PROVE  cells[i] = <<cells[i][1], cells[i][2]>> /\ cells[i][1] \in Nat /\ cells[i][2] \in {1, 2}
BY DEF Cell

(* A file with one more line is tidy. *)
LEMMA StaysTidy ==
    ASSUME NEW cells \in Seq(Cell), NEW last \in Nat, Tidy(cells, last)
    PROVE  LET more == cells \o Cells(last + 1)
           IN  /\ more \in Seq(Cell) /\ Tidy(more, last + 1)
               /\ \A i \in DOMAIN cells : i \in DOMAIN more /\ more[i] = cells[i]
               /\ \A i \in DOMAIN more : i \in DOMAIN cells \/ more[i][1] = last + 1
               /\ LinesOf(more) = LinesOf(cells) \cup {last + 1}
<1> DEFINE n == last + 1
           more == cells \o Cells(n)
<1>1. n \in Nat \ {0} OBVIOUS
<1>2. /\ Cells(n) \in Seq(Cell)
      /\ n % 2 = 1 => Len(Cells(n)) = 2 /\ Cells(n)[1] = <<n, 1>> /\ Cells(n)[2] = <<n, 2>>
      /\ n % 2 # 1 => Len(Cells(n)) = 1 /\ Cells(n)[1] = <<n, 2>>
  BY <1>1, LineCells
<1>3. /\ more \in Seq(Cell) /\ Len(more) = Len(cells) + Len(Cells(n))
      /\ DOMAIN cells = 1..Len(cells) /\ DOMAIN more = 1..Len(more)
      /\ \A i \in 1..Len(cells) : more[i] = cells[i]
      /\ \A i \in 1..Len(Cells(n)) : more[Len(cells) + i] = Cells(n)[i]
  <2>1. Len(cells) \in Nat /\ Len(Cells(n)) \in Nat BY <1>2
  <2>2. /\ more \in Seq(Cell) /\ Len(more) = Len(cells) + Len(Cells(n))
        /\ \A i \in 1..Len(cells) + Len(Cells(n)) :
              more[i] = IF i <= Len(cells) THEN cells[i] ELSE Cells(n)[i - Len(cells)]
    BY <1>2, ConcatProperties
  <2> HIDE DEF more
  <2>3. ASSUME NEW i \in 1..Len(Cells(n)) PROVE more[Len(cells) + i] = Cells(n)[i]
    <3>1. (Len(cells) + i) - Len(cells) = i /\ ~(Len(cells) + i <= Len(cells))
          /\ Len(cells) + i \in 1..Len(cells) + Len(Cells(n))
      BY <2>1
    <3> QED BY <3>1, <2>2
  <2> QED BY <2>1, <2>2, <2>3
<1> HIDE DEF more
<1>4. /\ n % 2 = 1 => /\ Len(more) = Len(cells) + 2
                      /\ more[Len(cells) + 1] = <<n, 1>> /\ more[Len(cells) + 2] = <<n, 2>>
      /\ n % 2 # 1 => Len(more) = Len(cells) + 1 /\ more[Len(cells) + 1] = <<n, 2>>
  <2>1. Len(cells) \in Nat OBVIOUS
  <2>2. CASE n % 2 = 1
    <3>1. Len(Cells(n)) = 2 /\ 1 \in 1..Len(Cells(n)) /\ 2 \in 1..Len(Cells(n)) BY <2>2, <1>2
    <3>2. more[Len(cells) + 1] = Cells(n)[1] /\ more[Len(cells) + 2] = Cells(n)[2] BY <3>1, <1>3
    <3> QED BY <3>1, <3>2, <2>2, <1>2, <1>3
  <2>3. CASE n % 2 # 1 BY <2>1, <2>3, <1>2, <1>3
  <2> QED BY <2>2, <2>3
<1>5. \A i \in 1..Len(more) :
         \/ i \in 1..Len(cells) /\ more[i] = cells[i]
         \/ n % 2 = 1 /\ i = Len(cells) + 1 /\ more[i] = <<n, 1>>
         \/ n % 2 = 1 /\ i = Len(cells) + 2 /\ more[i] = <<n, 2>>
         \/ n % 2 # 1 /\ i = Len(cells) + 1 /\ more[i] = <<n, 2>>
  BY <1>3, <1>4
<1>6. \A i \in 1..Len(cells) : cells[i][1] \in 1..last /\ cells[i][1] < n
  BY <1>3 DEF Tidy
<1>7. \A i \in DOMAIN more : more[i][1] \in 1..n
  BY <1>3, <1>5, <1>6
<1>8. ASSUME NEW i \in DOMAIN more, NEW j \in DOMAIN more, i < j
      PROVE  \/ more[i][1] < more[j][1]
             \/ more[i][1] = more[j][1] /\ more[i][2] = 1 /\ more[j][2] = 2
  <2>1. CASE j \in 1..Len(cells) BY <2>1, <1>8, <1>3 DEF Tidy
  <2>2. CASE i \in 1..Len(cells) /\ j \notin 1..Len(cells) BY <2>2, <1>3, <1>5, <1>6
  <2>3. CASE i \notin 1..Len(cells) BY <2>3, <1>8, <1>3, <1>4, <1>5
  <2> QED BY <2>1, <2>2, <2>3
<1>9. ASSUME NEW i \in DOMAIN more, more[i][2] = 2, more[i][1] % 2 = 1
      PROVE  i > 1 /\ more[i - 1] = <<more[i][1], 1>>
  <2>1. CASE i \in 1..Len(cells)
    <3>1. cells[i][2] = 2 /\ cells[i][1] % 2 = 1 /\ more[i] = cells[i] BY <2>1, <1>9, <1>3
    <3>2. i > 1 /\ cells[i - 1] = <<cells[i][1], 1>> BY <2>1, <3>1, <1>3 DEF Tidy
    <3> QED BY <3>1, <3>2, <2>1, <1>3
  <2>2. CASE i \notin 1..Len(cells)
    <3>1. more[i][1] = n BY <2>2, <1>3, <1>5
    <3>2. i = Len(cells) + 2 /\ Len(more) = Len(cells) + 2 BY <3>1, <2>2, <1>9, <1>3, <1>4, <1>5
    <3> QED BY <3>1, <3>2, <1>9, <1>4
  <2> QED BY <2>1, <2>2
<1>10. ASSUME NEW i \in DOMAIN more, more[i][2] = 1
       PROVE  more[i][1] % 2 = 1 /\ i < Len(more) /\ more[i + 1] = <<more[i][1], 2>>
  <2>1. CASE i \in 1..Len(cells)
    <3>1. cells[i][2] = 1 /\ more[i] = cells[i] BY <2>1, <1>10, <1>3
    <3>2. cells[i][1] % 2 = 1 /\ i < Len(cells) /\ cells[i + 1] = <<cells[i][1], 2>>
      BY <2>1, <3>1, <1>3 DEF Tidy
    <3>3. i + 1 \in 1..Len(cells) /\ more[i + 1] = cells[i + 1] BY <3>2, <2>1, <1>3
    <3>4. Len(cells) <= Len(more) BY <1>2, <1>3
    <3> QED BY <3>1, <3>2, <3>3, <3>4, <2>1
  <2>2. CASE i \notin 1..Len(cells)
    <3>1. n % 2 = 1 /\ i = Len(cells) + 1 /\ more[i] = <<n, 1>> BY <2>2, <1>10, <1>3, <1>5
    <3> QED BY <3>1, <1>4
  <2> QED BY <2>1, <2>2
<1>11. more[Len(more)] = <<n, 2>> BY <1>3, <1>4
<1>12. Tidy(more, n) BY <1>7, <1>8, <1>9, <1>10, <1>11 DEF Tidy
<1>13. \E i \in DOMAIN more : more[i][1] = n
  <2>1. Len(more) \in DOMAIN more BY <1>3, <1>4
  <2>2. more[Len(more)][1] = n BY <1>11
  <2> QED BY <2>1, <2>2
<1>14. \A i \in DOMAIN more : i \in DOMAIN cells \/ more[i][1] = n BY <1>3, <1>5
<1>15. LinesOf(more) = LinesOf(cells) \cup {n}
  <2>1. LinesOf(more) \subseteq LinesOf(cells) \cup {n} BY <1>3, <1>14 DEF LinesOf
  <2>2. \A i \in DOMAIN cells : i \in DOMAIN more /\ more[i][1] = cells[i][1] BY <1>3
  <2>3. LinesOf(cells) \subseteq LinesOf(more) BY <2>2 DEF LinesOf
  <2>4. n \in LinesOf(more) BY <1>13 DEF LinesOf
  <2> QED BY <2>1, <2>3, <2>4
<1> QED BY <1>3, <1>12, <1>14, <1>15 DEF more

LEMMA OneCell ==
    ASSUME NEW cells \in Seq(Cell), NEW i \in 1..Len(cells)
    PROVE  SubSeq(cells, i, i) = <<cells[i]>>
<1>1. Len(SubSeq(cells, i, i)) = 1 /\ SubSeq(cells, i, i)[1] = cells[i]
      /\ SubSeq(cells, i, i) \in Seq(Cell) /\ cells[i] \in Cell
  OBVIOUS
<1>2. <<cells[i]>> \in Seq(Cell) /\ Len(<<cells[i]>>) = 1 /\ <<cells[i]>>[1] = cells[i] BY <1>1
<1> DEFINE s == SubSeq(cells, i, i)
           t == <<cells[i]>>
<1> HIDE DEF s, t
<1>3. s \in Seq(Cell) /\ t \in Seq(Cell) /\ Len(s) = Len(t) /\ \A k \in 1..Len(s) : s[k] = t[k]
  BY <1>1, <1>2 DEF s, t
<1>4. s = t BY <1>3, SeqEqual
<1> QED BY <1>4 DEF s, t

LEMMA TwoCells ==
    ASSUME NEW cells \in Seq(Cell), NEW i \in 2..Len(cells)
    PROVE  SubSeq(cells, i - 1, i) = <<cells[i - 1], cells[i]>>
<1> DEFINE s == SubSeq(cells, i - 1, i)
           t == <<cells[i - 1], cells[i]>>
<1>1. cells[i - 1] \in Cell /\ cells[i] \in Cell OBVIOUS
<1>2. s \in Seq(Cell) /\ Len(s) = 2 /\ s[1] = cells[i - 1] /\ s[2] = cells[i]
  <2>1. i \in Int /\ i - 1 \in Int /\ i - 1 <= i /\ i - (i - 1) + 1 = 2
        /\ \A k \in i - 1..i : cells[k] \in Cell
    OBVIOUS
  <2>2. /\ s \in Seq(Cell) /\ Len(s) = 2
        /\ \A k \in 1..2 : s[k] = cells[(i - 1) + k - 1]
    BY <2>1, SubSeqProperties
  <2>3. (i - 1) + 1 - 1 = i - 1 /\ (i - 1) + 2 - 1 = i OBVIOUS
  <2> QED BY <2>2, <2>3
<1>3. t \in Seq(Cell) /\ Len(t) = 2 /\ t[1] = cells[i - 1] /\ t[2] = cells[i] BY <1>1
<1> HIDE DEF s, t
<1>4. \A k \in 1..2 : s[k] = t[k]
  <2>1. \A k \in 1..2 : k = 1 \/ k = 2 OBVIOUS
  <2> QED BY <2>1, <1>2, <1>3
<1>5. s = t BY <1>2, <1>3, <1>4, SeqEqual
<1> QED BY <1>5 DEF s, t

(* Reading on from the end of a line, or from within one, counts each      *)
(* whole line that follows once, and leaves nothing over.                  *)
LEMMA Consumed ==
    ASSUME NEW cells \in Seq(Cell), NEW last \in 0..MaxLines, Tidy(cells, last),
           NEW from \in 0..Len(cells)
    PROVE  LET got == Consume(<<>>, SubSeq(cells, from + 1, Len(cells)))
               ahead(n) == \E i \in DOMAIN cells : i > from /\ cells[i][1] = n
           IN  /\ got.pending = <<>> /\ got.rows \in [1..MaxLines -> {0, 1}]
               /\ \A n \in 1..MaxLines : got.rows[n] > 0 => ahead(n)
               /\ (from > 0 => Ends(cells[from])) =>
                     \A n \in 1..MaxLines : ahead(n) => got.rows[n] > 0
<1> DEFINE read == SubSeq(cells, from + 1, Len(cells))
           all == <<>> \o read
           ahead(n) == \E i \in DOMAIN cells : i > from /\ cells[i][1] = n
           whole(i) == LET c == Cells(all[i][1])
                       IN  i >= Len(c) /\ SubSeq(all, i - Len(c) + 1, i) = c
           ended == {i \in DOMAIN all : Ends(all[i])}
           rest == IF ended = {} THEN 0 ELSE CHOOSE i \in ended : \A j \in ended : j <= i
           counted(n) == {i \in ended : whole(i) /\ all[i][1] = n}
           rows == [n \in 1..MaxLines |-> Cardinality(counted(n))]
           got == Consume(<<>>, read)
<1>0. LogFilesAssumption /\ MaxLines \in Nat BY LogFilesAssumption DEF LogFilesAssumption
<1>1. /\ all \in Seq(Cell) /\ Len(all) = Len(cells) - from /\ DOMAIN all = 1..Len(all)
      /\ \A i \in 1..Len(all) : from + i \in DOMAIN cells /\ all[i] = cells[from + i]
      /\ DOMAIN cells = 1..Len(cells)
  <2>1. /\ read \in Seq(Cell) /\ Len(read) = Len(cells) - from /\ DOMAIN read = 1..Len(read)
        /\ \A i \in 1..Len(read) : from + i \in DOMAIN cells /\ read[i] = cells[from + i]
        /\ DOMAIN cells = 1..Len(cells)
    OBVIOUS
  <2>2. all = read BY <2>1, ConcatEmptySeq
  <2> QED BY <2>1, <2>2
<1>2. got.rows = rows /\ got.pending = SubSeq(all, rest + 1, Len(all)) BY DEF Consume
<1> HIDE DEF all, whole, got, read
<1>4. rest = Len(all)
  <2>1. CASE Len(all) = 0 BY <2>1, <1>1
  <2>2. CASE Len(all) > 0
    <3>1. Ends(all[Len(all)]) BY <2>2, <1>1 DEF Tidy, Ends
    <3>2. Len(all) \in ended /\ \A j \in ended : j <= Len(all) BY <2>2, <3>1, <1>1
    <3>3. ASSUME NEW i \in ended, \A j \in ended : j <= i PROVE i = Len(all)
      <4>1. i \in 1..Len(all) /\ Len(all) <= i BY <3>2, <3>3, <1>1
      <4> QED BY <4>1, <1>1
    <3> QED BY <3>2, <3>3
  <2> QED BY <2>1, <2>2, <1>1
<1>5. got.pending = <<>>
  <2>1. Len(all) \in Int /\ Len(all) + 1 \in Int /\ Len(all) < Len(all) + 1 BY <1>1
  <2>2. SubSeq(all, Len(all) + 1, Len(all)) = <<>> BY <2>1, SubSeqEmpty
  <2> QED BY <2>2, <1>2, <1>4
<1>6. ASSUME NEW i \in ended, NEW j \in ended, all[i][1] = all[j][1] PROVE i = j
  <2>1. from + i \in DOMAIN cells /\ from + j \in DOMAIN cells /\ i \in Nat /\ j \in Nat BY <1>1
  <2>2. cells[from + i][1] = cells[from + j][1] /\ cells[from + i][2] = 2 /\ cells[from + j][2] = 2
    BY <1>6, <1>1 DEF Ends
  <2>3. cells[from + i][1] \in Nat /\ cells[from + j][1] \in Nat BY <2>1, CellParts
  <2>4. ~(from + i < from + j) BY <2>1, <2>2, <2>3 DEF Tidy
  <2>5. ~(from + j < from + i) BY <2>1, <2>2, <2>3 DEF Tidy
  <2> QED BY <2>1, <2>4, <2>5
<1>7. ASSUME NEW n \in 1..MaxLines
      PROVE  /\ rows[n] \in {0, 1}
             /\ rows[n] > 0 <=> \E i \in ended : whole(i) /\ all[i][1] = n
  <2>1. CASE \E i \in ended : whole(i) /\ all[i][1] = n
    <3>1. PICK i \in ended : whole(i) /\ all[i][1] = n BY <2>1
    <3>2. counted(n) = {i} BY <3>1, <1>6
    <3>3. rows[n] = 1 BY <3>2, FS_Singleton
    <3> QED BY <3>3, <2>1
  <2>2. CASE ~ \E i \in ended : whole(i) /\ all[i][1] = n
    <3>1. counted(n) = {} BY <2>2
    <3>2. rows[n] = 0 BY <3>1, FS_EmptySet
    <3> QED BY <3>2, <2>2
  <2> QED BY <2>1, <2>2
<1>8. ASSUME NEW n \in 1..MaxLines, rows[n] > 0 PROVE ahead(n)
  <2>1. PICK i \in ended : all[i][1] = n BY <1>7, <1>8
  <2>2. i \in 1..Len(all) /\ from + i \in DOMAIN cells /\ from + i > from /\ cells[from + i][1] = n
    BY <2>1, <1>1
  <2> QED BY <2>2
<1>9. ASSUME from > 0 => Ends(cells[from]), NEW n \in 1..MaxLines, ahead(n) PROVE rows[n] > 0
  <2>1. PICK a \in DOMAIN cells : a > from /\ cells[a][1] = n BY <1>9
  <2>2. PICK b \in DOMAIN cells : b > from /\ cells[b][1] = n /\ cells[b][2] = 2
    <3>1. CASE cells[a][2] = 2 BY <2>1, <3>1
    <3>2. CASE cells[a][2] = 1
      <4>1. a < Len(cells) /\ cells[a + 1] = <<n, 2>> BY <2>1, <3>2 DEF Tidy
      <4>2. a + 1 \in DOMAIN cells /\ a + 1 > from BY <4>1, <2>1, <1>1
      <4>3. cells[a + 1][1] = n /\ cells[a + 1][2] = 2 BY <4>1
      <4> QED BY <4>2, <4>3
    <3> QED BY <3>1, <3>2, CellParts
  <2> DEFINE i == b - from
  <2>3. i \in 1..Len(all) /\ all[i] = cells[b] /\ from + i = b BY <2>2, <1>1
  <2>4. all[i][1] = n /\ all[i][2] = 2 /\ all[i] = <<n, 2>> BY <2>2, <2>3, CellParts
  <2>5. i \in ended BY <2>3, <2>4, <1>1 DEF Ends
  <2>6. whole(i)
    <3>1. CASE n % 2 = 1
      <4>1. b > 1 /\ cells[b - 1] = <<n, 1>> BY <2>2, <3>1 DEF Tidy
      <4>2. b - 1 # from
        <5>1. from > 0 => cells[from][2] = 2 BY <1>9 DEF Ends
        <5> QED BY <4>1, <5>1, <2>2, <1>1
      <4>3. i > 1 /\ i - 1 \in 1..Len(all) /\ from + (i - 1) = b - 1
        <5>1. b \in Int /\ from \in Int /\ b > from BY <2>2, <1>1
        <5>2. b - from > 1 /\ from + (b - from - 1) = b - 1 BY <5>1, <4>2
        <5> QED BY <5>1, <5>2, <2>3, <1>1
      <4>7. all[i - 1] = <<n, 1>> BY <4>1, <4>3, <1>1
      <4>4. Cells(n) = <<<<n, 1>>, <<n, 2>>>> BY <3>1 DEF Cells
      <4>5. Len(Cells(n)) = 2 BY <4>4
      <4>6. SubSeq(all, i - 1, i) = <<<<n, 1>>, <<n, 2>>>>
        <5>1. i \in 2..Len(all) BY <4>3, <2>3, <1>1
        <5> QED BY <5>1, <4>7, <2>4, <1>1, TwoCells
      <4>8. i >= 2 /\ i - 2 + 1 = i - 1
        <5> HIDE DEF i
        <5>1. i \in Int BY <2>3
        <5> QED BY <5>1, <4>3
      <4> QED BY <4>4, <4>5, <4>6, <4>8, <2>3, <2>4 DEF whole
    <3>2. CASE n % 2 # 1
      <4>1. Cells(n) = <<<<n, 2>>>> BY <3>2 DEF Cells
      <4>2. Len(Cells(n)) = 1 BY <4>1
      <4>3. SubSeq(all, i, i) = <<<<n, 2>>>> BY <2>3, <2>4, <1>1, OneCell
      <4>4. i >= 1 /\ i - 1 + 1 = i BY <2>3, <1>1
      <4> QED BY <4>1, <4>2, <4>3, <4>4, <2>3, <2>4 DEF whole
    <3> QED BY <3>1, <3>2
  <2> QED BY <2>4, <2>5, <2>6, <1>7
<1>10. rows \in [1..MaxLines -> {0, 1}] BY <1>7
<1> QED BY <1>2, <1>5, <1>8, <1>9, <1>10 DEF got, read

-----------------------------------------------------------------------------
(* What each action keeps. *)

LEMMA NoReader == Fresh \in [known : BOOLEAN, offset : Nat, prefix : Seq(Nat \X (0..2)),
                             pending : {<<>>}, rows : [1..MaxLines -> {0, 1}], lastNow : Nat,
                             now : Nat, step : {"idle", "prefix", "answer"}, file : SUBSET Lines]
BY DEF Fresh

LEMMA LogInitially == LogInit => LogInv
<1> SUFFICES ASSUME LogInit PROVE LogInv OBVIOUS
<1>0. LogFilesAssumption BY LogFilesAssumption
<1>1. MaxLines \in Nat /\ Backups \in Nat \ {0} BY <1>0 DEF LogFilesAssumption
<1>2. began = <<>> /\ log = <<>> /\ Len(began) = 0 /\ Len(log) = 0 /\ Lines = {} /\ DOMAIN log = {}
  BY DEF LogInit, Lines
<1>3. LogTypes
  <2>1. NoRotation \in [step : {"none", "shift", "publish", "truncate"}, copy : Seq(Cell), at : Nat]
    BY DEF NoRotation
  <2>2. [i \in 1..Backups |-> <<>>] \in [1..Backups -> Seq(Cell)] OBVIOUS
  <2>3. tick = 1 /\ reader = Fresh /\ torn = FALSE /\ rotation = NoRotation
        /\ backup = [i \in 1..Backups |-> <<>>]
    BY DEF LogInit
  <2>4. began \in Seq(Nat) /\ log \in Seq(Cell) BY <1>2
  <2>5. reader \in [known : BOOLEAN, offset : Nat, prefix : Seq(Nat \X (0..2)),
                   pending : {<<>>}, rows : [1..MaxLines -> {0, 1}], lastNow : Nat,
                   now : Nat, step : {"idle", "prefix", "answer"}, file : SUBSET Lines]
    BY <2>3, NoReader
  <2>6. rotation \in [step : {"none", "shift", "publish", "truncate"}, copy : Seq(Cell), at : Nat]
    BY <2>1, <2>3
  <2>7. tick \in Nat \ {0} /\ Len(began) <= MaxLines BY <1>1, <1>2, <2>3
  <2>8. torn \in BOOLEAN /\ backup \in [1..Backups -> Seq(Cell)] BY <2>2, <2>3
  <2> QED BY <2>4, <2>5, <2>6, <2>7, <2>8 DEF LogTypes
<1>4. Tidy(log, Len(began)) BY <1>2 DEF Tidy
<1>5. RotationKnown BY <1>2 DEF LogInit, RotationKnown, NoRotation, LinesOf
<1>6. LinesKept BY <1>2 DEF LinesKept
<1>7. BackupsOrdered BY DEF LogInit, BackupsOrdered
<1>8. RowsBehind BY <1>1 DEF LogInit, RowsBehind, Fresh
<1>9. FileKnown /\ RowsExact BY DEF LogInit, FileKnown, RowsExact, Fresh
<1> QED BY <1>3, <1>4, <1>5, <1>6, <1>7, <1>8, <1>9 DEF LogInv

LEMMA ClockKeeps ==
    ASSUME LogInv, TickPasses \/ ClockBack PROVE LogInv'
<1>1. UNCHANGED <<began, log, backup, rotation, excused, reader, torn>> /\ tick' \in Nat \ {0}
  BY DEF TickPasses, ClockBack, LogInv, LogTypes
<1>2. LogTypes' BY <1>1 DEF LogInv, LogTypes, Lines
<1>3. Tidy(log, Len(began))' BY <1>1 DEF LogInv, Tidy
<1>4. RotationKnown' /\ LinesKept' /\ BackupsOrdered'
  BY <1>1 DEF LogInv, RotationKnown, LinesKept, BackupsOrdered, Lines
<1>5. RowsBehind' BY <1>1 DEF LogInv, RowsBehind, Lines
<1>6. FileKnown' BY <1>1 DEF LogInv, FileKnown, Same, Gone
<1>7. RowsExact' BY <1>1 DEF LogInv, RowsExact, Lines, InWindow, Asked
<1> QED BY <1>2, <1>3, <1>4, <1>5, <1>6, <1>7 DEF LogInv

LEMMA AppendKeeps ==
    ASSUME LogInv, AppendLine PROVE LogInv'
<1>0. LogFilesAssumption BY LogFilesAssumption
<1> DEFINE n == Len(began) + 1
<1>1. /\ Len(began) \in Nat /\ n <= MaxLines /\ MaxLines \in Nat /\ log \in Seq(Cell)
      /\ log' = log \o Cells(n) /\ UNCHANGED <<tick, backup, rotation, reader, torn>>
      /\ excused' = IF rotation.step = "none" THEN excused ELSE excused \cup {n}
  <2>1. MaxLines \in Nat BY <1>0 DEF LogFilesAssumption
  <2>2. Len(began) \in Nat /\ log \in Seq(Cell) BY DEF LogInv, LogTypes
  <2>3. Len(began) < MaxLines BY DEF AppendLine
  <2>4. n <= MaxLines BY <2>1, <2>2, <2>3
  <2> QED BY <2>1, <2>2, <2>4 DEF AppendLine
<1>2. /\ began' \in Seq(Nat) /\ Len(began') = n
      /\ \A i \in Lines : began'[i] = began[i]
  BY DEF AppendLine, LogInv, LogTypes, Lines
<1>3. Lines' = Lines \cup {n} /\ Lines = 1..Len(began) /\ n \notin Lines BY <1>1, <1>2 DEF Lines
<1>4. Tidy(log, Len(began)) BY DEF LogInv
<1>5. /\ log' \in Seq(Cell) /\ Tidy(log', n)
      /\ \A i \in DOMAIN log : i \in DOMAIN log' /\ log'[i] = log[i]
      /\ \A i \in DOMAIN log' : i \in DOMAIN log \/ log'[i][1] = n
      /\ LinesOf(log') = LinesOf(log) \cup {n}
  <2> DEFINE more == log \o Cells(n)
  <2>1. /\ more \in Seq(Cell) /\ Tidy(more, n)
        /\ \A i \in DOMAIN log : i \in DOMAIN more /\ more[i] = log[i]
        /\ \A i \in DOMAIN more : i \in DOMAIN log \/ more[i][1] = n
        /\ LinesOf(more) = LinesOf(log) \cup {n}
    BY <1>1, <1>4, StaysTidy
  <2>2. more = log' BY <1>1
  <2> HIDE DEF more
  <2> QED BY <2>1, <2>2
<1>6. LogTypes'
  <2>1. reader' \in [known : BOOLEAN, offset : Nat, prefix : Seq(Nat \X (0..2)), pending : {<<>>},
                   rows : [1..MaxLines -> {0, 1}], lastNow : Nat, now : Nat,
                   step : {"idle", "prefix", "answer"}, file : SUBSET Lines']
    <3>1. SUBSET Lines \subseteq SUBSET Lines' BY <1>3
    <3> QED BY <3>1, <1>1 DEF LogInv, LogTypes
  <2> QED BY <2>1, <1>1, <1>2, <1>5 DEF LogInv, LogTypes
<1>7. Tidy(log, Len(began))' BY <1>2, <1>5 DEF Tidy
<1>8. RotationKnown' BY <1>1, <1>3, <1>5 DEF LogInv, RotationKnown
<1>9. LinesKept' BY <1>1, <1>3, <1>5 DEF LogInv, LinesKept
<1>10. BackupsOrdered' BY <1>1 DEF LogInv, BackupsOrdered
<1>11. RowsBehind'
  <2> SUFFICES ASSUME NEW m \in 1..MaxLines, reader.rows[m] > 0
               PROVE  /\ m \in Lines' /\ reader.offset > 0
                      /\ \A i \in DOMAIN log' : i > reader.offset => m < log'[i][1]
    BY <1>1 DEF RowsBehind
  <2>1. m \in Lines /\ reader.offset > 0 /\ \A i \in DOMAIN log : i > reader.offset => m < log[i][1]
    BY DEF LogInv, RowsBehind
  <2>2. m < n BY <2>1, <1>1, <1>3
  <2> QED BY <2>1, <2>2, <1>3, <1>5
<1>12. FileKnown'
  <2>1. Same => Same'
    <3> SUFFICES ASSUME Same PROVE Same' OBVIOUS
    <3>1. reader.offset \in 0..Len(log) /\ Len(log) <= Len(log')
      BY <1>1, <1>5, LineCells DEF Same, LogInv, LogTypes
    <3>2. Prefix(log', reader.offset) = Prefix(log, reader.offset)
      <4>1. CASE reader.offset = 0 BY <4>1, SubSeqEmpty DEF Prefix
      <4>2. CASE reader.offset > 0
        <5>1. 1 \in 1..Len(log) /\ reader.offset \in 1..Len(log) BY <3>1, <4>2
        <5>2. Cells(n) \in Seq(Cell) BY <1>1, LineCells
        <5> QED BY <5>1, <5>2, <1>1, SubSeqOfConcat1 DEF Prefix
      <4> QED BY <4>1, <4>2, <3>1
    <3>3. reader.offset > 0 => reader.offset \in DOMAIN log BY <3>1, <1>1
    <3> QED BY <3>1, <3>2, <3>3, <1>1, <1>5 DEF Same
  <2>2. Gone => Gone'
    <3> SUFFICES ASSUME Gone PROVE Gone' OBVIOUS
    <3>1. \A m \in reader.file : m \in Lines /\ m < n BY <1>1, <1>3 DEF LogInv, LogTypes
    <3> QED BY <3>1, <1>1, <1>5 DEF Gone
  <2> QED BY <2>1, <2>2, <1>1 DEF LogInv, FileKnown
<1>13. RowsExact'
  <2> SUFFICES ASSUME reader.known, ~torn, NEW m \in Lines', InWindow(m, Asked)'
               PROVE  reader.rows[m] > 0 <=> m \in reader.file
    BY <1>1 DEF RowsExact
  <2>1. CASE m = n
    <3>1. n \notin reader.file BY <1>3 DEF LogInv, LogTypes
    <3>2. ~ (reader.rows[n] > 0) BY <1>1, <1>3 DEF LogInv, RowsBehind
    <3> QED BY <3>1, <3>2, <2>1
  <2>2. CASE m \in Lines
    <3>1. InWindow(m, Asked) BY <2>2, <1>1, <1>2 DEF InWindow, Asked
    <3> QED BY <3>1, <2>2 DEF LogInv, RowsExact
  <2> QED BY <2>1, <2>2, <1>3
<1> QED BY <1>6, <1>7, <1>8, <1>9, <1>10, <1>11, <1>12, <1>13 DEF LogInv

(* What the rotation leaves alone. *)
LEMMA RotationFrame ==
    ASSUME LogInv, UNCHANGED <<tick, began, log, reader, torn>>
    PROVE  /\ Lines' = Lines /\ Tidy(log, Len(began))'
           /\ RowsBehind' /\ FileKnown' /\ RowsExact'
           /\ (/\ backup' \in [1..Backups -> Seq(Cell)]
               /\ rotation' \in [step : {"none", "shift", "publish", "truncate"},
                                 copy : Seq(Cell), at : Nat]) => LogTypes'
<1>1. Lines' = Lines BY DEF Lines
<1>2. Tidy(log, Len(began))' BY DEF LogInv, Tidy
<1>3. RowsBehind' BY <1>1 DEF LogInv, RowsBehind
<1>4. FileKnown' BY DEF LogInv, FileKnown, Same, Gone
<1>5. RowsExact' BY <1>1 DEF LogInv, RowsExact, InWindow, Asked
<1> QED BY <1>1, <1>2, <1>3, <1>4, <1>5 DEF LogInv, LogTypes

LEMMA CopyKeeps ==
    ASSUME LogInv, CopyLog PROVE LogInv'
<1>1. /\ UNCHANGED <<tick, began, log, reader, torn, backup, excused>>
      /\ rotation' = [step |-> "shift", copy |-> log, at |-> Backups] /\ Len(log) > MaxCells
  BY DEF CopyLog, rotationFrame
<1>2. Backups \in Nat \ {0} /\ MaxCells \in Nat BY LogFilesAssumption DEF LogFilesAssumption
<1>3. log \in Seq(Cell) /\ Len(began) \in Nat /\ backup \in [1..Backups -> Seq(Cell)]
  BY DEF LogInv, LogTypes
<1>4. Len(log) > 0 /\ log # <<>> /\ Last(log) = <<Len(began), 2>>
  BY <1>1, <1>2, <1>3 DEF LogInv, Tidy, Last
<1>5. LinesOf(log) \subseteq Lines BY DEF LogInv, Tidy, LinesOf, Lines
<1>6. ASSUME NEW i \in 1..Backups, backup[i] # <<>> PROVE Last(backup[i])[1] <= Last(log)[1]
  <2>1. backup[i] \in Seq(Cell) BY <1>3
  <2>2. Len(backup[i]) \in DOMAIN backup[i] BY <2>1, <1>6, EmptySeq
  <2>3. Last(backup[i])[1] \in LinesOf(backup[i]) BY <2>2 DEF LinesOf, Last
  <2>4. Last(backup[i])[1] \in 1..Len(began) BY <2>3 DEF LogInv, RotationKnown, Lines
  <2> QED BY <2>4, <1>3, <1>4
<1>7. LogTypes' BY <1>1, <1>2, <1>3, RotationFrame DEF LogInv, LogTypes
<1>8. RotationKnown'
  BY <1>1, <1>2, <1>4, <1>5, <1>6, RotationFrame DEF LogInv, RotationKnown
<1>9. LinesKept' /\ BackupsOrdered' BY <1>1 DEF LogInv, LinesKept, BackupsOrdered, Lines
<1> QED BY <1>1, <1>7, <1>8, <1>9, RotationFrame DEF LogInv

LEMMA ShiftKeeps ==
    ASSUME LogInv, ShiftBackups PROVE LogInv'
<1>1. /\ UNCHANGED <<tick, began, log, reader, torn>> /\ rotation.step = "shift"
      /\ rotation' = IF rotation.at = 1 THEN [rotation EXCEPT !.step = "publish"]
                                        ELSE [rotation EXCEPT !.at = @ - 1]
  BY DEF ShiftBackups, rotationFrame
<1> DEFINE at == rotation.at
<1>2. /\ Backups \in Nat \ {0} /\ at \in 1..Backups /\ backup \in [1..Backups -> Seq(Cell)]
      /\ rotation \in [step : {"none", "shift", "publish", "truncate"}, copy : Seq(Cell), at : Nat]
  BY <1>1, LogFilesAssumption DEF LogFilesAssumption, LogInv, LogTypes, RotationKnown
<1>3. /\ rotation' \in [step : {"none", "shift", "publish", "truncate"}, copy : Seq(Cell), at : Nat]
      /\ rotation'.copy = rotation.copy /\ rotation'.step \in {"shift", "publish"}
      /\ rotation'.step = "publish" => at = 1
      /\ rotation'.step = "shift" => at > 1 /\ rotation'.at = at - 1
  BY <1>1, <1>2
<1>4. CASE at = Backups
  <2>1. /\ excused' = excused \cup LinesOf(backup[Backups])
        /\ backup' = [backup EXCEPT ![Backups] = <<>>]
    BY <1>1, <1>4 DEF ShiftBackups
  <2>2. /\ backup' \in [1..Backups -> Seq(Cell)] /\ backup'[Backups] = <<>>
        /\ \A i \in 1..Backups : i # Backups => backup'[i] = backup[i]
    BY <2>1, <1>2
  <2>3. LinesOf(<<>>) = {} BY DEF LinesOf
  <2>4. LogTypes' BY <1>1, <1>3, <2>2, RotationFrame
  <2>5. RotationKnown'
    <3>1. \A i \in 1..Backups : LinesOf(backup'[i]) \subseteq Lines
      BY <2>2, <2>3 DEF LogInv, RotationKnown
    <3>2. \A i \in 1..Backups : backup'[i] # <<>> => backup'[i] = backup[i] BY <2>2
    <3>3. rotation'.step = "shift" => /\ rotation'.at \in 1..Backups
                                      /\ rotation'.at < Backups => backup'[rotation'.at + 1] = <<>>
      <4>1. rotation'.step = "shift" =>
               rotation'.at \in 1..Backups /\ rotation'.at + 1 = Backups
        BY <1>2, <1>3, <1>4
      <4> QED BY <4>1, <2>2
    <3>4. rotation'.step = "publish" => backup'[1] = <<>> BY <1>3, <1>4, <2>2
    <3> QED BY <1>1, <1>3, <2>1, <3>1, <3>2, <3>3, <3>4, RotationFrame DEF LogInv, RotationKnown
  <2>6. LinesKept' BY <1>1, <2>1, <2>2, RotationFrame DEF LogInv, LinesKept
  <2>7. BackupsOrdered' BY <2>2 DEF LogInv, BackupsOrdered
  <2> QED BY <1>1, <2>4, <2>5, <2>6, <2>7, RotationFrame DEF LogInv
<1>5. CASE at # Backups
  <2>1. /\ excused' = excused
        /\ backup' = [backup EXCEPT ![at + 1] = backup[at], ![at] = <<>>]
    BY <1>1, <1>5 DEF ShiftBackups
  <2>2. at + 1 \in 1..Backups /\ at \in 1..Backups /\ at + 1 # at BY <1>2, <1>5
  <2>3. /\ backup' \in [1..Backups -> Seq(Cell)]
        /\ backup'[at + 1] = backup[at] /\ backup'[at] = <<>>
        /\ \A i \in 1..Backups : i # at /\ i # at + 1 => backup'[i] = backup[i]
    BY <2>1, <2>2, <1>2
  <2>4. LinesOf(<<>>) = {} BY DEF LinesOf
  <2>5. backup[at + 1] = <<>> BY <1>1, <1>2, <1>5 DEF LogInv, RotationKnown
  <2>6. LogTypes' BY <1>1, <1>3, <2>3, RotationFrame
  <2>7. RotationKnown'
    <3>1. \A i \in 1..Backups : LinesOf(backup'[i]) \subseteq Lines
      BY <2>2, <2>3, <2>4 DEF LogInv, RotationKnown
    <3>2. \A i \in 1..Backups : backup'[i] # <<>> =>
             \E j \in 1..Backups : backup'[i] = backup[j]
      BY <2>2, <2>3
    <3>3. rotation'.step = "shift" => /\ rotation'.at \in 1..Backups
                                      /\ rotation'.at < Backups => backup'[rotation'.at + 1] = <<>>
      <4>1. rotation'.step = "shift" => rotation'.at \in 1..Backups /\ rotation'.at + 1 = at
        BY <1>2, <1>3
      <4> QED BY <4>1, <2>3
    <3>4. rotation'.step = "publish" => backup'[1] = <<>> BY <1>3, <2>3
    <3>5. \A i \in 1..Backups : backup'[i] # <<>> =>
             Last(backup'[i])[1] <= Last(rotation.copy)[1]
      BY <3>2, <1>1 DEF LogInv, RotationKnown
    <3> QED BY <1>1, <1>3, <2>1, <3>1, <3>3, <3>4, <3>5, RotationFrame DEF LogInv, RotationKnown
  <2>8. LinesKept'
    <3>1. \A i \in 1..Backups : \E j \in 1..Backups : LinesOf(backup[i]) \subseteq LinesOf(backup'[j])
      <4> SUFFICES ASSUME NEW i \in 1..Backups
                   PROVE  \E j \in 1..Backups : LinesOf(backup[i]) \subseteq LinesOf(backup'[j])
        OBVIOUS
      <4>1. CASE i = at BY <4>1, <2>2, <2>3
      <4>2. CASE i = at + 1 BY <4>2, <2>2, <2>4, <2>5
      <4>3. CASE i # at /\ i # at + 1 BY <4>3, <2>3
      <4> QED BY <4>1, <4>2, <4>3
    <3>2. \A m \in Lines : m \in LinesOf(log) \cup excused
                               \cup UNION {LinesOf(backup[i]) : i \in 1..Backups}
      BY DEF LogInv, LinesKept
    <3>3. UNION {LinesOf(backup[i]) : i \in 1..Backups}
             \subseteq UNION {LinesOf(backup'[i]) : i \in 1..Backups}
      BY <3>1
    <3> QED BY <3>2, <3>3, <1>1, <2>1, RotationFrame DEF LinesKept
  <2>9. BackupsOrdered'
    <3> SUFFICES ASSUME NEW i \in 1..Backups, NEW j \in 1..Backups, i < j,
                        backup'[i] # <<>>, backup'[j] # <<>>
                 PROVE  Last(backup'[j])[1] <= Last(backup'[i])[1]
      BY DEF BackupsOrdered
    <3> DEFINE from(k) == IF k = at + 1 THEN at ELSE k
    <3>1. i # at /\ j # at BY <2>3
    <3>2. \A k \in {i, j} : from(k) \in 1..Backups /\ backup'[k] = backup[from(k)]
      BY <2>2, <2>3, <3>1
    <3>3. from(i) < from(j) BY <1>2, <3>1
    <3> QED BY <3>2, <3>3 DEF LogInv, BackupsOrdered
  <2> QED BY <1>1, <2>6, <2>7, <2>8, <2>9, RotationFrame DEF LogInv
<1> QED BY <1>4, <1>5

LEMMA PublishKeeps ==
    ASSUME LogInv, PublishBackup PROVE LogInv'
<1>1. /\ UNCHANGED <<tick, began, log, reader, torn, excused>> /\ rotation.step = "publish"
      /\ backup' = [backup EXCEPT ![1] = rotation.copy]
      /\ rotation' = [rotation EXCEPT !.step = "truncate"]
  BY DEF PublishBackup, rotationFrame
<1>2. /\ Backups \in Nat \ {0} /\ 1 \in 1..Backups /\ backup \in [1..Backups -> Seq(Cell)]
      /\ rotation \in [step : {"none", "shift", "publish", "truncate"}, copy : Seq(Cell), at : Nat]
  BY <1>1, LogFilesAssumption DEF LogFilesAssumption, LogInv, LogTypes
<1>3. /\ rotation' \in [step : {"none", "shift", "publish", "truncate"}, copy : Seq(Cell), at : Nat]
      /\ rotation'.copy = rotation.copy /\ rotation'.step = "truncate"
  BY <1>1, <1>2
<1>4. /\ backup' \in [1..Backups -> Seq(Cell)] /\ backup'[1] = rotation.copy
      /\ \A i \in 1..Backups : i # 1 => backup'[i] = backup[i]
  BY <1>1, <1>2
<1>5. backup[1] = <<>> /\ LinesOf(<<>>) = {} BY <1>1 DEF LogInv, RotationKnown, LinesOf
<1>6. /\ \A i \in 1..Backups : backup[i] # <<>> => Last(backup[i])[1] <= Last(rotation.copy)[1]
      /\ \A i \in 1..Backups : LinesOf(backup[i]) \subseteq Lines
      /\ rotation.copy # <<>> /\ LinesOf(rotation.copy) \subseteq Lines
      /\ LinesOf(log) \subseteq LinesOf(rotation.copy) \cup excused
  BY <1>1 DEF LogInv, RotationKnown
<1>7. Last(rotation.copy)[1] <= Last(rotation.copy)[1]
  <2>1. rotation.copy \in Seq(Cell) BY <1>2
  <2>2. Last(rotation.copy) \in Cell BY <2>1, <1>6, EmptySeq DEF Last
  <2> QED BY <2>2 DEF Cell
<1>8. LogTypes' BY <1>1, <1>3, <1>4, RotationFrame
<1>9. RotationKnown'
  <2>1. \A i \in 1..Backups : backup'[i] # <<>> => Last(backup'[i])[1] <= Last(rotation.copy)[1]
    BY <1>4, <1>6, <1>7
  <2>2. \A i \in 1..Backups : LinesOf(backup'[i]) \subseteq Lines BY <1>4, <1>6
  <2> QED BY <1>1, <1>3, <1>4, <1>6, <2>1, <2>2, RotationFrame DEF RotationKnown
<1>10. LinesKept'
  <2>1. \A i \in 1..Backups : LinesOf(backup[i]) \subseteq LinesOf(backup'[i]) BY <1>4, <1>5
  <2> QED BY <2>1, <1>1, RotationFrame DEF LogInv, LinesKept
<1>11. BackupsOrdered'
  <2> SUFFICES ASSUME NEW i \in 1..Backups, NEW j \in 1..Backups, i < j,
                      backup'[i] # <<>>, backup'[j] # <<>>
               PROVE  Last(backup'[j])[1] <= Last(backup'[i])[1]
    BY DEF BackupsOrdered
  <2>1. j # 1 /\ backup'[j] = backup[j] BY <1>4
  <2>2. CASE i = 1 BY <2>1, <2>2, <1>4, <1>6
  <2>3. CASE i # 1 BY <2>1, <2>3, <1>4 DEF LogInv, BackupsOrdered
  <2> QED BY <2>2, <2>3
<1> QED BY <1>1, <1>8, <1>9, <1>10, <1>11, RotationFrame DEF LogInv

LEMMA FailureKeeps ==
    ASSUME LogInv, RotationFails PROVE LogInv'
<1>1. /\ UNCHANGED <<tick, began, log, reader, torn, backup, excused>> /\ rotation' = NoRotation
  BY DEF RotationFails, rotationFrame
<1>2. rotation' \in [step : {"none", "shift", "publish", "truncate"}, copy : Seq(Cell), at : Nat]
      /\ rotation'.step = "none"
  BY <1>1 DEF NoRotation
<1>3. LogTypes' BY <1>1, <1>2, RotationFrame DEF LogInv, LogTypes
<1>4. RotationKnown' BY <1>1, <1>2, RotationFrame DEF LogInv, RotationKnown
<1>5. LinesKept' /\ BackupsOrdered' BY <1>1 DEF LogInv, LinesKept, BackupsOrdered, Lines
<1> QED BY <1>1, <1>3, <1>4, <1>5, RotationFrame DEF LogInv

LEMMA TruncateKeeps ==
    ASSUME LogInv, TruncateLog PROVE LogInv'
<1>1. /\ UNCHANGED <<tick, began, reader, backup, excused>> /\ rotation.step = "truncate"
      /\ log' = <<>> /\ rotation' = NoRotation /\ torn' = (torn \/ reader.step = "prefix")
  BY DEF TruncateLog, rotationFrame
<1>2. /\ rotation' \in [step : {"none", "shift", "publish", "truncate"}, copy : Seq(Cell), at : Nat]
      /\ rotation'.step = "none"
  BY <1>1 DEF NoRotation
<1>3. Lines' = Lines /\ log' \in Seq(Cell) /\ DOMAIN log' = {} /\ Len(log') = 0
      /\ LinesOf(log') = {}
  BY <1>1 DEF Lines, LinesOf
<1>4. LogTypes' BY <1>1, <1>2, <1>3 DEF LogInv, LogTypes
<1>5. Tidy(log, Len(began))' BY <1>3 DEF Tidy
<1>6. RotationKnown' BY <1>1, <1>2, <1>3 DEF LogInv, RotationKnown
<1>7. LinesKept'
  <2>1. LinesOf(log) \subseteq LinesOf(backup[1]) \cup excused BY <1>1 DEF LogInv, RotationKnown
  <2>2. 1 \in 1..Backups BY LogFilesAssumption DEF LogFilesAssumption
  <2> QED BY <1>1, <1>3, <2>1, <2>2 DEF LogInv, LinesKept
<1>8. BackupsOrdered' BY <1>1 DEF LogInv, BackupsOrdered
<1>9. RowsBehind' BY <1>1, <1>3 DEF LogInv, RowsBehind
<1>10. FileKnown'
  <2>1. ~reader.known => reader.offset = 0 /\ reader.step = "idle" BY DEF LogInv, FileKnown
  <2> SUFFICES ASSUME reader.known, ~torn, reader.step # "prefix"
               PROVE  /\ (Same \/ Gone)'
                      /\ reader.offset > 0 =>
                            Len(reader.prefix) > 0 /\ reader.prefix[1][1] \in reader.file
    BY <1>1, <2>1 DEF FileKnown
  <2>2. CASE reader.offset = 0
    <3>1. reader.file = LinesOf(Prefix(log, 0)) BY <2>2 DEF LogInv, FileKnown, Same, Gone
    <3>2. Prefix(log, 0) = <<>> /\ Prefix(log', 0) = <<>> BY SubSeqEmpty DEF Prefix
    <3> QED BY <3>1, <3>2, <2>2, <1>1, <1>3 DEF Same
  <2>3. CASE reader.offset # 0
    <3>1. reader.offset > 0 BY <2>3 DEF LogInv, LogTypes
    <3>2. Gone' BY <3>1, <1>1, <1>3 DEF Gone
    <3> QED BY <3>1, <3>2 DEF LogInv, FileKnown
  <2> QED BY <2>2, <2>3
<1>11. RowsExact' BY <1>1, <1>3 DEF LogInv, RowsExact, InWindow, Asked
<1> QED BY <1>4, <1>5, <1>6, <1>7, <1>8, <1>9, <1>10, <1>11 DEF LogInv

LEMMA ReadKeeps ==
    ASSUME LogInv, ReadAppends PROVE LogInv'
<1> DEFINE r == IF tick < reader.lastNow THEN Reset(reader) ELSE reader
           q == IF Changed(r) THEN [Reset(r) EXCEPT !.known = TRUE] ELSE r
           got == Consume(q.pending, SubSeq(log, q.offset + 1, Len(log)))
           ahead(n) == \E i \in DOMAIN log : i > q.offset /\ log[i][1] = n
           Readers == [known : BOOLEAN, offset : Nat, prefix : Seq(Nat \X (0..2)), pending : {<<>>},
                       rows : [1..MaxLines -> {0, 1}], lastNow : Nat, now : Nat,
                       step : {"idle", "prefix", "answer"}, file : SUBSET Lines]
<1>1. /\ UNCHANGED <<tick, began, log, backup, rotation, excused>> /\ reader.step = "idle"
      /\ reader' = [q EXCEPT !.offset = Len(log), !.step = "prefix", !.now = tick,
                             !.rows = [n \in DOMAIN @ |-> @[n] + got.rows[n]],
                             !.pending = got.pending, !.file = LinesOf(log)]
      /\ torn' = (torn /\ q.offset # 0)
  BY DEF ReadAppends, readerFrame
<1>2. /\ reader \in Readers /\ tick \in Nat /\ log \in Seq(Cell) /\ Len(log) \in Nat
      /\ Len(began) \in 0..MaxLines /\ Lines = 1..Len(began) /\ Tidy(log, Len(began))
      /\ MaxLines \in Nat /\ Lines \subseteq 1..MaxLines
  <2>1. MaxLines \in Nat BY LogFilesAssumption DEF LogFilesAssumption
  <2>2. reader \in Readers /\ tick \in Nat /\ log \in Seq(Cell) /\ Len(log) \in Nat
    BY DEF LogInv, LogTypes
  <2>3. Len(began) \in Nat /\ Len(began) <= MaxLines BY DEF LogInv, LogTypes
  <2> QED BY <2>1, <2>2, <2>3 DEF LogInv, Lines
<1>3. Reset(reader) \in Readers /\ Reset(reader).known = FALSE /\ Reset(reader).offset = 0
      /\ \A n \in 1..MaxLines : Reset(reader).rows[n] = 0
  BY <1>2, NoReader DEF Reset, Fresh
<1>4. /\ q \in Readers /\ q.known
      /\ \/ q.offset = 0 /\ \A n \in 1..MaxLines : q.rows[n] = 0
         \/ q = reader /\ ~(tick < reader.lastNow) /\ ~Changed(reader) /\ reader.known
  <2>1. CASE tick < reader.lastNow
    <3>1. r = Reset(reader) BY <2>1
    <3>2. Changed(r) BY <3>1, <1>3 DEF Changed
    <3>3. q = [Reset(Reset(reader)) EXCEPT !.known = TRUE] BY <3>1, <3>2
    <3>4. Reset(Reset(reader)) \in Readers /\ Reset(Reset(reader)).offset = 0
          /\ \A n \in 1..MaxLines : Reset(Reset(reader)).rows[n] = 0
      BY <1>2, NoReader DEF Reset, Fresh
    <3> QED BY <3>3, <3>4
  <2>2. CASE ~(tick < reader.lastNow) /\ Changed(reader)
    <3>1. q = [Reset(reader) EXCEPT !.known = TRUE] BY <2>2
    <3> QED BY <3>1, <1>3
  <2>3. CASE ~(tick < reader.lastNow) /\ ~Changed(reader)
    <3>1. q = reader BY <2>3
    <3>2. reader.known BY <2>3 DEF Changed
    <3> QED BY <3>1, <3>2, <1>2, <2>3
  <2> QED BY <2>1, <2>2, <2>3
<1> HIDE DEF q, r
<1>5. q.offset \in 0..Len(log)
  <2>1. ~Changed(reader) => ~(Len(log) < reader.offset) BY DEF Changed
  <2>2. q.offset \in Nat BY <1>4
  <2> QED BY <1>2, <1>4, <2>1, <2>2
<1>6. /\ got.pending = <<>> /\ got.rows \in [1..MaxLines -> {0, 1}]
      /\ \A n \in 1..MaxLines : got.rows[n] > 0 => ahead(n)
      /\ (q.offset > 0 => Ends(log[q.offset])) =>
            \A n \in 1..MaxLines : ahead(n) => got.rows[n] > 0
  <2>1. q.pending = <<>> BY <1>4
  <2>2. got = Consume(<<>>, SubSeq(log, q.offset + 1, Len(log))) BY <2>1
  <2> DEFINE read == Consume(<<>>, SubSeq(log, q.offset + 1, Len(log)))
  <2>3. /\ read.pending = <<>> /\ read.rows \in [1..MaxLines -> {0, 1}]
        /\ \A n \in 1..MaxLines : read.rows[n] > 0 => ahead(n)
        /\ (q.offset > 0 => Ends(log[q.offset])) =>
              \A n \in 1..MaxLines : ahead(n) => read.rows[n] > 0
    BY <1>2, <1>5, Consumed
  <2>4. got = read BY <2>2
  <2> HIDE DEF got, read
  <2> QED BY <2>3, <2>4
<1> HIDE DEF got
<1>7. ASSUME NEW n \in 1..MaxLines, q.rows[n] > 0
      PROVE  n \in Lines /\ q.offset > 0 /\ ~ahead(n)
  <2>1. q = reader BY <1>4, <1>7
  <2>2. n \in Lines /\ reader.offset > 0 /\ \A i \in DOMAIN log : i > reader.offset => n < log[i][1]
    BY <1>7, <2>1 DEF LogInv, RowsBehind
  <2> QED BY <2>1, <2>2
<1>8. ASSUME NEW n \in 1..MaxLines
      PROVE  /\ q.rows[n] + got.rows[n] \in {0, 1}
             /\ q.rows[n] + got.rows[n] > 0 <=> q.rows[n] > 0 \/ got.rows[n] > 0
  <2>1. q.rows[n] \in {0, 1} /\ got.rows[n] \in {0, 1} BY <1>4, <1>6
  <2>2. ~(q.rows[n] > 0 /\ got.rows[n] > 0) BY <1>6, <1>7
  <2> QED BY <2>1, <2>2
<1> DEFINE sum == [n \in 1..MaxLines |-> q.rows[n] + got.rows[n]]
<1>9. LinesOf(log) \subseteq Lines BY <1>2 DEF Tidy, LinesOf
<1>10. /\ reader' \in Readers /\ reader'.offset = Len(log) /\ reader'.rows = sum
       /\ reader'.step = "prefix" /\ reader'.now = tick /\ reader'.known = q.known
       /\ reader'.file = LinesOf(log)
  <2>1. DOMAIN q.rows = 1..MaxLines BY <1>4
  <2>2. sum \in [1..MaxLines -> {0, 1}] BY <1>8
  <2>3. reader' = [q EXCEPT !.offset = Len(log), !.step = "prefix", !.now = tick, !.rows = sum,
                            !.pending = got.pending, !.file = LinesOf(log)]
    BY <1>1, <2>1
  <2> HIDE DEF sum
  <2> QED BY <2>2, <2>3, <1>2, <1>4, <1>6, <1>9
<1>11. Lines' = Lines BY <1>1 DEF Lines
<1>12. torn' \in BOOLEAN BY <1>1
<1>13. LogTypes' BY <1>1, <1>10, <1>11, <1>12 DEF LogInv, LogTypes
<1>14. Tidy(log, Len(began))' BY <1>1, <1>2 DEF Tidy
<1>15. RotationKnown' BY <1>1, <1>11 DEF LogInv, RotationKnown
<1>16. LinesKept' /\ BackupsOrdered' BY <1>1, <1>11 DEF LogInv, LinesKept, BackupsOrdered
<1>17. RowsBehind'
  <2> SUFFICES ASSUME NEW n \in 1..MaxLines, sum[n] > 0
               PROVE  n \in Lines /\ Len(log) > 0 /\ \A i \in DOMAIN log : ~(i > Len(log))
    BY <1>1, <1>10, <1>11 DEF RowsBehind
  <2>1. \A i \in DOMAIN log : i \in Nat /\ ~(i > Len(log)) /\ Len(log) > 0 BY <1>2
  <2>2. CASE q.rows[n] > 0 BY <2>1, <2>2, <1>2, <1>5, <1>7
  <2>3. CASE got.rows[n] > 0
    <3>1. PICK i \in DOMAIN log : log[i][1] = n BY <2>3, <1>6
    <3>2. n \in LinesOf(log) BY <3>1 DEF LinesOf
    <3> QED BY <3>1, <3>2, <2>1, <1>9
  <2> QED BY <2>2, <2>3, <1>8
<1>18. FileKnown'
  <2>1. q.known BY <1>4
  <2>2. Same'
    <3>1. Prefix(log, Len(log)) = log BY <1>2, SubSeqFull DEF Prefix
    <3>2. Len(log) > 0 => Ends(log[Len(log)]) BY <1>2 DEF Tidy, Ends
    <3>3. log' = log /\ reader'.offset = Len(log) /\ reader'.file = LinesOf(log) BY <1>1, <1>10
    <3>4. Prefix(log, Len(log))' = Prefix(log, Len(log)) BY <3>3 DEF Prefix
    <3>5. Prefix(log, reader.offset)' = log BY <3>1, <3>3, <3>4 DEF Prefix
    <3> QED BY <3>2, <3>3, <3>5, <1>2 DEF Same, Ends, LinesOf
  <2> QED BY <2>1, <2>2, <1>10 DEF FileKnown
<1>19. RowsExact'
  <2> SUFFICES ASSUME ~torn', NEW n \in Lines, InWindow(n, tick)
               PROVE  sum[n] > 0 <=> n \in LinesOf(log)
    BY <1>1, <1>10, <1>11 DEF RowsExact, Asked, InWindow
  <2>1. n \in 1..MaxLines BY <1>2
  <2>2. n \in LinesOf(log) <=> \E i \in DOMAIN log : log[i][1] = n BY DEF LinesOf
  <2>3. sum[n] > 0 <=> q.rows[n] > 0 \/ got.rows[n] > 0 BY <1>8, <2>1
  <2>4. CASE q.offset = 0
    <3>1. ~(q.rows[n] > 0) BY <2>1, <2>4, <1>7
    <3>2. ahead(n) <=> n \in LinesOf(log) BY <2>2, <2>4, <1>2
    <3> QED BY <3>1, <3>2, <2>1, <2>3, <2>4, <1>6
  <2>5. CASE q.offset # 0
    <3>1. ~torn /\ q = reader /\ reader.known /\ ~(tick < reader.lastNow) /\ ~Changed(reader)
      BY <2>5, <1>1, <1>4
    <3>2. reader.offset > 0 /\ reader.offset \in 1..Len(log) BY <3>1, <2>5, <1>5
    <3>3. Same /\ reader.offset > 0
      <4> SUFFICES ASSUME Gone PROVE FALSE BY <3>1, <3>2 DEF LogInv, FileKnown
      <4>1. Len(reader.prefix) > 0 /\ reader.prefix[1][1] \in reader.file
        BY <3>1, <3>2, <1>1 DEF LogInv, FileKnown
      <4>2. Prefix(log, Smaller(Len(reader.prefix), reader.offset))
               = Prefix(reader.prefix, Smaller(Len(reader.prefix), reader.offset))
        BY <3>1, <3>2, <4>1, <1>2 DEF Changed, Smaller
      <4> DEFINE m == Smaller(Len(reader.prefix), reader.offset)
      <4>3. m \in 1..Len(log) /\ m \in 1..Len(reader.prefix) BY <3>2, <4>1, <1>2 DEF Smaller
      <4> HIDE DEF m
      <4>4. Prefix(log, m)[1] = log[1] /\ Prefix(reader.prefix, m)[1] = reader.prefix[1]
        BY <4>3, <1>2 DEF Prefix
      <4>5. log[1] = reader.prefix[1] BY <4>2, <4>4 DEF m
      <4>6. 1 \in DOMAIN log BY <3>2, <1>2
      <4>7. log[1][1] < log[1][1] BY <4>1, <4>5, <4>6 DEF Gone
      <4>8. log[1][1] \in Nat BY <4>6, <1>2, CellParts
      <4> QED BY <4>7, <4>8
    <3>4. Ends(log[q.offset]) /\ reader.file = LinesOf(Prefix(log, q.offset)) BY <3>1, <3>3 DEF Same
    <3>5. InWindow(n, reader.lastNow)
      <4>1. began[n] \in Nat /\ Hour \in Nat /\ reader.lastNow \in Nat
        <5>1. Hour \in Nat BY LogFilesAssumption DEF LogFilesAssumption
        <5>2. began \in Seq(Nat) BY DEF LogInv, LogTypes
        <5> QED BY <5>1, <5>2, <1>2 DEF Lines
      <4> QED BY <4>1, <3>1, <1>2 DEF InWindow
    <3>6. reader.rows[n] > 0 <=> n \in reader.file
      BY <3>1, <3>5, <1>1 DEF LogInv, RowsExact, Asked
    <3>7. n \in reader.file <=> \E i \in DOMAIN log : i <= q.offset /\ log[i][1] = n
      <4>1. /\ DOMAIN Prefix(log, q.offset) = 1..q.offset
            /\ \A i \in 1..q.offset : i \in DOMAIN log /\ Prefix(log, q.offset)[i] = log[i]
        BY <3>1, <3>2, <1>2 DEF Prefix
      <4>2. \A i \in DOMAIN log : i <= q.offset => i \in 1..q.offset BY <3>1, <3>2, <1>2
      <4>3. \A i \in 1..q.offset : i <= q.offset OBVIOUS
      <4> QED BY <3>4, <4>1, <4>2, <4>3 DEF LinesOf
    <3>8. got.rows[n] > 0 <=> ahead(n) BY <3>4, <2>1, <1>6
    <3>9. \A i \in DOMAIN log : i <= q.offset \/ i > q.offset BY <3>1, <3>2, <1>2
    <3> QED BY <3>1, <3>6, <3>7, <3>8, <3>9, <2>2, <2>3
  <2> QED BY <2>4, <2>5
<1> QED BY <1>13, <1>14, <1>15, <1>16, <1>17, <1>18, <1>19 DEF LogInv

LEMMA PrefixKeeps ==
    ASSUME LogInv, ReadPrefix PROVE LogInv'
<1> DEFINE top == [i \in 1..Smaller(reader.offset, PrefixCells) |->
                      IF i <= Len(log) THEN log[i] ELSE <<0, 0>>]
<1>1. /\ UNCHANGED <<tick, began, log, backup, rotation, excused, torn>> /\ reader.step = "prefix"
      /\ reader' = [reader EXCEPT !.step = "answer", !.prefix = top]
  BY DEF ReadPrefix, readerFrame
<1>2. /\ reader.offset \in Nat /\ reader.known /\ log \in Seq(Cell) /\ PrefixCells \in Nat \ {0}
  BY <1>1, LogFilesAssumption DEF LogFilesAssumption, LogInv, LogTypes, FileKnown
<1>3. /\ Smaller(reader.offset, PrefixCells) \in Nat
      /\ reader.offset > 0 => Smaller(reader.offset, PrefixCells) > 0
  BY <1>2 DEF Smaller
<1>4. top \in Seq(Nat \X (0..2)) /\ Len(top) = Smaller(reader.offset, PrefixCells)
      /\ \A i \in 1..Len(top) : top[i] = IF i <= Len(log) THEN log[i] ELSE <<0, 0>>
  <2>1. \A i \in 1..Smaller(reader.offset, PrefixCells) :
           (IF i <= Len(log) THEN log[i] ELSE <<0, 0>>) \in Nat \X (0..2)
    <3> SUFFICES ASSUME NEW i \in 1..Smaller(reader.offset, PrefixCells)
                 PROVE  (IF i <= Len(log) THEN log[i] ELSE <<0, 0>>) \in Nat \X (0..2)
      OBVIOUS
    <3>1. CASE i <= Len(log)
      <4>1. log[i] \in Cell BY <3>1, <1>2, <1>3
      <4> QED BY <3>1, <4>1 DEF Cell
    <3>2. CASE ~(i <= Len(log)) BY <3>2
    <3> QED BY <3>1, <3>2
  <2> QED BY <2>1, <1>3
<1> HIDE DEF top
<1>5. /\ reader' \in [known : BOOLEAN, offset : Nat, prefix : Seq(Nat \X (0..2)), pending : {<<>>},
                      rows : [1..MaxLines -> {0, 1}], lastNow : Nat, now : Nat,
                      step : {"idle", "prefix", "answer"}, file : SUBSET Lines]
      /\ reader'.known = reader.known /\ reader'.offset = reader.offset
      /\ reader'.rows = reader.rows /\ reader'.file = reader.file /\ reader'.now = reader.now
      /\ reader'.step = "answer" /\ reader'.prefix = top
  BY <1>1, <1>4 DEF LogInv, LogTypes
<1>6. Lines' = Lines BY <1>1 DEF Lines
<1>7. LogTypes' BY <1>1, <1>5, <1>6 DEF LogInv, LogTypes
<1>8. Tidy(log, Len(began))' BY <1>1 DEF LogInv, Tidy
<1>9. RotationKnown' BY <1>1, <1>6 DEF LogInv, RotationKnown
<1>10. LinesKept' /\ BackupsOrdered' BY <1>1, <1>6 DEF LogInv, LinesKept, BackupsOrdered
<1>11. RowsBehind' BY <1>1, <1>5, <1>6 DEF LogInv, RowsBehind
<1>12. FileKnown'
  <2>1. CASE torn BY <2>1, <1>1, <1>2, <1>5 DEF FileKnown
  <2>2. CASE ~torn
    <3>1. Same BY <2>2, <1>1, <1>2 DEF LogInv, FileKnown, Gone
    <3>2. Same'
      <4>1. Prefix(log, reader.offset)' = Prefix(log, reader.offset) BY <1>1, <1>5 DEF Prefix
      <4> QED BY <3>1, <4>1, <1>1, <1>5 DEF Same, LinesOf
    <3>3. ASSUME reader.offset > 0 PROVE Len(top) > 0 /\ top[1][1] \in reader.file
      <4>1. 1 \in 1..Len(top) /\ 1 <= Len(log) /\ 1 <= reader.offset
        BY <3>1, <3>3, <1>2, <1>3, <1>4 DEF Same
      <4>2. top[1] = log[1] BY <4>1, <1>4
      <4>3. 1 \in DOMAIN Prefix(log, reader.offset) /\ Prefix(log, reader.offset)[1] = log[1]
        BY <4>1, <3>1, <1>2 DEF Prefix, Same
      <4>4. log[1][1] \in LinesOf(Prefix(log, reader.offset)) BY <4>3 DEF LinesOf
      <4> QED BY <4>1, <4>2, <4>4, <3>1 DEF Same
    <3> QED BY <3>2, <3>3, <1>2, <1>5 DEF FileKnown
  <2> QED BY <2>1, <2>2
<1>13. RowsExact' BY <1>1, <1>5, <1>6 DEF LogInv, RowsExact, InWindow, Asked
<1> QED BY <1>7, <1>8, <1>9, <1>10, <1>11, <1>12, <1>13 DEF LogInv

LEMMA RecentKeeps ==
    ASSUME LogInv, Recent PROVE LogInv'
<1> DEFINE kept == [n \in 1..MaxLines |->
                       IF n \in Lines /\ InWindow(n, reader.now) THEN reader.rows[n] ELSE 0]
<1>1. /\ UNCHANGED <<tick, began, log, backup, rotation, excused, torn>> /\ reader.step = "answer"
      /\ reader' = [reader EXCEPT !.rows = [n \in DOMAIN @ |->
                                     IF n \in Lines /\ InWindow(n, reader.now) THEN @[n] ELSE 0],
                                  !.lastNow = reader.now, !.step = "idle"]
  BY DEF Recent, readerFrame
<1>2. DOMAIN reader.rows = 1..MaxLines /\ reader.rows \in [1..MaxLines -> {0, 1}]
      /\ reader.now \in Nat
  BY DEF LogInv, LogTypes
<1>3. kept \in [1..MaxLines -> {0, 1}] BY <1>2
<1>4. reader' = [reader EXCEPT !.rows = kept, !.lastNow = reader.now, !.step = "idle"]
  BY <1>1, <1>2
<1>5. \A n \in 1..MaxLines :
         kept[n] = IF n \in Lines /\ InWindow(n, reader.now) THEN reader.rows[n] ELSE 0
  OBVIOUS
<1> HIDE DEF kept
<1>6. /\ reader' \in [known : BOOLEAN, offset : Nat, prefix : Seq(Nat \X (0..2)), pending : {<<>>},
                      rows : [1..MaxLines -> {0, 1}], lastNow : Nat, now : Nat,
                      step : {"idle", "prefix", "answer"}, file : SUBSET Lines]
      /\ reader'.known = reader.known /\ reader'.offset = reader.offset
      /\ reader'.prefix = reader.prefix /\ reader'.file = reader.file
      /\ reader'.step = "idle" /\ reader'.lastNow = reader.now /\ reader'.rows = kept
  BY <1>2, <1>3, <1>4 DEF LogInv, LogTypes
<1>7. Lines' = Lines BY <1>1 DEF Lines
<1>8. LogTypes' BY <1>1, <1>6, <1>7 DEF LogInv, LogTypes
<1>9. Tidy(log, Len(began))' BY <1>1 DEF LogInv, Tidy
<1>10. RotationKnown' BY <1>1, <1>7 DEF LogInv, RotationKnown
<1>11. LinesKept' /\ BackupsOrdered' BY <1>1, <1>7 DEF LogInv, LinesKept, BackupsOrdered
<1>12. \A n \in 1..MaxLines : kept[n] > 0 => reader.rows[n] > 0 BY <1>5
<1>13. RowsBehind' BY <1>1, <1>6, <1>7, <1>12 DEF LogInv, RowsBehind
<1>14. FileKnown'
  <2>1. LinesOf(Prefix(log, reader.offset))' = LinesOf(Prefix(log, reader.offset))
    BY <1>1, <1>6 DEF Prefix, LinesOf
  <2>2. Same => Same' BY <2>1, <1>1, <1>6 DEF Same, Ends
  <2>3. Gone => Gone' BY <1>1, <1>6 DEF Gone
  <2> QED BY <2>2, <2>3, <1>1, <1>6 DEF LogInv, FileKnown
<1>15. RowsExact'
  <2> SUFFICES ASSUME reader.known, ~torn, NEW n \in Lines, InWindow(n, reader.now)
               PROVE  kept[n] > 0 <=> n \in reader.file
    BY <1>1, <1>6, <1>7 DEF RowsExact, Asked, InWindow
  <2>1. n \in 1..MaxLines
    <3>1. MaxLines \in Nat BY LogFilesAssumption DEF LogFilesAssumption
    <3> QED BY <3>1 DEF LogInv, LogTypes, Lines
  <2>2. kept[n] = reader.rows[n] BY <1>5, <2>1
  <2> QED BY <2>2, <1>1 DEF LogInv, RowsExact, Asked
<1> QED BY <1>8, <1>9, <1>10, <1>11, <1>13, <1>14, <1>15 DEF LogInv

LEMMA NewObserverKeeps ==
    ASSUME LogInv, NewObserver PROVE LogInv'
<1>1. UNCHANGED <<tick, began, log, backup, rotation, excused>> /\ reader' = Fresh /\ torn' = FALSE
  BY DEF NewObserver
<1>2. Lines' = Lines BY <1>1 DEF Lines
<1>3. torn' \in BOOLEAN BY <1>1
<1>4. LogTypes' BY <1>1, <1>2, <1>3, NoReader DEF LogInv, LogTypes
<1>5. Tidy(log, Len(began))' BY <1>1 DEF LogInv, Tidy
<1>6. RotationKnown' BY <1>1, <1>2 DEF LogInv, RotationKnown
<1>7. LinesKept' /\ BackupsOrdered' BY <1>1, <1>2 DEF LogInv, LinesKept, BackupsOrdered
<1>8. RowsBehind' BY <1>1 DEF RowsBehind, Fresh
<1>9. FileKnown' /\ RowsExact' BY <1>1 DEF FileKnown, RowsExact, Fresh
<1> QED BY <1>4, <1>5, <1>6, <1>7, <1>8, <1>9 DEF LogInv

LEMMA LogKept == LogInv /\ [LogNext]_logVars => LogInv'
<1> SUFFICES ASSUME LogInv, [LogNext]_logVars PROVE LogInv' OBVIOUS
<1>1. CASE TickPasses \/ ClockBack BY <1>1, ClockKeeps
<1>2. CASE AppendLine BY <1>2, AppendKeeps
<1>3. CASE CopyLog BY <1>3, CopyKeeps
<1>4. CASE ShiftBackups BY <1>4, ShiftKeeps
<1>5. CASE PublishBackup BY <1>5, PublishKeeps
<1>6. CASE TruncateLog BY <1>6, TruncateKeeps
<1>7. CASE RotationFails BY <1>7, FailureKeeps
<1>8. CASE ReadAppends BY <1>8, ReadKeeps
<1>9. CASE ReadPrefix BY <1>9, PrefixKeeps
<1>10. CASE Recent BY <1>10, RecentKeeps
<1>11. CASE NewObserver BY <1>11, NewObserverKeeps
<1>12. CASE UNCHANGED logVars
  <2>1. UNCHANGED <<tick, began, log, backup, rotation, excused, reader, torn>>
    BY <1>12 DEF logVars
  <2>2. LinesKept' /\ BackupsOrdered' BY <2>1 DEF LogInv, LinesKept, BackupsOrdered, Lines
  <2>3. LogTypes' BY <2>1, RotationFrame DEF LogInv, LogTypes
  <2>4. RotationKnown' BY <2>1, RotationFrame DEF LogInv, RotationKnown
  <2> QED BY <2>1, <2>2, <2>3, <2>4, RotationFrame DEF LogInv
<1> QED BY <1>1, <1>2, <1>3, <1>4, <1>5, <1>6, <1>7, <1>8, <1>9, <1>10, <1>11, <1>12 DEF LogNext

(* The inductive invariant: lines follow each other in the log, a rotation *)
(* has kept what its next step overwrites, and what the reader counted is  *)
(* behind its offset or of a file that it will know to be another one      *)
(* (RotateFile, accessLogReader).                                          *)
THEOREM LogInductive == LogSpec => []LogInv
<1> QED BY LogInitially, LogKept, PTL DEF LogSpec

(* A rotation that fails anywhere loses no line but those it is excused,   *)
(* and the reader counts each line of the window once, over truncations,   *)
(* restarts and clocks that go back.                                       *)
THEOREM LogsAlwaysFaithful == LogSpec => []LogsFaithful
<1>1. LogInv => LogsFaithful
  <2> SUFFICES ASSUME LogInv PROVE LogsFaithful OBVIOUS
  <2>1. \A n \in DOMAIN reader.rows : reader.rows[n] <= 1
    <3>1. reader.rows \in [1..MaxLines -> {0, 1}] BY DEF LogInv, LogTypes
    <3> SUFFICES ASSUME NEW n \in DOMAIN reader.rows PROVE reader.rows[n] <= 1 OBVIOUS
    <3>2. reader.rows[n] \in {0, 1} BY <3>1
    <3> QED BY <3>2
  <2>2. ASSUME reader.step # "idle", ~torn
        PROVE  {n \in Lines : reader.rows[n] > 0 /\ InWindow(n, reader.now)}
               = {n \in reader.file : InWindow(n, reader.now)}
    <3>1. reader.known /\ reader.file \subseteq Lines BY <2>2 DEF LogInv, LogTypes, FileKnown
    <3> QED BY <2>2, <3>1 DEF LogInv, RowsExact, Asked
  <2> QED BY <2>1, <2>2 DEF LogInv, LogsFaithful, ActivityExact
<1> QED BY <1>1, LogInductive, PTL
=============================================================================
