---------------------------- MODULE AdminProofs ----------------------------
(***************************************************************************)
(* Proofs about three parts of Admin and Portal that share nothing: the    *)
(* limit of sign-in attempts (LoginLimiter), the settings of a site        *)
(* (Configuration) and the CPA containers with their images and plugins    *)
(* (CpaRuntime).                                                           *)
(***************************************************************************)
EXTENDS LoginLimiter, Configuration, CpaRuntime, TLAPS

-----------------------------------------------------------------------------
(***************************************************************************)
(* Sign-in attempts.  A bucket is full when it is dropped, so that it      *)
(* never differs from the reference; what is charged comes out of the      *)
(* burst and of the minutes since the key was forgotten.                   *)
(***************************************************************************)

Bucket == [tokens : 0..Burst, at : Nat, seen : Nat]

LoginTypes ==
    /\ minute \in Nat
    /\ buckets \in [LimitKey -> Bucket \cup {NoBucket}]
    /\ pending \subseteq Client \X Mailbox
    /\ reference \in [LimitKey -> [tokens : 0..Burst, at : Nat]]
    /\ attempts \in [LimitKey -> Nat]
    /\ since \in [LimitKey -> Nat]

LimitKnown ==
    \A k \in LimitKey :
        /\ buckets[k] # NoBucket => buckets[k].at <= minute /\ buckets[k].seen = buckets[k].at
        /\ since[k] <= reference[k].at /\ reference[k].at <= minute
        /\ attempts[k] + reference[k].tokens <= Burst + reference[k].at - since[k]

LoginInv == LoginTypes /\ LimitKnown /\ BucketsMatchReference

LEMMA BucketFields ==
  ASSUME NEW b \in Bucket PROVE b # NoBucket /\ b.tokens \in 0..Burst /\ b.at \in Nat /\ b.seen \in Nat
BY LoginLimiterAssumption DEF Bucket, NoBucket

(* Refilling keeps a bucket between empty and full.                        *)
LEMMA RefilledBounds ==
  ASSUME NEW t \in 0..Burst, NEW a \in Nat, minute \in Nat, a <= minute
  PROVE  Refilled(t, a) \in 0..Burst /\ Refilled(t, a) >= t
BY LoginLimiterAssumption DEF Refilled

(* clean drops full buckets only.                                          *)
LEMMA CleanUnobservable ==
  ASSUME LoginInv, NEW k \in LimitKey
  PROVE  /\ Clean(buckets)[k] \in {buckets[k], NoBucket}
         /\ TokensAt(Clean(buckets)[k]) = TokensAt(buckets[k])
<1>1. CASE buckets[k] # NoBucket /\ minute - buckets[k].seen > IdleExpiry
  <2>1. Clean(buckets)[k] = NoBucket
    BY <1>1 DEF Clean
  <2>2. buckets[k] \in Bucket /\ buckets[k].seen = buckets[k].at
    BY <1>1 DEF LoginInv, LoginTypes, LimitKnown
  <2>3. buckets[k].tokens + minute - buckets[k].at >= Burst
    BY <1>1, <2>2, BucketFields, LoginLimiterAssumption DEF LoginInv, LoginTypes
  <2>4. TokensAt(buckets[k]) = Burst
    BY <1>1, <2>2, <2>3, BucketFields, LoginLimiterAssumption
    DEF TokensAt, Refilled, LoginInv, LoginTypes
  <2> QED BY <2>1, <2>4 DEF TokensAt
<1>2. CASE ~(buckets[k] # NoBucket /\ minute - buckets[k].seen > IdleExpiry)
  BY <1>2 DEF Clean
<1> QED BY <1>1, <1>2

LEMMA TokensBounds ==
  ASSUME LoginInv, NEW k \in LimitKey
  PROVE  TokensAt(buckets[k]) \in 0..Burst /\ ReferenceTokens(k) = TokensAt(buckets[k])
<1>1. CASE buckets[k] = NoBucket
  BY <1>1, LoginLimiterAssumption DEF TokensAt, LoginInv, BucketsMatchReference
<1>2. CASE buckets[k] # NoBucket
  <2>1. buckets[k] \in Bucket /\ buckets[k].at <= minute
    BY <1>2 DEF LoginInv, LoginTypes, LimitKnown
  <2> QED BY <1>2, <2>1, BucketFields, RefilledBounds
      DEF TokensAt, LoginInv, LoginTypes, BucketsMatchReference
<1> QED BY <1>1, <1>2

LEMMA AttemptKeeps ==
  ASSUME LoginInv, NEW client \in Client, NEW mailbox \in Mailbox, Attempt(client, mailbox)
  PROVE  LoginInv'
<1> DEFINE keys == {client, mailbox}
           entries == Clean(buckets)
           cost == IF \A k \in keys : TokensAt(entries[k]) >= 1 THEN 1 ELSE 0
<1>1. keys \subseteq LimitKey
  BY DEF LimitKey
<1>2. \A k \in LimitKey : /\ entries[k] \in {buckets[k], NoBucket}
                          /\ TokensAt(entries[k]) = TokensAt(buckets[k])
                          /\ TokensAt(buckets[k]) \in 0..Burst
                          /\ ReferenceTokens(k) = TokensAt(buckets[k])
  BY CleanUnobservable, TokensBounds
<1>3. buckets' = [k \in LimitKey |-> IF k \notin keys THEN entries[k]
                    ELSE [tokens |-> TokensAt(entries[k]) - cost, at |-> minute, seen |-> minute]]
  BY DEF Attempt, Charged
<1>4. cost \in {0, 1} /\ (cost = 1 <=> Allowed(keys))
      /\ \A k \in keys : cost = 1 => TokensAt(entries[k]) >= 1
  BY <1>1, <1>2 DEF Allowed
<1>5. minute' = minute /\ since' = since /\ minute \in Nat
  BY DEF Attempt, LoginInv, LoginTypes
<1> HIDE DEF entries, cost
<1>6. \A k \in keys : /\ buckets'[k] \in Bucket /\ buckets'[k] # NoBucket
                      /\ buckets'[k].tokens = TokensAt(buckets[k]) - cost
                      /\ buckets'[k].at = minute /\ buckets'[k].seen = minute
  <2> SUFFICES ASSUME NEW k \in keys
               PROVE  /\ buckets'[k] \in Bucket /\ buckets'[k] # NoBucket
                      /\ buckets'[k].tokens = TokensAt(buckets[k]) - cost
                      /\ buckets'[k].at = minute /\ buckets'[k].seen = minute
    OBVIOUS
  <2>1. buckets'[k] = [tokens |-> TokensAt(buckets[k]) - cost, at |-> minute, seen |-> minute]
    BY <1>1, <1>2, <1>3
  <2>2. TokensAt(buckets[k]) - cost \in 0..Burst
    BY <1>1, <1>2, <1>4, LoginLimiterAssumption
  <2>3. buckets'[k] \in Bucket
    BY <1>5, <2>1, <2>2 DEF Bucket
  <2> QED BY <2>1, <2>3, BucketFields
<1>7. \A k \in LimitKey \ keys : buckets'[k] = entries[k]
  BY <1>3
<1>8. \A k \in LimitKey : TokensAt(buckets[k])' = TokensAt(buckets'[k])
  BY <1>5 DEF TokensAt, Refilled
<1>9. \A k \in keys : TokensAt(buckets'[k]) = TokensAt(buckets[k]) - cost
  <2> SUFFICES ASSUME NEW k \in keys
               PROVE  TokensAt(buckets'[k]) = TokensAt(buckets[k]) - cost
    OBVIOUS
  <2> DEFINE t == TokensAt(buckets[k]) - cost
  <2>1. t \in 0..Burst
    BY <1>1, <1>2, <1>4, LoginLimiterAssumption
  <2>2. TokensAt(buckets'[k]) = Refilled(t, minute)
    BY <1>6 DEF TokensAt
  <2> HIDE DEF t
  <2>3. Refilled(t, minute) = t
    BY <1>5, <2>1, LoginLimiterAssumption DEF Refilled
  <2> QED BY <2>2, <2>3 DEF t
<1>10. \A k \in LimitKey \ keys : TokensAt(buckets'[k]) = TokensAt(buckets[k])
  BY <1>2, <1>7
<1>11. \A k \in LimitKey : /\ buckets'[k] \in Bucket \cup {NoBucket}
                           /\ buckets'[k] # NoBucket =>
                                buckets'[k].at <= minute /\ buckets'[k].seen = buckets'[k].at
  <2> TAKE k \in LimitKey
  <2>1. CASE k \in keys
    BY <1>5, <1>6, <2>1
  <2>2. CASE k \notin keys
    <3>1. buckets'[k] \in {buckets[k], NoBucket}
      BY <1>2, <1>7, <2>2
    <3> QED BY <3>1 DEF LoginInv, LoginTypes, LimitKnown
  <2> QED BY <2>1, <2>2
<1>12. buckets' \in [LimitKey -> Bucket \cup {NoBucket}]
  BY <1>3, <1>11
<1>13. CASE Allowed(keys)
  <2>1. /\ pending' = pending \cup {<<client, mailbox>>}
        /\ reference' = [k \in LimitKey |-> IF k \in keys
              THEN [tokens |-> ReferenceTokens(k) - 1, at |-> minute] ELSE reference[k]]
        /\ attempts' = [k \in LimitKey |-> IF k \in keys THEN attempts[k] + 1 ELSE attempts[k]]
    BY <1>13 DEF Attempt
  <2>2. cost = 1
    BY <1>4, <1>13
  <2>3. \A k \in keys : /\ k \in LimitKey /\ ReferenceTokens(k) \in 1..Burst
                        /\ reference'[k].tokens = ReferenceTokens(k) - 1
                        /\ reference'[k].at = minute
                        /\ reference'[k] \in [tokens : 0..Burst, at : Nat]
                        /\ attempts'[k] = attempts[k] + 1
    <3> SUFFICES ASSUME NEW k \in keys
                 PROVE  /\ k \in LimitKey /\ ReferenceTokens(k) \in 1..Burst
                        /\ reference'[k].tokens = ReferenceTokens(k) - 1
                        /\ reference'[k].at = minute
                        /\ reference'[k] \in [tokens : 0..Burst, at : Nat]
                        /\ attempts'[k] = attempts[k] + 1
      OBVIOUS
    <3>1. k \in LimitKey
      BY <1>1
    <3>2. TokensAt(entries[k]) >= 1
      BY <1>4, <2>2
    <3>3. ReferenceTokens(k) \in 1..Burst
      BY ONLY <1>2, <3>1, <3>2, LoginLimiterAssumption
    <3>4. reference'[k] = [tokens |-> ReferenceTokens(k) - 1, at |-> minute]
          /\ attempts'[k] = attempts[k] + 1
      BY <2>1, <3>1
    <3>5. ReferenceTokens(k) - 1 \in 0..Burst
      BY ONLY <3>3, LoginLimiterAssumption
    <3> QED BY <1>5, <3>1, <3>3, <3>4, <3>5
  <2>4. \A k \in LimitKey \ keys : reference'[k] = reference[k] /\ attempts'[k] = attempts[k]
    BY <2>1
  <2>5. \A k \in LimitKey :
          /\ reference'[k] \in [tokens : 0..Burst, at : Nat] /\ attempts'[k] \in Nat
          /\ since'[k] <= reference'[k].at /\ reference'[k].at <= minute
          /\ attempts'[k] + reference'[k].tokens <= Burst + reference'[k].at - since'[k]
          /\ ReferenceTokens(k)' = TokensAt(buckets'[k])
    <3> TAKE k \in LimitKey
    <3>0. /\ reference[k] \in [tokens : 0..Burst, at : Nat] /\ attempts[k] \in Nat
          /\ since[k] \in Nat
          /\ since[k] <= reference[k].at /\ reference[k].at <= minute
          /\ attempts[k] + reference[k].tokens <= Burst + reference[k].at - since[k]
      BY DEF LoginInv, LoginTypes, LimitKnown
    <3>1. CASE k \in keys
      <4> DEFINE r == ReferenceTokens(k)
      <4>1. r \in 1..Burst /\ r <= reference[k].tokens + minute - reference[k].at
        BY <1>5, <2>3, <3>0, <3>1, LoginLimiterAssumption DEF ReferenceTokens, Refilled
      <4>2. ReferenceTokens(k)' = Refilled(r - 1, minute)
        BY <1>5, <2>3, <3>1 DEF ReferenceTokens, Refilled
      <4>3. reference'[k].tokens = r - 1 /\ reference'[k].at = minute
            /\ attempts'[k] = attempts[k] + 1
            /\ reference'[k] \in [tokens : 0..Burst, at : Nat]
        BY <2>3, <3>1
      <4>4. TokensAt(buckets'[k]) = r - 1
        BY <1>2, <1>9, <2>2, <3>1
      <4> HIDE DEF r
      <4>5. Refilled(r - 1, minute) = r - 1
        BY <1>5, <4>1, LoginLimiterAssumption DEF Refilled
      <4>6. attempts[k] + 1 + (r - 1) <= Burst + minute - since[k]
        BY <1>5, <3>0, <4>1, LoginLimiterAssumption
      <4> QED BY <1>5, <3>0, <4>2, <4>3, <4>4, <4>5, <4>6
    <3>2. CASE k \notin keys
      <4>1. ReferenceTokens(k)' = ReferenceTokens(k)
        BY <1>5, <2>4, <3>2 DEF ReferenceTokens, Refilled
      <4> QED BY <1>2, <1>5, <1>10, <2>4, <3>0, <3>2, <4>1
    <3> QED BY <3>1, <3>2
  <2>6. reference' \in [LimitKey -> [tokens : 0..Burst, at : Nat]]
        /\ attempts' \in [LimitKey -> Nat]
    BY <2>1, <2>5
  <2>7. pending' \subseteq Client \X Mailbox
    BY <2>1 DEF LoginInv, LoginTypes
  <2> QED BY <1>5, <1>8, <1>11, <1>12, <2>5, <2>6, <2>7
      DEF LoginInv, LoginTypes, LimitKnown, BucketsMatchReference
<1>14. CASE ~Allowed(keys)
  <2>1. UNCHANGED <<pending, reference, attempts, since, minute>>
    BY <1>5, <1>14 DEF Attempt
  <2>2. cost = 0
    BY <1>4, <1>14
  <2>3. \A k \in LimitKey : TokensAt(buckets'[k]) = TokensAt(buckets[k])
    <3> TAKE k \in LimitKey
    <3>1. CASE k \in keys
      BY <1>2, <1>9, <2>2, <3>1
    <3>2. CASE k \notin keys
      BY <1>10, <3>2
    <3> QED BY <3>1, <3>2
  <2>4. \A k \in LimitKey : ReferenceTokens(k)' = ReferenceTokens(k)
    BY <2>1 DEF ReferenceTokens, Refilled
  <2> QED BY <1>2, <1>8, <1>11, <1>12, <2>1, <2>3, <2>4
      DEF LoginInv, LoginTypes, LimitKnown, BucketsMatchReference
<1> QED BY <1>13, <1>14

LEMMA RejectedKeeps ==
  ASSUME LoginInv, UNCHANGED <<minute, buckets, reference, attempts, since>>,
         pending' \subseteq pending
  PROVE  LoginInv'
BY DEF LoginInv, LoginTypes, LimitKnown, BucketsMatchReference, TokensAt, ReferenceTokens, Refilled

LEMMA SignedInKeeps ==
  ASSUME LoginInv, SignedIn PROVE LoginInv'
<1> PICK p \in pending :
      LET keys == {p[1], p[2]}
      IN  /\ pending' = pending \ {p}
          /\ buckets' = [k \in LimitKey |-> IF k \in keys THEN NoBucket ELSE buckets[k]]
          /\ reference' = [k \in LimitKey |-> IF k \in keys
                THEN [tokens |-> Burst, at |-> minute] ELSE reference[k]]
          /\ attempts' = [k \in LimitKey |-> IF k \in keys THEN 0 ELSE attempts[k]]
          /\ since' = [k \in LimitKey |-> IF k \in keys THEN minute ELSE since[k]]
  BY DEF SignedIn
<1> DEFINE keys == {p[1], p[2]}
<1>1. minute' = minute /\ minute \in Nat
  BY DEF SignedIn, LoginInv, LoginTypes
<1>2. LoginTypes'
  BY <1>1, LoginLimiterAssumption DEF LoginInv, LoginTypes
<1>3. ASSUME NEW k \in LimitKey
      PROVE  /\ buckets'[k] # NoBucket =>
                  buckets'[k].at <= minute /\ buckets'[k].seen = buckets'[k].at
             /\ since'[k] <= reference'[k].at /\ reference'[k].at <= minute
             /\ attempts'[k] + reference'[k].tokens <= Burst + reference'[k].at - since'[k]
             /\ TokensAt(buckets[k])' = ReferenceTokens(k)'
  <2>1. CASE k \in keys
    <3>1. /\ buckets'[k] = NoBucket /\ reference'[k] = [tokens |-> Burst, at |-> minute]
          /\ attempts'[k] = 0 /\ since'[k] = minute
      BY <2>1
    <3>2. ReferenceTokens(k)' = Burst
      BY <1>1, <3>1, LoginLimiterAssumption DEF ReferenceTokens, Refilled
    <3> QED BY <1>1, <3>1, <3>2, LoginLimiterAssumption DEF TokensAt
  <2>2. CASE k \notin keys
    <3>1. /\ buckets'[k] = buckets[k] /\ reference'[k] = reference[k]
          /\ attempts'[k] = attempts[k] /\ since'[k] = since[k]
      BY <2>2
    <3> QED BY <1>1, <3>1
        DEF LoginInv, LimitKnown, BucketsMatchReference, TokensAt, ReferenceTokens, Refilled
  <2> QED BY <2>1, <2>2
<1> QED BY <1>1, <1>2, <1>3 DEF LoginInv, LimitKnown, BucketsMatchReference

(* A minute gives every bucket that is not full one token.                 *)
LEMMA PassMinuteKeeps ==
  ASSUME LoginInv, PassMinute PROVE LoginInv'
<1>1. /\ minute' = minute + 1 /\ minute \in Nat
      /\ UNCHANGED <<buckets, pending, reference, attempts, since>>
  BY DEF PassMinute, LoginInv, LoginTypes
<1>2. LoginTypes' /\ LimitKnown'
  <2>1. LoginTypes'
    BY <1>1 DEF LoginInv, LoginTypes
  <2>2. \A k \in LimitKey : buckets[k] # NoBucket => buckets[k].at \in Nat
    BY BucketFields DEF LoginInv, LoginTypes
  <2>3. LimitKnown'
    BY <1>1, <2>2 DEF LoginInv, LoginTypes, LimitKnown
  <2> QED BY <2>1, <2>3
<1>3. ASSUME NEW k \in LimitKey PROVE TokensAt(buckets[k])' = ReferenceTokens(k)'
  <2>1. reference[k].tokens \in 0..Burst /\ reference[k].at \in Nat
    BY DEF LoginInv, LoginTypes
  <2>2. TokensAt(buckets[k]) = ReferenceTokens(k)
    BY DEF LoginInv, BucketsMatchReference
  <2>3. ReferenceTokens(k)' = IF ReferenceTokens(k) < Burst THEN ReferenceTokens(k) + 1 ELSE Burst
    BY <1>1, <2>1, LoginLimiterAssumption DEF ReferenceTokens, Refilled
  <2>4. CASE buckets[k] = NoBucket
    <3>1. TokensAt(buckets[k]) = Burst /\ TokensAt(buckets[k])' = Burst
      BY <1>1, <2>4 DEF TokensAt
    <3> QED BY <2>2, <2>3, <3>1, LoginLimiterAssumption
  <2>5. CASE buckets[k] # NoBucket
    <3>1. buckets[k].tokens \in 0..Burst /\ buckets[k].at \in Nat
      BY <2>5, BucketFields DEF LoginInv, LoginTypes
    <3>2. TokensAt(buckets[k]) = Refilled(buckets[k].tokens, buckets[k].at)
          /\ TokensAt(buckets[k])' = Refilled(buckets[k].tokens, buckets[k].at)'
      BY <1>1, <2>5 DEF TokensAt, Refilled
    <3>3. Refilled(buckets[k].tokens, buckets[k].at)'
            = IF TokensAt(buckets[k]) < Burst THEN TokensAt(buckets[k]) + 1 ELSE Burst
      BY <1>1, <3>1, <3>2, LoginLimiterAssumption DEF Refilled
    <3> QED BY <2>2, <2>3, <3>2, <3>3
  <2> QED BY <2>4, <2>5
<1> QED BY <1>2, <1>3 DEF LoginInv, BucketsMatchReference

(* Sign-in attempts: the invariant holds in every reachable state.         *)
THEOREM LoginInductive == LoginSpec => []LoginInv
<1>1. LoginInit => LoginInv
  <2> SUFFICES ASSUME LoginInit PROVE LoginInv
    OBVIOUS
  <2>1. LoginTypes
    BY LoginLimiterAssumption DEF LoginInit, LoginTypes
  <2>2. LimitKnown
    BY LoginLimiterAssumption DEF LoginInit, LimitKnown
  <2>3. BucketsMatchReference
    BY LoginLimiterAssumption DEF LoginInit, BucketsMatchReference, TokensAt, ReferenceTokens, Refilled
  <2> QED BY <2>1, <2>2, <2>3 DEF LoginInv
<1>2. LoginInv /\ [LoginNext]_loginVars => LoginInv'
  <2> SUFFICES ASSUME LoginInv, [LoginNext]_loginVars PROVE LoginInv'
    OBVIOUS
  <2>1. CASE Rejected
    BY <2>1, RejectedKeeps DEF Rejected
  <2>2. CASE UNCHANGED loginVars
    BY <2>2, RejectedKeeps DEF loginVars
  <2> QED BY <2>1, <2>2, AttemptKeeps, SignedInKeeps, PassMinuteKeeps DEF LoginNext
<1> QED BY <1>1, <1>2, PTL DEF LoginSpec

(* Login limits are exact: dropping idle buckets (clean), the charge of    *)
(* both buckets or none, and forgetting after a success never give a key   *)
(* a token more or less than a bucket that is kept for ever.               *)
THEOREM LimitsAreExact == LoginSpec => []BucketsMatchReference
BY LoginInductive, PTL DEF LoginInv

(* Between two successes a key is tried at most Burst times and once more  *)
(* for every minute since.                                                 *)
THEOREM GuessingIsBounded == LoginSpec => []AttemptsBounded
<1>1. LoginInv => AttemptsBounded
  <2> SUFFICES ASSUME LoginInv, NEW k \in LimitKey
               PROVE  attempts[k] <= Burst + minute - since[k]
    BY DEF AttemptsBounded
  <2>1. /\ reference[k].tokens \in 0..Burst /\ reference[k].at \in Nat /\ minute \in Nat
        /\ attempts[k] \in Nat /\ since[k] \in Nat /\ reference[k].at <= minute
        /\ attempts[k] + reference[k].tokens <= Burst + reference[k].at - since[k]
    BY DEF LoginInv, LoginTypes, LimitKnown
  <2> QED BY <2>1, LoginLimiterAssumption
<1> QED BY <1>1, LoginInductive, PTL

-----------------------------------------------------------------------------
(***************************************************************************)
(* The containers of CPAs, their image and their plugin.                   *)
(***************************************************************************)

Container == [image : Nat, state : {"none", "running", "stopped"}, plugin : Nat]
Images == [candidate : Nat, applied : Nat]
Plugin == [version : Nat, staging : BOOLEAN]
Before == [unit : [Unit -> Container], state : Images, file : Nat]
UpdateStep == {"remove", "create", "probe", "record", "project", "undo", "done"}
PluginStep == {"render", "restart", "verify", "publish", "reset"}
RunningJob ==
    [kind : {"none", "update", "plugin"}, step : {""} \cup UpdateStep \cup PluginStep,
     target : Unit \cup {AllUnits}, image : Nat, todo : SUBSET Unit, attempted : Seq(Unit),
     outcome : {"", "updated", "restored"}, before : {<<>>} \cup Before, previous : Plugin]

RuntimeTypes ==
    /\ channel \in Nat /\ pulled \in Nat /\ projected \in Nat
    /\ imageState \in Images
    /\ cpa \in [Unit -> Container]
    /\ rollbackRef \in [Unit -> Nat]
    /\ installed \in [Unit -> Plugin] /\ rendered \in [Unit -> Plugin]
    /\ running \in RunningJob
    /\ failed \in BOOLEAN
    /\ running.kind = "update" =>
          /\ running.step \in UpdateStep /\ running.before \in Before
          /\ running.target \in EnabledUnit \cup {AllUnits}
          /\ running.step \in {"create", "probe"} => running.attempted # <<>>
    /\ running.kind = "plugin" =>
          running.step \in PluginStep /\ running.target \in EnabledUnit

(* What is left of the plugin when no job holds the account of it.         *)
Pinned(u) == /\ rendered[u] = installed[u] /\ ~installed[u].staging
             /\ cpa[u].state = "running" => cpa[u].plugin = installed[u].version

AppliedProjected(state, file) == state.applied # 0 => file = state.applied

Elements(s) == {s[i] : i \in 1..Len(s)}

(* The CPAs an update replaces: those that ran another image before it.    *)
Replaceable == {u \in Selected(running.target) : running.before.unit[u].state = "running"
                    /\ running.before.unit[u].image # running.image}

UpdateKept ==
    LET job == running
        units == Selected(job.target)
        tried == Elements(job.attempted)
        forward == job.step \in {"remove", "create", "probe", "record", "project"}
                      \/ (job.step = "done" /\ job.outcome = "updated")
    IN  /\ \A u \in Unit : Pinned(u)
        /\ AppliedProjected(job.before.state, job.before.file)
        /\ \A u \in units : job.before.unit[u].state = "running" =>
                job.before.unit[u].plugin = rendered[u].version
        /\ tried \cup job.todo \subseteq Replaceable
        /\ \A u \in Replaceable : rollbackRef[u] = job.before.unit[u].image
        /\ \A u \in units \ tried : cpa[u] = job.before.unit[u]
        /\ forward =>
              /\ Replaceable = tried \cup job.todo
              /\ \A u \in tried : \/ cpa[u].state = "running" /\ cpa[u].image = job.image
                                  \/ job.step = "create" /\ u = Attempting
        /\ job.step \in {"record", "project", "done"} /\ forward => job.todo = {}
        /\ job.step \notin {"project", "done"} =>
              imageState = job.before.state /\ projected = job.before.file
        /\ job.step = "project" => imageState.applied = job.image /\ projected = job.before.file
        /\ job.step = "done" =>
              \/ /\ job.outcome = "updated"
                 /\ imageState.applied = job.image /\ projected = job.image
              \/ /\ job.outcome = "restored" /\ tried = {}
                 /\ imageState = job.before.state /\ projected = job.before.file

PluginKept ==
    LET job == running t == job.target
    IN  /\ \A u \in Unit \ {t} : Pinned(u)
        /\ AppliedProjected(imageState, projected)
        /\ ~job.previous.staging
        /\ job.step \in {"restart", "verify"} => rendered[t] = installed[t]
        /\ job.step \in {"verify", "publish"} => cpa[t].plugin = installed[t].version
        /\ job.step = "publish" => ~installed[t].staging

RuntimeFacts ==
    /\ running.kind = "none" =>
          (\A u \in Unit : Pinned(u)) /\ AppliedProjected(imageState, projected)
    /\ running.kind = "update" => UpdateKept
    /\ running.kind = "plugin" => PluginKept

RuntimeInv == RuntimeTypes /\ (~failed => RuntimeFacts)
LEMMA SelectedUnits ==
  ASSUME NEW target \in EnabledUnit \cup {AllUnits}
  PROVE  Selected(target) \subseteq EnabledUnit /\ EnabledUnit \subseteq Unit
         /\ AllUnits \notin Unit
BY CpaRuntimeAssumption DEF Selected

LEMMA JobGoes ==
  ASSUME RuntimeTypes, NEW step \in {""} \cup UpdateStep \cup PluginStep,
         running' = [running EXCEPT !.step = step]
  PROVE  /\ running' \in RunningJob /\ running'.step = step
         /\ running'.kind = running.kind /\ running'.target = running.target
         /\ running'.image = running.image /\ running'.todo = running.todo
         /\ running'.attempted = running.attempted /\ running'.outcome = running.outcome
         /\ running'.before = running.before /\ running'.previous = running.previous
BY DEF RuntimeTypes, RunningJob

LEMMA JobFields ==
  ASSUME NEW job \in RunningJob
  PROVE  /\ job.todo \subseteq Unit /\ job.attempted \in Seq(Unit) /\ job.image \in Nat
         /\ job.previous \in Plugin /\ job.previous.version \in Nat
         /\ job.previous.staging \in BOOLEAN
         /\ Elements(job.attempted) \subseteq Unit
         /\ Len(job.attempted) \in Nat
<1>1. job.attempted \in Seq(Unit)
  BY DEF RunningJob
<1>2. Elements(job.attempted) \subseteq Unit
  BY <1>1 DEF Elements
<1>3. job.todo \subseteq Unit /\ job.image \in Nat /\ job.previous \in Plugin
  BY DEF RunningJob
<1>4. Len(job.attempted) \in Nat
  BY <1>1
<1> QED BY <1>1, <1>2, <1>3, <1>4 DEF Plugin

LEMMA NothingRuns == NoJob \in RunningJob /\ NoJob.kind = "none"
BY DEF NoJob, RunningJob, NoPlugin, Plugin, UpdateStep, PluginStep

LEMMA ContainerMade ==
  ASSUME RuntimeTypes, NEW u \in Unit, NEW image \in Nat
  PROVE  /\ Created(u, image) \in Container /\ Created(u, image).image = image
         /\ Created(u, image).state = "running"
         /\ Created(u, image).plugin = rendered[u].version
         /\ Started(cpa[u], u) \in Container /\ Started(cpa[u], u).state = "running"
         /\ Started(cpa[u], u).plugin = rendered[u].version
         /\ Started(cpa[u], u).image = cpa[u].image
         /\ NoContainer \in Container /\ NoContainer.state = "none"
         /\ cpa[u] \in Container
         /\ rendered[u].version \in Nat /\ installed[u].version \in Nat
BY DEF RuntimeTypes, Container, Plugin, Created, Started, NoContainer

LEMMA ContainerStopped ==
  ASSUME RuntimeTypes, NEW u \in Unit, cpa' = [cpa EXCEPT ![u].state = "stopped"]
  PROVE  /\ cpa' \in [Unit -> Container] /\ cpa'[u].state = "stopped"
         /\ \A v \in Unit \ {u} : cpa'[v] = cpa[v]
BY DEF RuntimeTypes, Container

(* Steps between jobs, and steps that touch nothing a job relies on.       *)
LEMMA IdleKeeps ==
  ASSUME RuntimeTypes', running'.kind = "none",
         ~failed' => (\A u \in Unit : Pinned(u)') /\ AppliedProjected(imageState, projected)'
  PROVE  RuntimeInv'
BY DEF RuntimeInv, RuntimeFacts

LEMMA ChannelMovesKeeps == ASSUME RuntimeInv, ChannelMoves PROVE RuntimeInv'
<1>1. channel' \in Nat
  BY DEF ChannelMoves, RuntimeInv, RuntimeTypes
<1>2. UNCHANGED <<pulled, imageState, projected, cpa, rollbackRef, installed, rendered,
                   running, failed>>
  BY DEF ChannelMoves
<1>3. RuntimeTypes'
  BY <1>1, <1>2 DEF RuntimeInv, RuntimeTypes
<1>4. RuntimeFacts => RuntimeFacts'
  BY <1>2 DEF RuntimeFacts, UpdateKept, PluginKept, Pinned, AppliedProjected, Replaceable,
              Selected, Attempting
<1> QED BY <1>2, <1>3, <1>4 DEF RuntimeInv

LEMMA PullKeeps == ASSUME RuntimeInv, PullImage \/ PullFails PROVE RuntimeInv'
<1>1. /\ running.kind = "none" /\ pulled' = channel /\ imageState' \in Images
      /\ imageState'.applied = imageState.applied
      /\ UNCHANGED <<channel, projected, cpa, rollbackRef, installed, rendered, running, failed>>
  BY DEF PullImage, PullFails, pluginFrame, RuntimeInv, RuntimeTypes, Images
<1>2. RuntimeTypes'
  BY <1>1 DEF RuntimeInv, RuntimeTypes
<1> QED BY <1>1, <1>2, IdleKeeps DEF RuntimeInv, RuntimeFacts, Pinned, AppliedProjected

LEMMA BeginUpdateFailsKeeps == ASSUME RuntimeInv, BeginUpdateFails PROVE RuntimeInv'
<1>1. /\ running.kind = "none" /\ imageState' \in Images
      /\ imageState'.applied = imageState.applied
      /\ UNCHANGED <<channel, pulled, projected, cpa, installed, rendered, running, failed>>
  BY DEF BeginUpdateFails, pluginFrame, RuntimeInv, RuntimeTypes, Images
<1>2. rollbackRef' \in [Unit -> Nat]
  BY DEF BeginUpdateFails, RuntimeInv, RuntimeTypes, Container
<1>3. RuntimeTypes'
  BY <1>1, <1>2 DEF RuntimeInv, RuntimeTypes
<1> QED BY <1>1, <1>3, IdleKeeps DEF RuntimeInv, RuntimeFacts, Pinned, AppliedProjected

LEMMA CreateAccountContainerKeeps ==
  ASSUME RuntimeInv, NEW u \in Unit, CreateAccountContainer(u) PROVE RuntimeInv'
<1>1. /\ running.kind = "none" /\ cpa' = [cpa EXCEPT ![u] = Created(u, AppliedImage)]
      /\ UNCHANGED <<channel, pulled, imageState, projected, rollbackRef, installed, rendered,
                     running, failed>>
  BY DEF CreateAccountContainer, imageFrame, pluginFrame
<1>2. AppliedImage \in Nat
  BY DEF AppliedImage, RuntimeInv, RuntimeTypes, Images
<1>3. RuntimeTypes /\ Created(u, AppliedImage) \in Container
      /\ Created(u, AppliedImage).plugin = rendered[u].version
  BY <1>2, ContainerMade DEF RuntimeInv
<1>4. RuntimeTypes'
  BY <1>1, <1>3 DEF RuntimeTypes
<1>5. cpa'[u] = Created(u, AppliedImage) /\ \A v \in Unit \ {u} : cpa'[v] = cpa[v]
  BY <1>1, <1>3 DEF RuntimeTypes
<1> QED BY <1>1, <1>3, <1>4, <1>5, IdleKeeps DEF RuntimeInv, RuntimeFacts, Pinned, AppliedProjected

(* A container that is started outside the lock is not one of a job's.     *)
LEMMA OperateKeeps == ASSUME RuntimeInv, NEW u \in Unit, Operate(u) PROVE RuntimeInv'
<1>1. /\ cpa' \in {[cpa EXCEPT ![u] = Started(@, u)], [cpa EXCEPT ![u].state = "stopped"]}
      /\ UNCHANGED <<channel, pulled, imageState, projected, rollbackRef, installed, rendered,
                     running, failed>>
      /\ RuntimeTypes /\ Unclaimed(u)
  BY DEF Operate, imageFrame, pluginFrame, RuntimeInv
<1>2. /\ cpa' \in [Unit -> Container] /\ \A v \in Unit \ {u} : cpa'[v] = cpa[v]
      /\ cpa'[u].state = "running" => cpa'[u].plugin = rendered[u].version
  <2>1. CASE cpa' = [cpa EXCEPT ![u] = Started(@, u)]
    <3>1. cpa' = [cpa EXCEPT ![u] = Started(cpa[u], u)] /\ cpa \in [Unit -> Container]
      BY <1>1, <2>1 DEF RuntimeTypes
    <3>2. Started(cpa[u], u) \in Container /\ Started(cpa[u], u).plugin = rendered[u].version
      BY <1>1, ContainerMade
    <3> QED BY ONLY <3>1, <3>2, u \in Unit
  <2>2. CASE cpa' = [cpa EXCEPT ![u].state = "stopped"]
    BY <1>1, <2>2, ContainerStopped
  <2> QED BY <1>1, <2>1, <2>2
<1>3. RuntimeTypes'
  BY <1>1, <1>2 DEF RuntimeTypes
<1>4. \A v \in Unit : Pinned(v) => Pinned(v)'
  BY <1>1, <1>2 DEF Pinned
<1>5. CASE running.kind = "none"
  BY <1>1, <1>3, <1>4, <1>5, IdleKeeps DEF RuntimeInv, RuntimeFacts, AppliedProjected
<1>6. CASE running.kind = "update"
  <2>1. running.target \in EnabledUnit /\ running.target # u
    BY <1>1, <1>6 DEF Unclaimed, RuntimeTypes
  <2>2. Selected(running.target) \subseteq Unit /\ u \notin Selected(running.target)
    BY <2>1, SelectedUnits DEF Selected
  <2>3. Replaceable' = Replaceable /\ Replaceable \subseteq Selected(running.target)
        /\ Attempting' = Attempting /\ Selected(running.target)' = Selected(running.target)
    BY <1>1 DEF Replaceable, Selected, Attempting
  <2>4. UpdateKept => UpdateKept'
    <3> SUFFICES ASSUME UpdateKept PROVE UpdateKept'
      OBVIOUS
    <3>1. \A v \in Selected(running.target) : cpa'[v] = cpa[v]
      BY <1>2, <2>2
    <3>2. Elements(running.attempted) \subseteq Selected(running.target)
      BY <2>3 DEF UpdateKept
    <3>3. Elements(running.attempted)' = Elements(running.attempted)
      BY <1>1 DEF Elements
    <3>4. \A v \in Unit : Pinned(v)'
      BY <1>4 DEF UpdateKept
    <3>5. AppliedProjected(running.before.state, running.before.file)'
      BY <1>1 DEF UpdateKept, AppliedProjected
    <3> HIDE DEF Attempting
    <3> QED BY <1>1, <2>3, <3>1, <3>2, <3>3, <3>4, <3>5 DEF UpdateKept
  <2> QED BY <1>1, <1>3, <1>6, <2>4 DEF RuntimeInv, RuntimeFacts
<1>7. CASE running.kind = "plugin"
  <2>1. running.target \in Unit /\ running.target # u
    BY <1>1, <1>7, CpaRuntimeAssumption DEF Unclaimed, RuntimeTypes
  <2>2. PluginKept => PluginKept'
    BY <1>1, <1>2, <1>4, <2>1 DEF PluginKept, AppliedProjected
  <2> QED BY <1>1, <1>3, <1>7, <2>2 DEF RuntimeInv, RuntimeFacts
<1> QED BY <1>1, <1>5, <1>6, <1>7 DEF RuntimeTypes, RunningJob

LEMMA AdminFallsKeeps == ASSUME RuntimeInv, AdminFalls PROVE RuntimeInv'
<1>1. /\ running' = NoJob /\ failed' = TRUE /\ rendered' = installed
      /\ UNCHANGED <<channel, pulled, imageState, projected, rollbackRef, cpa, installed>>
  BY DEF AdminFalls, Renders, imageFrame
<1>2. RuntimeTypes'
  BY <1>1, NothingRuns DEF RuntimeInv, RuntimeTypes
<1> QED BY <1>1, <1>2 DEF RuntimeInv

LEMMA BeginUpdateKeeps == ASSUME RuntimeInv, BeginUpdate PROVE RuntimeInv'
<1> DEFINE state == [imageState EXCEPT !.candidate = pulled]
           before == [unit |-> cpa, state |-> state, file |-> projected]
           started(target) ==
             [NoJob EXCEPT !.kind = "update", !.target = target, !.image = pulled,
                !.step = IF Outdated(Selected(target)) = {} THEN "record" ELSE "remove",
                !.todo = Outdated(Selected(target)), !.before = before]
<1>1. /\ running.kind = "none" /\ imageState' = state
      /\ UNCHANGED <<channel, pulled, projected, cpa, installed, rendered, failed>>
  BY DEF BeginUpdate, pluginFrame
<1>2. PICK target \in EnabledUnit \cup {AllUnits} :
        /\ rollbackRef' = [u \in Unit |-> IF u \in Outdated(Selected(target)) THEN cpa[u].image
                                                                          ELSE rollbackRef[u]]
        /\ running' \in {NoJob, started(target)}
  BY <1>1 DEF BeginUpdate
<1>3. /\ RuntimeTypes /\ cpa \in [Unit -> Container] /\ projected \in Nat /\ pulled \in Nat
      /\ state \in Images /\ state.applied = imageState.applied
      /\ Selected(target) \subseteq Unit
  BY SelectedUnits DEF RuntimeInv, RuntimeTypes, Images
<1>4. before \in Before /\ before.unit = cpa /\ before.state = state /\ before.file = projected
  BY <1>3 DEF Before
<1>5. rollbackRef' \in [Unit -> Nat]
      /\ \A u \in Outdated(Selected(target)) : u \in Unit /\ rollbackRef'[u] = cpa[u].image
  BY <1>2, <1>3 DEF RuntimeTypes, Container, Outdated
<1>6. ~failed => (\A u \in Unit : Pinned(u)) /\ AppliedProjected(imageState, projected)
  BY <1>1 DEF RuntimeInv, RuntimeFacts
<1>7. CASE running' = NoJob
  <2>1. RuntimeTypes'
    BY <1>1, <1>3, <1>5, <1>7, NothingRuns DEF RuntimeTypes
  <2> QED BY <1>1, <1>3, <1>6, <1>7, <2>1, NothingRuns, IdleKeeps DEF Pinned, AppliedProjected
<1>8. CASE running' = started(target)
  <2> DEFINE todo == Outdated(Selected(target))
  <2>0. todo \subseteq Unit
    BY <1>3 DEF Outdated
  <2> HIDE DEF todo, before, state
  <2>1. /\ running'.kind = "update" /\ running'.target = target /\ running'.image = pulled
        /\ running'.step = IF todo = {} THEN "record" ELSE "remove"
        /\ running'.todo = todo /\ running'.before = before /\ running'.attempted = <<>>
    BY <1>8 DEF NoJob, todo
  <2>2. running' \in RunningJob
    <3>1. NoJob \in RunningJob
      BY NothingRuns
    <3>2. target \in Unit \cup {AllUnits}
      BY SelectedUnits
    <3>3. (IF todo = {} THEN "record" ELSE "remove") \in UpdateStep
      BY DEF UpdateStep
    <3> QED BY <1>3, <1>4, <1>8, <2>0, <3>1, <3>2, <3>3 DEF RunningJob, todo
  <2>3. RuntimeTypes'
    <3>1. running'.step \in UpdateStep /\ running'.step \notin {"create", "probe"}
      BY <2>1 DEF UpdateStep
    <3> QED BY <1>1, <1>3, <1>4, <1>5, <2>1, <2>2, <3>1 DEF RuntimeTypes
  <2>4. Elements(running.attempted)' = {}
    BY <2>1 DEF Elements
  <2>5. Selected(running.target)' = Selected(target)
    BY <2>1 DEF Selected
  <2>6. Replaceable' = todo
    <3>1. Replaceable' = {u \in Selected(target) : cpa[u].state = "running" /\ cpa[u].image # pulled}
      BY <1>4, <2>1, <2>5 DEF Replaceable
    <3> QED BY <3>1 DEF todo, Outdated
  <2>7. ASSUME ~failed PROVE UpdateKept'
    <3>1. \A u \in Unit : Pinned(u)' /\ (cpa[u].state = "running" => cpa[u].plugin = rendered'[u].version)
      BY <1>1, <1>6, <2>7 DEF Pinned
    <3>2. AppliedProjected(running.before.state, running.before.file)'
      BY <1>1, <1>3, <1>4, <1>6, <2>1, <2>7 DEF AppliedProjected
    <3>3. \A u \in todo : rollbackRef'[u] = cpa[u].image
      BY <1>5 DEF todo
    <3>4. running'.step \in {"record", "remove"} /\ (running'.step = "record" => todo = {})
      BY <2>1
    <3> QED BY <1>1, <1>3, <1>4, <2>1, <2>4, <2>5, <2>6, <3>1, <3>2, <3>3, <3>4 DEF UpdateKept
  <2> QED BY <1>1, <2>1, <2>3, <2>7 DEF RuntimeInv, RuntimeFacts
<1> QED BY <1>2, <1>7, <1>8

(* What every step of an update leaves alone.                              *)
UpdateFrame ==
    /\ RuntimeTypes /\ running.kind = "update"
    /\ UNCHANGED <<channel, pulled, rollbackRef, installed, rendered>>
    /\ running' \in RunningJob /\ running'.kind = "update"
    /\ running'.target = running.target /\ running'.before = running.before
    /\ running'.image = running.image
    /\ running'.step \in UpdateStep
    /\ running'.step \in {"create", "probe"} => running'.attempted # <<>>
    /\ cpa' \in [Unit -> Container]
    /\ imageState' \in Images /\ projected' \in Nat /\ failed' \in BOOLEAN
    /\ failed => failed'

LEMMA UpdateTypes ==
  ASSUME UpdateFrame
  PROVE  /\ RuntimeTypes' /\ Replaceable' = Replaceable
         /\ Replaceable \subseteq Selected(running.target)
         /\ Selected(running.target) \subseteq Unit
         /\ Selected(running.target)' = Selected(running.target)
         /\ Selected(running'.target) = Selected(running.target)
<1>1. RuntimeTypes'
  BY DEF UpdateFrame, RuntimeTypes
<1>2. Selected(running.target)' = Selected(running.target)
  BY DEF UpdateFrame, Selected
<1>3. Replaceable' = Replaceable
  BY <1>2 DEF UpdateFrame, Replaceable
<1>4. Selected(running.target) \subseteq Unit
  BY SelectedUnits DEF UpdateFrame, RuntimeTypes
<1> QED BY <1>1, <1>2, <1>3, <1>4 DEF Replaceable, UpdateFrame, Selected

(* The facts of an update that no step of it changes.                      *)
LEMMA UpdateSteady ==
  ASSUME UpdateFrame, UpdateKept,
         \A u \in Unit : cpa'[u].state = "running" => \/ cpa'[u] = cpa[u]
                                                      \/ cpa'[u].plugin = rendered[u].version
  PROVE  /\ \A u \in Unit : Pinned(u)'
         /\ AppliedProjected(running.before.state, running.before.file)'
         /\ \A u \in Selected(running.target) : running'.before.unit[u].state = "running" =>
                running'.before.unit[u].plugin = rendered'[u].version
         /\ \A u \in Replaceable : rollbackRef'[u] = running'.before.unit[u].image
<1>1. \A u \in Unit : Pinned(u)'
  BY DEF UpdateFrame, UpdateKept, Pinned
<1>2. AppliedProjected(running.before.state, running.before.file)'
  BY DEF UpdateFrame, UpdateKept, AppliedProjected
<1> QED BY <1>1, <1>2 DEF UpdateFrame, UpdateKept

LEMMA Appended ==
  ASSUME NEW S, NEW s \in Seq(S), NEW x \in S
  PROVE  /\ Append(s, x) \in Seq(S) /\ Append(s, x) # <<>>
         /\ Append(s, x)[Len(Append(s, x))] = x
         /\ Elements(Append(s, x)) = Elements(s) \cup {x}
<1>1. /\ Append(s, x) \in Seq(S) /\ Len(Append(s, x)) = Len(s) + 1 /\ Len(s) \in Nat
      /\ \A i \in 1..Len(s) : Append(s, x)[i] = s[i]
      /\ Append(s, x)[Len(s) + 1] = x
  OBVIOUS
<1>2. Elements(Append(s, x)) = Elements(s) \cup {x}
  BY <1>1 DEF Elements
<1>3. Append(s, x) # <<>>
  BY <1>1
<1> QED BY <1>1, <1>2, <1>3

LEMMA PrefixLength ==
  ASSUME NEW S, NEW s \in Seq(S), NEW n \in Nat, n <= Len(s) PROVE Len(SubSeq(s, 1, n)) = n
OBVIOUS

LEMMA Shortened ==
  ASSUME NEW S, NEW s \in Seq(S), s # <<>>
  PROVE  /\ SubSeq(s, 1, Len(s) - 1) \in Seq(S) /\ s[Len(s)] \in Elements(s)
         /\ Elements(SubSeq(s, 1, Len(s) - 1)) \subseteq Elements(s)
         /\ Elements(s) \subseteq Elements(SubSeq(s, 1, Len(s) - 1)) \cup {s[Len(s)]}
<1> DEFINE r == SubSeq(s, 1, Len(s) - 1)
<1>1. /\ r \in Seq(S) /\ Len(s) \in Nat /\ Len(s) > 0 /\ Len(r) = Len(s) - 1
      /\ \A i \in 1..(Len(s) - 1) : r[i] = s[i]
  <2>1. Len(s) \in Nat /\ Len(s) > 0
    OBVIOUS
  <2>2. \A i \in 1..(Len(s) - 1) : s[i] \in S
    BY <2>1
  <2>3. r \in Seq(S)
    BY <2>1, <2>2
  <2>4. Len(r) = Len(s) - 1
    <3>1. Len(s) - 1 \in Nat /\ Len(s) - 1 <= Len(s)
      BY <2>1
    <3> QED BY <3>1, PrefixLength
  <2>5. \A i \in 1..(Len(s) - 1) : r[i] = s[i]
    BY <2>1
  <2> QED BY <2>1, <2>3, <2>4, <2>5
<1>2. s[Len(s)] \in Elements(s)
  BY <1>1 DEF Elements
<1>3. Elements(r) \subseteq Elements(s)
  BY <1>1 DEF Elements
<1>4. Elements(s) \subseteq Elements(r) \cup {s[Len(s)]}
  <2> SUFFICES ASSUME NEW i \in 1..Len(s), i # Len(s) PROVE s[i] \in Elements(r)
    BY DEF Elements
  <2>1. i \in 1..Len(r) /\ r[i] = s[i]
    BY <1>1
  <2> QED BY <2>1 DEF Elements
<1> QED BY <1>1, <1>2, <1>3, <1>4

(* How a step of an update ends: either Admin goes on trusting its state,  *)
(* and the facts of the update hold, or it does not.                       *)
LEMMA UpdateKeeps ==
  ASSUME UpdateFrame, ~failed' => UpdateKept' PROVE RuntimeInv'
BY UpdateTypes DEF UpdateFrame, RuntimeInv, RuntimeFacts

LEMMA UpdateKnown ==
  ASSUME RuntimeInv, running.kind = "update", ~failed
  PROVE  UpdateKept
BY DEF RuntimeInv, RuntimeFacts

(* replaceAccountImage: the old container is removed.                      *)
LEMMA RemoveOldKeeps == ASSUME RuntimeInv, RemoveOld PROVE RuntimeInv'
<1>1. /\ running.kind = "update" /\ running.step = "remove" /\ running \in RunningJob
      /\ UNCHANGED <<channel, pulled, rollbackRef, installed, rendered, imageState, projected,
                     failed>>
      /\ RuntimeTypes
  BY DEF RemoveOld, UpdateAt, updateFrame, pluginFrame, RuntimeInv, RuntimeTypes
<1>2. PICK u \in running.todo :
        LET job == [running EXCEPT !.todo = @ \ {u}, !.attempted = Append(@, u)]
        IN  \/ /\ cpa' = [cpa EXCEPT ![u] = NoContainer]
               /\ running' = [job EXCEPT !.step = "create"]
            \/ /\ cpa' \in {cpa, [cpa EXCEPT ![u].state = "stopped"]}
               /\ running' = [job EXCEPT !.step = "undo"]
  BY DEF RemoveOld
<1> DEFINE tried == Append(running.attempted, u)
<1>3. u \in Unit /\ running.attempted \in Seq(Unit)
  BY <1>1, JobFields
<1>4. /\ tried \in Seq(Unit) /\ tried # <<>> /\ tried[Len(tried)] = u
      /\ Elements(tried) = Elements(running.attempted) \cup {u}
  BY <1>3, Appended
<1>5. /\ running' \in RunningJob /\ running'.kind = "update"
      /\ running'.target = running.target /\ running'.before = running.before
      /\ running'.image = running.image /\ running'.step \in {"create", "undo"}
      /\ running'.attempted = tried /\ running'.todo = running.todo \ {u}
      /\ running'.step = "create" => cpa' = [cpa EXCEPT ![u] = NoContainer]
  <2> DEFINE job(step) == [[running EXCEPT !.todo = @ \ {u}, !.attempted = Append(@, u)]
                             EXCEPT !.step = step]
  <2>1. ASSUME NEW step \in {"create", "undo"}
        PROVE  /\ job(step) \in RunningJob /\ job(step).kind = "update"
               /\ job(step).target = running.target /\ job(step).before = running.before
               /\ job(step).image = running.image /\ job(step).step = step
               /\ job(step).attempted = tried /\ job(step).todo = running.todo \ {u}
    BY <1>1, <1>4 DEF RunningJob, UpdateStep
  <2>2. \/ running' = job("create") /\ cpa' = [cpa EXCEPT ![u] = NoContainer]
        \/ running' = job("undo")
    BY <1>2
  <2> HIDE DEF job, tried
  <2> QED BY <2>1, <2>2
<1>6. /\ cpa' \in [Unit -> Container] /\ \A v \in Unit \ {u} : cpa'[v] = cpa[v]
      /\ cpa'[u].state = "running" => cpa'[u] = cpa[u]
  <2>1. CASE cpa' = [cpa EXCEPT ![u] = NoContainer]
    <3>1. cpa \in [Unit -> Container] /\ NoContainer \in Container /\ NoContainer.state = "none"
      BY <1>1 DEF RuntimeTypes, Container, NoContainer
    <3> QED BY ONLY <1>3, <2>1, <3>1
  <2>2. CASE cpa' = [cpa EXCEPT ![u].state = "stopped"]
    BY <1>1, <1>3, <2>2, ContainerStopped
  <2>3. CASE cpa' = cpa
    BY <1>1, <2>3 DEF RuntimeTypes
  <2> QED BY <1>2, <2>1, <2>2, <2>3
<1> HIDE DEF tried
<1>7. UpdateFrame
  <2>1. running'.step \in UpdateStep
    BY <1>5 DEF UpdateStep
  <2> QED BY <1>1, <1>4, <1>5, <1>6, <2>1 DEF UpdateFrame, RuntimeTypes
<1>8. ASSUME ~failed PROVE UpdateKept'
  <2>1. UpdateKept
    BY <1>1, <1>8, UpdateKnown
  <2>2. \A v \in Unit : cpa'[v].state = "running" => cpa'[v] = cpa[v]
    BY <1>6
  <2>3. /\ Replaceable' = Replaceable /\ Selected(running.target)' = Selected(running.target)
        /\ Selected(running.target) \subseteq Unit
    BY <1>7, UpdateTypes
  <2>4. Elements(running.attempted)' = Elements(running.attempted) \cup {u}
    <3>1. Elements(running.attempted)' = Elements(running'.attempted)
      BY DEF Elements
    <3> QED BY <1>4, <1>5, <3>1
  <2>5. Attempting' = u
    BY <1>4, <1>5 DEF Attempting
  <2>6. \A v \in Selected(running.target) \ Elements(running.attempted)' :
            cpa'[v] = running.before.unit[v]
    BY <1>6, <2>1, <2>3, <2>4 DEF UpdateKept
  <2>7. /\ Elements(running.attempted)' \cup running'.todo \subseteq Replaceable
        /\ Replaceable = Elements(running.attempted)' \cup running'.todo
    BY <1>1, <1>5, <2>1, <2>4 DEF UpdateKept
  <2>8. running'.step = "create" =>
          \A v \in Elements(running.attempted)' :
             (cpa'[v].state = "running" /\ cpa'[v].image = running.image) \/ v = u
    <3> SUFFICES ASSUME NEW v \in Elements(running.attempted), v # u
                 PROVE  cpa'[v].state = "running" /\ cpa'[v].image = running.image
      BY <2>4
    <3>1. v \in Unit
      BY <1>1, JobFields
    <3>2. cpa[v].state = "running" /\ cpa[v].image = running.image
      BY <1>1, <2>1 DEF UpdateKept
    <3> QED BY <1>6, <3>1, <3>2
  <2>9. imageState = running.before.state /\ projected = running.before.file
    BY <1>1, <2>1 DEF UpdateKept
  <2>10. /\ \A v \in Unit : Pinned(v)'
         /\ AppliedProjected(running.before.state, running.before.file)'
         /\ \A v \in Selected(running.target) : running'.before.unit[v].state = "running" =>
                running'.before.unit[v].plugin = rendered'[v].version
         /\ \A v \in Replaceable : rollbackRef'[v] = running'.before.unit[v].image
    BY <1>7, <2>1, <2>2, UpdateSteady
  <2> QED BY <1>1, <1>5, <2>3, <2>5, <2>6, <2>7, <2>8, <2>9, <2>10 DEF UpdateKept
<1> QED BY <1>1, <1>7, <1>8, UpdateKeeps

(* The attempted account is the last of those that were tried.             *)
LEMMA LastTried ==
  ASSUME RuntimeTypes, running.attempted # <<>>
  PROVE  Attempting \in Elements(running.attempted) /\ Attempting \in Unit
<1>1. running.attempted \in Seq(Unit) /\ Elements(running.attempted) \subseteq Unit
  BY JobFields DEF RuntimeTypes
<1> QED BY <1>1, Shortened DEF Attempting

(* The new container is created, or the update turns back.                 *)
LEMMA CreateNewKeeps == ASSUME RuntimeInv, CreateNew PROVE RuntimeInv'
<1>1. /\ running.kind = "update" /\ running.step = "create" /\ running.attempted # <<>>
      /\ UNCHANGED <<channel, pulled, rollbackRef, installed, rendered, imageState, projected,
                     failed>>
      /\ RuntimeTypes
  BY DEF CreateNew, UpdateAt, updateFrame, pluginFrame, RuntimeInv, RuntimeTypes, Goes, TurnsBack
<1> DEFINE u == Attempting
           new == Created(u, running.image)
<1>2. \/ cpa' = [cpa EXCEPT ![u] = new] /\ running' = [running EXCEPT !.step = "probe"]
      \/ cpa' = cpa /\ running' = [running EXCEPT !.step = "undo"]
  BY DEF CreateNew, Goes, TurnsBack
<1>3. u \in Elements(running.attempted) /\ u \in Unit
  BY <1>1, LastTried
<1>4. /\ new \in Container /\ new.state = "running" /\ new.image = running.image
      /\ new.plugin = rendered[u].version
  BY <1>1, <1>3, JobFields, ContainerMade DEF RuntimeTypes
<1> HIDE DEF u, new
<1>5. /\ running' \in RunningJob /\ running'.kind = "update" /\ running'.todo = running.todo
      /\ running'.target = running.target /\ running'.before = running.before
      /\ running'.image = running.image /\ running'.step \in {"probe", "undo"}
      /\ running'.attempted = running.attempted
      /\ running'.step = "probe" => cpa' = [cpa EXCEPT ![u] = new]
  <2>1. "probe" \in UpdateStep /\ "undo" \in UpdateStep
    BY DEF UpdateStep
  <2>2. CASE cpa' = [cpa EXCEPT ![u] = new] /\ running' = [running EXCEPT !.step = "probe"]
    BY <1>1, <2>1, <2>2, JobGoes
  <2>3. CASE cpa' = cpa /\ running' = [running EXCEPT !.step = "undo"]
    <3>1. /\ running' \in RunningJob /\ running'.kind = "update" /\ running'.todo = running.todo
          /\ running'.target = running.target /\ running'.before = running.before
          /\ running'.image = running.image /\ running'.step = "undo"
          /\ running'.attempted = running.attempted
      BY <1>1, <2>1, <2>3, JobGoes
    <3> QED BY ONLY <3>1
  <2> QED BY <1>2, <2>2, <2>3
<1>6. /\ cpa' \in [Unit -> Container] /\ \A v \in Unit \ {u} : cpa'[v] = cpa[v]
      /\ cpa'[u] = cpa[u] \/ cpa'[u] = new
      /\ running'.step = "probe" => cpa'[u] = new
  BY <1>1, <1>2, <1>3, <1>4, <1>5 DEF RuntimeTypes
<1>7. UpdateFrame
  <2>1. running'.step \in UpdateStep
    BY <1>5 DEF UpdateStep
  <2> QED BY <1>1, <1>5, <1>6, <2>1 DEF UpdateFrame, RuntimeTypes
<1>8. ASSUME ~failed PROVE UpdateKept'
  <2>1. UpdateKept
    BY <1>1, <1>8, UpdateKnown
  <2>2. \A v \in Unit : cpa'[v].state = "running" =>
            cpa'[v] = cpa[v] \/ cpa'[v].plugin = rendered[v].version
    BY <1>4, <1>6
  <2>3. /\ Replaceable' = Replaceable /\ Selected(running.target)' = Selected(running.target)
        /\ Selected(running.target) \subseteq Unit
    BY <1>7, UpdateTypes
  <2>4. Elements(running.attempted)' = Elements(running.attempted)
    BY <1>5 DEF Elements
  <2>6. \A v \in Selected(running.target) \ Elements(running.attempted) :
            cpa'[v] = running.before.unit[v]
    BY <1>3, <1>6, <2>1, <2>3 DEF UpdateKept
  <2>7. /\ Elements(running.attempted) \cup running.todo \subseteq Replaceable
        /\ Replaceable = Elements(running.attempted) \cup running.todo
    BY <1>1, <2>1 DEF UpdateKept
  <2>8. running'.step = "probe" =>
          \A v \in Elements(running.attempted) :
             cpa'[v].state = "running" /\ cpa'[v].image = running.image
    <3> SUFFICES ASSUME NEW v \in Elements(running.attempted), running'.step = "probe"
                 PROVE  cpa'[v].state = "running" /\ cpa'[v].image = running.image
      OBVIOUS
    <3>1. v \in Unit
      BY <1>1, JobFields DEF RuntimeTypes
    <3>2. v = u \/ (cpa[v].state = "running" /\ cpa[v].image = running.image)
      BY <1>1, <2>1 DEF UpdateKept, u
    <3> QED BY <1>4, <1>6, <3>1, <3>2
  <2>9. imageState = running.before.state /\ projected = running.before.file
    BY <1>1, <2>1 DEF UpdateKept
  <2>10. /\ \A v \in Unit : Pinned(v)'
         /\ AppliedProjected(running.before.state, running.before.file)'
         /\ \A v \in Selected(running.target) : running'.before.unit[v].state = "running" =>
                running'.before.unit[v].plugin = rendered'[v].version
         /\ \A v \in Replaceable : rollbackRef'[v] = running'.before.unit[v].image
    BY <1>7, <2>1, <2>2, UpdateSteady
  <2> QED BY <1>1, <1>5, <2>3, <2>4, <2>6, <2>7, <2>8, <2>9, <2>10 DEF UpdateKept
<1> QED BY <1>1, <1>7, <1>8, UpdateKeeps

(* Steps of an update that touch neither the accounts that are to do nor   *)
(* those that were tried.                                                  *)
SameWork ==
    running'.todo = running.todo /\ running'.attempted = running.attempted

LEMMA SameElements ==
  ASSUME SameWork PROVE Elements(running.attempted)' = Elements(running.attempted)
BY DEF SameWork, Elements

(* A container that does not answer turns the update back.                 *)
LEMMA ProbeNewKeeps == ASSUME RuntimeInv, ProbeNew PROVE RuntimeInv'
<1>1. /\ running.kind = "update" /\ running.step = "probe" /\ running.attempted # <<>>
      /\ UNCHANGED <<channel, pulled, rollbackRef, installed, rendered, imageState, projected,
                     failed>>
      /\ RuntimeTypes
  BY DEF ProbeNew, UpdateAt, updateFrame, pluginFrame, RuntimeInv, RuntimeTypes, Goes, TurnsBack
<1> DEFINE u == Attempting
           next == IF running.todo = {} THEN "record" ELSE "remove"
<1>2. \/ cpa' = cpa /\ running' = [running EXCEPT !.step = next]
      \/ /\ cpa' \in {cpa, [cpa EXCEPT ![u] = NoContainer]}
         /\ running' = [running EXCEPT !.step = "undo"]
  BY DEF ProbeNew, Goes, TurnsBack
<1>3. u \in Elements(running.attempted) /\ u \in Unit
  BY <1>1, LastTried
<1>4. NoContainer \in Container /\ NoContainer.state = "none"
  BY DEF Container, NoContainer
<1> HIDE DEF u
<1>5. \A step \in {next, "undo"} : running' = [running EXCEPT !.step = step] =>
        /\ running' \in RunningJob /\ running'.kind = "update" /\ SameWork
        /\ running'.target = running.target /\ running'.before = running.before
        /\ running'.image = running.image /\ running'.step = step
  <2>1. \A step \in {next, "undo"} : step \in UpdateStep
    BY DEF UpdateStep
  <2> QED BY <1>1, <2>1, JobGoes DEF SameWork
<1>6. /\ running' \in RunningJob /\ running'.kind = "update" /\ SameWork
      /\ running'.target = running.target /\ running'.before = running.before
      /\ running'.image = running.image
      /\ \/ running'.step = next /\ cpa' = cpa
         \/ running'.step = "undo" /\ cpa' \in {cpa, [cpa EXCEPT ![u] = NoContainer]}
  <2> HIDE DEF next
  <2> QED BY <1>2, <1>5
<1>7. /\ cpa' \in [Unit -> Container] /\ \A v \in Unit \ {u} : cpa'[v] = cpa[v]
      /\ cpa'[u] = cpa[u] \/ cpa'[u] = NoContainer
      /\ running'.step # "undo" => cpa' = cpa
  BY <1>1, <1>2, <1>3, <1>4, <1>6 DEF RuntimeTypes
<1>8. UpdateFrame
  <2>1. running'.step \in UpdateStep /\ running'.step \notin {"create", "probe"}
    BY <1>6 DEF UpdateStep
  <2> QED BY <1>1, <1>6, <1>7, <2>1 DEF UpdateFrame, RuntimeTypes
<1>9. ASSUME ~failed PROVE UpdateKept'
  <2>1. UpdateKept
    BY <1>1, <1>9, UpdateKnown
  <2>2. \A v \in Unit : cpa'[v].state = "running" => cpa'[v] = cpa[v]
    BY <1>4, <1>7
  <2>3. /\ Replaceable' = Replaceable /\ Selected(running.target)' = Selected(running.target)
        /\ Selected(running.target) \subseteq Unit
    BY <1>8, UpdateTypes
  <2>4. Elements(running.attempted)' = Elements(running.attempted)
    BY <1>6, SameElements
  <2>6. \A v \in Selected(running.target) \ Elements(running.attempted) :
            cpa'[v] = running.before.unit[v]
    BY <1>3, <1>7, <2>1, <2>3 DEF UpdateKept
  <2>7. /\ Elements(running.attempted) \cup running.todo \subseteq Replaceable
        /\ Replaceable = Elements(running.attempted) \cup running.todo
    BY <1>1, <2>1 DEF UpdateKept
  <2>8. running'.step # "undo" =>
          \A v \in Elements(running.attempted) :
             cpa'[v].state = "running" /\ cpa'[v].image = running.image
    BY <1>1, <1>7, <2>1 DEF UpdateKept
  <2>9. imageState = running.before.state /\ projected = running.before.file
    BY <1>1, <2>1 DEF UpdateKept
  <2>10. /\ \A v \in Unit : Pinned(v)'
         /\ AppliedProjected(running.before.state, running.before.file)'
         /\ \A v \in Selected(running.target) : running'.before.unit[v].state = "running" =>
                running'.before.unit[v].plugin = rendered'[v].version
         /\ \A v \in Replaceable : rollbackRef'[v] = running'.before.unit[v].image
    BY <1>8, <2>1, <2>2, UpdateSteady
  <2>11. \/ running'.step = "undo"
         \/ running'.step = "remove"
         \/ running'.step = "record" /\ running.todo = {}
    BY <1>6
  <2> QED BY <1>1, <1>6, <2>3, <2>4, <2>6, <2>7, <2>8, <2>9, <2>10, <2>11
      DEF UpdateKept, SameWork
<1> QED BY <1>1, <1>8, <1>9, UpdateKeeps

(* commitCPAImageApplied, first step.                                      *)
LEMMA RecordAppliedKeeps == ASSUME RuntimeInv, RecordApplied PROVE RuntimeInv'
<1>1. /\ running.kind = "update" /\ running.step = "record"
      /\ UNCHANGED <<channel, pulled, rollbackRef, installed, rendered, cpa, projected, failed>>
      /\ RuntimeTypes
  BY DEF RecordApplied, UpdateAt, updateFrame, pluginFrame, RuntimeInv, Goes, TurnsBack
<1> DEFINE recorded == [candidate |-> running.image, applied |-> running.image]
<1>2. \/ imageState' = recorded /\ running' = [running EXCEPT !.step = "project"]
      \/ imageState' = imageState /\ running' = [running EXCEPT !.step = "undo"]
  BY DEF RecordApplied, Goes, TurnsBack
<1>3. recorded \in Images /\ recorded.applied = running.image
  BY <1>1, JobFields DEF RuntimeTypes, Images
<1> HIDE DEF recorded
<1>5. \A step \in {"project", "undo"} : running' = [running EXCEPT !.step = step] =>
        /\ running' \in RunningJob /\ running'.kind = "update" /\ SameWork
        /\ running'.target = running.target /\ running'.before = running.before
        /\ running'.image = running.image /\ running'.step = step
  <2>1. \A step \in {"project", "undo"} : step \in UpdateStep
    BY DEF UpdateStep
  <2> QED BY <1>1, <2>1, JobGoes DEF SameWork
<1>6. /\ running' \in RunningJob /\ running'.kind = "update" /\ SameWork
      /\ running'.target = running.target /\ running'.before = running.before
      /\ running'.image = running.image
      /\ \/ running'.step = "project" /\ imageState' = recorded
         \/ running'.step = "undo" /\ imageState' = imageState
  BY <1>2, <1>5
<1>8. UpdateFrame
  <2>1. running'.step \in UpdateStep /\ running'.step \notin {"create", "probe"}
    BY <1>6 DEF UpdateStep
  <2>2. imageState' \in Images
    BY <1>1, <1>3, <1>6 DEF RuntimeTypes
  <2> QED BY <1>1, <1>6, <2>1, <2>2 DEF UpdateFrame, RuntimeTypes
<1>9. ASSUME ~failed PROVE UpdateKept'
  <2>1. UpdateKept
    BY <1>1, <1>9, UpdateKnown
  <2>3. /\ Replaceable' = Replaceable /\ Selected(running.target)' = Selected(running.target)
    BY <1>8, UpdateTypes
  <2>4. Elements(running.attempted)' = Elements(running.attempted)
    BY <1>6, SameElements
  <2>7. /\ Elements(running.attempted) \cup running.todo \subseteq Replaceable
        /\ Replaceable = Elements(running.attempted) \cup running.todo /\ running.todo = {}
        /\ \A v \in Elements(running.attempted) :
             cpa[v].state = "running" /\ cpa[v].image = running.image
        /\ \A v \in Selected(running.target) \ Elements(running.attempted) :
             cpa[v] = running.before.unit[v]
        /\ imageState = running.before.state /\ projected = running.before.file
    BY <1>1, <2>1 DEF UpdateKept
  <2>10. /\ \A v \in Unit : Pinned(v)'
         /\ AppliedProjected(running.before.state, running.before.file)'
         /\ \A v \in Selected(running.target) : running'.before.unit[v].state = "running" =>
                running'.before.unit[v].plugin = rendered'[v].version
         /\ \A v \in Replaceable : rollbackRef'[v] = running'.before.unit[v].image
    BY <1>1, <1>8, <2>1, UpdateSteady
  <2> QED BY <1>1, <1>3, <1>6, <2>3, <2>4, <2>7, <2>10 DEF UpdateKept, SameWork
<1> QED BY <1>1, <1>8, <1>9, UpdateKeeps

(* commitCPAImageApplied, second step: if it fails the record goes back.   *)
LEMMA ProjectCPAImageKeeps == ASSUME RuntimeInv, ProjectCPAImage PROVE RuntimeInv'
<1>1. /\ running.kind = "update" /\ running.step = "project"
      /\ UNCHANGED <<channel, pulled, rollbackRef, installed, rendered, cpa>>
      /\ RuntimeTypes
  BY DEF ProjectCPAImage, UpdateAt, updateFrame, pluginFrame, RuntimeInv
<1>2. \/ /\ projected' = running.image /\ UNCHANGED <<imageState, failed>>
         /\ running' = [running EXCEPT !.step = "done", !.outcome = "updated"]
      \/ /\ running' = [running EXCEPT !.step = "undo"] /\ projected' = projected
         /\ \/ imageState' = running.before.state /\ failed' = failed
            \/ failed' = TRUE /\ imageState' = imageState
  BY DEF ProjectCPAImage
<1>3. running.image \in Nat /\ running.before \in Before /\ running.before.state \in Images
  BY <1>1, JobFields DEF RuntimeTypes, Before
<1>4. ASSUME running' = [running EXCEPT !.step = "undo"]
      PROVE  /\ running' \in RunningJob /\ running'.kind = "update" /\ SameWork
             /\ running'.target = running.target /\ running'.before = running.before
             /\ running'.image = running.image /\ running'.step = "undo"
  <2>1. "undo" \in UpdateStep
    BY DEF UpdateStep
  <2> QED BY <1>1, <1>4, <2>1, JobGoes DEF SameWork
<1>5. ASSUME running' = [running EXCEPT !.step = "done", !.outcome = "updated"]
      PROVE  /\ running' \in RunningJob /\ running'.kind = "update" /\ SameWork
             /\ running'.target = running.target /\ running'.before = running.before
             /\ running'.image = running.image /\ running'.step = "done"
             /\ running'.outcome = "updated"
  BY <1>1, <1>5 DEF RuntimeTypes, RunningJob, UpdateStep, SameWork
<1>6. /\ running' \in RunningJob /\ running'.kind = "update" /\ SameWork
      /\ running'.target = running.target /\ running'.before = running.before
      /\ running'.image = running.image
      /\ \/ /\ running'.step = "done" /\ running'.outcome = "updated"
            /\ projected' = running.image /\ UNCHANGED <<imageState, failed>>
         \/ /\ running'.step = "undo" /\ projected' = projected
            /\ \/ imageState' = running.before.state /\ failed' = failed
               \/ failed' = TRUE /\ imageState' = imageState
  BY <1>2, <1>4, <1>5
<1>8. UpdateFrame
  <2>1. running'.step \in UpdateStep /\ running'.step \notin {"create", "probe"}
    BY <1>6 DEF UpdateStep
  <2>2. imageState' \in Images /\ projected' \in Nat
    BY <1>1, <1>3, <1>6 DEF RuntimeTypes
  <2>3. failed' = failed \/ failed' = TRUE
    BY <1>6
  <2>4. failed' \in BOOLEAN /\ (failed => failed')
    BY <1>1, <2>3, Zenon DEF RuntimeTypes
  <2> QED BY <1>1, <1>6, <2>1, <2>2, <2>4 DEF UpdateFrame, RuntimeTypes
<1>9. ASSUME ~failed' PROVE UpdateKept'
  <2>1. UpdateKept
    BY <1>1, <1>6, <1>8, <1>9, UpdateKnown DEF UpdateFrame
  <2>3. /\ Replaceable' = Replaceable /\ Selected(running.target)' = Selected(running.target)
    BY <1>8, UpdateTypes
  <2>4. Elements(running.attempted)' = Elements(running.attempted)
    BY <1>6, SameElements
  <2>7. /\ Elements(running.attempted) \cup running.todo \subseteq Replaceable
        /\ Replaceable = Elements(running.attempted) \cup running.todo /\ running.todo = {}
        /\ \A v \in Elements(running.attempted) :
             cpa[v].state = "running" /\ cpa[v].image = running.image
        /\ \A v \in Selected(running.target) \ Elements(running.attempted) :
             cpa[v] = running.before.unit[v]
        /\ imageState.applied = running.image /\ projected = running.before.file
    BY <1>1, <2>1 DEF UpdateKept
  <2>10. /\ \A v \in Unit : Pinned(v)'
         /\ AppliedProjected(running.before.state, running.before.file)'
         /\ \A v \in Selected(running.target) : running'.before.unit[v].state = "running" =>
                running'.before.unit[v].plugin = rendered'[v].version
         /\ \A v \in Replaceable : rollbackRef'[v] = running'.before.unit[v].image
    BY <1>1, <1>8, <2>1, UpdateSteady
  <2>11. \/ /\ running'.step = "done" /\ running'.outcome = "updated"
            /\ projected' = running.image /\ imageState' = imageState
         \/ /\ running'.step = "undo" /\ projected' = projected
            /\ imageState' = running.before.state
    BY <1>6, <1>9
  <2> QED BY <1>1, <1>6, <2>3, <2>4, <2>7, <2>10, <2>11 DEF UpdateKept, SameWork
<1> QED BY <1>8, <1>9, UpdateKeeps

(* rollbackCPAImages: the account that was tried last gets its old image   *)
(* and the plugin it is recorded with, which is what it had.               *)
LEMMA RollbackImagesKeeps == ASSUME RuntimeInv, RollbackImages PROVE RuntimeInv'
<1>1. /\ running.kind = "update" /\ running.step = "undo"
      /\ UNCHANGED <<channel, pulled, rollbackRef, installed, rendered, imageState, projected>>
      /\ RuntimeTypes
  BY DEF RollbackImages, UpdateAt, updateFrame, pluginFrame, RuntimeInv
<1>2. ASSUME ~failed
      PROVE  /\ UpdateKept /\ imageState = running.before.state /\ projected = running.before.file
             /\ Elements(running.attempted) \subseteq Replaceable
             /\ \A v \in Selected(running.target) \ Elements(running.attempted) :
                   cpa[v] = running.before.unit[v]
  BY <1>1, <1>2, UpdateKnown DEF UpdateKept
<1>3. CASE running.attempted = <<>>
  <2>1. /\ running' = [running EXCEPT !.step = "done", !.outcome = "restored"]
        /\ UNCHANGED <<cpa, failed>>
    BY <1>3 DEF RollbackImages
  <2>2. /\ running' \in RunningJob /\ running'.kind = "update" /\ SameWork
        /\ running'.target = running.target /\ running'.before = running.before
        /\ running'.image = running.image /\ running'.step = "done"
        /\ running'.outcome = "restored"
    BY <1>1, <2>1 DEF RuntimeTypes, RunningJob, UpdateStep, SameWork
  <2>3. UpdateFrame
    <3>1. running'.step \in UpdateStep /\ running'.step \notin {"create", "probe"}
      BY <2>2 DEF UpdateStep
    <3> QED BY <1>1, <2>1, <2>2, <3>1 DEF UpdateFrame, RuntimeTypes
  <2>4. ASSUME ~failed PROVE UpdateKept'
    <3>1. Elements(running.attempted) = {}
      BY <1>3 DEF Elements
    <3>2. Elements(running.attempted)' = {}
      BY <2>2, <3>1, SameElements
    <3>3. /\ Replaceable' = Replaceable /\ Selected(running.target)' = Selected(running.target)
      BY <2>3, UpdateTypes
    <3>4. running.todo \subseteq Replaceable
      BY <1>2, <2>4 DEF UpdateKept
    <3>5. /\ \A v \in Unit : Pinned(v)'
          /\ AppliedProjected(running.before.state, running.before.file)'
          /\ \A v \in Selected(running.target) : running'.before.unit[v].state = "running" =>
                 running'.before.unit[v].plugin = rendered'[v].version
          /\ \A v \in Replaceable : rollbackRef'[v] = running'.before.unit[v].image
      BY <1>2, <2>1, <2>3, <2>4, UpdateSteady
    <3> QED BY <1>1, <1>2, <2>1, <2>2, <2>4, <3>1, <3>2, <3>3, <3>4, <3>5 DEF UpdateKept, SameWork
  <2> QED BY <2>1, <2>3, <2>4, UpdateKeeps
<1>4. CASE running.attempted # <<>>
  <2> DEFINE u == Attempting
             rest == SubSeq(running.attempted, 1, Len(running.attempted) - 1)
             restored == Created(u, rollbackRef[u])
  <2>1. /\ running' = [running EXCEPT !.attempted = rest]
        /\ \/ cpa' = [cpa EXCEPT ![u] = restored] /\ failed' = failed
           \/ /\ failed' = TRUE
              /\ \E left \in {cpa[u], NoContainer, restored} : cpa' = [cpa EXCEPT ![u] = left]
    BY <1>4 DEF RollbackImages
  <2>2. running.attempted \in Seq(Unit) /\ u \in Elements(running.attempted) /\ u \in Unit
    BY <1>1, <1>4, LastTried, JobFields DEF RuntimeTypes
  <2>3. /\ rest \in Seq(Unit) /\ Elements(rest) \subseteq Elements(running.attempted)
        /\ Elements(running.attempted) \subseteq Elements(rest) \cup {u}
    BY <1>4, <2>2, Shortened DEF Attempting
  <2>4. /\ restored \in Container /\ restored.state = "running"
        /\ restored.image = rollbackRef[u] /\ restored.plugin = rendered[u].version
        /\ cpa[u] \in Container /\ NoContainer \in Container
    <3>1. rollbackRef[u] \in Nat
      BY <1>1, <2>2 DEF RuntimeTypes
    <3> QED BY <1>1, <2>2, <3>1, ContainerMade
  <2> HIDE DEF u, rest, restored
  <2>5. /\ running' \in RunningJob /\ running'.kind = "update" /\ running'.step = "undo"
        /\ running'.target = running.target /\ running'.before = running.before
        /\ running'.image = running.image /\ running'.todo = running.todo
        /\ running'.attempted = rest
    BY <1>1, <2>1, <2>3 DEF RuntimeTypes, RunningJob
  <2>6. cpa' \in [Unit -> Container]
    BY <1>1, <2>1, <2>2, <2>4 DEF RuntimeTypes
  <2>7. UpdateFrame
    <3>1. running'.step \in UpdateStep /\ running'.step \notin {"create", "probe"}
      BY <2>5 DEF UpdateStep
    <3>2. failed' = failed \/ failed' = TRUE
      BY <2>1
    <3>3. failed' \in BOOLEAN /\ (failed => failed')
      BY <1>1, <3>2, Zenon DEF RuntimeTypes
    <3> QED BY <1>1, <2>5, <2>6, <3>1, <3>3 DEF UpdateFrame, RuntimeTypes
  <2>8. ASSUME ~failed' PROVE UpdateKept'
    <3>0. ~failed /\ UpdateKept
      BY <1>2, <2>7, <2>8 DEF UpdateFrame
    <3>1. cpa' = [cpa EXCEPT ![u] = restored] /\ cpa'[u] = restored
          /\ \A v \in Unit \ {u} : cpa'[v] = cpa[v]
      BY <1>1, <2>1, <2>2, <2>8 DEF RuntimeTypes
    <3>2. /\ Replaceable' = Replaceable /\ Selected(running.target)' = Selected(running.target)
          /\ Replaceable \subseteq Selected(running.target)
          /\ Selected(running.target) \subseteq Unit
      BY <2>7, UpdateTypes
    <3>3. u \in Replaceable
      BY <1>2, <2>2, <3>0
    <3>4. restored = running.before.unit[u]
      <4>1. running.before.unit[u] \in Container /\ running.before.unit[u].state = "running"
        BY <1>1, <2>2, <3>3 DEF RuntimeTypes, Before, Replaceable
      <4>2. running.before.unit[u].image = rollbackRef[u]
            /\ running.before.unit[u].plugin = rendered[u].version
        BY <3>0, <3>2, <3>3, <4>1 DEF UpdateKept
      <4> QED BY <2>4, <4>1, <4>2 DEF Container
    <3>5. \A v \in Selected(running.target) \ Elements(rest) : cpa'[v] = running.before.unit[v]
      BY <1>2, <2>3, <3>0, <3>1, <3>2, <3>4
    <3>6. Elements(running.attempted)' = Elements(rest)
      BY <2>5 DEF Elements
    <3>7. Elements(rest) \cup running.todo \subseteq Replaceable
      BY <2>3, <3>0 DEF UpdateKept
    <3>8. \A v \in Unit : cpa'[v].state = "running" =>
              cpa'[v] = cpa[v] \/ cpa'[v].plugin = rendered[v].version
      BY <2>4, <3>1
    <3>9. /\ \A v \in Unit : Pinned(v)'
          /\ AppliedProjected(running.before.state, running.before.file)'
          /\ \A v \in Selected(running.target) : running'.before.unit[v].state = "running" =>
                 running'.before.unit[v].plugin = rendered'[v].version
          /\ \A v \in Replaceable : rollbackRef'[v] = running'.before.unit[v].image
      BY <2>7, <3>0, <3>8, UpdateSteady
    <3> QED BY <1>1, <1>2, <2>5, <3>0, <3>2, <3>5, <3>6, <3>7, <3>9 DEF UpdateKept
  <2> QED BY <2>7, <2>8, UpdateKeeps
<1> QED BY <1>3, <1>4

(* The answer: whatever the outcome, plugins and Compose environment are   *)
(* as between jobs.                                                        *)
LEMMA EndUpdateKeeps == ASSUME RuntimeInv, EndUpdate PROVE RuntimeInv'
<1>1. /\ running.kind = "update" /\ running.step = "done" /\ running' = NoJob
      /\ UNCHANGED <<channel, pulled, rollbackRef, installed, rendered, imageState, projected,
                     cpa, failed>>
      /\ RuntimeTypes
  BY DEF EndUpdate, UpdateAt, updateFrame, pluginFrame, RuntimeInv
<1>2. RuntimeTypes' /\ running'.kind = "none"
  BY <1>1, NothingRuns DEF RuntimeTypes
<1>3. ASSUME ~failed
      PROVE  (\A u \in Unit : Pinned(u)) /\ AppliedProjected(imageState, projected)
  <2>1. UpdateKept
    BY <1>1, <1>3, UpdateKnown
  <2>2. AppliedProjected(imageState, projected)
    BY <1>1, <2>1 DEF UpdateKept, AppliedProjected
  <2> QED BY <2>1, <2>2 DEF UpdateKept
<1> QED BY <1>1, <1>2, <1>3, IdleKeeps DEF Pinned, AppliedProjected

(* A plugin is installed on one CPA.                                       *)
PluginFrame ==
    /\ RuntimeTypes /\ running.kind = "plugin"
    /\ UNCHANGED <<channel, pulled, projected, imageState, rollbackRef>>

LEMMA PluginKnown ==
  ASSUME RuntimeInv, running.kind = "plugin", ~failed PROVE PluginKept
BY DEF RuntimeInv, RuntimeFacts

LEMMA BeginPluginKeeps == ASSUME RuntimeInv, BeginPlugin PROVE RuntimeInv'
<1>1. /\ running.kind = "none" /\ RuntimeTypes
      /\ UNCHANGED <<channel, pulled, projected, imageState, rollbackRef, cpa, rendered, failed>>
  BY DEF BeginPlugin, imageFrame, installFrame, RuntimeInv
<1>2. PICK u \in EnabledUnit :
        /\ running' = [NoJob EXCEPT !.kind = "plugin", !.target = u, !.step = "render",
                                    !.previous = installed[u]]
        /\ installed' = [installed EXCEPT ![u] = [version |-> @.version + 1, staging |-> TRUE]]
  BY DEF BeginPlugin
<1>3. u \in Unit /\ installed[u] \in Plugin /\ installed[u].version \in Nat
  BY <1>1, CpaRuntimeAssumption DEF RuntimeTypes, Plugin
<1>4. installed' \in [Unit -> Plugin] /\ \A v \in Unit \ {u} : installed'[v] = installed[v]
  <2> DEFINE staged == [version |-> installed[u].version + 1, staging |-> TRUE]
  <2>1. staged \in Plugin
    BY <1>3 DEF Plugin
  <2>2. installed' = [installed EXCEPT ![u] = staged] /\ installed \in [Unit -> Plugin]
    BY <1>1, <1>2 DEF RuntimeTypes
  <2> HIDE DEF staged
  <2> QED BY <1>3, <2>1, <2>2
<1>5. /\ running' \in RunningJob /\ running'.kind = "plugin" /\ running'.step = "render"
      /\ running'.target = u /\ running'.previous = installed[u]
  BY <1>2, <1>3, NothingRuns DEF NoJob, RunningJob, PluginStep
<1>6. RuntimeTypes'
  BY <1>1, <1>4, <1>5 DEF RuntimeTypes, PluginStep
<1>7. ASSUME ~failed PROVE PluginKept'
  <2>1. (\A v \in Unit : Pinned(v)) /\ AppliedProjected(imageState, projected)
    BY <1>1, <1>7 DEF RuntimeInv, RuntimeFacts
  <2>2. \A v \in Unit \ {u} : Pinned(v)'
    BY <1>1, <1>4, <2>1 DEF Pinned
  <2>3. ~installed[u].staging
    BY <1>3, <2>1 DEF Pinned
  <2> QED BY <1>1, <1>5, <2>1, <2>2, <2>3 DEF PluginKept, AppliedProjected
<1> QED BY <1>1, <1>5, <1>6, <1>7 DEF RuntimeInv, RuntimeFacts

(* A step that goes on to another step of the installation.                *)
LEMMA PluginMoves ==
  ASSUME PluginFrame, NEW step \in PluginStep, running' = [running EXCEPT !.step = step],
         cpa' \in [Unit -> Container], installed' \in [Unit -> Plugin],
         rendered' \in [Unit -> Plugin], failed' = failed,
         ~failed => /\ PluginKept
                    /\ \A v \in Unit \ {running.target} : Pinned(v)'
                    /\ step \in {"restart", "verify"} =>
                          rendered'[running.target] = installed'[running.target]
                    /\ step \in {"verify", "publish"} =>
                          cpa'[running.target].plugin = installed'[running.target].version
                    /\ step = "publish" => ~installed'[running.target].staging
  PROVE  RuntimeInv'
<1>1. RuntimeTypes
  BY DEF PluginFrame
<1>2. /\ running' \in RunningJob /\ running'.step = step /\ running'.kind = "plugin"
      /\ running'.target = running.target /\ running'.previous = running.previous
  BY <1>1, JobGoes DEF PluginFrame
<1>3. RuntimeTypes'
  BY <1>1, <1>2 DEF PluginFrame, RuntimeTypes
<1>4. ~failed => PluginKept'
  BY <1>2 DEF PluginFrame, PluginKept, AppliedProjected
<1> QED BY <1>2, <1>3, <1>4 DEF RuntimeInv, RuntimeFacts

LEMMA RenderPluginKeeps == ASSUME RuntimeInv, RenderPlugin PROVE RuntimeInv'
<1>1. /\ PluginFrame /\ UNCHANGED <<cpa, installed, failed>>
      /\ RuntimeTypes
  BY DEF RenderPlugin, PluginAt, PluginFrame, RuntimeInv, imageFrame, installFrame, PluginGoes,
         PluginBack
<1>2. \/ rendered' = installed /\ running' = [running EXCEPT !.step = "restart"]
      \/ rendered' = rendered /\ running' = [running EXCEPT !.step = "reset"]
  BY DEF RenderPlugin, Renders, PluginGoes, PluginBack
<1>3. "restart" \in PluginStep /\ "reset" \in PluginStep
  BY DEF PluginStep
<1>4. ~failed => PluginKept /\ \A v \in Unit \ {running.target} : Pinned(v)'
  BY <1>1, <1>2, PluginKnown DEF PluginFrame, PluginKept, Pinned
<1>5. running.target \in Unit /\ cpa \in [Unit -> Container] /\ installed \in [Unit -> Plugin]
      /\ rendered \in [Unit -> Plugin]
  BY <1>1, CpaRuntimeAssumption DEF PluginFrame, RuntimeTypes
<1> QED BY <1>1, <1>2, <1>3, <1>4, <1>5, PluginMoves

LEMMA RestartPluginKeeps == ASSUME RuntimeInv, RestartPlugin PROVE RuntimeInv'
<1>1. /\ PluginFrame /\ UNCHANGED <<installed, rendered, failed>>
      /\ RuntimeTypes /\ running.step = "restart"
  BY DEF RestartPlugin, PluginAt, PluginFrame, RuntimeInv, imageFrame, installFrame, PluginGoes,
         PluginBack
<1> DEFINE u == running.target
           new == Started(cpa[u], u)
<1>2. \/ cpa' = [cpa EXCEPT ![u] = new] /\ running' = [running EXCEPT !.step = "verify"]
      \/ cpa' \in {cpa, [cpa EXCEPT ![u] = new]} /\ running' = [running EXCEPT !.step = "reset"]
  BY DEF RestartPlugin, Target, PluginGoes, PluginBack
<1>3. "verify" \in PluginStep /\ "reset" \in PluginStep
  BY DEF PluginStep
<1>4. u \in Unit /\ cpa \in [Unit -> Container] /\ installed \in [Unit -> Plugin]
      /\ rendered \in [Unit -> Plugin]
  BY <1>1, CpaRuntimeAssumption DEF PluginFrame, RuntimeTypes
<1>5. new \in Container /\ new.plugin = rendered[u].version
  BY <1>1, <1>4, ContainerMade
<1> HIDE DEF new
<1>6. cpa' \in [Unit -> Container] /\ \A v \in Unit \ {u} : cpa'[v] = cpa[v]
  BY <1>2, <1>4, <1>5
<1>7. ~failed => /\ PluginKept /\ rendered[u] = installed[u]
                 /\ \A v \in Unit \ {u} : Pinned(v)'
  BY <1>1, <1>6, PluginKnown DEF PluginFrame, PluginKept, Pinned
<1>8. CASE cpa' = [cpa EXCEPT ![u] = new] /\ running' = [running EXCEPT !.step = "verify"]
  <2>1. cpa'[u] = new
    BY <1>4, <1>8
  <2> QED BY <1>1, <1>3, <1>4, <1>5, <1>6, <1>7, <1>8, <2>1, PluginMoves
<1>9. CASE running' = [running EXCEPT !.step = "reset"]
  BY <1>1, <1>3, <1>4, <1>6, <1>7, <1>9, PluginMoves
<1> QED BY <1>2, <1>8, <1>9

LEMMA PinPluginKeeps == ASSUME RuntimeInv, PinPlugin PROVE RuntimeInv'
<1>1. /\ PluginFrame /\ UNCHANGED <<cpa, rendered, failed>>
      /\ RuntimeTypes /\ running.step = "verify"
  BY DEF PinPlugin, PluginAt, PluginFrame, RuntimeInv, imageFrame, installFrame, PluginGoes,
         PluginBack
<1> DEFINE u == running.target
<1>2. \/ /\ installed' = [installed EXCEPT ![u].staging = FALSE]
         /\ running' = [running EXCEPT !.step = "publish"]
      \/ installed' = installed /\ running' = [running EXCEPT !.step = "reset"]
  BY DEF PinPlugin, Target, PluginGoes, PluginBack
<1>3. "publish" \in PluginStep /\ "reset" \in PluginStep
  BY DEF PluginStep
<1>4. u \in Unit /\ cpa \in [Unit -> Container] /\ installed \in [Unit -> Plugin]
      /\ rendered \in [Unit -> Plugin]
  BY <1>1, CpaRuntimeAssumption DEF PluginFrame, RuntimeTypes
<1>5. installed' \in [Unit -> Plugin] /\ \A v \in Unit \ {u} : installed'[v] = installed[v]
  BY <1>2, <1>4 DEF Plugin
<1>6. ~failed => /\ PluginKept /\ cpa[u].plugin = installed[u].version
                 /\ \A v \in Unit \ {u} : Pinned(v)'
  BY <1>1, <1>5, PluginKnown DEF PluginFrame, PluginKept, Pinned
<1>7. CASE /\ installed' = [installed EXCEPT ![u].staging = FALSE]
           /\ running' = [running EXCEPT !.step = "publish"]
  <2>1. installed'[u].version = installed[u].version /\ ~installed'[u].staging
    BY <1>4, <1>7 DEF Plugin
  <2> QED BY <1>1, <1>3, <1>4, <1>5, <1>6, <1>7, <2>1, PluginMoves
<1>8. CASE running' = [running EXCEPT !.step = "reset"]
  BY <1>1, <1>3, <1>4, <1>5, <1>6, <1>8, PluginMoves
<1> QED BY <1>2, <1>7, <1>8

(* The pinned plugin is rendered, and the job is over.                     *)
LEMMA RenderPinnedKeeps == ASSUME RuntimeInv, RenderPinned PROVE RuntimeInv'
<1>1. /\ PluginFrame /\ UNCHANGED <<cpa, installed, failed>>
      /\ RuntimeTypes /\ running.step = "publish"
  BY DEF RenderPinned, PluginAt, PluginFrame, RuntimeInv, imageFrame, installFrame, PluginBack
<1>2. \/ rendered' = installed /\ running' = NoJob
      \/ rendered' = rendered /\ running' = [running EXCEPT !.step = "reset"]
  BY DEF RenderPinned, Renders, PluginBack
<1>3. "reset" \in PluginStep
  BY DEF PluginStep
<1>4. running.target \in Unit /\ cpa \in [Unit -> Container] /\ installed \in [Unit -> Plugin]
      /\ rendered \in [Unit -> Plugin]
  BY <1>1, CpaRuntimeAssumption DEF PluginFrame, RuntimeTypes
<1>5. ~failed => /\ PluginKept
                 /\ \A v \in Unit \ {running.target} : Pinned(v) /\ Pinned(v)'
                 /\ cpa[running.target].plugin = installed[running.target].version
                 /\ ~installed[running.target].staging
                 /\ AppliedProjected(imageState, projected)
  BY <1>1, <1>2, PluginKnown DEF PluginFrame, PluginKept, Pinned
<1>6. CASE rendered' = installed /\ running' = NoJob
  <2>1. RuntimeTypes' /\ running'.kind = "none"
    BY <1>1, <1>4, <1>6, NothingRuns DEF PluginFrame, RuntimeTypes
  <2>2. ~failed => \A v \in Unit : Pinned(v)'
    BY <1>1, <1>4, <1>5, <1>6 DEF Pinned
  <2>3. ~failed => AppliedProjected(imageState, projected)'
    BY <1>1, <1>5 DEF PluginFrame, AppliedProjected
  <2> QED BY <1>1, <2>1, <2>2, <2>3, IdleKeeps
<1>7. CASE rendered' = rendered /\ running' = [running EXCEPT !.step = "reset"]
  BY <1>1, <1>3, <1>4, <1>5, <1>7, PluginMoves
<1> QED BY <1>2, <1>6, <1>7

(* The rollback: what was recorded is rendered and runs again.             *)
LEMMA ResetPluginKeeps == ASSUME RuntimeInv, ResetPlugin PROVE RuntimeInv'
<1>1. /\ PluginFrame /\ RuntimeTypes /\ running' = NoJob
  BY DEF ResetPlugin, PluginAt, PluginFrame, RuntimeInv, imageFrame, installFrame
<1> DEFINE u == running.target
           old == running.previous
<1>2. u \in Unit /\ cpa \in [Unit -> Container] /\ installed \in [Unit -> Plugin]
      /\ rendered \in [Unit -> Plugin] /\ old \in Plugin /\ old.version \in Nat
  BY <1>1, CpaRuntimeAssumption, JobFields DEF PluginFrame, RuntimeTypes
<1>3. [installed EXCEPT ![u] = old] \in [Unit -> Plugin]
  BY <1>2
<1>4. CASE /\ installed' = [installed EXCEPT ![u] = old] /\ rendered' = installed'
           /\ cpa' = [cpa EXCEPT ![u].state = "running", ![u].plugin = old.version]
           /\ failed' = failed
  <2>1. /\ cpa' \in [Unit -> Container] /\ \A v \in Unit \ {u} : cpa'[v] = cpa[v]
        /\ cpa'[u].plugin = old.version
    BY <1>2, <1>4 DEF Container
  <2>2. RuntimeTypes' /\ running'.kind = "none"
    BY <1>1, <1>3, <1>4, <2>1, NothingRuns DEF PluginFrame, RuntimeTypes
  <2>3. ASSUME ~failed
        PROVE  (\A v \in Unit : Pinned(v)') /\ AppliedProjected(imageState, projected)'
    <3>1. PluginKept
      BY <1>1, <2>3, PluginKnown DEF PluginFrame
    <3>2. AppliedProjected(imageState, projected)' /\ ~old.staging
      BY <1>1, <3>1 DEF PluginFrame, PluginKept, AppliedProjected
    <3>3. \A v \in Unit \ {u} : Pinned(v)'
      BY <1>2, <1>4, <2>1, <3>1 DEF PluginKept, Pinned
    <3>4. \A v \in Unit : v = u => Pinned(v)'
      <4>1. rendered'[u] = old /\ installed'[u] = old
        BY <1>2, <1>4
      <4> QED BY <2>1, <3>2, <4>1 DEF Pinned
    <3> QED BY <3>2, <3>3, <3>4
  <2> QED BY <1>4, <2>2, <2>3, IdleKeeps
<1>5. CASE /\ failed' = TRUE /\ cpa' = cpa
           /\ installed' \in {installed, [installed EXCEPT ![u] = old]}
           /\ rendered' \in {rendered, installed'}
  <2>1. RuntimeTypes'
    BY <1>1, <1>2, <1>3, <1>5, NothingRuns DEF PluginFrame, RuntimeTypes
  <2> QED BY <1>5, <2>1 DEF RuntimeInv
<1> QED BY <1>4, <1>5 DEF ResetPlugin, Target

(* CPA containers: the invariant holds in every reachable state.           *)
THEOREM RuntimeInductive == RuntimeSpec => []RuntimeInv
<1>1. RuntimeInit => RuntimeInv
  <2> SUFFICES ASSUME RuntimeInit PROVE RuntimeInv
    OBVIOUS
  <2>1. running = NoJob /\ running.kind = "none" /\ running \in RunningJob
    BY NothingRuns DEF RuntimeInit
  <2>2. RuntimeTypes
    <3>1. channel \in Nat /\ pulled \in Nat /\ projected \in Nat /\ imageState \in Images
      BY DEF RuntimeInit, Images
    <3>2. cpa \in [Unit -> Container] /\ rollbackRef \in [Unit -> Nat]
      BY DEF RuntimeInit, Container
    <3>3. installed \in [Unit -> Plugin] /\ rendered \in [Unit -> Plugin]
      BY DEF RuntimeInit, Plugin, NoPlugin
    <3>4. failed \in BOOLEAN
      BY DEF RuntimeInit
    <3> QED BY <2>1, <3>1, <3>2, <3>3, <3>4 DEF RuntimeTypes
  <2>3. RuntimeFacts
    BY <2>1 DEF RuntimeInit, RuntimeFacts, Pinned, AppliedProjected, NoPlugin
  <2> QED BY <2>2, <2>3 DEF RuntimeInv
<1>2. RuntimeInv /\ [RuntimeNext]_runtimeVars => RuntimeInv'
  <2> SUFFICES ASSUME RuntimeInv, [RuntimeNext]_runtimeVars PROVE RuntimeInv'
    OBVIOUS
  <2>1. CASE UNCHANGED runtimeVars
    <3>1. UNCHANGED <<channel, pulled, imageState, projected, cpa, rollbackRef, installed,
                      rendered, running, failed>>
      BY <2>1 DEF runtimeVars
    <3>2. RuntimeTypes'
      BY <3>1 DEF RuntimeInv, RuntimeTypes
    <3>3. RuntimeFacts => RuntimeFacts'
      BY <3>1 DEF RuntimeFacts, UpdateKept, PluginKept, Pinned, AppliedProjected, Replaceable,
                  Selected, Attempting
    <3> QED BY <3>1, <3>2, <3>3 DEF RuntimeInv
  <2>2. CASE UpdateSteps
    BY <2>2, BeginUpdateKeeps, BeginUpdateFailsKeeps, RemoveOldKeeps, CreateNewKeeps,
       ProbeNewKeeps, RecordAppliedKeeps, ProjectCPAImageKeeps, RollbackImagesKeeps,
       EndUpdateKeeps DEF UpdateSteps
  <2>3. CASE PluginSteps
    BY <2>3, BeginPluginKeeps, RenderPluginKeeps, RestartPluginKeeps, PinPluginKeeps,
       RenderPinnedKeeps, ResetPluginKeeps DEF PluginSteps
  <2> QED BY <2>1, <2>2, <2>3, ChannelMovesKeeps, PullKeeps, OperateKeeps,
             CreateAccountContainerKeeps, AdminFallsKeeps DEF RuntimeNext
<1> QED BY <1>1, <1>2, PTL DEF RuntimeSpec

LEMMA InvGivesConsistent == RuntimeInv => RuntimeConsistent
<1> SUFFICES ASSUME RuntimeInv PROVE RuntimeConsistent
  OBVIOUS
<1>1. RuntimeTypes
  BY DEF RuntimeInv
<1>2. RuntimeSettled
  <2> SUFFICES ASSUME running.kind = "none", ~failed
               PROVE  /\ rendered = installed
                      /\ \A u \in Unit : /\ ~installed[u].staging
                                         /\ cpa[u].state = "running" =>
                                               cpa[u].plugin = installed[u].version
                      /\ imageState.applied # 0 => projected = imageState.applied
    BY DEF RuntimeSettled
  <2>1. (\A u \in Unit : Pinned(u)) /\ AppliedProjected(imageState, projected)
    BY DEF RuntimeInv, RuntimeFacts
  <2>2. rendered = installed
    BY <1>1, <2>1 DEF RuntimeTypes, Pinned
  <2> QED BY <2>1, <2>2 DEF Pinned, AppliedProjected
<1>3. UpdateAllOrNothing
  <2> SUFFICES ASSUME running.kind = "update", running.step = "done", ~failed
               PROVE  UpdateAllOrNothing
    BY DEF UpdateAllOrNothing, UpdateAt
  <2>1. UpdateKept
    BY UpdateKnown
  <2> DEFINE units == Selected(running.target)
             tried == Elements(running.attempted)
  <2>2. CASE running.outcome = "updated"
    <3>1. /\ Replaceable = tried /\ imageState.applied = running.image
          /\ projected = running.image
          /\ \A u \in tried : cpa[u].state = "running" /\ cpa[u].image = running.image
          /\ \A u \in units \ tried : cpa[u] = running.before.unit[u]
      BY <2>1, <2>2 DEF UpdateKept
    <3>2. ASSUME NEW u \in units, running.before.unit[u].state = "running"
          PROVE  cpa[u].state = "running" /\ cpa[u].image = running.image
      <4>1. CASE u \in tried
        BY <3>1, <4>1
      <4>2. CASE u \notin tried
        <5>1. running.before.unit[u].image = running.image
          BY <3>1, <3>2, <4>2 DEF Replaceable
        <5> QED BY <3>1, <3>2, <4>2, <5>1
      <4> QED BY <4>1, <4>2
    <3> HIDE DEF tried
    <3> QED BY <2>2, <3>1, <3>2 DEF UpdateAllOrNothing, Target
  <2>3. CASE running.outcome # "updated"
    <3>1. /\ tried = {} /\ imageState = running.before.state /\ projected = running.before.file
          /\ \A u \in units \ tried : cpa[u] = running.before.unit[u]
      BY <2>1, <2>3 DEF UpdateKept
    <3> QED BY <2>3, <3>1 DEF UpdateAllOrNothing, Target
  <2> QED BY <2>2, <2>3
<1> QED BY <1>2, <1>3 DEF RuntimeConsistent

(* Images and plugins: an update of CPAs ends with all of them on the new  *)
(* image, recorded and projected, or with everything as it was, and        *)
(* between jobs every running CPA has the plugin it is recorded with.      *)
THEOREM UpdatesAreAtomic == RuntimeSpec => []RuntimeConsistent
BY RuntimeInductive, InvGivesConsistent, PTL

-----------------------------------------------------------------------------
(***************************************************************************)
(* The settings of a site and their effects.                               *)
(***************************************************************************)

Rows == [Field -> Value]
Effected == {"listen", "retry", "headers", "policy", "interval"}
EffectStep == {"environment", "render", "restart", "collector", "publish"}
ChangeStep == {"idle", "normalize", "save", "apply", "restore", "down"}
Effect == [listen : Value, retry : Value, headers : Value, running : [Upstream -> Value],
           policy : Value, interval : Value]
Change == [step : ChangeStep, base : {<<>>} \cup Rows, next : {<<>>} \cup Rows,
           fields : SUBSET Field, todo : SUBSET EffectStep, left : SUBSET Upstream,
           undoing : BOOLEAN]

SettingsTypes ==
    /\ settings \in Rows /\ effect \in Effect /\ change \in Change /\ disturbed \in BOOLEAN
    /\ change.step \in {"normalize", "save", "apply", "restore"} => change.base \in Rows
    /\ change.step = "apply" => change.next \in Rows

Alike(rows, others, fields) == \A f \in fields : rows[f] = others[f]

(* Whatever these steps do not have to bring about is as the rows say.     *)
MatchesIn(what, steps, units, rows) ==
    /\ "environment" \notin steps => what.listen = rows["listen"]
    /\ "render" \notin steps => what.retry = rows["retry"] /\ what.headers = rows["headers"]
    /\ \A u \in Upstream : "restart" \notin steps \/ u \notin units =>
          what.running[u] = rows["retry"]
    /\ "collector" \notin steps => what.interval = rows["interval"]
    /\ "publish" \notin steps => what.policy = rows["policy"]
Matches(steps, units, rows) == MatchesIn(effect, steps, units, rows)

ChangeKept ==
    /\ change.todo \subseteq Needed(change.fields)
    /\ Matches(Needed(change.fields), Upstream, change.base)
    /\ Alike(settings, change.base, Effected \ change.fields)
    /\ change.step = "apply" =>
          /\ Matches(change.todo, change.left, settings)
          /\ Alike(settings, change.next, Effected)

SettingsFacts ==
    /\ change.step \notin {"apply", "restore"} => Matches({}, {}, settings)
    /\ change.step \in {"normalize", "save"} => Alike(settings, change.base, Effected)
    /\ change.step \in {"apply", "restore"} => ChangeKept

SettingsInv == SettingsTypes /\ (~disturbed => SettingsFacts)

LEMMA NeededSteps ==
  ASSUME NEW fields \in SUBSET Field
  PROVE  /\ Needed(fields) \subseteq EffectStep
         /\ "listen" \in fields => "environment" \in Needed(fields)
         /\ "retry" \in fields => "render" \in Needed(fields) /\ "restart" \in Needed(fields)
         /\ "headers" \in fields => "render" \in Needed(fields)
         /\ "interval" \in fields => "collector" \in Needed(fields)
         /\ "policy" \in fields => "publish" \in Needed(fields)
BY DEF Needed, EffectStep

LEMMA NoChangeTypes ==
  /\ NoChange \in Change /\ NoChange.step = "idle"
  /\ [NoChange EXCEPT !.step = "down"] \in Change
  /\ [NoChange EXCEPT !.step = "down"].step = "down"
<1>1. <<>> \in {<<>>} \cup Rows
  OBVIOUS
<1>2. {} \in SUBSET Field /\ {} \in SUBSET EffectStep /\ {} \in SUBSET Upstream
  OBVIOUS
<1>3. "idle" \in ChangeStep /\ "down" \in ChangeStep
  BY DEF ChangeStep
<1> HIDE DEF Rows
<1>4. NoChange \in Change /\ NoChange.step = "idle"
  BY <1>1, <1>2, <1>3 DEF NoChange, Change
<1> QED BY <1>3, <1>4 DEF Change

LEMMA ChangeGoes ==
  ASSUME change \in Change, NEW step \in ChangeStep, change' = [change EXCEPT !.step = step]
  PROVE  /\ change' \in Change /\ change'.step = step /\ change'.base = change.base
         /\ change'.next = change.next /\ change'.fields = change.fields
         /\ change'.todo = change.todo /\ change'.left = change.left
BY DEF Change

LEMMA RowsAre == \A rows \in Rows, f \in Effected : rows[f] \in Value /\ f \in Field
BY DEF Rows, Effected, Field, Central, General

(* Rows that agree on what has an effect are matched alike.                *)
LEMMA AlikeMatches ==
  ASSUME NEW rows, NEW others, NEW steps, NEW units,
         Alike(rows, others, Effected), Matches(steps, units, rows)
  PROVE  Matches(steps, units, others)
BY DEF Alike, Matches, MatchesIn, Effected

LEMMA EffectMatches ==
  ASSUME effect \in Effect
  PROVE  Matches({}, {}, settings) <=> effect = EffectOf(settings)
<1>1. ASSUME Matches({}, {}, settings) PROVE effect = EffectOf(settings)
  <2>1. effect.running = [u \in Upstream |-> settings["retry"]]
    <3>1. effect.running \in [Upstream -> Value]
      BY DEF Effect
    <3>2. \A u \in Upstream : effect.running[u] = settings["retry"]
      BY <1>1 DEF Matches, MatchesIn
    <3> QED BY <3>1, <3>2
  <2>2. /\ effect.listen = settings["listen"] /\ effect.retry = settings["retry"]
        /\ effect.headers = settings["headers"] /\ effect.policy = settings["policy"]
        /\ effect.interval = settings["interval"]
    BY <1>1 DEF Matches, MatchesIn
  <2> QED BY <2>1, <2>2 DEF Effect, EffectOf
<1>2. ASSUME effect = EffectOf(settings) PROVE Matches({}, {}, settings)
  BY <1>2 DEF Matches, MatchesIn, EffectOf
<1> QED BY <1>1, <1>2

(* Requests that leave the effects, the change and every field with an     *)
(* effect alone.                                                           *)
LEMMA PagesKeep ==
  ASSUME SettingsInv, UNCHANGED <<effect, change, disturbed>>, settings' \in Rows,
         Alike(settings', settings, Effected)
  PROVE  SettingsInv'
<1>1. SettingsTypes'
  BY DEF SettingsInv, SettingsTypes
<1>2. ASSUME NEW steps, NEW units, Matches(steps, units, settings)
      PROVE  Matches(steps, units, settings)'
  BY <1>2 DEF Matches, MatchesIn, Alike, Effected
<1>3. ASSUME SettingsFacts PROVE SettingsFacts'
  <2>1. change.step \notin {"apply", "restore"} => Matches({}, {}, settings)'
    BY <1>2, <1>3 DEF SettingsFacts
  <2>2. change.step \in {"normalize", "save"} => Alike(settings, change.base, Effected)'
    BY <1>3 DEF SettingsFacts, Alike
  <2>3. ASSUME ChangeKept PROVE ChangeKept'
    <3>1. Matches(Needed(change.fields), Upstream, change.base)'
      BY <2>3 DEF ChangeKept, Matches, MatchesIn, Needed
    <3>2. Alike(settings, change.base, Effected \ change.fields)'
      BY <2>3 DEF ChangeKept, Alike
    <3>3. change.step = "apply" => Alike(settings, change.next, Effected)'
      BY <2>3 DEF ChangeKept, Alike
    <3>4. change.step = "apply" => Matches(change.todo, change.left, settings)'
      BY <2>3 DEF ChangeKept, Matches, MatchesIn, Alike, Effected
    <3>5. change'.todo \subseteq Needed(change.fields)'
      BY <2>3 DEF ChangeKept, Needed
    <3> QED BY <3>1, <3>2, <3>3, <3>4, <3>5 DEF ChangeKept
  <2> QED BY <1>3, <2>1, <2>2, <2>3 DEF SettingsFacts
<1> QED BY <1>1, <1>3 DEF SettingsInv

LEMMA UpdatedElsewhere ==
  ASSUME settings \in Rows, NEW fields, NEW value \in Value, Updated(fields, value),
         fields \cap Effected = {}
  PROVE  settings' \in Rows /\ Alike(settings', settings, Effected)
<1>1. settings' \in Rows
  BY DEF Updated, Rows
<1>2. Alike(settings', settings, Effected)
  BY RowsAre DEF Updated, Alike
<1> QED BY <1>1, <1>2

LEMMA NarrowPagesKeep ==
  ASSUME SettingsInv,
         \/ UpdateGeneralSettings \/ UpdateOnboardingPreferences \/ UpdateNotificationSettings
         \/ UpdateWebhook \/ ClearWebhook \/ DisableNotifications
  PROVE  SettingsInv'
<1>1. UNCHANGED <<effect, change, disturbed>> /\ settings \in Rows
  BY DEF UpdateGeneralSettings, UpdateOnboardingPreferences, UpdateNotificationSettings,
         UpdateWebhook, ClearWebhook, DisableNotifications, pageFrame, SettingsInv, SettingsTypes
<1>2. General \cap Effected = {} /\ {"skipped"} \cap Effected = {} /\ {"notify"} \cap Effected = {}
  BY DEF General, Effected
<1>3. \/ settings' = settings
      \/ \E fields \in {General, {"skipped"}, {"notify"}}, value \in Value : Updated(fields, value)
  BY DEF UpdateGeneralSettings, UpdateOnboardingPreferences, UpdateNotificationSettings,
         UpdateWebhook, ClearWebhook, DisableNotifications, Value
<1>4. settings' \in Rows /\ Alike(settings', settings, Effected)
  BY <1>1, <1>2, <1>3, UpdatedElsewhere DEF Alike
<1> QED BY <1>1, <1>4, PagesKeep

(* No change is under way afterwards, and none was before or the effects   *)
(* are those of the settings all the same.                                 *)
LEMMA RestingKeeps ==
  ASSUME settings' \in Rows, effect' \in Effect, disturbed' \in BOOLEAN,
         change' \in Change, change'.step \in {"idle", "down"},
         ~disturbed' => Matches({}, {}, settings)'
  PROVE  SettingsInv'
BY DEF SettingsInv, SettingsTypes, SettingsFacts

LEMMA ReadConfigurationKeeps == ASSUME SettingsInv, ReadConfiguration PROVE SettingsInv'
<1>1. /\ change.step = "idle" /\ SettingsTypes
      /\ UNCHANGED <<settings, effect, disturbed>>
  BY DEF ReadConfiguration, SettingsInv
<1>2. settings \in {<<>>} \cup Rows /\ Central \subseteq Field
      /\ {"normalize", "save"} \subseteq ChangeStep
  BY <1>1 DEF Field, ChangeStep, SettingsTypes
<1>3. ASSUME \E fields \in (SUBSET Central) \ {{}} :
               change' = [NoChange EXCEPT !.step = IF legacy THEN "normalize" ELSE "save",
                                          !.base = settings, !.fields = fields]
      PROVE  change' \in Change /\ change'.step \in {"normalize", "save"}
             /\ change'.base = settings
  <2>1. PICK fields \in SUBSET Field, step \in {"normalize", "save"} :
          change' = [NoChange EXCEPT !.step = step, !.base = settings, !.fields = fields]
    BY <1>2, <1>3
  <2>2. change' \in Change /\ change'.step = step /\ change'.base = settings
    BY <1>2, <2>1, NoChangeTypes DEF Change
  <2> QED BY <2>2
<1>4. ASSUME change' = [NoChange EXCEPT !.step = "normalize", !.base = settings]
      PROVE  change' \in Change /\ change'.step = "normalize" /\ change'.base = settings
  BY <1>2, <1>4, NoChangeTypes DEF Change
<1>5. change' \in Change /\ change'.step \in {"normalize", "save"} /\ change'.base = settings
  BY <1>3, <1>4 DEF ReadConfiguration
<1>6. SettingsTypes'
  BY <1>1, <1>5 DEF SettingsTypes
<1>7. ASSUME ~disturbed PROVE SettingsFacts'
  <2>1. Matches({}, {}, settings)
    BY <1>1, <1>7 DEF SettingsInv, SettingsFacts
  <2>2. Matches({}, {}, settings)'
    BY <1>1, <2>1 DEF Matches, MatchesIn
  <2>3. Alike(settings, change.base, Effected)'
    BY <1>1, <1>5 DEF Alike
  <2> QED BY <1>5, <2>2, <2>3 DEF SettingsFacts
<1> QED BY <1>1, <1>6, <1>7 DEF SettingsInv

LEMMA NormalizeKeeps == ASSUME SettingsInv, Normalize PROVE SettingsInv'
<1>1. /\ change.step = "normalize" /\ SettingsTypes /\ change.base \in Rows
      /\ UNCHANGED <<effect, disturbed>>
  BY DEF Normalize, SettingsInv, SettingsTypes
<1>2. ~disturbed => Matches({}, {}, settings) /\ Alike(settings, change.base, Effected)
  BY <1>1 DEF SettingsInv, SettingsFacts
<1>3. settings' \in {settings, change.base}
      /\ (change' = NoChange \/ (settings' = change.base /\ change' = [change EXCEPT !.step = "save"]))
  BY DEF Normalize, Replaced
<1>4. settings' \in Rows /\ (~disturbed => Alike(settings, settings', Effected))
  BY <1>1, <1>2, <1>3 DEF SettingsTypes, Alike
<1>5. ~disturbed => Matches({}, {}, settings)'
  <2>1. ~disturbed => Matches({}, {}, settings')
    BY <1>2, <1>4, AlikeMatches
  <2> QED BY <1>1, <2>1 DEF Matches, MatchesIn
<1>6. CASE change' = NoChange
  BY <1>1, <1>4, <1>5, <1>6, NoChangeTypes, RestingKeeps DEF SettingsTypes
<1>7. CASE settings' = change.base /\ change' = [change EXCEPT !.step = "save"]
  <2>1. change' \in Change /\ change'.step = "save" /\ change'.base = change.base
    BY <1>1, <1>7, ChangeGoes DEF SettingsTypes, ChangeStep
  <2>2. SettingsTypes'
    BY <1>1, <1>4, <2>1 DEF SettingsTypes
  <2>3. Alike(settings, change.base, Effected)'
    BY <1>7, <2>1 DEF Alike
  <2> QED BY <1>1, <1>5, <2>1, <2>2, <2>3 DEF SettingsInv, SettingsFacts
<1> QED BY <1>3, <1>6, <1>7

(* All effects of the changed fields are to do, the others are as they     *)
(* were and as they are to be.                                             *)
LEMMA SaveConfigurationKeeps == ASSUME SettingsInv, SaveConfiguration PROVE SettingsInv'
<1> DEFINE next == [f \in Field |-> IF f \in change.fields THEN 1 - change.base[f]
                                    ELSE change.base[f]]
           N == Needed(change.fields)
<1>1. /\ change.step = "save" /\ SettingsTypes /\ change.base \in Rows
      /\ change.fields \in SUBSET Field /\ UNCHANGED <<effect, disturbed>>
  BY DEF SaveConfiguration, SettingsInv, SettingsTypes, Change
<1>2. ~disturbed => Matches({}, {}, settings) /\ Alike(settings, change.base, Effected)
  BY <1>1 DEF SettingsInv, SettingsFacts
<1>3. \/ change' = NoChange /\ settings' = settings
      \/ /\ settings' = next
         /\ change' = [change EXCEPT !.step = "apply", !.next = next, !.todo = N, !.left = Upstream]
  BY DEF SaveConfiguration, Replaced
<1>4. CASE change' = NoChange /\ settings' = settings
  <2>1. ~disturbed => Matches({}, {}, settings)'
    BY <1>1, <1>2, <1>4 DEF Matches, MatchesIn
  <2> QED BY <1>1, <1>4, <2>1, NoChangeTypes, RestingKeeps DEF SettingsTypes
<1>5. CASE /\ settings' = next
           /\ change' = [change EXCEPT !.step = "apply", !.next = next, !.todo = N, !.left = Upstream]
  <2>1. next \in Rows
    BY <1>1 DEF Rows, Value
  <2>2. N \subseteq EffectStep
    BY <1>1, NeededSteps
  <2>3. \A f \in Effected \ change.fields : next[f] = change.base[f]
    BY RowsAre DEF Effected, Field, Central
  <2> HIDE DEF next, N
  <2>4. /\ change' \in Change /\ change'.step = "apply" /\ change'.next = next /\ change'.todo = N
        /\ change'.left = Upstream /\ change'.base = change.base /\ change'.fields = change.fields
    BY <1>1, <1>5, <2>1, <2>2 DEF SettingsTypes, Change, ChangeStep
  <2>5. SettingsTypes'
    BY <1>1, <1>5, <2>1, <2>4 DEF SettingsTypes
  <2>6. ASSUME ~disturbed PROVE ChangeKept'
    <3>1. Matches({}, {}, change.base)
      BY <1>2, <2>6, AlikeMatches
    <3>2. Matches(N, Upstream, change.base)
      BY <3>1 DEF Matches, MatchesIn
    <3>3. Matches(N, Upstream, next)
      <4>1. \A f \in Effected : f \notin change.fields => next[f] = change.base[f]
        BY <2>3
      <4>2. /\ "environment" \notin N => "listen" \notin change.fields
            /\ "render" \notin N => "retry" \notin change.fields /\ "headers" \notin change.fields
            /\ "restart" \notin N => "retry" \notin change.fields
            /\ "collector" \notin N => "interval" \notin change.fields
            /\ "publish" \notin N => "policy" \notin change.fields
        BY <1>1, NeededSteps DEF N
      <4> QED BY <3>1, <4>1, <4>2 DEF Matches, MatchesIn, Effected
    <3>4. Needed(change.fields)' = N
      BY <2>4 DEF Needed, N
    <3>5. Matches(Needed(change.fields), Upstream, change.base)'
      BY <1>1, <2>4, <3>2, <3>4 DEF Matches, MatchesIn
    <3>6. Matches(change.todo, change.left, settings)'
      BY <1>1, <1>5, <2>4, <3>3 DEF Matches, MatchesIn
    <3>7. Alike(settings, change.base, Effected \ change.fields)'
      BY <1>5, <2>3, <2>4 DEF Alike
    <3>8. Alike(settings, change.next, Effected)'
      BY <1>5, <2>4 DEF Alike
    <3> QED BY <2>4, <3>4, <3>5, <3>6, <3>7, <3>8 DEF ChangeKept
  <2> QED BY <1>1, <2>4, <2>5, <2>6 DEF SettingsInv, SettingsFacts
<1> QED BY <1>3, <1>4, <1>5

(* An effect fails, for the first time or while the change is taken back.  *)
LEMMA FailureKeeps ==
  ASSUME SettingsInv, change.step = "apply", NotApplied, settings' = settings,
         effect' \in Effect,
         ChangeKept => MatchesIn(effect', Needed(change.fields), Upstream, change.base)
  PROVE  SettingsInv'
<1>1. SettingsTypes /\ (~disturbed => ChangeKept)
  BY DEF SettingsInv, SettingsFacts
<1>2. CASE change.undoing
  <2>1. change' = NoChange /\ disturbed' = TRUE
    BY <1>2 DEF NotApplied
  <2>2. SettingsTypes'
    BY <1>1, <2>1, NoChangeTypes DEF SettingsTypes
  <2> QED BY <2>1, <2>2 DEF SettingsInv
<1>3. CASE ~change.undoing
  <2>1. change' = [change EXCEPT !.step = "restore"]
    BY <1>3 DEF NotApplied
  <2>2. disturbed' = disturbed
    <3>1. disturbed \in BOOLEAN /\ disturbed' = (disturbed \/ change.undoing)
      BY <1>1 DEF NotApplied, SettingsTypes
    <3> QED BY <1>3, <3>1, Zenon
  <2>3. change' \in Change /\ change'.step = "restore" /\ change'.base = change.base
        /\ change'.fields = change.fields /\ change'.todo = change.todo
    BY <1>1, <2>1, ChangeGoes DEF SettingsTypes, ChangeStep
  <2>4. SettingsTypes'
    BY <1>1, <2>2, <2>3 DEF SettingsTypes
  <2>5. ASSUME ~disturbed PROVE ChangeKept'
    <3>1. Needed(change.fields)' = Needed(change.fields)
      BY <2>3 DEF Needed
    <3>2. Matches(Needed(change.fields), Upstream, change.base)'
      BY <1>1, <2>3, <2>5, <3>1 DEF Matches, MatchesIn
    <3>3. Alike(settings, change.base, Effected \ change.fields)'
      BY <1>1, <2>3, <2>5 DEF ChangeKept, Alike
    <3> QED BY <1>1, <2>3, <2>5, <3>1, <3>2, <3>3 DEF ChangeKept
  <2> QED BY <2>2, <2>3, <2>4, <2>5 DEF SettingsInv, SettingsFacts
<1> QED BY <1>2, <1>3

(* An effect succeeds, for one CPA or as a whole.                          *)
LEMMA SuccessKeeps ==
  ASSUME SettingsInv, change.step = "apply", UNCHANGED <<settings, disturbed>>,
         effect' \in Effect, NEW todo \in SUBSET change.todo, NEW left \in SUBSET change.left,
         change' = [change EXCEPT !.todo = todo, !.left = left],
         ChangeKept => /\ MatchesIn(effect', Needed(change.fields), Upstream, change.base)
                       /\ MatchesIn(effect', todo, left, settings)
  PROVE  SettingsInv'
<1>1. SettingsTypes /\ (~disturbed => ChangeKept)
  BY DEF SettingsInv, SettingsFacts
<1>2. /\ change' \in Change /\ change'.step = "apply" /\ change'.base = change.base
      /\ change'.fields = change.fields /\ change'.todo = todo /\ change'.left = left
      /\ change'.next = change.next
  BY <1>1 DEF SettingsTypes, Change
<1>3. SettingsTypes'
  BY <1>1, <1>2 DEF SettingsTypes
<1>4. ASSUME ~disturbed PROVE ChangeKept'
  <2>1. Needed(change.fields)' = Needed(change.fields)
    BY <1>2 DEF Needed
  <2>2. Alike(settings, change.base, Effected \ change.fields)'
    BY <1>1, <1>2, <1>4 DEF ChangeKept, Alike
  <2>3. Alike(settings, change.next, Effected)'
    BY <1>1, <1>2, <1>4 DEF ChangeKept, Alike
  <2>4. /\ Matches(change.todo, change.left, settings)'
        /\ Matches(Needed(change.fields), Upstream, change.base)'
    BY <1>1, <1>2, <1>4, <2>1 DEF Matches, MatchesIn
  <2>5. change'.todo \subseteq Needed(change.fields)'
    BY <1>1, <1>2, <1>4, <2>1 DEF ChangeKept
  <2> QED BY <1>1, <1>4, <2>2, <2>3, <2>4, <2>5 DEF ChangeKept
<1> QED BY <1>2, <1>3, <1>4 DEF SettingsInv, SettingsFacts

(* applyConfigurationChange: the steps leave what they do not bring about  *)
(* alone.                                                                  *)
LEMMA ApplyConfigurationKeeps == ASSUME SettingsInv, ApplyConfiguration PROVE SettingsInv'
<1> DEFINE N == Needed(change.fields)
           Refreshed == [effect EXCEPT !.retry = settings["retry"],
                                       !.headers = settings["headers"]]
           Published == [effect EXCEPT !.policy = settings["policy"]]
<1>1. /\ settings' = settings /\ SettingsTypes /\ effect \in Effect /\ change \in Change
      /\ settings \in Rows /\ change.step = "apply"
  BY DEF ApplyConfiguration, SettingsInv, SettingsTypes, ProjectEnvironment, RefreshAccounts,
         RestartUpstreams, RestartCollector, PublishPolicy, Applying
<1>2. ChangeKept => /\ MatchesIn(effect, N, Upstream, change.base) /\ change.todo \subseteq N
                    /\ MatchesIn(effect, change.todo, change.left, settings)
                    /\ Alike(settings, change.next, Effected)
  BY <1>1 DEF ChangeKept, Matches
<1> HIDE DEF N
<1>3. ASSUME NEW step \in change.todo, Applied(step), effect' \in Effect,
             ChangeKept => /\ MatchesIn(effect', N, Upstream, change.base)
                           /\ MatchesIn(effect', change.todo \ {step}, change.left, settings)
      PROVE  SettingsInv'
  <2>1. change' = [change EXCEPT !.todo = change.todo \ {step}, !.left = change.left]
    BY <1>1, <1>3 DEF Applied, Change
  <2>2. disturbed' = disturbed
    BY <1>3 DEF Applied
  <2> QED BY <1>1, <1>3, <2>1, <2>2, SuccessKeeps DEF N
<1>4. ASSUME NotApplied, effect' = effect PROVE SettingsInv'
  BY <1>1, <1>2, <1>4, FailureKeeps DEF N
<1>5. \A f \in Effected : settings[f] \in Value /\ (ChangeKept => change.next[f] = settings[f])
  BY <1>1, <1>2, RowsAre DEF Alike
<1>6. CASE ProjectEnvironment
  <2>1. CASE Applied("environment") /\ effect' = [effect EXCEPT !.listen = change.next["listen"]]
    <3>1. change.next["listen"] \in Value
      BY <1>1, RowsAre DEF SettingsTypes, Effected
    <3>2. effect' \in Effect /\ effect'.listen = change.next["listen"]
          /\ effect'.retry = effect.retry /\ effect'.headers = effect.headers
          /\ effect'.running = effect.running /\ effect'.policy = effect.policy
          /\ effect'.interval = effect.interval
      BY <1>1, <2>1, <3>1 DEF Effect
    <3>3. "environment" \in change.todo
      BY <1>6 DEF ProjectEnvironment, Applying
    <3>4. ChangeKept => /\ MatchesIn(effect', N, Upstream, change.base)
                        /\ MatchesIn(effect', change.todo \ {"environment"}, change.left, settings)
      BY <1>2, <1>5, <3>2, <3>3 DEF MatchesIn, Effected
    <3> QED BY <1>3, <2>1, <3>2, <3>3, <3>4
  <2> QED BY <1>4, <1>6, <2>1 DEF ProjectEnvironment
<1>7. CASE RefreshAccounts
  <2>1. CASE Applied("render") /\ effect' = Refreshed
    <3>1. effect' \in Effect /\ effect'.retry = settings["retry"]
          /\ effect'.headers = settings["headers"] /\ effect'.listen = effect.listen
          /\ effect'.running = effect.running /\ effect'.policy = effect.policy
          /\ effect'.interval = effect.interval
      BY <1>1, <1>5, <2>1 DEF Effect, Effected
    <3>3. "render" \in change.todo
      BY <1>7 DEF RefreshAccounts, Applying
    <3>4. ChangeKept => /\ MatchesIn(effect', N, Upstream, change.base)
                        /\ MatchesIn(effect', change.todo \ {"render"}, change.left, settings)
      BY <1>2, <3>1, <3>3 DEF MatchesIn
    <3> QED BY <1>3, <2>1, <3>1, <3>3, <3>4
  <2> QED BY <1>4, <1>7, <2>1 DEF RefreshAccounts
<1>8. CASE RestartUpstreams
  <2>0. "restart" \in change.todo /\ (ChangeKept => "render" \notin change.todo)
    BY <1>1, <1>8 DEF RestartUpstreams, Applying, EffectOrder
  <2>1. ASSUME NEW u \in change.left, effect' = [effect EXCEPT !.running[u] = effect.retry],
               change' = [change EXCEPT !.left = @ \ {u}], disturbed' = disturbed
        PROVE  SettingsInv'
    <3>1. u \in Upstream
      BY <1>1 DEF Change
    <3>2. effect' \in Effect /\ effect'.retry = effect.retry
          /\ effect'.headers = effect.headers /\ effect'.listen = effect.listen
          /\ effect'.policy = effect.policy /\ effect'.interval = effect.interval
          /\ effect'.running[u] = effect.retry
          /\ \A v \in Upstream \ {u} : effect'.running[v] = effect.running[v]
      BY <1>1, <2>1, <3>1 DEF Effect
    <3>3. ChangeKept => /\ MatchesIn(effect', N, Upstream, change.base)
                        /\ MatchesIn(effect', change.todo, change.left \ {u}, settings)
      BY <1>2, <2>0, <3>2 DEF MatchesIn
    <3>4. change' = [change EXCEPT !.todo = change.todo, !.left = change.left \ {u}]
      BY <1>1, <2>1 DEF Change
    <3> QED BY <1>1, <2>1, <3>2, <3>3, <3>4, SuccessKeeps DEF N
  <2>2. CASE change.left = {} /\ Applied("restart") /\ effect' = effect
    <3>1. ChangeKept => /\ MatchesIn(effect', N, Upstream, change.base)
                        /\ MatchesIn(effect', change.todo \ {"restart"}, change.left, settings)
      BY <1>2, <2>0, <2>2 DEF MatchesIn
    <3> QED BY <1>1, <1>3, <2>0, <2>2, <3>1
  <2> QED BY <1>4, <1>8, <2>1, <2>2 DEF RestartUpstreams
<1>9. CASE RestartCollector
  <2>1. CASE Applied("collector") /\ effect' = [effect EXCEPT !.interval = settings["interval"]]
    <3>1. effect' \in Effect /\ effect'.interval = settings["interval"]
          /\ effect'.retry = effect.retry /\ effect'.headers = effect.headers
          /\ effect'.running = effect.running /\ effect'.policy = effect.policy
          /\ effect'.listen = effect.listen
      BY <1>1, <1>5, <2>1 DEF Effect, Effected
    <3>3. "collector" \in change.todo
      BY <1>9 DEF RestartCollector, Applying
    <3>4. ChangeKept => /\ MatchesIn(effect', N, Upstream, change.base)
                        /\ MatchesIn(effect', change.todo \ {"collector"}, change.left, settings)
      BY <1>2, <3>1, <3>3 DEF MatchesIn
    <3> QED BY <1>3, <2>1, <3>1, <3>3, <3>4
  <2> QED BY <1>4, <1>9, <2>1 DEF RestartCollector
<1>10. CASE PublishPolicy
  <2>1. Published \in Effect /\ Published.policy = settings["policy"]
        /\ Published.retry = effect.retry /\ Published.headers = effect.headers
        /\ Published.running = effect.running /\ Published.interval = effect.interval
        /\ Published.listen = effect.listen
    BY <1>1, <1>5 DEF Effect, Effected
  <2> HIDE DEF Published
  <2>2. "publish" \in change.todo
    BY <1>10 DEF PublishPolicy, Applying
  <2>3. ChangeKept => /\ MatchesIn(Published, N, Upstream, change.base)
                      /\ MatchesIn(Published, change.todo \ {"publish"}, change.left, settings)
    BY <1>2, <2>1, <2>2 DEF MatchesIn
  <2>4. CASE Applied("publish") /\ effect' = Published
    BY <1>3, <2>1, <2>2, <2>3, <2>4
  <2>5. CASE NotApplied /\ effect' = Published
    BY <1>1, <2>1, <2>3, <2>5, FailureKeeps DEF N
  <2> QED BY <1>4, <1>10, <2>4, <2>5 DEF PublishPolicy, Published
<1> QED BY <1>6, <1>7, <1>8, <1>9, <1>10 DEF ApplyConfiguration

(* The settings go back, and all effects of the changed fields are to do.  *)
LEMMA RestoreConfigurationKeeps == ASSUME SettingsInv, RestoreConfiguration PROVE SettingsInv'
<1> DEFINE N == Needed(change.fields)
<1>1. /\ change.step = "restore" /\ SettingsTypes /\ change.base \in Rows
      /\ change.fields \in SUBSET Field /\ effect' = effect
      /\ change' = [change EXCEPT !.step = "apply", !.undoing = TRUE, !.next = change.base,
                                  !.todo = N, !.left = Upstream]
  BY DEF RestoreConfiguration, SettingsInv, SettingsTypes, Change
<1>2. N \subseteq EffectStep
  BY <1>1, NeededSteps
<1> HIDE DEF N
<1>3. /\ change' \in Change /\ change'.step = "apply" /\ change'.next = change.base
      /\ change'.todo = N /\ change'.left = Upstream /\ change'.base = change.base
      /\ change'.fields = change.fields
  BY <1>1, <1>2 DEF SettingsTypes, Change, ChangeStep
<1>4. CASE settings' = change.base /\ disturbed' = disturbed
  <2>1. SettingsTypes'
    BY <1>1, <1>3, <1>4 DEF SettingsTypes
  <2>2. ASSUME ~disturbed PROVE ChangeKept'
    <3>1. MatchesIn(effect, N, Upstream, change.base)
      BY <1>1, <2>2 DEF SettingsInv, SettingsFacts, ChangeKept, Matches, N
    <3>2. Needed(change.fields)' = N
      BY <1>3 DEF Needed, N
    <3>3. /\ Matches(Needed(change.fields), Upstream, change.base)'
          /\ Matches(change.todo, change.left, settings)'
      BY <1>1, <1>3, <1>4, <3>1, <3>2 DEF Matches, MatchesIn
    <3>4. /\ Alike(settings, change.base, Effected \ change.fields)'
          /\ Alike(settings, change.next, Effected)'
      BY <1>3, <1>4 DEF Alike
    <3> QED BY <1>3, <3>2, <3>3, <3>4 DEF ChangeKept
  <2> QED BY <1>3, <1>4, <2>1, <2>2 DEF SettingsInv, SettingsFacts
<1>5. CASE settings' = settings /\ disturbed' = TRUE
  <2>1. SettingsTypes'
    BY <1>1, <1>3, <1>5 DEF SettingsTypes
  <2> QED BY <1>5, <2>1 DEF SettingsInv
<1> QED BY <1>4, <1>5 DEF RestoreConfiguration, Replaced

LEMMA AnswerKeeps == ASSUME SettingsInv, Answer PROVE SettingsInv'
<1>1. /\ change.step = "apply" /\ change.todo = {} /\ change' = NoChange /\ SettingsTypes
      /\ UNCHANGED <<settings, effect, disturbed>>
  BY DEF Answer, SettingsInv
<1>2. ~disturbed => Matches({}, {}, settings)
  BY <1>1 DEF SettingsInv, SettingsFacts, ChangeKept, Matches, MatchesIn
<1>3. ~disturbed => Matches({}, {}, settings)'
  BY <1>1, <1>2 DEF Matches, MatchesIn
<1> QED BY <1>1, <1>3, NoChangeTypes, RestingKeeps DEF SettingsTypes

LEMMA AdminDiesKeeps == ASSUME SettingsInv, AdminDies PROVE SettingsInv'
<1>1. /\ change' = [NoChange EXCEPT !.step = "down"] /\ SettingsTypes
      /\ UNCHANGED <<settings, effect>>
      /\ disturbed' = (disturbed \/ change.step \in {"apply", "restore"})
  BY DEF AdminDies, SettingsInv
<1>2. disturbed' \in BOOLEAN /\ (~disturbed' => ~disturbed /\ change.step \notin {"apply", "restore"})
  BY <1>1, Zenon
<1>3. ~disturbed' => Matches({}, {}, settings)
  BY <1>2 DEF SettingsInv, SettingsFacts
<1>4. ~disturbed' => Matches({}, {}, settings)'
  BY <1>1, <1>3 DEF Matches, MatchesIn
<1> QED BY <1>1, <1>2, <1>4, NoChangeTypes, RestingKeeps DEF SettingsTypes

(* The accounts are rendered as they are.                                  *)
LEMMA AdminStartsKeeps == ASSUME SettingsInv, AdminStarts PROVE SettingsInv'
<1>1. /\ change.step = "down" /\ change' = NoChange /\ SettingsTypes
      /\ UNCHANGED <<settings, disturbed>>
      /\ effect' = [effect EXCEPT !.retry = settings["retry"], !.headers = settings["headers"]]
      /\ settings["retry"] \in Value /\ settings["headers"] \in Value
  BY RowsAre DEF AdminStarts, SettingsInv, SettingsTypes, Effected
<1>2. effect' \in Effect
      /\ effect'.retry = settings["retry"] /\ effect'.headers = settings["headers"]
      /\ effect'.listen = effect.listen /\ effect'.running = effect.running
      /\ effect'.policy = effect.policy /\ effect'.interval = effect.interval
  BY <1>1 DEF SettingsTypes, Effect
<1>3. ~disturbed => Matches({}, {}, settings)
  BY <1>1 DEF SettingsInv, SettingsFacts
<1>4. ~disturbed => Matches({}, {}, settings)'
  BY <1>1, <1>2, <1>3 DEF Matches, MatchesIn
<1> QED BY <1>1, <1>2, <1>4, NoChangeTypes, RestingKeeps DEF SettingsTypes

(* Settings: the invariant holds in every reachable state.                 *)
THEOREM SettingsInductive == SettingsSpec => []SettingsInv
<1>1. SettingsInit => SettingsInv
  <2> SUFFICES ASSUME SettingsInit PROVE SettingsInv
    OBVIOUS
  <2>1. settings \in Rows
    BY DEF SettingsInit, Rows, Value
  <2>2. effect \in Effect
    <3>1. \A f \in Effected : settings[f] \in Value
      BY <2>1, RowsAre
    <3> QED BY <3>1 DEF SettingsInit, EffectOf, Effect, Effected
  <2>3. SettingsTypes
    BY <2>1, <2>2, NoChangeTypes DEF SettingsInit, SettingsTypes
  <2>4. Matches({}, {}, settings)
    BY <2>2, EffectMatches DEF SettingsInit
  <2> QED BY <2>3, <2>4, NoChangeTypes DEF SettingsInit, SettingsInv, SettingsFacts
<1>2. SettingsInv /\ [SettingsNext]_settingsVars => SettingsInv'
  <2> SUFFICES ASSUME SettingsInv, [SettingsNext]_settingsVars PROVE SettingsInv'
    OBVIOUS
  <2>1. CASE UNCHANGED settingsVars
    <3>1. UNCHANGED <<settings, effect, change, disturbed>> /\ settings \in Rows
      BY <2>1 DEF settingsVars, SettingsInv, SettingsTypes
    <3>2. Alike(settings', settings, Effected)
      BY <3>1 DEF Alike
    <3> QED BY <3>1, <3>2, PagesKeep
  <2> QED BY <2>1, ReadConfigurationKeeps, NormalizeKeeps, SaveConfigurationKeeps,
             ApplyConfigurationKeeps, RestoreConfigurationKeeps, AnswerKeeps, NarrowPagesKeep,
             AdminDiesKeeps, AdminStartsKeeps DEF SettingsNext
<1> QED BY <1>1, <1>2, PTL DEF SettingsSpec

(* Settings and effects: a change is applied as a whole or taken back as a *)
(* whole; when none is under way, the rest of the site is what the         *)
(* settings say (updateConfiguration, ApplyConfiguration).                 *)
THEOREM ChangesAreAtomic == SettingsSpec => []EffectsAgree
<1>1. SettingsInv => EffectsAgree
  <2> SUFFICES ASSUME SettingsInv, change.step = "idle", ~disturbed
               PROVE  effect = EffectOf(settings)
    BY DEF EffectsAgree
  <2>1. effect \in Effect /\ Matches({}, {}, settings)
    BY DEF SettingsInv, SettingsTypes, SettingsFacts
  <2> QED BY <2>1, EffectMatches
<1> QED BY <1>1, SettingsInductive, PTL
=============================================================================
