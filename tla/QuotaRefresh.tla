---------------------------- MODULE QuotaRefresh ----------------------------
(***************************************************************************)
(* The official quota of the CPA accounts (internal/quota, cmd/quota): the *)
(* worker's round, which a schedule or a request of Admin starts, fetches  *)
(* every account, saves the snapshot and then clears the cooldown of those *)
(* CPA credentials a new official period has superseded; and the reset of  *)
(* an exhausted account by consuming a reset credit.                       *)
(*                                                                         *)
(* The official service and the CPA containers are outside: their state    *)
(* changes between any two calls.  Changes of the catalog, runtime state   *)
(* and the two operations that hold it over their calls share one          *)
(* cross-process fence.                                                    *)
(*                                                                         *)
(* Bounds: LastPeriod, LastSecond, MaxRequests, MaxChanges outside,        *)
(* MaxBreaks.  A definition marked "Deviation" is what the definition      *)
(* after it must not be.                                                   *)
(***************************************************************************)
EXTENDS Integers, FiniteSets

CONSTANTS
    Pool,           \* CPA accounts
    Operator,       \* Admin requests that reset an account
    RecoveryMaxAge, \* ticks a snapshot is fresh enough to recover from
    LastPeriod, LastSecond, MaxRequests, MaxChanges, MaxBreaks

ASSUME QuotaRefreshAssumption ==
    /\ LastPeriod \in Nat \ {0} /\ LastSecond \in Nat /\ MaxRequests \in Nat
    /\ "free" \notin Operator /\ "worker" \notin Operator

VARIABLES
    second,         \* the wall clock
    enabled,        \* catalog: enabled accounts
    official,       \* upstream: period of an account, its exhaustion, credits
    native,         \* the CPA's credential: owner, blocked, since which period
    request,        \* official_quota_refresh_request
    quotaState,     \* official quota runtime state: snapshot, last error
    worker,         \* the round of the quota worker
    resetter,       \* what an Admin request has read of the account
    fence,          \* who holds the write fence over several calls
    spent,          \* credits consumed for one exhaustion
    changes,        \* changes outside so far
    breaks          \* failures and restarts so far

quotaVars == <<second, enabled, official, native, request, quotaState, worker,
               resetter, fence, spent, changes, breaks>>

Unfetched == [owner |-> 0, period |-> 0, allowed |-> FALSE]
NoAuth == [owner |-> 0, blocked |-> FALSE, since |-> 0]
NoRefresh == [at |-> 0, error |-> FALSE, accounts |-> [a \in Pool |-> Unfetched]]
Resting == [pc |-> "idle", id |-> 0, at |-> 0, error |-> FALSE, left |-> {},
            accounts |-> [a \in Pool |-> Unfetched], auth |-> NoAuth, on |-> "none"]

Pending == request.id # request.completed

outsideQuota == <<enabled, official, native, spent, resetter, changes>>

Break == breaks < MaxBreaks /\ breaks' = breaks + 1

-----------------------------------------------------------------------------
(***************************************************************************)
(* Admin asks for a refresh.                                               *)
(***************************************************************************)

(* A click joins a pending request, or is answered by a young snapshot.    *)
RequestRefresh ==
    /\ fence = "free" /\ ~Pending /\ request.id < MaxRequests
    /\ quotaState.at = 0 \/ quotaState.at < second
    /\ request' = [request EXCEPT !.id = @ + 1, !.requestedAt = second,
                                  !.error = FALSE]
    /\ UNCHANGED <<second, outsideQuota, quotaState, worker, fence, breaks>>

-----------------------------------------------------------------------------
(***************************************************************************)
(* The worker's round.                                                     *)
(***************************************************************************)

(* Deviation: a request that a round has started on is not captured again. *)
StartNewRequest ==
    /\ worker.pc = "idle" /\ fence = "free"
    /\ LET new == Pending /\ request.started # request.id
       IN  /\ worker' = [Resting EXCEPT !.pc = "fetch", !.at = second, !.left = Pool,
                                        !.id = IF new THEN request.id ELSE 0]
           /\ request' = IF new
                 THEN [request EXCEPT !.started = request.id, !.error = FALSE]
                 ELSE request
    /\ UNCHANGED <<second, outsideQuota, quotaState, fence, breaks>>

(* The pending request, if any, is captured; a later one stays pending.    *)
StartRefreshRound ==
    /\ worker.pc = "idle" /\ fence = "free"
    /\ worker' = [Resting EXCEPT !.pc = "fetch", !.at = second, !.left = Pool,
                                 !.id = IF Pending THEN request.id ELSE 0]
    /\ request' = IF Pending
                    THEN [request EXCEPT !.started = request.id, !.error = FALSE]
                    ELSE request
    /\ UNCHANGED <<second, outsideQuota, quotaState, fence, breaks>>

(* One account of the snapshot, or its status when it cannot be fetched.   *)
FetchAccount(a) ==
    /\ worker.pc = "fetch" /\ a \in worker.left
    /\ \/ worker' = [worker EXCEPT !.left = @ \ {a}, !.accounts[a] =
             [owner |-> native[a].owner, period |-> official[a].period,
              allowed |-> ~official[a].exhausted]]
       \/ worker' = [worker EXCEPT !.left = @ \ {a}]
    /\ UNCHANGED <<second, outsideQuota, request, quotaState, fence, breaks>>

WriteQuotaState ==
    /\ worker.pc = "fetch" /\ worker.left = {} /\ fence = "free"
    /\ quotaState' = [at |-> worker.at, error |-> FALSE,
                      accounts |-> worker.accounts]
    /\ worker' = [worker EXCEPT !.pc = "recover", !.left = Pool]
    /\ UNCHANGED <<second, outsideQuota, request, fence, breaks>>

(* The round times out or a store call fails: the error is recorded.       *)
RefreshFails ==
    /\ Break /\ worker.pc = "fetch" /\ fence = "free"
    /\ quotaState' = [quotaState EXCEPT !.error = TRUE]
    /\ worker' = [worker EXCEPT !.pc = "complete", !.error = TRUE]
    /\ UNCHANGED <<second, outsideQuota, request, fence>>

(* Deviation: the request pending now is completed, not the captured one. *)
CompletePending ==
    /\ worker.pc = "complete" /\ fence = "free"
    /\ request' = [request EXCEPT !.completed = request.id, !.error = worker.error]
    /\ worker' = Resting
    /\ UNCHANGED <<second, outsideQuota, quotaState, fence, breaks>>

MarkRefreshCompleted ==
    /\ worker.pc = "complete" /\ fence = "free"
    /\ request' = IF worker.id = 0 THEN request
                  ELSE [request EXCEPT !.completed = worker.id,
                                       !.error = worker.error]
    /\ worker' = Resting
    /\ UNCHANGED <<second, outsideQuota, quotaState, fence, breaks>>

(* The worker stops, or loses its lease; another one starts from nothing.  *)
WorkerStops ==
    /\ Break /\ worker.pc # "idle"
    /\ worker' = Resting
    /\ fence' = IF fence = "worker" THEN "free" ELSE fence
    /\ UNCHANGED <<second, outsideQuota, request, quotaState>>

-----------------------------------------------------------------------------
(***************************************************************************)
(* Cooldown recovery, after the snapshot is saved.                         *)
(***************************************************************************)
FreshSnapshot == worker.at > 0 /\ second - worker.at <= RecoveryMaxAge

(* The credential's error is older than the official period, which allows  *)
(* requests again, and the credential is the one that was queried.         *)
Recoverable(auth, entry) ==
    /\ entry.allowed /\ auth.owner = entry.owner
    /\ auth.blocked /\ auth.since < entry.period

ReadNativeAuth(a) ==
    /\ worker.pc = "recover" /\ a \in worker.left
    /\ IF a \in enabled /\ FreshSnapshot
            /\ Recoverable(native[a], worker.accounts[a])
         THEN worker' = [worker EXCEPT !.pc = "recheck", !.on = a,
                                       !.auth = native[a]]
         ELSE worker' = [worker EXCEPT !.left = @ \ {a}]
    /\ UNCHANGED <<second, outsideQuota, request, quotaState, fence, breaks>>

(* Deviation: the fence is taken and nothing is read again. *)
RecheckNothing ==
    /\ worker.pc = "recheck" /\ fence = "free"
    /\ fence' = "worker" /\ worker' = [worker EXCEPT !.pc = "post"]
    /\ UNCHANGED <<second, outsideQuota, request, quotaState, breaks>>

(* Inside the fence the catalog and the credential are read once more.     *)
RecheckInsideFence ==
    /\ worker.pc = "recheck" /\ fence = "free"
    /\ IF worker.on \in enabled /\ FreshSnapshot
            /\ native[worker.on] = worker.auth
         THEN fence' = "worker" /\ worker' = [worker EXCEPT !.pc = "post"]
         ELSE /\ fence' = "free"
              /\ worker' = [worker EXCEPT !.pc = "recover", !.left = @ \ {worker.on}]
    /\ UNCHANGED <<second, outsideQuota, request, quotaState, breaks>>

(* POST /reset-quota clears every cooldown; it may fail unanswered.        *)
PostNativeReset ==
    /\ worker.pc = "post"
    /\ native' = [native EXCEPT ![worker.on].blocked = FALSE]
    /\ fence' = "free"
    /\ worker' = [worker EXCEPT !.pc = "recover", !.left = @ \ {worker.on}]
    /\ UNCHANGED <<second, enabled, official, spent, resetter, changes,
                   request, quotaState, breaks>>

RecoveryDone ==
    /\ worker.pc = "recover" /\ worker.left = {}
    /\ worker' = [worker EXCEPT !.pc = "complete"]
    /\ UNCHANGED <<second, outsideQuota, request, quotaState, fence, breaks>>

-----------------------------------------------------------------------------
(***************************************************************************)
(* Reset of an account with a credit: three calls under the fence.         *)
(***************************************************************************)
resetFrame == <<second, enabled, native, request, quotaState, worker, changes,
                breaks>>

(* Deviation: the account is read before the fence is taken. *)
BeginResetUnfenced(o, a) ==
    /\ resetter[o].pc = "idle"
    /\ resetter' = [resetter EXCEPT ![o] = [pc |-> "fetch", on |-> a, period |-> 0]]
    /\ UNCHANGED <<resetFrame, official, spent, fence>>

BeginReset(o, a) ==
    /\ resetter[o].pc = "idle" /\ fence = "free"
    /\ resetter' = [resetter EXCEPT ![o] = [pc |-> "fetch", on |-> a, period |-> 0]]
    /\ fence' = o
    /\ UNCHANGED <<resetFrame, official, spent>>

FetchForReset(o) ==
    /\ resetter[o].pc = "fetch"
    /\ LET a == resetter[o].on
       IN  IF official[a].exhausted /\ official[a].credits > 0
             THEN /\ resetter' = [resetter EXCEPT ![o] =
                         [@ EXCEPT !.pc = "consume", !.period = official[a].period]]
                  /\ UNCHANGED fence
             ELSE /\ resetter' = [resetter EXCEPT ![o].pc = "idle"]
                  /\ fence' = "free"
    /\ UNCHANGED <<resetFrame, official, spent>>

(* The account's next official period; the last one goes on for ever.      *)
Renewed(entry) ==
    [entry EXCEPT !.period = IF @ < LastPeriod THEN @ + 1 ELSE @, !.exhausted = FALSE]

(* The upstream grants a new period for a credit it still has.             *)
ConsumeResetCredit(o) ==
    /\ resetter[o].pc = "consume"
    /\ LET a == resetter[o].on
       IN  IF official[a].credits > 0
             THEN /\ official' = [official EXCEPT ![a] =
                        [Renewed(official[a]) EXCEPT !.credits = official[a].credits - 1]]
                  /\ spent' = [spent EXCEPT ![a][resetter[o].period] = @ + 1]
             ELSE UNCHANGED <<official, spent>>
    /\ resetter' = [resetter EXCEPT ![o].pc = "idle"]
    /\ fence' = "free"
    /\ UNCHANGED resetFrame

(* A call fails, or its answer does not arrive: the operator may retry.    *)
ResetFails(o) ==
    /\ Break /\ resetter[o].pc # "idle"
    /\ resetter' = [resetter EXCEPT ![o].pc = "idle"]
    /\ fence' = "free"
    /\ UNCHANGED <<second, enabled, native, request, quotaState, worker,
                   changes, official, spent>>

-----------------------------------------------------------------------------
(***************************************************************************)
(* Outside: the official service, the CPAs, the catalog, time.             *)
(***************************************************************************)
elsewhere == <<request, quotaState, worker, resetter, fence, spent, breaks>>

Change == changes < MaxChanges /\ changes' = changes + 1

(* Requests exhaust the period; the CPA then blocks the credential.        *)
Exhaust(a) ==
    /\ Change /\ ~official[a].exhausted
    /\ official' = [official EXCEPT ![a].exhausted = TRUE]
    /\ native' = [native EXCEPT ![a] =
          [@ EXCEPT !.blocked = TRUE, !.since = official[a].period]]
    /\ UNCHANGED <<elsewhere, second, enabled>>

NextPeriod(a) ==
    /\ Change /\ official[a].period < LastPeriod
    /\ official' = [official EXCEPT ![a] = Renewed(official[a])]
    /\ UNCHANGED <<elsewhere, second, enabled, native>>

(* The account's OAuth login is replaced by another one.                   *)
ReplaceLogin(a) ==
    /\ Change /\ fence = "free"
    /\ native' = [native EXCEPT ![a] = [NoAuth EXCEPT !.owner = 3 - native[a].owner]]
    /\ UNCHANGED <<elsewhere, second, enabled, official>>

SwitchAccount(a) ==
    /\ Change /\ fence = "free"
    /\ enabled' = (enabled \ {a}) \cup ({a} \ enabled)
    /\ UNCHANGED <<elsewhere, second, official, native>>

PassSecond ==
    /\ second < LastSecond /\ second' = second + 1
    /\ UNCHANGED <<elsewhere, changes, enabled, official, native>>

-----------------------------------------------------------------------------
QuotaInit ==
    /\ second = 1 /\ enabled = Pool
    /\ official = [a \in Pool |-> [period |-> 1, exhausted |-> FALSE, credits |-> 2]]
    /\ native = [a \in Pool |-> [NoAuth EXCEPT !.owner = 1]]
    /\ request = [id |-> 0, requestedAt |-> 0, started |-> 0, completed |-> 0,
                  error |-> FALSE]
    /\ quotaState = NoRefresh /\ worker = Resting
    /\ resetter = [o \in Operator |-> [pc |-> "idle", on |-> "none", period |-> 0]]
    /\ fence = "free"
    /\ spent = [a \in Pool |-> [p \in 0..LastPeriod |-> 0]]
    /\ changes = 0 /\ breaks = 0

WorkerStep ==
    \/ StartRefreshRound \/ (\E a \in Pool : FetchAccount(a)) \/ WriteQuotaState
    \/ (\E a \in Pool : ReadNativeAuth(a)) \/ RecheckInsideFence
    \/ PostNativeReset \/ RecoveryDone \/ MarkRefreshCompleted

ResetStep(o) == FetchForReset(o) \/ ConsumeResetCredit(o)

(* The handler: an operator confirms an account and one of its credits.    *)
ResetAccountQuota(o) ==
    ResetStep(o) \/ ResetFails(o) \/ \E a \in Pool : BeginReset(o, a)

QuotaNext ==
    \/ RequestRefresh \/ WorkerStep \/ RefreshFails \/ WorkerStops \/ PassSecond
    \/ \E o \in Operator : ResetAccountQuota(o)
    \/ \E a \in Pool : Exhaust(a) \/ NextPeriod(a) \/ ReplaceLogin(a)
                       \/ SwitchAccount(a)

QuotaSpec == QuotaInit /\ [][QuotaNext]_quotaVars

(* Every call of a round or a reset has a timeout, the schedule and the    *)
(* request watcher start rounds for ever; the file lock may be taken by    *)
(* others again and again, so the worker's steps that need it need SF.     *)
QuotaFairness ==
    /\ SF_quotaVars(WorkerStep)
    /\ \A o \in Operator : WF_quotaVars(ResetStep(o))

QuotaFairSpec == QuotaSpec /\ QuotaFairness

-----------------------------------------------------------------------------
(* A request that counts as completed without an error is answered by a    *)
(* snapshot fetched after it was made, also when it was made in the middle *)
(* of a round or the worker was replaced.                                  *)
CompletedRequestIsFresh ==
    request.id > 0 /\ ~Pending /\ ~request.error
        => quotaState.at >= request.requestedAt

(* A cooldown is only cleared for an enabled account and the queried       *)
(* login, and only if a newer official period superseded it, or the CPA    *)
(* changed it after the check under the fence.                             *)
Cleared(a) == native[a].blocked /\ ~native'[a].blocked
              /\ native'[a].owner = native[a].owner

ClearedSuperseded ==
    [][\A a \in Pool : Cleared(a) =>
         /\ a \in enabled
         /\ native[a].owner = worker.accounts[a].owner
         /\ native[a].since < official[a].period \/ native[a] # worker.auth]_quotaVars

(* However many operators press the button and retry after lost answers:   *)
(* one exhaustion of an account costs at most one credit.                  *)
OneCreditPerExhaustion ==
    \A a \in Pool, p \in 1..LastPeriod - 1 : spent[a][p] <= 1

(* A requested refresh is completed, over failing rounds and restarts.     *)
RefreshCompletes == Pending ~> ~Pending
=============================================================================
