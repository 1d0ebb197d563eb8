---------------------------- MODULE UsageLedger ----------------------------
(***************************************************************************)
(* Metering and the weekly quota: the Collector's round                    *)
(* (internal/collector/runtime.go), the usage database                     *)
(* (internal/usage/writer.go), the quota operations of Admin               *)
(* (internal/usage/portal_store.go, quota_actions.go) and the decision of  *)
(* the Gateway over the two files the round publishes                      *)
(* (internal/gateway/authorize.go, loader.go).                             *)
(*                                                                         *)
(* Every database operation and every publication runs under the write     *)
(* fence of OwnershipLease and is one step; a lost lease, an error or the  *)
(* death of the Collector ends the round between two steps.  An event is   *)
(* one token of one request; its key is the account and the request, so a  *)
(* repeated request identifier is a duplicate.  A week has WeekLength      *)
(* ticks and begins where the site's time zone, an offset, says.           *)
(*                                                                         *)
(* Bounds: LastTick, MaxOperations, MaxFaults.  A definition marked       *)
(* "Deviation" is what the definition after it must not be.                *)
(***************************************************************************)
EXTENDS Integers, Sequences, FiniteSets, FiniteSetsExt

CONSTANTS
    Member,         \* users
    Meter,          \* CPA accounts, each with a usage queue in its Redis
    Request,        \* request identifiers
    Zone,           \* time zones: offsets of the beginning of the week
    DefaultZone,    \* the zone of a database that names none
    BatchSize,      \* collector.batch_size
    WeekLength,     \* ticks of a week
    DefaultTokens,  \* user_quota.default_weekly_tokens
    ResetOnNewWeek, \* user_quota.reset_personal_weekly_on_new_week
    CustomTokens,   \* personal limits Admin sets, Unlimited among them
    FailOpenAfter,  \* user_quota.fail_open_after_seconds, in ticks
    LastTick, MaxOperations, MaxFaults

Unlimited == -1

ASSUME UsageLedgerAssumption ==
    /\ BatchSize \in Nat \ {0} /\ WeekLength \in Nat \ {0} /\ LastTick \in Nat \ {0}
    /\ Zone \subseteq 0..(WeekLength - 1) /\ DefaultZone \in Zone
    /\ DefaultTokens \in (Nat \ {0}) \cup {Unlimited}
    /\ CustomTokens \subseteq (Nat \ {0}) \cup {Unlimited}
    /\ IsFiniteSet(Member)

VARIABLES
    clock,          \* the common wall clock
    joined,         \* users with an active key record
    enabledAccounts,   \* accounts that are enabled
    reported,       \* every event a CPA ever pushed: the truth to meter
    usageQueue,     \* the Redis list of each account
    identified,     \* users whose keys are in key_identities
    stored,         \* usage_events
    weekly,         \* user_weekly_usage: weighted tokens per user and week
    zone,           \* usage_meta: time zone the weeks are materialised in
    configured,     \* system.timezone as the running Collector read it
    policies,       \* user_quota_policies: limit and reset_at, 0 for NULL
    adjustments,    \* user_quota_adjustments
    quotaFile,      \* quota-snapshot.json: a record or nothing per user
    heartbeat,      \* last_success_at of quota-heartbeat.json
    round,          \* the Collector's round
    gate,           \* the quota file, when loaded, and heartbeat in a Gateway
    operations,     \* operations of Admin so far
    faults          \* failures and restarts so far

ledgerVars == <<clock, joined, enabledAccounts, reported, usageQueue, identified, stored,
                weekly, zone, configured, policies, adjustments, quotaFile,
                heartbeat, round, gate, operations, faults>>

database == <<identified, stored, weekly, zone, policies, adjustments>>
outside  == <<clock, joined, enabledAccounts, reported, operations>>

WeekStart(t, z) == ((t + z) \div WeekLength) * WeekLength - z
WeekEnd(t, z) == WeekStart(t, z) + WeekLength
Weeks == (1 - WeekLength)..LastTick

NoPolicy == [limit |-> 0, reset |-> 0]
NoRecord == [limit |-> 0, used |-> 0, weekEnd |-> 0]
NoRound == [pc |-> "idle", rebuild |-> FALSE, known |-> {}, changed |-> FALSE,
            left |-> {}, from |-> "none", batch |-> <<>>, failed |-> FALSE,
            quotas |-> [u \in Member |-> NoRecord]]

SumOf(set, amount(_)) == MapThenSumSet(amount, set)

-----------------------------------------------------------------------------
(***************************************************************************)
(* The usage database.                                                     *)
(***************************************************************************)

(* rebuildWeeklyUsage: usage materialised again from the stored events.    *)
RebuiltWeekly(events, z) ==
    [u \in Member |-> [w \in Weeks |->
        Cardinality({e \in events : e.user = u /\ WeekStart(e.at, z) = w})]]

(* INSERT OR IGNORE by event key. *)
Known(events, e) == \E s \in events : s.meter = e.meter /\ s.request = e.request

(* Deviation: the materialised usage grows for a duplicate too. *)
IngestEventTwice(db, e) ==
    IF e.user \notin identified THEN db
    ELSE [events |-> IF Known(db.events, e) THEN db.events ELSE db.events \cup {e},
          weekly |-> [db.weekly EXCEPT ![e.user][WeekStart(e.at, zone)] = @ + 1]]

(* Deviation: the events of users without an active key are dropped. *)
IngestEventOfJoined(db, e) ==
    IF e.user \notin joined \/ Known(db.events, e) THEN db
    ELSE [events |-> db.events \cup {e},
          weekly |-> [db.weekly EXCEPT ![e.user][WeekStart(e.at, zone)] = @ + 1]]

(* IngestEvents for one event: an unknown key is counted and dropped.      *)
IngestEvent(db, e) ==
    IF e.user \notin identified \/ Known(db.events, e) THEN db
    ELSE [events |-> db.events \cup {e},
          weekly |-> [db.weekly EXCEPT ![e.user][WeekStart(e.at, zone)] = @ + 1]]

(* The database after each event of the batch. *)
Ingestion(batch) ==
    LET after[n \in 0..Len(batch)] ==
            IF n = 0 THEN [events |-> stored, weekly |-> weekly]
            ELSE IngestEvent(after[n - 1], batch[n])
    IN  after

IngestEvents(batch) ==
    LET result == Ingestion(batch)[Len(batch)]
    IN  stored' = result.events /\ weekly' = result.weekly

Active(u) == policies[u] # NoPolicy
             /\ (policies[u].reset = 0 \/ policies[u].reset > clock)

Adjusted(u, w, action) ==
    LET amount(a) == a.amount
    IN  SumOf({a \in adjustments : a.user = u /\ a.week = w /\ a.action = action},
              amount)

BaseLimit(u) == IF Active(u) THEN policies[u].limit ELSE DefaultTokens

EffectiveUsage(u) ==
    LET w == WeekStart(clock, zone)
    IN  Max({0, weekly[u][w] - Adjusted(u, w, "usage_reset")})

WeeklyQuota(u) ==
    [limit   |-> IF BaseLimit(u) = Unlimited THEN Unlimited
                 ELSE BaseLimit(u) + Adjusted(u, WeekStart(clock, zone), "bonus"),
     used    |-> EffectiveUsage(u),
     weekEnd |-> WeekEnd(clock, zone)]

-----------------------------------------------------------------------------
(***************************************************************************)
(* The Collector's round: RunOnce, and Rebuild by the same worker.         *)
(***************************************************************************)
RoundAt(pc) == round' = [round EXCEPT !.pc = pc]

StartRound(rebuild) ==
    /\ round.pc = "idle"
    /\ round' = [NoRound EXCEPT !.pc = IF rebuild THEN "zone" ELSE "sync",
                                !.rebuild = rebuild, !.known = joined]
    /\ UNCHANGED <<outside, database, usageQueue, configured, quotaFile,
                   heartbeat, gate, faults>>

SyncIdentities ==
    /\ round.pc = "sync"
    /\ identified' = identified \cup round.known
    /\ RoundAt("zone")
    /\ UNCHANGED <<outside, usageQueue, stored, weekly, zone, configured,
                   policies, adjustments, quotaFile, heartbeat, gate, faults>>

(* Deviation: the adjustments keep the week of the former time zone. *)
RebucketedNot(z) == adjustments

(* The adjustments move to the week of their creation in the new zone.     *)
Rebucketed(z) == {[a EXCEPT !.week = WeekStart(a.created, z)] : a \in adjustments}

EnsureWeekTimezone ==
    /\ round.pc = "zone"
    /\ IF configured = zone THEN UNCHANGED <<zone, weekly, adjustments>>
       ELSE /\ zone' = configured
            /\ weekly' = RebuiltWeekly(stored, configured)
            /\ adjustments' = Rebucketed(configured)
    /\ round' = [round EXCEPT !.pc = IF round.rebuild THEN "rebuild" ELSE "reset",
                              !.changed = configured # zone]
    /\ UNCHANGED <<outside, usageQueue, identified, stored, configured,
                   policies, quotaFile, heartbeat, gate, faults>>

RebuildWeeklyUsage ==
    /\ round.pc = "rebuild"
    /\ weekly' = RebuiltWeekly(stored, zone)
    /\ RoundAt("reset")
    /\ UNCHANGED <<outside, usageQueue, identified, stored, zone, configured,
                   policies, adjustments, quotaFile, heartbeat, gate, faults>>

(* The queues a round drains: those of the accounts that are enabled when  *)
(* it reads them.  A rebuild drains none.                                  *)
Collected == IF round.rebuild THEN {} ELSE enabledAccounts

(* Expired policies go; the others end with the week if they had no end or *)
(* the zone has just changed, or never end when the reset is switched off. *)
ConfigurePersonalQuotaReset ==
    /\ round.pc = "reset"
    /\ policies' = [u \in Member |->
         IF ~Active(u) THEN NoPolicy
         ELSE IF ~ResetOnNewWeek THEN [policies[u] EXCEPT !.reset = 0]
         ELSE IF round.changed \/ policies[u].reset = 0
              THEN [policies[u] EXCEPT !.reset = WeekEnd(clock, zone)]
              ELSE policies[u]]
    /\ round' = [round EXCEPT !.pc = "drain", !.left = Collected]
    /\ UNCHANGED <<outside, usageQueue, identified, stored, weekly, zone,
                   configured, adjustments, quotaFile, heartbeat, gate, faults>>

(* LPOP takes the batch out of Redis before anything is committed.         *)
PopBatch(a) ==
    /\ round.pc = "drain" /\ a \in round.left /\ round.from = "none"
    /\ LET n == Min({BatchSize, Len(usageQueue[a])})
       IN  IF n = 0
             THEN /\ round' = [round EXCEPT !.left = @ \ {a}]
                  /\ UNCHANGED usageQueue
             ELSE /\ round' = [round EXCEPT !.from = a,
                                            !.batch = SubSeq(usageQueue[a], 1, n)]
                  /\ usageQueue' = [usageQueue EXCEPT ![a] =
                                       SubSeq(@, n + 1, Len(@))]
    /\ UNCHANGED <<outside, database, configured, quotaFile, heartbeat, gate,
                   faults>>

(* A short batch ends the account's drain.                                 *)
IngestBatch ==
    /\ round.from # "none"
    /\ IngestEvents(round.batch)
    /\ round' = [round EXCEPT !.from = "none", !.batch = <<>>,
                    !.left = IF Len(round.batch) < BatchSize
                               THEN @ \ {round.from} ELSE @]
    /\ UNCHANGED <<outside, usageQueue, identified, zone, configured, policies,
                   adjustments, quotaFile, heartbeat, gate, faults>>

(* An unreachable account, or a batch whose transaction fails: the batch   *)
(* is lost, the error is kept and the round goes on.                       *)
DrainFails(a) ==
    /\ faults < MaxFaults /\ faults' = faults + 1
    /\ round.pc = "drain" /\ a \in round.left /\ round.from \in {"none", a}
    /\ round' = [round EXCEPT !.from = "none", !.batch = <<>>,
                              !.left = @ \ {a}, !.failed = TRUE]
    /\ UNCHANGED <<outside, database, usageQueue, configured, quotaFile,
                   heartbeat, gate>>

(* Deviation: users without a personal policy have no quota. *)
ReadPolicyQuotas ==
    /\ round.pc = "drain" /\ round.left = {}
    /\ round' = [round EXCEPT !.pc = "publish",
                    !.quotas = [u \in Member |-> IF u \in round.known /\ Active(u)
                                   THEN WeeklyQuota(u) ELSE NoRecord]]
    /\ UNCHANGED <<outside, database, usageQueue, configured, quotaFile,
                   heartbeat, gate, faults>>

ReadWeeklyQuotas ==
    /\ round.pc = "drain" /\ round.left = {}
    /\ round' = [round EXCEPT !.pc = "publish",
                    !.quotas = [u \in Member |-> IF u \in round.known
                                   THEN WeeklyQuota(u) ELSE NoRecord]]
    /\ UNCHANGED <<outside, database, usageQueue, configured, quotaFile,
                   heartbeat, gate, faults>>

PublishQuotaSnapshot ==
    /\ round.pc = "publish"
    /\ quotaFile' = round.quotas
    /\ RoundAt("heartbeat")
    /\ UNCHANGED <<outside, database, usageQueue, configured, heartbeat, gate,
                   faults>>

(* The quotas cannot be read or published; a rebuild would give up here.   *)
QuotaSnapshotFails ==
    /\ faults < MaxFaults /\ faults' = faults + 1
    /\ ~round.rebuild
    /\ round.pc = "publish" \/ (round.pc = "drain" /\ round.left = {})
    /\ round' = [round EXCEPT !.pc = "heartbeat", !.failed = TRUE]
    /\ UNCHANGED <<outside, database, usageQueue, configured, quotaFile,
                   heartbeat, gate>>

(* last_success_at advances only after a round without an error.           *)
PublishQuotaHeartbeat ==
    /\ round.pc = "heartbeat"
    /\ heartbeat' = IF round.failed THEN heartbeat ELSE clock
    /\ round' = NoRound
    /\ UNCHANGED <<outside, database, usageQueue, configured, quotaFile, gate,
                   faults>>

(* A failing step, a lost lease or the end of the process ends the round;  *)
(* a restarted Collector reads the time zone from the settings again.      *)
RoundEnds ==
    /\ faults < MaxFaults /\ faults' = faults + 1
    /\ round' = NoRound
    /\ \E z \in Zone : configured' = z
    /\ UNCHANGED <<outside, database, usageQueue, quotaFile, heartbeat, gate>>

-----------------------------------------------------------------------------
(***************************************************************************)
(* Admin: quota policies and adjustments, each one transaction.            *)
(***************************************************************************)
adminFrame == <<clock, reported, usageQueue, identified, stored, weekly, zone,
                configured, quotaFile, heartbeat, round, gate, faults>>

OneMore == operations < MaxOperations /\ operations' = operations + 1

SetQuotaPolicy(u) ==
    /\ OneMore /\ u \in joined
    /\ \E limit \in CustomTokens, resets \in BOOLEAN :
         policies' = [policies EXCEPT ![u] =
            [limit |-> limit, reset |-> IF resets THEN WeekEnd(clock, zone) ELSE 0]]
    /\ UNCHANGED <<adminFrame, joined, enabledAccounts, adjustments>>

ClearQuotaPolicies(users) ==
    /\ OneMore /\ \E u \in users : policies[u] # NoPolicy
    /\ policies' = [u \in Member |-> IF u \in users THEN NoPolicy ELSE policies[u]]
    /\ UNCHANGED <<adminFrame, joined, enabledAccounts, adjustments>>

Adjust(amount, action) ==
    /\ OneMore
    /\ adjustments' = adjustments \cup
         {[id |-> Cardinality(adjustments) + 1, user |-> u, created |-> clock,
           week |-> WeekStart(clock, zone), action |-> action, amount |-> amount[u]]
             : u \in DOMAIN amount}
    /\ UNCHANGED <<adminFrame, joined, enabledAccounts, policies>>

(* One user without a limit keeps everybody from a bonus.                  *)
AddQuotaBonus(users) ==
    /\ \A u \in users : BaseLimit(u) # Unlimited
    /\ Adjust([u \in users |-> 1], "bonus")

(* Users without usage are skipped.                                        *)
ResetQuotaUsage(users) ==
    LET charged == {u \in users : EffectiveUsage(u) > 0}
    IN  charged # {} /\ Adjust([u \in charged |-> EffectiveUsage(u)], "usage_reset")

(* The handler: selected users, who must all be known, or every user, in   *)
(* one transaction.                                                        *)
ApplyUserQuotaAction ==
    \E users \in (SUBSET joined) \ {{}} :
        ClearQuotaPolicies(users) \/ AddQuotaBonus(users) \/ ResetQuotaUsage(users)

(* The user's keys appear, or go with the policy (deleteUserState).        *)
Join(u) ==
    /\ OneMore /\ u \notin joined
    /\ joined' = joined \cup {u}
    /\ UNCHANGED <<adminFrame, enabledAccounts, policies, adjustments>>

Leave(u) ==
    /\ OneMore /\ u \in joined
    /\ joined' = joined \ {u}
    /\ policies' = [policies EXCEPT ![u] = NoPolicy]
    /\ UNCHANGED <<adminFrame, enabledAccounts, adjustments>>

(* An account is disabled or enabled again; its container and its requests *)
(* go on (updatePolicy).                                                   *)
UpdatePolicy(a) ==
    /\ OneMore
    /\ enabledAccounts' = IF a \in enabledAccounts THEN enabledAccounts \ {a}
                          ELSE enabledAccounts \cup {a}
    /\ UNCHANGED <<adminFrame, joined, policies, adjustments>>

-----------------------------------------------------------------------------
(***************************************************************************)
(* The Gateway: loading and the quota decision.                            *)
(***************************************************************************)
gatewayFrame == <<outside, database, usageQueue, configured, quotaFile,
                  heartbeat, round, faults>>

(* Refresh loads each file on its own; a failing load keeps the old state. *)
LoadQuotaSnapshot ==
    /\ gate' = [gate EXCEPT !.file = quotaFile, !.at = clock]
    /\ UNCHANGED gatewayFrame

LoadQuotaHeartbeat ==
    /\ gate' = [gate EXCEPT !.beat = heartbeat]
    /\ UNCHANGED gatewayFrame

(* Deviation: the end of the week of a record is not looked at. *)
EnforcedForEver(u) ==
    /\ gate.beat > 0 /\ clock - gate.beat <= FailOpenAfter
    /\ gate.at > 0 /\ clock - gate.at <= FailOpenAfter
    /\ gate.file[u] # NoRecord

(* The record of u counts: otherwise the decision is open, with a warning. *)
Enforced(u) ==
    /\ gate.beat > 0 /\ clock - gate.beat <= FailOpenAfter
    /\ gate.at > 0 /\ clock - gate.at <= FailOpenAfter
    /\ gate.file[u] # NoRecord
    /\ clock < gate.file[u].weekEnd

Refused(u) ==
    /\ Enforced(u)
    /\ gate.file[u].limit >= 0
    /\ gate.file[u].used >= gate.file[u].limit

(* An admitted request: its CPA pushes an event; the same request          *)
(* identifier may come twice.                                              *)
Serve(u, a, r) ==
    LET e == [meter |-> a, request |-> r, user |-> u, at |-> clock]
    IN  /\ u \in joined /\ ~Refused(u)
        /\ \A s \in reported : s.request = r =>
               s.user = u /\ Cardinality({t \in reported : t.request = r}) < 2
        /\ e \notin reported
        /\ reported' = reported \cup {e}
        /\ usageQueue' = [usageQueue EXCEPT ![a] = Append(@, e)]
        /\ UNCHANGED <<clock, joined, enabledAccounts, operations, database, configured, quotaFile,
                       heartbeat, round, gate, faults>>

LedgerTick ==
    /\ clock < LastTick /\ clock' = clock + 1
    /\ UNCHANGED <<joined, enabledAccounts, reported, operations, usageQueue, database, configured,
                   quotaFile, heartbeat, round, gate, faults>>

-----------------------------------------------------------------------------
LedgerInit ==
    /\ clock = 1
    /\ joined \in {{}, Member} /\ enabledAccounts \in SUBSET Meter
    /\ reported = {} /\ usageQueue = [a \in Meter |-> <<>>]
    /\ identified = {} /\ stored = {}
    /\ zone = DefaultZone /\ configured \in Zone
    /\ weekly = RebuiltWeekly({}, zone)
    /\ policies = [u \in Member |-> NoPolicy] /\ adjustments = {}
    /\ quotaFile = [u \in Member |-> NoRecord] /\ heartbeat = 0
    /\ round = NoRound
    /\ gate = [file |-> quotaFile, at |-> 0, beat |-> 0]
    /\ operations = 0 /\ faults = 0

RoundStep ==
    \/ StartRound(TRUE) \/ StartRound(FALSE) \/ SyncIdentities \/ EnsureWeekTimezone
    \/ RebuildWeeklyUsage \/ ConfigurePersonalQuotaReset
    \/ \E a \in Meter : PopBatch(a)
    \/ IngestBatch \/ ReadWeeklyQuotas \/ PublishQuotaSnapshot
    \/ PublishQuotaHeartbeat

RoundFailure == (\E a \in Meter : DrainFails(a)) \/ QuotaSnapshotFails \/ RoundEnds

QuotaOperation == ApplyUserQuotaAction \/ \E u \in Member : SetQuotaPolicy(u)

Refresh == LoadQuotaSnapshot \/ LoadQuotaHeartbeat

LedgerNext ==
    \/ RoundStep \/ RoundFailure \/ QuotaOperation \/ Refresh \/ LedgerTick
    \/ \E u \in Member : Join(u) \/ Leave(u)
    \/ \E a \in Meter : UpdatePolicy(a)
    \/ \E u \in Member, a \in Meter, r \in Request : Serve(u, a, r)

LedgerSpec == LedgerInit /\ [][LedgerNext]_ledgerVars

(* The Collector's loop goes round again and again; an operator runs a     *)
(* rebuild only now and then; the Gateway's ticker reloads the files.      *)
LedgerFairness ==
    /\ SF_ledgerVars(StartRound(FALSE))
    /\ WF_ledgerVars(RoundStep)
    /\ WF_ledgerVars(LoadQuotaSnapshot) /\ WF_ledgerVars(LoadQuotaHeartbeat)

LedgerFairSpec == LedgerSpec /\ LedgerFairness

-----------------------------------------------------------------------------
(* The materialised usage is the stored events', week by week in the       *)
(* materialised time zone, and every adjustment is in the week it was      *)
(* made: ingest, duplicates, rebuild and a change of the zone agree.       *)
UsageAgrees ==
    /\ weekly = RebuiltWeekly(stored, zone)
    /\ \A a \in adjustments : a.week = WeekStart(a.created, zone)

(* The requests of the week before end. *)
Charged(u, end) ==
    {<<e.meter, e.request>> : e \in
        {s \in reported : s.user = u /\ s.at < end /\ s.at >= end - WeekLength}}

(* A user the Gateway refuses did make, in the very week the record        *)
(* covers and that has not ended, as many distinct requests as the limit   *)
(* of the record: no duplicate, rebuild, former week or old file adds one. *)
RefusalJustified ==
    \A u \in Member : Refused(u) =>
        LET end == gate.file[u].weekEnd
        IN  clock < end /\ Cardinality(Charged(u, end)) >= gate.file[u].limit

(* Without a failure, the usage of an identified user that waits in the    *)
(* queue of an enabled account is eventually in the database, unless the   *)
(* account is disabled meanwhile: the queue of a disabled account is left  *)
(* alone until it is enabled again (RunOnce).                              *)
Waiting(a, r) == \E n \in DOMAIN usageQueue[a] :
                    usageQueue[a][n].request = r /\ usageQueue[a][n].user \in identified

UsageArrives ==
    \A a \in Meter, r \in Request :
        (a \in enabledAccounts /\ Waiting(a, r)) ~>
            \/ faults > 0 \/ a \notin enabledAccounts
            \/ \E e \in stored : e.meter = a /\ e.request = r

(* Once failures stop, a user over the limit is refused, or is no longer   *)
(* over it: the chain from the database over both files to the Gateway.    *)
Overrun(u) == u \in joined /\ WeeklyQuota(u).limit >= 0
              /\ WeeklyQuota(u).used >= WeeklyQuota(u).limit

OverrunRefused == \A u \in Member : Overrun(u) ~> (Refused(u) \/ ~Overrun(u))
=============================================================================
