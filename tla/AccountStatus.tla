---------------------------- MODULE AccountStatus ----------------------------
(***************************************************************************)
(* The live status of accounts (internal/accountstatus: Observer and       *)
(* Present; cmd/admin: liveAccountStateProvider): what the CPAs report of  *)
(* their credentials is fetched for all running ones at once, kept for a   *)
(* while, laid over the stored states and decides which accounts a user    *)
(* may select (internal/portal/server.go: readAccounts, changeRoute).      *)
(*                                                                         *)
(* Concurrent requests share one fetch per set of services (singleflight); *)
(* lists may be answered by an expired snapshot, changes of a route may    *)
(* not.  What a CPA reports is one of Native; "silent" is a query that     *)
(* fails.  A fetch reads all CPAs at one instant.                          *)
(*                                                                         *)
(* Bounds: LastSecond, MaxTurns.                                           *)
(***************************************************************************)
EXTENDS Naturals, FiniteSets

CONSTANTS
    Site,           \* accounts
    Reports,        \* what the CPAs of an instance come to report
    Limited,        \* whether its access log may show recent 429s
    CacheTTL,
    ProbeTime,      \* the longest a fetch takes
    LastSecond,
    MaxTurns        \* changes of the world

ASSUME AccountStatusAssumption ==
    /\ {CacheTTL, ProbeTime, LastSecond, MaxTurns} \subseteq Nat
    /\ CacheTTL > 0
    /\ Limited \subseteq BOOLEAN
    /\ Reports \subseteq {"active", "degraded", "cooling", "exhausted", "invalid", "missing"}

Native == {"active", "degraded", "cooling", "exhausted", "invalid", "missing", "silent"}
Blocking == {"exhausted", "invalid", "missing"}

VARIABLES
    second,         \* the clock
    native,         \* what each CPA would report
    blockedSince,   \* since when it has reported a blocker, 0 if it does not
    up,             \* running CPAs
    usable,         \* accounts that are enabled, have OAuth and quota left
    cache,          \* the observer's snapshot
    flights,        \* fetches under way
    change,         \* a change of a route
    list,           \* a list of the accounts and the snapshot it is answered with
    turns

statusVars == <<second, native, blockedSince, up, usable, cache, flights, change, list, turns>>

---------------------------------------------------------------------------
(* presentRuntime: from what a CPA reports and the errors of the last hour *)
(* in the access log; limited says that there is a 429 among them and one  *)
(* of them is recent.                                                      *)

Activity == [errors : BOOLEAN, limited : BOOLEAN]

RuntimeState(report, activity) ==
    IF report \in Blocking \cup {"cooling"} THEN "unavailable"
    ELSE IF activity.limited /\ activity.errors THEN "rate_limited"
    ELSE IF activity.errors \/ report = "degraded" THEN "degraded"
    ELSE IF report = "active" THEN "healthy" ELSE "unknown"

PresentRuntime(report, activity) ==
    CASE RuntimeState(report, activity) = "unavailable" ->
             IF report = "exhausted" THEN "quota_exhausted"
             ELSE IF report = "cooling" THEN "transient_cooldown" ELSE "credential_unavailable"
      [] RuntimeState(report, activity) = "unknown" -> "runtime_unknown"
      [] RuntimeState(report, activity) = "healthy" -> ""
      [] OTHER -> RuntimeState(report, activity)

(* liveAccountStateProvider: the first blocker names the state; the rest   *)
(* of the overlay only names it.                                           *)
LiveState(stored, enabled, running, oauth, overlay) ==
    IF ~enabled THEN "account_disabled"
    ELSE IF ~running THEN "container_not_running"
    ELSE IF ~oauth THEN "oauth_missing"
    ELSE IF stored \in {"quota_exhausted", "upstream_disallowed"} THEN "quota_exhausted"
    ELSE IF overlay = "" THEN stored ELSE overlay

(* Present *)
Selectable(state) ==
    state \notin {"quota_exhausted", "upstream_disallowed", "account_disabled",
                  "container_not_running", "oauth_missing", "credential_unavailable"}

---------------------------------------------------------------------------
NoSnapshot == [services |-> {}, expires |-> 0, seen |-> 0, answered |-> FALSE,
               overlay |-> [s \in Site |-> ""]]
NoChoice == [step |-> "none", target |-> CHOOSE s \in Site : TRUE, services |-> {},
             at |-> 0, answered |-> FALSE, overlay |-> ""]

StatusInit ==
    /\ second = 1
    /\ native = [s \in Site |-> "active"] /\ blockedSince = [s \in Site |-> 0]
    /\ up = Site /\ usable = Site
    /\ cache = NoSnapshot /\ flights = {} /\ change = NoChoice /\ list = NoSnapshot
    /\ turns = 0

(* A fetch ends before its time is over. *)
SecondPasses ==
    /\ second < LastSecond /\ \A f \in flights : second < f.started + ProbeTime
    /\ second' = second + 1
    /\ UNCHANGED <<native, blockedSince, up, usable, cache, flights, change, list, turns>>

Turn == turns < MaxTurns /\ turns' = turns + 1

ReportChanges(s) ==
    /\ Turn
    /\ \E report \in Reports \ {native[s]} :
        /\ native' = [native EXCEPT ![s] = report]
        /\ blockedSince' = [blockedSince EXCEPT ![s] =
                               IF report \notin Blocking THEN 0
                               ELSE IF @ = 0 THEN second ELSE @]
    /\ UNCHANGED <<second, up, usable, cache, flights, change, list>>

AccountChanges(s) ==
    /\ Turn
    /\ \/ up' = (IF s \in up THEN up \ {s} ELSE up \cup {s}) /\ UNCHANGED usable
       \/ usable' = (IF s \in usable THEN usable \ {s} ELSE usable \cup {s}) /\ UNCHANGED up
    /\ UNCHANGED <<second, native, blockedSince, cache, flights, change, list>>

---------------------------------------------------------------------------
(* refreshSnapshot joins the fetch of the same services or starts one.     *)
Joined(services) ==
    IF \E f \in flights : f.services = services THEN flights
    ELSE flights \cup {[services |-> services, started |-> second, seen |-> 0,
                        answered |-> FALSE, overlay |-> [s \in Site |-> ""]]}

(* refreshStates: the access log, then every CPA of the set.               *)
ReadNative(f) ==
    /\ f.seen = 0
    /\ \E answered \in BOOLEAN, limited \in Limited :
        LET report(s) == IF answered THEN native[s] ELSE "silent"
            activity == [errors |-> limited, limited |-> limited]
        IN  flights' = (flights \ {f}) \cup
                {[f EXCEPT !.seen = second, !.answered = answered,
                           !.overlay = [s \in Site |-> IF s \in f.services
                                            THEN PresentRuntime(report(s), activity) ELSE ""]]}
    /\ UNCHANGED <<second, native, blockedSince, up, usable, cache, change, list, turns>>

(* The snapshot is kept from now on; waiting requests take it.             *)
RefreshEnds(f) ==
    /\ f.seen # 0
    /\ flights' = flights \ {f}
    /\ cache' = [services |-> f.services, expires |-> second + CacheTTL,
                 seen |-> f.seen, answered |-> f.answered, overlay |-> f.overlay]
    /\ change' = IF change.step = "waiting" /\ change.services = f.services
                 THEN [change EXCEPT !.step = "observed", !.at = second, !.answered = f.answered,
                                     !.overlay = f.overlay[change.target]] ELSE change
    /\ list' = IF list.services = f.services /\ list.expires = 0
               THEN [cache' EXCEPT !.expires = second] ELSE list
    /\ UNCHANGED <<second, native, blockedSince, up, usable, turns>>

UnexpiredForList(services) ==            \* Deviation: as long as a list may use it
    cache.services = services /\ second < cache.expires + CacheTTL
Unexpired(services) == cache.services = services /\ second < cache.expires
Displayable(services) == cache.services = services /\ second < cache.expires + CacheTTL

(* Observe, for a change of a route (changeRoute).                         *)
ChangeRoute(s) ==
    /\ change.step = "none"
    /\ s \in usable /\ s \in up
    /\ IF Unexpired(up)
       THEN /\ change' = [step |-> "observed", target |-> s, services |-> up,
                          at |-> second, answered |-> cache.answered,
                          overlay |-> cache.overlay[s]]
            /\ UNCHANGED flights
       ELSE /\ change' = [NoChoice EXCEPT !.step = "waiting", !.target = s, !.services = up]
            /\ flights' = Joined(up)
    /\ UNCHANGED <<second, native, blockedSince, up, usable, cache, list, turns>>

(* The account is read once more by the transaction that moves the user.   *)
ChangeEnds ==
    /\ change.step = "observed"
    /\ change' = NoChoice
    /\ UNCHANGED <<second, native, blockedSince, up, usable, cache, flights, list, turns>>

(* ObserveForDisplay: an expired snapshot, while a new one is fetched.     *)
ReadAccounts ==
    /\ up # {} /\ list = NoSnapshot
    /\ IF Displayable(up)
       THEN /\ list' = [cache EXCEPT !.expires = second]
            /\ flights' = IF second < cache.expires THEN flights ELSE Joined(up)
       ELSE /\ list' = [NoSnapshot EXCEPT !.services = up]
            /\ flights' = Joined(up)
    /\ UNCHANGED <<second, native, blockedSince, up, usable, cache, change, turns>>

ListEnds ==
    /\ list.expires # 0
    /\ list' = NoSnapshot
    /\ UNCHANGED <<second, native, blockedSince, up, usable, cache, flights, change, turns>>

StatusNext ==
    \/ SecondPasses \/ ChangeEnds \/ ReadAccounts \/ ListEnds
    \/ \E s \in Site : ReportChanges(s) \/ AccountChanges(s) \/ ChangeRoute(s)
    \/ \E f \in flights : ReadNative(f) \/ RefreshEnds(f)

StatusSpec == StatusInit /\ [][StatusNext]_statusVars

---------------------------------------------------------------------------
(* A blocker is never hidden: neither by errors in the log, nor by what    *)
(* the CPA reports, nor by the absence of a report (Observe: "neither      *)
(* condition can turn a hard blocker healthy"; liveAccountStateProvider:   *)
(* "never widened into selectable").                                       *)
Stored == {"available", "quota_exhausted", "upstream_disallowed", "quota_stale", "reserve_reached"}
BlockersWin ==
    \A report \in Native, activity \in Activity, stored \in Stored :
        LET overlay == PresentRuntime(report, activity)
            state(enabled, running, oauth) == LiveState(stored, enabled, running, oauth, overlay)
        IN  /\ report \in Blocking => ~Selectable(state(TRUE, TRUE, TRUE))
            /\ stored \in {"quota_exhausted", "upstream_disallowed"}
                   => ~Selectable(state(TRUE, TRUE, TRUE))
            /\ \A e, r, o \in BOOLEAN : Selectable(state(e, r, o)) => e /\ r /\ o

(* A user is moved only to an account whose CPA, if it answered, did not   *)
(* report a blocker for longer than a snapshot lives and a fetch takes     *)
(* (ObserveForDisplay: "an expired healthy display snapshot cannot         *)
(* authorize a switch").                                                   *)
RouteChoiceCurrent ==
    change.step = "observed" /\ change.answered
    /\ Selectable(LiveState("available", TRUE, TRUE, TRUE, change.overlay))
    => \/ blockedSince[change.target] = 0
       \/ change.at < blockedSince[change.target] + CacheTTL + ProbeTime

(* A list shows nothing older than two lives of a snapshot and a fetch     *)
(* (ObserveForDisplay: "for at most two cache periods").                   *)
ListRecent == list.seen # 0 => list.expires < list.seen + 2 * CacheTTL + ProbeTime

StatusSound == BlockersWin /\ RouteChoiceCurrent /\ ListRecent
=============================================================================
