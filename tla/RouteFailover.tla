--------------------------- MODULE RouteFailover ---------------------------
(***************************************************************************)
(* Who is routed where (internal/failover): the states of the accounts     *)
(* from quota, probe and catalog (quota_states.go, providers.go), the two  *)
(* planners (planner.go), the Failover controller (controller.go) and the  *)
(* rebalance and evacuation that Admin asks for (service.go,               *)
(* cmd/admin/main.go).  The publication of the auth snapshot with its      *)
(* readers is in DataPlane; here it succeeds or fails.                     *)
(*                                                                         *)
(* Accounts and users are numbers in the lexical order of their names,     *)
(* percentages are tenths or so: Full is an unused week, and scores of     *)
(* floating point are compared by cross multiplication.                    *)
(*                                                                         *)
(* Bounds: MaxShifts, MaxMishaps.  A definition marked "Deviation" is what *)
(* the definition after it must not be.                                    *)
(***************************************************************************)
EXTENDS Integers, FiniteSets, FiniteSetsExt, Folds

CONSTANTS
    Person,         \* users
    Backend,        \* accounts of the catalog
    Full,           \* remaining quota of an unused week
    Reserve,        \* account_failover.reserve_percent
    MaxShifts,      \* changes around the movers
    MaxMishaps      \* failing publications and lost rounds

Nowhere == 0

ASSUME RouteFailoverAssumption ==
    /\ Person \subseteq Nat /\ Backend \subseteq Nat \ {Nowhere}
    /\ IsFiniteSet(Person) /\ IsFiniteSet(Backend)
    /\ Full \in Nat /\ Reserve \in 0..Full

VARIABLES
    quotaOf,        \* official quota snapshot
    trusted,        \* the quota worker is healthy and its snapshot is young
    groupEnabled,   \* enabled accounts
    up,             \* accounts whose port answers
    keyed,          \* accounts for which a user has an active key record
    way,            \* user_routes, Nowhere without a row
    capacity,       \* failover runtime state: account states, last error
    mover,          \* the Failover controller and Admin's service
    shifts, mishaps

routeVars == <<quotaOf, trusted, groupEnabled, up, keyed, way, capacity, mover,
               shifts, mishaps>>

Unread == [ok |-> FALSE, limited |-> FALSE, allowed |-> TRUE, left |-> Full]
Quotas == [ok : {TRUE}, limited : BOOLEAN, allowed : BOOLEAN, left : 0..Full]
          \cup {Unread}

-----------------------------------------------------------------------------
(***************************************************************************)
(* BuildAccountStates, the persisted states, and Admin's live overlay.     *)
(***************************************************************************)
Exhausted(q, fresh) == fresh /\ q.ok /\ (q.limited \/ q.left = 0)
Headroom(q) == Max({0, q.left - Reserve})

BuildAccountStates(quotas, fresh, enabled, running) ==
    [b \in Backend |->
        LET q == quotas[b]
        IN  [eligible  |-> /\ b \in enabled /\ b \in running /\ fresh /\ q.ok
                           /\ q.allowed /\ ~Exhausted(q, fresh) /\ Headroom(q) > 0,
             exhausted |-> Exhausted(q, fresh),
             disallowed |-> /\ b \in enabled /\ b \in running /\ fresh /\ q.ok
                            /\ ~q.allowed /\ ~Exhausted(q, fresh),
             headroom  |-> Headroom(q), used |-> Full - q.left]]

Unavailable == [eligible |-> FALSE, exhausted |-> FALSE, disallowed |-> FALSE,
                headroom |-> 0, used |-> 0]

(* RuntimeStateProvider, then liveAccountStateProvider.                    *)
LiveStates ==
    [b \in Backend |->
        LET s == IF capacity.error THEN Unavailable ELSE capacity.states[b]
        IN  IF b \notin groupEnabled \/ b \notin up
              THEN [s EXCEPT !.eligible = FALSE, !.exhausted = FALSE, !.headroom = 0]
            ELSE IF s.exhausted \/ s.disallowed
              THEN [s EXCEPT !.eligible = FALSE, !.exhausted = TRUE, !.headroom = 0]
            ELSE IF ~trusted THEN [s EXCEPT !.eligible = FALSE, !.headroom = 0]
            ELSE s]

-----------------------------------------------------------------------------
(***************************************************************************)
(* The planners.  A plan maps every user to a target or Nowhere.           *)
(***************************************************************************)
Candidates(states, excluded) ==
    {b \in Backend \ excluded : states[b].eligible /\ states[b].headroom > 0}

WeightedLess(states, load, b, c) ==
    LET left == (load[b] + 1) * states[c].headroom
        right == (load[c] + 1) * states[b].headroom
    IN  \/ left < right
        \/ left = right /\ states[b].used < states[c].used
        \/ left = right /\ states[b].used = states[c].used /\ b < c

LeastWeighted(states, load, candidates) ==
    CHOOSE b \in candidates :
        \A c \in candidates \ {b} : WeightedLess(states, load, b, c)

(* A loop over numbers, the least first. *)
InOrder(step(_, _), start, numbers) ==
    MapThenFoldSet(step, start, LAMBDA i : i, Max, numbers)

NoMove == [p \in Person |-> Nowhere]
ActivePeople == {p \in Person : keyed[p] # {}}
Routable == {p \in Person : keyed[p] = Backend}
LoadOf(users) == [b \in Backend |-> Cardinality({p \in users : way[p] = b})]

Affected(sources) == {p \in ActivePeople : way[p] \in sources}

(* Deviation: a planned user does not count as load of the target. *)
PlanEvacuationBlind(states, sources) ==
    LET candidates == Candidates(states, sources)
    IN  [p \in Person |-> IF p \in Affected(sources) \cap Routable
           THEN LeastWeighted(states, LoadOf(ActivePeople), candidates) ELSE Nowhere]

(* One user after the other goes to the candidate with the least load.     *)
Assign(states, candidates, p, plan) ==
    LET target == LeastWeighted(states, plan.load, candidates)
    IN  [to |-> [plan.to EXCEPT ![p] = target],
         load |-> [plan.load EXCEPT ![target] = @ + 1]]

PlanEvacuation(states, sources) ==
    InOrder(LAMBDA p, plan : Assign(states, Candidates(states, sources), p, plan),
            [to |-> NoMove, load |-> LoadOf(ActivePeople)],
            Affected(sources) \cap Routable).to

(* All or nothing: one user that cannot be moved keeps everybody.          *)
EvacuationSafe(states, sources) ==
    Candidates(states, sources) # {} /\ Affected(sources) \subseteq Routable

CountOne(states, candidates, count) ==
    [count EXCEPT ![LeastWeighted(states, count, candidates)] = @ + 1]

WeightedTargetCounts(total, states) ==
    InOrder(LAMBDA n, count : CountOne(states, Candidates(states, {}), count),
            [b \in Backend |-> 0], 1..total)

(* The first users of an account stay within its target count, the others  *)
(* fill the first deficits in the order of the names.                      *)
Surplus(p, targets, candidates) ==
    \/ way[p] \notin candidates
    \/ Cardinality({o \in ActivePeople : way[o] = way[p] /\ o < p}) >= targets[way[p]]

FillFirst(candidates, p, plan) ==
    LET target == Min({b \in candidates : plan.deficit[b] > 0})
    IN  [to |-> [plan.to EXCEPT ![p] = target],
         deficit |-> [plan.deficit EXCEPT ![target] = @ - 1]]

PlanGlobalRebalance(states) ==
    LET candidates == Candidates(states, {})
        targets == WeightedTargetCounts(Cardinality(ActivePeople), states)
        deficits == [b \in Backend |-> Max({0, targets[b] - LoadOf(ActivePeople)[b]})]
    IN  InOrder(LAMBDA p, plan : FillFirst(candidates, p, plan),
                [to |-> NoMove, deficit |-> deficits],
                {p \in ActivePeople : Surplus(p, targets, candidates)}).to

-----------------------------------------------------------------------------
(***************************************************************************)
(* applyPlan: routes that are still as planned change together; when the   *)
(* publication fails they change back.                                     *)
(***************************************************************************)
AtRest == [pc |-> "idle", quota |-> [b \in Backend |-> Unread], fresh |-> FALSE, enabled |-> {},
           states |-> [b \in Backend |-> Unavailable], by |-> "none", sources |-> {}, from |-> NoMove, to |-> NoMove]

inputs == <<quotaOf, trusted, groupEnabled, up, keyed>>
Planned(m) == {p \in Person : mover[m].to[p] # Nowhere}

(* The controller records the states it planned with; Admin records none.  *)
Ends(m, error) ==
    /\ mover' = [mover EXCEPT ![m] = AtRest]
    /\ capacity' = IF m = "failover"
                     THEN [states |-> mover[m].states, error |-> error] ELSE capacity

ApplyRoutesExpected(m) ==
    /\ mover[m].pc = "apply"
    /\ IF \A p \in Planned(m) : /\ mover[m].to[p] \in keyed[p]
                                /\ way[p] = mover[m].from[p]
         THEN /\ way' = [p \in Person |-> IF p \in Planned(m) THEN mover[m].to[p]
                                                              ELSE way[p]]
              /\ mover' = [mover EXCEPT ![m].pc = "publish"]
              /\ UNCHANGED capacity
         ELSE Ends(m, TRUE) /\ UNCHANGED way
    /\ UNCHANGED <<inputs, shifts, mishaps>>

PublishRoutes(m) ==
    /\ mover[m].pc = "publish"
    /\ Ends(m, FALSE)
    /\ UNCHANGED <<inputs, way, shifts, mishaps>>

Mishap == mishaps < MaxMishaps /\ mishaps' = mishaps + 1

(* RestoreRoutesExpected gives up when a route is no longer the planned.   *)
PublicationFails(m) ==
    /\ Mishap /\ mover[m].pc = "publish"
    /\ way' = IF \A p \in Planned(m) : way[p] = mover[m].to[p]
                THEN [p \in Person |-> IF p \in Planned(m) THEN mover[m].from[p]
                                                           ELSE way[p]]
                ELSE way
    /\ Ends(m, TRUE)
    /\ UNCHANGED <<inputs, shifts>>

(* The process or its lease ends; the routes stay as they are.             *)
MoverDies(m) ==
    /\ Mishap /\ mover[m].pc # "idle"
    /\ mover' = [mover EXCEPT ![m] = AtRest]
    /\ UNCHANGED <<inputs, way, capacity, shifts>>

-----------------------------------------------------------------------------
(***************************************************************************)
(* The controller: quota, catalog and probe are read one after another.    *)
(***************************************************************************)
controllerFrame == <<inputs, way, shifts, mishaps>>

ReadQuotaState ==
    /\ mover["failover"].pc = "idle"
    /\ mover' = [mover EXCEPT !["failover"] = [@ EXCEPT !.pc = "accounts",
                    !.quota = quotaOf, !.fresh = trusted]]
    /\ UNCHANGED <<controllerFrame, capacity>>

ReadAccounts ==
    /\ mover["failover"].pc = "accounts"
    /\ mover' = [mover EXCEPT !["failover"] = [@ EXCEPT !.pc = "probe",
                    !.enabled = groupEnabled]]
    /\ UNCHANGED <<controllerFrame, capacity>>

(* Without a healthy quota worker the states are recorded with an error.   *)
ProbeAccounts ==
    LET f == mover["failover"]
        states == BuildAccountStates(f.quota, f.fresh, f.enabled, up)
    IN  /\ f.pc = "probe"
        /\ mover' = [mover EXCEPT !["failover"] = IF ~f.fresh THEN AtRest
                        ELSE [@ EXCEPT !.pc = "plan", !.states = states]]
        /\ capacity' = IF f.fresh THEN capacity
                       ELSE [states |-> states, error |-> TRUE]
        /\ UNCHANGED controllerFrame

(* A plan that would leave somebody behind changes nothing; that counts    *)
(* as a success of the round.                                              *)
Adopts(m, kind, states, sources, safe, plan) ==
    IF safe /\ plan # NoMove
      THEN /\ mover' = [mover EXCEPT ![m] = [@ EXCEPT !.pc = "apply", !.by = kind,
                 !.states = states, !.sources = sources, !.to = plan,
                 !.from = [p \in Person |-> IF plan[p] = Nowhere THEN Nowhere
                                                                 ELSE way[p]]]]
           /\ UNCHANGED capacity
      ELSE Ends(m, FALSE)

(* Deviation: a disabled account is not evacuated. *)
EvacuateEnabled ==
    LET states == mover["failover"].states
        sources == {b \in mover["failover"].enabled : states[b].exhausted}
    IN  /\ mover["failover"].pc = "plan"
        /\ LET safe == EvacuationSafe(states, sources)
           IN  Adopts("failover", "evacuation", states, sources, safe,
                      IF safe THEN PlanEvacuation(states, sources) ELSE NoMove)
        /\ UNCHANGED controllerFrame

EvacuateExhausted ==
    LET states == mover["failover"].states
        sources == {b \in Backend : states[b].exhausted}
    IN  /\ mover["failover"].pc = "plan"
        /\ LET safe == EvacuationSafe(states, sources)
           IN  Adopts("failover", "evacuation", states, sources, safe,
                      IF safe THEN PlanEvacuation(states, sources) ELSE NoMove)
        /\ UNCHANGED controllerFrame

-----------------------------------------------------------------------------
(***************************************************************************)
(* Admin: one operation of the service at a time, with the live states.    *)
(***************************************************************************)
RebalanceAll ==
    LET safe == Candidates(LiveStates, {}) # {} /\ ActivePeople \subseteq Routable
        plan == IF safe THEN PlanGlobalRebalance(LiveStates) ELSE NoMove
    IN  /\ mover["admin"].pc = "idle" /\ plan # NoMove
        /\ Adopts("admin", "rebalance", LiveStates, {}, safe, plan)
        /\ UNCHANGED controllerFrame

EvacuateAccount(b) ==
    LET safe == EvacuationSafe(LiveStates, {b})
        plan == IF safe THEN PlanEvacuation(LiveStates, {b}) ELSE NoMove
    IN  /\ mover["admin"].pc = "idle" /\ plan # NoMove
        /\ Adopts("admin", "evacuation", LiveStates, {b}, safe, plan)
        /\ UNCHANGED controllerFrame

-----------------------------------------------------------------------------
(***************************************************************************)
(* What changes around the movers.                                         *)
(***************************************************************************)
Shift == shifts < MaxShifts /\ shifts' = shifts + 1
aroundFrame == <<capacity, mover, mishaps>>

QuotaChanges(b) ==
    /\ Shift /\ \E q \in Quotas : quotaOf' = [quotaOf EXCEPT ![b] = q]
    /\ UNCHANGED <<aroundFrame, trusted, groupEnabled, up, keyed, way>>

QuotaWorkerStops ==
    /\ Shift /\ trusted' = ~trusted
    /\ UNCHANGED <<aroundFrame, quotaOf, groupEnabled, up, keyed, way>>

AccountSwitched(b) ==
    /\ Shift
    /\ \/ groupEnabled' = SymDiff(groupEnabled, {b}) /\ UNCHANGED up
       \/ up' = SymDiff(up, {b}) /\ UNCHANGED groupEnabled
    /\ UNCHANGED <<aroundFrame, quotaOf, trusted, keyed, way>>

(* A user is revoked or restored, or loses the record of one account.      *)
RecordsChange(p) ==
    /\ Shift /\ \E k \in SUBSET Backend : keyed' = [keyed EXCEPT ![p] = k]
    /\ UNCHANGED <<aroundFrame, quotaOf, trusted, groupEnabled, up, way>>

(* MoveUser of the Portal, to an account the user has a key for.           *)
MoveUser(p) ==
    /\ Shift /\ \E b \in keyed[p] \ {way[p]} : way' = [way EXCEPT ![p] = b]
    /\ UNCHANGED <<aroundFrame, quotaOf, trusted, groupEnabled, up, keyed>>

-----------------------------------------------------------------------------
Mover == {"failover", "admin"}

RouteInit ==
    /\ quotaOf \in [Backend -> {q \in Quotas : q.ok /\ ~q.limited /\ q.allowed}]
    /\ trusted = TRUE /\ groupEnabled = Backend /\ up = Backend
    /\ keyed = [p \in Person |-> Backend]
    /\ way \in [Person -> Backend \cup {Nowhere}]
    /\ capacity = [states |-> BuildAccountStates(quotaOf, TRUE, Backend, Backend),
                   error |-> FALSE]
    /\ mover = [m \in Mover |-> AtRest]
    /\ shifts = 0 /\ mishaps = 0

ControllerStep ==
    \/ ReadQuotaState \/ ReadAccounts \/ ProbeAccounts \/ EvacuateExhausted
    \/ ApplyRoutesExpected("failover") \/ PublishRoutes("failover")

(* The handlers of the two buttons: every account, or one of the catalog.  *)
AdminAsks == RebalanceAll \/ \E b \in Backend : EvacuateAccount(b)

AdminStep == ApplyRoutesExpected("admin") \/ PublishRoutes("admin")

Around ==
    \/ QuotaWorkerStops
    \/ \E b \in Backend : QuotaChanges(b) \/ AccountSwitched(b)
    \/ \E p \in Person : RecordsChange(p) \/ MoveUser(p)

RouteNext ==
    \/ ControllerStep \/ AdminAsks \/ AdminStep \/ Around
    \/ \E m \in Mover : PublicationFails(m) \/ MoverDies(m)

RouteSpec == RouteInit /\ [][RouteNext]_routeVars

(* The scheduler of the process starts round after round, and a round has  *)
(* a timeout; Admin's started operation ends.                              *)
RoundsGoOn == WF_routeVars(ControllerStep)
RouteFairness == RoundsGoOn /\ WF_routeVars(AdminStep)

RouteFairSpec == RouteSpec /\ RouteFairness

-----------------------------------------------------------------------------
(* The reference the greedy planner is measured against: no user that has  *)
(* been given to b would find a lighter account c, in proportion to what   *)
(* is left of their quotas.                                                *)
Even(states, load, b, c) ==
    load[b] * states[c].headroom <= (load[c] + 1) * states[b].headroom

After(plan) ==
    LET goes(p) == IF plan[p] = Nowhere THEN way[p] ELSE plan[p]
    IN  [b \in Backend |-> Cardinality({p \in ActivePeople : goes(p) = b})]

Plans(m, kind) == mover[m].pc # "apply" /\ mover'[m].pc = "apply"
                  /\ mover'[m].by = kind

(* An evacuation leaves nobody on a source, gives no user to a source or   *)
(* to an account that may not be used, and spreads the users evenly.       *)
EvenEvacuation(plan, states, sources) ==
    LET targets == {plan[p] : p \in Person} \ {Nowhere}
        candidates == Candidates(states, sources)
    IN  /\ targets \subseteq candidates
        /\ \A b \in sources : After(plan)[b] = 0
        /\ \A b \in targets, c \in candidates : Even(states, After(plan), b, c)

(* A rebalance is even over all accounts and moves no user more than that  *)
(* needs: every account either gains users or gives users away.            *)
ExactRebalance(plan, states) ==
    LET moved == {p \in Person : plan[p] # Nowhere}
        candidates == Candidates(states, {})
    IN  /\ \A p \in ActivePeople \ moved : way[p] \in candidates
        /\ \A b, c \in candidates : After(plan)[b] > 0 => Even(states, After(plan), b, c)
        /\ {plan[p] : p \in moved} \cap {way[p] : p \in moved} = {}

(* Every plan of Failover or Admin is even over the accounts that may take *)
(* users, an evacuation leaves nobody behind, and a rebalance moves no     *)
(* more users than that needs (PlanEvacuation, PlanGlobalRebalance).       *)
PlansEven ==
    [][/\ \A m \in Mover : Plans(m, "evacuation") =>
              EvenEvacuation(mover'[m].to, mover'[m].states, mover'[m].sources)
       /\ Plans("admin", "rebalance") =>
              ExactRebalance(mover'["admin"].to, mover'["admin"].states)]_routeVars

(* Users of an account that stays exhausted are moved, whatever fails or   *)
(* interferes a bounded number of times, if any account may take them and  *)
(* none of them lacks a record.                                            *)
Overdue(b) ==
    LET states == BuildAccountStates(quotaOf, trusted, groupEnabled, up)
        sources == {c \in Backend : states[c].exhausted}
    IN  b \in sources /\ Affected({b}) # {} /\ EvacuationSafe(states, sources)

ExhaustedEvacuated == \A b \in Backend : Overdue(b) ~> ~Overdue(b)
=============================================================================
