---------------------------- MODULE MCComponents ----------------------------
(***************************************************************************)
(* One instance of every component that is modelled apart from the data    *)
(* plane.  They share no state in these models, so a behaviour runs one of *)
(* them, the focus, and leaves the others in their initial states.         *)
(***************************************************************************)
EXTENDS UsageLedger, QuotaRefresh, Notifications, RouteFailover, RuntimeJobs,
        AccountSaga

CONSTANT Foci   \* the components a run covers

VARIABLE focus

MCVars == <<focus, ledgerVars, quotaVars, noticeVars, routeVars, jobVars, sagaVars>>

(* The ledger begins with its users known, its accounts enabled and its    *)
(* time zone as configured, or with one of the three otherwise.            *)
OneUnusual ==
    \/ enabledAccounts = Meter /\ configured = DefaultZone
    \/ joined = Member /\ configured = DefaultZone
    \/ joined = Member /\ enabledAccounts = Meter

MCInit ==
    /\ focus \in Foci
    /\ LedgerInit /\ (focus # "ledger" => /\ joined = {} /\ configured = DefaultZone
                                           /\ enabledAccounts = Meter)
                  /\ OneUnusual
    /\ QuotaInit /\ NoticeInit /\ JobsInit
    /\ SagaInit /\ (focus # "saga" => secret[1] = 0)
    /\ RouteInit /\ (focus # "routes" => /\ way = NoMove
                                         /\ \A b \in Backend : quotaOf[b].left = Full)

LedgerStep == focus = "ledger" /\ LedgerNext
              /\ UNCHANGED <<quotaVars, noticeVars, routeVars, jobVars, sagaVars>>
QuotaStep == focus = "quota" /\ QuotaNext
              /\ UNCHANGED <<ledgerVars, noticeVars, routeVars, jobVars, sagaVars>>
NoticesStep == focus = "notices" /\ NoticeNext
              /\ UNCHANGED <<ledgerVars, quotaVars, routeVars, jobVars, sagaVars>>
RoutesStep == focus = "routes" /\ RouteNext
              /\ UNCHANGED <<ledgerVars, quotaVars, noticeVars, jobVars, sagaVars>>
JobsStep == focus = "jobs" /\ JobsNext
              /\ UNCHANGED <<ledgerVars, quotaVars, noticeVars, routeVars, sagaVars>>
SagaStep == focus = "saga" /\ SagaNext
            /\ UNCHANGED <<ledgerVars, quotaVars, noticeVars, routeVars, jobVars>>

MCNext ==
    /\ UNCHANGED focus
    /\ LedgerStep \/ QuotaStep \/ NoticesStep \/ RoutesStep \/ JobsStep \/ SagaStep

MCSpec == MCInit /\ [][MCNext]_MCVars

(* The fairness of the component a behaviour runs. *)
InFocus(f, A) == focus = f /\ A

MCFairSpec ==
    /\ MCSpec
    /\ SF_ledgerVars(InFocus("ledger", StartRound(FALSE)))
    /\ WF_ledgerVars(InFocus("ledger", RoundStep))
    /\ WF_ledgerVars(InFocus("ledger", LoadQuotaSnapshot))
    /\ WF_ledgerVars(InFocus("ledger", LoadQuotaHeartbeat))
    /\ SF_quotaVars(InFocus("quota", WorkerStep))
    /\ \A o \in Operator : WF_quotaVars(InFocus("quota", ResetStep(o)))
    /\ WF_noticeVars(InFocus("notices", NoticeStep))
    /\ WF_noticeVars(InFocus("notices", CheckIntervalPasses))
    /\ WF_routeVars(InFocus("routes", ControllerStep))
    /\ WF_routeVars(InFocus("routes", AdminStep))
    /\ WF_jobVars(InFocus("jobs", PoolTakes))
    /\ \A id \in JobId : /\ WF_jobVars(InFocus("jobs", Execute(id)))
                         /\ WF_jobVars(InFocus("jobs", WorkEnds(id)))
                         /\ WF_jobVars(InFocus("jobs", Finish(id)))
    /\ WF_sagaVars(InFocus("saga", SagaProgress))
=============================================================================
