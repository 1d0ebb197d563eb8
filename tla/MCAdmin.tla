------------------------------ MODULE MCAdmin ------------------------------
(***************************************************************************)
(* One instance of what Admin and the User Portal do with users, sign-ins, *)
(* settings, the containers of CPAs, official quotas and reports, and what *)
(* the worker for notifications sends.  They share no state in these       *)
(* models, so a behaviour runs one of them, the focus, and leaves the      *)
(* others in their initial states.                                         *)
(***************************************************************************)
EXTENDS UserLifecycle, LoginLimiter, Configuration, CpaRuntime, MCReports, Notifications,
        QuotaRefresh

VARIABLE focus

MCVars == <<focus, userVars, loginVars, settingsVars, runtimeVars, reportVars,
            noticeVars, quotaVars>>

MCInit ==
    /\ focus \in {"users", "login", "settings", "runtime", "reports", "notices",
                 "quota"}
    /\ UserInit /\ LoginInit /\ NoticeInit /\ QuotaInit
    /\ SettingsInit /\ (focus # "settings" => ~webhook /\ ~legacy)
    /\ RuntimeInit /\ (focus # "runtime" => imageState.applied = 0)
    /\ ReportInit /\ (focus # "reports" => zone = CHOOSE z \in Zone : TRUE)

UsersStep == focus = "users" /\ UserNext
    /\ UNCHANGED <<loginVars, settingsVars, runtimeVars, reportVars, noticeVars, quotaVars>>
LoginStep == focus = "login" /\ LoginNext
    /\ UNCHANGED <<userVars, settingsVars, runtimeVars, reportVars, noticeVars, quotaVars>>
SettingsStep == focus = "settings" /\ SettingsNext
    /\ UNCHANGED <<userVars, loginVars, runtimeVars, reportVars, noticeVars, quotaVars>>
RuntimeStep == focus = "runtime" /\ RuntimeNext
    /\ UNCHANGED <<userVars, loginVars, settingsVars, reportVars, noticeVars, quotaVars>>
ReportsStep == focus = "reports" /\ ReportNext
    /\ UNCHANGED <<userVars, loginVars, settingsVars, runtimeVars, noticeVars, quotaVars>>
NoticesStep == focus = "notices" /\ NoticeNext
    /\ UNCHANGED <<userVars, loginVars, settingsVars, runtimeVars, reportVars, quotaVars>>
QuotaStep == focus = "quota" /\ QuotaNext
    /\ UNCHANGED <<userVars, loginVars, settingsVars, runtimeVars, reportVars, noticeVars>>

MCNext == /\ UNCHANGED focus
          /\ UsersStep \/ LoginStep \/ SettingsStep \/ RuntimeStep \/ ReportsStep
             \/ NoticesStep \/ QuotaStep

MCSpec == MCInit /\ [][MCNext]_MCVars

(* The views of the usage agree (see UsageReports); elsewhere there is     *)
(* none to report.                                                         *)
ReportsAgree == focus = "reports" => ViewsAgree
=============================================================================
