--------------------------- MODULE Notifications ---------------------------
(***************************************************************************)
(* The notification worker (internal/notifications, cmd/notifications).  A *)
(* round reads its saved state, collects the quota of every account,       *)
(* derives the transitions since the saved alerts and windows, sends at    *)
(* most one message (a daily report or the transitions) through a webhook  *)
(* that is not idempotent, and saves what it now takes for known.          *)
(*                                                                         *)
(* The receiver is modelled by what the messages have told it.  A day has  *)
(* two ticks and its report is due in the first.  Rendering, languages,    *)
(* manual sends and the switches of the configuration are left out.        *)
(*                                                                         *)
(* Bounds: LastDayTick, MaxTurns, MaxSlips.  A definition marked           *)
(* "Deviation" is what the definition after it must not be.                *)
(***************************************************************************)
EXTENDS Integers, FiniteSets

CONSTANTS
    Watched,        \* CPA accounts
    LastDayTick, MaxTurns, MaxSlips

ASSUME NotificationsAssumption == LastDayTick \in Nat /\ MaxTurns \in Nat

VARIABLES
    dayTick,        \* time
    gauge,          \* the quota of an account: level, reset time, version
    checkDue,       \* quota_check_interval has passed since quota_checked_at
    saved,          \* runtime state: scheduled days, alerts, windows
    sending,        \* the round: what it collected
    told,           \* what the receiver knows of an account
    reportDays,       \* days whose report the receiver has
    repeated,       \* messages that told the receiver nothing new
    unknown,        \* accounts in a message whose acceptance went unrecorded
    slips,          \* sends or saves that failed, rounds that died
    turns           \* changes of the quota so far

noticeVars == <<dayTick, gauge, checkDue, saved, sending, told, reportDays,
                repeated, unknown, slips, turns>>

(* A stopped, degraded or reserved account counts as unavailable.          *)
Measured == {"normal", "warning", "exhausted"}
Levels == Measured \cup {"unavailable", "disabled"}

Day(t) == t \div 2
NoNotice == [pc |-> "idle", seen |-> [a \in Watched |-> [level |-> "normal",
                reset |-> 0, version |-> 0]], events |-> {}, full |-> FALSE,
             due |-> FALSE, day |-> 0]

-----------------------------------------------------------------------------
(* The level differs from the last one alerted.                            *)
LevelChanged(a) == gauge[a].level \in Measured /\ gauge[a].level # saved.alerts[a]

(* A new weekly window has begun; a lower percentage alone proves nothing. *)
Refreshed(a) ==
    /\ gauge[a].level = "normal"
    /\ saved.windows[a] \in 1..dayTick
    /\ gauge[a].reset > dayTick

(* Windows of measured accounts advance, those of disabled ones are gone.  *)
UpdatedWindows(seen) ==
    [a \in Watched |-> IF seen[a].level = "disabled" THEN 0
                       ELSE IF seen[a].level \in Measured THEN seen[a].reset
                       ELSE saved.windows[a]]

UpdatedAlerts(seen) ==
    [a \in Watched |-> IF seen[a].level = "disabled" THEN "normal"
                       ELSE IF seen[a].level \in Measured THEN seen[a].level
                       ELSE saved.alerts[a]]

(* dueScheduleKeys: the report of the day, within its grace.               *)
ReportDue == dayTick % 2 = 0 /\ Day(dayTick) \notin saved.scheduled

CollectNotices ==
    /\ sending.pc = "idle" /\ (ReportDue \/ checkDue)
    /\ LET events == {a \in Watched : LevelChanged(a) \/ Refreshed(a)}
       IN  sending' = [pc |-> IF ReportDue \/ events # {} THEN "send" ELSE "save",
                       seen |-> gauge, events |-> events,
                       full |-> ReportDue \/ \E a \in Watched : Refreshed(a),
                       due |-> ReportDue, day |-> Day(dayTick)]
    /\ UNCHANGED <<dayTick, gauge, checkDue, saved, told, reportDays, repeated,
                   unknown, slips, turns>>

(* The webhook takes the message: of every account, or of the transitions. *)
Subjects == IF sending.full THEN Watched ELSE sending.events

Deliver ==
    LET news == \/ \E a \in sending.events : told[a].version < sending.seen[a].version
                \/ sending.due /\ sending.day \notin reportDays
    IN  /\ told' = [a \in Watched |-> IF a \in Subjects
                       THEN [level |-> sending.seen[a].level,
                             version |-> sending.seen[a].version]
                       ELSE told[a]]
        /\ reportDays' = IF sending.due THEN reportDays \cup {sending.day} ELSE reportDays
        /\ repeated' = IF news THEN repeated ELSE repeated + 1

SendNotice ==
    /\ sending.pc = "send"
    /\ Deliver
    /\ sending' = [sending EXCEPT !.pc = "save"]
    /\ UNCHANGED <<dayTick, gauge, checkDue, saved, unknown, slips, turns>>

(* Deviation: an alert that could not be sent counts as known. *)
RecordErrorWithAlerts ==
    /\ checkDue' = FALSE
    /\ saved' = [saved EXCEPT !.windows = UpdatedWindows(sending.seen),
                              !.alerts = UpdatedAlerts(sending.seen)]

(* recordError keeps the alerts and the schedule, so that both are sent    *)
(* again, and advances the windows.                                        *)
RecordError ==
    /\ checkDue' = FALSE
    /\ saved' = [saved EXCEPT !.windows = UpdatedWindows(sending.seen)]

Slip == slips < MaxSlips /\ slips' = slips + 1

(* No answer: the message may have been accepted, or not.  The error may   *)
(* not be recordable either.                                               *)
SendFails ==
    /\ Slip /\ sending.pc = "send"
    /\ \/ Deliver /\ unknown' = unknown \cup Subjects
       \/ UNCHANGED <<told, reportDays, repeated, unknown>>
    /\ RecordError \/ UNCHANGED <<saved, checkDue>>
    /\ sending' = NoNotice
    /\ UNCHANGED <<dayTick, gauge, turns>>

(* Deviation: the round ends as a failing one does. *)
SaveWindowsOnly ==
    /\ sending.pc = "save"
    /\ saved' = [saved EXCEPT !.windows = UpdatedWindows(sending.seen)]
    /\ checkDue' = FALSE
    /\ sending' = NoNotice
    /\ UNCHANGED <<dayTick, gauge, told, reportDays, repeated, unknown,
                   slips, turns>>

SaveNotices ==
    /\ sending.pc = "save"
    /\ saved' = [scheduled |-> saved.scheduled \cup
                                  (IF sending.due THEN {sending.day} ELSE {}),
                 alerts |-> UpdatedAlerts(sending.seen),
                 windows |-> UpdatedWindows(sending.seen)]
    /\ checkDue' = FALSE
    /\ sending' = NoNotice
    /\ UNCHANGED <<dayTick, gauge, told, reportDays, repeated, unknown, slips, turns>>

(* The state cannot be written, or the process or its lease ends.          *)
NoticeLost ==
    /\ Slip /\ sending.pc # "idle"
    /\ unknown' = IF sending.pc = "save"
                    THEN unknown \cup Subjects ELSE unknown
    /\ sending' = NoNotice
    /\ UNCHANGED <<dayTick, gauge, checkDue, saved, told, reportDays, repeated, turns>>

(* The quota worker publishes another state of the account: a new window   *)
(* begins when the old one is over, or earlier by a reset credit.          *)
Turn(a) ==
    /\ turns < MaxTurns /\ turns' = turns + 1
    /\ \E level \in Levels, reset \in {gauge[a].reset, dayTick + 2} :
         /\ <<level, reset>> # <<gauge[a].level, gauge[a].reset>>
         /\ gauge' = [gauge EXCEPT ![a] = [level |-> level, reset |-> reset,
                                           version |-> @.version + 1]]
    /\ UNCHANGED <<dayTick, checkDue, saved, sending, told, reportDays, repeated,
                   unknown, slips>>

CheckIntervalPasses ==
    /\ ~checkDue /\ checkDue' = TRUE
    /\ UNCHANGED <<dayTick, gauge, saved, sending, told, reportDays, repeated,
                   unknown, slips, turns>>

DayTick ==
    /\ dayTick < LastDayTick /\ dayTick' = dayTick + 1
    /\ UNCHANGED <<gauge, checkDue, saved, sending, told, reportDays, repeated,
                   unknown, slips, turns>>

-----------------------------------------------------------------------------
NoticeInit ==
    /\ dayTick = 1
    /\ gauge = [a \in Watched |-> [level |-> "normal", reset |-> 2, version |-> 0]]
    /\ checkDue = TRUE
    /\ saved = [scheduled |-> {}, alerts |-> [a \in Watched |-> "normal"],
                windows |-> [a \in Watched |-> 0]]
    /\ sending = NoNotice
    /\ told = [a \in Watched |-> [level |-> "normal", version |-> 0]]
    /\ reportDays = {} /\ repeated = 0 /\ unknown = {} /\ slips = 0 /\ turns = 0

NoticeStep == CollectNotices \/ SendNotice \/ SaveNotices

NoticeNext ==
    \/ NoticeStep \/ SendFails \/ NoticeLost \/ CheckIntervalPasses \/ DayTick
    \/ \E a \in Watched : Turn(a)

NoticeSpec == NoticeInit /\ [][NoticeNext]_noticeVars

(* The scheduler starts rounds for ever, each within its round timeout.    *)
NoticeFairness == WF_noticeVars(NoticeStep) /\ WF_noticeVars(CheckIntervalPasses)

NoticeFairSpec == NoticeSpec /\ NoticeFairness

-----------------------------------------------------------------------------
(* A message that tells nothing new is the price of a failure: one lost    *)
(* answer, failed save or restart after the webhook accepted costs at most *)
(* one repetition, whatever levels, windows and days do in between.        *)
RepeatNeedsFailure == repeated <= slips

(* Every level that is not normal reaches the receiver, also over failing  *)
(* sends, unless an accepted message about the account went unrecorded:    *)
(* then the saved alerts and the receiver may disagree.                    *)
AlertsArrive ==
    \A a \in Watched : \A level \in {"warning", "exhausted"} :
        gauge[a].level = level ~>
            told[a].level = level \/ gauge[a].level # level \/ a \in unknown
=============================================================================
