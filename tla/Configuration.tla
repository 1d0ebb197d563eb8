---------------------------- MODULE Configuration ----------------------------
(***************************************************************************)
(* The settings of a site (internal/admin: the Configuration Center and    *)
(* the narrower settings pages) and their effects: the Compose             *)
(* environment, the rendered account configurations, the running CPAs, the *)
(* Collector and the request policy of the gateways.                       *)
(*                                                                         *)
(* A change of the Configuration Center holds the operation lock while it  *)
(* reads all settings, replaces all of them, applies the effects one by    *)
(* one and, when one fails, puts settings and effects back.  The general   *)
(* settings, the onboarding and the clearing of the webhook write single   *)
(* rows without that lock.                                                 *)
(*                                                                         *)
(* One field stands for the settings of each kind.  Secrets change in the  *)
(* transaction of the settings; only the webhook has a life of its own.    *)
(* The order in which the CPAs are restarted is left open.                 *)
(*                                                                         *)
(* Bounds: MaxSaves, MaxTroubles.  A definition marked "Deviation" is what *)
(* the definition after it must not be.                                    *)
(***************************************************************************)
EXTENDS Naturals, FiniteSets

CONSTANTS
    Upstream,       \* enabled accounts with a running CPA
    MaxSaves,       \* requests that change settings
    MaxTroubles     \* failing steps and deaths of Admin

ASSUME ConfigurationAssumption == {MaxSaves, MaxTroubles} \subseteq Nat

(* What a field is about decides how a change of it is applied.            *)
Central == {"listen", "retry", "headers", "policy", "interval", "notify"}
General == {"brand"}
Field == Central \cup General \cup {"skipped"}
Value == {0, 1}

VARIABLES
    settings,       \* rows of settings
    webhook,        \* is there a webhook secret?
    legacy,         \* do the rows still hold retired or legacy keys?
    effect,         \* what the rest of the site has of the settings
    change,         \* the change under the operation lock
    clearing,       \* the webhook is gone, its row is still to follow
    confirmed,      \* what the last answered request for a field said
    disturbed,      \* a rollback failed or Admin died over a change
    count           \* bounds

settingsVars == <<settings, webhook, legacy, effect, change, clearing, confirmed,
                  disturbed, count>>

NoChange == [step |-> "idle", base |-> <<>>, next |-> <<>>, fields |-> {},
             todo |-> {}, left |-> {}, undoing |-> FALSE]

EffectOf(rows) ==
    [listen |-> rows["listen"], retry |-> rows["retry"], headers |-> rows["headers"],
     running |-> [u \in Upstream |-> rows["retry"]],
     policy |-> rows["policy"], interval |-> rows["interval"]]

SettingsInit ==
    /\ settings = [f \in Field |-> 0]
    /\ webhook \in BOOLEAN
    /\ legacy \in BOOLEAN
    /\ effect = EffectOf(settings)
    /\ change = NoChange
    /\ clearing = FALSE
    /\ confirmed = settings
    /\ disturbed = FALSE
    /\ count = [saves |-> 0, troubles |-> 0]

Saving == count.saves < MaxSaves /\ count' = [count EXCEPT !.saves = @ + 1]
Trouble == count.troubles < MaxTroubles /\ count' = [count EXCEPT !.troubles = @ + 1]

---------------------------------------------------------------------------
(* The two ways to write settings.                                         *)

Replaced(rows) == settings' = rows
Updated(fields, value) ==
    settings' = [f \in Field |-> IF f \in fields THEN value ELSE settings[f]]
Confirm(rows, fields) ==
    confirmed' = [f \in Field |-> IF f \in fields THEN rows[f] ELSE confirmed[f]]

---------------------------------------------------------------------------
(* A change of the Configuration Center.                                   *)

(* ApplyConfiguration: what a change of these fields makes necessary.      *)
Needed(fields) ==
    (IF "listen" \in fields THEN {"environment"} ELSE {})
    \cup (IF fields \cap {"headers", "retry"} # {} THEN {"render"} ELSE {})
    \cup (IF "retry" \in fields THEN {"restart"} ELSE {})
    \cup (IF "interval" \in fields THEN {"collector"} ELSE {})
    \cup (IF "policy" \in fields THEN {"publish"} ELSE {})
(* ... and in which order.                                                 *)
EffectOrder ==
    [environment |-> 1, render |-> 2, restart |-> 3, collector |-> 4, publish |-> 5]

(* currentConfiguration, under the lock; a page that shows the             *)
(* configuration does the same and is done.                                *)
ReadConfiguration ==
    /\ change.step = "idle"
    /\ \/ /\ Saving
          /\ \E fields \in (SUBSET Central) \ {{}} :
              /\ Cardinality(fields) <= 2
              /\ change' = [NoChange EXCEPT !.step = IF legacy THEN "normalize" ELSE "save",
                                            !.base = settings, !.fields = fields]
       \/ /\ legacy
          /\ change' = [NoChange EXCEPT !.step = "normalize", !.base = settings]
          /\ UNCHANGED count
    /\ UNCHANGED <<settings, webhook, legacy, effect, clearing, confirmed, disturbed>>

(* The cleaned rows replace what was read.                                 *)
Normalize ==
    /\ change.step = "normalize"
    /\ \/ /\ Replaced(change.base)
          /\ legacy' = FALSE
          /\ change' = IF change.fields = {} THEN NoChange
                       ELSE [change EXCEPT !.step = "save"]
          /\ UNCHANGED count
       \/ Trouble /\ change' = NoChange /\ UNCHANGED <<settings, legacy>>
    /\ UNCHANGED <<webhook, effect, clearing, confirmed, disturbed>>

(* Validation, then all rows are replaced.                                 *)
SaveConfiguration ==
    /\ change.step = "save"
    /\ LET next == [f \in Field |-> IF f \in change.fields THEN 1 - change.base[f]
                                    ELSE change.base[f]]
       IN  \/ /\ next["notify"] = 1 => webhook
              /\ Replaced(next)
              /\ Confirm(next, change.fields)
              /\ change' = [change EXCEPT !.step = "apply", !.next = next,
                                          !.todo = Needed(change.fields), !.left = Upstream]
              /\ UNCHANGED count
           \/ /\ \/ next["notify"] = 1 /\ ~webhook /\ UNCHANGED count
                 \/ Trouble
              /\ change' = NoChange
              /\ UNCHANGED <<settings, confirmed>>
    /\ UNCHANGED <<webhook, legacy, effect, clearing, disturbed>>

Applying(step) ==
    /\ change.step = "apply" /\ step \in change.todo
    /\ \A other \in change.todo : EffectOrder[step] <= EffectOrder[other]
Applied(step) ==
    change' = [change EXCEPT !.todo = @ \ {step}] /\ UNCHANGED <<disturbed, count>>
(* The first failure turns the change back, a failure after that is only   *)
(* logged.                                                                 *)
NotApplied ==
    /\ Trouble
    /\ change' = IF change.undoing THEN NoChange ELSE [change EXCEPT !.step = "restore"]
    /\ disturbed' = (disturbed \/ change.undoing)

ProjectEnvironment ==
    /\ Applying("environment")
    /\ \/ /\ Applied("environment")
          /\ effect' = [effect EXCEPT !.listen = change.next["listen"]]
       \/ NotApplied /\ UNCHANGED effect

(* A CPA loads its headers again by itself, everything else at a restart.  *)
RefreshAccounts ==
    /\ Applying("render")
    /\ \/ /\ Applied("render")
          /\ effect' = [effect EXCEPT !.retry = settings["retry"],
                                     !.headers = settings["headers"]]
       \/ NotApplied /\ UNCHANGED effect

RestartUpstreams ==
    /\ Applying("restart")
    /\ \/ \E u \in change.left :
            /\ effect' = [effect EXCEPT !.running[u] = effect.retry]
            /\ change' = [change EXCEPT !.left = @ \ {u}]
            /\ UNCHANGED <<disturbed, count>>
       \/ change.left = {} /\ Applied("restart") /\ UNCHANGED effect
       \/ change.left # {} /\ NotApplied /\ UNCHANGED effect

RestartCollector ==
    /\ Applying("collector")
    /\ \/ /\ Applied("collector")
          /\ effect' = [effect EXCEPT !.interval = settings["interval"]]
       \/ NotApplied /\ UNCHANGED effect

PublishPolicy ==
    /\ Applying("publish")
    /\ \/ /\ Applied("publish")
          /\ effect' = [effect EXCEPT !.policy = settings["policy"]]
       \/ NotApplied /\ effect' \in {effect, [effect EXCEPT !.policy = settings["policy"]]}

ApplyConfiguration ==
    /\ ProjectEnvironment \/ RefreshAccounts \/ RestartUpstreams \/ RestartCollector
       \/ PublishPolicy
    /\ UNCHANGED <<settings, webhook, legacy, clearing, confirmed>>

RestoreSettingsOnly ==     \* Deviation: the effects are not put back
    /\ change.step = "restore"
    /\ Replaced(change.base)
    /\ Confirm(change.base, change.fields)
    /\ change' = NoChange
    /\ UNCHANGED <<webhook, legacy, effect, clearing, disturbed, count>>

(* All rows as they were read, then all effects again.                     *)
RestoreConfiguration ==
    /\ change.step = "restore"
    /\ \/ /\ Replaced(change.base)
          /\ Confirm(change.base, change.fields)
          /\ UNCHANGED <<disturbed, count>>
       \/ /\ Trouble /\ disturbed' = TRUE
          /\ UNCHANGED <<settings, confirmed>>
    /\ change' = [change EXCEPT !.step = "apply", !.undoing = TRUE, !.next = change.base,
                                !.todo = Needed(change.fields), !.left = Upstream]
    /\ UNCHANGED <<webhook, legacy, effect, clearing>>

Answer ==
    /\ change.step = "apply" /\ change.todo = {}
    /\ change' = NoChange
    /\ UNCHANGED <<settings, webhook, legacy, effect, clearing, confirmed, disturbed, count>>

---------------------------------------------------------------------------
(* The narrower pages.                                                     *)

pageFrame == UNCHANGED <<legacy, effect, change, disturbed>>

(* updateGeneralSettings, updateOnboardingPreferences: without the lock.   *)
UpdateGeneralSettings ==
    /\ Saving
    /\ \E value \in Value : Updated(General, value)
    /\ Confirm(settings', General)
    /\ UNCHANGED <<webhook, clearing>> /\ pageFrame

UpdateOnboardingPreferences ==
    /\ Saving
    /\ \E value \in Value : Updated({"skipped"}, value)
    /\ Confirm(settings', {"skipped"})
    /\ UNCHANGED <<webhook, clearing>> /\ pageFrame

(* updateNotificationSettings: under the lock.                             *)
UpdateNotificationSettings ==
    /\ change.step = "idle"
    /\ Saving
    /\ \E value \in Value : (value = 1 => webhook) /\ Updated({"notify"}, value)
    /\ Confirm(settings', {"notify"})
    /\ UNCHANGED <<webhook, clearing>> /\ pageFrame

UpdateWebhook ==
    /\ Saving
    /\ webhook' = TRUE
    /\ UNCHANGED <<settings, clearing, confirmed>> /\ pageFrame

(* clearNotificationWebhook: the secret, then the row.                     *)
ClearWebhook ==
    /\ Saving /\ ~clearing
    /\ webhook' = FALSE /\ clearing' = TRUE
    /\ UNCHANGED <<settings, confirmed>> /\ pageFrame

DisableNotifications ==
    /\ clearing /\ clearing' = FALSE
    /\ \/ Updated({"notify"}, 0) /\ Confirm(settings', {"notify"}) /\ UNCHANGED count
       \/ Trouble /\ UNCHANGED <<settings, confirmed>>
    /\ UNCHANGED webhook /\ pageFrame

---------------------------------------------------------------------------
(* Admin dies; when it starts again it renders the accounts.               *)
AdminDies ==
    /\ change.step # "down"
    /\ Trouble
    /\ change' = [NoChange EXCEPT !.step = "down"]
    /\ disturbed' = (disturbed \/ change.step \in {"apply", "restore"})
    /\ clearing' = FALSE
    /\ UNCHANGED <<settings, webhook, legacy, effect, confirmed>>

AdminStarts ==
    /\ change.step = "down"
    /\ change' = NoChange
    /\ effect' = [effect EXCEPT !.retry = settings["retry"], !.headers = settings["headers"]]
    /\ UNCHANGED <<settings, webhook, legacy, clearing, confirmed, disturbed, count>>

Up == change.step # "down"
SettingsNext ==
    \/ ReadConfiguration \/ Normalize \/ SaveConfiguration \/ ApplyConfiguration
    \/ RestoreConfiguration \/ Answer
    \/ Up /\ (UpdateGeneralSettings \/ UpdateOnboardingPreferences \/ UpdateWebhook
              \/ ClearWebhook)
    \/ UpdateNotificationSettings \/ DisableNotifications
    \/ AdminDies \/ AdminStarts

SettingsSpec == SettingsInit /\ [][SettingsNext]_settingsVars

---------------------------------------------------------------------------
(* When no change is under way, the site is what its settings say: a       *)
(* change is applied as a whole, and one that fails half-way is taken back *)
(* as a whole, from every CPA that was already restarted too               *)
(* (updateConfiguration, ApplyConfiguration).  Excepted are a rollback     *)
(* that failed itself and a death of Admin, after which nothing applies    *)
(* the settings again.                                                     *)
EffectsAgree == change.step = "idle" /\ ~disturbed => effect = EffectOf(settings)

(* A setting is what the last request that set it was told, whatever other *)
(* settings change (UpdateSettings: "unrelated settings written by another *)
(* process cannot be lost").                                               *)
SettingsKept == change.step = "idle" /\ ~disturbed => settings = confirmed
=============================================================================
