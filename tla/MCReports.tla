----------------------------- MODULE MCReports -----------------------------
(* Small instances of UsageReports: the kinds of rows whose treatment      *)
(* differs between the views, and zones whose clocks go forward or back.   *)
EXTENDS UsageReports

CONSTANTS e1, e2, a1, a2, m1, m2

Kind(user, account, model, alias, failed, legacy) ==
    [user |-> user, account |-> account, model |-> model, alias |-> alias,
     failed |-> failed, legacy |-> legacy]

MCShape == {Kind(e1, a1, m1, TRUE, FALSE, FALSE), Kind(e1, a2, m2, TRUE, FALSE, TRUE),
            Kind(e1, a1, m2, TRUE, TRUE, FALSE), Kind(e2, a1, m1, FALSE, FALSE, FALSE),
            Kind(Unknown, a2, m1, TRUE, FALSE, FALSE)}

Offsets(change, before, after) == [change |-> change, before |-> before, after |-> after]

(* No change; an hour lost by day, and an hour twice, on the second day.   *)
MCZone == {Offsets(0, 0, 0), Offsets(4, 0, 1), Offsets(4, 1, 0)}

(* Forward at midnight of the third day, west of Greenwich. *)
MCMidnightZone == {Offsets(7, -1, 0)}
=============================================================================
