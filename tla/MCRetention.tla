---------------------------- MODULE MCRetention ----------------------------
(* Budgets for the runs of Retention.                                        *)
EXTENDS Retention

Spending(crash, delete, flip, rescue, switch, upload) ==
    [crash |-> crash, delete |-> delete, flip |-> flip, rescue |-> rescue,
     switch |-> switch, upload |-> upload]

\*                          crash delete flip rescue switch upload
FaultBudget     == Spending(1,    0,     1,   0,     1,     0)
RequestBudget   == Spending(0,    1,     0,   1,     0,     1)
CrashBudget     == Spending(1,    0,     0,   0,     0,     0)
FlipBudget      == Spending(0,    0,     1,   0,     0,     0)
ReuploadBudget  == Spending(0,    0,     0,   0,     0,     1)
ResurrectBudget == Spending(0,    1,     1,   0,     0,     0)
=============================================================================
