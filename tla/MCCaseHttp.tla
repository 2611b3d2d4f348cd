------------------------------ MODULE MCCaseHttp ------------------------------
(* The plans TLC compiles and executes, and the applications that meet them. *)
EXTENDS CaseHttp

PlanOf(budgets, outcomes, stale, faults) ==
    [maxActions: budgets, outcomes: {outcomes},
     duplicateMax: {IF faults THEN 1 ELSE 0},
     delays: {IF faults THEN {5} ELSE {}},
     allowReorder: {faults}, allowDrop: {faults}, allowStale: {stale},
     cutPoints: {CutPoints}, maxKills: {1}]

\* Three sets of plans: every outcome and every fault in budgets with room for a
\* retry, a second object, a kill and its restart; every outcome and older events
\* in two budgets where the queue is long enough to be reordered; and two
\* outcomes without faults in every short budget.
MCSpecs ==
    PlanOf({11, 14, 22}, Outcomes, FALSE, TRUE)
    \cup PlanOf({8, 13}, Outcomes, TRUE, TRUE)
    \cup PlanOf(6 .. 9, {"Normal", "CommitThenClose"}, FALSE, FALSE)

Mode(retryKey, caller) == [retryKey |-> retryKey, caller |-> caller]

AllApplications == ModesOfApplication
Recovering == {Mode("repaired_same_key", "repaired_recover_operation")}
=============================================================================
