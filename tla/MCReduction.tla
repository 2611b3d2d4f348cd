----------------------------- MODULE MCReduction ------------------------------
(* The sources TLC reduces.                                                  *)
EXTENDS Reduction

SpecOf(budgets, outcomes, faults, kills) ==
    [maxActions: budgets, outcomes: {outcomes},
     duplicateMax: {IF faults THEN 1 ELSE 0},
     delays: {IF faults THEN {0, 5} ELSE {}},
     allowReorder: {FALSE}, allowDrop: {faults}, allowStale: {FALSE},
     cutPoints: {CutPoints}, maxKills: {IF kills THEN 1 ELSE 0}]

MCSpecs ==
    SpecOf({9}, {"Normal", "PreExecute429"}, TRUE, FALSE)
    \cup SpecOf({10}, {"Normal", "CommitThenDelay"}, FALSE, TRUE)
    \cup SpecOf({9}, {"Normal", "CommitThenClose"}, FALSE, FALSE)
=============================================================================
