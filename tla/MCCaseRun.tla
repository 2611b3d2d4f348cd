------------------------------- MODULE MCCaseRun -------------------------------
(* Plans with every kind of action, for TLC. *)
EXTENDS CaseRun

Invariants == <<"unique", "balanced">>

ShortPlan == <<"kill", "restart", "wait", "check">>
LongPlan == <<"http", "kill", "restart", "wait", "check">>
==============================================================================
