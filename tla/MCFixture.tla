------------------------------ MODULE MCFixture -------------------------------
(* Constants of Fixture for TLC.                                             *)
EXTENDS Fixture, TLC

CONSTANTS c1, c2, d1, d2, k1, k2, r1, r2, s1

\* Each plan pairs an outcome that loses or delays a committed answer with a
\* retry that is planned to be refused, to fail or to be delayed in turn.
DataPlanePlans ==
    {<<"CommitThenClose", "PostExecute500", "CommitThenDelay">>,
     <<"CommitThenDelay", "PreExecute429", "CommitThenDelay">>}

WebhookPlans == {<<"CommitThenDelay">>}

DataPlaneSymmetry ==
    Permutations({c1, c2}) \cup Permutations({k1, k2}) \cup Permutations({r1, r2})
=============================================================================
