----------------------------- MODULE StableWindow ------------------------------
(***************************************************************************)
(* The wait for a stable quiescence predicate (postgres/quiescence.rs) and *)
(* the clock it runs against.  Each evaluation is a read-only transaction  *)
(* of its own that takes any time; the application changes what the        *)
(* predicate says as it likes, so an answer is either.  The clock is       *)
(* monotonic, as tokio's Instant is.                                       *)
(***************************************************************************)
EXTENDS Naturals

CONSTANTS
    StableFor,      \* how long the predicate must stay true,
    PollInterval,   \* the pause between two evaluations, and
    WaitLimit       \* quiescence timeout, all in ticks of the clock

\* await_stable refuses other budgets (quiescence.rs:136-142).
ASSUME BudgetAssumption ==
    /\ WaitLimit \in Nat
    /\ StableFor \in 1..(WaitLimit - 1)
    /\ PollInterval \in 1..(WaitLimit - 1)

VARIABLES
    elapsed,    \* time since await_stable was called
    wait,       \* idle, query, sleep, stable, timeout, failed
    trueSince,  \* StableWindow::true_since, or Never
    pollAt,     \* when the sleep ends
    answers     \* history: when each answer came and what it said

window == <<elapsed, wait, trueSince, pollAt, answers>>

Never == WaitLimit + 1

Idle ==
    /\ elapsed = 0 /\ wait = "idle" /\ trueSince = Never
    /\ pollAt = 0 /\ answers = {}

IdleNext ==
    /\ elapsed' = 0 /\ wait' = "idle" /\ trueSince' = Never
    /\ pollAt' = 0 /\ answers' = {}

AwaitStable ==
    /\ wait = "idle"
    /\ wait' = "query"
    /\ UNCHANGED <<elapsed, trueSince, pollAt, answers>>

\* What the predicate may give.
Results == {<<>>, <<"true">>, <<"false">>, <<"null">>, <<"true", "true">>}

\* evaluate_transaction, as the role that was attested, in a transaction that is
\* read only: one row with one Boolean, and rolled back in either case.
IsAnswer(bounded, rows, rolledBack) ==
    bounded /\ rolledBack /\ rows \in {<<"true">>, <<"false">>}

EvaluationFails ==
    /\ wait = "query"
    /\ wait' = "failed"
    /\ UNCHANGED <<elapsed, trueSince, pollAt, answers>>

\* Mutant: it does not.
TrueSinceOnce(quiescent) ==
    IF quiescent /\ trueSince = Never THEN elapsed ELSE trueSince

\* An observation that is not quiescent starts the window anew.
TrueSinceAfter(quiescent) ==
    IF ~quiescent THEN Never
    ELSE IF trueSince = Never THEN elapsed ELSE trueSince

\* The evaluation's answer and StableWindow::observe, with the time at which the
\* answer came.
Observe(quiescent) ==
    /\ wait = "query"
    /\ trueSince' = TrueSinceAfter(quiescent)
    /\ answers' = answers \cup {[at |-> elapsed, true |-> quiescent]}
    /\ IF quiescent /\ elapsed - TrueSinceAfter(quiescent) >= StableFor
       THEN wait' = "stable" /\ pollAt' = pollAt
       ELSE wait' = "sleep" /\ pollAt' = elapsed + PollInterval
    /\ elapsed' = elapsed

Wake ==
    /\ wait = "sleep" /\ elapsed >= pollAt
    /\ wait' = "query"
    /\ UNCHANGED <<elapsed, trueSince, pollAt, answers>>

\* tokio polls the loop before the deadline, so an answer that is there counts.
TimeOut ==
    /\ wait \in {"query", "sleep"} /\ elapsed = WaitLimit
    /\ wait' = "timeout"
    /\ UNCHANGED <<elapsed, trueSince, pollAt, answers>>

Elapse ==
    /\ wait \in {"query", "sleep"} /\ elapsed < WaitLimit
    /\ elapsed' = elapsed + 1
    /\ UNCHANGED <<wait, trueSince, pollAt, answers>>

Evaluate ==
    \E bounded, rolledBack \in BOOLEAN, rows \in Results :
        IF IsAnswer(bounded, rows, rolledBack)
        THEN Observe(rows = <<"true">>)
        ELSE EvaluationFails

WaitStep == AwaitStable \/ Evaluate \/ Wake \/ TimeOut \/ Elapse

-----------------------------------------------------------------------------
\* A completion is given only when the answers of at least StableFor, the first
\* and the last included, all said that the case is quiescent
\* (quiescence.rs:32-50 with the loop of await_stable; tests at 343-359 feed the
\* window by hand).
CompletionIsStable ==
    wait = "stable" =>
        \E first \in answers :
            /\ elapsed - first.at >= StableFor
            /\ \A o \in answers : o.at >= first.at => o.true
=============================================================================
