------------------------------- MODULE Planner --------------------------------
(***************************************************************************)
(* The case planner of crates/tiv-core/src/plan.rs: the symbolic model of  *)
(* one case, the actions eligible in each of its states, and the compiler  *)
(* that picks one eligible action after another and only ever picks one    *)
(* from which the final checkpoint is still within the action budget.      *)
(*                                                                         *)
(* The decision engine's choice is nondeterministic here: every seed's     *)
(* plan is a behaviour of this module.  A ModelState is a record; the      *)
(* fields of the Rust enum variants Phase::*Retryable and Phase::Events    *)
(* are fields of it that hold zero or FALSE outside those phases.          *)
(***************************************************************************)
EXTENDS Integers

CONSTANTS
    Specs,      \* the plan specifications that are compiled (PlanSpec)
    NoRetry     \* a script without a second call (Option::None)

Outcomes == {"Normal", "PreExecute429", "PreExecute500", "PostExecute500",
             "CommitThenClose", "CommitThenDelay"}

CutPoints == {"ClientRequestForwarded", "ClientResponseObserved",
              "WebhookRequestForwarded", "WebhookResponseObserved", "SqlProbe"}

\* What PlanSpec::validate accepts: the budget and the capabilities of v1.
ValidPlanSpec(s) ==
    /\ s.maxActions \in 1 .. 40
    /\ s.outcomes \subseteq Outcomes /\ "Normal" \in s.outcomes
    /\ s.duplicateMax \in 0 .. 3 /\ s.delays \subseteq 0 .. 5000
    /\ s.allowReorder \in BOOLEAN /\ s.allowDrop \in BOOLEAN
    /\ s.allowStale \in BOOLEAN
    /\ s.cutPoints \subseteq CutPoints /\ s.maxKills \in 0 .. 1

ASSUME SpecsAssumption == \A s \in Specs : ValidPlanSpec(s)
ASSUME NoRetryAssumption == NoRetry \notin Outcomes

VARIABLES
    spec,       \* the specification being compiled
    model,      \* the symbolic state reached by the actions chosen so far
    used        \* how many actions have been chosen

vars == <<spec, model, used>>
-----------------------------------------------------------------------------
(* Provider outcome scripts: the calls one application action makes.       *)

Commits(o) == o \notin {"PreExecute429", "PreExecute500"}

AmbiguousResponse(o) ==
    o \in {"PostExecute500", "CommitThenClose", "CommitThenDelay"}

Single(o) == [first |-> o, retry |-> NoRetry]

Calls(script) == {script.first, script.retry} \ {NoRetry}

TerminalOutcome(script) ==
    IF script.retry = NoRetry THEN script.first ELSE script.retry

CommittedCount(script) ==
    (IF Commits(script.first) THEN 1 ELSE 0)
    + (IF script.retry # NoRetry /\ Commits(script.retry) THEN 1 ELSE 0)

HasAmbiguousCommit(script) ==
    \E o \in Calls(script) : Commits(o) /\ AmbiguousResponse(o)

\* A connection closed after the commit makes the application call again, so
\* the script also says how that second call ends.
BusinessScripts(s, firsts) ==
    {Single(o) : o \in firsts \ {"CommitThenClose"}}
    \cup [first: firsts \cap {"CommitThenClose"}, retry: s.outcomes]

\* Two retries may fail; the third must be planned to succeed.
RetryOutcomes(s, attempts) ==
    {o \in s.outcomes : attempts < 2 \/ o = "Normal"}
-----------------------------------------------------------------------------
(* The symbolic state.                                                     *)

Initial(legacy) ==
    [phase |-> "Start", attempts |-> 0, ambiguous |-> FALSE,
     generated |-> 0, pending |-> 0, delivered |-> 0, duplicates |-> 0,
     delayUsed |-> FALSE, reorderUsed |-> FALSE,
     objects |-> 0, healthy |-> TRUE, kills |-> 0, legacy |-> legacy,
     observation |-> "None"]

\* Entering a phase drops the fields of the one that was left.
Enter(m, phase) ==
    [m EXCEPT !.phase = phase, !.attempts = 0, !.ambiguous = FALSE,
              !.generated = 0, !.pending = 0, !.delivered = 0,
              !.duplicates = 0, !.delayUsed = FALSE, !.reorderUsed = FALSE]

EventsPerObject(s) == IF s.allowStale THEN 2 ELSE 1

TargetEvents(s, objects) == objects * EventsPerObject(s)

Kinds(kinds) == [kind: kinds]

WithScript(kind, scripts) == [kind: {kind}, script: scripts]

\* Nothing but Generate until every object has its events; only then can the
\* deliveries, and at last the wait for quiescence, be chosen.
EventActions(s, m) ==
    IF m.generated < TargetEvents(s, m.objects)
    THEN Kinds({"GenerateProviderEvent"})
    ELSE Kinds({k \in {"DeliverWebhook"} : m.pending > 0}
               \cup {k \in {"DropWebhook"} : m.pending > 0 /\ s.allowDrop}
               \cup {k \in {"ReorderWebhooks"} :
                        m.pending >= 2 /\ s.allowReorder /\ ~m.reorderUsed}
               \cup {k \in {"DuplicateWebhook"} :
                        m.delivered > 0 /\ m.duplicates < s.duplicateMax}
               \cup {k \in {"WaitForQuiescence"} :
                        m.generated > 0 /\ m.pending = 0})
         \cup [kind: {"DelayWebhook"},
               milliseconds:
                   {d \in s.delays : m.pending > 0 /\ ~m.delayUsed}]

PhaseActions(s, m) ==
    CASE m.phase = "Start" ->
           WithScript("DriveCheckout", BusinessScripts(s, s.outcomes))
      [] m.phase = "CheckoutRetryable" ->
           WithScript("RetryBusinessRequest",
                      BusinessScripts(s, RetryOutcomes(s, m.attempts)))
           \cup Kinds({k \in {"RetrievePaymentIntent"} : m.ambiguous})
      [] m.phase \in {"CheckoutResponseHeld", "ConfirmResponseHeld"} ->
           Kinds({"ReleaseProviderGate"})
      [] m.phase = "PaymentIntentKnown" ->
           WithScript("ConfirmPaymentIntent", {Single(o) : o \in s.outcomes})
      [] m.phase = "ConfirmRetryable" ->
           WithScript("RetryProviderRequest",
                      {Single(o) : o \in RetryOutcomes(s, m.attempts)})
           \cup Kinds({k \in {"RetrievePaymentIntent"} : m.ambiguous})
      [] m.phase = "Confirmed" -> Kinds({"GenerateProviderEvent"})
      [] m.phase = "Events" -> EventActions(s, m)
      [] m.phase = "Quiesced" -> Kinds({"CheckCheckpoint"})
      [] m.phase = "Complete" -> {}

\* The effect of the action just chosen that a process fault can cut.
ObservationAfter(a) ==
    CASE a.kind = "DriveCheckout" /\ TerminalOutcome(a.script) = "Normal" ->
           "InitialCheckoutResponse"
      [] /\ a.kind \in {"DriveCheckout", "RetryBusinessRequest"}
         /\ TerminalOutcome(a.script) = "CommitThenDelay" ->
           "CheckoutRequestHeld"
      [] /\ a.kind \in {"DriveCheckout", "RetryBusinessRequest"}
         /\ TerminalOutcome(a.script) # "CommitThenDelay"
         /\ ~(a.kind = "DriveCheckout"
              /\ TerminalOutcome(a.script) = "Normal") ->
           "CheckoutResponse"
      [] a.kind \in {"DeliverWebhook", "DuplicateWebhook"} ->
           "WebhookDelivery"
      [] OTHER -> "None"

Supports(observation) ==
    CASE observation = "CheckoutRequestHeld" -> {"ClientRequestForwarded"}
      [] observation = "InitialCheckoutResponse" ->
           {"ClientResponseObserved", "SqlProbe"}
      [] observation = "CheckoutResponse" -> {"ClientResponseObserved"}
      [] observation = "WebhookDelivery" ->
           {"WebhookRequestForwarded", "WebhookResponseObserved"}
      [] OTHER -> {}

\* The first scheduler's rule, kept to replay the artifacts it wrote.
ObservableCutPoints(m) ==
    {c \in CutPoints :
        CASE c = "ClientRequestForwarded" ->
               m.phase \in {"CheckoutRetryable", "CheckoutResponseHeld",
                            "PaymentIntentKnown", "ConfirmRetryable",
                            "ConfirmResponseHeld", "Confirmed"}
          [] c = "ClientResponseObserved" ->
               m.phase \in {"CheckoutRetryable", "PaymentIntentKnown",
                            "ConfirmRetryable", "Confirmed"}
          [] c \in {"WebhookRequestForwarded", "WebhookResponseObserved"} ->
               m.phase = "Events" /\ m.delivered > 0
          [] c = "SqlProbe" ->
               m.phase \in {"CheckoutResponseHeld", "PaymentIntentKnown",
                            "ConfirmRetryable", "ConfirmResponseHeld",
                            "Confirmed", "Events"}}

CutPointsOf(m) ==
    IF m.legacy THEN ObservableCutPoints(m) ELSE Supports(m.observation)

KillActions(s, m) ==
    [kind: {"KillApplication"},
     cutPoint: {c \in s.cutPoints \cap CutPointsOf(m) : m.kills < s.maxKills}]

Eligible(s, m) ==
    IF m.healthy THEN PhaseActions(s, m) \cup KillActions(s, m)
                 ELSE Kinds({"RestartAndAwaitHealth"})
-----------------------------------------------------------------------------
(* What an eligible action does to the symbolic state (apply_action).      *)

Observe(m, a) ==
    IF m.legacy \/ m.kills > 0 THEN m
    ELSE [m EXCEPT !.observation = ObservationAfter(a)]

CreatePhase(m, script, attempts) ==
    CASE TerminalOutcome(script) = "Normal" -> Enter(m, "PaymentIntentKnown")
      [] TerminalOutcome(script) = "CommitThenDelay" ->
           Enter(m, "CheckoutResponseHeld")
      [] OTHER -> [Enter(m, "CheckoutRetryable") EXCEPT
                      !.attempts = attempts,
                      !.ambiguous = HasAmbiguousCommit(script)]

ConfirmPhase(m, script, attempts) ==
    CASE TerminalOutcome(script) = "Normal" -> Enter(m, "Confirmed")
      [] TerminalOutcome(script) = "CommitThenDelay" ->
           Enter(m, "ConfirmResponseHeld")
      [] OTHER -> [Enter(m, "ConfirmRetryable") EXCEPT
                      !.attempts = attempts,
                      !.ambiguous = HasAmbiguousCommit(script)]

\* Every create that commits is taken to make an object of its own.
Created(m, script) == [m EXCEPT !.objects = @ + CommittedCount(script)]

\* A response seen by nobody who survives leaves the checkout to be retried.
Kill(m, cutPoint) ==
    LET cut == IF /\ cutPoint = "ClientResponseObserved"
                  /\ m.phase = "PaymentIntentKnown"
               THEN Enter(m, "CheckoutRetryable") ELSE m
    IN  [cut EXCEPT !.healthy = FALSE, !.kills = @ + 1]

KnownOrConfirmed(m) ==
    Enter(m, IF m.phase \in {"CheckoutResponseHeld", "CheckoutRetryable"}
             THEN "PaymentIntentKnown" ELSE "Confirmed")

Generate(m) ==
    [m EXCEPT !.phase = "Events", !.generated = @ + 1, !.pending = @ + 1]

ApplyHealthy(m, a) ==
    CASE a.kind = "DriveCheckout" ->
           Created(CreatePhase(m, a.script, 0), a.script)
      [] a.kind = "RetryBusinessRequest" ->
           Created(CreatePhase(m, a.script, m.attempts + 1), a.script)
      [] a.kind \in {"ReleaseProviderGate", "RetrievePaymentIntent"} ->
           KnownOrConfirmed(m)
      [] a.kind = "ConfirmPaymentIntent" -> ConfirmPhase(m, a.script, 0)
      [] a.kind = "RetryProviderRequest" ->
           ConfirmPhase(m, a.script, m.attempts + 1)
      [] a.kind = "GenerateProviderEvent" -> Generate(m)
      [] a.kind = "DeliverWebhook" ->
           [m EXCEPT !.pending = @ - 1, !.delivered = @ + 1]
      [] a.kind = "DropWebhook" -> [m EXCEPT !.pending = @ - 1]
      [] a.kind = "DuplicateWebhook" -> [m EXCEPT !.duplicates = @ + 1]
      [] a.kind = "DelayWebhook" -> [m EXCEPT !.delayUsed = TRUE]
      [] a.kind = "ReorderWebhooks" -> [m EXCEPT !.reorderUsed = TRUE]
      [] a.kind = "WaitForQuiescence" -> Enter(m, "Quiesced")
      [] a.kind = "CheckCheckpoint" -> Enter(m, "Complete")

Apply(m, a) ==
    LET seen == Observe(m, a)
    IN  CASE a.kind = "KillApplication" -> Kill(seen, a.cutPoint)
          [] a.kind = "RestartAndAwaitHealth" -> [seen EXCEPT !.healthy = TRUE]
          [] OTHER -> ApplyHealthy(seen, a)
-----------------------------------------------------------------------------
(* The compiler.  minimum_actions_to_complete searches the graph of the    *)
(* eligible actions for the shortest way to Complete; Distance is the      *)
(* length it finds, in closed form.  MinimumIsExact below states that the  *)
(* closed form solves the search's own equation.                           *)

HealthyDistance(s, m) ==
    CASE m.phase = "Complete" -> 0
      [] m.phase = "Quiesced" -> 1
      [] m.phase = "Events" ->
           2 * (TargetEvents(s, m.objects) - m.generated) + m.pending + 2
      [] m.phase = "Confirmed" -> 2 * TargetEvents(s, m.objects) + 2
      [] m.phase \in {"PaymentIntentKnown", "ConfirmRetryable",
                      "ConfirmResponseHeld"} ->
           2 * TargetEvents(s, m.objects) + 3
      [] m.phase = "CheckoutResponseHeld"
         \/ (m.phase = "CheckoutRetryable" /\ m.ambiguous) ->
           2 * TargetEvents(s, m.objects) + 4
      [] m.phase = "Start"
         \/ (m.phase = "CheckoutRetryable" /\ ~m.ambiguous) ->
           2 * TargetEvents(s, m.objects + 1) + 4

\* A variant of Distance: it forgets that a killed process must be restarted.
DistanceWithoutRestart(s, m) == HealthyDistance(s, m)

Distance(s, m) == HealthyDistance(s, m) + (IF m.healthy THEN 0 ELSE 1)

\* A variant of Fits: it forgets that the choice itself costs an action.
FitsExactly(s, m, n) == Distance(s, m) <= s.maxActions - n

\* The budget filter: one action for the choice itself, the rest for the way.
Fits(s, m, n) == Distance(s, m) < s.maxActions - n

\* The compiler refuses a budget that cannot reach the checkpoint at all.
Compilable(s, m) == Distance(s, m) <= s.maxActions

Choose(kind) ==
    \E a \in Eligible(spec, model) :
        /\ a.kind = kind
        /\ Fits(spec, Apply(model, a), used)
        /\ model' = Apply(model, a)
        /\ used' = used + 1
        /\ UNCHANGED spec

\* The loop ends when the case is complete; the plan is then its result.
Compiled == model.phase = "Complete" /\ UNCHANGED vars

Init ==
    /\ spec \in Specs
    /\ model \in {Initial(legacy) : legacy \in BOOLEAN}
    /\ Compilable(spec, model)
    /\ used = 0

Next ==
    \/ Choose("DriveCheckout")
    \/ Choose("RetryBusinessRequest")
    \/ Choose("RetrievePaymentIntent")
    \/ Choose("ReleaseProviderGate")
    \/ Choose("ConfirmPaymentIntent")
    \/ Choose("RetryProviderRequest")
    \/ Choose("GenerateProviderEvent")
    \/ Choose("DeliverWebhook")
    \/ Choose("DuplicateWebhook")
    \/ Choose("DelayWebhook")
    \/ Choose("ReorderWebhooks")
    \/ Choose("DropWebhook")
    \/ Choose("KillApplication")
    \/ Choose("RestartAndAwaitHealth")
    \/ Choose("WaitForQuiescence")
    \/ Choose("CheckCheckpoint")
    \/ Compiled

Spec == Init /\ [][Next]_vars
-----------------------------------------------------------------------------
Phases == {"Start", "CheckoutRetryable", "CheckoutResponseHeld",
           "PaymentIntentKnown", "ConfirmRetryable", "ConfirmResponseHeld",
           "Confirmed", "Events", "Quiesced", "Complete"}

\* Twelve objects is the most a case can create: seven, and five more after a
\* kill that sends the checkout back to its retries.
MaxObjects == 12

\* Types, and the widths of the counters: nothing reaches the end of a u8, and
\* no more than two retries are ever left to fail.
TypeOK ==
    /\ spec \in Specs
    /\ used \in 0 .. spec.maxActions
    /\ model.phase \in Phases
    /\ model.attempts \in 0 .. 2
    /\ model.objects \in 0 .. MaxObjects
    /\ model.kills \in 0 .. spec.maxKills
    /\ model.duplicates \in 0 .. spec.duplicateMax
    /\ model.generated \in 0 .. 2 * MaxObjects
    /\ model.pending \in 0 .. model.generated
    /\ model.delivered \in 0 .. model.generated
    /\ model.ambiguous \in BOOLEAN /\ model.delayUsed \in BOOLEAN
    /\ model.reorderUsed \in BOOLEAN /\ model.healthy \in BOOLEAN
    /\ model.legacy \in BOOLEAN
    /\ model.observation \in {"None", "InitialCheckoutResponse",
            "CheckoutResponse", "CheckoutRequestHeld", "WebhookDelivery"}

\* Whatever was chosen so far, the rest of the budget still reaches the final
\* checkpoint: no plan the compiler returns is longer than max_actions.
BudgetSuffices == used + Distance(spec, model) <= spec.maxActions

\* The compiler never answers NoEligibleAction once it has accepted the budget:
\* until the case is complete some eligible action passes the filter.
NeverStuck ==
    model.phase # "Complete" =>
        \E a \in Eligible(spec, model) : Fits(spec, Apply(model, a), used)

\* Distance is what minimum_actions_to_complete returns: no eligible action
\* leads closer than one step less, and some action does lead there.
MinimumIsExact ==
    model.phase # "Complete" =>
        LET next == {Distance(spec, Apply(model, a)) :
                        a \in Eligible(spec, model)}
        IN  /\ Distance(spec, model) - 1 \in next
            /\ \A d \in next : Distance(spec, model) - 1 <= d

\* A payment is only known, confirmed or reported on once a call that committed
\* has made a provider object: no failed or lost call, no retrieve and no kill
\* leads past the checkout without one.
PaymentHasObject ==
    model.phase \notin {"Start", "CheckoutRetryable"} => model.objects >= 1
=============================================================================
