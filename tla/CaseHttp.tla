------------------------------- MODULE CaseHttp --------------------------------
(***************************************************************************)
(* One compiled case executed over HTTP: the adapters of provider_http.rs, *)
(* webhook_http.rs and case_http.rs under the lifecycle of                 *)
(* ReferenceCaseAdapter (reference_case.rs), against the fixture provider  *)
(* and the reference application.                                          *)
(*                                                                         *)
(* The plan comes from Planner, one action ahead of the execution: the     *)
(* executor is serial, its adapters look at no action but the current one  *)
(* and the kill that may follow it, and no call takes an outcome planned   *)
(* for a later action, so appending the outcomes of an action when it      *)
(* starts is the queue reset_fixture installs.  An error ends the case;    *)
(* the adapters are dropped with it.                                       *)
(***************************************************************************)
EXTENDS CaseTrace

CONSTANTS
    Applications,   \* start-up modes of the reference application
    Seed,           \* seed of the provider's ids
    NoEntry, NoValue

\* The faulty modes are the defaults; the repaired ones change one thing each.
ModesOfApplication == [retryKey: {"faulty_changed_key", "repaired_same_key"},
                       caller: {"faulty_per_request",
                                "repaired_recover_operation"}]

ASSUME ApplicationsAssumption == Applications \subseteq ModesOfApplication

\* A request scopes its idempotency keys by its own action id, so only the two
\* keys of the request under way matter.
Stripe == INSTANCE Provider WITH
    Seeds <- {Seed}, Keys <- {1, 2}, Requests <- {"order"}

\* The action that met a state it refuses.
Errors == {"MissingResolvedInput", "DriveCheckout", "HeldCheckout",
           "ConfirmPaymentIntent", "HeldConfirmation", "RetrievePaymentIntent",
           "ReleaseProviderGate", "GenerateProviderEvent", "DeliverWebhook",
           "UnexpectedQueueState", "KillApplication", "RestartAndAwaitHealth",
           "WaitForQuiescence", "CheckCheckpoint"}

\* What stands for nothing is none of the values it stands beside.
Exchanges == [gate: Nat, kind: {"Checkout", "Confirm"},
              ids: Seq({Seed} \X Nat), disconnect: BOOLEAN]

ASSUME NoValueAssumption ==
    /\ NoValue \notin Nat /\ NoValue \notin CutPoints \cup {"observed"} \cup Errors
    /\ NoValue \notin Exchanges
    /\ \A n \in 0 .. MaxObjects : NoValue # {<<Seed, i>> : i \in 1 .. n}
ASSUME NoEntryAssumption == NoEntry \notin Stripe!Entries

VARIABLES
    application,    \* the modes it was started with
    current,        \* the compiled action to execute next
    sources,        \* the outputs materialized for the plan so far
    captured,       \* the values captured for them
    fixture,        \* the managed fixture as the control plane shows it
    app,            \* the application process and its database
    provider,       \* ProviderHttpAdapter
    webhook,        \* WebhookHttpAdapter
    case,           \* ReferenceCaseAdapter
    observed,       \* observations the journal holds from the fixture
    failure,        \* the error that ended the case
    diverged        \* history: a call did not get the outcome planned for it

world == <<captured, fixture, app, provider, webhook, case, observed>>
caseVars == <<application, current, sources, world, failure, diverged>>
allVars == <<vars, caseVars>>
-----------------------------------------------------------------------------
(* The plan, one action ahead of the execution.                             *)

\* The compiler's next choice; a plan that preflight refuses never starts.
Compiles(next) ==
    IF model.phase = "Complete" THEN next = NoAction /\ UNCHANGED vars
    ELSE /\ next \in Eligible(spec, model)
         /\ Fits(spec, Apply(model, next), used)
         /\ Preflight(current, next)
         /\ model' = Apply(model, next)
         /\ used' = used + 1
         /\ UNCHANGED spec

Cut(next) == IF next.kind = "KillApplication" THEN next.cutPoint ELSE NoValue

\* The cuts after which a held webhook exchange is discarded.
Discards(cutPoint) ==
    cutPoint \in {"WebhookRequestForwarded", "WebhookResponseObserved"}
-----------------------------------------------------------------------------
(* The fixture and the application behind it.                               *)

\* One create: the answer, and whether it is the one the plan holds for it.
CallCreate(f, key, planned) ==
    LET outcome == Head(f.outcomes) IN
    [fixture |-> [f EXCEPT !.outcomes = Tail(@),
                           !.stripe = Stripe!CreateEffect(@, key, "order", outcome)],
     disposition |-> Stripe!CreateDisposition(f.stripe, key, outcome),
     response |-> Stripe!CreateResponse(f.stripe, key, "order", outcome),
     diverged |-> \/ outcome # planned
                  \/ Stripe!Cached(f.stripe, key) /\ planned # "Normal"]

\* What the driver's request ends in: an answer, an error, or a held call.
Answer(call) ==
    LET accepted == call.response.code = 200 IN
    [fixture |-> call.fixture, diverged |-> call.diverged,
     status |-> IF call.disposition = "DelayResponse" THEN "held"
                ELSE IF call.disposition = "Response" /\ accepted
                     THEN "answered" ELSE "failed",
     id |-> IF accepted THEN call.response.body[1].id ELSE NoValue]

\* A lost connection is retried once, under the key the mode gives.
Creates(f, script) ==
    LET first == CallCreate(f, 1, script.first)
        attempt == IF application.retryKey = "faulty_changed_key" THEN 2 ELSE 1
        second == CallCreate(first.fixture, attempt, script.retry)
        last == IF first.disposition # "CloseConnection" THEN Answer(first)
                ELSE [Answer(second) EXCEPT !.diverged = @ \/ first.diverged]
    IN  [last EXCEPT !.fixture.stripe.idempotency = [k \in {1, 2} |-> NoEntry]]

\* handle_checkout: the repaired caller first looks for an object it owns.
Checkout(f, script) ==
    LET found == f.stripe.intents IN
    IF application.caller = "faulty_per_request" \/ found = <<>>
    THEN Creates(f, script)
    ELSE LET recovered == /\ Len(found) = 1
                          /\ found[1].status = "RequiresConfirmation"
         IN  [fixture |-> f, diverged |-> ~recovered \/ script # Single("Normal"),
              status |-> IF recovered THEN "answered" ELSE "failed",
              id |-> IF recovered THEN found[1].id ELSE NoValue]

\* The outcomes of an action, as they lie in the installed queue.
Planned(f, script) ==
    [f EXCEPT !.outcomes = Append(@, script.first)
                           \o (IF script.retry = NoRetry THEN <<>>
                               ELSE <<script.retry>>)]

\* One confirmation, proxied by the application.
CallConfirm(f, id, planned) ==
    LET outcome == Head(f.outcomes) IN
    [fixture |-> [f EXCEPT !.outcomes = Tail(@),
                           !.stripe = Stripe!ConfirmEffect(@, id, outcome)],
     disposition |-> Stripe!DispositionOf(outcome),
     code |-> Stripe!ConfirmResponse(f.stripe, id, outcome).code,
     diverged |-> outcome # planned]

Hold(f) == [f EXCEPT !.nextGate = @ + 1, !.gates = @ \cup {f.nextGate + 1}]

Known(p) == {p.intents[i].id : i \in DOMAIN p.intents}
StatusOf(p, id) == p.intents[Stripe!PositionOf(p, id)].status

\* The objects a request added, in creation order.
NewIds(before, after) ==
    [i \in 1 .. Len(after.intents) - Len(before.intents) |->
        after.intents[Len(before.intents) + i].id]
-----------------------------------------------------------------------------
(* Steps of the executor.  A check that fails ends the case with its error. *)

Running(kinds) == failure = NoValue /\ current.kind \in kinds

NotQuiesced == case.quiescence = NoValue /\ case.checkpoint = NoValue

Require(ok, error) == failure' = IF ok THEN NoValue ELSE error

\* ReferenceCaseAdapter::execute refuses every HTTP effect after quiescence.
RequireOpen(ok, error) == Require(NotQuiesced /\ ok, error)

Idle(p) == p.pending = NoValue /\ p.response = NoValue

\* Both adapters must know the command the fixture saw last.
InStep == provider.control = fixture.command

\* execute_provider and execute_webhook: what one adapter did, the other knows.
Synchronize(other, own) ==
    [other EXCEPT !.control = own.control, !.observations = own.observations]

\* The journal takes an observation only under the next number.
Record == observed' = observed + 1
Recorded(own) == own.observations = observed + 1

\* The references the action has to capture, and the value it takes.
Outputs == OutputsOf(Len(sources.objects), current)
Input == captured[InputOf(sources, current)]
ActiveIntent == captured[sources.active]

\* The captures of an action, which the executor checks.
Capture(values) ==
    captured' = Live(Reserve(sources, current), captured, Captures(Outputs, values))

Complete(values) == ValidCaptures(Outputs, Captures(Outputs, values))
NoOutputs == OutputContract(Outputs, <<>>) /\ Complete(<<>>)

\* evaluate: what a read-only transaction of its own finds committed; the
\* predicate of the configured probe is that the checkout is stored.
Evaluate(a) == a.persisted

\* The single-use SQL probe: the predicate is false before the request and
\* becomes true while it runs.
RequireFalse(probe, holds) == IF probe = "Ready" /\ ~holds THEN "Armed" ELSE "Failed"
ObserveTrue(probe, holds) == IF probe = "Armed" /\ holds THEN "Observed" ELSE "Failed"

\* payment_intent_attempt_ids: an object per commit, or one that both the lost
\* call and its retry stand for.
AttemptIds(script, new) ==
    IF /\ Len(new) = 1 /\ CommittedCount(script) = 2
       /\ script.first = "CommitThenClose"
    THEN new \o new ELSE new

\* recovered_business_payment_intent_id.
IsRecovered(answer) ==
    /\ current.kind = "RetryBusinessRequest"
    /\ answer.status = "answered"
    /\ answer.id \in Known(fixture.stripe)
    /\ StatusOf(answer.fixture.stripe, answer.id) = "RequiresConfirmation"

\* A recovered request leaves its outcomes in the queue.
CallCount(script) == IF script.retry = NoRetry THEN 1 ELSE 2
ConsumedAlways(script, recovered) == CallCount(script)
Consumed(script, recovered) == IF recovered THEN 0 ELSE CallCount(script)

\* request_driver_checkout: the answer the script is to end in.
DriverAnswers(answer, script) ==
    (answer.status = "answered") <=> (TerminalOutcome(script) = "Normal")

\* request_checkout_at_cut_point: the response is kept for a kill that loses it.
KeptResponse(next) ==
    IF Cut(next) = "ClientResponseObserved" THEN "observed" ELSE NoValue

\* drive_checkout.
DriveCheckout(next) ==
    LET script == current.script
        before == Planned(fixture, script)
        answer == Checkout(before, script)
        after == answer.fixture
        recovered == IsRecovered(answer)
        new == NewIds(fixture.stripe, after.stripe)
        ids == IF recovered THEN <<answer.id>> ELSE AttemptIds(script, new)
        p == [provider EXCEPT
                 !.known = @ \cup {ids[i] : i \in DOMAIN ids},
                 !.recovered = @ + IF recovered THEN CallCount(script) ELSE 0,
                 !.response = KeptResponse(next)]
    IN  /\ Running(BusinessRequest)
        /\ TerminalOutcome(script) # "CommitThenDelay"
        /\ fixture' = after
        /\ app' = [app EXCEPT !.persisted = @ \/ answer.status = "answered"]
        /\ provider' = p
        /\ webhook' = Synchronize(webhook, p)
        /\ Capture(ids)
        /\ case' = [case EXCEPT !.probe =
                       IF Cut(next) = "SqlProbe"
                       THEN ObserveTrue(RequireFalse(@, Evaluate(app)), Evaluate(app'))
                       ELSE @]
        /\ diverged' = (diverged \/ answer.diverged)
        /\ RequireOpen(/\ Idle(provider) /\ InStep
                       /\ fixture.gates = {} /\ after.gates = {}
                       /\ DriverAnswers(answer, script)
                       /\ Len(before.outcomes) - Consumed(script, recovered)
                             = Len(after.outcomes)
                       /\ recovered => /\ CommittedCount(script) = 1
                                       /\ new = <<>>
                       /\ CheckoutContract(Outputs, script)
                       /\ Len(ids) = CommittedCount(script) /\ Complete(ids)
                       /\ answer.status = "answered" =>
                             ids # <<>> /\ ids[Len(ids)] = answer.id
                       /\ Cut(next) = "SqlProbe" => case'.probe = "Observed",
                       "DriveCheckout")
        /\ UNCHANGED observed

\* start_held_checkout and wait_for_held_response.
HeldCheckout(next) ==
    LET script == current.script
        answer == Checkout(Planned(fixture, script), script)
        held == answer.status = "held"
        after == IF held THEN Hold(answer.fixture) ELSE answer.fixture
        new == NewIds(fixture.stripe, after.stripe)
        p == [provider EXCEPT
                 !.known = Known(fixture.stripe) \cup {new[i] : i \in DOMAIN new},
                 !.pending = [gate |-> after.nextGate, kind |-> "Checkout",
                              ids |-> new, disconnect |-> FALSE],
                 !.observations = @ + 1]
    IN  /\ Running(BusinessRequest)
        /\ TerminalOutcome(script) = "CommitThenDelay"
        /\ fixture' = after
        /\ app' = [app EXCEPT !.waiting = answer.id]
        /\ provider' = p
        /\ webhook' = Synchronize(webhook, p)
        /\ Record
        /\ Capture(new \o <<after.nextGate>>)
        /\ diverged' = (diverged \/ answer.diverged)
        /\ RequireOpen(/\ provider.pending = NoValue /\ InStep
                       /\ fixture.gates = {} /\ held
                       /\ CheckoutContract(Outputs, script)
                       /\ Len(new) = CommittedCount(script)
                       /\ Complete(new \o <<after.nextGate>>) /\ Recorded(p),
                       "HeldCheckout")
        /\ UNCHANGED case

ExpectedCode(outcome) ==
    CASE outcome = "Normal" -> 200
      [] outcome = "PreExecute429" -> 429
      [] OTHER -> 500

\* confirm_payment_intent.
ConfirmPaymentIntent(next) ==
    LET outcome == current.script.first
        id == Input
        call == CallConfirm(Planned(fixture, current.script), id, outcome)
        after == call.fixture.stripe
        closed == call.disposition = "CloseConnection"
    IN  /\ Running(ConfirmKinds)
        /\ outcome # "CommitThenDelay"
        /\ fixture' = call.fixture
        /\ webhook' = Synchronize(webhook, provider)
        /\ diverged' = (diverged \/ call.diverged)
        /\ RequireOpen(/\ provider.pending = NoValue /\ InStep
                       /\ fixture.gates = {} /\ app.up
                       /\ NoOutputs
                       /\ closed <=> (outcome = "CommitThenClose")
                       /\ ~closed => call.code = ExpectedCode(outcome)
                       /\ call.disposition # "DelayResponse"
                       /\ StatusOf(after, id) =
                             IF Commits(outcome) THEN "Succeeded"
                             ELSE StatusOf(fixture.stripe, id),
                       "ConfirmPaymentIntent")
        /\ UNCHANGED <<captured, app, provider, case, observed>>

\* wait_for_held_confirmation.
ConfirmationHeld(held, after, id) ==
    held /\ StatusOf(after.stripe, id) = "Succeeded"

\* start_held_confirmation.
HeldConfirmation(next) ==
    LET id == Input
        call == CallConfirm(Planned(fixture, current.script), id,
                            current.script.first)
        held == call.disposition = "DelayResponse"
        after == IF held THEN Hold(call.fixture) ELSE call.fixture
        p == [provider EXCEPT
                 !.pending = [gate |-> after.nextGate, kind |-> "Confirm",
                              ids |-> <<id>>, disconnect |-> FALSE],
                 !.observations = @ + 1]
    IN  /\ Running(ConfirmKinds)
        /\ current.script.first = "CommitThenDelay"
        /\ fixture' = after
        /\ app' = [app EXCEPT !.waiting = id]
        /\ provider' = p
        /\ webhook' = Synchronize(webhook, p)
        /\ Record
        /\ Capture(<<after.nextGate>>)
        /\ diverged' = (diverged \/ call.diverged)
        /\ RequireOpen(/\ provider.pending = NoValue /\ InStep
                       /\ fixture.gates = {} /\ app.up
                       /\ OutputContract(Outputs, <<"ProviderGateId">>)
                       /\ Complete(<<after.nextGate>>)
                       /\ ConfirmationHeld(held, after, id) /\ Recorded(p),
                       "HeldConfirmation")
        /\ UNCHANGED case

\* retrieve_payment_intent: reads, and compares what it reads.
RetrievePaymentIntent(next) ==
    /\ Running({"RetrievePaymentIntent"})
    /\ webhook' = Synchronize(webhook, provider)
    /\ RequireOpen(/\ provider.pending = NoValue /\ InStep
                   /\ fixture.gates = {} /\ app.up
                   /\ NoOutputs /\ Input \in Known(fixture.stripe),
                   "RetrievePaymentIntent")
    /\ UNCHANGED <<captured, fixture, app, provider, case, observed, diverged>>

\* release_gate, a command of the control plane.
ReleaseGate(f, gate) == [f EXCEPT !.gates = @ \ {gate}, !.command = @ + 1]

\* release_held_response: the gate is released by a command, and the request
\* ends the way it must: in its answer, or disconnected if its application was
\* killed.
ReleaseProviderGate(next) ==
    LET held == provider.pending
        gate == Input
        p == [provider EXCEPT !.pending = NoValue, !.control = @ + 1,
                              !.observations = @ + 1]
    IN  /\ Running({"ReleaseProviderGate"})
        /\ fixture' = ReleaseGate(fixture, gate)
        /\ app' = [app EXCEPT !.waiting = NoValue,
                              !.persisted = @ \/ app.waiting # NoValue]
        /\ provider' = p
        /\ webhook' = Synchronize(webhook, p)
        /\ Record
        /\ RequireOpen(/\ held # NoValue /\ held.gate = gate
                       /\ InStep /\ gate \in fixture.gates
                       /\ {held.ids[i] : i \in DOMAIN held.ids}
                             \subseteq Known(fixture.stripe)
                       /\ Recorded(p)
                       /\ IF held.disconnect THEN app.waiting = NoValue
                          ELSE app.waiting = held.ids[Len(held.ids)],
                       "ReleaseProviderGate")
        /\ UNCHANGED <<captured, case, diverged>>
-----------------------------------------------------------------------------
(* Webhook actions.                                                         *)

\* With stale history, the first event of an object shows its older state.
SnapshotOfEvent(id) ==
    IF spec.allowStale /\ \A e \in webhook.generated : e[2] # id
    THEN "RequiresConfirmation" ELSE "Succeeded"

GenerateProviderEvent(next) ==
    LET id == Input
        kind == SnapshotOfEvent(id)
        after == Stripe!EventSnapshot(fixture.stripe, id, kind)
        event == CHOOSE i \in DOMAIN after.events :
                    after.events[i].intent = id /\ after.events[i].kind = kind
        w == [webhook EXCEPT !.control = @ + 1,
                             !.generated = @ \cup {<<event, id>>},
                             !.queue = Append(@, [event |-> event, delayed |-> FALSE])]
    IN  /\ Running({"GenerateProviderEvent"})
        /\ fixture' = [fixture EXCEPT !.stripe = after, !.command = @ + 1]
        /\ webhook' = w
        /\ provider' = Synchronize(provider, w)
        /\ RequireOpen(/\ webhook.control = fixture.command
                       /\ id \in Known(fixture.stripe)
                       /\ OutputContract(Outputs, <<"EventId">>) /\ Complete(<<event>>)
                       /\ \A e \in webhook.generated : e[1] = event => e[2] = id,
                       "GenerateProviderEvent")
        /\ Capture(<<event>>)
        /\ UNCHANGED <<app, case, observed, diverged>>

\* A delivered event that stays in the queue, and one that leaves it.
AfterDeliveryKept(queue) == queue
AfterDelivery(queue) == Tail(queue)

\* deliver_pending takes the front of the queue, duplicate_last the last event.
EventToDeliver ==
    IF current.kind = "DuplicateWebhook" THEN webhook.last
    ELSE IF webhook.queue = <<>> THEN NoValue
    ELSE Head(webhook.queue).event

Delivered ==
    [webhook EXCEPT
        !.queue = IF current.kind = "DeliverWebhook" /\ @ # <<>>
                  THEN AfterDelivery(@) ELSE @,
        !.last = EventToDeliver,
        !.control = @ + 1]

\* The checks and effects of all deliveries; w is the adapter after this one.
DeliverEvent(w, ok) ==
    /\ webhook' = w
    /\ provider' = Synchronize(provider, w)
    /\ RequireOpen(/\ webhook.control = fixture.command /\ app.up
                   /\ NoOutputs /\ EventToDeliver # NoValue /\ ok,
                   "DeliverWebhook")
    /\ UNCHANGED <<captured, case, diverged>>

\* send_delivery_request: the fixture answers under the number of the command.
AnsweredInStep(f) == f.command = webhook.control + 1

\* wait_for_forwarded_webhook_request polls until the command was taken and the
\* only request the fixture holds has been forwarded.
ForwardedRequest(f, g) == f.command = webhook.control + 1 /\ f.request = g

\* deliver_event without a cut: the answer of the application comes back.
DeliverWebhook(next) ==
    /\ Running(Delivery)
    /\ ~Discards(Cut(next))
    /\ fixture' = [fixture EXCEPT !.command = @ + 1]
    /\ app' = [app EXCEPT !.persisted = TRUE]
    /\ DeliverEvent(Delivered, AnsweredInStep(fixture'))
    /\ UNCHANGED observed

\* start_forwarded_request_delivery: held before the application persists.
ForwardWebhookRequest(next) ==
    LET g == fixture.nextGate + 1
        w == [Delivered EXCEPT !.observations = @ + 1, !.request = g]
    IN  /\ Running(Delivery)
        /\ Cut(next) = "WebhookRequestForwarded"
        /\ fixture' = [fixture EXCEPT !.command = @ + 1, !.nextGate = g, !.request = g]
        /\ Record
        /\ DeliverEvent(w, /\ webhook.request = NoValue
                           /\ webhook.response = NoValue
                           /\ ForwardedRequest(fixture', g) /\ Recorded(w))
        /\ UNCHANGED app

\* start_held_delivery: held after the answer was observed.
HoldWebhookResponse(next) ==
    LET g == fixture.nextGate + 1
        w == [Delivered EXCEPT !.observations = @ + 1, !.response = g]
    IN  /\ Running(Delivery)
        /\ Cut(next) = "WebhookResponseObserved"
        /\ fixture' = [fixture EXCEPT !.command = @ + 1, !.nextGate = g, !.response = g]
        /\ app' = [app EXCEPT !.persisted = TRUE]
        /\ Record
        /\ DeliverEvent(w, webhook.response = NoValue /\ Recorded(w))

\* delay_next, reorder_next_two and drop_next only touch the queue.
QueueAction(kind, queue, ok) ==
    /\ Running({kind})
    /\ webhook' = [webhook EXCEPT !.queue = IF ok THEN queue ELSE @]
    /\ provider' = Synchronize(provider, webhook)
    /\ RequireOpen(NoOutputs /\ ok, "UnexpectedQueueState")
    /\ UNCHANGED <<captured, fixture, app, case, observed, diverged>>

DelayWebhook(next) ==
    LET q == webhook.queue IN
    QueueAction("DelayWebhook", [q EXCEPT ![1].delayed = TRUE],
                q # <<>> /\ ~q[1].delayed)

ReorderWebhooks(next) ==
    LET q == webhook.queue IN
    QueueAction("ReorderWebhooks", [q EXCEPT ![1] = q[2], ![2] = q[1]], Len(q) >= 2)

DropWebhook(next) ==
    QueueAction("DropWebhook", Tail(webhook.queue), webhook.queue # <<>>)
-----------------------------------------------------------------------------
(* Process faults and the end of the case.                                  *)

\* mark_application_killed, the one state of the adapters each cut needs.
MayKill(cutPoint) ==
    CASE cutPoint = "ClientRequestForwarded" ->
           /\ provider.pending # NoValue
           /\ provider.pending.kind = "Checkout" /\ ~provider.pending.disconnect
           /\ provider.response = NoValue
      [] cutPoint = "ClientResponseObserved" ->
           provider.response # NoValue /\ provider.pending = NoValue
      [] cutPoint = "WebhookRequestForwarded" -> webhook.request # NoValue
      [] cutPoint = "WebhookResponseObserved" -> webhook.response # NoValue
      [] cutPoint = "SqlProbe" -> case.probe = "Observed"

\* discard_forwarded_request and discard_observed_response: the held exchange
\* is discarded by a command of its own, once the application is dead.
DiscardHeld(cutPoint, p) ==
    LET w == [webhook EXCEPT !.control = @ + 1, !.observations = @ + 1,
                             !.request = NoValue, !.response = NoValue]
        heldGate == IF cutPoint = "WebhookRequestForwarded"
                    THEN fixture.request ELSE fixture.response
    IN  /\ fixture' = [fixture EXCEPT !.command = @ + 1,
                                      !.request = NoValue, !.response = NoValue]
        /\ webhook' = w
        /\ provider' = Synchronize(p, w)
        /\ Record
        /\ Require(/\ case.healthy /\ MayKill(cutPoint)
                   /\ webhook.control = fixture.command
                   /\ heldGate # NoValue
                   /\ heldGate \in {webhook.request, webhook.response}
                   /\ Recorded(w),
                   "KillApplication")

\* kill_application: mark the cut, kill the process, complete the cut.
KillApplication(next) ==
    LET cutPoint == current.cutPoint
        p == [provider EXCEPT
                 !.pending = IF cutPoint = "ClientRequestForwarded" /\ @ # NoValue
                             THEN [@ EXCEPT !.disconnect = TRUE] ELSE @,
                 !.response = IF cutPoint = "ClientResponseObserved"
                              THEN NoValue ELSE @]
    IN  /\ Running({"KillApplication"})
        /\ app' = [app EXCEPT !.up = FALSE, !.waiting = NoValue]
        /\ case' = [case EXCEPT !.healthy = FALSE]
        /\ IF Discards(cutPoint) THEN DiscardHeld(cutPoint, p)
           ELSE /\ provider' = p
                /\ Require(case.healthy /\ MayKill(cutPoint), "KillApplication")
                /\ UNCHANGED <<fixture, webhook, observed>>
        /\ UNCHANGED <<captured, diverged>>

RestartAndAwaitHealth(next) ==
    /\ Running({"RestartAndAwaitHealth"})
    /\ app' = [app EXCEPT !.up = TRUE]
    /\ case' = [case EXCEPT !.healthy = TRUE]
    /\ Require(~case.healthy, "RestartAndAwaitHealth")
    /\ UNCHANGED <<captured, fixture, provider, webhook, observed, diverged>>

\* await_reference_quiescence and quiescent_provider_projection.
Quiet ==
    /\ Idle(provider)
    /\ webhook.queue = <<>> /\ webhook.request = NoValue /\ webhook.response = NoValue
    /\ InStep
    /\ fixture.gates = {}
    /\ Len(fixture.outcomes) = provider.recovered
    /\ Known(fixture.stripe) = provider.known

WaitForQuiescence(next) ==
    /\ Running({"WaitForQuiescence"})
    /\ case' = [case EXCEPT !.quiescence = Known(fixture.stripe)]
    /\ Require(NotQuiesced /\ Quiet, "WaitForQuiescence")
    /\ UNCHANGED <<captured, fixture, app, provider, webhook, observed, diverged>>

CheckCheckpoint(next) ==
    /\ Running({"CheckCheckpoint"})
    /\ case' = [case EXCEPT !.quiescence = NoValue, !.checkpoint = case.quiescence]
    /\ Require(/\ NoOutputs /\ case.checkpoint = NoValue
               /\ case.quiescence # NoValue,
               "CheckCheckpoint")
    /\ UNCHANGED <<captured, fixture, app, provider, webhook, observed, diverged>>

\* reset_fixture has installed the outcomes; the first action is chosen.
Begin(next) ==
    /\ Running({"None"}) /\ model.phase = "Start"
    /\ UNCHANGED <<world, failure, diverged>>

ProviderAction(next) ==
    \/ DriveCheckout(next)
    \/ HeldCheckout(next)
    \/ ConfirmPaymentIntent(next)
    \/ HeldConfirmation(next)
    \/ RetrievePaymentIntent(next)
    \/ ReleaseProviderGate(next)

WebhookAction(next) ==
    \/ GenerateProviderEvent(next)
    \/ DeliverWebhook(next)
    \/ ForwardWebhookRequest(next)
    \/ HoldWebhookResponse(next)
    \/ DelayWebhook(next)
    \/ ReorderWebhooks(next)
    \/ DropWebhook(next)

ProcessAction(next) == KillApplication(next) \/ RestartAndAwaitHealth(next)

Execute(next) ==
    \/ Begin(next)
    \/ ProviderAction(next)
    \/ WebhookAction(next)
    \/ ProcessAction(next)
    \/ WaitForQuiescence(next)
    \/ CheckCheckpoint(next)

CaseInit ==
    /\ Init
    /\ application \in Applications
    /\ current = NoAction /\ sources = NoSources /\ captured = <<>>
    /\ fixture = [stripe |-> Stripe!NewProvider(Seed), outcomes |-> <<>>,
                  gates |-> {}, nextGate |-> 0, command |-> 1,
                  request |-> NoValue, response |-> NoValue]
    /\ app = [up |-> TRUE, waiting |-> NoValue, persisted |-> FALSE]
    /\ provider = [pending |-> NoValue, response |-> NoValue, known |-> {},
                   recovered |-> 0, control |-> 1, observations |-> 0]
    /\ webhook = [queue |-> <<>>, generated |-> {}, last |-> NoValue,
                  control |-> 1, observations |-> 0,
                  request |-> NoValue, response |-> NoValue]
    /\ case = [healthy |-> TRUE, probe |-> "Ready",
               quiescence |-> NoValue, checkpoint |-> NoValue]
    /\ observed = 0
    /\ failure = NoValue
    /\ diverged = FALSE

\* An error ends the case, and so does its last action.
Ended ==
    /\ failure # NoValue \/ (current = NoAction /\ model.phase = "Complete")
    /\ UNCHANGED allVars

CaseNext ==
    \/ /\ failure = NoValue
       /\ \E next \in Eligible(spec, model) \cup {NoAction} :
             /\ Compiles(next)
             /\ IF Resolves(sources, captured, current) THEN Execute(next)
                ELSE failure' = "MissingResolvedInput" /\ UNCHANGED <<world, diverged>>
             /\ current' = next
             /\ sources' = Reserve(sources, current)
       /\ UNCHANGED application
    \/ Ended

CaseSpec == CaseInit /\ [][CaseNext]_allVars
-----------------------------------------------------------------------------
Faulty == application = [retryKey |-> "faulty_changed_key",
                         caller   |-> "faulty_per_request"]

\* Every plan that compiles and passes preflight executes to its end against an
\* application that takes every planned outcome: no adapter ever meets a state
\* it refuses, every kill finds the exchange it is to cut, and the fixture is
\* quiet at the end.  A case only fails once a call was answered otherwise.
PlansExecute ==
    /\ failure # NoValue => diverged
    /\ Faulty => ~diverged

\* The scheduler in force plans no kill that preflight then refuses.
KillsAreSupported ==
    ~model.legacy =>
        \A a \in KillActions(spec, model) : model.healthy => Preflight(current, a)

\* What the planner's symbolic state says of the real one.
Describes(m) ==
    /\ m.healthy <=> app.up
    /\ m.phase \in {"CheckoutResponseHeld", "ConfirmResponseHeld"}
          <=> provider.pending # NoValue
    /\ m.phase = "CheckoutResponseHeld" => provider.pending.kind = "Checkout"
    /\ m.objects = Len(sources.objects)
    /\ m.phase \notin {"Start", "CheckoutRetryable"} =>
          \A i \in DOMAIN sources.objects :
              captured[sources.objects[i]] \in Known(fixture.stripe)
    /\ m.phase \in {"ConfirmResponseHeld", "Confirmed", "Events", "Quiesced",
                    "Complete"} =>
          StatusOf(fixture.stripe, ActiveIntent) = "Succeeded"
    /\ m.phase = "Events" => m.pending = Len(webhook.queue)
    /\ m.delivered > 0 => webhook.last # NoValue
    /\ Faulty => m.objects = Len(fixture.stripe.intents)

\* The symbolic state the plan was compiled with is, after every action, a true
\* account of the process, the held calls, the provider's objects, the payment
\* under way and the queue of events.
SymbolicStateIsReal ==
    [][\A m \in {model} : failure' = NoValue /\ ~diverged' => Describes(m)']_allVars

\* The checkpoint is taken of every object the provider has, after each has had
\* its success reported in an event; no exchange of the case is left open.
CheckpointIsWhole ==
    case.checkpoint # NoValue =>
        /\ case.checkpoint = Known(fixture.stripe)
        /\ fixture.gates = {} /\ fixture.request = NoValue
        /\ fixture.response = NoValue
        /\ \A i \in DOMAIN fixture.stripe.intents :
              LET id == fixture.stripe.intents[i].id IN
              /\ Stripe!HasEvent(fixture.stripe, id, "Succeeded")
              /\ spec.allowStale /\ ~diverged /\ Faulty =>
                    Stripe!HasEvent(fixture.stripe, id, "RequiresConfirmation")
              /\ \E e \in webhook.generated : e[2] = id

\* The outcome of the create that a recovered request did not make stays
\* unconsumed: the confirmation after it is answered with its own outcome.
RecoveredOutcomeIsLeft ==
    provider.recovered > 0 =>
        failure \notin {"ConfirmPaymentIntent", "HeldConfirmation"}
=============================================================================
