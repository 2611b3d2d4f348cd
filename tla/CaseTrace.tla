------------------------------ MODULE CaseTrace -------------------------------
(***************************************************************************)
(* The dynamic values of a compiled case (crates/tiv-core/src/trace.rs and *)
(* its use in campaign.rs).  Which values an action has to capture and     *)
(* which captured value is its input is fixed before anything runs; the    *)
(* executor resolves the input and checks the captures action by action,   *)
(* and the trace is bound to all of them at the end.                       *)
(*                                                                         *)
(* An action is known by the number of objects that the actions before it  *)
(* create: no two references that are live at once are then the same.  The *)
(* outputs of an action are listed in the order of their references:       *)
(* objects, event, gate.                                                   *)
(***************************************************************************)
EXTENDS Preflight, Sequences, FiniteSets

Ref(number, slot, occurrence) ==
    [action |-> number, slot |-> slot, occurrence |-> occurrence]

NoRef == Ref(0, "None", 0)

ConfirmKinds == {"ConfirmPaymentIntent", "RetryProviderRequest"}

\* What materialize_case_actions has reserved so far.
NoSources == [active |-> NoRef, objects |-> <<>>, gate |-> NoRef,
              generated |-> 0]

CreateCommits(outcome) == outcome \notin {"PreExecute429", "PreExecute500"}

\* An object for each call that commits, numbered among all calls of the script.
ObjectOutputs(number, script) ==
    LET Of(outcome, call) ==
            IF outcome # NoRetry /\ CreateCommits(outcome)
            THEN <<Ref(number, "PaymentIntentId", call)>> ELSE <<>>
    IN  Of(script.first, 0) \o Of(script.retry, 1)

GateOutputs(number, script) ==
    IF TerminalOutcome(script) = "CommitThenDelay"
    THEN <<Ref(number, "ProviderGateId", 0)>> ELSE <<>>

ObjectsOf(number, a) ==
    IF a.kind \in BusinessRequest THEN ObjectOutputs(number, a.script) ELSE <<>>

GatesOf(number, a) ==
    IF a.kind \in BusinessRequest \cup ConfirmKinds
    THEN GateOutputs(number, a.script) ELSE <<>>

OutputsOf(number, a) ==
    IF a.kind = "GenerateProviderEvent" THEN <<Ref(number, "EventId", 0)>>
    ELSE ObjectsOf(number, a) \o GatesOf(number, a)

\* A variant of InputOf: every event is about the payment under way.
InputOfActive(s, a) == IF a.kind = "ReleaseProviderGate" THEN s.gate ELSE s.active

\* The earlier output an action takes as its input; the events go through the
\* objects in turn.
InputOf(s, a) ==
    CASE a.kind \in ConfirmKinds \cup {"RetrievePaymentIntent"} -> s.active
      [] a.kind = "ReleaseProviderGate" -> s.gate
      [] a.kind = "GenerateProviderEvent" /\ s.objects # <<>> ->
           s.objects[(s.generated % Len(s.objects)) + 1]
      [] OTHER -> NoRef

TakesInput(a) ==
    a.kind \in ConfirmKinds \cup {"RetrievePaymentIntent", "ReleaseProviderGate",
                                  "GenerateProviderEvent"}

\* reserve_business_provider_outputs and the rest of materialize_case_actions.
Reserve(s, a) ==
    LET objects == ObjectsOf(Len(s.objects), a)
        gates == GatesOf(Len(s.objects), a)
    IN  [active    |-> IF objects = <<>> THEN s.active ELSE objects[Len(objects)],
         objects   |-> s.objects \o objects,
         gate      |-> IF gates # <<>> THEN gates[1]
                       ELSE IF a.kind = "ReleaseProviderGate" THEN NoRef ELSE s.gate,
         generated |-> s.generated
                       + IF a.kind = "GenerateProviderEvent" THEN 1 ELSE 0]
-----------------------------------------------------------------------------
(* Captures: functions from references to values.                           *)

\* payment_intent_captures and held_captures, once the lengths agree.
Captures(outputs, values) ==
    [r \in {outputs[i] : i \in DOMAIN outputs \cap DOMAIN values} |->
        values[CHOOSE i \in DOMAIN outputs : outputs[i] = r]]

\* require_checkout_outputs, require_held_checkout_outputs: as many objects as
\* the script commits, numbered from the first.
ObjectContract(outputs, count) ==
    /\ Len(outputs) = count
    /\ \A i \in DOMAIN outputs :
          outputs[i].slot = "PaymentIntentId" /\ outputs[i].occurrence = i - 1

CheckoutContract(outputs, script) ==
    LET gates == GateOutputs(0, script) IN
    /\ ObjectContract(SubSeq(outputs, 1, Len(outputs) - Len(gates)),
                      CommittedCount(script))
    /\ gates # <<>> => /\ outputs # <<>>
                       /\ outputs[Len(outputs)].slot = "ProviderGateId"

\* require_output_contract, require_event_output and require_no_outputs.
OutputContract(outputs, slots) ==
    [i \in DOMAIN outputs |-> outputs[i].slot] = slots

\* validate_captures, of one action.
ValidCaptures(outputs, captures) ==
    DOMAIN captures = {outputs[i] : i \in DOMAIN outputs}

\* Of the captures before an action and its own, those a later one can take.
Live(s, captured, new) ==
    [r \in (DOMAIN captured \cup DOMAIN new)
              \cap ({s.objects[i] : i \in DOMAIN s.objects} \cup {s.gate}) |->
        IF r \in DOMAIN captured THEN captured[r] ELSE new[r]]

\* resolve_inputs finds what an action takes among the captures before it.
Resolves(s, captured, a) == TakesInput(a) => InputOf(s, a) \in DOMAIN captured
=============================================================================
