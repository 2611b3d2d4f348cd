---------------------------- MODULE FixtureProofs -----------------------------
(***************************************************************************)
(* Theorems about Fixture, for every set of callers, keys, requests, seeds *)
(* and plans and every bound: its type invariant; that no handler is left  *)
(* waiting on a gate nobody can reach; what its provider holds, what may   *)
(* never change in it between resets, and the answers it replays.          *)
(***************************************************************************)
EXTENDS Fixture, TLAPS, FiniteSetTheorems, SequenceTheorems

-----------------------------------------------------------------------------
(* The provider's operators preserve its type.                               *)

LEMMA ProviderFields ==
    ASSUME NEW p \in Providers
    PROVE  /\ p = [seed |-> p.seed, intents |-> p.intents, events |-> p.events,
                   idempotency |-> p.idempotency]
           /\ p.seed \in Seeds
           /\ p.intents \in Seq(PaymentIntents)
           /\ p.events \in Seq(Events)
           /\ p.idempotency \in [Keys -> Entries \cup {NoEntry}]
           /\ Len(p.intents) \in Nat /\ DOMAIN p.intents = 1 .. Len(p.intents)
           /\ Len(p.events) \in Nat /\ DOMAIN p.events = 1 .. Len(p.events)
BY LenProperties DEF Providers

LEMMA NewProviderType ==
    ASSUME NEW seed \in Seeds
    PROVE  NewProvider(seed) \in Providers
BY EmptySeq DEF NewProvider, Providers

LEMMA ErrorResponseType ==
    ASSUME NEW code \in {429, 500}
    PROVE  ErrorResponse(code) \in Responses
BY EmptySeq DEF ErrorResponse, Responses

LEMMA ObjectResponseType ==
    ASSUME NEW pi \in PaymentIntents
    PROVE  ObjectResponse(pi) \in Responses
<1>1. <<pi>> \in Seq(PaymentIntents)
  OBVIOUS
<1> QED BY <1>1 DEF ObjectResponse, Responses

LEMMA ExecutedResponseType ==
    ASSUME NEW outcome, NEW pi \in PaymentIntents
    PROVE  ExecutedResponse(outcome, pi) \in Responses
BY ErrorResponseType, ObjectResponseType DEF ExecutedResponse

LEMMA PreExecutionResponseType ==
    ASSUME NEW outcome
    PROVE  PreExecutionResponse(outcome) \in Responses
BY ErrorResponseType DEF PreExecutionResponse

LEMMA NewIntentType ==
    ASSUME NEW p \in Providers, NEW request \in Requests
    PROVE  NewIntent(p, request) \in PaymentIntents
BY ProviderFields DEF NewIntent, PaymentIntents, Ids, Statuses

LEMMA CreateTypes ==
    ASSUME NEW p \in Providers, NEW key \in Keys, NEW request \in Requests,
           NEW outcome \in Outcomes
    PROVE  /\ CreateEffect(p, key, request, outcome) \in Providers
           /\ CreateResponse(p, key, request, outcome) \in Responses
<1> DEFINE pi == NewIntent(p, request)
           response == ExecutedResponse(outcome, pi)
           entry == [request |-> request, intent |-> pi, response |-> response]
<1>1. pi \in PaymentIntents
  BY NewIntentType
<1>2. response \in Responses
  BY <1>1, ExecutedResponseType
<1>3. entry \in Entries
  BY <1>1, <1>2 DEF Entries
<1>4. Append(p.intents, pi) \in Seq(PaymentIntents)
  BY <1>1, ProviderFields, AppendProperties
<1>5. [p.idempotency EXCEPT ![key] = entry] \in [Keys -> Entries \cup {NoEntry}]
  BY <1>3, ProviderFields
<1>6. [p EXCEPT !.intents = Append(@, pi), !.idempotency[key] = entry] \in Providers
  BY <1>4, <1>5, ProviderFields DEF Providers
<1>7. CreateEffect(p, key, request, outcome) \in Providers
  BY <1>6 DEF CreateEffect
<1>8. Cached(p, key) => p.idempotency[key].response \in Responses
  BY ProviderFields DEF Cached, Entries
<1> QED BY <1>2, <1>7, <1>8, PreExecutionResponseType DEF CreateResponse

LEMMA PositionOfKnown ==
    ASSUME NEW p \in Providers, NEW id \in IntentIds(p)
    PROVE  /\ PositionOf(p, id) \in 1 .. Len(p.intents)
           /\ p.intents[PositionOf(p, id)].id = id
           /\ id \in Ids
<1>1. \E i \in DOMAIN p.intents : p.intents[i].id = id
  BY DEF IntentIds
<1>2. PositionOf(p, id) \in DOMAIN p.intents /\ p.intents[PositionOf(p, id)].id = id
  BY <1>1 DEF PositionOf
<1>3. p.intents[PositionOf(p, id)] \in PaymentIntents
  BY <1>2, ProviderFields, ElementOfSeq
<1> QED BY <1>2, <1>3, ProviderFields DEF PaymentIntents

LEMMA EnsureEventType ==
    ASSUME NEW p \in Providers, NEW id \in Ids, NEW kind \in Statuses
    PROVE  EnsureEvent(p, id, kind) \in Providers
<1> DEFINE event == [id |-> <<p.seed, Len(p.events) + 1>>, kind |-> kind, intent |-> id]
<1>1. event \in Events
  BY ProviderFields DEF Events, Ids
<1>2. Append(p.events, event) \in Seq(Events)
  BY <1>1, ProviderFields, AppendProperties
<1>3. [p EXCEPT !.events = Append(@, event)] \in Providers
  BY <1>2, ProviderFields DEF Providers
<1> QED BY <1>3 DEF EnsureEvent

LEMMA ConfirmType ==
    ASSUME NEW p \in Providers, NEW id \in IntentIds(p)
    PROVE  Confirm(p, id) \in Providers
<1> DEFINE i == PositionOf(p, id)
           q == [p EXCEPT !.intents[i].status = "Succeeded"]
<1>1. i \in 1 .. Len(p.intents) /\ id \in Ids
  BY PositionOfKnown
<1>2. p.intents[i] \in PaymentIntents
  BY <1>1, ProviderFields, ElementOfSeq
<1>3. [p.intents[i] EXCEPT !.status = "Succeeded"] \in PaymentIntents
  BY <1>2 DEF PaymentIntents, Statuses
<1>4. [p.intents EXCEPT ![i] = [p.intents[i] EXCEPT !.status = "Succeeded"]]
         \in Seq(PaymentIntents)
  BY <1>1, <1>3, ProviderFields, ExceptSeq
<1>5. q \in Providers
  BY <1>4, ProviderFields DEF Providers
<1>6. EnsureEvent(q, id, "Succeeded") \in Providers
  BY <1>1, <1>5, EnsureEventType DEF Statuses
<1> QED BY <1>6 DEF Confirm

\* A confirmation keeps every object and its id.
LEMMA ConfirmKeepsIds ==
    ASSUME NEW p \in Providers, NEW id \in IntentIds(p)
    PROVE  Len(Confirm(p, id).intents) = Len(p.intents)
<1> DEFINE i == PositionOf(p, id)
           q == [p EXCEPT !.intents[i].status = "Succeeded"]
<1>1. i \in 1 .. Len(p.intents)
  BY PositionOfKnown
<1>2. /\ q.intents = [p.intents EXCEPT ![i].status = "Succeeded"]
      /\ DOMAIN q.intents = 1 .. Len(p.intents)
  BY <1>1, ProviderFields
<1>3. Len(q.intents) = Len(p.intents)
  BY <1>2, ProviderFields
<1>4. EnsureEvent(q, id, "Succeeded").intents = q.intents
  BY ProviderFields DEF EnsureEvent
<1> QED BY <1>3, <1>4 DEF Confirm

LEMMA ConfirmTypes ==
    ASSUME NEW p \in Providers, NEW id, NEW outcome \in Outcomes,
           id \in IntentIds(p) \/ outcome \in PreExecution
    PROVE  /\ ConfirmEffect(p, id, outcome) \in Providers
           /\ ConfirmResponse(p, id, outcome) \in Responses
<1>1. CASE outcome \in PreExecution
  BY <1>1, PreExecutionResponseType DEF ConfirmEffect, ConfirmResponse
<1>2. CASE outcome \notin PreExecution
  <2>1. Confirm(p, id) \in Providers
    BY <1>2, ConfirmType
  <2>2. PositionOf(p, id) \in 1 .. Len(Confirm(p, id).intents)
    BY <1>2, PositionOfKnown, ConfirmKeepsIds
  <2>3. Confirm(p, id).intents[PositionOf(p, id)] \in PaymentIntents
    BY <2>1, <2>2, ProviderFields, ElementOfSeq
  <2> QED BY <1>2, <2>1, <2>3, ExecutedResponseType DEF ConfirmEffect, ConfirmResponse
<1> QED BY <1>1, <1>2

LEMMA EventSnapshotType ==
    ASSUME NEW p \in Providers, NEW id \in IntentIds(p), NEW status \in Statuses
    PROVE  EventSnapshot(p, id, status) \in Providers
BY PositionOfKnown, ConfirmType, EnsureEventType DEF EventSnapshot

LEMMA ConfirmAllType ==
    ASSUME NEW p \in Providers, NEW order \in CreationOrders(p)
    PROVE  ConfirmAll(p, order) \in Providers
<1> DEFINE intents == [i \in DOMAIN p.intents |-> [p.intents[i] EXCEPT !.status = "Succeeded"]]
           event(j) == [id |-> <<p.seed, Len(p.events) + j>>, kind |-> "Succeeded",
                        intent |-> p.intents[order[j]].id]
           n == Cardinality(Unconfirmed(p))
<1>1. \A i \in 1 .. Len(p.intents) : p.intents[i] \in PaymentIntents
  BY ProviderFields, ElementOfSeq
<1>2. intents \in Seq(PaymentIntents)
  <2>1. \A i \in 1 .. Len(p.intents) :
            [p.intents[i] EXCEPT !.status = "Succeeded"] \in PaymentIntents
    BY <1>1 DEF PaymentIntents, Statuses
  <2>2. [i \in 1 .. Len(p.intents) |-> [p.intents[i] EXCEPT !.status = "Succeeded"]]
           \in Seq(PaymentIntents)
    BY <2>1, ProviderFields, IsASeq
  <2> QED BY <2>2, ProviderFields
<1>3. n \in Nat
  <2>1. Unconfirmed(p) \subseteq 1 .. Len(p.intents)
    BY ProviderFields DEF Unconfirmed
  <2>2. IsFiniteSet(1 .. Len(p.intents))
    <3>1. 1 \in Int /\ Len(p.intents) \in Int
      BY ProviderFields
    <3> QED BY <3>1, FS_Interval
  <2> QED BY <2>1, <2>2, FS_Subset, FS_CardinalityType
<1>4. order \in [1 .. n -> Unconfirmed(p)]
  BY DEF CreationOrders
<1>5. \A j \in 1 .. n : event(j) \in Events
  <2> TAKE j \in 1 .. n
  <2>1. order[j] \in 1 .. Len(p.intents)
    BY <1>4, ProviderFields DEF Unconfirmed
  <2>2. p.intents[order[j]].id \in Ids
    BY <1>1, <2>1 DEF PaymentIntents
  <2>3. <<p.seed, Len(p.events) + j>> \in Ids
    BY <1>3, ProviderFields DEF Ids
  <2> QED BY <2>2, <2>3 DEF Events, Statuses
<1>6. [j \in 1 .. n |-> event(j)] \in Seq(Events)
  BY <1>3, <1>5, IsASeq
<1>7. DOMAIN order = 1 .. n
  BY <1>4
<1>8. p.events \o [j \in DOMAIN order |-> event(j)] \in Seq(Events)
  BY <1>6, <1>7, ProviderFields, ConcatProperties
<1> QED BY <1>2, <1>8, ProviderFields DEF ConfirmAll, Providers

-----------------------------------------------------------------------------
(* The type invariant.                                                       *)

LEMMA EventIdsType ==
    ASSUME TypeOK, NEW e \in EventIds(provider)
    PROVE  e \in Ids
<1>1. PICK i \in DOMAIN provider.events : e = provider.events[i].id
  BY DEF EventIds
<1>2. provider.events[i] \in Events
  BY <1>1, ProviderFields, ElementOfSeq DEF TypeOK
<1> QED BY <1>1, <1>2 DEF Events

LEMMA GatesOfTypes ==
    ASSUME TypeOK
    PROVE  /\ GatesOf(heldRequests) \subseteq Gates
           /\ GatesOf(heldResponses) \subseteq Gates
BY DEF TypeOK, GatesOf, HeldRequests, HeldResponses

LEMMA FreshGateType ==
    ASSUME TypeOK, GateAvailable
    PROVE  nextGate + 1 \in Gates /\ nextGate + 1 \in 0 .. GateLimit
BY FixtureAssumption DEF TypeOK, GateAvailable, Gates

LEMMA DispatchType ==
    ASSUME TypeOK, NEW c \in Callers, NEW disposition, NEW answer \in Answers,
           Dispatch(c, disposition, answer)
    PROVE  /\ answers' \in SUBSET Answers
           /\ heldGates' \in SUBSET Gates
           /\ nextGate' \in 0 .. GateLimit
           /\ calls' \in [Callers -> Calls]
<1>1. CASE UNCHANGED <<heldGates, nextGate, calls>>
  BY <1>1 DEF TypeOK, Dispatch
<1>2. CASE GateAvailable /\ calls' = [calls EXCEPT ![c] =
                 [pc |-> "held", gate |-> nextGate + 1, answer |-> answer]]
           /\ nextGate' = nextGate + 1 /\ heldGates' = heldGates \cup {nextGate + 1}
           /\ UNCHANGED answers
  <2>1. [pc |-> "held", gate |-> nextGate + 1, answer |-> answer] \in Calls
    BY <1>2, FreshGateType DEF Calls
  <2> QED BY <1>2, <2>1, FreshGateType DEF TypeOK
<1> QED BY <1>1, <1>2 DEF Dispatch

LEMMA CreateType ==
    ASSUME TypeOK, NEW c \in Callers, NEW key \in Keys, NEW request \in Requests,
           Create(c, key, request)
    PROVE  TypeOK'
<1> DEFINE outcome == Head(plannedOutcomes)
           answer == [run      |-> run,
                      call     |-> [op |-> "create", key |-> key, request |-> request],
                      executed |-> Cached(provider, key) \/ outcome \notin PreExecution,
                      response |-> CreateResponse(provider, key, request, outcome)]
<1>1. outcome \in Outcomes /\ plannedOutcomes' \in Seq(Outcomes)
  BY HeadTailProperties DEF TypeOK, Create
<1>2. answer \in Answers
  <2>1. CreateResponse(provider, key, request, outcome) \in Responses
    BY <1>1, CreateTypes DEF TypeOK
  <2>2. (Cached(provider, key) \/ outcome \notin PreExecution) \in BOOLEAN
    OBVIOUS
  <2>3. [op |-> "create", key |-> key, request |-> request] \in Requested
    BY DEF Requested
  <2> HIDE DEF outcome
  <2> QED BY <2>1, <2>2, <2>3 DEF TypeOK, Answers
<1>3. CASE UNCHANGED <<provider, heldGates, nextGate, calls, answers>>
  BY <1>1, <1>3 DEF TypeOK, Create, signals
<1>4. CASE /\ provider' = CreateEffect(provider, key, request, outcome)
           /\ Dispatch(c, CreateDisposition(provider, key, outcome), answer)
  <2>1. provider' \in Providers
    BY <1>1, <1>4, CreateTypes DEF TypeOK
  <2>2. /\ answers' \in SUBSET Answers
        /\ heldGates' \in SUBSET Gates
        /\ nextGate' \in 0 .. GateLimit
        /\ calls' \in [Callers -> Calls]
    <3> HIDE DEF answer
    <3> QED BY <1>2, <1>4, DispatchType
  <2> QED BY <1>1, <2>1, <2>2 DEF TypeOK, Create, signals
<1> QED BY <1>3, <1>4 DEF Create

LEMMA ConfirmCallType ==
    ASSUME TypeOK, NEW c \in Callers, NEW id \in Confirmable, ConfirmCall(c, id)
    PROVE  TypeOK'
<1> DEFINE outcome == Head(plannedOutcomes)
           answer == [run      |-> run,
                      call     |-> [op |-> "confirm", id |-> id],
                      executed |-> outcome \notin PreExecution,
                      response |-> ConfirmResponse(provider, id, outcome)]
<1>1. outcome \in Outcomes /\ plannedOutcomes' \in Seq(Outcomes)
  BY HeadTailProperties DEF TypeOK, ConfirmCall
<1>2. CASE UNCHANGED <<provider, heldGates, nextGate, calls, answers>>
  BY <1>1, <1>2 DEF TypeOK, ConfirmCall, signals
<1>3. CASE /\ id \in IntentIds(provider) \/ outcome \in PreExecution
           /\ provider' = ConfirmEffect(provider, id, outcome)
           /\ Dispatch(c, DispositionOf(outcome), answer)
  <2>1. /\ provider' \in Providers
        /\ ConfirmResponse(provider, id, outcome) \in Responses
    BY <1>1, <1>3, ConfirmTypes DEF TypeOK
  <2>2. id \in Ids
    BY ProviderFields DEF TypeOK, Confirmable, Ids
  <2>3. answer \in Answers
    <3>1. [op |-> "confirm", id |-> id] \in Requested
      BY <2>2 DEF Requested
    <3>2. (outcome \notin PreExecution) \in BOOLEAN
      OBVIOUS
    <3> HIDE DEF outcome
    <3> QED BY <2>1, <3>1, <3>2 DEF TypeOK, Answers
  <2>4. /\ answers' \in SUBSET Answers
        /\ heldGates' \in SUBSET Gates
        /\ nextGate' \in 0 .. GateLimit
        /\ calls' \in [Callers -> Calls]
    <3> HIDE DEF answer
    <3> QED BY <1>3, <2>3, DispatchType
  <2> QED BY <1>1, <2>1, <2>4 DEF TypeOK, ConfirmCall, signals
<1> QED BY <1>2, <1>3 DEF ConfirmCall

LEMMA DataPlaneType ==
    ASSUME TypeOK, NEW c \in Callers, DataPlane(c)
    PROVE  TypeOK'
<1>1. ASSUME HeldCallWakes(c)
      PROVE  TypeOK'
  <2>1. calls[c] \in Calls /\ calls[c].pc = "held"
    BY <1>1 DEF TypeOK, HeldCallWakes
  <2>2. calls[c].answer \in Answers
    BY <2>1 DEF Calls
  <2>3. [pc |-> "idle"] \in Calls
    BY DEF Calls
  <2> QED BY <1>1, <2>2, <2>3 DEF TypeOK, HeldCallWakes, managed, signals
<1>2. ASSUME CallerGone(c)
      PROVE  TypeOK'
  <2>1. [pc |-> "idle"] \in Calls
    BY DEF Calls
  <2> QED BY <1>2, <2>1 DEF TypeOK, CallerGone, managed, signals, history
<1> QED BY <1>1, <1>2, CreateType, ConfirmCallType DEF DataPlane

LEMMA CommandType ==
    ASSUME TypeOK, NEW received \in 1 .. CommandLimit, Command(received)
    PROVE  TypeOK'
<1> USE DEF signals, history
<1>0. received \in 0 .. CommandLimit
  BY FixtureAssumption
<1>1. ASSUME NEW seed \in Seeds, NEW outcomes \in Plans, Reset(received, seed, outcomes)
      PROVE  TypeOK'
  <2>1. CancelledByReset \subseteq Gates
    BY GatesOfTypes DEF CancelledByReset, TypeOK
  <2>2. outcomes \in Seq(Outcomes)
    BY FixtureAssumption
  <2>3. provider' \in Providers
    BY <1>1, NewProviderType DEF Reset
  <2> QED BY <1>0, <1>1, <2>1, <2>2, <2>3 DEF TypeOK, Reset, GateSequenceAfterReset
<1>2. ASSUME NEW gate \in Gates, ReleaseGate(received, gate)
      PROVE  TypeOK'
  BY <1>0, <1>2 DEF TypeOK, ReleaseGate
<1>3. ASSUME NEW gate \in Gates, DiscardWebhookRequest(received, gate)
      PROVE  TypeOK'
  BY <1>0, <1>3 DEF TypeOK, DiscardWebhookRequest
<1>4. ASSUME NEW gate \in Gates, DiscardWebhookResponse(received, gate)
      PROVE  TypeOK'
  BY <1>0, <1>4 DEF TypeOK, DiscardWebhookResponse
<1>5. ASSUME ConfirmEvery(received)
      PROVE  TypeOK'
  <2>1. provider' \in Providers
    BY <1>5, ConfirmAllType DEF TypeOK, ConfirmEvery
  <2> QED BY <1>0, <1>5, <2>1 DEF TypeOK, ConfirmEvery
<1>6. ASSUME NEW id \in IntentIds(provider), NEW status \in Statuses,
             GenerateEvent(received, id, status)
      PROVE  TypeOK'
  <2>1. provider' \in Providers
    BY <1>6, EventSnapshotType DEF TypeOK, GenerateEvent
  <2> QED BY <1>0, <1>6, <2>1 DEF TypeOK, GenerateEvent
<1> QED BY <1>1, <1>2, <1>3, <1>4, <1>5, <1>6 DEF Command

LEMMA DeliveryType ==
    ASSUME TypeOK, NEW d \in Deliveries, Delivery(d)
    PROVE  TypeOK'
<1> USE DEF signals, history, managed
<1>0. deliveries[d] \in DeliveryRecords
  BY DEF TypeOK
<1>1. ASSUME NEW received \in 1 .. CommandLimit, NEW event \in EventIds(provider),
             NEW mode \in Modes, DeliverEvent(d, received, event, mode)
      PROVE  TypeOK'
  <2>1. received \in 0 .. CommandLimit /\ received \in Nat
    BY FixtureAssumption
  <2>2. [NewDelivery EXCEPT
             !.pc = IF mode = "Request" THEN "signed" ELSE "sent",
             !.app = IF mode = "Request" THEN "none" ELSE "inflight",
             !.mode = mode, !.event = event, !.command = received] \in DeliveryRecords
    BY <2>1, EventIdsType DEF NewDelivery, DeliveryRecords, DeliveryStates, IngressStates
  <2> QED BY <1>1, <2>1, <2>2 DEF TypeOK, DeliverEvent
<1>2. ASSUME PrepareWebhookRequestGate(d)
      PROVE  TypeOK'
  <2> DEFINE capability == [seed |-> provider.seed, gate |-> nextGate + 1,
                            command |-> commandSequence, event |-> deliveries[d].event]
  <2>1. CASE UNCHANGED <<nextGate, heldRequests>>
                /\ deliveries' = [deliveries EXCEPT ![d].pc = "finished"]
    BY <1>0, <1>2, <2>1 DEF TypeOK, PrepareWebhookRequestGate, DeliveryRecords, DeliveryStates
  <2>2. CASE /\ deliveries[d].event \in EventIds(provider)
             /\ GateAvailable
             /\ nextGate' = nextGate + 1
             /\ heldRequests' = {[gate |-> nextGate + 1, capability |-> capability,
                                  forwarded |-> FALSE]}
             /\ deliveries' = [deliveries EXCEPT
                   ![d].pc = "sent", ![d].app = "inflight",
                   ![d].gate = nextGate + 1, ![d].capability = capability]
    <3>1. capability \in Capabilities
      <4>1. commandSequence \in Nat /\ provider.seed \in Seeds
        BY FixtureAssumption, ProviderFields DEF TypeOK
      <4> QED BY <2>2, <4>1, EventIdsType, FreshGateType DEF Capabilities
    <3> HIDE DEF capability
    <3>2. [gate |-> nextGate + 1, capability |-> capability, forwarded |-> FALSE]
             \in HeldRequests
      BY <2>2, <3>1, FreshGateType DEF HeldRequests
    <3>3. deliveries' \in [Deliveries -> DeliveryRecords]
      BY <1>0, <2>2, <3>1, FreshGateType
         DEF TypeOK, DeliveryRecords, DeliveryStates, IngressStates
    <3> QED BY <1>2, <2>2, <3>2, <3>3, FreshGateType DEF TypeOK, PrepareWebhookRequestGate
  <2> QED BY <1>2, <2>1, <2>2 DEF PrepareWebhookRequestGate
<1>3. ASSUME AbortUnforwarded(d)
      PROVE  heldRequests' \in SUBSET HeldRequests /\ cancelled' \in SUBSET Gates
  BY <1>3 DEF TypeOK, AbortUnforwarded, Abortable, GatesOf, HeldRequests
<1>4. ASSUME DeliveryAnswered(d)
      PROVE  TypeOK'
  <2>1. deliveries' \in [Deliveries -> DeliveryRecords]
    BY <1>0, <1>4 DEF TypeOK, DeliveryAnswered, DeliveryRecords, DeliveryStates
  <2> QED BY <1>3, <1>4, <2>1 DEF TypeOK, DeliveryAnswered
<1>5. ASSUME DeliveryFails(d)
      PROVE  TypeOK'
  <2>1. deliveries' \in [Deliveries -> DeliveryRecords]
    BY <1>0, <1>5 DEF TypeOK, DeliveryFails, DeliveryRecords, DeliveryStates
  <2> QED BY <1>3, <1>5, <2>1 DEF TypeOK, DeliveryFails
<1>6. ASSUME HoldWebhookResponse(d)
      PROVE  TypeOK'
  <2>1. CASE /\ ResponseHoldable(deliveries[d].event)
             /\ nextGate' = nextGate + 1
             /\ heldResponses' = heldResponses \cup
                   {[gate |-> nextGate + 1, event |-> deliveries[d].event]}
             /\ deliveries' = [deliveries EXCEPT ![d].pc = "holding",
                                                 ![d].gate = nextGate + 1]
    <3>1. GateAvailable /\ deliveries[d].event \in Ids
      BY <2>1, EventIdsType DEF ResponseHoldable
    <3>2. heldResponses' \in SUBSET HeldResponses
      BY <2>1, <3>1, FreshGateType DEF TypeOK, HeldResponses
    <3>3. deliveries' \in [Deliveries -> DeliveryRecords]
      BY <1>0, <2>1, <3>1, FreshGateType DEF TypeOK, DeliveryRecords, DeliveryStates
    <3> QED BY <1>6, <2>1, <3>1, <3>2, <3>3, FreshGateType DEF TypeOK, HoldWebhookResponse
  <2>2. CASE /\ deliveries' = [deliveries EXCEPT ![d].pc = "finished"]
             /\ UNCHANGED <<nextGate, heldResponses>>
    BY <1>0, <1>6, <2>2 DEF TypeOK, HoldWebhookResponse, DeliveryRecords, DeliveryStates
  <2> QED BY <1>6, <2>1, <2>2 DEF HoldWebhookResponse
<1>7. ASSUME HeldResponseWakes(d)
      PROVE  TypeOK'
  BY <1>0, <1>7 DEF TypeOK, HeldResponseWakes, DeliveryRecords, DeliveryStates
<1>8. ASSUME ControlClientGone(d)
      PROVE  TypeOK'
  BY <1>0, <1>8 DEF TypeOK, ControlClientGone, DeliveryRecords, DeliveryStates
<1> QED BY <1>1, <1>2, <1>4, <1>5, <1>6, <1>7, <1>8 DEF Delivery

LEMMA IngressType ==
    ASSUME TypeOK, NEW d \in Deliveries, Ingress(d)
    PROVE  TypeOK'
<1> USE DEF signals, history, managed
<1>0. deliveries[d] \in DeliveryRecords
  BY DEF TypeOK
<1>1. ASSUME NEW state \in IngressStates, SetApp(d, state)
      PROVE  deliveries' \in [Deliveries -> DeliveryRecords]
  BY <1>0, <1>1 DEF TypeOK, SetApp, DeliveryRecords
<1>2. ASSUME AppReceives(d) \/ AppPersists(d) \/ AppCallbackWakes(d)
      PROVE  TypeOK'
  <2>1. deliveries' \in [Deliveries -> DeliveryRecords]
    BY <1>1, <1>2 DEF AppReceives, AppPersists, AppCallbackWakes, IngressStates
  <2> QED BY <1>2, <2>1 DEF TypeOK, AppReceives, AppPersists, AppCallbackWakes
<1>3. ASSUME AppCallsBack(d)
      PROVE  TypeOK'
  <2>1. CASE SetApp(d, "refused") /\ UNCHANGED heldRequests
    <3>1. deliveries' \in [Deliveries -> DeliveryRecords]
      BY <1>1, <2>1 DEF IngressStates
    <3> QED BY <1>3, <2>1, <3>1 DEF TypeOK, AppCallsBack
  <2>2. ASSUME NEW h \in heldRequests,
               heldRequests' = (heldRequests \ {h}) \cup {[h EXCEPT !.forwarded = TRUE]},
               deliveries' = [deliveries EXCEPT ![d].app = "waiting", ![d].admitted = TRUE]
        PROVE  TypeOK'
    <3>1. deliveries' \in [Deliveries -> DeliveryRecords]
      BY <1>0, <2>2 DEF TypeOK, DeliveryRecords, IngressStates
    <3>2. h \in HeldRequests
      BY DEF TypeOK
    <3>3. [h EXCEPT !.forwarded = TRUE] \in HeldRequests
      BY <3>2 DEF HeldRequests
    <3>4. heldRequests' \in SUBSET HeldRequests
      BY <2>2, <3>3 DEF TypeOK
    <3> QED BY <1>3, <3>1, <3>4 DEF TypeOK, AppCallsBack
  <2> QED BY <1>3, <2>1, <2>2 DEF AppCallsBack
<1> QED BY <1>2, <1>3 DEF Ingress

LEMMA AppKilledType ==
    ASSUME TypeOK, AppKilled
    PROVE  TypeOK'
<1>1. \A d \in Deliveries : [deliveries[d] EXCEPT !.app = "dead"] \in DeliveryRecords
  BY DEF TypeOK, DeliveryRecords, IngressStates
<1>2. deliveries' \in [Deliveries -> DeliveryRecords]
  BY <1>1 DEF TypeOK, AppKilled
<1> QED BY <1>2 DEF TypeOK, AppKilled, managed, signals, history

LEMMA InitType == Init => TypeOK
<1> SUFFICES ASSUME Init PROVE TypeOK
  OBVIOUS
<1>1. provider \in Providers
  BY FixtureAssumption, NewProviderType DEF Init
<1>2. [pc |-> "idle"] \in Calls
  BY DEF Calls
<1>3. NewDelivery \in DeliveryRecords
  BY DEF NewDelivery, DeliveryRecords, DeliveryStates, IngressStates, Modes
<1>4. plannedOutcomes \in Seq(Outcomes)
  BY EmptySeq DEF Init
<1>5. nextGate \in 0 .. GateLimit /\ commandSequence \in 0 .. CommandLimit
  BY FixtureAssumption DEF Init
<1> QED BY <1>1, <1>2, <1>3, <1>4, <1>5 DEF Init, TypeOK

LEMMA NextType == TypeOK /\ [Next]_vars => TypeOK'
<1> SUFFICES ASSUME TypeOK, [Next]_vars PROVE TypeOK'
  OBVIOUS
<1>1. CASE UNCHANGED vars
  BY <1>1 DEF TypeOK, vars
<1> QED BY <1>1, DataPlaneType, CommandType, DeliveryType, IngressType, AppKilledType
        DEF Next

\* Every reachable state of the fixture is well typed: gate ids stay within the
\* gate sequence, command numbers within the command sequence, and the provider
\* within the states PaymentIntentFixture can be in.
THEOREM TypeSafety == Spec => []TypeOK
BY InitType, NextType, PTL DEF Spec

-----------------------------------------------------------------------------
(* Gates.  The inductive invariant says which numbers a gate can be found    *)
(* under: gates are numbered without reuse, a data-plane gate never belongs  *)
(* to a delivery, and a handler that waits on a pending gate is in the map   *)
(* of its kind.                                                              *)

Used == 1 .. nextGate

\* Every gate anybody knows was allocated.
GatesAllocated ==
    /\ heldGates \cup GatesOf(heldRequests) \cup GatesOf(heldResponses) \cup Stored
          \subseteq Used
    /\ \A c \in Callers : calls[c].pc = "held" => calls[c].gate \in Used
    /\ \A d \in Deliveries : deliveries[d].gate # NoValue => deliveries[d].gate \in Used

\* A gate has one waiter, and data-plane gates are never a delivery's.
GatesOwned ==
    /\ \A c, e \in Callers :
          calls[c].pc = "held" /\ calls[e].pc = "held" /\ calls[c].gate = calls[e].gate
             => c = e
    /\ \A d, e \in Deliveries :
          deliveries[d].gate = deliveries[e].gate /\ deliveries[d].gate # NoValue => d = e
    /\ \A d \in Deliveries :
          /\ deliveries[d].gate \notin heldGates \cup released
          /\ \A c \in Callers : calls[c].pc = "held" => calls[c].gate # deliveries[d].gate

\* Gates in a map are pending, and the three maps share none.
GatesPending ==
    /\ (heldGates \cup GatesOf(heldRequests) \cup GatesOf(heldResponses)) \cap Stored = {}
    /\ heldGates \cap (GatesOf(heldRequests) \cup GatesOf(heldResponses)) = {}
    /\ GatesOf(heldRequests) \cap GatesOf(heldResponses) = {}
    /\ \A h, k \in heldRequests : h = k
    /\ \A h, k \in heldResponses : h = k

\* What a delivery knows about its own gate.
DeliveryKnows ==
    /\ \A d \in Deliveries :
          /\ deliveries[d].pc \in {"idle", "signed"}
                => deliveries[d].gate = NoValue /\ deliveries[d].app = "none"
          /\ deliveries[d].pc = "answered" => deliveries[d].gate = NoValue
          /\ deliveries[d].pc = "sent" /\ deliveries[d].mode # "Request"
                => deliveries[d].gate = NoValue
          /\ deliveries[d].pc \in {"answered", "holding"} => deliveries[d].mode = "Response"
          /\ deliveries[d].pc = "signed" => deliveries[d].mode = "Request"
          /\ deliveries[d].mode = "Request" /\ deliveries[d].app # "none" =>
                /\ deliveries[d].gate # NoValue
                /\ deliveries[d].capability.gate = deliveries[d].gate
          /\ deliveries[d].app = "waiting" => deliveries[d].mode = "Request"
          /\ deliveries[d].pc = "holding" => deliveries[d].gate # NoValue
          /\ deliveries[d].pc = "sent" /\ deliveries[d].mode = "Request"
                => deliveries[d].app # "none"
          /\ deliveries[d].mode = "None" /\ deliveries[d].gate # NoValue => FALSE
          /\ deliveries[d].admitted
                => /\ deliveries[d].mode = "Request"
                   /\ deliveries[d].app \in {"waiting", "refused", "dead"}
    /\ \A h \in heldRequests :
          /\ h.capability.gate = h.gate
          /\ \A d \in Deliveries : deliveries[d].gate = h.gate =>
                deliveries[d].mode = "Request" /\ deliveries[d].capability = h.capability
    /\ \A h \in heldResponses, d \in Deliveries :
          deliveries[d].gate = h.gate => deliveries[d].mode = "Response"

\* A waiter on a pending gate is still in its map.
WaitersReachable ==
    /\ \A c \in Callers :
          calls[c].pc = "held" /\ calls[c].gate \notin Stored => calls[c].gate \in heldGates
    /\ \A d \in Deliveries :
          /\ deliveries[d].pc = "holding" /\ deliveries[d].gate \notin Stored
                => deliveries[d].gate \in GatesOf(heldResponses)
          /\ deliveries[d].app = "waiting" /\ deliveries[d].gate \notin Stored
                => \E h \in heldRequests : h.gate = deliveries[d].gate /\ h.forwarded

GateInv == GatesAllocated /\ GatesOwned /\ GatesPending /\ DeliveryKnows /\ WaitersReachable

LEMMA InitGates == Init => GateInv
BY DEF Init, NewDelivery, GateInv, GatesAllocated, GatesOwned, GatesPending, DeliveryKnows,
       WaitersReachable, GatesOf, Stored, Used

\* What a step that allocates a gate may rely on.
LEMMA FreshGate ==
    ASSUME TypeOK, GateInv
    PROVE  /\ nextGate \in Nat /\ nextGate + 1 \in Nat /\ nextGate + 1 # NoValue
           /\ nextGate + 1 \notin Used
           /\ Used \subseteq 1 .. nextGate + 1
           /\ nextGate + 1 \in 1 .. nextGate + 1
BY FixtureAssumption DEF TypeOK, Used

LEMMA DispatchGates ==
    ASSUME TypeOK, GateInv, NEW c \in Callers, calls[c].pc = "idle",
           NEW disposition, NEW answer,
           Dispatch(c, disposition, answer),
           UNCHANGED <<heldRequests, heldResponses, signals, deliveries>>
    PROVE  GateInv'
<1> USE DEF signals, Stored
<1>1. CASE UNCHANGED <<heldGates, nextGate, calls>>
  BY <1>1 DEF GateInv, GatesAllocated, GatesOwned, GatesPending, DeliveryKnows,
              WaitersReachable, GatesOf, Used
<1>2. CASE /\ nextGate' = nextGate + 1
           /\ heldGates' = heldGates \cup {nextGate + 1}
           /\ calls' = [calls EXCEPT ![c] =
                 [pc |-> "held", gate |-> nextGate + 1, answer |-> answer]]
  <2>0. /\ \A e \in Callers \ {c} : calls'[e] = calls[e]
        /\ calls'[c].pc = "held" /\ calls'[c].gate = nextGate + 1
        /\ Used' = 1 .. nextGate + 1
    BY <1>2 DEF TypeOK, Used
  <2>1. GatesAllocated'
    BY <1>2, <2>0, FreshGate DEF GateInv, GatesAllocated, GatesOf
  <2>2. GatesOwned'
    BY <1>2, <2>0, FreshGate DEF GateInv, GatesAllocated, GatesOwned
  <2>3. GatesPending'
    <3>1. nextGate + 1 \notin GatesOf(heldRequests) \cup GatesOf(heldResponses)
                                \cup released \cup cancelled
      BY FreshGate DEF GateInv, GatesAllocated
    <3>2. /\ GatesOf(heldRequests)' = GatesOf(heldRequests)
          /\ GatesOf(heldResponses)' = GatesOf(heldResponses)
      BY DEF GatesOf
    <3> QED BY <1>2, <3>1, <3>2 DEF GateInv, GatesPending
  <2>4. DeliveryKnows'
    BY <1>2 DEF GateInv, DeliveryKnows
  <2>5. WaitersReachable'
    BY <1>2, <2>0 DEF GateInv, WaitersReachable, GatesOf
  <2> QED BY <2>1, <2>2, <2>3, <2>4, <2>5 DEF GateInv
<1> QED BY <1>1, <1>2 DEF Dispatch

LEMMA DataPlaneGates ==
    ASSUME TypeOK, GateInv, NEW c \in Callers, DataPlane(c)
    PROVE  GateInv'
<1> USE DEF signals, history, managed, Stored
<1>1. ASSUME UNCHANGED <<heldGates, nextGate, calls, heldRequests, heldResponses,
                         signals, deliveries>>
      PROVE  GateInv'
  BY <1>1 DEF GateInv, GatesAllocated, GatesOwned, GatesPending, DeliveryKnows,
              WaitersReachable, GatesOf, Used
<1>2. ASSUME NEW key \in Keys, NEW request \in Requests, Create(c, key, request)
      PROVE  GateInv'
  BY <1>1, <1>2, DispatchGates DEF Create
<1>3. ASSUME NEW id \in Confirmable, ConfirmCall(c, id)
      PROVE  GateInv'
  BY <1>1, <1>3, DispatchGates DEF ConfirmCall
<1>4. ASSUME calls' = [calls EXCEPT ![c] = [pc |-> "idle"]],
             UNCHANGED <<heldGates, nextGate, heldRequests, heldResponses,
                         signals, deliveries>>
      PROVE  GateInv'
  <2>1. /\ \A e \in Callers \ {c} : calls'[e] = calls[e]
        /\ calls'[c].pc # "held"
    BY <1>4 DEF TypeOK
  <2>2. GatesAllocated'
    BY <1>4, <2>1 DEF GateInv, GatesAllocated, GatesOf, Used
  <2>3. GatesOwned'
    BY <1>4, <2>1 DEF GateInv, GatesOwned
  <2>4. GatesPending' /\ DeliveryKnows'
    BY <1>4 DEF GateInv, GatesPending, DeliveryKnows, GatesOf
  <2>5. WaitersReachable'
    BY <1>4, <2>1 DEF GateInv, WaitersReachable, GatesOf
  <2> QED BY <2>2, <2>3, <2>4, <2>5 DEF GateInv
<1>5. ASSUME HeldCallWakes(c) \/ CallerGone(c)
      PROVE  GateInv'
  BY <1>4, <1>5 DEF HeldCallWakes, CallerGone
<1> QED BY <1>2, <1>3, <1>5 DEF DataPlane

LEMMA CommandGates ==
    ASSUME TypeOK, GateInv, NEW received \in 1 .. CommandLimit, Command(received)
    PROVE  GateInv'
<1> USE DEF signals, history, Stored
<1>1. ASSUME NEW seed \in Seeds, NEW outcomes \in Plans, Reset(received, seed, outcomes)
      PROVE  GateInv'
  <2> USE <1>1 DEF Reset, GateInv, GateSequenceAfterReset, CancelledByReset, GatesOf
  <2>1. GatesAllocated'
    BY DEF GatesAllocated, Used
  <2>2. GatesOwned'
    BY DEF GatesOwned
  <2>3. GatesPending'
    BY DEF GatesPending
  <2>4. DeliveryKnows'
    BY DEF DeliveryKnows
  <2>5. WaitersReachable'
    BY DEF WaitersReachable
  <2> QED BY <2>1, <2>2, <2>3, <2>4, <2>5
<1>2. ASSUME NEW gate \in Gates, ReleaseGate(received, gate)
      PROVE  GateInv'
  <2> USE <1>2 DEF ReleaseGate, Releasable, GateInv, GatesOf
  <2>1. GatesAllocated'
    BY DEF GatesAllocated, Used
  <2>2. GatesOwned'
    BY DEF GatesOwned
  <2>3. GatesPending'
    BY DEF GatesPending
  <2>4. DeliveryKnows'
    BY DEF DeliveryKnows
  <2>5. WaitersReachable'
    BY DEF WaitersReachable
  <2> QED BY <2>1, <2>2, <2>3, <2>4, <2>5
<1>3. ASSUME NEW gate \in Gates, DiscardWebhookRequest(received, gate)
      PROVE  GateInv'
  <2> USE <1>3 DEF DiscardWebhookRequest, GateInv, GatesOf
  <2>1. GatesAllocated'
    BY DEF GatesAllocated, Used
  <2>2. GatesOwned'
    BY DEF GatesOwned
  <2>3. GatesPending'
    BY DEF GatesPending
  <2>4. DeliveryKnows'
    BY DEF DeliveryKnows
  <2>5. WaitersReachable'
    BY DEF WaitersReachable
  <2> QED BY <2>1, <2>2, <2>3, <2>4, <2>5
<1>4. ASSUME NEW gate \in Gates, DiscardWebhookResponse(received, gate)
      PROVE  GateInv'
  <2> USE <1>4 DEF DiscardWebhookResponse, GateInv, GatesOf
  <2>1. GatesAllocated'
    BY DEF GatesAllocated, Used
  <2>2. GatesOwned'
    BY DEF GatesOwned
  <2>3. GatesPending'
    BY DEF GatesPending
  <2>4. DeliveryKnows'
    BY DEF DeliveryKnows
  <2>5. WaitersReachable'
    BY DEF WaitersReachable
  <2> QED BY <2>1, <2>2, <2>3, <2>4, <2>5
<1>5. ASSUME UNCHANGED <<heldGates, heldRequests, heldResponses, nextGate, signals,
                         calls, deliveries>>
      PROVE  GateInv'
  BY <1>5 DEF GateInv, GatesAllocated, GatesOwned, GatesPending, DeliveryKnows,
              WaitersReachable, GatesOf, Used
<1> QED BY <1>1, <1>2, <1>3, <1>4, <1>5 DEF Command, ConfirmEvery, GenerateEvent

LEMMA DeliveryGates ==
    ASSUME TypeOK, GateInv, NEW d \in Deliveries, Delivery(d)
    PROVE  GateInv'
<1> USE DEF signals, history, managed, Stored
<1>0. /\ deliveries[d] \in DeliveryRecords
      /\ DOMAIN deliveries = Deliveries
  BY DEF TypeOK
<1>1. ASSUME NEW received \in 1 .. CommandLimit, NEW event \in EventIds(provider),
             NEW mode \in Modes, DeliverEvent(d, received, event, mode)
      PROVE  GateInv'
  <2>1. /\ \A e \in Deliveries \ {d} : deliveries'[e] = deliveries[e]
        /\ deliveries'[d].pc \in {"signed", "sent"}
        /\ deliveries'[d].pc = IF mode = "Request" THEN "signed" ELSE "sent"
        /\ deliveries'[d].mode = mode
        /\ deliveries'[d].app = IF mode = "Request" THEN "none" ELSE "inflight"
        /\ deliveries'[d].gate = NoValue /\ deliveries'[d].admitted = FALSE
    BY <1>0, <1>1 DEF DeliverEvent, NewDelivery
  <2>2. deliveries[d].gate = NoValue
    BY <1>1 DEF DeliverEvent, GateInv, DeliveryKnows
  <2> USE <1>1, <2>1, <2>2 DEF DeliverEvent, GateInv, GatesOf
  <2>3. GatesAllocated'
    BY DEF GatesAllocated, Used
  <2>4. GatesOwned'
    BY DEF GatesOwned
  <2>5. GatesPending'
    BY DEF GatesPending
  <2>6. DeliveryKnows'
    <3>1. \A h \in heldRequests \cup heldResponses : h.gate # NoValue
      BY FixtureAssumption DEF TypeOK, HeldRequests, HeldResponses, Gates
    <3> QED BY <3>1 DEF DeliveryKnows
  <2>7. WaitersReachable'
    BY DEF WaitersReachable
  <2> QED BY <2>3, <2>4, <2>5, <2>6, <2>7
\* A delivery that only finishes: nothing it owned is taken from a map.
<1>2. ASSUME UNCHANGED <<heldGates, heldRequests, heldResponses, nextGate, signals, calls>>,
             deliveries[d].pc # "idle" /\ deliveries[d].pc # "finished",
             \A e \in Deliveries \ {d} : deliveries'[e] = deliveries[e],
             deliveries'[d].pc = "finished",
             deliveries'[d].app = deliveries[d].app,
             deliveries'[d].gate = deliveries[d].gate,
             deliveries'[d].mode = deliveries[d].mode,
             deliveries'[d].capability = deliveries[d].capability,
             deliveries'[d].admitted = deliveries[d].admitted
      PROVE  GateInv'
  <2> USE <1>2 DEF GateInv, GatesOf
  <2>1. GatesAllocated'
    BY DEF GatesAllocated, Used
  <2>2. GatesOwned'
    BY DEF GatesOwned
  <2>3. GatesPending'
    BY DEF GatesPending
  <2>4. DeliveryKnows'
    BY DEF DeliveryKnows
  <2>5. WaitersReachable'
    BY DEF WaitersReachable
  <2> QED BY <2>1, <2>2, <2>3, <2>4, <2>5
<1>3. ASSUME PrepareWebhookRequestGate(d)
      PROVE  GateInv'
  <2> DEFINE g == nextGate + 1
             capability == [seed |-> provider.seed, gate |-> g,
                            command |-> commandSequence, event |-> deliveries[d].event]
  <2>1. CASE /\ UNCHANGED <<nextGate, heldRequests>>
             /\ deliveries' = [deliveries EXCEPT ![d].pc = "finished"]
    BY <1>0, <1>2, <1>3, <2>1 DEF PrepareWebhookRequestGate, DeliveryRecords
  <2>2. CASE /\ heldRequests = {}
             /\ nextGate' = g
             /\ heldRequests' = {[gate |-> g, capability |-> capability, forwarded |-> FALSE]}
             /\ deliveries' = [deliveries EXCEPT
                   ![d].pc = "sent", ![d].app = "inflight",
                   ![d].gate = g, ![d].capability = capability]
    <3>1. /\ \A e \in Deliveries \ {d} : deliveries'[e] = deliveries[e]
          /\ deliveries'[d].pc = "sent" /\ deliveries'[d].app = "inflight"
          /\ deliveries'[d].gate = g /\ deliveries'[d].capability = capability
          /\ deliveries'[d].mode = deliveries[d].mode
          /\ deliveries'[d].admitted = deliveries[d].admitted
      BY <1>0, <2>2 DEF DeliveryRecords
    <3>2. /\ deliveries[d].gate = NoValue /\ deliveries[d].app = "none"
          /\ ~deliveries[d].admitted
      BY <1>0, <1>3 DEF PrepareWebhookRequestGate, GateInv, DeliveryKnows, DeliveryRecords
    <3>3. capability.gate = g
      OBVIOUS
    <3>4. heldRequests' = {[gate |-> g, capability |-> capability, forwarded |-> FALSE]}
      BY <2>2
    <3> HIDE DEF capability, g
    <3>5. g \in Nat /\ g # NoValue /\ g \notin Used /\ Used' = 1 .. g
          /\ Used \subseteq 1 .. g /\ g \in 1 .. g
      BY <2>2, FreshGate DEF Used, g
    <3>6. /\ GatesOf(heldRequests)' = {g} /\ GatesOf(heldRequests) = {}
          /\ GatesOf(heldResponses)' = GatesOf(heldResponses)
          /\ UNCHANGED <<heldGates, heldResponses, released, cancelled, calls>>
      BY <1>3, <2>2, <3>4 DEF PrepareWebhookRequestGate, GatesOf
    <3>7. \A h \in heldRequests' : h.gate = g /\ h.capability = capability /\ ~h.forwarded
      BY <3>4
    <3> USE <3>1, <3>2, <3>5, <3>6 DEF GateInv, GatesAllocated
    <3>8. GatesAllocated'
      OBVIOUS
    <3>9. GatesOwned'
      BY DEF GatesOwned
    <3>10. GatesPending'
      BY <3>4 DEF GatesPending
    <3>11. DeliveryKnows'
      <4>1. deliveries[d].mode = "Request"
        BY <1>3 DEF PrepareWebhookRequestGate, DeliveryKnows
      <4> QED BY <3>3, <3>7, <4>1 DEF DeliveryKnows, GatesOf
    <3>12. WaitersReachable'
      <4>1. \A e \in Deliveries : deliveries'[e].app = "waiting" => deliveries[e].gate \in Stored
        BY <2>2 DEF WaitersReachable
      <4> QED BY <4>1 DEF WaitersReachable
    <3> QED BY <3>8, <3>9, <3>10, <3>11, <3>12
  <2> QED BY <1>3, <2>1, <2>2 DEF PrepareWebhookRequestGate
<1>4. ASSUME AbortUnforwarded(d),
             UNCHANGED <<heldGates, heldResponses, nextGate, released, calls>>,
             deliveries[d].pc = "sent",
             \A e \in Deliveries \ {d} : deliveries'[e] = deliveries[e],
             deliveries'[d].pc \in {"answered", "finished"},
             deliveries'[d].pc = "answered" => deliveries[d].mode = "Response",
             deliveries'[d].app = deliveries[d].app,
             deliveries'[d].gate = deliveries[d].gate,
             deliveries'[d].mode = deliveries[d].mode,
             deliveries'[d].capability = deliveries[d].capability,
             deliveries'[d].admitted = deliveries[d].admitted
      PROVE  GateInv'
  <2>1. /\ heldRequests' \subseteq heldRequests
        /\ \A h \in heldRequests \ heldRequests' : ~h.forwarded /\ h.gate \in cancelled'
        /\ \A g \in cancelled' \ cancelled :
              \E h \in heldRequests \ heldRequests' : h.gate = g
        /\ cancelled \subseteq cancelled'
    BY <1>4 DEF AbortUnforwarded, Abortable, GatesOf
  <2>2. deliveries[d].mode # "Request" => deliveries[d].gate = NoValue
    BY <1>4 DEF GateInv, DeliveryKnows
  <2> USE <1>4, <2>1, <2>2 DEF GateInv, GatesOf
  <2>3. GatesAllocated'
    BY DEF GatesAllocated, Used
  <2>4. GatesOwned'
    BY DEF GatesOwned
  <2>5. GatesPending'
    BY DEF GatesPending
  <2>6. DeliveryKnows'
    BY DEF DeliveryKnows
  <2>7. WaitersReachable'
    BY DEF WaitersReachable, GatesPending
  <2> QED BY <2>3, <2>4, <2>5, <2>6, <2>7
<1>5. ASSUME DeliveryAnswered(d) \/ DeliveryFails(d)
      PROVE  GateInv'
  BY <1>0, <1>4, <1>5 DEF DeliveryAnswered, DeliveryFails, DeliveryRecords
<1>6. ASSUME HoldWebhookResponse(d)
      PROVE  GateInv'
  <2> DEFINE g == nextGate + 1
  <2>1. CASE /\ UNCHANGED <<nextGate, heldResponses>>
             /\ deliveries' = [deliveries EXCEPT ![d].pc = "finished"]
    BY <1>0, <1>2, <1>6, <2>1 DEF HoldWebhookResponse, DeliveryRecords
  <2>2. CASE /\ ResponseHoldable(deliveries[d].event)
             /\ nextGate' = g
             /\ heldResponses' = heldResponses \cup {[gate |-> g, event |-> deliveries[d].event]}
             /\ deliveries' = [deliveries EXCEPT ![d].pc = "holding", ![d].gate = g]
    <3>1. /\ \A e \in Deliveries \ {d} : deliveries'[e] = deliveries[e]
          /\ deliveries'[d].pc = "holding" /\ deliveries'[d].gate = g
          /\ deliveries'[d].app = deliveries[d].app
          /\ deliveries'[d].mode = deliveries[d].mode
          /\ deliveries'[d].admitted = deliveries[d].admitted
      BY <1>0, <2>2 DEF DeliveryRecords
    <3>2. /\ deliveries[d].gate = NoValue
          /\ deliveries[d].mode = "Response"
          /\ deliveries[d].app # "waiting"
          /\ ~deliveries[d].admitted
      BY <1>0, <1>6 DEF HoldWebhookResponse, GateInv, DeliveryKnows, DeliveryRecords
    <3>3. /\ heldResponses = {}
          /\ heldResponses' = {[gate |-> g, event |-> deliveries[d].event]}
      BY <2>2 DEF ResponseHoldable
    <3> HIDE DEF g
    <3>4. g \in Nat /\ g # NoValue /\ g \notin Used /\ Used' = 1 .. g
          /\ Used \subseteq 1 .. g /\ g \in 1 .. g
      BY <2>2, FreshGate DEF Used, g
    <3>5. /\ GatesOf(heldResponses)' = {g} /\ GatesOf(heldResponses) = {}
          /\ GatesOf(heldRequests)' = GatesOf(heldRequests)
          /\ UNCHANGED <<heldGates, heldRequests, released, cancelled, calls>>
      BY <1>6, <3>3 DEF HoldWebhookResponse, GatesOf
    <3> USE <3>1, <3>2, <3>4, <3>5 DEF GateInv, GatesAllocated
    <3>6. GatesAllocated'
      OBVIOUS
    <3>7. GatesOwned'
      BY DEF GatesOwned
    <3>8. GatesPending'
      BY <3>3 DEF GatesPending
    <3>9. DeliveryKnows'
      <4>1. \A h \in heldRequests : h.gate \in Used
        BY DEF GatesOf
      <4> QED BY <3>3, <4>1 DEF DeliveryKnows
    <3>10. WaitersReachable'
      BY DEF WaitersReachable
    <3> QED BY <3>6, <3>7, <3>8, <3>9, <3>10
  <2> QED BY <1>6, <2>1, <2>2 DEF HoldWebhookResponse
<1>7. ASSUME HeldResponseWakes(d) \/ ControlClientGone(d)
      PROVE  GateInv'
  BY <1>0, <1>2, <1>7 DEF HeldResponseWakes, ControlClientGone, DeliveryRecords
<1> QED BY <1>1, <1>3, <1>5, <1>6, <1>7 DEF Delivery

LEMMA IngressGates ==
    ASSUME TypeOK, GateInv, NEW d \in Deliveries, Ingress(d)
    PROVE  GateInv'
<1> USE DEF signals, history, managed, Stored
<1>0. /\ deliveries[d] \in DeliveryRecords
      /\ DOMAIN deliveries = Deliveries
  BY DEF TypeOK
\* Only the application's side of d changes, and it was not admitted before.
<1>1. ASSUME NEW state, UNCHANGED <<heldGates, heldRequests, heldResponses, nextGate,
                                    signals, calls>>,
             SetApp(d, state),
             state # "none" /\ state # "waiting",
             deliveries[d].app # "none",
             deliveries[d].admitted => state \in {"refused", "dead"}
      PROVE  GateInv'
  <2>1. /\ \A e \in Deliveries \ {d} : deliveries'[e] = deliveries[e]
        /\ deliveries'[d].app = state
        /\ deliveries'[d].pc = deliveries[d].pc
        /\ deliveries'[d].gate = deliveries[d].gate
        /\ deliveries'[d].mode = deliveries[d].mode
        /\ deliveries'[d].capability = deliveries[d].capability
        /\ deliveries'[d].admitted = deliveries[d].admitted
    BY <1>0, <1>1 DEF SetApp, DeliveryRecords
  <2> USE <1>1, <2>1 DEF GateInv, GatesOf
  <2>2. GatesAllocated'
    BY DEF GatesAllocated, Used
  <2>3. GatesOwned'
    BY DEF GatesOwned
  <2>4. GatesPending'
    BY DEF GatesPending
  <2>5. DeliveryKnows'
    BY DEF DeliveryKnows
  <2>6. WaitersReachable'
    BY DEF WaitersReachable
  <2> QED BY <2>2, <2>3, <2>4, <2>5, <2>6
<1>2. ASSUME AppReceives(d) \/ AppPersists(d)
      PROVE  GateInv'
  <2>1. ~deliveries[d].admitted
    BY <1>0, <1>2 DEF AppReceives, AppPersists, GateInv, DeliveryKnows, DeliveryRecords
  <2> QED BY <1>1, <1>2, <2>1 DEF AppReceives, AppPersists
\* The signal that wakes a callback was never a release.
<1>3. ASSUME AppCallbackWakes(d)
      PROVE  GateInv'
  <2>1. deliveries[d].gate \in cancelled
    BY <1>3 DEF AppCallbackWakes, Signalled, GateInv, GatesOwned
  <2> QED BY <1>1, <1>3, <2>1 DEF AppCallbackWakes
<1>4. ASSUME AppCallsBack(d)
      PROVE  GateInv'
  <2>1. CASE SetApp(d, "refused") /\ UNCHANGED heldRequests
    BY <1>1, <1>4, <2>1 DEF AppCallsBack
  <2>2. ASSUME NEW h \in heldRequests, h.capability = deliveries[d].capability, ~h.forwarded,
               heldRequests' = (heldRequests \ {h}) \cup {[h EXCEPT !.forwarded = TRUE]},
               deliveries' = [deliveries EXCEPT ![d].app = "waiting", ![d].admitted = TRUE]
        PROVE  GateInv'
    <3> DEFINE k == [h EXCEPT !.forwarded = TRUE]
    <3>1. /\ \A e \in Deliveries \ {d} : deliveries'[e] = deliveries[e]
          /\ deliveries'[d].app = "waiting" /\ deliveries'[d].admitted
          /\ deliveries'[d].pc = deliveries[d].pc
          /\ deliveries'[d].gate = deliveries[d].gate
          /\ deliveries'[d].mode = deliveries[d].mode
          /\ deliveries'[d].capability = deliveries[d].capability
      BY <1>0, <2>2 DEF DeliveryRecords
    <3>2. k.gate = h.gate /\ k.capability = h.capability /\ k.forwarded
      BY DEF TypeOK, HeldRequests
    <3> HIDE DEF k
    <3>3. heldRequests = {h} /\ heldRequests' = {k}
      BY <2>2 DEF GateInv, GatesPending, k
    <3>4. deliveries[d].gate = h.gate
      BY <1>4, <2>2 DEF AppCallsBack, GateInv, DeliveryKnows
    <3>5. GatesOf(heldRequests)' = GatesOf(heldRequests)
      BY <3>2, <3>3 DEF GatesOf
    <3> USE <1>4, <3>1, <3>5 DEF AppCallsBack, GateInv
    <3>6. GatesAllocated'
      BY DEF GatesAllocated, GatesOf, Used
    <3>7. GatesOwned'
      BY DEF GatesOwned
    <3>8. GatesPending'
      BY <3>3 DEF GatesPending, GatesOf
    <3>9. DeliveryKnows'
      BY <3>2, <3>3 DEF DeliveryKnows
    <3>10. WaitersReachable'
      BY <3>2, <3>3, <3>4 DEF WaitersReachable, GatesOf
    <3> QED BY <3>6, <3>7, <3>8, <3>9, <3>10
  <2> QED BY <1>4, <2>1, <2>2 DEF AppCallsBack
<1> QED BY <1>2, <1>3, <1>4 DEF Ingress

LEMMA AppKilledGates ==
    ASSUME TypeOK, GateInv, AppKilled
    PROVE  GateInv'
<1> USE DEF signals, history, managed, Stored
<1>1. \A d \in Deliveries :
         /\ deliveries'[d].app = deliveries[d].app
               \/ (deliveries[d].app # "none" /\ deliveries'[d].app = "dead")
         /\ deliveries'[d].pc = deliveries[d].pc
         /\ deliveries'[d].gate = deliveries[d].gate
         /\ deliveries'[d].mode = deliveries[d].mode
         /\ deliveries'[d].capability = deliveries[d].capability
         /\ deliveries'[d].admitted = deliveries[d].admitted
  BY DEF AppKilled, TypeOK, DeliveryRecords
<1>2. UNCHANGED <<heldGates, heldRequests, heldResponses, nextGate, signals, calls>>
  BY DEF AppKilled
<1> USE <1>1, <1>2 DEF GateInv, GatesOf
<1>3. GatesAllocated'
  BY DEF GatesAllocated, Used
<1>4. GatesOwned'
  BY DEF GatesOwned
<1>5. GatesPending'
  BY DEF GatesPending
<1>6. DeliveryKnows'
  BY DEF DeliveryKnows
<1>7. WaitersReachable'
  BY DEF WaitersReachable
<1> QED BY <1>3, <1>4, <1>5, <1>6, <1>7

LEMMA NextGates == TypeOK /\ GateInv /\ [Next]_vars => GateInv'
<1> SUFFICES ASSUME TypeOK, GateInv, [Next]_vars PROVE GateInv'
  OBVIOUS
<1>1. CASE UNCHANGED vars
  BY <1>1 DEF vars, GateInv, GatesAllocated, GatesOwned, GatesPending, DeliveryKnows,
              WaitersReachable, GatesOf, Stored, Used
<1> QED BY <1>1, DataPlaneGates, CommandGates, DeliveryGates, IngressGates, AppKilledGates
        DEF Next

LEMMA GateSafety == Spec => [](TypeOK /\ GateInv)
<1>1. Init => TypeOK /\ GateInv
  BY InitType, InitGates
<1>2. TypeOK /\ GateInv /\ [Next]_vars => (TypeOK /\ GateInv)'
  BY NextType, NextGates
<1> QED BY <1>1, <1>2, PTL DEF Spec

\* No handler of either listener ever waits on a gate that its release, discard
\* or reset could not find, for every interleaving of resets and stale handlers.
THEOREM NoWaiterIsOrphaned == Spec => []NoOrphanWaiter
<1>1. TypeOK /\ GateInv => NoOrphanWaiter
  BY DEF GateInv, GatesPending, WaitersReachable, NoOrphanWaiter, HeldCallers,
         HoldingDeliveries, WaitingCallbacks
<1> QED BY <1>1, GateSafety, PTL

\* Gates are never shared or reused, also across resets.
THEOREM GatesAreOwned == Spec => []GateHasOneOwner
<1>1. TypeOK /\ GateInv => GateHasOneOwner
  <2> SUFFICES ASSUME TypeOK, GateInv PROVE GateHasOneOwner
    OBVIOUS
  <2>0. \A d \in Deliveries :
            deliveries[d].pc = "holding" \/ deliveries[d].app = "waiting"
                => deliveries[d].gate # NoValue
    BY DEF GateInv, DeliveryKnows
  <2>1. ASSUME NEW g \in Gates
        PROVE  /\ \A c, e \in HeldCallers(g) : c = e
               /\ \A d, e \in HoldingDeliveries(g) \cup WaitingCallbacks(g) : d = e
               /\ HeldCallers(g) = {} \/ HoldingDeliveries(g) \cup WaitingCallbacks(g) = {}
    BY <2>0 DEF GateInv, GatesOwned, HeldCallers, HoldingDeliveries, WaitingCallbacks
  <2>2. \A g \in heldGates \cup GatesOf(heldRequests) \cup GatesOf(heldResponses) :
            g \notin Stored
    BY DEF GateInv, GatesPending
  <2>3. \A d \in Deliveries, h \in heldRequests :
            deliveries[d].gate = h.gate => deliveries[d].capability = h.capability
    BY DEF GateInv, DeliveryKnows
  <2> QED BY <2>1, <2>2, <2>3 DEF GateHasOneOwner
<1> QED BY <1>1, GateSafety, PTL

\* A request-forwarded crash cut never releases the application to persist.
THEOREM CrashCutNeverPersists == Spec => []ForwardedNeverPersists
<1>1. TypeOK /\ GateInv => ForwardedNeverPersists
  BY DEF GateInv, DeliveryKnows, ForwardedNeverPersists
<1> QED BY <1>1, GateSafety, PTL
-----------------------------------------------------------------------------
(* The provider's objects and events.                                        *)

\* Objects are named by their positions, an event is of an object there is, an
\* object has one event of a kind at most, and it has succeeded exactly when it
\* has its succeeded event.
ProviderSound(p) ==
    /\ \A i \in 1 .. Len(p.intents) : p.intents[i].id = <<p.seed, i>>
    /\ \A e \in 1 .. Len(p.events) : p.events[e].intent \in IntentIds(p)
    /\ \A e, f \in 1 .. Len(p.events) :
          p.events[e].intent = p.events[f].intent /\ p.events[e].kind = p.events[f].kind => e = f
    /\ \A i \in 1 .. Len(p.intents) :
          p.intents[i].status = "Succeeded" <=> HasEvent(p, p.intents[i].id, "Succeeded")

\* What ProviderMonotone allows between two states of one run.
Extends(p, q) ==
    /\ Len(p.intents) <= Len(q.intents) /\ Len(p.events) <= Len(q.events)
    /\ \A i \in 1 .. Len(p.intents) :
          /\ q.intents[i].id = p.intents[i].id
          /\ p.intents[i].status = "Succeeded" => q.intents[i].status = "Succeeded"
    /\ \A e \in 1 .. Len(p.events) : q.events[e] = p.events[e]

SoundProviders == {p \in Providers : ProviderSound(p)}

\* The positions of a provider's objects.
LEMMA Positions ==
    ASSUME NEW p \in SoundProviders
    PROVE  /\ p \in Providers /\ ProviderSound(p)
           /\ IntentIds(p) = {<<p.seed, i>> : i \in 1 .. Len(p.intents)}
           /\ \A i \in 1 .. Len(p.intents) : PositionOf(p, <<p.seed, i>>) = i
<1>1. /\ DOMAIN p.intents = 1 .. Len(p.intents) /\ Len(p.intents) \in Nat
      /\ \A i \in 1 .. Len(p.intents) : p.intents[i].id = <<p.seed, i>>
  BY ProviderFields DEF ProviderSound, SoundProviders
<1>2. IntentIds(p) = {<<p.seed, i>> : i \in 1 .. Len(p.intents)}
  BY <1>1 DEF IntentIds
<1>3. ASSUME NEW i \in 1 .. Len(p.intents)
      PROVE  PositionOf(p, <<p.seed, i>>) = i
  <2>1. \A k \in DOMAIN p.intents : p.intents[k].id = <<p.seed, i>> <=> k = i
    BY <1>1
  <2> QED BY <1>1, <2>1 DEF PositionOf
<1> QED BY <1>2, <1>3 DEF SoundProviders

\* A new object has no event yet, whatever ids the old events name.
LEMMA CreateSound ==
    ASSUME NEW p \in SoundProviders, NEW key \in Keys, NEW request \in Requests,
           NEW outcome \in Outcomes
    PROVE  LET q == CreateEffect(p, key, request, outcome) IN
           q \in SoundProviders /\ Extends(p, q)
<1> DEFINE pi == NewIntent(p, request)
           entry == [request |-> request, intent |-> pi,
                     response |-> ExecutedResponse(outcome, pi)]
           intents == Append(p.intents, pi)
           q == [p EXCEPT !.intents = Append(@, pi), !.idempotency[key] = entry]
           n == Len(p.intents)
<1>0. /\ p \in Providers /\ ProviderSound(p)
      /\ p.intents \in Seq(PaymentIntents) /\ n \in Nat /\ Len(p.events) \in Nat
      /\ IntentIds(p) = {<<p.seed, i>> : i \in 1 .. n}
      /\ DOMAIN p.events = 1 .. Len(p.events)
  BY Positions, ProviderFields
<1>1. CASE ~Executes(p, key, outcome)
  BY <1>0, <1>1 DEF CreateEffect, Extends
<1>2. CASE Executes(p, key, outcome)
  <2>1. CreateEffect(p, key, request, outcome) = q /\ q \in Providers
    BY <1>0, <1>2, CreateTypes DEF CreateEffect
  <2>2. pi \in PaymentIntents /\ pi.id = <<p.seed, n + 1>> /\ pi.status # "Succeeded"
    BY <1>0, NewIntentType DEF NewIntent
  <2> HIDE DEF pi
  <2>3. q.intents = intents /\ q.events = p.events /\ q.seed = p.seed
    BY <1>0 DEF Providers
  <2>4. /\ Len(intents) = n + 1
        /\ \A i \in 1 .. n : intents[i] = p.intents[i]
        /\ intents[n + 1] = pi
    BY <1>0, <2>2
  <2> HIDE DEF q, intents
  <2>5. \A i \in 1 .. Len(q.intents) : q.intents[i].id = <<q.seed, i>>
    BY <1>0, <2>2, <2>3, <2>4 DEF ProviderSound
  <2>6. \A e \in 1 .. Len(q.events) : q.events[e].intent \in IntentIds(q)
    <3>1. DOMAIN q.intents = 1 .. n + 1
      BY <2>1, <2>3, <2>4, ProviderFields
    <3>2. ASSUME NEW id \in IntentIds(p)
          PROVE  id \in IntentIds(q)
      <4>1. PICK i \in 1 .. n : id = <<p.seed, i>>
        BY <1>0
      <4>2. i \in 1 .. Len(q.intents) /\ i \in DOMAIN q.intents
        BY <1>0, <2>3, <2>4, <3>1
      <4>3. q.intents[i].id = id
        BY <2>3, <2>5, <4>1, <4>2
      <4> QED BY <4>2, <4>3 DEF IntentIds
    <3> QED BY <1>0, <2>3, <3>2 DEF ProviderSound
  <2>7. ASSUME NEW i \in 1 .. Len(q.intents)
        PROVE  q.intents[i].status = "Succeeded" <=> HasEvent(q, q.intents[i].id, "Succeeded")
    <3>0. \A id : HasEvent(q, id, "Succeeded") <=> HasEvent(p, id, "Succeeded")
      BY <2>3 DEF HasEvent
    <3>1. CASE i \in 1 .. n
      BY <1>0, <2>3, <2>4, <3>0, <3>1 DEF ProviderSound
    <3>2. CASE i = n + 1
      <4>1. <<p.seed, n + 1>> \notin IntentIds(p)
        BY <1>0
      <4>2. ~HasEvent(q, <<p.seed, n + 1>>, "Succeeded")
        BY <1>0, <2>3, <4>1 DEF ProviderSound, HasEvent
      <4> QED BY <2>2, <2>3, <2>4, <3>2, <4>2
    <3> QED BY <1>0, <2>3, <2>4, <3>1, <3>2
  <2>8. q \in SoundProviders
    <3>1. \A e, f \in 1 .. Len(q.events) :
              q.events[e].intent = q.events[f].intent /\ q.events[e].kind = q.events[f].kind
                  => e = f
      BY <1>0, <2>3 DEF ProviderSound
    <3> QED BY <2>1, <2>5, <2>6, <2>7, <3>1 DEF SoundProviders, ProviderSound
  <2>9. Extends(p, q)
    BY <1>0, <2>3, <2>4 DEF Extends
  <2> QED BY <2>1, <2>8, <2>9
<1> QED BY <1>1, <1>2

\* The events after one is ensured: those there were, and at most one more.
LEMMA EventAppended ==
    ASSUME NEW p \in Providers, NEW id \in Ids, NEW kind \in Statuses
    PROVE  LET q == EnsureEvent(p, id, kind) IN
           /\ q.intents = p.intents /\ q.seed = p.seed
           /\ q.idempotency = p.idempotency
           /\ \A e \in 1 .. Len(p.events) : q.events[e] = p.events[e]
           /\ \/ HasEvent(p, id, kind) /\ q.events = p.events
              \/ /\ ~HasEvent(p, id, kind) /\ Len(q.events) = Len(p.events) + 1
                 /\ q.events[Len(q.events)].intent = id
                 /\ q.events[Len(q.events)].kind = kind
<1> DEFINE event == [id |-> <<p.seed, Len(p.events) + 1>>, kind |-> kind, intent |-> id]
           events == Append(p.events, event)
           q == [p EXCEPT !.events = Append(@, event)]
<1>0. p.events \in Seq(Events) /\ Len(p.events) \in Nat
  BY ProviderFields
<1>1. event \in Events /\ event.kind = kind /\ event.intent = id
  BY ProviderFields DEF Events, Ids
<1> HIDE DEF event
<1>2. /\ Len(events) = Len(p.events) + 1
      /\ \A e \in 1 .. Len(p.events) : events[e] = p.events[e]
      /\ events[Len(p.events) + 1] = event
  BY <1>0, <1>1
<1>3. /\ q.intents = p.intents /\ q.seed = p.seed /\ q.idempotency = p.idempotency
      /\ q.events = events
  BY DEF Providers
<1>4. CASE HasEvent(p, id, kind)
  BY <1>4 DEF EnsureEvent
<1>5. CASE ~HasEvent(p, id, kind)
  <2>1. EnsureEvent(p, id, kind) = q
    BY <1>5 DEF EnsureEvent, event
  <2> HIDE DEF q, events
  <2> QED BY <1>1, <1>2, <1>3, <1>5, <2>1
<1> QED BY <1>4, <1>5

\* An event of the older state, or of the success of one that succeeded.
LEMMA EnsureEventSound ==
    ASSUME NEW p \in SoundProviders, NEW i \in 1 .. Len(p.intents), NEW kind \in Statuses,
           kind = "Succeeded" => p.intents[i].status = "Succeeded"
    PROVE  LET q == EnsureEvent(p, p.intents[i].id, kind) IN
           q \in SoundProviders /\ Extends(p, q)
<1> DEFINE id == p.intents[i].id
           q == EnsureEvent(p, id, kind)
<1>0. /\ p \in Providers /\ ProviderSound(p) /\ id \in IntentIds(p) /\ id \in Ids
      /\ Len(p.events) \in Nat /\ DOMAIN p.events = 1 .. Len(p.events)
      /\ Len(p.intents) \in Nat
  <2>1. p \in Providers /\ ProviderSound(p)
    BY Positions
  <2>2. i \in DOMAIN p.intents /\ p.intents[i] \in PaymentIntents
    BY <2>1, ProviderFields, ElementOfSeq
  <2> QED BY <2>1, <2>2, ProviderFields DEF IntentIds, PaymentIntents
<1> HIDE DEF id
<1>1. /\ q.intents = p.intents /\ q.seed = p.seed
      /\ \A e \in 1 .. Len(p.events) : q.events[e] = p.events[e]
      /\ \/ HasEvent(p, id, kind) /\ q.events = p.events
         \/ /\ ~HasEvent(p, id, kind) /\ Len(q.events) = Len(p.events) + 1
            /\ q.events[Len(q.events)].intent = id
            /\ q.events[Len(q.events)].kind = kind
  BY <1>0, EventAppended
<1>2. q \in Providers /\ DOMAIN q.events = 1 .. Len(q.events)
  BY <1>0, EnsureEventType, ProviderFields
<1> HIDE DEF q
<1>3. IntentIds(q) = IntentIds(p)
  BY <1>1 DEF IntentIds
<1>4. CASE q.events = p.events
  <2>1. \A other : HasEvent(q, other, "Succeeded") <=> HasEvent(p, other, "Succeeded")
    BY <1>4 DEF HasEvent
  <2>2. /\ \A k \in 1 .. Len(q.intents) : q.intents[k].id = <<q.seed, k>>
        /\ \A e \in 1 .. Len(q.events) : q.events[e].intent \in IntentIds(q)
    BY <1>0, <1>1, <1>3, <1>4 DEF ProviderSound
  <2>3. \A e, f \in 1 .. Len(q.events) :
            q.events[e].intent = q.events[f].intent /\ q.events[e].kind = q.events[f].kind
                => e = f
    BY <1>0, <1>4 DEF ProviderSound
  <2>4. \A k \in 1 .. Len(q.intents) :
            q.intents[k].status = "Succeeded" <=> HasEvent(q, q.intents[k].id, "Succeeded")
    BY <1>0, <1>1, <2>1 DEF ProviderSound
  <2>5. q \in SoundProviders
    BY <1>2, <2>2, <2>3, <2>4 DEF SoundProviders, ProviderSound
  <2>6. Extends(p, q)
    BY <1>0, <1>1, <1>4 DEF Extends
  <2> QED BY <2>5, <2>6 DEF id, q
<1>5. CASE /\ ~HasEvent(p, id, kind) /\ Len(q.events) = Len(p.events) + 1
           /\ q.events[Len(q.events)].intent = id
           /\ q.events[Len(q.events)].kind = kind
  <2> DEFINE m == Len(p.events) + 1
  <2>1. \A e \in 1 .. Len(q.events) : e \in 1 .. Len(p.events) \/ e = m
    BY <1>0, <1>5
  <2>2. \A e \in 1 .. Len(q.events) : q.events[e].intent \in IntentIds(q)
    BY <1>0, <1>1, <1>3, <1>5, <2>1 DEF ProviderSound
  <2>3. ASSUME NEW e \in 1 .. Len(q.events), NEW f \in 1 .. Len(q.events),
               q.events[e].intent = q.events[f].intent, q.events[e].kind = q.events[f].kind
        PROVE  e = f
    <3>1. \A g \in 1 .. Len(p.events) :
              ~(q.events[g].intent = id /\ q.events[g].kind = kind)
      BY <1>0, <1>1, <1>5 DEF HasEvent
    <3> QED BY <1>0, <1>1, <1>5, <2>1, <2>3, <3>1 DEF ProviderSound
  <2>4. ASSUME NEW k \in 1 .. Len(q.intents)
        PROVE  q.intents[k].status = "Succeeded" <=> HasEvent(q, q.intents[k].id, "Succeeded")
    <3>1. HasEvent(q, q.intents[k].id, "Succeeded") <=>
              \/ HasEvent(p, p.intents[k].id, "Succeeded")
              \/ p.intents[k].id = id /\ kind = "Succeeded"
      <4>0. /\ DOMAIN q.events = 1 .. m /\ q.events[m].intent = id /\ q.events[m].kind = kind
            /\ m \in 1 .. m /\ q.intents[k].id = p.intents[k].id
        BY <1>0, <1>1, <1>2, <1>5
      <4>1. ASSUME HasEvent(q, q.intents[k].id, "Succeeded")
            PROVE  \/ HasEvent(p, p.intents[k].id, "Succeeded")
                   \/ p.intents[k].id = id /\ kind = "Succeeded"
        <5>1. PICK e \in 1 .. m :
                  q.events[e].intent = p.intents[k].id /\ q.events[e].kind = "Succeeded"
          BY <4>0, <4>1 DEF HasEvent
        <5>2. CASE e = m
          BY <4>0, <5>1, <5>2
        <5>3. CASE e \in 1 .. Len(p.events)
          BY <1>0, <1>1, <5>1, <5>3 DEF HasEvent
        <5> QED BY <1>0, <5>2, <5>3
      <4>2. ASSUME HasEvent(p, p.intents[k].id, "Succeeded")
            PROVE  HasEvent(q, q.intents[k].id, "Succeeded")
        <5>1. PICK e \in 1 .. Len(p.events) :
                  p.events[e].intent = p.intents[k].id /\ p.events[e].kind = "Succeeded"
          BY <1>0, <4>2 DEF HasEvent
        <5>2. e \in 1 .. m
          BY <1>0
        <5> QED BY <1>1, <4>0, <5>1, <5>2 DEF HasEvent
      <4>3. ASSUME p.intents[k].id = id, kind = "Succeeded"
            PROVE  HasEvent(q, q.intents[k].id, "Succeeded")
        BY <4>0, <4>3 DEF HasEvent
      <4> QED BY <4>1, <4>2, <4>3
    <3>2. p.intents[k].id = id => k = i
      BY <1>1 DEF ProviderSound, SoundProviders, id
    <3> QED BY <1>0, <1>1, <3>1, <3>2 DEF ProviderSound
  <2>5. \A k \in 1 .. Len(q.intents) : q.intents[k].id = <<q.seed, k>>
    BY <1>0, <1>1 DEF ProviderSound
  <2>6. q \in SoundProviders
    BY <1>2, <2>2, <2>3, <2>4, <2>5 DEF SoundProviders, ProviderSound
  <2>7. Extends(p, q)
    BY <1>0, <1>1, <1>5 DEF Extends
  <2> QED BY <2>6, <2>7 DEF id, q
<1> QED BY <1>1, <1>4, <1>5

\* An object marked as succeeded whose event is still to come.
Marked(p, i) == [p EXCEPT !.intents[i].status = "Succeeded"]

\* A confirmation marks the object and gives it its event.
LEMMA ConfirmSound ==
    ASSUME NEW p \in SoundProviders, NEW id \in IntentIds(p)
    PROVE  LET q == Confirm(p, id) IN
           /\ q \in SoundProviders /\ Extends(p, q) /\ Len(q.intents) = Len(p.intents)
           /\ q.intents[PositionOf(p, id)].status = "Succeeded"
           /\ q.idempotency = p.idempotency /\ q.seed = p.seed
<1>0. /\ p \in Providers /\ ProviderSound(p)
      /\ p.intents \in Seq(PaymentIntents) /\ Len(p.intents) \in Nat
      /\ DOMAIN p.intents = 1 .. Len(p.intents)
      /\ DOMAIN p.events = 1 .. Len(p.events) /\ Len(p.events) \in Nat
  BY Positions, ProviderFields
<1>1. PICK i \in 1 .. Len(p.intents) : id = <<p.seed, i>> /\ PositionOf(p, id) = i
  BY Positions
<1> DEFINE r == Marked(p, i)
           q == EnsureEvent(r, id, "Succeeded")
<1>2. CASE p.intents[i].status = "Succeeded"
  <2>1. Confirm(p, id) = p
    BY <1>1, <1>2 DEF Confirm
  <2>2. Extends(p, p)
    BY <1>0 DEF Extends
  <2> QED BY <1>1, <1>2, <2>1, <2>2
<1>3. CASE p.intents[i].status # "Succeeded"
  <2>1. Confirm(p, id) = q /\ q \in Providers /\ Len(q.intents) = Len(p.intents)
    <3>1. Confirm(p, id) = q
      BY <1>1, <1>3 DEF Confirm, Marked
    <3> HIDE DEF q
    <3> QED BY <1>0, <3>1, ConfirmType, ConfirmKeepsIds
  <2>2. /\ r.events = p.events /\ r.seed = p.seed /\ r.idempotency = p.idempotency
        /\ Len(r.intents) = Len(p.intents) /\ r \in Providers
        /\ \A k \in 1 .. Len(p.intents) :
              /\ r.intents[k].id = p.intents[k].id
              /\ r.intents[k].status = IF k = i THEN "Succeeded" ELSE p.intents[k].status
    <3> DEFINE moved == [p.intents[i] EXCEPT !.status = "Succeeded"]
               intents == [p.intents EXCEPT ![i] = moved]
    <3>1. \A k \in 1 .. Len(p.intents) : p.intents[k] \in PaymentIntents
      BY <1>0
    <3>2. /\ moved \in PaymentIntents /\ moved.status = "Succeeded"
          /\ moved.id = p.intents[i].id
      BY <3>1 DEF PaymentIntents, Statuses
    <3> HIDE DEF moved
    <3>3. /\ intents \in Seq(PaymentIntents) /\ Len(intents) = Len(p.intents)
          /\ \A k \in 1 .. Len(p.intents) :
                intents[k] = IF k = i THEN moved ELSE p.intents[k]
      BY <1>0, <3>2, ExceptSeq
    <3> HIDE DEF intents
    <3>4. r = [p EXCEPT !.intents = intents]
      BY DEF intents, moved, Marked
    <3>5. /\ r.intents = intents /\ r.events = p.events /\ r.seed = p.seed
          /\ r.idempotency = p.idempotency /\ r \in Providers
      BY <1>0, <3>3, <3>4 DEF Providers
    <3> QED BY <3>2, <3>3, <3>5
  <2>3. id = p.intents[i].id /\ id \in Ids /\ id \in IntentIds(p)
    BY <1>0, <1>1, PositionOfKnown DEF ProviderSound
  <2> HIDE DEF r
  <2>4. /\ q.intents = r.intents /\ q.seed = r.seed /\ q.idempotency = r.idempotency
        /\ \A e \in 1 .. Len(p.events) : q.events[e] = p.events[e]
        /\ \/ HasEvent(r, id, "Succeeded") /\ q.events = r.events
           \/ /\ ~HasEvent(r, id, "Succeeded") /\ Len(q.events) = Len(r.events) + 1
              /\ q.events[Len(q.events)].intent = id
              /\ q.events[Len(q.events)].kind = "Succeeded"
    <3>1. r \in Providers /\ "Succeeded" \in Statuses /\ Len(r.events) = Len(p.events)
          /\ r.events = p.events
      BY <2>2 DEF Statuses
    <3> QED BY <2>3, <3>1, EventAppended
  <2>5. ~HasEvent(r, id, "Succeeded")
    <3>1. ~HasEvent(p, id, "Succeeded")
      BY <1>0, <1>3, <2>3 DEF ProviderSound
    <3> QED BY <2>2, <3>1 DEF HasEvent
  <2> DEFINE m == Len(p.events) + 1
  <2>6. /\ Len(q.events) = m /\ q.events[m].intent = id /\ q.events[m].kind = "Succeeded"
        /\ m \in 1 .. m /\ DOMAIN q.events = 1 .. m
        /\ \A e \in 1 .. m : e \in 1 .. Len(p.events) \/ e = m
    <3>1. DOMAIN q.events = 1 .. Len(q.events)
      BY <2>1, ProviderFields
    <3> HIDE DEF q
    <3> QED BY <1>0, <2>2, <2>4, <2>5, <3>1
  <2>7. DOMAIN q.intents = 1 .. Len(p.intents)
    BY <2>1, ProviderFields
  <2> HIDE DEF q
  <2>8. IntentIds(q) = IntentIds(p)
    <3>1. \A k \in 1 .. Len(p.intents) : q.intents[k].id = p.intents[k].id
      BY <2>2, <2>4
    <3> QED BY <1>0, <2>7, <3>1 DEF IntentIds
  <2>9. \A k \in 1 .. Len(q.intents) : q.intents[k].id = <<q.seed, k>>
    BY <1>0, <2>1, <2>2, <2>4 DEF ProviderSound
  <2>10. \A e \in 1 .. Len(q.events) : q.events[e].intent \in IntentIds(q)
    BY <1>0, <2>3, <2>4, <2>6, <2>8 DEF ProviderSound
  <2>11. ASSUME NEW e \in 1 .. Len(q.events), NEW f \in 1 .. Len(q.events),
                q.events[e].intent = q.events[f].intent, q.events[e].kind = q.events[f].kind
         PROVE  e = f
    <3>1. \A g \in 1 .. Len(p.events) :
              ~(q.events[g].intent = id /\ q.events[g].kind = "Succeeded")
      BY <1>0, <2>2, <2>4, <2>5 DEF HasEvent
    <3>2. CASE e \in 1 .. Len(p.events) /\ f \in 1 .. Len(p.events)
      <4>1. q.events[e] = p.events[e] /\ q.events[f] = p.events[f]
        BY <2>4, <3>2
      <4>2. p.events[e].intent = p.events[f].intent /\ p.events[e].kind = p.events[f].kind
        BY <2>11, <4>1
      <4>3. \A g, h \in 1 .. Len(p.events) :
               p.events[g].intent = p.events[h].intent /\ p.events[g].kind = p.events[h].kind
                 => g = h
        BY <1>0 DEF ProviderSound
      <4> QED  BY <3>2, <4>2, <4>3
    <3>3. CASE e = m \/ f = m
      BY <2>6, <2>11, <3>1, <3>3
    <3> QED BY <2>6, <3>2, <3>3
  <2>12. ASSUME NEW k \in 1 .. Len(q.intents)
         PROVE  q.intents[k].status = "Succeeded" <=> HasEvent(q, q.intents[k].id, "Succeeded")
    <3>0. q.intents[k].id = p.intents[k].id /\ k \in 1 .. Len(p.intents)
      BY <2>1, <2>2, <2>4
    <3>1. CASE k = i
      BY <2>2, <2>3, <2>4, <2>6, <3>0, <3>1 DEF HasEvent
    <3>2. CASE k # i
      <4>1. q.intents[k].status = p.intents[k].status /\ p.intents[k].id # id
        BY <1>0, <1>1, <2>2, <2>4, <3>0, <3>2 DEF ProviderSound
      <4>2. ASSUME HasEvent(q, q.intents[k].id, "Succeeded")
            PROVE  HasEvent(p, p.intents[k].id, "Succeeded")
        <5>1. PICK e \in 1 .. m :
                  q.events[e].intent = p.intents[k].id /\ q.events[e].kind = "Succeeded"
          BY <2>6, <3>0, <4>2 DEF HasEvent
        <5>2. e \in 1 .. Len(p.events)
          BY <2>6, <4>1, <5>1
        <5> QED BY <1>0, <2>4, <5>1, <5>2 DEF HasEvent
      <4>3. ASSUME HasEvent(p, p.intents[k].id, "Succeeded")
            PROVE  HasEvent(q, q.intents[k].id, "Succeeded")
        <5>1. PICK e \in 1 .. Len(p.events) :
                  p.events[e].intent = p.intents[k].id /\ p.events[e].kind = "Succeeded"
          BY <1>0, <4>3 DEF HasEvent
        <5>2. e \in 1 .. m
          BY <1>0
        <5> QED BY <2>4, <2>6, <3>0, <5>1, <5>2 DEF HasEvent
      <4> QED BY <1>0, <3>0, <4>1, <4>2, <4>3 DEF ProviderSound
    <3> QED BY <3>1, <3>2
  <2>13. q \in SoundProviders
    BY <2>1, <2>9, <2>10, <2>11, <2>12 DEF SoundProviders, ProviderSound
  <2>14. Extends(p, q)
    BY <1>0, <2>1, <2>2, <2>4, <2>6 DEF Extends
  <2> QED BY <1>1, <2>1, <2>2, <2>4, <2>13, <2>14
<1> QED BY <1>2, <1>3

\* A snapshot of either state.
LEMMA EventSnapshotSound ==
    ASSUME NEW p \in SoundProviders, NEW id \in IntentIds(p), NEW status \in Statuses
    PROVE  LET q == EventSnapshot(p, id, status) IN
           q \in SoundProviders /\ Extends(p, q) /\ q.idempotency = p.idempotency
<1>0. PICK i \in 1 .. Len(p.intents) : id = <<p.seed, i>> /\ PositionOf(p, id) = i
  BY Positions
<1>1. CASE status = "Succeeded"
  <2> DEFINE r == Confirm(p, id)
             q == EnsureEvent(r, id, status)
  <2>1. EventSnapshot(p, id, status) = q
    BY <1>1 DEF EventSnapshot
  <2>2. /\ r \in SoundProviders /\ Extends(p, r) /\ Len(r.intents) = Len(p.intents)
        /\ r.intents[i].status = "Succeeded" /\ r.seed = p.seed
        /\ r.idempotency = p.idempotency
    BY <1>0, ConfirmSound
  <2> HIDE DEF r
  <2>3. id = r.intents[i].id /\ i \in 1 .. Len(r.intents) /\ id \in Ids /\ r \in Providers
    BY <1>0, <2>2, Positions, PositionOfKnown DEF ProviderSound
  <2>4. q \in SoundProviders /\ Extends(r, q)
    BY <2>2, <2>3, EnsureEventSound
  <2>5. q.idempotency = r.idempotency
    BY <2>3, EventAppended
  <2> HIDE DEF q
  <2>6. Extends(p, q)
    <3>1. /\ Len(p.events) \in Nat /\ Len(r.events) \in Nat /\ Len(q.events) \in Nat
          /\ Len(p.intents) \in Nat /\ Len(r.intents) \in Nat /\ Len(q.intents) \in Nat
      BY <2>2, <2>4, Positions, ProviderFields
    <3>2. Len(p.intents) <= Len(q.intents) /\ Len(p.events) <= Len(q.events)
      BY <2>2, <2>4, <3>1 DEF Extends
    <3>3. ASSUME NEW k \in 1 .. Len(p.intents)
          PROVE  /\ q.intents[k].id = p.intents[k].id
                 /\ p.intents[k].status = "Succeeded" => q.intents[k].status = "Succeeded"
      <4>1. k \in 1 .. Len(r.intents)
        BY <2>2
      <4> QED BY <2>2, <2>4, <4>1 DEF Extends
    <3>4. ASSUME NEW e \in 1 .. Len(p.events)
          PROVE  q.events[e] = p.events[e]
      <4>1. e \in 1 .. Len(r.events)
        BY <2>2, <3>1 DEF Extends
      <4> QED BY <2>2, <2>4, <4>1 DEF Extends
    <3> QED BY <3>2, <3>3, <3>4 DEF Extends
  <2> QED BY <2>1, <2>2, <2>4, <2>5, <2>6
<1>2. CASE status # "Succeeded"
  <2>1. EventSnapshot(p, id, status) = EnsureEvent(p, p.intents[i].id, status)
    BY <1>0, <1>2, Positions DEF EventSnapshot, ProviderSound
  <2>2. p.intents[i].id \in Ids /\ p \in Providers
    BY <1>0, Positions, PositionOfKnown DEF ProviderSound
  <2> QED BY <1>2, <2>1, <2>2, EnsureEventSound, EventAppended
<1> QED BY <1>1, <1>2

\* The visits of confirm_all: every object that is not succeeded has its turn,
\* and it has one only.
LEMMA CreationOrderCovers ==
    ASSUME NEW p \in Providers, NEW order \in CreationOrders(p)
    PROVE  /\ Cardinality(Unconfirmed(p)) \in Nat
           /\ order \in [1 .. Cardinality(Unconfirmed(p)) -> Unconfirmed(p)]
           /\ \A j, k \in 1 .. Cardinality(Unconfirmed(p)) : order[j] = order[k] => j = k
           /\ \A i \in Unconfirmed(p) :
                 \E j \in 1 .. Cardinality(Unconfirmed(p)) : order[j] = i
<1> DEFINE n == Cardinality(Unconfirmed(p))
<1>1. IsFiniteSet(Unconfirmed(p)) /\ n \in Nat
  <2>1. Unconfirmed(p) \subseteq 1 .. Len(p.intents)
    BY ProviderFields DEF Unconfirmed
  <2>2. IsFiniteSet(1 .. Len(p.intents))
    <3>1. 1 \in Int /\ Len(p.intents) \in Int
      BY ProviderFields
    <3> QED BY <3>1, FS_Interval
  <2> QED BY <2>1, <2>2, FS_Subset, FS_CardinalityType
<1>2. /\ order \in [1 .. n -> Unconfirmed(p)]
      /\ \A j, k \in 1 .. n : j < k => order[j] < order[k]
  BY DEF CreationOrders
<1>3. \A i \in Unconfirmed(p) : i \in Nat
  BY ProviderFields DEF Unconfirmed
<1> HIDE DEF n
<1>4. \A j, k \in 1 .. n : order[j] = order[k] => j = k
  <2> TAKE j, k \in 1 .. n
  <2>1. order[j] \in Nat /\ order[k] \in Nat
    BY <1>2, <1>3
  <2> QED BY <1>1, <1>2, <2>1
<1>5. IsFiniteSet(1 .. n) /\ Cardinality(1 .. n) = n
  <2>1. 1 \in Int /\ n \in Int /\ n - 1 + 1 = n /\ (n < 1 => n = 0)
    BY <1>1
  <2> QED BY <1>1, <2>1, FS_Interval
<1>6. order \in Surjection(1 .. n, Unconfirmed(p))
  <2>1. order \in Injection(1 .. n, Unconfirmed(p))
    BY <1>2, <1>4 DEF Injection, IsInjective
  <2> QED BY <1>1, <1>5, <2>1, FS_Injection DEF n
<1>7. \A i \in Unconfirmed(p) : \E j \in 1 .. n : order[j] = i
  BY <1>6 DEF Surjection
<1> QED BY <1>1, <1>2, <1>4, <1>7 DEF n

\* The objects and events after confirm_all.
LEMMA ConfirmAllFields ==
    ASSUME NEW p \in Providers, NEW order \in CreationOrders(p)
    PROVE  LET q == ConfirmAll(p, order)
               n == Cardinality(Unconfirmed(p)) IN
           /\ q.seed = p.seed /\ q.idempotency = p.idempotency
           /\ Len(q.intents) = Len(p.intents) /\ Len(q.events) = Len(p.events) + n
           /\ \A i \in 1 .. Len(p.intents) :
                 q.intents[i].id = p.intents[i].id /\ q.intents[i].status = "Succeeded"
           /\ \A e \in 1 .. Len(p.events) : q.events[e] = p.events[e]
           /\ \A j \in 1 .. n :
                 /\ q.events[Len(p.events) + j].kind = "Succeeded"
                 /\ q.events[Len(p.events) + j].intent = p.intents[order[j]].id
<1> DEFINE intents == [i \in DOMAIN p.intents |-> [p.intents[i] EXCEPT !.status = "Succeeded"]]
           event(j) == [id |-> <<p.seed, Len(p.events) + j>>, kind |-> "Succeeded",
                        intent |-> p.intents[order[j]].id]
           new == [j \in DOMAIN order |-> event(j)]
           n == Cardinality(Unconfirmed(p))
           q == ConfirmAll(p, order)
<1>1. /\ n \in Nat /\ DOMAIN order = 1 .. n
      /\ order \in [1 .. n -> Unconfirmed(p)]
  BY CreationOrderCovers
<1>2. q = [p EXCEPT !.intents = intents, !.events = p.events \o new]
  BY DEF ConfirmAll
<1>3. /\ q.seed = p.seed /\ q.idempotency = p.idempotency
      /\ q.intents = intents /\ q.events = p.events \o new
  BY <1>2, ProviderFields DEF Providers
<1>4. \A i \in 1 .. Len(p.intents) :
          intents[i].id = p.intents[i].id /\ intents[i].status = "Succeeded"
  <2> TAKE i \in 1 .. Len(p.intents)
  <2>1. p.intents[i] \in PaymentIntents
    BY ProviderFields, ElementOfSeq
  <2>2. intents[i] = [p.intents[i] EXCEPT !.status = "Succeeded"]
    BY ProviderFields
  <2> QED BY <2>1, <2>2 DEF PaymentIntents
<1>5. Len(intents) = Len(p.intents)
  BY ProviderFields
<1>6. \A j \in 1 .. n : event(j) \in Events
  <2> TAKE j \in 1 .. n
  <2>1. order[j] \in 1 .. Len(p.intents)
    BY <1>1, ProviderFields DEF Unconfirmed
  <2>2. p.intents[order[j]] \in PaymentIntents
    BY <2>1, ProviderFields, ElementOfSeq
  <2>3. <<p.seed, Len(p.events) + j>> \in Ids
    BY <1>1, ProviderFields DEF Ids
  <2> QED BY <2>2, <2>3 DEF Events, Statuses, PaymentIntents
<1>7. new \in Seq(Events) /\ Len(new) = n /\ \A j \in 1 .. n : new[j] = event(j)
  <2>1. [j \in 1 .. n |-> event(j)] \in Seq(Events)
    BY <1>1, <1>6, IsASeq
  <2> HIDE DEF event, n
  <2>2. new = [j \in 1 .. n |-> event(j)]
    BY <1>1
  <2>3. Len(new) = n
    BY <1>1, <2>1, <2>2
  <2> QED BY <2>1, <2>2, <2>3
<1>8. \A j \in 1 .. n : event(j).kind = "Succeeded" /\ event(j).intent = p.intents[order[j]].id
  OBVIOUS
<1> HIDE DEF new, event, intents, q, n
<1>9. /\ Len(q.events) = Len(p.events) + n
      /\ \A e \in 1 .. Len(p.events) : q.events[e] = p.events[e]
      /\ \A j \in 1 .. n : q.events[Len(p.events) + j] = new[j]
  BY <1>1, <1>3, <1>7, ProviderFields, ConcatProperties
<1>10. \A j \in 1 .. n :
           /\ q.events[Len(p.events) + j].kind = "Succeeded"
           /\ q.events[Len(p.events) + j].intent = p.intents[order[j]].id
  BY <1>7, <1>8, <1>9
<1> QED BY <1>3, <1>4, <1>5, <1>9, <1>10 DEF q, n

\* confirm_all gives every object that was not succeeded the one event it lacks.
LEMMA ConfirmAllSound ==
    ASSUME NEW p \in SoundProviders, NEW order \in CreationOrders(p)
    PROVE  LET q == ConfirmAll(p, order) IN
           q \in SoundProviders /\ Extends(p, q) /\ q.idempotency = p.idempotency
<1> DEFINE q == ConfirmAll(p, order)
           n == Cardinality(Unconfirmed(p))
           m == Len(p.events)
<1>0. /\ p \in Providers /\ ProviderSound(p) /\ m \in Nat /\ Len(p.intents) \in Nat
      /\ DOMAIN p.events = 1 .. m /\ DOMAIN p.intents = 1 .. Len(p.intents)
  BY Positions, ProviderFields
<1>1. /\ n \in Nat /\ order \in [1 .. n -> Unconfirmed(p)]
      /\ \A j, k \in 1 .. n : order[j] = order[k] => j = k
      /\ \A i \in Unconfirmed(p) : \E j \in 1 .. n : order[j] = i
  BY <1>0, CreationOrderCovers
<1>2. /\ q.seed = p.seed /\ q.idempotency = p.idempotency
      /\ Len(q.intents) = Len(p.intents) /\ Len(q.events) = m + n
      /\ \A i \in 1 .. Len(p.intents) :
            q.intents[i].id = p.intents[i].id /\ q.intents[i].status = "Succeeded"
      /\ \A e \in 1 .. m : q.events[e] = p.events[e]
      /\ \A j \in 1 .. n :
            /\ q.events[m + j].kind = "Succeeded"
            /\ q.events[m + j].intent = p.intents[order[j]].id
  BY <1>0, ConfirmAllFields
<1>3. /\ q \in Providers /\ DOMAIN q.intents = 1 .. Len(p.intents)
      /\ DOMAIN q.events = 1 .. m + n
  BY <1>0, <1>2, ConfirmAllType, ProviderFields
<1> HIDE DEF q, n, m
<1>4. \A i \in Unconfirmed(p) :
          i \in 1 .. Len(p.intents) /\ p.intents[i].status # "Succeeded"
  BY <1>0 DEF Unconfirmed
<1>5. \A e \in 1 .. m + n : e \in 1 .. m \/ \E j \in 1 .. n : e = m + j
  <2> TAKE e \in 1 .. m + n
  <2>1. CASE e <= m
    BY <1>0, <1>1, <2>1
  <2>2. CASE e > m
    <3>1. e - m \in 1 .. n /\ e = m + (e - m)
      BY <1>0, <1>1, <2>2
    <3> QED BY <3>1
  <2> QED BY <1>0, <1>1, <2>1, <2>2
<1>6. \A i \in 1 .. Len(q.intents) : q.intents[i].id = <<q.seed, i>>
  BY <1>0, <1>2 DEF ProviderSound
<1>7. IntentIds(q) = IntentIds(p)
  BY <1>0, <1>2, <1>3 DEF IntentIds
<1>8. \A e \in 1 .. Len(q.events) : q.events[e].intent \in IntentIds(q)
  <2> TAKE e \in 1 .. Len(q.events)
  <2>1. CASE e \in 1 .. m
    BY <1>0, <1>2, <1>7, <2>1 DEF ProviderSound, m
  <2>2. ASSUME NEW j \in 1 .. n, e = m + j
        PROVE  q.events[e].intent \in IntentIds(q)
    <3>1. order[j] \in DOMAIN p.intents
      BY <1>0, <1>1, <1>4
    <3>2. p.intents[order[j]].id \in IntentIds(p)
      BY <3>1 DEF IntentIds
    <3> QED BY <1>2, <1>7, <2>2, <3>2
  <2> QED BY <1>2, <1>5, <2>1, <2>2
\* The event of a visited object is new: the object had none.
<1>9. ASSUME NEW j \in 1 .. n, NEW e \in 1 .. m,
             q.events[e].intent = q.events[m + j].intent, q.events[e].kind = "Succeeded"
      PROVE  FALSE
  <2>1. order[j] \in 1 .. Len(p.intents) /\ p.intents[order[j]].status # "Succeeded"
    BY <1>1, <1>4
  <2>2. p.events[e].intent = p.intents[order[j]].id /\ p.events[e].kind = "Succeeded"
    BY <1>2, <1>9
  <2>3. HasEvent(p, p.intents[order[j]].id, "Succeeded")
    BY <1>0, <2>2 DEF HasEvent
  <2> QED BY <1>0, <2>1, <2>3 DEF ProviderSound
<1>10. ASSUME NEW e \in 1 .. Len(q.events), NEW f \in 1 .. Len(q.events),
              q.events[e].intent = q.events[f].intent, q.events[e].kind = q.events[f].kind
       PROVE  e = f
  <2>0. e \in 1 .. m + n /\ f \in 1 .. m + n
    BY <1>2
  <2>1. CASE e \in 1 .. m /\ f \in 1 .. m
    BY <1>0, <1>2, <1>10, <2>1 DEF ProviderSound, m
  <2>2. ASSUME e \in 1 .. m, NEW j \in 1 .. n, f = m + j
        PROVE  FALSE
    BY <1>2, <1>9, <1>10, <2>2
  <2>3. ASSUME f \in 1 .. m, NEW j \in 1 .. n, e = m + j
        PROVE  FALSE
    BY <1>2, <1>9, <1>10, <2>3
  <2>4. ASSUME NEW j \in 1 .. n, NEW k \in 1 .. n, e = m + j, f = m + k
        PROVE  e = f
    <3>1. order[j] \in 1 .. Len(p.intents) /\ order[k] \in 1 .. Len(p.intents)
      BY <1>1, <1>4
    <3>2. p.intents[order[j]].id = p.intents[order[k]].id
      BY <1>2, <1>10, <2>4
    <3>3. order[j] = order[k]
      BY <1>0, <3>1, <3>2 DEF ProviderSound
    <3>4. j = k
      BY <1>1, <3>3
    <3> QED BY <2>4, <3>4
  <2> QED BY <1>5, <2>0, <2>1, <2>2, <2>3, <2>4
<1>11. ASSUME NEW i \in 1 .. Len(q.intents)
       PROVE  q.intents[i].status = "Succeeded" <=> HasEvent(q, q.intents[i].id, "Succeeded")
  <2>0. i \in 1 .. Len(p.intents) /\ q.intents[i].id = p.intents[i].id
    BY <1>2
  <2>1. ASSUME p.intents[i].status = "Succeeded"
        PROVE  HasEvent(q, q.intents[i].id, "Succeeded")
    <3>1. HasEvent(p, p.intents[i].id, "Succeeded")
      BY <1>0, <2>0, <2>1 DEF ProviderSound
    <3>2. PICK e \in 1 .. m : p.events[e].intent = p.intents[i].id /\ p.events[e].kind = "Succeeded"
      BY <1>0, <3>1 DEF HasEvent
    <3>3. e \in 1 .. m + n
      BY <1>0, <1>1
    <3> QED BY <1>2, <1>3, <2>0, <3>2, <3>3 DEF HasEvent
  <2>2. ASSUME p.intents[i].status # "Succeeded"
        PROVE  HasEvent(q, q.intents[i].id, "Succeeded")
    <3>1. i \in Unconfirmed(p)
      BY <1>0, <2>0, <2>2 DEF Unconfirmed
    <3>2. PICK j \in 1 .. n : order[j] = i
      BY <1>1, <3>1
    <3>3. m + j \in 1 .. m + n
      BY <1>0, <1>1
    <3> QED BY <1>2, <1>3, <2>0, <3>2, <3>3 DEF HasEvent
  <2> QED BY <1>2, <2>0, <2>1, <2>2
<1>12. q \in SoundProviders
  BY <1>3, <1>6, <1>8, <1>10, <1>11 DEF SoundProviders, ProviderSound
<1>13. Extends(p, q)
  BY <1>0, <1>1, <1>2 DEF Extends, m
<1> QED BY <1>2, <1>12, <1>13 DEF q

\* A fixture that was just seeded.
LEMMA NewProviderSound ==
    ASSUME NEW seed \in Seeds
    PROVE  NewProvider(seed) \in SoundProviders
<1> DEFINE p == NewProvider(seed)
<1>1. p \in Providers /\ p.intents = <<>> /\ p.events = <<>>
  BY NewProviderType DEF NewProvider
<1>2. 1 .. Len(p.intents) = {} /\ 1 .. Len(p.events) = {}
  BY <1>1
<1> QED BY <1>1, <1>2 DEF SoundProviders, ProviderSound

-----------------------------------------------------------------------------
(* What a step of the fixture does to its provider.                          *)

\* The calls and commands that write the provider, by what they do to it.
ProviderStep ==
    \/ UNCHANGED provider
    \/ \E key \in Keys, request \in Requests, outcome \in Outcomes :
          provider' = CreateEffect(provider, key, request, outcome)
    \/ \E id \in IntentIds(provider) : provider' = Confirm(provider, id)
    \/ \E id \in IntentIds(provider), status \in Statuses :
          provider' = EventSnapshot(provider, id, status)
    \/ \E order \in CreationOrders(provider) : provider' = ConfirmAll(provider, order)

\* Every step is one of those within its run, or a reset.
LEMMA StepsOfProvider ==
    ASSUME TypeOK, [Next]_vars
    PROVE  \/ run' = run /\ ProviderStep
           \/ run' = run + 1 /\ \E seed \in Seeds : provider' = NewProvider(seed)
<1> DEFINE Goal == \/ run' = run /\ ProviderStep
                   \/ run' = run + 1 /\ \E seed \in Seeds : provider' = NewProvider(seed)
<1> USE DEF managed, signals, history
<1> SUFFICES Goal
  OBVIOUS
<1>0. plannedOutcomes # <<>> => Head(plannedOutcomes) \in Outcomes
  BY DEF TypeOK
<1>1. ASSUME NEW c \in Callers, DataPlane(c)
      PROVE  Goal
  <2>1. ASSUME NEW key \in Keys, NEW request \in Requests, Create(c, key, request)
        PROVE  Goal
    BY <1>0, <2>1 DEF Create, ProviderStep
  <2>2. ASSUME NEW id \in Confirmable, ConfirmCall(c, id)
        PROVE  Goal
    BY <1>0, <2>2 DEF ConfirmCall, ConfirmEffect, ProviderStep
  <2>3. ASSUME HeldCallWakes(c) \/ CallerGone(c)
        PROVE  Goal
    BY <2>3 DEF HeldCallWakes, CallerGone, ProviderStep
  <2> QED BY <1>1, <2>1, <2>2, <2>3 DEF DataPlane
<1>2. ASSUME NEW received \in 1 .. CommandLimit, Command(received)
      PROVE  Goal
  BY <1>2 DEF Command, Reset, ReleaseGate, DiscardWebhookRequest, DiscardWebhookResponse,
              ConfirmEvery, GenerateEvent, ProviderStep
<1>3. ASSUME NEW d \in Deliveries, Delivery(d) \/ Ingress(d)
      PROVE  run' = run /\ UNCHANGED provider
  BY <1>3 DEF Delivery, DeliverEvent, PrepareWebhookRequestGate, DeliveryAnswered,
              DeliveryFails, HoldWebhookResponse, HeldResponseWakes, ControlClientGone,
              Ingress, AppReceives, AppPersists, AppCallsBack, AppCallbackWakes
<1>4. CASE AppKilled \/ UNCHANGED vars
  BY <1>4 DEF AppKilled, vars, ProviderStep
<1> QED BY <1>1, <1>2, <1>3, <1>4 DEF Next, ProviderStep

\* Soundness is kept, and within a run the provider is only extended.
LEMMA ProviderStepSound ==
    ASSUME provider \in SoundProviders, ProviderStep
    PROVE  provider' \in SoundProviders /\ Extends(provider, provider')
<1>1. CASE UNCHANGED provider
  <2>1. Len(provider.intents) \in Nat /\ Len(provider.events) \in Nat
    BY Positions, ProviderFields
  <2> QED BY <1>1, <2>1 DEF Extends
<1> QED BY <1>1, CreateSound, ConfirmSound, EventSnapshotSound, ConfirmAllSound DEF ProviderStep

\* The provider of every reachable state is sound.
LEMMA ProviderIsSound == Spec => [](TypeOK /\ provider \in SoundProviders)
<1>1. Init => TypeOK /\ provider \in SoundProviders
  BY InitType, NewProviderSound, FixtureAssumption DEF Init
<1>2. TypeOK /\ provider \in SoundProviders /\ [Next]_vars
         => (TypeOK /\ provider \in SoundProviders)'
  <2> SUFFICES ASSUME TypeOK, provider \in SoundProviders, [Next]_vars
               PROVE  TypeOK' /\ provider' \in SoundProviders
    OBVIOUS
  <2>1. TypeOK'
    BY NextType
  <2> QED BY <2>1, StepsOfProvider, ProviderStepSound, NewProviderSound
<1> QED BY <1>1, <1>2, PTL DEF Spec

\* However objects are confirmed and whichever snapshots are asked for, an
\* object has succeeded exactly when it has its succeeded event, and has no two
\* events of a kind.
THEOREM EventsMatchObjects == Spec => []SucceededIffEvent
<1>1. TypeOK /\ provider \in SoundProviders => SucceededIffEvent
  <2> SUFFICES ASSUME provider \in SoundProviders
               PROVE  SucceededIffEvent
    OBVIOUS
  <2> DEFINE EventsOf(id, kind) ==
          {e \in DOMAIN provider.events :
              provider.events[e].intent = id /\ provider.events[e].kind = kind}
  <2>1. /\ ProviderSound(provider)
        /\ DOMAIN provider.intents = 1 .. Len(provider.intents)
        /\ DOMAIN provider.events = 1 .. Len(provider.events)
    BY Positions, ProviderFields
  <2>2. ASSUME NEW i \in DOMAIN provider.intents
        PROVE  provider.intents[i].status = "Succeeded"
                   <=> EventsOf(provider.intents[i].id, "Succeeded") # {}
    BY <2>1 DEF ProviderSound, HasEvent
  <2>3. ASSUME NEW id, NEW kind
        PROVE  Cardinality(EventsOf(id, kind)) <= 1
    <3>1. \A e, f \in EventsOf(id, kind) : e = f
      BY <2>1 DEF ProviderSound
    <3>2. CASE EventsOf(id, kind) = {}
      BY <3>2, FS_EmptySet
    <3>3. CASE EventsOf(id, kind) # {}
      <4>1. PICK e : EventsOf(id, kind) = {e}
        BY <3>1, <3>3
      <4>2. Cardinality({e}) = 1
        BY FS_Singleton
      <4> QED BY <4>1, <4>2
    <3> QED BY <3>2, <3>3
  <2>4. \A i \in DOMAIN provider.intents :
            /\ provider.intents[i].status = "Succeeded"
                   <=> EventsOf(provider.intents[i].id, "Succeeded") # {}
            /\ \A kind \in {provider.events[e].kind : e \in DOMAIN provider.events} :
                  Cardinality(EventsOf(provider.intents[i].id, kind)) <= 1
    <3> HIDE DEF EventsOf
    <3> QED BY <2>2, <2>3
  <2> QED BY <2>4, Zenon DEF SucceededIffEvent
<1> QED BY <1>1, ProviderIsSound, PTL

\* Between resets the provider only grows: no object leaves succeeded, and no
\* event is taken back or rewritten.
THEOREM ProviderOnlyGrows == Spec => ProviderMonotone
<1> DEFINE Grows ==
        run' = run =>
          /\ \A i \in DOMAIN provider.intents :
                /\ provider'.intents[i].id = provider.intents[i].id
                /\ provider.intents[i].status = "Succeeded"
                      => provider'.intents[i].status = "Succeeded"
          /\ \A e \in DOMAIN provider.events : provider'.events[e] = provider.events[e]
<1>1. TypeOK /\ provider \in SoundProviders /\ [Next]_vars => [Grows]_vars
  <2> SUFFICES ASSUME TypeOK, provider \in SoundProviders, [Next]_vars, run' = run
               PROVE  Grows
    OBVIOUS
  <2>1. run \in Nat
    BY DEF TypeOK
  <2>2. ProviderStep
    BY <2>1, StepsOfProvider
  <2>3. Extends(provider, provider')
    BY <2>2, ProviderStepSound
  <2>4. /\ DOMAIN provider.intents = 1 .. Len(provider.intents)
        /\ DOMAIN provider.events = 1 .. Len(provider.events)
    BY Positions, ProviderFields
  <2> QED BY <2>3, <2>4 DEF Extends
<1> QED BY <1>1, ProviderIsSound, PTL DEF Spec, ProviderMonotone

-----------------------------------------------------------------------------
(* Who may take a forwarded gate out of the map.                             *)

\* A delivery that times out, or is answered late, leaves a forwarded gate to a
\* command: only discard-webhook-request and a reset take it away.
THEOREM ForwardedWaitsForCommand == Spec => ForwardedLeavesByCommand
<1> DEFINE Kept == \A h \in heldRequests :
                      h.forwarded /\ h \notin heldRequests' => commandSequence' > commandSequence
<1> USE DEF managed, signals, history
<1>1. TypeOK /\ [Next]_vars => [Kept]_vars
  <2> SUFFICES ASSUME TypeOK, [Next]_vars
               PROVE  Kept
    OBVIOUS
  <2>0. commandSequence \in Int
    BY FixtureAssumption DEF TypeOK
  <2>1. ASSUME NEW c \in Callers, DataPlane(c)
        PROVE  Kept
    BY <2>1 DEF DataPlane, Create, ConfirmCall, HeldCallWakes, CallerGone
  <2>2. ASSUME NEW received \in 1 .. CommandLimit, Command(received)
        PROVE  Kept
    <3>1. commandSequence' = commandSequence + 1
      BY <2>2 DEF Command, RequireNextSequence, Reset, ReleaseGate, DiscardWebhookRequest,
                  DiscardWebhookResponse, ConfirmEvery, GenerateEvent
    <3> QED BY <2>0, <3>1
  <2>3. ASSUME NEW d \in Deliveries, Delivery(d)
        PROVE  Kept
    <3>1. ASSUME AbortUnforwarded(d)
          PROVE  Kept
      BY <3>1 DEF AbortUnforwarded, Abortable
    <3> QED BY <2>3, <3>1 DEF Delivery, DeliverEvent, PrepareWebhookRequestGate,
                DeliveryAnswered, DeliveryFails, HoldWebhookResponse, HeldResponseWakes,
                ControlClientGone
  <2>4. ASSUME NEW d \in Deliveries, Ingress(d)
        PROVE  Kept
    BY <2>4 DEF Ingress, AppReceives, AppPersists, AppCallsBack, AppCallbackWakes
  <2>5. CASE AppKilled \/ UNCHANGED vars
    BY <2>5 DEF AppKilled, vars
  <2> QED BY <2>1, <2>2, <2>3, <2>4, <2>5 DEF Next
<1> QED BY <1>1, TypeSafety, PTL DEF Spec, ForwardedLeavesByCommand

-----------------------------------------------------------------------------
(* The answers of the data plane and the idempotency cache.                  *)

\* The answers an application has, and those a released gate would give it.
Known == answers \cup {calls[c].answer : c \in {held \in Callers : calls[held].pc = "held"}}

IsCreate(a) == a.executed /\ a.call.op = "create"

\* The cache of p holds what the call of answer a was told.
Recorded(p, a) ==
    /\ Cached(p, a.call.key)
    /\ p.idempotency[a.call.key].request = a.call.request
    /\ p.idempotency[a.call.key].response = a.response

SameKey(a, b) == a.run = b.run /\ IsCreate(a) /\ IsCreate(b) /\ a.call.key = b.call.key

\* ReplayIsExact over the known answers is inductive only with the cache: within
\* the current run an executed create was told what its key has recorded, and the
\* record never changes before the next reset.
ReplayInv ==
    /\ \A a \in Known : a.run <= run
    /\ \A a \in Known : a.run = run /\ IsCreate(a) => Recorded(provider, a)
    /\ \A a, b \in Known : SameKey(a, b) => a.call = b.call /\ a.response = b.response

LEMMA KnownType == TypeOK => \A a \in Known : a \in Answers
<1> SUFFICES ASSUME TypeOK, NEW a \in Known PROVE a \in Answers
  OBVIOUS
<1>1. ASSUME NEW c \in Callers, calls[c].pc = "held"
      PROVE  calls[c].answer \in Answers
  <2>1. calls[c] \in Calls
    BY DEF TypeOK
  <2> QED BY <1>1, <2>1 DEF Calls
<1> QED BY <1>1 DEF Known, TypeOK

\* Two answers recorded under one key are the same answer.
LEMMA RecordedAgree ==
    ASSUME NEW a \in Answers, NEW b \in Answers, NEW p,
           SameKey(a, b), Recorded(p, a), Recorded(p, b)
    PROVE  a.call = b.call /\ a.response = b.response
<1>1. a.call \in Requested /\ b.call \in Requested /\ a.call.op = "create" /\ b.call.op = "create"
  BY DEF Answers, SameKey, IsCreate
<1>2. /\ a.call = [op |-> "create", key |-> a.call.key, request |-> a.call.request]
      /\ b.call = [op |-> "create", key |-> b.call.key, request |-> b.call.request]
  BY <1>1 DEF Requested
<1> QED BY <1>2 DEF Recorded, SameKey

\* A step of the run that gives at most one new answer, and records it.
LEMMA ReplayKept ==
    ASSUME TypeOK, TypeOK', ReplayInv, run' = run, NEW answer,
           \A a \in Known' : a \in Known \/ a = answer,
           \A a \in Known : IsCreate(a) /\ Recorded(provider, a) => Recorded(provider', a),
           answer.run = run, IsCreate(answer) => Recorded(provider', answer)
    PROVE  ReplayInv'
<1>0. run \in Nat /\ (\A a \in Known : a.run <= run)
  BY DEF TypeOK, ReplayInv
<1>1. \A a \in Known' : a.run <= run'
  BY <1>0
<1>2. \A a \in Known' : a.run = run' /\ IsCreate(a) => Recorded(provider', a)
  BY DEF ReplayInv
<1>3. ASSUME NEW a \in Known', NEW b \in Known', SameKey(a, b)
      PROVE  a.call = b.call /\ a.response = b.response
  <2>1. CASE a.run = run
    <3>1. Recorded(provider', a) /\ Recorded(provider', b)
      BY <1>2, <1>3, <2>1 DEF SameKey
    <3>2. a \in Answers /\ b \in Answers
      <4>1. ASSUME NEW k \in Callers, calls'[k].pc = "held"
            PROVE  calls'[k].answer \in Answers
        <5>1. calls'[k] \in Calls
          BY DEF TypeOK
        <5> QED BY <4>1, <5>1 DEF Calls
      <4> QED BY <4>1 DEF Known, TypeOK
    <3> QED BY <1>3, <3>1, <3>2, RecordedAgree
  <2>2. CASE a.run # run
    <3>1. a \in Known /\ b \in Known
      BY <1>3, <2>2 DEF SameKey
    <3> QED BY <1>3, <3>1 DEF ReplayInv
  <2> QED BY <2>1, <2>2
<1> QED BY <1>1, <1>2, <1>3 DEF ReplayInv

\* An answer is sent, dropped or held: it is the only one that can be new.
LEMMA DispatchKnown ==
    ASSUME TypeOK, NEW c \in Callers, NEW disposition, NEW answer,
           Dispatch(c, disposition, answer)
    PROVE  \A a \in Known' : a \in Known \/ a = answer
<1>1. CASE UNCHANGED calls
  BY <1>1 DEF Dispatch, Known
<1>2. CASE /\ calls' = [calls EXCEPT ![c] =
                           [pc |-> "held", gate |-> nextGate + 1, answer |-> answer]]
           /\ UNCHANGED answers
  <2>1. \A k \in Callers : calls'[k] = calls[k]
                              \/ calls'[k].answer = answer
    BY <1>2 DEF TypeOK
  <2> QED BY <1>2, <2>1 DEF Known
<1> QED BY <1>1, <1>2 DEF Dispatch

\* What a create records under its key, first use or replay.
LEMMA CreateRecords ==
    ASSUME NEW p \in Providers, NEW key \in Keys, NEW request \in Requests,
           NEW outcome \in Outcomes, ~Conflicts(p, key, request)
    PROVE  LET q == CreateEffect(p, key, request, outcome) IN
           /\ Cached(p, key) \/ outcome \notin PreExecution =>
                 /\ Cached(q, key) /\ q.idempotency[key].request = request
                 /\ q.idempotency[key].response = CreateResponse(p, key, request, outcome)
           /\ \A k \in Keys : Cached(p, k) => q.idempotency[k] = p.idempotency[k] /\ Cached(q, k)
<1> DEFINE pi == NewIntent(p, request)
           entry == [request |-> request, intent |-> pi,
                     response |-> ExecutedResponse(outcome, pi)]
           q == CreateEffect(p, key, request, outcome)
<1>1. CASE ~Executes(p, key, outcome)
  <2>1. q = p
    BY <1>1 DEF CreateEffect
  <2>2. Cached(p, key) => p.idempotency[key].request = request
    BY DEF Conflicts
  <2> QED BY <1>1, <2>1, <2>2 DEF Executes, CreateResponse
<1>2. CASE Executes(p, key, outcome)
  <2>1. entry \in Entries /\ entry.request = request
        /\ entry.response = CreateResponse(p, key, request, outcome)
    <3>1. pi \in PaymentIntents
      BY NewIntentType
    <3>2. ExecutedResponse(outcome, pi) \in Responses
      BY <3>1, ExecutedResponseType
    <3> QED BY <1>2, <3>1, <3>2 DEF Entries, Executes, CreateResponse
  <2>2. q.idempotency = [p.idempotency EXCEPT ![key] = entry]
    <3>1. q = [p EXCEPT !.intents = Append(@, pi), !.idempotency[key] = entry]
      BY <1>2 DEF CreateEffect
    <3> HIDE DEF entry, pi
    <3> QED BY <3>1, ProviderFields DEF Providers
  <2> HIDE DEF entry, q
  <2>3. q.idempotency[key] = entry /\ \A k \in Keys \ {key} : q.idempotency[k] = p.idempotency[k]
    BY <2>2, ProviderFields
  <2>4. Cached(q, key)
    BY <2>1, <2>3, NoEntryAssumption DEF Cached
  <2> QED BY <1>2, <2>1, <2>3, <2>4 DEF Executes, Cached, q
<1> QED BY <1>1, <1>2

\* Only a create writes the cache.
LEMMA CacheKept ==
    ASSUME NEW p, NEW q, NEW a, p.idempotency = q.idempotency, Recorded(p, a)
    PROVE  Recorded(q, a)
BY DEF Recorded, Cached

LEMMA CreateReplays ==
    ASSUME TypeOK, TypeOK', ReplayInv, NEW c \in Callers, NEW key \in Keys,
           NEW request \in Requests, Create(c, key, request)
    PROVE  ReplayInv'
<1> DEFINE outcome == Head(plannedOutcomes)
           answer == [run      |-> run,
                      call     |-> [op |-> "create", key |-> key, request |-> request],
                      executed |-> Cached(provider, key) \/ outcome \notin PreExecution,
                      response |-> CreateResponse(provider, key, request, outcome)]
<1>0. outcome \in Outcomes /\ provider \in Providers /\ run' = run
  BY DEF TypeOK, Create
<1>1. CASE Conflicts(provider, key, request)
  <2>1. UNCHANGED <<provider, calls, answers>>
    BY <1>1 DEF Create
  <2> QED BY <1>0, <2>1 DEF ReplayInv, Known, SameKey, IsCreate
<1>2. CASE ~Conflicts(provider, key, request)
  <2>1. /\ provider' = CreateEffect(provider, key, request, outcome)
        /\ Dispatch(c, CreateDisposition(provider, key, outcome), answer)
    BY <1>2 DEF Create
  <2>2. /\ answer.run = run /\ answer.call.key = key /\ answer.call.request = request
        /\ answer.response = CreateResponse(provider, key, request, outcome)
        /\ IsCreate(answer) <=> Cached(provider, key) \/ outcome \notin PreExecution
    BY DEF IsCreate
  <2> HIDE DEF answer, outcome
  <2>3. \A a \in Known' : a \in Known \/ a = answer
    BY <2>1, DispatchKnown
  <2>4. IsCreate(answer) => Recorded(provider', answer)
    BY <1>0, <1>2, <2>1, <2>2, CreateRecords DEF Recorded
  <2>5. ASSUME NEW a \in Known, IsCreate(a), Recorded(provider, a)
        PROVE  Recorded(provider', a)
    <3>1. a.call.key \in Keys
      BY <2>5, KnownType DEF Answers, Requested, IsCreate
    <3> QED BY <1>0, <1>2, <2>1, <2>5, <3>1, CreateRecords DEF Recorded
  <2> QED BY <1>0, <2>2, <2>3, <2>4, <2>5, ReplayKept
<1> QED BY <1>1, <1>2

LEMMA ConfirmReplays ==
    ASSUME TypeOK, TypeOK', provider \in SoundProviders, ReplayInv, NEW c \in Callers, NEW id,
           ConfirmCall(c, id)
    PROVE  ReplayInv'
<1> DEFINE outcome == Head(plannedOutcomes)
           answer == [run      |-> run,
                      call     |-> [op |-> "confirm", id |-> id],
                      executed |-> outcome \notin PreExecution,
                      response |-> ConfirmResponse(provider, id, outcome)]
<1>0. run' = run
  BY DEF ConfirmCall
<1>1. CASE UNCHANGED <<provider, calls, answers>>
  BY <1>0, <1>1 DEF ReplayInv, Known, SameKey, IsCreate
<1>2. CASE /\ id \in IntentIds(provider) \/ outcome \in PreExecution
           /\ provider' = ConfirmEffect(provider, id, outcome)
           /\ Dispatch(c, DispositionOf(outcome), answer)
  <2>1. provider'.idempotency = provider.idempotency
    BY <1>2, ConfirmSound DEF ConfirmEffect
  <2>2. answer.run = run /\ ~IsCreate(answer)
    BY DEF IsCreate
  <2> HIDE DEF answer, outcome
  <2>3. \A a \in Known' : a \in Known \/ a = answer
    BY <1>2, DispatchKnown
  <2>4. \A a \in Known : Recorded(provider, a) => Recorded(provider', a)
    BY <2>1, CacheKept
  <2> QED BY <1>0, <2>2, <2>3, <2>4, ReplayKept
<1> QED BY <1>1, <1>2 DEF ConfirmCall

\* A step that gives no new answer and keeps the cache and the run.
LEMMA QuietReplays ==
    ASSUME ReplayInv, run' = run, provider'.idempotency = provider.idempotency,
           \A a \in Known' : a \in Known
    PROVE  ReplayInv'
BY CacheKept DEF ReplayInv

\* A reset leaves the answers of older runs behind.
LEMMA ResetReplays ==
    ASSUME TypeOK, ReplayInv, NEW received, NEW seed, NEW outcomes,
           Reset(received, seed, outcomes)
    PROVE  ReplayInv'
<1>1. run \in Nat /\ run' = run + 1 /\ UNCHANGED <<calls, answers>>
  BY DEF TypeOK, Reset
<1>2. Known' = Known /\ \A a \in Known : a.run <= run /\ a.run \in Nat
  BY <1>1, KnownType DEF Known, ReplayInv, Answers
<1> QED BY <1>1, <1>2 DEF ReplayInv

\* Every step keeps what the answers and the cache say of each other.
LEMMA NextReplays ==
    ASSUME TypeOK, TypeOK', provider \in SoundProviders, ReplayInv, [Next]_vars
    PROVE  ReplayInv'
<1> USE DEF managed, signals, history
<1>1. ASSUME NEW c \in Callers, DataPlane(c)
      PROVE  ReplayInv'
  <2>1. ASSUME HeldCallWakes(c)
        PROVE  ReplayInv'
    <3>1. \A a \in Known' : a \in Known
      BY <2>1 DEF HeldCallWakes, Known, TypeOK
    <3>2. run' = run /\ provider' = provider
      BY <2>1 DEF HeldCallWakes
    <3> QED BY <3>1, <3>2, QuietReplays
  <2>2. ASSUME CallerGone(c)
        PROVE  ReplayInv'
    <3>1. \A a \in Known' : a \in Known
      BY <2>2 DEF CallerGone, Known, TypeOK
    <3>2. run' = run /\ provider' = provider
      BY <2>2 DEF CallerGone
    <3> QED BY <3>1, <3>2, QuietReplays
  <2> QED BY <1>1, <2>1, <2>2, CreateReplays, ConfirmReplays DEF DataPlane
<1>2. ASSUME NEW received \in 1 .. CommandLimit, Command(received)
      PROVE  ReplayInv'
  <2>1. ASSUME NEW seed, NEW outcomes, Reset(received, seed, outcomes)
        PROVE  ReplayInv'
    BY <2>1, ResetReplays
  <2>2. ASSUME run' = run, UNCHANGED <<calls, answers>>,
               provider'.idempotency = provider.idempotency
        PROVE  ReplayInv'
    BY <2>2, QuietReplays DEF Known
  <2>3. ASSUME ConfirmEvery(received)
        PROVE  provider'.idempotency = provider.idempotency
    BY <2>3, ConfirmAllSound DEF ConfirmEvery
  <2>4. ASSUME NEW id \in IntentIds(provider), NEW status \in Statuses,
               GenerateEvent(received, id, status)
        PROVE  provider'.idempotency = provider.idempotency
    BY <2>4, EventSnapshotSound DEF GenerateEvent
  <2> QED BY <1>2, <2>1, <2>2, <2>3, <2>4
          DEF Command, ReleaseGate, DiscardWebhookRequest, DiscardWebhookResponse,
              ConfirmEvery, GenerateEvent
<1>3. ASSUME UNCHANGED <<provider, calls, answers, run>>
      PROVE  ReplayInv'
  BY <1>3, QuietReplays DEF Known
<1>4. ASSUME NEW d \in Deliveries, Delivery(d) \/ Ingress(d)
      PROVE  UNCHANGED <<provider, calls, answers, run>>
  BY <1>4 DEF Delivery, DeliverEvent, PrepareWebhookRequestGate, DeliveryAnswered,
              DeliveryFails, HoldWebhookResponse, HeldResponseWakes, ControlClientGone,
              Ingress, AppReceives, AppPersists, AppCallsBack, AppCallbackWakes
<1>5. CASE AppKilled \/ UNCHANGED vars
  BY <1>3, <1>5 DEF AppKilled, vars
<1> QED BY <1>1, <1>2, <1>3, <1>4, <1>5 DEF Next

\* Within a run every executed use of an idempotency key is answered as the very
\* first one was: also when that answer was lost, is still held, or was a 500.
THEOREM ReplaysAreExact == Spec => []ReplayIsExact
<1>1. Init => ReplayInv
  BY DEF Init, ReplayInv, Known
<1>2. TypeOK /\ TypeOK' /\ provider \in SoundProviders /\ ReplayInv /\ [Next]_vars
         => ReplayInv'
  BY NextReplays
<1>3. Spec => []ReplayInv
  BY <1>1, <1>2, ProviderIsSound, PTL DEF Spec
<1>4. ReplayInv => ReplayIsExact
  BY DEF ReplayInv, ReplayIsExact, Known, SameKey, IsCreate
<1> QED BY <1>3, <1>4, PTL
=============================================================================
