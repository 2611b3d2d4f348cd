------------------------------- MODULE Fixture --------------------------------
(***************************************************************************)
(* The managed provider fixture: ManagedFixture with its data plane, its   *)
(* sequenced control plane and its gates (crates/tiv-stripe-pi/src/lib.rs, *)
(* control.rs, http.rs).  ManagedFixture sits behind one Mutex; an HTTP    *)
(* handler is a process whose steps are the regions it holds that lock     *)
(* for, and any number of handlers of both listeners interleave.           *)
(*                                                                         *)
(* A gate is a GateSignal shared by the map that lets a command find it    *)
(* and by the one handler that waits on it.  released and cancelled are    *)
(* the gates whose signal was stored; every other gate is still pending.   *)
(***************************************************************************)
EXTENDS Provider

CONSTANTS Callers,        \* data-plane connections of the application
          Deliveries,     \* deliver-event requests of the control plane
          InitialSeed,    \* the seed the fixture process starts with
          Plans,          \* fault plans a reset may install
          GateLimit,      \* where the u64 gate sequence is exhausted
          CommandLimit,   \* where the u64 command sequence is exhausted
          NoValue         \* an unset field of a handler

ASSUME FixtureAssumption ==
    /\ InitialSeed \in Seeds
    /\ Plans \subseteq Seq(Outcomes)
    /\ GateLimit \in Nat /\ CommandLimit \in Nat
    /\ NoValue \notin Nat

VARIABLES provider,         \* ManagedFixture.fixture
          plannedOutcomes,  \* .planned_outcomes
          heldGates,        \* .held_gates: data-plane gates
          heldRequests,     \* .held_webhook_requests
          heldResponses,    \* .held_webhook_responses
          nextGate,         \* .next_gate_sequence
          commandSequence,  \* .command_sequence
          released,         \* gates whose signal is GATE_RELEASED
          cancelled,        \* gates whose signal is GATE_CANCELLED
          calls,            \* the data-plane handler of each caller
          deliveries,       \* the handler of each deliver-event request
          run,              \* history: number of resets applied
          answers           \* history: every data-plane answer sent

managed == <<provider, plannedOutcomes, heldGates, heldRequests, heldResponses,
             nextGate, commandSequence>>
signals == <<released, cancelled>>
history == <<run, answers>>
vars == <<provider, plannedOutcomes, heldGates, heldRequests, heldResponses,
          nextGate, commandSequence, released, cancelled, calls, deliveries,
          run, answers>>

Gates == 1 .. GateLimit
Modes == {"None", "Request", "Response"}

Requested == [op : {"create"}, key : Keys, request : Requests]
                 \cup [op : {"confirm"}, id : Ids]
Answers == [run : Nat, call : Requested, executed : BOOLEAN, response : Responses]
Calls == [pc : {"idle"}] \cup [pc : {"held"}, gate : Gates, answer : Answers]

Capabilities == [seed : Seeds, gate : Gates, command : Nat, event : Ids]
HeldRequests == [gate : Gates, capability : Capabilities, forwarded : BOOLEAN]
HeldResponses == [gate : Gates, event : Ids]

DeliveryStates == {"idle", "signed", "sent", "answered", "holding", "finished"}
\* What the application has done with the webhook request of a delivery.
IngressStates == {"none", "inflight", "received", "waiting", "persisted", "refused", "dead"}
DeliveryRecords ==
    [pc : DeliveryStates, mode : Modes, event : Ids \cup {NoValue},
     command : Nat, gate : Gates \cup {NoValue},
     capability : Capabilities \cup {NoValue}, app : IngressStates,
     admitted : BOOLEAN, dropped : BOOLEAN]

NewDelivery ==
    [pc |-> "idle", mode |-> "None", event |-> NoValue, command |-> 0,
     gate |-> NoValue, capability |-> NoValue, app |-> "none",
     admitted |-> FALSE, dropped |-> FALSE]

Init ==
    /\ provider = NewProvider(InitialSeed)
    /\ plannedOutcomes = <<>>
    /\ heldGates = {} /\ heldRequests = {} /\ heldResponses = {}
    /\ nextGate = 0 /\ commandSequence = 0
    /\ released = {} /\ cancelled = {}
    /\ calls = [c \in Callers |-> [pc |-> "idle"]]
    /\ deliveries = [d \in Deliveries |-> NewDelivery]
    /\ run = 0 /\ answers = {}

GatesOf(held) == {h.gate : h \in held}

\* The gates whose state is no longer pending.
Stored == released \cup cancelled
\* GateSignal::wait returns once either state is stored.
Signalled(g) == g \in Stored

GateAvailable == nextGate < GateLimit

-----------------------------------------------------------------------------
(* The data plane: create and confirm consume one planned outcome each, even *)
(* when they end in a conflict or an unknown id; an empty plan changes       *)
(* nothing.  Retrieve and search only read.                                  *)

\* manage_disposition and data_plane_result.  A gate sequence that is
\* exhausted answers 500 after the provider has already executed the call.
Dispatch(c, disposition, answer) ==
    \/ /\ disposition = "Response"
       /\ answers' = answers \cup {answer}
       /\ UNCHANGED <<heldGates, nextGate, calls>>
    \/ /\ \/ disposition = "CloseConnection"
          \/ disposition = "DelayResponse" /\ ~GateAvailable
       /\ UNCHANGED <<heldGates, nextGate, calls, answers>>
    \/ /\ disposition = "DelayResponse" /\ GateAvailable
       /\ nextGate' = nextGate + 1
       /\ heldGates' = heldGates \cup {nextGate + 1}
       /\ calls' = [calls EXCEPT ![c] =
                       [pc |-> "held", gate |-> nextGate + 1, answer |-> answer]]
       /\ UNCHANGED answers

Create(c, key, request) ==
    /\ calls[c].pc = "idle"
    /\ plannedOutcomes # <<>>
    /\ plannedOutcomes' = Tail(plannedOutcomes)
    /\ LET outcome == Head(plannedOutcomes) IN
       \/ /\ Conflicts(provider, key, request)
          /\ UNCHANGED <<provider, heldGates, nextGate, calls, answers>>
       \/ /\ ~Conflicts(provider, key, request)
          /\ provider' = CreateEffect(provider, key, request, outcome)
          /\ Dispatch(c, CreateDisposition(provider, key, outcome),
                      [run      |-> run,
                       call     |-> [op |-> "create", key |-> key, request |-> request],
                       executed |-> Cached(provider, key) \/ outcome \notin PreExecution,
                       response |-> CreateResponse(provider, key, request, outcome)])
    /\ UNCHANGED <<heldRequests, heldResponses, commandSequence, signals,
                   deliveries, run>>

ConfirmCall(c, id) ==
    /\ calls[c].pc = "idle"
    /\ plannedOutcomes # <<>>
    /\ plannedOutcomes' = Tail(plannedOutcomes)
    /\ LET outcome == Head(plannedOutcomes) IN
       \/ /\ id \notin IntentIds(provider) /\ outcome \notin PreExecution
          /\ UNCHANGED <<provider, heldGates, nextGate, calls, answers>>
       \/ /\ id \in IntentIds(provider) \/ outcome \in PreExecution
          /\ provider' = ConfirmEffect(provider, id, outcome)
          /\ Dispatch(c, DispositionOf(outcome),
                      [run      |-> run,
                       call     |-> [op |-> "confirm", id |-> id],
                       executed |-> outcome \notin PreExecution,
                       response |-> ConfirmResponse(provider, id, outcome)])
    /\ UNCHANGED <<heldRequests, heldResponses, commandSequence, signals,
                   deliveries, run>>

\* HeldDataPlaneResponse::wait returns: the exact response after a release,
\* an aborted connection after a reset.
HeldCallWakes(c) ==
    /\ calls[c].pc = "held"
    /\ Signalled(calls[c].gate)
    /\ answers' = IF calls[c].gate \in cancelled THEN answers
                  ELSE answers \cup {calls[c].answer}
    /\ calls' = [calls EXCEPT ![c] = [pc |-> "idle"]]
    /\ UNCHANGED <<managed, signals, deliveries, run>>

\* The application gives up on a held response (its client timeout, or its
\* process is killed) and the handler is dropped; its gate stays in the map.
CallerGone(c) ==
    /\ calls[c].pc = "held"
    /\ calls' = [calls EXCEPT ![c] = [pc |-> "idle"]]
    /\ UNCHANGED <<managed, signals, deliveries, history>>

-----------------------------------------------------------------------------
(* The control plane.  A command that is refused changes nothing: received   *)
(* is applied only as the next command, and only if the rest succeeds.       *)

RequireNextSequence(received) ==
    received = commandSequence + 1 /\ received <= CommandLimit

\* A reset that forgets the senders paused on an observed response.
CancelledByResetButResponses == heldGates \cup GatesOf(heldRequests)
CancelledByReset ==
    heldGates \cup GatesOf(heldRequests) \cup GatesOf(heldResponses)

\* A reset that starts the gate sequence over, as new() does.
GateSequenceRestarted == 0
GateSequenceAfterReset == nextGate

Reset(received, seed, outcomes) ==
    /\ RequireNextSequence(received)
    /\ outcomes # <<>>
    /\ cancelled' = cancelled \cup CancelledByReset
    /\ provider' = NewProvider(seed)
    /\ plannedOutcomes' = outcomes
    /\ heldGates' = {} /\ heldRequests' = {} /\ heldResponses' = {}
    /\ nextGate' = GateSequenceAfterReset
    /\ commandSequence' = received
    /\ run' = run + 1
    /\ UNCHANGED <<released, calls, deliveries, answers>>

\* A release that looks the gate up in every map.
ReleasableAnyGate == heldGates \cup GatesOf(heldRequests) \cup GatesOf(heldResponses)
Releasable == heldGates

ReleaseGate(received, gate) ==
    /\ RequireNextSequence(received)
    /\ gate \in Releasable
    /\ heldGates' = heldGates \ {gate}
    /\ released' = released \cup {gate}
    /\ commandSequence' = received
    /\ UNCHANGED <<provider, plannedOutcomes, heldRequests, heldResponses,
                   nextGate, cancelled, calls, deliveries, history>>

ConfirmEvery(received) ==
    /\ RequireNextSequence(received)
    /\ \E order \in CreationOrders(provider) : provider' = ConfirmAll(provider, order)
    /\ commandSequence' = received
    /\ UNCHANGED <<plannedOutcomes, heldGates, heldRequests, heldResponses,
                   nextGate, signals, calls, deliveries, history>>

GenerateEvent(received, id, status) ==
    /\ RequireNextSequence(received)
    /\ id \in IntentIds(provider)
    /\ provider' = EventSnapshot(provider, id, status)
    /\ commandSequence' = received
    /\ UNCHANGED <<plannedOutcomes, heldGates, heldRequests, heldResponses,
                   nextGate, signals, calls, deliveries, history>>

DiscardWebhookRequest(received, gate) ==
    /\ RequireNextSequence(received)
    /\ \E h \in heldRequests :
          /\ h.gate = gate /\ h.forwarded
          /\ heldRequests' = heldRequests \ {h}
    /\ cancelled' = cancelled \cup {gate}
    /\ commandSequence' = received
    /\ UNCHANGED <<provider, plannedOutcomes, heldGates, heldResponses, nextGate,
                   released, calls, deliveries, history>>

DiscardWebhookResponse(received, gate) ==
    /\ RequireNextSequence(received)
    /\ \E h \in heldResponses :
          /\ h.gate = gate
          /\ heldResponses' = heldResponses \ {h}
    /\ cancelled' = cancelled \cup {gate}
    /\ commandSequence' = received
    /\ UNCHANGED <<provider, plannedOutcomes, heldGates, heldRequests, nextGate,
                   released, calls, deliveries, history>>

-----------------------------------------------------------------------------
(* deliver-event, deliver-event-held-request and deliver-event-held-response:*)
(* one handler that takes the lock to sign, then (Request) to prepare the    *)
(* ingress gate, then after the application answered to abort that gate or   *)
(* (Response) to hold the observed response.                                 *)

DeliverEvent(d, received, event, mode) ==
    /\ deliveries[d].pc = "idle"
    /\ RequireNextSequence(received)
    /\ event \in EventIds(provider)
    /\ commandSequence' = received
    /\ deliveries' = [deliveries EXCEPT
          ![d] = [NewDelivery EXCEPT
                     !.pc = IF mode = "Request" THEN "signed" ELSE "sent",
                     !.app = IF mode = "Request" THEN "none" ELSE "inflight",
                     !.mode = mode, !.event = event, !.command = received]]
    /\ UNCHANGED <<provider, plannedOutcomes, heldGates, heldRequests,
                   heldResponses, nextGate, signals, calls, history>>

\* prepare_webhook_request_gate; a refusal answers 500 and sends nothing.
PrepareWebhookRequestGate(d) ==
    /\ deliveries[d].pc = "signed"
    /\ LET gate == nextGate + 1
           capability == [seed |-> provider.seed, gate |-> gate,
                          command |-> commandSequence, event |-> deliveries[d].event]
       IN \/ /\ heldRequests = {}
             /\ deliveries[d].event \in EventIds(provider)
             /\ GateAvailable
             /\ nextGate' = gate
             /\ heldRequests' = {[gate |-> gate, capability |-> capability,
                                  forwarded |-> FALSE]}
             /\ deliveries' = [deliveries EXCEPT
                   ![d].pc = "sent", ![d].app = "inflight",
                   ![d].gate = gate, ![d].capability = capability]
          \/ /\ \/ heldRequests # {}
                \/ deliveries[d].event \notin EventIds(provider)
                \/ ~GateAvailable
             /\ deliveries' = [deliveries EXCEPT ![d].pc = "finished"]
             /\ UNCHANGED <<nextGate, heldRequests>>
    /\ UNCHANGED <<provider, plannedOutcomes, heldGates, heldResponses,
                   commandSequence, signals, calls, history>>

\* An abort that does not look whether the callback already arrived.
AbortableAnyway(gate) == {h \in heldRequests : h.gate = gate}
Abortable(gate) == {h \in heldRequests : h.gate = gate /\ ~h.forwarded}

\* A handler that leaves its gate to the next reset.
AbortNever(d) == UNCHANGED <<heldRequests, cancelled>>
\* abort_unforwarded_webhook_request for the gate this handler prepared.
AbortUnforwarded(d) ==
    IF deliveries[d].mode = "Request"
    THEN /\ heldRequests' = heldRequests \ Abortable(deliveries[d].gate)
         /\ cancelled' = cancelled \cup GatesOf(Abortable(deliveries[d].gate))
    ELSE UNCHANGED <<heldRequests, cancelled>>

\* The application answered.  For a Request delivery that means the gate was
\* bypassed or its callback refused, and never success.
DeliveryAnswered(d) ==
    /\ deliveries[d].pc = "sent"
    /\ deliveries[d].app \in {"persisted", "refused"}
    /\ AbortUnforwarded(d)
    /\ deliveries' = [deliveries EXCEPT
          ![d].pc = IF deliveries[d].mode = "Response"
                    THEN "answered" ELSE "finished"]
    /\ UNCHANGED <<provider, plannedOutcomes, heldGates, heldResponses, nextGate,
                   commandSequence, released, calls, history>>

\* The 10 s client timeout, a refused connection, or a killed application.
DeliveryFails(d) ==
    /\ deliveries[d].pc = "sent"
    /\ AbortUnforwarded(d)
    /\ deliveries' = [deliveries EXCEPT ![d].pc = "finished"]
    /\ UNCHANGED <<provider, plannedOutcomes, heldGates, heldResponses, nextGate,
                   commandSequence, released, calls, history>>

ResponseHoldable(event) ==
    heldResponses = {} /\ event \in EventIds(provider) /\ GateAvailable

HoldWebhookResponse(d) ==
    /\ deliveries[d].pc = "answered"
    /\ \/ /\ ResponseHoldable(deliveries[d].event)
          /\ nextGate' = nextGate + 1
          /\ heldResponses' = heldResponses \cup
                {[gate |-> nextGate + 1, event |-> deliveries[d].event]}
          /\ deliveries' = [deliveries EXCEPT ![d].pc = "holding",
                                              ![d].gate = nextGate + 1]
       \/ /\ ~ResponseHoldable(deliveries[d].event)
          /\ deliveries' = [deliveries EXCEPT ![d].pc = "finished"]
          /\ UNCHANGED <<nextGate, heldResponses>>
    /\ UNCHANGED <<provider, plannedOutcomes, heldGates, heldRequests,
                   commandSequence, signals, calls, history>>

\* Whatever woke it, the handler closes the connection without an answer.
HeldResponseWakes(d) ==
    /\ deliveries[d].pc = "holding"
    /\ Signalled(deliveries[d].gate)
    /\ deliveries' = [deliveries EXCEPT ![d].pc = "finished"]
    /\ UNCHANGED <<managed, signals, calls, history>>

\* The control client disconnects: hyper drops the handler between two of its
\* lock regions, and what it put in the maps stays there.
ControlClientGone(d) ==
    /\ deliveries[d].pc \in {"signed", "sent", "answered", "holding"}
    /\ deliveries' = [deliveries EXCEPT ![d].pc = "finished", ![d].dropped = TRUE]
    /\ UNCHANGED <<managed, signals, calls, history>>

-----------------------------------------------------------------------------
(* The application side of one webhook request: handle_webhook of            *)
(* tests/reference-app/src/lib.rs up to the moment it persists.              *)

SetApp(d, state) == deliveries' = [deliveries EXCEPT ![d].app = state]

AppReceives(d) ==
    /\ deliveries[d].app = "inflight"
    /\ SetApp(d, "received")
    /\ UNCHANGED <<managed, signals, calls, history>>

\* Without a capability, or in an application that ignores it (the "webhook
\* request gate bypassed" answer of deliver-event-held-request).
AppPersists(d) ==
    /\ deliveries[d].app = "received"
    /\ SetApp(d, "persisted")
    /\ UNCHANGED <<managed, signals, calls, history>>

\* The ingress callback: hold_webhook_request_forwarded consumes the exact
\* unforwarded capability, or answers 403 and the application 503.
AppCallsBack(d) ==
    /\ deliveries[d].app = "received"
    /\ deliveries[d].mode = "Request"
    /\ LET matching == {h \in heldRequests :
                           h.capability = deliveries[d].capability /\ ~h.forwarded}
       IN \/ /\ matching = {}
             /\ SetApp(d, "refused")
             /\ UNCHANGED heldRequests
          \/ \E h \in matching :
                /\ heldRequests' = (heldRequests \ {h})
                                      \cup {[h EXCEPT !.forwarded = TRUE]}
                /\ deliveries' = [deliveries EXCEPT ![d].app = "waiting",
                                                    ![d].admitted = TRUE]
    /\ UNCHANGED <<provider, plannedOutcomes, heldGates, heldResponses, nextGate,
                   commandSequence, signals, calls, history>>

\* The callback is answered 204 by a release and dropped by a cancellation.
AppCallbackWakes(d) ==
    /\ deliveries[d].app = "waiting"
    /\ Signalled(deliveries[d].gate)
    /\ SetApp(d, IF deliveries[d].gate \in cancelled THEN "refused" ELSE "persisted")
    /\ UNCHANGED <<managed, signals, calls, history>>

\* A killed process loses every request it is serving, callbacks included.
AppKilled ==
    /\ \E d \in Deliveries : deliveries[d].app \in {"received", "waiting"}
    /\ deliveries' = [d \in Deliveries |->
          IF deliveries[d].app \in {"received", "waiting"}
          THEN [deliveries[d] EXCEPT !.app = "dead"] ELSE deliveries[d]]
    /\ UNCHANGED <<managed, signals, calls, history>>

-----------------------------------------------------------------------------
\* The ids an application may confirm: known ones, ones of a seed that a reset
\* has replaced, and one that no create has returned yet.
Confirmable == Seeds \X (1 .. Len(provider.intents) + 1)

DataPlane(c) ==
    \/ \E key \in Keys, request \in Requests : Create(c, key, request)
    \/ \E id \in Confirmable : ConfirmCall(c, id)
    \/ HeldCallWakes(c)
    \/ CallerGone(c)

Command(received) ==
    \/ \E seed \in Seeds, outcomes \in Plans : Reset(received, seed, outcomes)
    \/ \E gate \in Gates : \/ ReleaseGate(received, gate)
                           \/ DiscardWebhookRequest(received, gate)
                           \/ DiscardWebhookResponse(received, gate)
    \/ ConfirmEvery(received)
    \/ \E id \in IntentIds(provider), status \in Statuses :
          GenerateEvent(received, id, status)

Delivery(d) ==
    \/ \E received \in 1 .. CommandLimit, event \in EventIds(provider), mode \in Modes :
          DeliverEvent(d, received, event, mode)
    \/ PrepareWebhookRequestGate(d)
    \/ DeliveryAnswered(d)
    \/ DeliveryFails(d)
    \/ HoldWebhookResponse(d)
    \/ HeldResponseWakes(d)
    \/ ControlClientGone(d)

Ingress(d) ==
    AppReceives(d) \/ AppPersists(d) \/ AppCallsBack(d) \/ AppCallbackWakes(d)

Next ==
    \/ \E c \in Callers : DataPlane(c)
    \/ \E received \in 1 .. CommandLimit : Command(received)
    \/ \E d \in Deliveries : Delivery(d) \/ Ingress(d)
    \/ AppKilled

Spec == Init /\ [][Next]_vars

\* Ready tasks run, and the webhook client gives up after its timeout.  Nothing
\* forces an application or a control client to act.
Fairness ==
    /\ \A c \in Callers : WF_vars(HeldCallWakes(c))
    /\ \A d \in Deliveries :
          /\ WF_vars(PrepareWebhookRequestGate(d))
          /\ WF_vars(DeliveryAnswered(d) \/ DeliveryFails(d))
          /\ WF_vars(HoldWebhookResponse(d))
          /\ WF_vars(HeldResponseWakes(d))
          /\ WF_vars(AppCallbackWakes(d))

FairSpec == Spec /\ Fairness

-----------------------------------------------------------------------------
(* Properties.                                                               *)

TypeOK ==
    /\ provider \in Providers
    /\ plannedOutcomes \in Seq(Outcomes)
    /\ heldGates \in SUBSET Gates
    /\ heldRequests \in SUBSET HeldRequests
    /\ heldResponses \in SUBSET HeldResponses
    /\ nextGate \in 0 .. GateLimit
    /\ commandSequence \in 0 .. CommandLimit
    /\ released \in SUBSET Gates
    /\ cancelled \in SUBSET Gates
    /\ calls \in [Callers -> Calls]
    /\ deliveries \in [Deliveries -> DeliveryRecords]
    /\ run \in Nat
    /\ answers \in SUBSET Answers

\* The handlers that wait on gate g: a held data-plane call, a sender paused on
\* an observed response, or the callback of a forwarded webhook.
HeldCallers(g) == {c \in Callers : calls[c].pc = "held" /\ calls[c].gate = g}
HoldingDeliveries(g) ==
    {d \in Deliveries : deliveries[d].pc = "holding" /\ deliveries[d].gate = g}
WaitingCallbacks(g) ==
    {d \in Deliveries : deliveries[d].app = "waiting" /\ deliveries[d].gate = g}

\* A handler never waits on a gate that no command can reach: while the signal
\* is pending, the gate is still in the map its release, discard or reset looks
\* in.  Resets, aborts of stale handlers and discards interleave freely.
NoOrphanWaiter ==
    \A g \in Gates : g \notin Stored =>
        /\ HeldCallers(g) # {} => g \in heldGates
        /\ HoldingDeliveries(g) # {} => g \in GatesOf(heldResponses)
        /\ WaitingCallbacks(g) # {} =>
              \E h \in heldRequests : h.gate = g /\ h.forwarded

\* A gate has one owner for the life of the fixture: no two handlers ever wait
\* on it, a gate in a map was never signalled, and the handler that prepared a
\* webhook gate still finds its own capability behind it.  next_gate_sequence
\* survives reset for this reason.
GateHasOneOwner ==
    /\ \A g \in Gates :
          /\ \A c1, c2 \in HeldCallers(g) : c1 = c2
          /\ \A d1, d2 \in HoldingDeliveries(g) \cup WaitingCallbacks(g) : d1 = d2
          /\ HeldCallers(g) = {} \/ HoldingDeliveries(g) \cup WaitingCallbacks(g) = {}
          /\ g \in heldGates \cup GatesOf(heldRequests) \cup GatesOf(heldResponses)
                => g \notin Stored
    /\ \A d \in Deliveries, h \in heldRequests :
          deliveries[d].mode = "Request" /\ deliveries[d].gate = h.gate
              => deliveries[d].capability = h.capability

\* A webhook request whose ingress callback was admitted is never persisted:
\* "a request-forwarded crash cut never releases the application to persist"
\* (HeldWebhookRequest::wait), whatever commands name its gate.
ForwardedNeverPersists ==
    \A d \in Deliveries : deliveries[d].admitted => deliveries[d].app # "persisted"

\* A forwarded gate is taken out of the map only by a command: the timeout of
\* the delivery, or its late answer, leaves it for discard-webhook-request.
ForwardedLeavesByCommand ==
    [][\A h \in heldRequests :
          h.forwarded /\ h \notin heldRequests' => commandSequence' > commandSequence]_vars

\* Every executed use of a key in one run is answered with the very first
\* response of that key, also when that response was lost, delayed or a 500,
\* and also after the object was confirmed.
ReplayIsExact ==
    \A a1, a2 \in answers :
        /\ a1.run = a2.run /\ a1.executed /\ a2.executed
        /\ a1.call.op = "create" /\ a2.call.op = "create"
        /\ a1.call.key = a2.call.key
        => a1.call = a2.call /\ a1.response = a2.response

\* However an object is confirmed, and whichever snapshots are asked for in
\* between: it has succeeded exactly when it has its succeeded event, and no
\* object has two events of a kind (confirm_all, Confirm and EnsureEvent agree).
SucceededIffEvent ==
    LET EventsOf(id, kind) ==
            {e \in DOMAIN provider.events :
                provider.events[e].intent = id /\ provider.events[e].kind = kind}
    IN  \A i \in DOMAIN provider.intents :
            LET pi == provider.intents[i] IN
            /\ pi.status = "Succeeded" <=> EventsOf(pi.id, "Succeeded") # {}
            /\ \A kind \in {provider.events[e].kind : e \in DOMAIN provider.events} :
                  Cardinality(EventsOf(pi.id, kind)) <= 1

\* Between resets objects are only added, never leave succeeded, and events are
\* only appended: an older snapshot asked for late does not regress the provider.
ProviderMonotone ==
    [][run' = run =>
          /\ \A i \in DOMAIN provider.intents :
                /\ provider'.intents[i].id = provider.intents[i].id
                /\ provider.intents[i].status = "Succeeded"
                      => provider'.intents[i].status = "Succeeded"
          /\ \A e \in DOMAIN provider.events : provider'.events[e] = provider.events[e]]_vars

\* Every Request delivery ends, and it leaves no unforwarded gate behind that
\* would block the next one, unless its control client disconnected.
RequestDeliverySettles ==
    \A d \in Deliveries :
        (deliveries[d].pc = "signed") ~>
            /\ deliveries[d].pc = "finished"
            /\ \/ deliveries[d].dropped
               \/ \A h \in heldRequests : h.gate = deliveries[d].gate => h.forwarded
=============================================================================
