--------------------------- MODULE ReferenceAppProofs ---------------------------
(***************************************************************************)
(* Proofs about ReferenceApp, for any checkouts, webhook requests, drivers *)
(* and number of kills: what its repaired modes promise of the provider's  *)
(* objects, the database and the ledger.                                   *)
(***************************************************************************)
EXTENDS ReferenceApp, FiniteSetTheorems, SequenceTheorems, TLAPS

-----------------------------------------------------------------------------
(* The provider.                                                            *)

\* Objects and events are named by their positions; an event is of an object
\* there is, and tells a success only of one that succeeded.
ProviderOK(p) ==
    /\ p \in Providers
    /\ \A i \in 1 .. Len(p.intents) : p.intents[i].id = <<Seed, i>>
    /\ \A i \in 1 .. Len(p.events) :
          /\ p.events[i].id = <<Seed, i>>
          /\ \E k \in 1 .. Len(p.intents) :
                /\ p.events[i].intent = <<Seed, k>>
                /\ p.events[i].kind = "Succeeded" => p.intents[k].status = "Succeeded"
    /\ \A key \in Checkouts \X Attempts :
          Cached(p, key) /\ p.idempotency[key].response.code = 200 =>
              p.idempotency[key].response.body[1].id \in IntentIds(p)

\* Objects stay, those that succeeded do, and so do the events.
Grows(p, q) ==
    /\ Len(p.intents) <= Len(q.intents)
    /\ \A i \in 1 .. Len(p.intents) :
          p.intents[i].status = "Succeeded" => q.intents[i].status = "Succeeded"
    /\ Len(p.events) <= Len(q.events)
    /\ \A i \in 1 .. Len(p.events) : q.events[i] = p.events[i]

\* The fields of a provider.
LEMMA ProviderFields ==
  ASSUME NEW p \in Providers
  PROVE  /\ p = [seed |-> p.seed, intents |-> p.intents, events |-> p.events,
                 idempotency |-> p.idempotency]
         /\ p.seed = Seed
         /\ p.intents \in Seq(PaymentIntents) /\ p.events \in Seq(Events)
         /\ p.idempotency \in [Checkouts \X Attempts -> Entries \cup {NoEntry}]
         /\ Len(p.intents) \in Nat /\ DOMAIN p.intents = 1 .. Len(p.intents)
         /\ Len(p.events) \in Nat /\ DOMAIN p.events = 1 .. Len(p.events)
  BY DEF Providers

\* The objects of a provider, by their positions.
LEMMA Positions ==
  ASSUME NEW p, ProviderOK(p)
  PROVE  /\ IntentIds(p) = {<<Seed, i>> : i \in 1 .. Len(p.intents)}
         /\ \A i \in 1 .. Len(p.intents) : PositionOf(p, <<Seed, i>>) = i
  <1>1. /\ DOMAIN p.intents = 1 .. Len(p.intents) /\ Len(p.intents) \in Nat
        /\ \A i \in 1 .. Len(p.intents) : p.intents[i].id = <<Seed, i>>
    BY ProviderFields DEF ProviderOK
  <1>2. IntentIds(p) = {<<Seed, i>> : i \in 1 .. Len(p.intents)}
    BY <1>1 DEF IntentIds
  <1>3. ASSUME NEW i \in 1 .. Len(p.intents) PROVE PositionOf(p, <<Seed, i>>) = i
    <2>1. \A k \in DOMAIN p.intents : p.intents[k].id = <<Seed, i>> <=> k = i
      BY <1>1
    <2> QED  BY <1>1, <2>1 DEF PositionOf
  <1> QED  BY <1>2, <1>3

\* What is known of an object stays so while the provider grows.
LEMMA KnownStays ==
  ASSUME NEW p, NEW q, ProviderOK(p), ProviderOK(q), Grows(p, q), NEW id \in IntentIds(p)
  PROVE  /\ id \in IntentIds(q)
         /\ p.intents[PositionOf(p, id)].status = "Succeeded" =>
               q.intents[PositionOf(q, id)].status = "Succeeded"
  <1>1. PICK i \in 1 .. Len(p.intents) : id = <<Seed, i>>
    BY Positions
  <1>2. Len(p.intents) \in Nat /\ Len(q.intents) \in Nat
    BY ProviderFields DEF ProviderOK
  <1>3. i \in 1 .. Len(q.intents)
    BY <1>1, <1>2 DEF Grows
  <1> QED  BY <1>1, <1>3, Positions DEF Grows

\* The intent a create makes.
LEMMA NewIntentType ==
  ASSUME NEW p, ProviderOK(p)
  PROVE  /\ NewIntent(p, Operation) \in PaymentIntents
         /\ NewIntent(p, Operation).id = <<Seed, Len(p.intents) + 1>>
         /\ NewIntent(p, Operation).status = "RequiresConfirmation"
  <1>1. Len(p.intents) \in Nat /\ p.seed = Seed
    BY ProviderFields DEF ProviderOK
  <1> QED  BY <1>1 DEF NewIntent, PaymentIntents, Ids, Statuses

\* The responses to a create that made the intent pi, or made none.
LEMMA CreateTypes ==
  ASSUME NEW pi \in PaymentIntents, NEW outcome \in Outcomes
  PROVE  /\ ExecutedResponse(outcome, pi) \in Responses
         /\ ExecutedResponse(outcome, pi).code = 200 =>
               ExecutedResponse(outcome, pi).body[1] = pi
         /\ [request |-> Operation, intent |-> pi,
             response |-> ExecutedResponse(outcome, pi)] \in Entries
         /\ PreExecutionResponse(outcome) \in Responses
         /\ PreExecutionResponse(outcome).code # 200
  <1>3. <<pi>> \in Seq(PaymentIntents) /\ <<>> \in Seq(PaymentIntents) /\ <<pi>>[1] = pi
    OBVIOUS
  <1>4. ExecutedResponse(outcome, pi) \in Responses
    BY <1>3 DEF ExecutedResponse, ErrorResponse, ObjectResponse, Responses
  <1>5. ExecutedResponse(outcome, pi).code = 200 => ExecutedResponse(outcome, pi).body[1] = pi
    BY <1>3 DEF ExecutedResponse, ErrorResponse, ObjectResponse
  <1>6. PreExecutionResponse(outcome) \in Responses /\ PreExecutionResponse(outcome).code # 200
    BY <1>3 DEF PreExecutionResponse, ErrorResponse, Responses
  <1>7. [request |-> Operation, intent |-> pi,
         response |-> ExecutedResponse(outcome, pi)] \in Entries
    BY <1>4 DEF Entries
  <1> QED  BY <1>4, <1>5, <1>6, <1>7

\* A response 200 carries the intent the create made.
LEMMA CreateBody ==
  ASSUME NEW pi \in PaymentIntents, NEW outcome \in Outcomes,
         ExecutedResponse(outcome, pi).code = 200
  PROVE  ExecutedResponse(outcome, pi).body[1] = pi
  BY DEF ExecutedResponse, ErrorResponse, ObjectResponse

\* A create that executes.
LEMMA Executed ==
  ASSUME NEW p, ProviderOK(p), NEW key \in Checkouts \X Attempts, NEW outcome \in Outcomes,
         Executes(p, key, outcome)
  PROVE  LET q == CreateEffect(p, key, Operation, outcome) IN
         /\ ProviderOK(q) /\ Grows(p, q) /\ Cached(q, key)
         /\ Len(q.intents) = Len(p.intents) + 1
  <1> DEFINE pi == NewIntent(p, Operation)
             response == ExecutedResponse(outcome, pi)
             entry == [request |-> Operation, intent |-> pi, response |-> response]
             intents == Append(p.intents, pi)
             cache == [p.idempotency EXCEPT ![key] = entry]
             q == [p EXCEPT !.intents = Append(@, pi), !.idempotency[key] = entry]
  <1>0. /\ p \in Providers /\ p.intents \in Seq(PaymentIntents) /\ p.seed = Seed
        /\ p.idempotency \in [Checkouts \X Attempts -> Entries \cup {NoEntry}]
        /\ Len(p.intents) \in Nat /\ Len(p.events) \in Nat
        /\ p = [seed |-> p.seed, intents |-> p.intents, events |-> p.events,
                idempotency |-> p.idempotency]
    BY ProviderFields DEF ProviderOK
  <1>1. CreateEffect(p, key, Operation, outcome) = q
    BY DEF CreateEffect
  <1>2. /\ pi \in PaymentIntents /\ pi.id = <<Seed, Len(p.intents) + 1>>
        /\ entry \in Entries
        /\ response.code = 200 => response.body[1].id = <<Seed, Len(p.intents) + 1>>
    <2>1. pi \in PaymentIntents /\ pi.id = <<Seed, Len(p.intents) + 1>>
      BY NewIntentType
    <2> HIDE DEF pi
    <2> QED  BY <2>1, CreateTypes
  <1> HIDE DEF pi, response
  <1>4. q.intents = intents /\ q.events = p.events /\ q.idempotency = cache /\ q.seed = p.seed
    BY <1>0 DEF Providers
  <1>5. /\ intents \in Seq(PaymentIntents) /\ Len(intents) = Len(p.intents) + 1
        /\ \A i \in 1 .. Len(p.intents) : intents[i] = p.intents[i]
        /\ intents[Len(p.intents) + 1] = pi
    BY <1>0, <1>2
  <1>6. /\ cache \in [Checkouts \X Attempts -> Entries \cup {NoEntry}]
        /\ cache[key] = entry /\ entry # NoEntry
        /\ \A other \in Checkouts \X Attempts : other # key => cache[other] = p.idempotency[other]
    BY <1>0, <1>2, ProviderAssumption
  <1>7. q \in Providers
    BY <1>0, <1>5, <1>6 DEF Providers
  <1> HIDE DEF q, intents, cache, entry
  <1>8. IntentIds(p) \subseteq IntentIds(q) /\ <<Seed, Len(p.intents) + 1>> \in IntentIds(q)
    <2>1. \A i \in 1 .. Len(q.intents) : q.intents[i].id = <<Seed, i>>
      <3>1. \A i \in 1 .. Len(p.intents) : intents[i].id = <<Seed, i>>
        BY <1>5 DEF ProviderOK
      <3>2. intents[Len(p.intents) + 1].id = <<Seed, Len(p.intents) + 1>>
        BY <1>2, <1>5
      <3> QED  BY <1>0, <1>4, <1>5, <3>1, <3>2
    <2>2. DOMAIN q.intents = 1 .. Len(p.intents) + 1
      BY <1>4, <1>5, <1>7, ProviderFields
    <2>3. \A i \in DOMAIN q.intents : <<Seed, i>> \in IntentIds(q)
      BY <1>4, <1>5, <2>1, <2>2 DEF IntentIds
    <2>4. \A id \in IntentIds(p) : \E i \in 1 .. Len(p.intents) : id = <<Seed, i>>
      BY Positions
    <2> QED  BY <1>0, <2>2, <2>3, <2>4
  <1>9. ProviderOK(q)
    <2>1. ASSUME NEW i \in 1 .. Len(q.intents) PROVE q.intents[i].id = <<Seed, i>>
      <3>1. CASE i \in 1 .. Len(p.intents)
        <4>1. q.intents[i] = p.intents[i]
          BY <1>4, <1>5, <3>1
        <4>2. p.intents[i].id = <<Seed, i>>
          BY <3>1 DEF ProviderOK
        <4> QED  BY <4>1, <4>2
      <3>2. CASE i = Len(p.intents) + 1
        BY <1>2, <1>4, <1>5, <3>2
      <3> QED  BY <1>0, <1>4, <1>5, <3>1, <3>2
    <2>2. ASSUME NEW i \in 1 .. Len(q.events)
          PROVE  /\ q.events[i].id = <<Seed, i>>
                 /\ \E k \in 1 .. Len(q.intents) :
                       /\ q.events[i].intent = <<Seed, k>>
                       /\ q.events[i].kind = "Succeeded" => q.intents[k].status = "Succeeded"
      <3>1. i \in 1 .. Len(p.events) /\ q.events[i] = p.events[i]
        BY <1>4
      <3>2. /\ p.events[i].id = <<Seed, i>>
            /\ \E k \in 1 .. Len(p.intents) :
                  /\ p.events[i].intent = <<Seed, k>>
                  /\ p.events[i].kind = "Succeeded" => p.intents[k].status = "Succeeded"
        BY <3>1 DEF ProviderOK
      <3>3. \A k \in 1 .. Len(p.intents) :
               k \in 1 .. Len(q.intents) /\ q.intents[k] = p.intents[k]
        BY <1>0, <1>4, <1>5
      <3> QED  BY <3>1, <3>2, <3>3
    <2>3. ASSUME NEW other \in Checkouts \X Attempts, Cached(q, other),
                 q.idempotency[other].response.code = 200
          PROVE  q.idempotency[other].response.body[1].id \in IntentIds(q)
      <3>1. CASE other = key
        BY <1>2, <1>4, <1>6, <1>8, <2>3, <3>1 DEF entry
      <3>2. CASE other # key
        BY <1>4, <1>6, <1>8, <2>3, <3>2 DEF ProviderOK, Cached
      <3> QED  BY <3>1, <3>2
    <2> QED  BY <1>7, <2>1, <2>2, <2>3 DEF ProviderOK
  <1>10. Grows(p, q)
    BY <1>0, <1>4, <1>5 DEF Grows
  <1>11. Cached(q, key)
    BY <1>4, <1>6 DEF Cached
  <1> QED  BY <1>1, <1>4, <1>5, <1>9, <1>10, <1>11

\* An event of an object, of its success only if it succeeded.
LEMMA EventEnsured ==
  ASSUME NEW p, ProviderOK(p), NEW k \in 1 .. Len(p.intents), NEW kind \in Statuses,
         kind = "Succeeded" => p.intents[k].status = "Succeeded"
  PROVE  LET q == EnsureEvent(p, <<Seed, k>>, kind) IN
         ProviderOK(q) /\ Grows(p, q) /\ q.intents = p.intents
  <1> DEFINE event == [id |-> <<p.seed, Len(p.events) + 1>>, kind |-> kind,
                       intent |-> <<Seed, k>>]
             events == Append(p.events, event)
             q == [p EXCEPT !.events = Append(@, event)]
  <1>0. /\ p \in Providers /\ p.intents \in Seq(PaymentIntents) /\ p.seed = Seed
        /\ p.events \in Seq(Events) /\ Len(p.intents) \in Nat /\ Len(p.events) \in Nat
    BY ProviderFields DEF ProviderOK
  <1>1. CASE HasEvent(p, <<Seed, k>>, kind)
    BY <1>0, <1>1 DEF EnsureEvent, Grows
  <1>2. CASE ~ HasEvent(p, <<Seed, k>>, kind)
    <2>1. EnsureEvent(p, <<Seed, k>>, kind) = q
      BY <1>2 DEF EnsureEvent
    <2>2. /\ event \in Events /\ event.id = <<Seed, Len(p.events) + 1>>
          /\ event.kind = kind /\ event.intent = <<Seed, k>>
      BY <1>0 DEF Events, Ids
    <2> HIDE DEF event
    <2>3. /\ events \in Seq(Events) /\ Len(events) = Len(p.events) + 1
          /\ \A i \in 1 .. Len(p.events) : events[i] = p.events[i]
          /\ events[Len(p.events) + 1] = event
      BY <1>0, <2>2
    <2>4. /\ q.intents = p.intents /\ q.events = events
          /\ q.idempotency = p.idempotency /\ q \in Providers
      BY <1>0, <2>3 DEF Providers
    <2>5. IntentIds(q) = IntentIds(p)
      BY <2>4 DEF IntentIds
    <2> HIDE DEF q, events
    <2>6. ASSUME NEW i \in 1 .. Len(q.events)
          PROVE  /\ q.events[i].id = <<Seed, i>>
                 /\ \E n \in 1 .. Len(q.intents) :
                       /\ q.events[i].intent = <<Seed, n>>
                       /\ q.events[i].kind = "Succeeded" => q.intents[n].status = "Succeeded"
      <3>1. CASE i \in 1 .. Len(p.events)
        <4>1. q.events[i] = p.events[i]
          BY <2>3, <2>4, <3>1
        <4>2. /\ p.events[i].id = <<Seed, i>>
              /\ \E n \in 1 .. Len(p.intents) :
                    /\ p.events[i].intent = <<Seed, n>>
                    /\ p.events[i].kind = "Succeeded" => p.intents[n].status = "Succeeded"
          BY <3>1 DEF ProviderOK
        <4> QED  BY <2>4, <4>1, <4>2
      <3>2. CASE i = Len(p.events) + 1
        BY <2>2, <2>3, <2>4, <3>2
      <3> QED  BY <1>0, <2>3, <2>4, <3>1, <3>2
    <2>7. ProviderOK(q)
      BY <2>4, <2>5, <2>6 DEF ProviderOK, Cached
    <2>8. Grows(p, q)
      BY <1>0, <2>3, <2>4 DEF Grows
    <2> QED  BY <2>1, <2>4, <2>7, <2>8
  <1> QED  BY <1>1, <1>2

\* A confirmation makes the object succeed, and tells it by an event.
LEMMA Confirmed ==
  ASSUME NEW p, ProviderOK(p), NEW k \in 1 .. Len(p.intents)
  PROVE  LET q == Confirm(p, <<Seed, k>>) IN
         /\ ProviderOK(q) /\ Grows(p, q) /\ Len(q.intents) = Len(p.intents)
         /\ q.intents[k].status = "Succeeded"
         /\ \A key \in Checkouts \X Attempts : Cached(q, key) <=> Cached(p, key)
  <1> DEFINE intents == [p.intents EXCEPT ![k] = [@ EXCEPT !.status = "Succeeded"]]
             r == [p EXCEPT !.intents[k].status = "Succeeded"]
  <1>0. /\ p \in Providers /\ p.intents \in Seq(PaymentIntents) /\ p.seed = Seed
        /\ p.events \in Seq(Events) /\ Len(p.intents) \in Nat /\ Len(p.events) \in Nat
        /\ DOMAIN p.intents = 1 .. Len(p.intents)
        /\ \A i \in 1 .. Len(p.intents) : p.intents[i] \in PaymentIntents
    BY ProviderFields DEF ProviderOK
  <1>a. PositionOf(p, <<Seed, k>>) = k
    BY Positions
  <1>1. CASE p.intents[k].status = "Succeeded"
    <2>1. Confirm(p, <<Seed, k>>) = p
      BY <1>1, <1>a DEF Confirm
    <2>2. Grows(p, p)
      BY <1>0 DEF Grows
    <2> QED  BY <1>1, <2>1, <2>2
  <1>2. CASE p.intents[k].status # "Succeeded"
    <2>1. Confirm(p, <<Seed, k>>) = EnsureEvent(r, <<Seed, k>>, "Succeeded")
      BY <1>2, <1>a DEF Confirm
    <2>2. [p.intents[k] EXCEPT !.status = "Succeeded"] \in PaymentIntents
      BY <1>0 DEF PaymentIntents, Statuses
    <2>3. /\ intents \in Seq(PaymentIntents) /\ Len(intents) = Len(p.intents)
          /\ \A i \in 1 .. Len(p.intents) :
                intents[i] = IF i = k THEN [p.intents[k] EXCEPT !.status = "Succeeded"]
                             ELSE p.intents[i]
      BY <1>0, <2>2, ExceptSeq
    <2>4. /\ r.intents = intents /\ r.events = p.events
          /\ r.idempotency = p.idempotency /\ r \in Providers
      BY <1>0, <2>3 DEF Providers
    <2>5. \A i \in 1 .. Len(p.intents) :
             /\ intents[i].id = <<Seed, i>>
             /\ intents[i].status = IF i = k THEN "Succeeded" ELSE p.intents[i].status
      BY <1>0, <2>3 DEF PaymentIntents, ProviderOK
    <2> HIDE DEF intents, r
    <2>6. ProviderOK(r)
      <3>1. IntentIds(r) = IntentIds(p)
        <4>1. DOMAIN r.intents = 1 .. Len(p.intents)
          BY <2>3, <2>4, ProviderFields
        <4>2. \A i \in 1 .. Len(p.intents) : r.intents[i].id = p.intents[i].id
          BY <2>4, <2>5 DEF ProviderOK
        <4> QED  BY <1>0, <4>1, <4>2 DEF IntentIds
      <3>2. ASSUME NEW i \in 1 .. Len(r.events)
            PROVE  /\ r.events[i].id = <<Seed, i>>
                   /\ \E n \in 1 .. Len(r.intents) :
                       /\ r.events[i].intent = <<Seed, n>>
                       /\ r.events[i].kind = "Succeeded" => r.intents[n].status = "Succeeded"
        BY <2>3, <2>4, <2>5 DEF ProviderOK
      <3> QED  BY <2>3, <2>4, <2>5, <3>1, <3>2 DEF ProviderOK, Cached
    <2>7. Grows(p, r)
      BY <1>0, <2>3, <2>4, <2>5 DEF Grows
    <2> DEFINE q == EnsureEvent(r, <<Seed, k>>, "Succeeded")
    <2>8. ProviderOK(q) /\ Grows(r, q) /\ q.intents = r.intents
      BY <2>3, <2>4, <2>5, <2>6, EventEnsured DEF Statuses
    <2>9. q.idempotency = r.idempotency
      BY <2>4 DEF EnsureEvent, Providers
    <2> HIDE DEF q
    <2>10. Grows(p, q)
      <3>1. Len(r.events) \in Nat /\ Len(q.events) \in Nat
        BY <2>6, <2>8, ProviderFields DEF ProviderOK
      <3> QED  BY <1>0, <2>4, <2>7, <2>8, <3>1 DEF Grows
    <2> QED  BY <2>1, <2>3, <2>4, <2>5, <2>8, <2>9, <2>10 DEF Cached, q
  <1> QED  BY <1>1, <1>2
-----------------------------------------------------------------------------
(* Types.                                                                   *)

AtWork == {"search", "create", "held", "persist", "unsettle", "reconcile"}
CheckoutRecords ==
    [pc : {"idle"} \cup AtWork \cup Finished, attempt : Attempts,
     id : Ids \cup {NoValue}, response : Responses \cup {NoValue}]

InHand == {"event", "settle", "reconcile"} \cup InTransaction
WebhookRecords ==
    [pc : {"idle"} \cup InHand \cup Finished, event : Events \cup {NoValue},
     first : BOOLEAN, inserted : BOOLEAN,
     current : {"pending", "succeeded", NoValue}, applied : BOOLEAN]

Polling == {"check", "retrieve", "update", "insert"}
ReconcilerRecords == [pc : {"none", "done"} \cup Polling, id : Ids \cup {NoValue}]

\* The events that a webhook request may carry.
KnownEvents == {provider.events[i] : i \in 1 .. Len(provider.events)}

TypeOK ==
    /\ ProviderOK(provider)
    /\ checkouts \in [Checkouts -> CheckoutRecords]
    /\ webhooks \in [Webhooks -> WebhookRecords]
    /\ reconcilers \in [Spawners -> ReconcilerRecords]
    /\ \A w \in Webhooks : webhooks[w].pc # "idle" => webhooks[w].event \in KnownEvents
    /\ \A id \in DOMAIN payments : payments[id] \in {"pending", "succeeded"}
    /\ \A w \in Webhooks :
          webhooks[w].pc = "read" /\ ~ webhooks[w].inserted => IntentOf(w) \in DOMAIN payments

\* The provider only grows, whoever calls it.
LEMMA ProviderSteps ==
  ASSUME TypeOK, [Next]_vars
  PROVE  /\ ProviderOK(provider') /\ Grows(provider, provider')
         /\ KnownEvents \subseteq KnownEvents'
  <1>0. /\ ProviderOK(provider) /\ Len(provider.intents) \in Nat /\ Len(provider.events) \in Nat
        /\ IntentIds(provider) = {<<Seed, i>> : i \in 1 .. Len(provider.intents)}
    BY ProviderFields, Positions DEF TypeOK, ProviderOK
  <1>a. SUFFICES ProviderOK(provider') /\ Grows(provider, provider')
    <2>1. ASSUME ProviderOK(provider'), Grows(provider, provider')
          PROVE  KnownEvents \subseteq KnownEvents'
      <3>1. Len(provider'.events) \in Nat
        BY <2>1, ProviderFields DEF ProviderOK
      <3>2. \A i \in 1 .. Len(provider.events) :
               i \in 1 .. Len(provider'.events) /\ provider.events[i] = provider'.events[i]
        BY <1>0, <2>1, <3>1 DEF Grows
      <3> QED  BY <3>2 DEF KnownEvents
    <2> QED  BY <2>1
  <1>b. UNCHANGED provider => ProviderOK(provider') /\ Grows(provider, provider')
    BY <1>0 DEF Grows
  <1>1. ASSUME NEW c \in Checkouts, NEW outcome \in Outcomes, CheckoutCreates(c, outcome)
        PROVE  ProviderOK(provider') /\ Grows(provider, provider')
    <2> DEFINE key == KeyOfAttempt(c, checkouts[c].attempt)
    <2>1. provider' = CreateEffect(provider, key, Operation, outcome)
      BY <1>1 DEF CheckoutCreates
    <2>2. key \in Checkouts \X Attempts
      <3>1. checkouts[c].attempt \in Attempts
        BY DEF TypeOK, CheckoutRecords
      <3> QED  BY <3>1 DEF KeyOfAttempt, ChangedKey, Attempts
    <2>3. CASE Executes(provider, key, outcome)
      <3> HIDE DEF key
      <3> QED  BY <1>0, <2>1, <2>2, <2>3, Executed
    <2>4. CASE ~ Executes(provider, key, outcome)
      BY <1>b, <2>1, <2>4 DEF CreateEffect
    <2> QED  BY <2>3, <2>4
  <1>2. ASSUME NEW id \in IntentIds(provider), ConfirmsIntent(id) \/ GeneratesOlderEvent(id)
        PROVE  ProviderOK(provider') /\ Grows(provider, provider')
    <2>1. PICK k \in 1 .. Len(provider.intents) : id = <<Seed, k>>
      BY <1>0
    <2>2. CASE ConfirmsIntent(id)
      BY <1>0, <2>1, <2>2, Confirmed DEF ConfirmsIntent
    <2>3. CASE GeneratesOlderEvent(id)
      <3>1. provider' = EnsureEvent(provider, <<Seed, k>>, "RequiresConfirmation")
        BY <2>1, <2>3 DEF GeneratesOlderEvent, EventSnapshot
      <3> QED  BY <1>0, <3>1, EventEnsured DEF Statuses
    <2> QED  BY <1>2, <2>2, <2>3
  <1>3. ASSUME NEW c \in Checkouts, Checkout(c)
        PROVE  ProviderOK(provider') /\ Grows(provider, provider')
    BY <1>b, <1>1, <1>3
       DEF Checkout, CheckoutBegins, CheckoutSearches, HeldCreateAnswered,
           CheckoutPersists, CheckoutUnsettles, CheckoutAnswers, CheckoutFails
  <1>4. ASSUME NEW w \in Webhooks,
               \/ \E i \in DOMAIN provider.events : WebhookArrives(w, provider.events[i])
               \/ WebhookTask(w) \/ WebhookFails(w)
        PROVE  UNCHANGED provider
    BY <1>4
       DEF WebhookArrives, WebhookTask, WebhookInsertsEvent, WebhookInsertsPayment,
           WebhookReadsStatus, WebhookUpdates, WebhookCommits, WebhookSettles,
           WebhookStartsReconciliation, WebhookFails
  <1>5. ASSUME NEW s \in Spawners, Reconciler(s) PROVE UNCHANGED provider
    BY <1>5
       DEF Reconciler, ReconcilerChecks, ReconcilerRetrieves, ReconcilerUpdates,
           ReconcilerSettles, ReconcilerGivesUp
  <1>6. CASE Killed \/ UNCHANGED vars
    BY <1>b, <1>6 DEF Killed, vars
  <1> QED
    BY <1>b, <1>2, <1>3, <1>4, <1>5, <1>6 DEF Next

\* A checkout at another place, and all the others as they are.
LEMMA CheckoutMoves ==
  ASSUME TypeOK, NEW c \in Checkouts, NEW pc \in {"idle"} \cup AtWork \cup Finished,
         Goto(c, pc)
  PROVE  /\ checkouts' \in [Checkouts -> CheckoutRecords]
         /\ checkouts'[c].pc = pc /\ checkouts'[c].id = checkouts[c].id
         /\ checkouts'[c].attempt = checkouts[c].attempt
         /\ checkouts'[c].response = checkouts[c].response
         /\ \A d \in Checkouts \ {c} : checkouts'[d] = checkouts[d]
  <1>1. checkouts[c] \in CheckoutRecords /\ checkouts \in [Checkouts -> CheckoutRecords]
    BY DEF TypeOK
  <1> DEFINE moved == [checkouts[c] EXCEPT !.pc = pc]
  <1>2. /\ moved \in CheckoutRecords /\ moved.pc = pc /\ moved.id = checkouts[c].id
        /\ moved.attempt = checkouts[c].attempt /\ moved.response = checkouts[c].response
    BY <1>1 DEF CheckoutRecords
  <1>3. checkouts' = [checkouts EXCEPT ![c] = moved]
    BY DEF Goto
  <1> HIDE DEF moved
  <1> QED  BY <1>1, <1>2, <1>3

\* And one whose response is read.
LEMMA Decodes ==
  ASSUME TypeOK, NEW c \in Checkouts, NEW response \in Responses, Decode(c, response),
         Accepted(response) => response.body[1].id \in Ids
  PROVE  /\ checkouts' \in [Checkouts -> CheckoutRecords]
         /\ \/ checkouts'[c].pc = "failed"
            \/ /\ checkouts'[c].pc = "persist" /\ Accepted(response)
               /\ checkouts'[c].id = response.body[1].id
         /\ \A d \in Checkouts \ {c} : checkouts'[d] = checkouts[d]
  <1>1. checkouts[c] \in CheckoutRecords /\ checkouts \in [Checkouts -> CheckoutRecords]
    BY DEF TypeOK
  <1> DEFINE pc == IF Accepted(response) THEN "persist" ELSE "failed"
             id == IF Accepted(response) THEN response.body[1].id ELSE checkouts[c].id
             moved == [checkouts[c] EXCEPT !.pc = pc, !.id = id, !.response = NoValue]
  <1>2. pc \in AtWork \cup Finished /\ id \in Ids \cup {NoValue}
    BY <1>1 DEF CheckoutRecords, AtWork, Finished
  <1>3. checkouts' = [checkouts EXCEPT ![c] = moved]
    BY DEF Decode
  <1>4. moved \in CheckoutRecords /\ moved.pc = pc /\ moved.id = id
    <2> HIDE DEF pc, id
    <2> QED  BY <1>1, <1>2 DEF CheckoutRecords
  <1> HIDE DEF moved
  <1> QED  BY <1>1, <1>3, <1>4
-----------------------------------------------------------------------------
(* What each task knows of the provider.                                    *)

\* A response with an object names one that the provider holds.
CheckoutKnows(c) ==
    /\ checkouts[c].pc \in {"persist", "unsettle", "reconcile"} =>
          checkouts[c].id \in IntentIds(provider)
    /\ checkouts[c].pc = "held" =>
          /\ checkouts[c].response \in Responses
          /\ checkouts[c].response.code = 200 =>
                checkouts[c].response.body[1].id \in IntentIds(provider)

Succeeded(id) == id \in IntentIds(provider) /\ StatusAt(id) = "Succeeded"

ReconcilerKnows(s) ==
    /\ reconcilers[s].pc \in Polling => reconcilers[s].id \in IntentIds(provider)
    /\ reconcilers[s].pc = "update" => Succeeded(reconcilers[s].id)

LocalInv ==
    /\ TypeOK
    /\ \A c \in Checkouts : CheckoutKnows(c)
    /\ \A s \in Spawners : ReconcilerKnows(s)
    /\ LocalNeverAhead

\* The answer to a create, cached or not.
LEMMA CreateAnswers ==
  ASSUME NEW p, ProviderOK(p), NEW key \in Checkouts \X Attempts, NEW outcome \in Outcomes
  PROVE  LET q == CreateEffect(p, key, Operation, outcome)
             response == CreateResponse(p, key, Operation, outcome)
         IN /\ response \in Responses
            /\ response.code = 200 => response.body[1].id \in IntentIds(q)
  <1> DEFINE q == CreateEffect(p, key, Operation, outcome)
             response == CreateResponse(p, key, Operation, outcome)
  <1>0. p.idempotency \in [Checkouts \X Attempts -> Entries \cup {NoEntry}]
        /\ Len(p.intents) \in Nat
    BY ProviderFields DEF ProviderOK
  <1>1. CASE Cached(p, key)
    <2>1. q = p /\ response = p.idempotency[key].response
      BY <1>1 DEF CreateEffect, Executes, CreateResponse
    <2>2. p.idempotency[key] \in Entries
      BY <1>0, <1>1 DEF Cached
    <2>3. response \in Responses
      BY <2>1, <2>2 DEF Entries
    <2> QED  BY <1>1, <2>1, <2>3 DEF ProviderOK
  <1>2. CASE ~ Cached(p, key) /\ outcome \in PreExecution
    <2>1. response = PreExecutionResponse(outcome)
      BY <1>2 DEF CreateResponse
    <2>2. PreExecutionResponse(outcome) \in Responses /\ PreExecutionResponse(outcome).code # 200
      BY NewIntentType, CreateTypes
    <2> QED  BY <2>1, <2>2
  <1>3. CASE ~ Cached(p, key) /\ outcome \notin PreExecution
    <2>1. response = ExecutedResponse(outcome, NewIntent(p, Operation))
      BY <1>3 DEF CreateResponse
    <2>2. ProviderOK(q) /\ Len(q.intents) = Len(p.intents) + 1
      BY <1>3, Executed DEF Executes
    <2> HIDE DEF q
    <2>3. <<Seed, Len(p.intents) + 1>> \in IntentIds(q)
      BY <1>0, <2>2, Positions
    <2> DEFINE pi == NewIntent(p, Operation)
               executed == ExecutedResponse(outcome, pi)
    <2>4. pi \in PaymentIntents /\ pi.id = <<Seed, Len(p.intents) + 1>>
      BY NewIntentType
    <2>5. response = executed
      BY <2>1
    <2> HIDE DEF pi
    <2>6. executed \in Responses
      BY <2>4, CreateTypes
    <2>7. ASSUME executed.code = 200 PROVE executed.body[1] = pi
      BY <2>4, <2>7, CreateBody
    <2> HIDE DEF executed
    <2> QED  BY <2>3, <2>4, <2>5, <2>6, <2>7 DEF q
  <1> QED  BY <1>1, <1>2, <1>3

\* A step of a checkout keeps what it knows, and touches no other checkout.
LEMMA CheckoutSteps ==
  ASSUME TypeOK, NEW c \in Checkouts, CheckoutKnows(c), Checkout(c),
         ProviderOK(provider'), Grows(provider, provider')
  PROVE  /\ checkouts' \in [Checkouts -> CheckoutRecords]
         /\ CheckoutKnows(c)'
         /\ \A d \in Checkouts \ {c} : checkouts'[d] = checkouts[d]
         /\ UNCHANGED <<webhooks, driver, kills>>
  <1>0. /\ ProviderOK(provider)
        /\ checkouts[c] \in CheckoutRecords /\ checkouts \in [Checkouts -> CheckoutRecords]
        /\ IntentIds(provider) \subseteq IntentIds(provider')
        /\ IntentIds(provider) \subseteq Ids /\ IntentIds(provider') \subseteq Ids
    <2>1. ProviderOK(provider)
          /\ checkouts[c] \in CheckoutRecords /\ checkouts \in [Checkouts -> CheckoutRecords]
      BY DEF TypeOK
    <2>2. IntentIds(provider) \subseteq IntentIds(provider')
      BY <2>1, KnownStays
    <2>3. IntentIds(provider') \subseteq Ids
      <3>1. Len(provider'.intents) \in Nat
        BY ProviderFields DEF ProviderOK
      <3> QED  BY <3>1, Positions DEF Ids
    <2> QED  BY <2>1, <2>2, <2>3
  <1>a. UNCHANGED <<webhooks, driver, kills>>
    BY DEF Checkout, CheckoutBegins, CheckoutSearches, CheckoutCreates, HeldCreateAnswered,
           CheckoutPersists, CheckoutUnsettles, CheckoutAnswers, CheckoutFails
  <1>1. ASSUME NEW pc \in AtWork \cup Finished, Goto(c, pc),
               pc = "held" => FALSE,
               pc \in {"persist", "unsettle", "reconcile"} =>
                  checkouts[c].pc \in {"persist", "unsettle", "reconcile"}
        PROVE  /\ checkouts' \in [Checkouts -> CheckoutRecords]
               /\ CheckoutKnows(c)'
               /\ \A d \in Checkouts \ {c} : checkouts'[d] = checkouts[d]
    <2>1. /\ checkouts' \in [Checkouts -> CheckoutRecords]
          /\ checkouts'[c].pc = pc /\ checkouts'[c].id = checkouts[c].id
          /\ \A d \in Checkouts \ {c} : checkouts'[d] = checkouts[d]
      BY <1>1, CheckoutMoves
    <2>2. pc \in {"persist", "unsettle", "reconcile"} =>
             checkouts[c].id \in IntentIds(provider')
      BY <1>0, <1>1 DEF CheckoutKnows
    <2> QED  BY <1>1, <2>1, <2>2 DEF CheckoutKnows
  <1>2. CASE CheckoutBegins(c)
    <2>1. PICK pc \in {"search", "create"} : Goto(c, pc)
      BY <1>2 DEF CheckoutBegins
    <2> QED  BY <1>1, <1>2, <2>1 DEF CheckoutBegins, AtWork, Finished
  <1>3. CASE CheckoutSearches(c)
    <2>1. CASE Goto(c, "create") \/ Goto(c, "failed")
      BY <1>1, <1>3, <2>1 DEF CheckoutSearches, AtWork, Finished
    <2>2. CASE /\ Len(provider.intents) = 1
               /\ checkouts' = [checkouts EXCEPT ![c].pc = "persist",
                                                 ![c].id = provider.intents[1].id]
      <3>1. provider.intents[1].id \in IntentIds(provider)
        <4>1. 1 \in DOMAIN provider.intents
          BY <1>0, <2>2, ProviderFields DEF ProviderOK
        <4> QED  BY <4>1 DEF IntentIds
      <3> DEFINE id == provider.intents[1].id
                 moved == [checkouts[c] EXCEPT !.pc = "persist", !.id = id]
      <3>2. checkouts' = [checkouts EXCEPT ![c] = moved]
        BY <2>2
      <3>3. moved \in CheckoutRecords /\ moved.pc = "persist" /\ moved.id = id
        <4>1. id \in Ids  BY <1>0, <3>1
        <4> HIDE DEF id
        <4> QED  BY <1>0, <4>1 DEF CheckoutRecords, AtWork
      <3> HIDE DEF moved
      <3> QED  BY <1>0, <1>3, <3>1, <3>2, <3>3 DEF CheckoutSearches, CheckoutKnows
    <2> QED  BY <1>3, <2>1, <2>2 DEF CheckoutSearches
  <1>4. ASSUME NEW outcome \in Outcomes, CheckoutCreates(c, outcome)
        PROVE  /\ checkouts' \in [Checkouts -> CheckoutRecords]
               /\ CheckoutKnows(c)'
               /\ \A d \in Checkouts \ {c} : checkouts'[d] = checkouts[d]
    <2> DEFINE attempt == checkouts[c].attempt
               key == KeyOfAttempt(c, attempt)
               response == CreateResponse(provider, key, Operation, outcome)
    <2>1. key \in Checkouts \X Attempts
      BY <1>0 DEF CheckoutRecords, KeyOfAttempt, ChangedKey, Attempts
    <2>2. provider' = CreateEffect(provider, key, Operation, outcome)
      BY <1>4 DEF CheckoutCreates
    <2>3. response \in Responses
          /\ (response.code = 200 => response.body[1].id \in IntentIds(provider'))
      <3> HIDE DEF key
      <3> QED  BY <1>0, <2>1, <2>2, CreateAnswers
    <2>4. CASE Decode(c, response)
      <3> HIDE DEF response
      <3>1. Accepted(response) => response.body[1].id \in IntentIds(provider')
        BY <2>3 DEF Accepted
      <3> QED  BY <1>0, <2>3, <2>4, <3>1, Decodes DEF CheckoutKnows
    <2>5. CASE checkouts' = [checkouts EXCEPT ![c].pc = "held", ![c].response = response]
      <3> DEFINE moved == [checkouts[c] EXCEPT !.pc = "held", !.response = response]
      <3>1. checkouts' = [checkouts EXCEPT ![c] = moved]
        BY <2>5
      <3> HIDE DEF response
      <3>2. moved \in CheckoutRecords /\ moved.pc = "held" /\ moved.response = response
        BY <1>0, <2>3 DEF CheckoutRecords, AtWork
      <3> HIDE DEF moved
      <3> QED  BY <1>0, <2>3, <3>1, <3>2 DEF CheckoutKnows
    <2>6. CASE checkouts' = [checkouts EXCEPT
                  ![c].attempt = 2, ![c].pc = IF attempt = 2 THEN "failed" ELSE @]
      <3> DEFINE pc == IF attempt = 2 THEN "failed" ELSE checkouts[c].pc
                 moved == [checkouts[c] EXCEPT !.attempt = 2, !.pc = pc]
      <3>1. checkouts' = [checkouts EXCEPT ![c] = moved]
        BY <2>6
      <3>2. pc \in {"failed", "create"}
        BY <1>4 DEF CheckoutCreates
      <3>3. moved \in CheckoutRecords /\ moved.pc \in {"failed", "create"}
        <4> HIDE DEF pc
        <4> QED  BY <1>0, <3>2 DEF CheckoutRecords, AtWork, Finished, Attempts
      <3> HIDE DEF moved
      <3> QED  BY <1>0, <3>1, <3>3 DEF CheckoutKnows
    <2> QED  BY <1>4, <2>4, <2>5, <2>6 DEF CheckoutCreates
  <1>5. CASE HeldCreateAnswered(c)
    <2>1. /\ checkouts[c].pc = "held" /\ Decode(c, checkouts[c].response)
          /\ UNCHANGED <<provider, webhooks, driver, kills>>
      BY <1>5 DEF HeldCreateAnswered
    <2>2. /\ checkouts[c].response \in Responses
          /\ Accepted(checkouts[c].response) =>
                checkouts[c].response.body[1].id \in IntentIds(provider)
      BY <2>1 DEF CheckoutKnows, Accepted
    <2>3. /\ checkouts' \in [Checkouts -> CheckoutRecords]
          /\ \/ checkouts'[c].pc = "failed"
             \/ checkouts'[c].pc = "persist" /\ checkouts'[c].id \in IntentIds(provider)
          /\ \A d \in Checkouts \ {c} : checkouts'[d] = checkouts[d]
      BY <1>0, <2>1, <2>2, Decodes
    <2> QED  BY <1>0, <2>1, <2>3 DEF CheckoutKnows
  <1>6. CASE CheckoutPersists(c) \/ CheckoutUnsettles(c) \/ CheckoutAnswers(c) \/ CheckoutFails(c)
    <2>1. PICK pc \in {"unsettle", "reconcile", "answered", "failed"} : Goto(c, pc)
      BY <1>6 DEF CheckoutPersists, CheckoutUnsettles, CheckoutAnswers, CheckoutFails
    <2>2. checkouts[c].pc \in {"persist", "unsettle", "reconcile"}
      BY <1>6 DEF CheckoutPersists, CheckoutUnsettles, CheckoutAnswers, CheckoutFails
    <2>3. pc \in AtWork \cup Finished /\ pc # "held"
      BY <2>1 DEF AtWork, Finished
    <2> QED  BY <1>a, <1>1, <2>1, <2>2, <2>3
  <1> QED  BY <1>a, <1>2, <1>3, <1>4, <1>5, <1>6 DEF Checkout

\* The record of a webhook request after a step of its own.
WebhookAt(w, pc, event, first, inserted, current, applied) ==
    /\ webhooks' \in [Webhooks -> WebhookRecords]
    /\ webhooks'[w].pc = pc /\ webhooks'[w].event = event
    /\ webhooks'[w].first = first /\ webhooks'[w].inserted = inserted
    /\ webhooks'[w].current = current /\ webhooks'[w].applied = applied
    /\ \A other \in Webhooks \ {w} : webhooks'[other] = webhooks[other]

\* Each field is what the step makes it, or what it was.
LEMMA WebhookUpdated ==
  ASSUME TypeOK, NEW w \in Webhooks, NEW moved \in WebhookRecords,
         webhooks' = [webhooks EXCEPT ![w] = moved]
  PROVE  WebhookAt(w, moved.pc, moved.event, moved.first, moved.inserted, moved.current,
                   moved.applied)
  <1>1. webhooks \in [Webhooks -> WebhookRecords]
    BY DEF TypeOK
  <1>2. webhooks' \in [Webhooks -> WebhookRecords] /\ webhooks'[w] = moved
        /\ \A other \in Webhooks \ {w} : webhooks'[other] = webhooks[other]
    BY <1>1
  <1> QED  BY <1>2 DEF WebhookAt

\* A request at another place.
LEMMA WebhookEnters ==
  ASSUME TypeOK, NEW w \in Webhooks, NEW pc \in InHand \cup Finished, Enter(w, pc)
  PROVE  LET r == webhooks[w] IN
         WebhookAt(w, pc, r.event, r.first, r.inserted, r.current, r.applied)
  <1> DEFINE moved == [webhooks[w] EXCEPT !.pc = pc]
             r == webhooks[w]
  <1>1. webhooks[w] \in WebhookRecords
    BY DEF TypeOK
  <1>2. webhooks' = [webhooks EXCEPT ![w] = moved]
    BY DEF Enter
  <1>3. /\ moved \in WebhookRecords /\ moved.pc = pc
        /\ moved.event = r.event /\ moved.first = r.first /\ moved.inserted = r.inserted
        /\ moved.current = r.current /\ moved.applied = r.applied
    BY <1>1 DEF WebhookRecords
  <1> HIDE DEF moved
  <1>4. WebhookAt(w, moved.pc, moved.event, moved.first, moved.inserted, moved.current,
                  moved.applied)
    BY <1>2, <1>3, WebhookUpdated
  <1> QED  BY <1>3, <1>4

\* A request that arrives, with its event.
LEMMA WebhookArrived ==
  ASSUME TypeOK, NEW w \in Webhooks, NEW event \in Events, WebhookArrives(w, event)
  PROVE  LET r == webhooks[w] IN
         WebhookAt(w, "event", event, r.first, r.inserted, r.current, r.applied)
  <1> DEFINE moved == [webhooks[w] EXCEPT !.pc = "event", !.event = event]
             r == webhooks[w]
  <1>1. webhooks[w] \in WebhookRecords
    BY DEF TypeOK
  <1>2. webhooks' = [webhooks EXCEPT ![w] = moved]
    BY DEF WebhookArrives
  <1>3. /\ moved \in WebhookRecords /\ moved.pc = "event"
        /\ moved.event = event /\ moved.first = r.first /\ moved.inserted = r.inserted
        /\ moved.current = r.current /\ moved.applied = r.applied
    BY <1>1 DEF WebhookRecords, InHand
  <1> HIDE DEF moved
  <1>4. WebhookAt(w, moved.pc, moved.event, moved.first, moved.inserted, moved.current,
                  moved.applied)
    BY <1>2, <1>3, WebhookUpdated
  <1> QED  BY <1>3, <1>4

\* One that has tried to insert its event.
LEMMA WebhookInserted ==
  ASSUME TypeOK, NEW w \in Webhooks, WebhookInsertsEvent(w)
  PROVE  LET r == webhooks[w]
             new == r.event \notin processed
         IN WebhookAt(w, IF new THEN "payment" ELSE "commit", r.event, new, r.inserted,
                      r.current, r.applied)
  <1> DEFINE r == webhooks[w]
             new == r.event \notin processed
             pc == IF new THEN "payment" ELSE "commit"
             moved == [webhooks[w] EXCEPT !.first = new, !.pc = pc]
  <1>1. webhooks[w] \in WebhookRecords
    BY DEF TypeOK
  <1>2. webhooks' = [webhooks EXCEPT ![w] = moved]
    BY DEF WebhookInsertsEvent
  <1>a. pc \in InHand /\ new \in BOOLEAN
    BY DEF InHand, InTransaction
  <1>3. /\ moved \in WebhookRecords /\ moved.pc = pc
        /\ moved.event = r.event /\ moved.first = new /\ moved.inserted = r.inserted
        /\ moved.current = r.current /\ moved.applied = r.applied
    <2> HIDE DEF pc, new
    <2> QED  BY <1>1, <1>a DEF WebhookRecords
  <1> HIDE DEF moved
  <1>4. WebhookAt(w, moved.pc, moved.event, moved.first, moved.inserted, moved.current,
                  moved.applied)
    BY <1>2, <1>3, WebhookUpdated
  <1> QED  BY <1>3, <1>4

\* One that has tried to insert the payment row.
LEMMA WebhookInsertedPayment ==
  ASSUME TypeOK, NEW w \in Webhooks, WebhookInsertsPayment(w)
  PROVE  LET r == webhooks[w] IN
         WebhookAt(w, "read", r.event, r.first, IntentOf(w) \notin DOMAIN payments,
                   r.current, r.applied)
  <1> DEFINE r == webhooks[w]
             new == IntentOf(w) \notin DOMAIN payments
             moved == [webhooks[w] EXCEPT !.inserted = new, !.pc = "read"]
  <1>1. webhooks[w] \in WebhookRecords
    BY DEF TypeOK
  <1>2. webhooks' = [webhooks EXCEPT ![w] = moved]
    BY DEF WebhookInsertsPayment
  <1>a. new \in BOOLEAN
    OBVIOUS
  <1>3. /\ moved \in WebhookRecords /\ moved.pc = "read"
        /\ moved.event = r.event /\ moved.first = r.first /\ moved.inserted = new
        /\ moved.current = r.current /\ moved.applied = r.applied
    <2> HIDE DEF new
    <2> QED  BY <1>1, <1>a DEF WebhookRecords, InHand, InTransaction
  <1> HIDE DEF moved
  <1>4. WebhookAt(w, moved.pc, moved.event, moved.first, moved.inserted, moved.current,
                  moved.applied)
    BY <1>2, <1>3, WebhookUpdated
  <1> QED  BY <1>3, <1>4

\* One that has read the status of the row.
LEMMA WebhookRead ==
  ASSUME TypeOK, NEW w \in Webhooks, WebhookReadsStatus(w)
  PROVE  LET r == webhooks[w]
             status == IF r.inserted THEN LocalStatusOf(r.event) ELSE payments[IntentOf(w)]
         IN WebhookAt(w, "update", r.event, r.first, r.inserted, status, r.applied)
  <1> DEFINE r == webhooks[w]
             status == IF r.inserted THEN LocalStatusOf(r.event) ELSE payments[IntentOf(w)]
             moved == [webhooks[w] EXCEPT !.current = status, !.pc = "update"]
  <1>1. webhooks[w] \in WebhookRecords
    BY DEF TypeOK
  <1>2. webhooks' = [webhooks EXCEPT ![w] = moved]
    BY DEF WebhookReadsStatus
  <1>a. status \in {"pending", "succeeded"}
    BY DEF WebhookReadsStatus, TypeOK, LocalStatusOf
  <1>3. /\ moved \in WebhookRecords /\ moved.pc = "update"
        /\ moved.event = r.event /\ moved.first = r.first /\ moved.inserted = r.inserted
        /\ moved.current = status /\ moved.applied = r.applied
    <2> HIDE DEF status
    <2> QED  BY <1>1, <1>a DEF WebhookRecords, InHand, InTransaction
  <1> HIDE DEF moved
  <1>4. WebhookAt(w, moved.pc, moved.event, moved.first, moved.inserted, moved.current,
                  moved.applied)
    BY <1>2, <1>3, WebhookUpdated
  <1> QED  BY <1>3, <1>4

\* One that has decided on its update.
LEMMA WebhookUpdatedRow ==
  ASSUME TypeOK, NEW w \in Webhooks, WebhookUpdates(w)
  PROVE  LET r == webhooks[w] IN
         WebhookAt(w, "commit", r.event, r.first, r.inserted, r.current, Applies(w))
  <1> DEFINE r == webhooks[w]
             applied == Applies(w)
             moved == [webhooks[w] EXCEPT !.applied = applied, !.pc = "commit"]
  <1>1. webhooks[w] \in WebhookRecords
    BY DEF TypeOK
  <1>2. webhooks' = [webhooks EXCEPT ![w] = moved]
    BY DEF WebhookUpdates
  <1>a. applied \in BOOLEAN
    BY DEF Applies
  <1>3. /\ moved \in WebhookRecords /\ moved.pc = "commit"
        /\ moved.event = r.event /\ moved.first = r.first /\ moved.inserted = r.inserted
        /\ moved.current = r.current /\ moved.applied = applied
    <2> HIDE DEF applied
    <2> QED  BY <1>1, <1>a DEF WebhookRecords, InHand, InTransaction
  <1> HIDE DEF moved
  <1>4. WebhookAt(w, moved.pc, moved.event, moved.first, moved.inserted, moved.current,
                  moved.applied)
    BY <1>2, <1>3, WebhookUpdated
  <1> QED  BY <1>3, <1>4

\* What every step of a request leaves, and what it can make of its record.
LEMMA WebhookSteps ==
  ASSUME TypeOK, NEW w \in Webhooks, WebhookTask(w) \/ WebhookFails(w)
  PROVE  /\ webhooks' \in [Webhooks -> WebhookRecords]
         /\ webhooks[w].pc \in InHand /\ webhooks'[w].pc # "idle"
         /\ webhooks'[w].event = webhooks[w].event
         /\ \A other \in Webhooks \ {w} : webhooks'[other] = webhooks[other]
         /\ UNCHANGED <<provider, checkouts, kills, driver>>
  <1>1. CASE WebhookInsertsEvent(w)
    <2> DEFINE new == webhooks[w].event \notin processed
               pc == IF new THEN "payment" ELSE "commit"
               r == webhooks[w]
    <2>1. WebhookAt(w, pc, r.event, new, r.inserted, r.current, r.applied)
      BY <1>1, WebhookInserted
    <2>2. pc # "idle"
      OBVIOUS
    <2> HIDE DEF pc, new
    <2>3. webhooks[w].pc \in InHand /\ UNCHANGED <<provider, checkouts, kills, driver>>
      BY <1>1 DEF WebhookInsertsEvent, InHand
    <2> QED  BY <2>1, <2>2, <2>3 DEF WebhookAt
  <1>2. CASE WebhookInsertsPayment(w)
    BY <1>2, WebhookInsertedPayment
       DEF WebhookAt, WebhookInsertsPayment, InHand, InTransaction
  <1>3. CASE WebhookReadsStatus(w)
    BY <1>3, WebhookRead DEF WebhookAt, WebhookReadsStatus, InHand, InTransaction
  <1>4. CASE WebhookUpdates(w)
    BY <1>4, WebhookUpdatedRow DEF WebhookAt, WebhookUpdates, InHand, InTransaction
  <1>5. ASSUME NEW pc \in InHand \cup Finished, Enter(w, pc),
               webhooks[w].pc \in InHand, UNCHANGED <<provider, checkouts, kills, driver>>
        PROVE  /\ webhooks' \in [Webhooks -> WebhookRecords]
               /\ webhooks[w].pc \in InHand /\ webhooks'[w].pc # "idle"
               /\ webhooks'[w].event = webhooks[w].event
               /\ \A other \in Webhooks \ {w} : webhooks'[other] = webhooks[other]
               /\ UNCHANGED <<provider, checkouts, kills, driver>>
    BY <1>5, WebhookEnters DEF WebhookAt, InHand, InTransaction, Finished
  <1>6. CASE WebhookCommits(w)
    BY <1>5, <1>6 DEF WebhookCommits, InHand, InTransaction
  <1>7. CASE WebhookSettles(w) \/ WebhookStartsReconciliation(w) \/ WebhookFails(w)
    BY <1>5, <1>7
       DEF WebhookSettles, WebhookStartsReconciliation, WebhookFails, InHand, Finished
  <1> QED  BY <1>1, <1>2, <1>3, <1>4, <1>6, <1>7 DEF WebhookTask

-----------------------------------------------------------------------------
(* The reconcilers, and the payments table.                                 *)

\* A reconciler at another place, of the object it polls.
LEMMA ReconcilerMoves ==
  ASSUME TypeOK, NEW s \in Spawners, NEW pc \in {"done"} \cup Polling, Step(s, pc)
  PROVE  /\ reconcilers' \in [Spawners -> ReconcilerRecords]
         /\ reconcilers'[s].pc = pc /\ reconcilers'[s].id = reconcilers[s].id
         /\ \A other \in Spawners \ {s} : reconcilers'[other] = reconcilers[other]
  <1>1. reconcilers[s] \in ReconcilerRecords
        /\ reconcilers \in [Spawners -> ReconcilerRecords]
    BY DEF TypeOK
  <1> DEFINE moved == [reconcilers[s] EXCEPT !.pc = pc]
  <1>2. moved \in ReconcilerRecords /\ moved.pc = pc /\ moved.id = reconcilers[s].id
    BY <1>1 DEF ReconcilerRecords
  <1>3. reconcilers' = [reconcilers EXCEPT ![s] = moved]
    BY DEF Step
  <1> HIDE DEF moved
  <1> QED  BY <1>1, <1>2, <1>3

\* A reconciler that a checkout or a webhook request spawns.
LEMMA ReconcilerSpawned ==
  ASSUME TypeOK, NEW s \in Spawners, NEW id \in Ids,
         reconcilers' = [reconcilers EXCEPT ![s] = [pc |-> "check", id |-> id]]
  PROVE  /\ reconcilers' \in [Spawners -> ReconcilerRecords]
         /\ reconcilers'[s].pc = "check" /\ reconcilers'[s].id = id
         /\ \A other \in Spawners \ {s} : reconcilers'[other] = reconcilers[other]
  <1>1. reconcilers \in [Spawners -> ReconcilerRecords]
    BY DEF TypeOK
  <1>2. [pc |-> "check", id |-> id] \in ReconcilerRecords
    BY DEF ReconcilerRecords, Polling
  <1> QED  BY <1>1, <1>2

\* What a step of a reconciler leaves.
LEMMA ReconcilerSteps ==
  ASSUME TypeOK, NEW s \in Spawners, ReconcilerKnows(s), Reconciler(s)
  PROVE  /\ reconcilers' \in [Spawners -> ReconcilerRecords]
         /\ ReconcilerKnows(s)'
         /\ \A other \in Spawners \ {s} : reconcilers'[other] = reconcilers[other]
         /\ UNCHANGED <<provider, checkouts, webhooks, kills, driver>>
         /\ \/ UNCHANGED payments
            \/ /\ Succeeded(reconcilers[s].id)
               /\ reconcilers[s].id \in DOMAIN payments
               /\ payments' = [payments EXCEPT ![reconcilers[s].id] = "succeeded"]
  <1>a. /\ UNCHANGED <<provider, checkouts, webhooks, kills, driver>>
        /\ reconcilers[s].pc \in Polling
    BY DEF Reconciler, ReconcilerChecks, ReconcilerRetrieves, ReconcilerUpdates,
           ReconcilerSettles, ReconcilerGivesUp, Polling
  <1>b. reconcilers[s].id \in IntentIds(provider)
    BY <1>a DEF ReconcilerKnows
  <1>1. ASSUME NEW pc \in {"done"} \cup Polling, Step(s, pc),
               pc = "update" => Succeeded(reconcilers[s].id)
        PROVE  /\ reconcilers' \in [Spawners -> ReconcilerRecords]
               /\ ReconcilerKnows(s)'
               /\ \A other \in Spawners \ {s} : reconcilers'[other] = reconcilers[other]
    BY <1>a, <1>b, <1>1, ReconcilerMoves DEF ReconcilerKnows, Succeeded, StatusAt
  <1>2. CASE ReconcilerChecks(s)
    <2>1. PICK pc \in {"done", "retrieve"} : Step(s, pc)
      BY <1>2 DEF ReconcilerChecks
    <2> QED  BY <1>a, <1>1, <1>2, <2>1 DEF ReconcilerChecks, database, Polling
  <1>3. CASE ReconcilerRetrieves(s)
    <2>1. CASE SeesSuccess(reconcilers[s].id)
      <3>1. Step(s, "update") /\ Succeeded(reconcilers[s].id)
        BY <1>b, <1>3, <2>1 DEF ReconcilerRetrieves, SeesSuccess, Succeeded
      <3> QED  BY <1>a, <1>1, <1>3, <3>1 DEF ReconcilerRetrieves, database, Polling
    <2>2. CASE ~ SeesSuccess(reconcilers[s].id)
      <3>1. Step(s, "check")
        BY <1>3, <2>2 DEF ReconcilerRetrieves
      <3> QED  BY <1>a, <1>1, <1>3, <3>1 DEF ReconcilerRetrieves, database, Polling
    <2> QED  BY <2>1, <2>2
  <1>4. CASE ReconcilerUpdates(s)
    <2>1. Step(s, "insert") /\ Succeeded(reconcilers[s].id)
      BY <1>4 DEF ReconcilerUpdates, ReconcilerKnows
    <2> QED  BY <1>a, <1>1, <1>4, <2>1 DEF ReconcilerUpdates, Polling
  <1>5. CASE ReconcilerSettles(s) \/ ReconcilerGivesUp(s)
    <2>1. Step(s, "done") /\ UNCHANGED payments
      BY <1>5 DEF ReconcilerSettles, ReconcilerGivesUp, database
    <2> QED  BY <1>a, <1>1, <2>1
  <1> QED  BY <1>2, <1>3, <1>4, <1>5 DEF Reconciler

\* The object of the event of a request that has arrived.
LEMMA EventsAreOfIntents ==
  ASSUME TypeOK, NEW w \in Webhooks, webhooks[w].pc # "idle"
  PROVE  /\ webhooks[w].event \in Events
         /\ IntentOf(w) \in IntentIds(provider)
         /\ IsSuccess(w) => Succeeded(IntentOf(w))
  <1>1. PICK i \in 1 .. Len(provider.events) : webhooks[w].event = provider.events[i]
    BY DEF TypeOK, KnownEvents
  <1>2. PICK k \in 1 .. Len(provider.intents) :
           /\ provider.events[i].intent = <<Seed, k>>
           /\ provider.events[i].kind = "Succeeded" =>
                 provider.intents[k].status = "Succeeded"
    BY DEF TypeOK, ProviderOK
  <1>3. webhooks[w].event \in Events
    BY <1>1, ProviderFields DEF TypeOK, ProviderOK
  <1>4. /\ PositionOf(provider, <<Seed, k>>) = k
        /\ IntentIds(provider) = {<<Seed, j>> : j \in 1 .. Len(provider.intents)}
    BY Positions DEF TypeOK
  <1>5. IntentOf(w) = <<Seed, k>> /\ (IsSuccess(w) => provider.intents[k].status = "Succeeded")
    BY <1>1, <1>2 DEF IntentOf, IsSuccess
  <1> QED  BY <1>3, <1>4, <1>5 DEF Succeeded, StatusAt

\* A payment row is added, or changed to "succeeded" or by a webhook's commit;
\* and what it says is so at the provider.
LEMMA PaymentSteps ==
  ASSUME LocalInv, [Next]_vars
  PROVE  /\ DOMAIN payments \subseteq DOMAIN payments'
         /\ \A id \in DOMAIN payments' :
               /\ payments'[id] \in {"pending", "succeeded"}
               /\ \/ id \in DOMAIN payments /\ payments'[id] = payments[id]
                  \/ id \in IntentIds(provider) /\ payments'[id] = "pending"
                  \/ Succeeded(id) /\ payments'[id] = "succeeded"
  <1> DEFINE Kept ==
         /\ DOMAIN payments \subseteq DOMAIN payments'
         /\ \A id \in DOMAIN payments' :
               /\ payments'[id] \in {"pending", "succeeded"}
               /\ \/ id \in DOMAIN payments /\ payments'[id] = payments[id]
                  \/ id \in IntentIds(provider) /\ payments'[id] = "pending"
                  \/ Succeeded(id) /\ payments'[id] = "succeeded"
  <1>0. TypeOK /\ \A id \in DOMAIN payments : payments[id] \in {"pending", "succeeded"}
    BY DEF LocalInv, TypeOK
  <1>a. UNCHANGED payments => Kept
    BY <1>0
  <1>b. ASSUME NEW id \in IntentIds(provider), NEW status \in {"pending", "succeeded"},
               payments' = Put(payments, id, status),
               status = "succeeded" => Succeeded(id)
        PROVE  Kept
    <2>1. /\ DOMAIN payments' = DOMAIN payments \cup {id} /\ payments'[id] = status
          /\ \A k \in DOMAIN payments : k # id => payments'[k] = payments[k]
      BY <1>b DEF Put
    <2>2. ASSUME NEW k \in DOMAIN payments'
          PROVE  /\ payments'[k] \in {"pending", "succeeded"}
                 /\ \/ k \in DOMAIN payments /\ payments'[k] = payments[k]
                    \/ k \in IntentIds(provider) /\ payments'[k] = "pending"
                    \/ Succeeded(k) /\ payments'[k] = "succeeded"
      <3>1. CASE k = id
        BY <1>b, <2>1, <3>1
      <3>2. CASE k # id
        BY <1>0, <2>1, <2>2, <3>2
      <3> QED  BY <3>1, <3>2
    <2> QED  BY <2>1, <2>2
  <1>1. ASSUME NEW c \in Checkouts, Checkout(c) PROVE Kept
    <2>1. CASE CheckoutPersists(c)
      <3>1. checkouts[c].id \in IntentIds(provider)
        BY <2>1 DEF CheckoutPersists, LocalInv, CheckoutKnows
      <3>2. UNCHANGED payments \/ payments' = Put(payments, checkouts[c].id, "pending")
        BY <2>1 DEF CheckoutPersists
      <3> QED  BY <1>a, <1>b, <3>1, <3>2
    <2>2. CASE ~ CheckoutPersists(c)
      <3>1. UNCHANGED payments
        BY <1>1, <2>2
           DEF Checkout, CheckoutBegins, CheckoutSearches, CheckoutCreates, database,
               HeldCreateAnswered, CheckoutUnsettles, CheckoutAnswers, CheckoutFails
      <3> QED  BY <1>a, <3>1
    <2> QED  BY <2>1, <2>2
  <1>2. ASSUME NEW w \in Webhooks, WebhookTask(w) \/ WebhookFails(w) PROVE Kept
    <2>1. CASE WebhookCommits(w)
      <3>1. IntentOf(w) \in IntentIds(provider) /\ (IsSuccess(w) => Succeeded(IntentOf(w)))
        BY <1>0, <2>1, EventsAreOfIntents DEF WebhookCommits
      <3>2. /\ LocalStatusOf(webhooks[w].event) \in {"pending", "succeeded"}
            /\ LocalStatusOf(webhooks[w].event) = "succeeded" => Succeeded(IntentOf(w))
        BY <3>1 DEF LocalStatusOf, IsSuccess
      <3>3. \/ UNCHANGED payments
            \/ payments' = Put(payments, IntentOf(w), LocalStatusOf(webhooks[w].event))
        BY <2>1 DEF WebhookCommits
      <3> QED  BY <1>a, <1>b, <3>1, <3>2, <3>3
    <2>2. CASE ~ WebhookCommits(w)
      <3>1. UNCHANGED payments
        BY <1>2, <2>2
           DEF WebhookTask, WebhookInsertsEvent, WebhookInsertsPayment, database,
               WebhookReadsStatus, WebhookUpdates, WebhookSettles,
               WebhookStartsReconciliation, WebhookFails
      <3> QED  BY <1>a, <3>1
    <2> QED  BY <2>1, <2>2
  <1>3. ASSUME NEW s \in Spawners, Reconciler(s) PROVE Kept
    <2>1. \/ UNCHANGED payments
          \/ /\ Succeeded(reconcilers[s].id) /\ reconcilers[s].id \in DOMAIN payments
             /\ payments' = [payments EXCEPT ![reconcilers[s].id] = "succeeded"]
      BY <1>0, <1>3, ReconcilerSteps DEF LocalInv
    <2> QED  BY <1>0, <1>a, <2>1
  <1>4. ASSUME NEW id \in IntentIds(provider), ConfirmsIntent(id) \/ GeneratesOlderEvent(id)
        PROVE  Kept
    BY <1>a, <1>4 DEF ConfirmsIntent, GeneratesOlderEvent, database
  <1>5. ASSUME NEW w \in Webhooks, NEW i \in DOMAIN provider.events,
               WebhookArrives(w, provider.events[i])
        PROVE  Kept
    BY <1>a, <1>5 DEF WebhookArrives, database
  <1>6. CASE Killed \/ UNCHANGED vars
    BY <1>a, <1>6 DEF Killed, vars, database
  <1> QED  BY <1>1, <1>2, <1>3, <1>4, <1>5, <1>6 DEF Next

-----------------------------------------------------------------------------
(* LocalInv is inductive.                                                   *)

\* What a task knows of an object stays true when only the provider moves.
LEMMA KnowledgeStays ==
  ASSUME ProviderOK(provider), ProviderOK(provider'), Grows(provider, provider')
  PROVE  /\ \A id \in IntentIds(provider) : id \in IntentIds(provider')
         /\ \A id : Succeeded(id) => Succeeded(id)'
         /\ \A c \in Checkouts :
               CheckoutKnows(c) /\ checkouts'[c] = checkouts[c] => CheckoutKnows(c)'
         /\ \A s \in Spawners :
               ReconcilerKnows(s) /\ reconcilers'[s] = reconcilers[s] => ReconcilerKnows(s)'
  <1>1. \A id \in IntentIds(provider) : id \in IntentIds(provider')
    BY KnownStays
  <1>2. ASSUME NEW id, Succeeded(id) PROVE Succeeded(id)'
    BY <1>1, <1>2, KnownStays DEF Succeeded, StatusAt
  <1>3. ASSUME NEW c \in Checkouts, CheckoutKnows(c), checkouts'[c] = checkouts[c]
        PROVE  CheckoutKnows(c)'
    BY <1>1, <1>3 DEF CheckoutKnows
  <1>4. ASSUME NEW s \in Spawners, ReconcilerKnows(s), reconcilers'[s] = reconcilers[s]
        PROVE  ReconcilerKnows(s)'
    BY <1>1, <1>2, <1>4 DEF ReconcilerKnows
  <1> QED  BY <1>1, <1>2, <1>3, <1>4

\* The records of the checkouts and the reconcilers after any step.
LEMMA TasksKept ==
  ASSUME LocalInv, [Next]_vars
  PROVE  /\ checkouts' \in [Checkouts -> CheckoutRecords]
         /\ reconcilers' \in [Spawners -> ReconcilerRecords]
         /\ \A c \in Checkouts : CheckoutKnows(c)'
         /\ \A s \in Spawners : ReconcilerKnows(s)'
  <1> DEFINE CheckoutsKept ==
               /\ checkouts' \in [Checkouts -> CheckoutRecords]
               /\ \A c \in Checkouts : CheckoutKnows(c)'
             ReconcilersKept ==
               /\ reconcilers' \in [Spawners -> ReconcilerRecords]
               /\ \A s \in Spawners : ReconcilerKnows(s)'
  <1>0. /\ TypeOK /\ ProviderOK(provider) /\ ProviderOK(provider')
        /\ Grows(provider, provider')
        /\ checkouts \in [Checkouts -> CheckoutRecords]
        /\ reconcilers \in [Spawners -> ReconcilerRecords]
        /\ \A c \in Checkouts : CheckoutKnows(c)
        /\ \A s \in Spawners : ReconcilerKnows(s)
        /\ Checkouts \subseteq Spawners /\ Webhooks \subseteq Spawners
    BY ProviderSteps DEF LocalInv, TypeOK, Spawners
  <1>a. UNCHANGED checkouts => CheckoutsKept
    BY <1>0, KnowledgeStays
  <1>b. UNCHANGED reconcilers => ReconcilersKept
    BY <1>0, KnowledgeStays
  <1>c. ASSUME NEW s \in Spawners, NEW id \in IntentIds(provider),
               reconcilers' = [reconcilers EXCEPT ![s] = [pc |-> "check", id |-> id]]
        PROVE  ReconcilersKept
    <2>1. id \in Ids
      <3>1. Len(provider.intents) \in Nat
        BY <1>0, ProviderFields DEF ProviderOK
      <3> QED  BY <1>0, <3>1, Positions DEF Ids
    <2>2. /\ reconcilers' \in [Spawners -> ReconcilerRecords]
          /\ reconcilers'[s].pc = "check" /\ reconcilers'[s].id = id
          /\ \A other \in Spawners \ {s} : reconcilers'[other] = reconcilers[other]
      BY <1>0, <1>c, <2>1, ReconcilerSpawned
    <2>3. ReconcilerKnows(s)'
      BY <1>0, <2>2, KnowledgeStays DEF ReconcilerKnows
    <2> QED  BY <1>0, <2>2, <2>3, KnowledgeStays
  <1>1. ASSUME NEW c \in Checkouts, Checkout(c) PROVE CheckoutsKept /\ ReconcilersKept
    <2>1. /\ checkouts' \in [Checkouts -> CheckoutRecords]
          /\ CheckoutKnows(c)'
          /\ \A d \in Checkouts \ {c} : checkouts'[d] = checkouts[d]
      BY <1>0, <1>1, CheckoutSteps
    <2>2. CheckoutsKept
      BY <1>0, <2>1, KnowledgeStays
    <2>3. CASE CheckoutAnswers(c)
      <3>1. /\ checkouts[c].id \in IntentIds(provider)
            /\ reconcilers' = [reconcilers EXCEPT ![c] = [pc |-> "check", id |-> checkouts[c].id]]
        BY <1>0, <2>3 DEF CheckoutAnswers, CheckoutKnows
      <3> QED  BY <1>0, <1>c, <2>2, <3>1
    <2>4. CASE ~ CheckoutAnswers(c)
      <3>1. UNCHANGED reconcilers
        BY <1>1, <2>4
           DEF Checkout, CheckoutBegins, CheckoutSearches, CheckoutCreates,
               HeldCreateAnswered, CheckoutPersists, CheckoutUnsettles, CheckoutFails
      <3> QED  BY <1>b, <2>2, <3>1
    <2> QED  BY <2>3, <2>4
  <1>2. ASSUME NEW w \in Webhooks, WebhookTask(w) \/ WebhookFails(w)
        PROVE  CheckoutsKept /\ ReconcilersKept
    <2>1. CheckoutsKept
      BY <1>0, <1>2, <1>a, WebhookSteps
    <2>2. CASE WebhookStartsReconciliation(w)
      <3>1. webhooks[w].pc # "idle"
            /\ reconcilers' = [reconcilers EXCEPT ![w] = [pc |-> "check", id |-> IntentOf(w)]]
        BY <2>2 DEF WebhookStartsReconciliation
      <3>2. IntentOf(w) \in IntentIds(provider)
        BY <1>0, <3>1, EventsAreOfIntents
      <3> QED  BY <1>0, <1>c, <2>1, <3>1, <3>2
    <2>3. CASE ~ WebhookStartsReconciliation(w)
      <3>1. UNCHANGED reconcilers
        BY <1>2, <2>3
           DEF WebhookTask, WebhookInsertsEvent, WebhookInsertsPayment,
               WebhookReadsStatus, WebhookUpdates, WebhookCommits, WebhookSettles,
               WebhookFails
      <3> QED  BY <1>b, <2>1, <3>1
    <2> QED  BY <2>2, <2>3
  <1>3. ASSUME NEW s \in Spawners, Reconciler(s) PROVE CheckoutsKept /\ ReconcilersKept
    <2>1. /\ reconcilers' \in [Spawners -> ReconcilerRecords]
          /\ ReconcilerKnows(s)' /\ UNCHANGED checkouts
          /\ \A other \in Spawners \ {s} : reconcilers'[other] = reconcilers[other]
      BY <1>0, <1>3, ReconcilerSteps
    <2> QED  BY <1>0, <1>a, <2>1, KnowledgeStays
  <1>4. ASSUME NEW id \in IntentIds(provider), ConfirmsIntent(id) \/ GeneratesOlderEvent(id)
        PROVE  CheckoutsKept /\ ReconcilersKept
    BY <1>a, <1>b, <1>4 DEF ConfirmsIntent, GeneratesOlderEvent
  <1>5. ASSUME NEW w \in Webhooks, NEW i \in DOMAIN provider.events,
               WebhookArrives(w, provider.events[i])
        PROVE  CheckoutsKept /\ ReconcilersKept
    BY <1>a, <1>b, <1>5 DEF WebhookArrives
  <1>6. CASE Killed
    <2>1. ASSUME NEW c \in Checkouts
          PROVE  /\ checkouts'[c] \in CheckoutRecords
                 /\ checkouts'[c] = checkouts[c] \/ checkouts'[c].pc = "dead"
      <3> DEFINE dead == [checkouts[c] EXCEPT !.pc = "dead"]
      <3>1. checkouts'[c] = checkouts[c] \/ checkouts'[c] = dead
        BY <1>6 DEF Killed
      <3>2. dead \in CheckoutRecords /\ dead.pc = "dead"
        BY <1>0 DEF CheckoutRecords, Finished
      <3> HIDE DEF dead
      <3> QED  BY <1>0, <3>1, <3>2
    <2>2. checkouts' \in [Checkouts -> CheckoutRecords]
      <3>1. checkouts' = [c \in Checkouts |->
              IF checkouts[c].pc \in {"idle"} \cup Finished THEN checkouts[c]
              ELSE [checkouts[c] EXCEPT !.pc = "dead"]]
        BY <1>6 DEF Killed
      <3>2. checkouts' = [c \in Checkouts |-> checkouts'[c]]
        BY <3>1
      <3> QED  BY <2>1, <3>2
    <2>3. \A c \in Checkouts : CheckoutKnows(c)'
      <3>1. ASSUME NEW c \in Checkouts PROVE CheckoutKnows(c)'
        <4>1. CASE checkouts'[c] = checkouts[c]
          BY <1>0, <4>1, KnowledgeStays
        <4>2. CASE checkouts'[c].pc = "dead"
          BY <4>2 DEF CheckoutKnows
        <4> QED  BY <2>1, <4>1, <4>2
      <3> QED  BY <3>1
    <2>4. ASSUME NEW s \in Spawners
          PROVE  /\ reconcilers'[s] \in ReconcilerRecords
                 /\ reconcilers'[s] = reconcilers[s] \/ reconcilers'[s].pc = "done"
      <3> DEFINE done == [reconcilers[s] EXCEPT !.pc = "done"]
      <3>1. reconcilers'[s] = reconcilers[s] \/ reconcilers'[s] = done
        BY <1>6 DEF Killed
      <3>2. done \in ReconcilerRecords /\ done.pc = "done"
        BY <1>0 DEF ReconcilerRecords
      <3> HIDE DEF done
      <3> QED  BY <1>0, <3>1, <3>2
    <2>5. reconcilers' \in [Spawners -> ReconcilerRecords]
      <3>1. reconcilers' = [s \in Spawners |->
              IF reconcilers[s].pc = "none" THEN reconcilers[s]
              ELSE [reconcilers[s] EXCEPT !.pc = "done"]]
        BY <1>6 DEF Killed
      <3>2. reconcilers' = [s \in Spawners |-> reconcilers'[s]]
        BY <3>1
      <3> QED  BY <2>4, <3>2
    <2>6. \A s \in Spawners : ReconcilerKnows(s)'
      <3>1. ASSUME NEW s \in Spawners PROVE ReconcilerKnows(s)'
        <4>1. CASE reconcilers'[s] = reconcilers[s]
          BY <1>0, <4>1, KnowledgeStays
        <4>2. CASE reconcilers'[s].pc = "done"
          BY <4>2 DEF ReconcilerKnows, Polling
        <4> QED  BY <2>4, <4>1, <4>2
      <3> QED  BY <3>1
    <2> QED  BY <2>2, <2>3, <2>5, <2>6
  <1>7. CASE UNCHANGED vars
    BY <1>a, <1>b, <1>7 DEF vars
  <1> QED  BY <1>1, <1>2, <1>3, <1>4, <1>5, <1>6, <1>7 DEF Next

\* And those of the webhook requests: the event of a request never changes while
\* it is in hand, and was sent by the provider.
LEMMA WebhooksKept ==
  ASSUME LocalInv, [Next]_vars
  PROVE  /\ webhooks' \in [Webhooks -> WebhookRecords]
         /\ \A w \in Webhooks : webhooks'[w].pc # "idle" => webhooks'[w].event \in KnownEvents'
         /\ \A w \in Webhooks :
               webhooks'[w].pc = "read" /\ ~ webhooks'[w].inserted =>
                  IntentOf(w)' \in DOMAIN payments'
  <1> DEFINE EventKept(w) ==
               webhooks'[w].pc # "idle" => webhooks'[w].event \in KnownEvents'
             RowKept(w) ==
               webhooks'[w].pc = "read" /\ ~ webhooks'[w].inserted =>
                  IntentOf(w)' \in DOMAIN payments'
  <1>0. /\ TypeOK /\ webhooks \in [Webhooks -> WebhookRecords]
        /\ KnownEvents \subseteq KnownEvents'
        /\ \A w \in Webhooks : webhooks[w].pc # "idle" => webhooks[w].event \in KnownEvents
        /\ \A w \in Webhooks :
              webhooks[w].pc = "read" /\ ~ webhooks[w].inserted => IntentOf(w) \in DOMAIN payments
        /\ DOMAIN payments \subseteq DOMAIN payments'
    BY ProviderSteps, PaymentSteps DEF LocalInv, TypeOK
  <1>a. ASSUME NEW w \in Webhooks, webhooks'[w] = webhooks[w]
        PROVE  EventKept(w) /\ RowKept(w)
    BY <1>0, <1>a DEF IntentOf
  <1>b. UNCHANGED webhooks =>
           /\ webhooks' \in [Webhooks -> WebhookRecords]
           /\ \A w \in Webhooks : EventKept(w) /\ RowKept(w)
    BY <1>0, <1>a
  <1>1. ASSUME NEW w \in Webhooks, WebhookTask(w) \/ WebhookFails(w)
        PROVE  /\ webhooks' \in [Webhooks -> WebhookRecords]
               /\ \A x \in Webhooks : EventKept(x) /\ RowKept(x)
    <2>1. /\ webhooks' \in [Webhooks -> WebhookRecords]
          /\ webhooks[w].pc \in InHand /\ webhooks'[w].event = webhooks[w].event
          /\ \A other \in Webhooks \ {w} : webhooks'[other] = webhooks[other]
      BY <1>0, <1>1, WebhookSteps
    <2>2. EventKept(w)
      BY <1>0, <2>1 DEF InHand, InTransaction
    <2>3. RowKept(w)
      <3>1. CASE WebhookInsertsPayment(w)
        <4>1. /\ webhooks'[w].event = webhooks[w].event
              /\ webhooks'[w].inserted = (IntentOf(w) \notin DOMAIN payments)
          BY <1>0, <3>1, WebhookInsertedPayment DEF WebhookAt
        <4> QED  BY <1>0, <4>1 DEF IntentOf
      <3>2. CASE ~ WebhookInsertsPayment(w)
        <4>1. CASE WebhookInsertsEvent(w)
          <5> DEFINE new == webhooks[w].event \notin processed
                     pc == IF new THEN "payment" ELSE "commit"
                     r == webhooks[w]
          <5>1. WebhookAt(w, pc, r.event, new, r.inserted, r.current, r.applied)
            BY <1>0, <4>1, WebhookInserted
          <5>2. pc # "read"
            OBVIOUS
          <5> HIDE DEF pc, new
          <5> QED  BY <5>1, <5>2 DEF WebhookAt
        <4>2. CASE WebhookReadsStatus(w)
          BY <1>0, <4>2, WebhookRead DEF WebhookAt
        <4>3. CASE WebhookUpdates(w)
          BY <1>0, <4>3, WebhookUpdatedRow DEF WebhookAt
        <4>4. CASE WebhookCommits(w) \/ WebhookSettles(w) \/ WebhookStartsReconciliation(w)
                   \/ WebhookFails(w)
          <5>1. PICK pc \in {"settle", "reconcile", "answered", "failed"} : Enter(w, pc)
            BY <4>4 DEF WebhookCommits, WebhookSettles, WebhookStartsReconciliation, WebhookFails
          <5>2. pc \in InHand \cup Finished
            BY <5>1 DEF InHand, Finished
          <5>3. webhooks'[w].pc = pc
            BY <1>0, <5>1, <5>2, WebhookEnters DEF WebhookAt
          <5> QED  BY <5>1, <5>3
        <4> QED  BY <1>1, <3>2, <4>1, <4>2, <4>3, <4>4 DEF WebhookTask
      <3> QED  BY <3>1, <3>2
    <2> QED  BY <1>a, <2>1, <2>2, <2>3
  <1>2. ASSUME NEW w \in Webhooks, NEW i \in DOMAIN provider.events,
               WebhookArrives(w, provider.events[i])
        PROVE  /\ webhooks' \in [Webhooks -> WebhookRecords]
               /\ \A x \in Webhooks : EventKept(x) /\ RowKept(x)
    <2>1. provider.events[i] \in Events /\ provider.events[i] \in KnownEvents
      BY <1>0, ProviderFields DEF TypeOK, ProviderOK, KnownEvents
    <2>2. /\ webhooks' \in [Webhooks -> WebhookRecords]
          /\ webhooks'[w].pc = "event" /\ webhooks'[w].event = provider.events[i]
          /\ \A other \in Webhooks \ {w} : webhooks'[other] = webhooks[other]
      BY <1>0, <1>2, <2>1, WebhookArrived DEF WebhookAt
    <2>3. EventKept(w) /\ RowKept(w)
      BY <1>0, <2>1, <2>2
    <2> QED  BY <1>a, <2>2, <2>3
  <1>3. CASE Killed
    <2>1. ASSUME NEW w \in Webhooks
          PROVE  /\ webhooks'[w] \in WebhookRecords
                 /\ EventKept(w) /\ RowKept(w)
      <3> DEFINE dead == [webhooks[w] EXCEPT !.pc = "dead"]
      <3>1. \/ webhooks'[w] = webhooks[w]
            \/ webhooks'[w] = dead /\ webhooks[w].pc # "idle"
        BY <1>3 DEF Killed
      <3>2. dead \in WebhookRecords /\ dead.pc = "dead" /\ dead.event = webhooks[w].event
        BY <1>0 DEF WebhookRecords, Finished
      <3> HIDE DEF dead
      <3>3. CASE webhooks'[w] = webhooks[w]
        BY <1>0, <1>a, <3>3
      <3>4. CASE webhooks'[w] = dead /\ webhooks[w].pc # "idle"
        BY <1>0, <3>2, <3>4
      <3> QED  BY <3>1, <3>3, <3>4
    <2>2. webhooks' = [w \in Webhooks |-> webhooks'[w]]
      <3>1. webhooks' = [w \in Webhooks |->
              IF webhooks[w].pc \in {"idle"} \cup Finished THEN webhooks[w]
              ELSE [webhooks[w] EXCEPT !.pc = "dead"]]
        BY <1>3 DEF Killed
      <3> QED  BY <3>1
    <2> QED  BY <2>1, <2>2
  <1>4. ASSUME NEW c \in Checkouts, Checkout(c) PROVE UNCHANGED webhooks
    BY <1>4
       DEF Checkout, CheckoutBegins, CheckoutSearches, CheckoutCreates, HeldCreateAnswered,
           CheckoutPersists, CheckoutUnsettles, CheckoutAnswers, CheckoutFails
  <1>5. ASSUME NEW s \in Spawners, Reconciler(s) PROVE UNCHANGED webhooks
    BY <1>5
       DEF Reconciler, ReconcilerChecks, ReconcilerRetrieves, ReconcilerUpdates,
           ReconcilerSettles, ReconcilerGivesUp
  <1>6. ASSUME NEW id \in IntentIds(provider), ConfirmsIntent(id) \/ GeneratesOlderEvent(id)
        PROVE  UNCHANGED webhooks
    BY <1>6 DEF ConfirmsIntent, GeneratesOlderEvent
  <1>7. CASE UNCHANGED vars
    BY <1>b, <1>7 DEF vars
  <1> QED  BY <1>b, <1>1, <1>2, <1>3, <1>4, <1>5, <1>6, <1>7 DEF Next

\* Every step keeps LocalInv.
LEMMA LocalKept ==
  ASSUME LocalInv, [Next]_vars
  PROVE  LocalInv'
  <1>0. /\ ProviderOK(provider) /\ ProviderOK(provider') /\ Grows(provider, provider')
        /\ LocalNeverAhead
    BY ProviderSteps DEF LocalInv, TypeOK
  <1>1. \A id \in DOMAIN payments' : payments'[id] \in {"pending", "succeeded"}
    BY PaymentSteps
  <1>2. TypeOK'
    BY <1>0, <1>1, TasksKept, WebhooksKept DEF TypeOK
  <1>3. LocalNeverAhead'
    <2>1. ASSUME NEW id \in DOMAIN payments'
          PROVE  /\ id \in IntentIds(provider')
                 /\ payments'[id] = "succeeded" => Succeeded(id)'
      <3>1. \/ id \in DOMAIN payments /\ payments'[id] = payments[id]
            \/ id \in IntentIds(provider) /\ payments'[id] = "pending"
            \/ Succeeded(id) /\ payments'[id] = "succeeded"
        BY PaymentSteps
      <3>2. CASE id \in DOMAIN payments /\ payments'[id] = payments[id]
        <4>1. id \in IntentIds(provider) /\ (payments[id] = "succeeded" => Succeeded(id))
          BY <1>0, <3>2 DEF LocalNeverAhead, Succeeded
        <4> QED  BY <1>0, <3>2, <4>1, KnowledgeStays
      <3>3. CASE id \in IntentIds(provider) /\ payments'[id] = "pending"
        BY <1>0, <3>3, KnowledgeStays
      <3>4. CASE Succeeded(id) /\ payments'[id] = "succeeded"
        BY <1>0, <3>4, KnowledgeStays DEF Succeeded
      <3> QED  BY <3>1, <3>2, <3>3, <3>4
    <2> QED  BY <2>1 DEF LocalNeverAhead, Succeeded
  <1> QED  BY <1>2, <1>3, TasksKept DEF LocalInv

\* It holds before the first request.
LEMMA LocalStarts == Init => LocalInv
  <1> SUFFICES ASSUME Init PROVE LocalInv
    OBVIOUS
  <1>1. ProviderOK(provider)
    <2>1. /\ provider = [seed |-> Seed, intents |-> <<>>, events |-> <<>>,
                         idempotency |-> [key \in Checkouts \X Attempts |-> NoEntry]]
          /\ <<>> \in Seq(PaymentIntents) /\ <<>> \in Seq(Events)
          /\ Len(provider.intents) = 0 /\ Len(provider.events) = 0
      BY DEF Init, NewProvider
    <2>2. provider \in Providers
      BY <2>1 DEF Providers
    <2> QED  BY <2>1, <2>2 DEF ProviderOK, Cached
  <1>2. checkouts \in [Checkouts -> CheckoutRecords]
    BY DEF Init, CheckoutRecords, Attempts
  <1>3. webhooks \in [Webhooks -> WebhookRecords]
    BY DEF Init, WebhookRecords
  <1>4. reconcilers \in [Spawners -> ReconcilerRecords]
    BY DEF Init, ReconcilerRecords
  <1>5. \A w \in Webhooks : webhooks[w].pc = "idle"
    BY DEF Init
  <1>6. DOMAIN payments = {}
    BY DEF Init
  <1>7. TypeOK
    BY <1>1, <1>2, <1>3, <1>4, <1>5, <1>6 DEF TypeOK
  <1>8. \A c \in Checkouts : CheckoutKnows(c)
    BY DEF Init, CheckoutKnows
  <1>9. \A s \in Spawners : ReconcilerKnows(s)
    BY DEF Init, ReconcilerKnows, Polling
  <1> QED  BY <1>6, <1>7, <1>8, <1>9 DEF LocalInv, LocalNeverAhead

\* Every record keeps its type, and what each task knows of the provider is so.
THEOREM TypesAndKnowledge == Spec => []LocalInv
  <1> QED  BY LocalStarts, LocalKept, PTL DEF Spec

\* The database never claims what the provider does not hold: whatever the
\* modes, the interleaving, the lost answers and the kills, a payment row is of
\* an object of the provider, and "succeeded" in it is so at the provider.
THEOREM LocalFollowsProvider == Spec => []LocalNeverAhead
  BY TypesAndKnowledge, PTL DEF LocalInv

-----------------------------------------------------------------------------
(* One object for each operation.                                           *)

\* A checkout that creates finds no object there, or its own in the cache; and
\* no other checkout is at work.  Under the changed key, or without the search,
\* neither is so.
UniqueInv ==
    /\ LocalInv
    /\ \A c, d \in Checkouts :
          checkouts[c].pc \in AtWork /\ checkouts[d].pc \in AtWork => c = d
    /\ \A c \in Checkouts : checkouts[c].pc = "create" =>
          Len(provider.intents) = 0 \/ Cached(provider, <<c, 1>>)
    /\ ProviderObjectUnique

\* What the calls that create no object leave of the objects and the cache.
LEMMA NothingCreated ==
  ASSUME TypeOK, NEW id \in IntentIds(provider), ConfirmsIntent(id) \/ GeneratesOlderEvent(id)
  PROVE  /\ UNCHANGED checkouts
         /\ Len(provider'.intents) = Len(provider.intents)
         /\ \A key \in Checkouts \X Attempts : Cached(provider', key) <=> Cached(provider, key)
  <1>0. ProviderOK(provider)
        /\ IntentIds(provider) = {<<Seed, i>> : i \in 1 .. Len(provider.intents)}
    BY Positions DEF TypeOK
  <1>1. PICK k \in 1 .. Len(provider.intents) : id = <<Seed, k>>
    BY <1>0
  <1>2. CASE ConfirmsIntent(id)
    BY <1>0, <1>1, <1>2, Confirmed DEF ConfirmsIntent
  <1>3. CASE GeneratesOlderEvent(id)
    <2>1. provider' = EnsureEvent(provider, <<Seed, k>>, "RequiresConfirmation")
      BY <1>1, <1>3 DEF GeneratesOlderEvent, EventSnapshot
    <2>2. provider'.intents = provider.intents
          /\ provider'.idempotency = provider.idempotency
      BY <1>0, <2>1 DEF EnsureEvent, ProviderOK, Providers
    <2> QED  BY <1>3, <2>2 DEF GeneratesOlderEvent, Cached
  <1> QED  BY <1>2, <1>3

\* A checkout keeps UniqueInv.
LEMMA CheckoutKeepsUnique ==
  ASSUME RetryKeyMode = "repaired_same_key",
         CallerRetryMode = "repaired_recover_operation",
         UniqueInv, NEW c \in Checkouts, Checkout(c)
  PROVE  /\ \A a, b \in Checkouts :
               checkouts'[a].pc \in AtWork /\ checkouts'[b].pc \in AtWork => a = b
         /\ \A b \in Checkouts : checkouts'[b].pc = "create" =>
               Len(provider'.intents) = 0 \/ Cached(provider', <<b, 1>>)
         /\ ProviderObjectUnique'
  <1>0. /\ LocalInv /\ TypeOK /\ ProviderOK(provider) /\ CheckoutKnows(c)
        /\ Len(provider.intents) \in Nat /\ Len(provider.intents) <= 1
        /\ \A a, b \in Checkouts :
              checkouts[a].pc \in AtWork /\ checkouts[b].pc \in AtWork => a = b
        /\ checkouts[c].pc = "create" =>
              Len(provider.intents) = 0 \/ Cached(provider, <<c, 1>>)
        /\ checkouts[c] \in CheckoutRecords
        /\ <<c, 1>> \in Checkouts \X Attempts
    BY ProviderFields DEF UniqueInv, LocalInv, TypeOK, ProviderOK, ProviderObjectUnique, Attempts
  <1>a. Next
    BY DEF Next
  <1>1. \A d \in Checkouts \ {c} : checkouts'[d] = checkouts[d]
    BY <1>0, <1>a, ProviderSteps, CheckoutSteps
  <1>2. \A d \in Checkouts \ {c} : checkouts[d].pc \notin AtWork
    <2>1. CASE CheckoutBegins(c)
      BY <2>1 DEF CheckoutBegins, AtWork, Finished
    <2>2. CASE ~ CheckoutBegins(c)
      <3>1. checkouts[c].pc \in AtWork
        BY <2>2
           DEF Checkout, CheckoutSearches, CheckoutCreates, HeldCreateAnswered, AtWork,
               CheckoutPersists, CheckoutUnsettles, CheckoutAnswers, CheckoutFails
      <3> QED  BY <1>0, <3>1
    <2> QED  BY <2>1, <2>2
  <1>3. \A d \in Checkouts \ {c} : checkouts'[d].pc \notin AtWork
    BY <1>1, <1>2
  <1>4. SUFFICES /\ checkouts'[c].pc = "create" =>
                       Len(provider'.intents) = 0 \/ Cached(provider', <<c, 1>>)
                 /\ Len(provider'.intents) <= 1
    BY <1>3 DEF AtWork, ProviderObjectUnique
  <1>5. ASSUME UNCHANGED provider, checkouts'[c].pc # "create"
        PROVE  /\ checkouts'[c].pc = "create" =>
                     Len(provider'.intents) = 0 \/ Cached(provider', <<c, 1>>)
               /\ Len(provider'.intents) <= 1
    BY <1>0, <1>5
  <1>6. CASE CheckoutBegins(c)
    <2>1. Goto(c, "search") /\ UNCHANGED provider
      BY <1>6 DEF CheckoutBegins, Searches
    <2> QED  BY <1>0, <1>5, <2>1, CheckoutMoves DEF AtWork
  <1>7. CASE CheckoutSearches(c)
    <2>1. UNCHANGED provider
      BY <1>7 DEF CheckoutSearches
    <2>2. CASE provider.intents = <<>>
      BY <1>0, <2>1, <2>2
    <2>3. CASE provider.intents # <<>>
      <3>1. \/ Goto(c, "failed")
            \/ checkouts' = [checkouts EXCEPT ![c].pc = "persist",
                                              ![c].id = provider.intents[1].id]
        BY <1>7, <2>3 DEF CheckoutSearches
      <3>2. checkouts'[c].pc # "create"
        <4>1. CASE Goto(c, "failed")
          BY <1>0, <4>1, CheckoutMoves DEF Finished
        <4>2. CASE checkouts' = [checkouts EXCEPT ![c].pc = "persist",
                                                  ![c].id = provider.intents[1].id]
          <5> DEFINE moved == [checkouts[c] EXCEPT !.pc = "persist",
                                                   !.id = provider.intents[1].id]
          <5>1. checkouts' = [checkouts EXCEPT ![c] = moved] /\ moved.pc = "persist"
            BY <1>0, <4>2 DEF CheckoutRecords
          <5>2. checkouts \in [Checkouts -> CheckoutRecords]
            BY <1>0 DEF TypeOK
          <5> HIDE DEF moved
          <5> QED  BY <5>1, <5>2
        <4> QED  BY <3>1, <4>1, <4>2
      <3> QED  BY <1>5, <2>1, <3>2
    <2> QED  BY <2>2, <2>3
  <1>8. ASSUME NEW outcome \in Outcomes, CheckoutCreates(c, outcome)
        PROVE  /\ checkouts'[c].pc = "create" =>
                     Len(provider'.intents) = 0 \/ Cached(provider', <<c, 1>>)
               /\ Len(provider'.intents) <= 1
    <2>1. /\ checkouts[c].pc = "create"
          /\ provider' = CreateEffect(provider, <<c, 1>>, Operation, outcome)
      BY <1>8 DEF CheckoutCreates, KeyOfAttempt, ChangedKey
    <2>2. CASE Executes(provider, <<c, 1>>, outcome)
      <3>1. Len(provider.intents) = 0
        BY <1>0, <2>1, <2>2 DEF Executes
      <3> QED  BY <1>0, <2>1, <2>2, <3>1, Executed
    <2>3. CASE ~ Executes(provider, <<c, 1>>, outcome)
      <3>1. provider' = provider
        BY <2>1, <2>3 DEF CreateEffect
      <3> QED  BY <1>0, <2>1, <3>1
    <2> QED  BY <2>2, <2>3
  <1>9. CASE HeldCreateAnswered(c)
    <2>1. /\ checkouts[c].pc = "held" /\ Decode(c, checkouts[c].response)
          /\ UNCHANGED provider
      BY <1>9 DEF HeldCreateAnswered
    <2>2. /\ checkouts[c].response \in Responses
          /\ Accepted(checkouts[c].response) =>
                checkouts[c].response.body[1].id \in IntentIds(provider)
      BY <1>0, <2>1 DEF CheckoutKnows, Accepted
    <2>3. IntentIds(provider) \subseteq Ids
      BY <1>0, Positions DEF Ids
    <2>4. checkouts'[c].pc \in {"failed", "persist"}
      BY <1>0, <2>1, <2>2, <2>3, Decodes
    <2> QED  BY <1>5, <2>1, <2>4
  <1>10. CASE CheckoutPersists(c) \/ CheckoutUnsettles(c) \/ CheckoutAnswers(c) \/ CheckoutFails(c)
    <2>1. PICK pc \in {"unsettle", "reconcile", "answered", "failed"} : Goto(c, pc)
      BY <1>10 DEF CheckoutPersists, CheckoutUnsettles, CheckoutAnswers, CheckoutFails
    <2>2. pc \in AtWork \cup Finished
      BY <2>1 DEF AtWork, Finished
    <2>3. UNCHANGED provider
      BY <1>10 DEF CheckoutPersists, CheckoutUnsettles, CheckoutAnswers, CheckoutFails
    <2>4. checkouts'[c].pc = pc
      BY <1>0, <2>1, <2>2, CheckoutMoves
    <2> QED  BY <1>5, <2>1, <2>3, <2>4
  <1> QED  BY <1>6, <1>7, <1>8, <1>9, <1>10 DEF Checkout

\* And so does every step.
LEMMA UniqueKept ==
  ASSUME RetryKeyMode = "repaired_same_key",
         CallerRetryMode = "repaired_recover_operation",
         UniqueInv, [Next]_vars
  PROVE  UniqueInv'
  <1> DEFINE Kept ==
         /\ \A c, d \in Checkouts :
               checkouts'[c].pc \in AtWork /\ checkouts'[d].pc \in AtWork => c = d
         /\ \A c \in Checkouts : checkouts'[c].pc = "create" =>
               Len(provider'.intents) = 0 \/ Cached(provider', <<c, 1>>)
         /\ ProviderObjectUnique'
  <1>0. LocalInv /\ TypeOK /\ LocalInv'
    BY LocalKept DEF UniqueInv, LocalInv
  <1>a. UNCHANGED <<checkouts, provider>> => Kept
    BY DEF UniqueInv, ProviderObjectUnique, Cached
  <1>1. ASSUME NEW c \in Checkouts, Checkout(c) PROVE Kept
    BY <1>1, CheckoutKeepsUnique
  <1>2. ASSUME NEW id \in IntentIds(provider), ConfirmsIntent(id) \/ GeneratesOlderEvent(id)
        PROVE  Kept
    <2>1. /\ UNCHANGED checkouts /\ Len(provider'.intents) = Len(provider.intents)
          /\ \A key \in Checkouts \X Attempts : Cached(provider', key) <=> Cached(provider, key)
      BY <1>0, <1>2, NothingCreated
    <2>2. \A c \in Checkouts : <<c, 1>> \in Checkouts \X Attempts
      BY DEF Attempts
    <2> QED  BY <2>1, <2>2 DEF UniqueInv, ProviderObjectUnique
  <1>3. ASSUME NEW w \in Webhooks,
               \/ \E i \in DOMAIN provider.events : WebhookArrives(w, provider.events[i])
               \/ WebhookTask(w) \/ WebhookFails(w)
        PROVE  Kept
    <2>1. UNCHANGED <<checkouts, provider>>
      BY <1>3
         DEF WebhookArrives, WebhookTask, WebhookInsertsEvent, WebhookInsertsPayment,
             WebhookReadsStatus, WebhookUpdates, WebhookCommits, WebhookSettles,
             WebhookStartsReconciliation, WebhookFails
    <2> QED  BY <1>a, <2>1
  <1>4. ASSUME NEW s \in Spawners, Reconciler(s) PROVE Kept
    <2>1. UNCHANGED <<checkouts, provider>>
      BY <1>4
         DEF Reconciler, ReconcilerChecks, ReconcilerRetrieves, ReconcilerUpdates,
             ReconcilerSettles, ReconcilerGivesUp
    <2> QED  BY <1>a, <2>1
  <1>5. ASSUME Killed PROVE Kept
    <2>1. ASSUME NEW c \in Checkouts
          PROVE  checkouts'[c].pc \notin AtWork
      <3>1. checkouts[c] \in CheckoutRecords
        BY <1>0 DEF TypeOK
      <3>2. CASE checkouts[c].pc \in {"idle"} \cup Finished
        BY <1>5, <3>2 DEF Killed, AtWork, Finished
      <3>3. CASE checkouts[c].pc \notin {"idle"} \cup Finished
        <4>1. checkouts'[c] = [checkouts[c] EXCEPT !.pc = "dead"]
          BY <1>5, <3>3 DEF Killed
        <4> QED  BY <3>1, <4>1 DEF CheckoutRecords, AtWork
      <3> QED  BY <3>2, <3>3
    <2>2. ProviderObjectUnique'
      BY <1>5 DEF Killed, UniqueInv, ProviderObjectUnique
    <2>3. \A c \in Checkouts : checkouts'[c].pc # "create"
      BY <2>1 DEF AtWork
    <2> QED  BY <2>1, <2>2, <2>3
  <1>6. ASSUME UNCHANGED vars PROVE Kept
    <2>1. UNCHANGED <<checkouts, provider>>
      BY <1>6 DEF vars
    <2> QED  BY <1>a, <2>1
  <1> HIDE DEF Kept
  <1>7. Kept
    BY <1>1, <1>2, <1>3, <1>4, <1>5, <1>6 DEF Next
  <1> QED  BY <1>0, <1>7 DEF UniqueInv, Kept

\* Where the retry keeps the key of the first attempt and the caller looks for
\* an object before it creates one, an operation has at most one object at the
\* provider, however many of its checkouts lose their answer, fail or die.
THEOREM ObjectIsUnique ==
  ASSUME RetryKeyMode = "repaired_same_key",
         CallerRetryMode = "repaired_recover_operation"
  PROVE  Spec => []ProviderObjectUnique
  <1>1. Init => UniqueInv
    <2> SUFFICES ASSUME Init PROVE UniqueInv
      OBVIOUS
    <2>1. Len(provider.intents) = 0
      BY DEF Init, NewProvider
    <2>2. \A c \in Checkouts : checkouts[c].pc = "idle"
      BY DEF Init
    <2> QED  BY <2>1, <2>2, LocalStarts DEF UniqueInv, ProviderObjectUnique, AtWork
  <1>2. UniqueInv /\ [Next]_vars => UniqueInv'
    BY UniqueKept
  <1>3. UniqueInv => ProviderObjectUnique
    BY DEF UniqueInv
  <1> QED  BY <1>1, <1>2, <1>3, PTL DEF Spec

-----------------------------------------------------------------------------
(* One effect and one balanced ledger entry for each succeeded event.       *)

\* What the database holds of an event: one effect and one balanced entry when
\* it told a success and was processed, else nothing.
StoredOnce(event) ==
    IF event \in processed /\ event.kind = "Succeeded"
    THEN /\ EffectsOf(event) = 1
         /\ \E entry : entry.credit /\ {row \in ledger : row.event = event} = {entry}
    ELSE /\ EffectsOf(event) = 0
         /\ {row \in ledger : row.event = event} = {}

\* The transaction of a request that inserted its event is the only one to do
\* so; one that did not insert it has seen it processed.
TransactionKnows(w) ==
    /\ webhooks[w].pc \in InTransaction /\ webhooks[w].first =>
          webhooks[w].event \notin processed
    /\ webhooks[w].pc \in {"payment", "read", "update"} => webhooks[w].first
    /\ webhooks[w].pc = "commit" /\ ~ webhooks[w].first => webhooks[w].event \in processed

OneInserts ==
    \A w, v \in Webhooks :
        InsertsEvent(w, webhooks[w].event) /\ InsertsEvent(v, webhooks[w].event) => w = v

OnceInv ==
    /\ LocalInv
    /\ \A w \in Webhooks : TransactionKnows(w)
    /\ OneInserts
    /\ \A event \in Events : StoredOnce(event)

\* The request's record alone decides what it inserts.
LEMMA InsertsStay ==
  ASSUME TypeOK, NEW w \in Webhooks, WebhookTask(w) \/ WebhookFails(w)
  PROVE  \A v \in Webhooks \ {w} : \A event : InsertsEvent(v, event)' <=> InsertsEvent(v, event)
  BY WebhookSteps DEF InsertsEvent

\* A step of a request keeps what its transaction knows; only a commit adds to
\* the processed events, and only the one of the request.
LEMMA TransactionSteps ==
  ASSUME OnceInv, NEW w \in Webhooks, WebhookTask(w) \/ WebhookFails(w)
  PROVE  /\ TransactionKnows(w)'
         /\ \/ UNCHANGED <<processed, effects, ledger>>
            \/ WebhookCommits(w)
         /\ InsertsEvent(w, webhooks[w].event)' =>
               \/ InsertsEvent(w, webhooks[w].event)
               \/ EventFree(webhooks[w].event, w)
  <1>0. TypeOK /\ TransactionKnows(w)
    BY DEF OnceInv, LocalInv
  <1>1. CASE WebhookInsertsEvent(w)
    <2> DEFINE new == webhooks[w].event \notin processed
               pc == IF new THEN "payment" ELSE "commit"
               r == webhooks[w]
    <2>1. WebhookAt(w, pc, r.event, new, r.inserted, r.current, r.applied)
      BY <1>0, <1>1, WebhookInserted
    <2>2. /\ webhooks'[w].event = webhooks[w].event /\ webhooks'[w].pc = pc
          /\ webhooks'[w].first = new
      BY <2>1 DEF WebhookAt
    <2>3. UNCHANGED <<processed, effects, ledger>> /\ EventFree(webhooks[w].event, w)
      BY <1>1 DEF WebhookInsertsEvent, database
    <2>4. TransactionKnows(w)'
      <3>1. CASE webhooks[w].event \in processed
        <4>1. webhooks'[w].pc = "commit" /\ webhooks'[w].first = FALSE
          BY <2>2, <3>1
        <4> QED  BY <2>2, <2>3, <3>1, <4>1 DEF TransactionKnows
      <3>2. CASE webhooks[w].event \notin processed
        <4>1. webhooks'[w].pc = "payment" /\ webhooks'[w].first = TRUE
          BY <2>2, <3>2
        <4> QED  BY <2>2, <2>3, <3>2, <4>1 DEF TransactionKnows
      <3> QED  BY <3>1, <3>2
    <2> QED  BY <2>3, <2>4
  <1>2. ASSUME NEW pc \in {"read", "update", "commit"}, webhooks'[w].pc = pc,
               webhooks[w].pc \in {"payment", "read", "update"},
               webhooks'[w].event = webhooks[w].event,
               webhooks'[w].first = webhooks[w].first,
               UNCHANGED <<processed, effects, ledger>>
        PROVE  /\ TransactionKnows(w)'
               /\ InsertsEvent(w, webhooks[w].event)' => InsertsEvent(w, webhooks[w].event)
    BY <1>0, <1>2 DEF TransactionKnows, InTransaction, InsertsEvent
  <1>3. CASE WebhookInsertsPayment(w)
    <2>1. /\ webhooks'[w].pc = "read" /\ webhooks'[w].event = webhooks[w].event
          /\ webhooks'[w].first = webhooks[w].first
      BY <1>0, <1>3, WebhookInsertedPayment DEF WebhookAt
    <2> QED  BY <1>2, <1>3, <2>1 DEF WebhookInsertsPayment, database
  <1>4. CASE WebhookReadsStatus(w)
    <2>1. /\ webhooks'[w].pc = "update" /\ webhooks'[w].event = webhooks[w].event
          /\ webhooks'[w].first = webhooks[w].first
      BY <1>0, <1>4, WebhookRead DEF WebhookAt
    <2> QED  BY <1>2, <1>4, <2>1 DEF WebhookReadsStatus, database
  <1>5. CASE WebhookUpdates(w)
    <2>1. /\ webhooks'[w].pc = "commit" /\ webhooks'[w].event = webhooks[w].event
          /\ webhooks'[w].first = webhooks[w].first
      BY <1>0, <1>5, WebhookUpdatedRow DEF WebhookAt
    <2> QED  BY <1>2, <1>5, <2>1 DEF WebhookUpdates, database
  <1>6. ASSUME NEW pc \in {"settle", "reconcile", "answered", "failed"}, Enter(w, pc)
        PROVE  /\ TransactionKnows(w)'
               /\ ~ InsertsEvent(w, webhooks[w].event)'
    <2>1. pc \in InHand \cup Finished
      BY <1>6 DEF InHand, Finished
    <2>2. webhooks'[w].pc = pc
      BY <1>0, <1>6, <2>1, WebhookEnters DEF WebhookAt
    <2> QED  BY <1>6, <2>2 DEF TransactionKnows, InTransaction, InsertsEvent
  <1>7. CASE WebhookCommits(w)
    BY <1>6, <1>7 DEF WebhookCommits
  <1>8. CASE WebhookSettles(w) \/ WebhookStartsReconciliation(w) \/ WebhookFails(w)
    <2>1. PICK pc \in {"settle", "reconcile", "answered", "failed"} : Enter(w, pc)
      BY <1>8 DEF WebhookSettles, WebhookStartsReconciliation, WebhookFails
    <2>2. UNCHANGED <<processed, effects, ledger>>
      BY <1>8 DEF WebhookSettles, WebhookStartsReconciliation, WebhookFails, database
    <2> QED  BY <1>6, <2>1, <2>2
  <1> QED  BY <1>1, <1>3, <1>4, <1>5, <1>7, <1>8 DEF WebhookTask

\* A commit stores the event once, and nothing of the others.
LEMMA CommitStores ==
  ASSUME WebhookEffectMode = "repaired_deduplicate",
         LedgerBalanceMode = "repaired_balanced",
         OnceInv, NEW w \in Webhooks, WebhookCommits(w), NEW event \in Events
  PROVE  StoredOnce(event)'
  <1>z. PICK own : own = webhooks[w].event
    OBVIOUS
  <1> DEFINE entry == [delivery |-> w, event |-> own, credit |-> TRUE]
  <1>0. /\ TypeOK /\ TransactionKnows(w) /\ StoredOnce(event) /\ StoredOnce(own)
        /\ own \in Events /\ webhooks[w].first \in BOOLEAN
    <2>1. TypeOK /\ webhooks[w].pc # "idle" /\ webhooks[w] \in WebhookRecords
      BY DEF OnceInv, LocalInv, TypeOK, WebhookCommits
    <2>2. own \in Events
      BY <1>z, <2>1, EventsAreOfIntents
    <2> QED  BY <2>1, <2>2 DEF OnceInv, WebhookRecords
  <1>1. /\ webhooks[w].pc = "commit"
        /\ processed' = processed \cup {own}
        /\ effects' = Put(effects, own, EffectsOf(own) + EffectRows(w))
        /\ ledger' = ledger \cup LedgerRows(w)
    BY <1>z DEF WebhookCommits
  <1>2. /\ EffectRows(w) = IF IsSuccess(w) /\ webhooks[w].first THEN 1 ELSE 0
        /\ LedgerRows(w) = IF IsSuccess(w) /\ webhooks[w].first THEN {entry} ELSE {}
    <2>1. ~ OneSidedEntry(w)
      BY DEF OneSidedEntry
    <2>2. CASE IsSuccess(w) /\ webhooks[w].first
      <3>1. AppliesEffect(w)
        BY <2>2 DEF AppliesEffect
      <3> QED  BY <1>z, <2>1, <2>2, <3>1 DEF EffectRows, LedgerRows
    <2>3. CASE ~ (IsSuccess(w) /\ webhooks[w].first)
      <3>1. ~ AppliesEffect(w)
        BY <2>3 DEF AppliesEffect
      <3> QED  BY <2>1, <2>3, <3>1 DEF EffectRows, LedgerRows
    <2> QED  BY <2>2, <2>3
  <1>3. /\ EffectsOf(own)' = EffectsOf(own) + EffectRows(w)
        /\ \A other : other # own => EffectsOf(other)' = EffectsOf(other)
    BY <1>1 DEF EffectsOf, Put
  <1>4. \A row \in LedgerRows(w) : row.event = own /\ row.credit
    BY <1>2
  <1>5. CASE event # own
    <2>1. {row \in ledger' : row.event = event} = {row \in ledger : row.event = event}
      BY <1>1, <1>4, <1>5
    <2>2. EffectsOf(event)' = EffectsOf(event)
      BY <1>3, <1>5
    <2>3. event \in processed' <=> event \in processed
      BY <1>1, <1>5
    <2> QED  BY <1>0, <2>1, <2>2, <2>3 DEF StoredOnce
  <1>6. CASE event = own /\ ~ (IsSuccess(w) /\ webhooks[w].first)
    <2>1. EffectRows(w) = 0 /\ ledger' = ledger
      BY <1>1, <1>2, <1>6
    <2>2. EffectsOf(own)' = EffectsOf(own)
      BY <1>0, <1>3, <2>1 DEF StoredOnce
    <2>3. (own \in processed' /\ own.kind = "Succeeded")
            <=> (own \in processed /\ own.kind = "Succeeded")
      BY <1>z, <1>0, <1>1, <1>6 DEF TransactionKnows, IsSuccess
    <2> QED  BY <1>0, <1>6, <2>1, <2>2, <2>3 DEF StoredOnce
  <1>7. CASE event = own /\ IsSuccess(w) /\ webhooks[w].first
    <2>1. own \notin processed /\ own.kind = "Succeeded" /\ own \in processed'
      BY <1>z, <1>0, <1>1, <1>7 DEF TransactionKnows, InTransaction, IsSuccess
    <2>2. EffectsOf(own)' = 1
      BY <1>0, <1>2, <1>3, <1>7, <2>1 DEF StoredOnce
    <2>3. {row \in ledger' : row.event = own} = {entry}
      <3>1. {row \in ledger : row.event = own} = {}
        BY <1>0, <2>1 DEF StoredOnce
      <3>2. ledger' = ledger \cup {entry} /\ entry.event = own
        BY <1>1, <1>2, <1>7
      <3> HIDE DEF entry
      <3> QED  BY <3>1, <3>2
    <2>4. entry.credit
      OBVIOUS
    <2> HIDE DEF entry
    <2> QED  BY <1>7, <2>1, <2>2, <2>3, <2>4 DEF StoredOnce
  <1> QED  BY <1>0, <1>5, <1>6, <1>7

\* Every step keeps OnceInv.
LEMMA OnceKept ==
  ASSUME WebhookEffectMode = "repaired_deduplicate",
         LedgerBalanceMode = "repaired_balanced",
         OnceInv, [Next]_vars
  PROVE  OnceInv'
  <1> DEFINE Kept ==
         /\ \A w \in Webhooks : TransactionKnows(w)'
         /\ OneInserts'
         /\ \A event \in Events : StoredOnce(event)'
  <1>0. /\ LocalInv /\ TypeOK /\ LocalInv' /\ OneInserts
        /\ webhooks \in [Webhooks -> WebhookRecords]
        /\ \A w \in Webhooks : TransactionKnows(w)
        /\ \A event \in Events : StoredOnce(event)
    BY LocalKept DEF OnceInv, LocalInv, TypeOK
  <1>a. UNCHANGED <<processed, effects, ledger>> => \A event \in Events : StoredOnce(event)'
    BY <1>0 DEF StoredOnce, EffectsOf
  <1>b. ASSUME UNCHANGED <<processed, effects, ledger>>,
               \A w \in Webhooks :
                  \/ webhooks'[w] = webhooks[w]
                  \/ webhooks'[w].pc \notin InTransaction
        PROVE  Kept
    <2>1. ASSUME NEW w \in Webhooks PROVE TransactionKnows(w)'
      <3>1. CASE webhooks'[w] = webhooks[w]
        BY <1>0, <1>b, <3>1 DEF TransactionKnows
      <3>2. CASE webhooks'[w].pc \notin InTransaction
        BY <3>2 DEF TransactionKnows, InTransaction
      <3> QED  BY <1>b, <3>1, <3>2
    <2>2. OneInserts'
      BY <1>0, <1>b DEF OneInserts, InsertsEvent
    <2> QED  BY <1>a, <1>b, <2>1, <2>2
  <1>1. ASSUME NEW w \in Webhooks, WebhookTask(w) \/ WebhookFails(w) PROVE Kept
    <2>1. /\ webhooks'[w].event = webhooks[w].event
          /\ \A other \in Webhooks \ {w} : webhooks'[other] = webhooks[other]
      BY <1>0, <1>1, WebhookSteps
    <2>2. /\ TransactionKnows(w)'
          /\ UNCHANGED <<processed, effects, ledger>> \/ WebhookCommits(w)
          /\ InsertsEvent(w, webhooks[w].event)' =>
                \/ InsertsEvent(w, webhooks[w].event)
                \/ EventFree(webhooks[w].event, w)
      BY <1>1, TransactionSteps
    <2>3. ASSUME NEW v \in Webhooks \ {w} PROVE TransactionKnows(v)'
      <3>1. CASE UNCHANGED <<processed, effects, ledger>>
        BY <1>0, <2>1, <3>1 DEF TransactionKnows
      <3>2. CASE WebhookCommits(w)
        <4>1. /\ processed' = processed \cup {webhooks[w].event} /\ webhooks[w].pc = "commit"
              /\ ~ webhooks[w].first => webhooks[w].event \in processed
          BY <1>0, <3>2 DEF WebhookCommits, TransactionKnows
        <4>2. CASE webhooks[v].pc \in InTransaction /\ webhooks[v].first
          <5>1. webhooks[v].event \notin processed
            BY <1>0, <4>2 DEF TransactionKnows
          <5>2. CASE webhooks[w].first
            <6>1. webhooks[v].event # webhooks[w].event
              BY <1>0, <4>1, <4>2, <5>2 DEF OneInserts, InsertsEvent, InTransaction
            <6> QED  BY <1>0, <2>1, <4>1, <4>2, <5>1, <6>1 DEF TransactionKnows, InTransaction
          <5>3. CASE ~ webhooks[w].first
            <6>1. processed' = processed
              BY <4>1, <5>3
            <6> QED  BY <1>0, <2>1, <6>1 DEF TransactionKnows
          <5> QED  BY <5>2, <5>3
        <4>3. CASE ~ (webhooks[v].pc \in InTransaction /\ webhooks[v].first)
          BY <1>0, <2>1, <4>1, <4>3 DEF TransactionKnows
        <4> QED  BY <4>2, <4>3
      <3> QED  BY <2>2, <3>1, <3>2
    <2>4. OneInserts'
      <3>1. \A v \in Webhooks \ {w} : \A event :
               InsertsEvent(v, event)' <=> InsertsEvent(v, event)
        BY <1>0, <1>1, InsertsStay
      <3>2. ASSUME NEW v \in Webhooks \ {w}, InsertsEvent(w, webhooks[w].event)',
                   InsertsEvent(v, webhooks[w].event)'
            PROVE  FALSE
        <4>1. InsertsEvent(v, webhooks[w].event)
          BY <2>1, <3>2 DEF InsertsEvent
        <4>2. CASE InsertsEvent(w, webhooks[w].event)
          BY <1>0, <4>1, <4>2 DEF OneInserts
        <4>3. CASE EventFree(webhooks[w].event, w)
          BY <4>1, <4>3 DEF EventFree
        <4> QED  BY <2>2, <3>2, <4>2, <4>3
      <3> QED  BY <1>0, <2>1, <3>2 DEF OneInserts, InsertsEvent
    <2>5. \A event \in Events : StoredOnce(event)'
      BY <1>a, <2>2, CommitStores
    <2> QED  BY <2>2, <2>3, <2>4, <2>5
  <1>2. ASSUME NEW w \in Webhooks, NEW i \in DOMAIN provider.events,
               WebhookArrives(w, provider.events[i])
        PROVE  Kept
    <2>1. provider.events[i] \in Events
      BY <1>0, ProviderFields DEF TypeOK, ProviderOK
    <2>2. /\ webhooks'[w].pc = "event"
          /\ \A other \in Webhooks \ {w} : webhooks'[other] = webhooks[other]
      BY <1>0, <1>2, <2>1, WebhookArrived DEF WebhookAt
    <2>3. UNCHANGED <<processed, effects, ledger>>
      BY <1>2 DEF WebhookArrives, database
    <2>4. "event" \notin InTransaction
      BY DEF InTransaction
    <2> HIDE DEF Kept
    <2> QED  BY <1>b, <2>2, <2>3, <2>4
  <1>3. ASSUME Killed PROVE Kept
    <2>1. UNCHANGED <<processed, effects, ledger>>
      BY <1>3 DEF Killed, database
    <2>2. ASSUME NEW w \in Webhooks
          PROVE  webhooks'[w] = webhooks[w] \/ webhooks'[w].pc \notin InTransaction
      <3> DEFINE dead == [webhooks[w] EXCEPT !.pc = "dead"]
      <3>1. webhooks'[w] = webhooks[w] \/ webhooks'[w] = dead
        BY <1>3 DEF Killed
      <3>2. dead.pc = "dead"
        BY <1>0 DEF WebhookRecords
      <3> HIDE DEF dead
      <3> QED  BY <3>1, <3>2 DEF InTransaction
    <2> HIDE DEF Kept
    <2> QED  BY <1>b, <2>1, <2>2
  <1>4. ASSUME UNCHANGED <<webhooks, processed, effects, ledger>> PROVE Kept
    <2> HIDE DEF Kept
    <2> QED  BY <1>b, <1>4
  <1>5. ASSUME NEW c \in Checkouts, Checkout(c)
        PROVE  UNCHANGED <<webhooks, processed, effects, ledger>>
    BY <1>5
       DEF Checkout, CheckoutBegins, CheckoutSearches, CheckoutCreates, HeldCreateAnswered,
           CheckoutPersists, CheckoutUnsettles, CheckoutAnswers, CheckoutFails, database
  <1>6. ASSUME NEW s \in Spawners, Reconciler(s)
        PROVE  UNCHANGED <<webhooks, processed, effects, ledger>>
    BY <1>6
       DEF Reconciler, ReconcilerChecks, ReconcilerRetrieves, ReconcilerUpdates,
           ReconcilerSettles, ReconcilerGivesUp, database
  <1>7. ASSUME NEW id \in IntentIds(provider), ConfirmsIntent(id) \/ GeneratesOlderEvent(id)
        PROVE  UNCHANGED <<webhooks, processed, effects, ledger>>
    BY <1>7 DEF ConfirmsIntent, GeneratesOlderEvent, database
  <1>8. ASSUME UNCHANGED vars PROVE UNCHANGED <<webhooks, processed, effects, ledger>>
    BY <1>8 DEF vars, database
  <1> HIDE DEF Kept
  <1>9. Kept
    BY <1>1, <1>2, <1>3, <1>4, <1>5, <1>6, <1>7, <1>8 DEF Next
  <1> QED  BY <1>0, <1>9 DEF OnceInv, Kept

\* Where a duplicate is recognised and the ledger is balanced, a succeeded event
\* has exactly one effect and one balanced entry once it was processed and none
\* before, for deliveries that overlap, roll back, fail or are killed.
THEOREM EffectsAreOnce ==
  ASSUME WebhookEffectMode = "repaired_deduplicate",
         LedgerBalanceMode = "repaired_balanced"
  PROVE  Spec => []EffectsAndLedgerOnce
  <1>1. Init => OnceInv
    <2> SUFFICES ASSUME Init PROVE OnceInv
      OBVIOUS
    <2>1. \A w \in Webhooks : webhooks[w].pc = "idle"
      BY DEF Init
    <2>2. DOMAIN effects = {} /\ ledger = {} /\ processed = {}
      BY DEF Init
    <2>3. \A w \in Webhooks : TransactionKnows(w)
      BY <2>1 DEF TransactionKnows, InTransaction
    <2>4. OneInserts
      BY <2>1 DEF OneInserts, InsertsEvent, InTransaction
    <2>5. \A event \in Events : StoredOnce(event)
      BY <2>2 DEF StoredOnce, EffectsOf
    <2> QED  BY <2>3, <2>4, <2>5, LocalStarts DEF OnceInv
  <1>2. OnceInv /\ [Next]_vars => OnceInv'
    BY OnceKept
  <1>3. OnceInv => EffectsAndLedgerOnce
    <2> SUFFICES ASSUME OnceInv, NEW i \in DOMAIN provider.events
                 PROVE  LET event == provider.events[i]
                            entries == {entry \in ledger : entry.event = event}
                            expected == IF event \in processed /\ event.kind = "Succeeded"
                                        THEN 1 ELSE 0
                        IN /\ EffectsOf(event) = expected
                           /\ Cardinality(entries) = expected
                           /\ \A entry \in entries : entry.credit
      BY DEF EffectsAndLedgerOnce
    <2> DEFINE event == provider.events[i]
               entries == {entry \in ledger : entry.event = event}
    <2>1. event \in Events
      BY ProviderFields DEF OnceInv, LocalInv, TypeOK, ProviderOK
    <2>2. StoredOnce(event)
      BY <2>1 DEF OnceInv
    <2> HIDE DEF event
    <2>3. CASE event \in processed /\ event.kind = "Succeeded"
      <3>1. PICK entry : entry.credit /\ entries = {entry}
        BY <2>2, <2>3 DEF StoredOnce
      <3>2. Cardinality(entries) = 1
        BY <3>1, FS_Singleton
      <3> QED  BY <2>2, <2>3, <3>1, <3>2 DEF StoredOnce, event
    <2>4. CASE ~ (event \in processed /\ event.kind = "Succeeded")
      <3>1. entries = {} /\ EffectsOf(event) = 0
        BY <2>2, <2>4 DEF StoredOnce
      <3>2. Cardinality(entries) = 0
        BY <3>1, FS_EmptySet
      <3> QED  BY <2>4, <3>1, <3>2 DEF event
    <2> QED  BY <2>3, <2>4
  <1> QED  BY <1>1, <1>2, <1>3, PTL DEF Spec

-----------------------------------------------------------------------------
(* A success that was recorded is not undone by an older event.             *)

HistoryRows ==
    [event : Events, applied : BOOLEAN, after : {"pending", "succeeded", NoValue}]

\* The history of an object tells a success that was delivered.
SuccessRecorded(id) ==
    \E i \in 1 .. Len(history) :
        history[i].event.intent = id /\ history[i].event.kind = "Succeeded"

\* Between its reads and its commit, a request that goes on to write an older
\* status has seen no success recorded: no other request commits meanwhile.
DecisionHolds(w) ==
    /\ webhooks[w].pc = "commit" /\ webhooks[w].first => webhooks[w].applied = Applies(w)
    /\ webhooks[w].pc \in {"read", "update", "commit"} /\ webhooks[w].first
          /\ webhooks[w].inserted => ~ SuccessRecorded(IntentOf(w))
    /\ webhooks[w].pc \in {"update", "commit"} /\ webhooks[w].first
          /\ webhooks[w].current # "succeeded" => ~ SuccessRecorded(IntentOf(w))

RecordedStays == \A id : SuccessRecorded(id) => id \in DOMAIN payments /\ payments[id] = "succeeded"

\* TerminalSuccessMonotonic for one pair of rows.
UndoneBy(i, j) ==
    /\ i < j /\ history[i].event.intent = history[j].event.intent
    /\ history[i].event.kind = "Succeeded" /\ history[i].after = "succeeded"
    /\ history[j].event.kind = "RequiresConfirmation"
    /\ history[j].applied /\ history[j].after = "pending"

OneInHand ==
    \A w, v \in Webhooks : webhooks[w].pc \in InHand /\ webhooks[v].pc \in InHand => w = v

SerialInv ==
    /\ OneInHand
    /\ \A w \in Webhooks : DecisionHolds(w)
    /\ RecordedStays
    /\ \A i, j \in 1 .. Len(history) : ~ UndoneBy(i, j)

MonotonicInv ==
    /\ LocalInv
    /\ history \in Seq(HistoryRows)
    /\ driver.serial => SerialInv

\* What a request decides depends on its own record, and on the history.
LEMMA DecisionStays ==
  ASSUME NEW w \in Webhooks, DecisionHolds(w), webhooks'[w] = webhooks[w], UNCHANGED history
  PROVE  DecisionHolds(w)'
  <1>1. /\ SuccessRecorded(IntentOf(w))' <=> SuccessRecorded(IntentOf(w))
        /\ Applies(w)' <=> Applies(w)
    BY DEF SuccessRecorded, IntentOf, Applies, IsSuccess
  <1> QED  BY <1>1 DEF DecisionHolds, Applies

\* A request that leaves its transaction decides nothing.
LEMMA NothingDecided ==
  ASSUME NEW w \in Webhooks, webhooks'[w].pc \notin InTransaction
  PROVE  DecisionHolds(w)'
  BY DEF DecisionHolds, InTransaction

\* A step that writes no history keeps SerialInv when it also keeps the row
\* of every success recorded.
LEMMA HistoryKept ==
  ASSUME SerialInv, UNCHANGED history, OneInHand', \A w \in Webhooks : DecisionHolds(w)',
         \A id \in DOMAIN payments :
            /\ id \in DOMAIN payments'
            /\ payments[id] = "succeeded" => payments'[id] = "succeeded"
  PROVE  SerialInv'
  <1>1. \A id : SuccessRecorded(id)' <=> SuccessRecorded(id)
    BY DEF SuccessRecorded
  <1>2. RecordedStays'
    BY <1>1 DEF SerialInv, RecordedStays
  <1>3. \A i, j \in 1 .. Len(history') : ~ UndoneBy(i, j)'
    BY DEF SerialInv, UndoneBy
  <1> QED  BY <1>2, <1>3 DEF SerialInv

\* A step of a request up to its commit.
LEMMA DecisionSteps ==
  ASSUME TypeOK, SerialInv, NEW w \in Webhooks, WebhookTask(w) \/ WebhookFails(w),
         ~ WebhookCommits(w)
  PROVE  DecisionHolds(w)' /\ UNCHANGED <<payments, history>>
  <1>0. DecisionHolds(w) /\ RecordedStays
    BY DEF SerialInv
  <1>a. UNCHANGED <<payments, history>>
    BY DEF WebhookTask, WebhookInsertsEvent, WebhookInsertsPayment, WebhookReadsStatus,
           WebhookUpdates, WebhookSettles, WebhookStartsReconciliation, WebhookFails, database
  <1>b. webhooks'[w].event = webhooks[w].event =>
           (SuccessRecorded(IntentOf(w))' <=> SuccessRecorded(IntentOf(w)))
    BY <1>a DEF SuccessRecorded, IntentOf
  <1>1. CASE WebhookInsertsEvent(w)
    <2> DEFINE new == webhooks[w].event \notin processed
               pc == IF new THEN "payment" ELSE "commit"
               r == webhooks[w]
    <2>1. WebhookAt(w, pc, r.event, new, r.inserted, r.current, r.applied)
      BY <1>1, WebhookInserted
    <2>2. (webhooks'[w].pc = "payment" \/ (webhooks'[w].pc = "commit" /\ ~ webhooks'[w].first))
      BY <2>1 DEF WebhookAt
    <2> QED  BY <1>a, <2>2 DEF DecisionHolds
  <1>2. CASE WebhookInsertsPayment(w)
    <2>1. /\ webhooks'[w].pc = "read" /\ webhooks'[w].event = webhooks[w].event
          /\ webhooks'[w].inserted = (IntentOf(w) \notin DOMAIN payments)
      BY <1>2, WebhookInsertedPayment DEF WebhookAt
    <2>2. webhooks'[w].inserted => ~ SuccessRecorded(IntentOf(w))
      BY <1>0, <2>1 DEF RecordedStays
    <2> QED  BY <1>a, <1>b, <2>1, <2>2 DEF DecisionHolds
  <1>3. CASE WebhookReadsStatus(w)
    <2>1. /\ webhooks'[w].pc = "update" /\ webhooks'[w].event = webhooks[w].event
          /\ webhooks'[w].inserted = webhooks[w].inserted
          /\ webhooks'[w].first = webhooks[w].first
          /\ webhooks'[w].current = IF webhooks[w].inserted
                                    THEN LocalStatusOf(webhooks[w].event)
                                    ELSE payments[IntentOf(w)]
          /\ webhooks[w].pc = "read"
      BY <1>3, WebhookRead DEF WebhookAt, WebhookReadsStatus
    <2>2. webhooks[w].first /\ webhooks[w].inserted => ~ SuccessRecorded(IntentOf(w))
      BY <1>0, <2>1 DEF DecisionHolds
    <2>3. ~ webhooks[w].inserted /\ webhooks'[w].current # "succeeded" =>
             ~ SuccessRecorded(IntentOf(w))
      BY <1>0, <2>1 DEF RecordedStays
    <2>4. webhooks[w].first /\ webhooks'[w].current # "succeeded" =>
             ~ SuccessRecorded(IntentOf(w))
      BY <2>2, <2>3
    <2> QED  BY <1>a, <1>b, <2>1, <2>2, <2>4 DEF DecisionHolds
  <1>4. CASE WebhookUpdates(w)
    <2>1. /\ webhooks'[w].pc = "commit" /\ webhooks'[w].event = webhooks[w].event
          /\ webhooks'[w].inserted = webhooks[w].inserted
          /\ webhooks'[w].first = webhooks[w].first
          /\ webhooks'[w].current = webhooks[w].current
          /\ webhooks'[w].applied = Applies(w) /\ webhooks[w].pc = "update"
      BY <1>4, WebhookUpdatedRow DEF WebhookAt, WebhookUpdates
    <2>2. Applies(w)' = Applies(w)
      BY <2>1 DEF Applies, IsSuccess
    <2>3. /\ webhooks[w].first /\ webhooks[w].inserted => ~ SuccessRecorded(IntentOf(w))
          /\ webhooks[w].first /\ webhooks[w].current # "succeeded" =>
                ~ SuccessRecorded(IntentOf(w))
      BY <1>0, <2>1 DEF DecisionHolds
    <2> QED  BY <1>a, <1>b, <2>1, <2>2, <2>3 DEF DecisionHolds
  <1>5. CASE WebhookSettles(w) \/ WebhookStartsReconciliation(w) \/ WebhookFails(w)
    <2>1. PICK pc \in {"reconcile", "answered", "failed"} : Enter(w, pc)
      BY <1>5 DEF WebhookSettles, WebhookStartsReconciliation, WebhookFails
    <2>2. pc \in InHand \cup Finished /\ pc \notin InTransaction
      BY <2>1 DEF InHand, Finished, InTransaction
    <2>3. webhooks'[w].pc = pc
      BY <2>1, <2>2, WebhookEnters DEF WebhookAt
    <2> QED  BY <1>a, <2>2, <2>3, NothingDecided
  <1> QED  BY <1>1, <1>2, <1>3, <1>4, <1>5 DEF WebhookTask

\* The row that a commit writes, and what it makes of the payment.
LEMMA CommitWrites ==
  ASSUME TerminalStateMode = "repaired_monotonic",
         TypeOK, history \in Seq(HistoryRows), RecordedStays,
         \A i, j \in 1 .. Len(history) : ~ UndoneBy(i, j),
         NEW w \in Webhooks, DecisionHolds(w), WebhookCommits(w)
  PROVE  /\ RecordedStays'
         /\ \A i, j \in 1 .. Len(history') : ~ UndoneBy(i, j)'
  <1>a. PICK event : event = webhooks[w].event
    OBVIOUS
  <1>b. PICK row : row = HistoryRow(w)
    OBVIOUS
  <1>c. Len(history) \in Nat
    OBVIOUS
  <1>1. CASE ~ webhooks[w].first
    <2>1. UNCHANGED <<history, payments>>
      BY <1>1 DEF WebhookCommits
    <2> QED  BY <2>1 DEF RecordedStays, SuccessRecorded, UndoneBy
  <1>2. CASE webhooks[w].first
    <2>1. /\ webhooks[w].pc = "commit"
          /\ history' = Append(history, row)
          /\ payments' = IF webhooks[w].inserted \/ webhooks[w].applied
                         THEN Put(payments, event.intent, LocalStatusOf(event)) ELSE payments
          /\ row.event = event /\ row.applied = webhooks[w].applied
          /\ webhooks[w].applied = Applies(w)
      BY <1>2, <1>a, <1>b DEF WebhookCommits, HistoryRow, IntentOf, DecisionHolds
    <2>2. event.kind # "Succeeded" /\ (webhooks[w].inserted \/ webhooks[w].applied) =>
             ~ SuccessRecorded(event.intent)
      <3>1. SUFFICES ASSUME event.kind # "Succeeded",
                            webhooks[w].inserted \/ webhooks[w].applied
                     PROVE  ~ SuccessRecorded(event.intent)
        OBVIOUS
      <3>2. webhooks[w].inserted \/ webhooks[w].current # "succeeded"
        BY <1>a, <2>1, <3>1 DEF Applies, IsSuccess
      <3> QED  BY <1>2, <1>a, <2>1, <3>2 DEF DecisionHolds, IntentOf
    <2>3. /\ Len(history') = Len(history) + 1
          /\ \A i \in 1 .. Len(history) : history'[i] = history[i]
          /\ history'[Len(history) + 1] = row
      BY <2>1
    <2>4. RecordedStays'
      <3>1. ASSUME NEW id, SuccessRecorded(id)'
            PROVE  id \in DOMAIN payments' /\ payments'[id] = "succeeded"
        <4>1. PICK k \in 1 .. Len(history) + 1 :
                 history'[k].event.intent = id /\ history'[k].event.kind = "Succeeded"
          BY <2>3, <3>1 DEF SuccessRecorded
        <4>2. CASE k = Len(history) + 1
          <5>1. event.intent = id /\ event.kind = "Succeeded"
            BY <2>1, <2>3, <4>1, <4>2
          <5>2. webhooks[w].applied
            BY <1>a, <2>1, <5>1 DEF Applies, IsSuccess
          <5> QED  BY <2>1, <5>1, <5>2 DEF Put, LocalStatusOf
        <4>3. CASE k \in 1 .. Len(history)
          <5>1. SuccessRecorded(id)
            BY <2>3, <4>1, <4>3 DEF SuccessRecorded
          <5>2. id \in DOMAIN payments /\ payments[id] = "succeeded"
            BY <5>1 DEF RecordedStays
          <5>3. CASE payments' = payments
            BY <5>2, <5>3
          <5>4. CASE payments' # payments
            <6>1. /\ webhooks[w].inserted \/ webhooks[w].applied
                  /\ payments' = Put(payments, event.intent, LocalStatusOf(event))
              BY <2>1, <5>4
            <6>2. event.intent = id => LocalStatusOf(event) = "succeeded"
              BY <2>2, <5>1, <6>1 DEF LocalStatusOf
            <6> QED  BY <5>2, <6>1, <6>2 DEF Put
          <5> QED  BY <5>3, <5>4
        <4> QED  BY <1>c, <4>2, <4>3
      <3> QED  BY <3>1 DEF RecordedStays
    <2>5. ASSUME NEW i \in 1 .. Len(history'), NEW j \in 1 .. Len(history'), UndoneBy(i, j)'
          PROVE  FALSE
      <3>1. i \in 1 .. Len(history)
        BY <1>c, <2>3, <2>5 DEF UndoneBy
      <3>2. CASE j \in 1 .. Len(history)
        <4>1. UndoneBy(i, j)
          BY <2>3, <2>5, <3>1, <3>2 DEF UndoneBy
        <4> QED  BY <3>1, <3>2, <4>1
      <3>3. CASE j = Len(history) + 1
        <4>1. /\ event.kind = "RequiresConfirmation" /\ webhooks[w].applied
              /\ history[i].event.intent = event.intent
              /\ history[i].event.kind = "Succeeded"
          BY <2>1, <2>3, <2>5, <3>1, <3>3 DEF UndoneBy
        <4>2. SuccessRecorded(event.intent)
          BY <3>1, <4>1 DEF SuccessRecorded
        <4> QED  BY <2>2, <4>1, <4>2
      <3> QED  BY <1>c, <2>3, <3>2, <3>3
    <2> QED  BY <2>4, <2>5
  <1> QED  BY <1>1, <1>2

\* Every step keeps MonotonicInv.
LEMMA MonotonicKept ==
  ASSUME TerminalStateMode = "repaired_monotonic", MonotonicInv, [Next]_vars
  PROVE  MonotonicInv'
  <1> DEFINE Kept == history' \in Seq(HistoryRows) /\ (driver'.serial => SerialInv')
  <1>0. /\ LocalInv /\ TypeOK /\ LocalInv' /\ history \in Seq(HistoryRows)
        /\ webhooks \in [Webhooks -> WebhookRecords]
        /\ driver.serial => SerialInv
    BY LocalKept DEF MonotonicInv, LocalInv, TypeOK
  <1>a. ASSUME UNCHANGED <<webhooks, history, driver>>,
               \A id \in DOMAIN payments :
                  /\ id \in DOMAIN payments'
                  /\ payments[id] = "succeeded" => payments'[id] = "succeeded"
        PROVE  Kept
    <2>1. ASSUME driver.serial PROVE SerialInv'
      <3>1. SerialInv
        BY <1>0, <2>1
      <3>2. OneInHand' /\ \A w \in Webhooks : DecisionHolds(w)'
        BY <1>a, <3>1, DecisionStays DEF SerialInv, OneInHand
      <3> QED  BY <1>a, <3>1, <3>2, HistoryKept
    <2> QED  BY <1>0, <1>a, <2>1
  <1>1. ASSUME NEW w \in Webhooks, WebhookTask(w) \/ WebhookFails(w) PROVE Kept
    <2>1. /\ webhooks' \in [Webhooks -> WebhookRecords] /\ webhooks[w].pc \in InHand
          /\ \A other \in Webhooks \ {w} : webhooks'[other] = webhooks[other]
          /\ UNCHANGED driver
      BY <1>0, <1>1, WebhookSteps
    <2>2. history' \in Seq(HistoryRows)
      <3>1. CASE WebhookCommits(w) /\ webhooks[w].first
        <4>1. webhooks[w] \in WebhookRecords /\ webhooks[w].event \in Events
          BY <1>0, <2>1, EventsAreOfIntents DEF InHand, InTransaction
        <4>2. HistoryRow(w) \in HistoryRows
          BY <4>1 DEF HistoryRow, HistoryRows, WebhookRecords, LocalStatusOf
        <4>3. history' = Append(history, HistoryRow(w))
          BY <3>1 DEF WebhookCommits
        <4> QED  BY <1>0, <4>2, <4>3
      <3>2. CASE ~ (WebhookCommits(w) /\ webhooks[w].first)
        <4>1. UNCHANGED history
          BY <1>1, <3>2
             DEF WebhookTask, WebhookInsertsEvent, WebhookInsertsPayment, WebhookReadsStatus,
                 WebhookUpdates, WebhookCommits, WebhookSettles, WebhookFails, database,
                 WebhookStartsReconciliation
        <4> QED  BY <1>0, <4>1
      <3> QED  BY <3>1, <3>2
    <2>3. ASSUME driver.serial PROVE SerialInv'
      <3>0. SerialInv
        BY <1>0, <2>3
      <3>1. OneInHand'
        BY <2>1, <3>0 DEF SerialInv, OneInHand
      <3>2. \A v \in Webhooks \ {w} : webhooks[v].pc \notin InHand
        BY <2>1, <3>0 DEF SerialInv, OneInHand
      <3>3. \A v \in Webhooks \ {w} : DecisionHolds(v)'
        BY <2>1, <3>2, NothingDecided DEF InHand
      <3>4. CASE WebhookCommits(w)
        <4>1. DecisionHolds(w)'
          <5>1. "settle" \in InHand \cup Finished /\ Enter(w, "settle")
            BY <3>4 DEF InHand, WebhookCommits
          <5>2. webhooks'[w].pc = "settle"
            BY <1>0, <5>1, WebhookEnters DEF WebhookAt
          <5> QED  BY <5>2, NothingDecided DEF InTransaction
        <4>2. /\ RecordedStays'
              /\ \A i, j \in 1 .. Len(history') : ~ UndoneBy(i, j)'
          BY <1>0, <3>0, <3>4, CommitWrites DEF SerialInv
        <4> QED  BY <3>1, <3>3, <4>1, <4>2 DEF SerialInv
      <3>5. CASE ~ WebhookCommits(w)
        <4>1. DecisionHolds(w)' /\ UNCHANGED <<payments, history>>
          BY <1>0, <1>1, <3>0, <3>5, DecisionSteps
        <4> QED  BY <3>0, <3>1, <3>3, <4>1, HistoryKept
      <3> QED  BY <3>4, <3>5
    <2> QED  BY <2>1, <2>2, <2>3
  <1>2. ASSUME NEW w \in Webhooks, NEW i \in DOMAIN provider.events,
               WebhookArrives(w, provider.events[i])
        PROVE  Kept
    <2>1. provider.events[i] \in Events
      BY <1>0, ProviderFields DEF TypeOK, ProviderOK
    <2>2. /\ webhooks'[w].pc = "event"
          /\ \A other \in Webhooks \ {w} : webhooks'[other] = webhooks[other]
          /\ UNCHANGED <<payments, history, driver>>
      BY <1>0, <1>2, <2>1, WebhookArrived DEF WebhookAt, WebhookArrives, database
    <2>3. ASSUME driver.serial PROVE SerialInv'
      <3>0. SerialInv
        BY <1>0, <2>3
      <3>1. \A v \in Webhooks \ {w} : webhooks[v].pc \notin InHand
        BY <1>2, <2>3 DEF WebhookArrives, InHand, Finished, InTransaction
      <3>2. OneInHand'
        BY <2>2, <3>1 DEF OneInHand
      <3>3. \A v \in Webhooks : DecisionHolds(v)'
        <4>1. \A v \in Webhooks : webhooks'[v].pc \notin InTransaction
          BY <2>2, <3>1 DEF InHand, InTransaction
        <4> QED  BY <4>1, NothingDecided
      <3> QED  BY <2>2, <3>0, <3>2, <3>3, HistoryKept
    <2> QED  BY <1>0, <2>2, <2>3
  <1>3. ASSUME Killed PROVE Kept
    <2>1. UNCHANGED <<payments, history, driver>>
      BY <1>3 DEF Killed, database
    <2>2. ASSUME NEW w \in Webhooks PROVE webhooks'[w].pc \notin InHand
      <3> DEFINE dead == [webhooks[w] EXCEPT !.pc = "dead"]
      <3>1. \/ webhooks'[w] = dead
            \/ webhooks'[w] = webhooks[w] /\ webhooks[w].pc \in {"idle"} \cup Finished
        BY <1>3 DEF Killed
      <3>2. dead.pc = "dead"
        BY <1>0 DEF WebhookRecords
      <3> HIDE DEF dead
      <3> QED  BY <3>1, <3>2 DEF InHand, InTransaction, Finished
    <2>3. ASSUME driver.serial PROVE SerialInv'
      <3>0. SerialInv
        BY <1>0, <2>3
      <3>1. OneInHand'
        BY <2>2 DEF OneInHand
      <3>2. \A w \in Webhooks : DecisionHolds(w)'
        BY <2>2, NothingDecided DEF InHand
      <3> QED  BY <2>1, <3>0, <3>1, <3>2, HistoryKept
    <2> QED  BY <1>0, <2>1, <2>3
  <1>4. ASSUME NEW c \in Checkouts, Checkout(c) PROVE Kept
    <2>1. UNCHANGED <<webhooks, history, driver>>
      BY <1>4
         DEF Checkout, CheckoutBegins, CheckoutSearches, CheckoutCreates, HeldCreateAnswered,
             CheckoutPersists, CheckoutUnsettles, CheckoutAnswers, CheckoutFails, database
    <2>2. \/ UNCHANGED payments
          \/ /\ checkouts[c].id \notin DOMAIN payments
             /\ payments' = Put(payments, checkouts[c].id, "pending")
      BY <1>4
         DEF Checkout, CheckoutBegins, CheckoutSearches, CheckoutCreates, HeldCreateAnswered,
             CheckoutPersists, CheckoutUnsettles, CheckoutAnswers, CheckoutFails, database
    <2>3. \A id \in DOMAIN payments :
             /\ id \in DOMAIN payments'
             /\ payments[id] = "succeeded" => payments'[id] = "succeeded"
      BY <2>2 DEF Put
    <2> HIDE DEF Kept
    <2> QED  BY <1>a, <2>1, <2>3
  <1>5. ASSUME NEW s \in Spawners, Reconciler(s) PROVE Kept
    <2>1. UNCHANGED <<webhooks, history, driver>>
      BY <1>5
         DEF Reconciler, ReconcilerChecks, ReconcilerRetrieves, ReconcilerUpdates,
             ReconcilerSettles, ReconcilerGivesUp, database
    <2>2. \/ UNCHANGED payments
          \/ payments' = [payments EXCEPT ![reconcilers[s].id] = "succeeded"]
      BY <1>0, <1>5, ReconcilerSteps DEF LocalInv
    <2>3. \A id \in DOMAIN payments :
             /\ id \in DOMAIN payments'
             /\ payments[id] = "succeeded" => payments'[id] = "succeeded"
      BY <2>2
    <2> HIDE DEF Kept
    <2> QED  BY <1>a, <2>1, <2>3
  <1>6. ASSUME NEW id \in IntentIds(provider), ConfirmsIntent(id) \/ GeneratesOlderEvent(id)
        PROVE  Kept
    <2>1. UNCHANGED <<webhooks, history, driver, payments>>
      BY <1>6 DEF ConfirmsIntent, GeneratesOlderEvent, database
    <2> HIDE DEF Kept
    <2> QED  BY <1>a, <2>1
  <1>7. ASSUME UNCHANGED vars PROVE Kept
    <2>1. UNCHANGED <<webhooks, history, driver, payments>>
      BY <1>7 DEF vars
    <2> HIDE DEF Kept
    <2> QED  BY <1>a, <2>1
  <1> HIDE DEF Kept
  <1>8. Kept
    BY <1>1, <1>2, <1>3, <1>4, <1>5, <1>6, <1>7 DEF Next
  <1> QED  BY <1>0, <1>8 DEF MonotonicInv, Kept

\* Where terminal states are monotonic and the driver delivers one event at a
\* time, an older event that arrives after a success was recorded is not applied,
\* with reconcilers, checkouts, failures and kills at any point in between.
THEOREM SuccessIsTerminal ==
  ASSUME TerminalStateMode = "repaired_monotonic"
  PROVE  Spec => []TerminalSuccessMonotonic
  <1>1. Init => MonotonicInv
    <2> SUFFICES ASSUME Init PROVE MonotonicInv
      OBVIOUS
    <2>1. \A w \in Webhooks : webhooks[w].pc = "idle"
      BY DEF Init
    <2>2. history = <<>>
      BY DEF Init
    <2>3. <<>> \in Seq(HistoryRows) /\ Len(<<>>) = 0
      OBVIOUS
    <2>4. OneInHand /\ \A w \in Webhooks : DecisionHolds(w)
      BY <2>1 DEF OneInHand, DecisionHolds, InHand, InTransaction
    <2>5. RecordedStays /\ \A i, j \in 1 .. Len(history) : ~ UndoneBy(i, j)
      BY <2>2, <2>3 DEF RecordedStays, SuccessRecorded
    <2> QED  BY <2>2, <2>3, <2>4, <2>5, LocalStarts DEF MonotonicInv, SerialInv
  <1>2. MonotonicInv /\ [Next]_vars => MonotonicInv'
    BY MonotonicKept
  <1>3. MonotonicInv => TerminalSuccessMonotonic
    <2> SUFFICES ASSUME MonotonicInv, driver.serial,
                        NEW i \in DOMAIN history, NEW j \in DOMAIN history
                 PROVE  /\ i < j
                        /\ history[i].event.intent = history[j].event.intent
                        /\ history[i].event.kind = "Succeeded"
                        /\ history[i].after = "succeeded"
                        /\ history[j].event.kind = "RequiresConfirmation"
                        => ~ (history[j].applied /\ history[j].after = "pending")
      BY DEF TerminalSuccessMonotonic
    <2>1. DOMAIN history = 1 .. Len(history)
      BY DEF MonotonicInv
    <2>2. ~ UndoneBy(i, j)
      BY <2>1 DEF MonotonicInv, SerialInv
    <2> QED  BY <2>2 DEF UndoneBy
  <1> QED  BY <1>1, <1>2, <1>3, PTL DEF Spec
=============================================================================
