------------------------------- MODULE Provider -------------------------------
(***************************************************************************)
(* The payment provider of the fixture: the struct PaymentIntentFixture of *)
(* crates/tiv-stripe-pi/src/lib.rs, as operators on one record.            *)
(*                                                                         *)
(* A provider is [seed, intents, events, idempotency].  Amount, currency   *)
(* and the operation_id metadata of a create request are one value of      *)
(* Requests: the code only ever compares them for equality, copies them    *)
(* into the object, and searches by the operation.  Object and event ids   *)
(* are blake3 digests of the seed and a position; here they are the pair   *)
(* itself, so that two ids are equal exactly when seed and position are.   *)
(***************************************************************************)
EXTENDS Naturals, Sequences, FiniteSets

CONSTANTS Seeds,      \* values of the fixture seed
          Keys,       \* idempotency keys
          Requests,   \* validated create parameters
          NoEntry     \* an idempotency key that was never executed

Outcomes == {"Normal", "PreExecute429", "PreExecute500",
             "PostExecute500", "CommitThenClose", "CommitThenDelay"}
PreExecution == {"PreExecute429", "PreExecute500"}
Statuses == {"RequiresConfirmation", "Succeeded"}

Ids == Seeds \X (Nat \ {0})
PaymentIntents == [id : Ids, request : Requests, status : Statuses]
Events == [id : Ids, kind : Statuses, intent : Ids]
Responses == [code : {200, 429, 500}, body : Seq(PaymentIntents)]
Entries == [request : Requests, intent : PaymentIntents, response : Responses]
Providers == [seed : Seeds, intents : Seq(PaymentIntents), events : Seq(Events),
              idempotency : [Keys -> Entries \cup {NoEntry}]]

ASSUME NoEntryAssumption == NoEntry \notin Entries

NewProvider(seed) ==
    [seed |-> seed, intents |-> <<>>, events |-> <<>>,
     idempotency |-> [k \in Keys |-> NoEntry]]

-----------------------------------------------------------------------------
(* Responses and what the HTTP adapter must do with one.                     *)

ErrorResponse(code) == [code |-> code, body |-> <<>>]
ObjectResponse(pi) == [code |-> 200, body |-> <<pi>>]

\* The answer to a call the provider refuses before executing it.
PreExecutionResponse(outcome) ==
    ErrorResponse(IF outcome = "PreExecute429" THEN 429 ELSE 500)

\* The answer to a call the provider has executed on pi.
ExecutedResponse(outcome, pi) ==
    IF outcome = "PostExecute500" THEN ErrorResponse(500) ELSE ObjectResponse(pi)

DispositionOf(outcome) ==
    CASE outcome = "CommitThenClose" -> "CloseConnection"
      [] outcome = "CommitThenDelay" -> "DelayResponse"
      [] OTHER                       -> "Response"

-----------------------------------------------------------------------------
(* Create, under the idempotency cache.                                      *)

Cached(p, key) == p.idempotency[key] # NoEntry
Conflicts(p, key, request) ==
    Cached(p, key) /\ p.idempotency[key].request # request

\* Whether this create adds an object: the first executed use of its key.
Executes(p, key, outcome) == ~Cached(p, key) /\ outcome \notin PreExecution

NewIntent(p, request) ==
    [id |-> <<p.seed, Len(p.intents) + 1>>, request |-> request,
     status |-> "RequiresConfirmation"]

\* The provider after a create.
CreateEffect(p, key, request, outcome) ==
    IF ~Executes(p, key, outcome) THEN p
    ELSE LET pi == NewIntent(p, request)
         IN [p EXCEPT !.intents = Append(@, pi),
                      !.idempotency[key] =
                          [request |-> request, intent |-> pi,
                           response |-> ExecutedResponse(outcome, pi)]]

\* A cached answer rebuilt from the outcome planned for the retry.
RebuiltCreateResponse(p, key, request, outcome) ==
    IF Cached(p, key)
    THEN ExecutedResponse(outcome, p.idempotency[key].intent)
    ELSE IF outcome \in PreExecution THEN PreExecutionResponse(outcome)
    ELSE ExecutedResponse(outcome, NewIntent(p, request))

\* The response of a create that is no conflict: a cached key replays the
\* first response, whatever outcome the plan holds for the retry.
CreateResponse(p, key, request, outcome) ==
    IF Cached(p, key) THEN p.idempotency[key].response
    ELSE IF outcome \in PreExecution THEN PreExecutionResponse(outcome)
    ELSE ExecutedResponse(outcome, NewIntent(p, request))

CreateDisposition(p, key, outcome) ==
    IF Cached(p, key) THEN "Response" ELSE DispositionOf(outcome)

-----------------------------------------------------------------------------
(* Confirmation and event snapshots.                                         *)

IntentIds(p) == {p.intents[i].id : i \in DOMAIN p.intents}
EventIds(p) == {p.events[i].id : i \in DOMAIN p.events}
PositionOf(p, id) == CHOOSE i \in DOMAIN p.intents : p.intents[i].id = id

HasEvent(p, id, kind) ==
    \E i \in DOMAIN p.events : p.events[i].intent = id /\ p.events[i].kind = kind

\* At most one immutable event per object and kind.
EnsureEvent(p, id, kind) ==
    IF HasEvent(p, id, kind) THEN p
    ELSE [p EXCEPT !.events =
             Append(@, [id |-> <<p.seed, Len(p.events) + 1>>,
                        kind |-> kind, intent |-> id])]

\* A variant of Confirm: one that was confirmed before gets an event again.
ConfirmAlwaysEmits(p, id) ==
    [p EXCEPT !.intents[PositionOf(p, id)].status = "Succeeded",
              !.events = Append(@, [id |-> <<p.seed, Len(p.events) + 1>>,
                                    kind |-> "Succeeded", intent |-> id])]

Confirm(p, id) ==
    LET i == PositionOf(p, id)
    IN IF p.intents[i].status = "Succeeded" THEN p
       ELSE EnsureEvent([p EXCEPT !.intents[i].status = "Succeeded"],
                        id, "Succeeded")

\* An event snapshot that writes the requested state back to the object.
EventSnapshotWritesBack(p, id, status) ==
    EnsureEvent([p EXCEPT !.intents[PositionOf(p, id)].status = status], id, status)

\* A snapshot of the older state never regresses the object; one of the
\* terminal state confirms it first.
EventSnapshot(p, id, status) ==
    IF status = "Succeeded" THEN EnsureEvent(Confirm(p, id), id, status)
    ELSE EnsureEvent(p, id, status)

\* confirm_all visits the objects in creation order.  An object that is not
\* succeeded has no succeeded event (SucceededIffEvent of Fixture), so each
\* object visited gets one.
Unconfirmed(p) == {i \in DOMAIN p.intents : p.intents[i].status # "Succeeded"}

CreationOrders(p) ==
    {f \in [1 .. Cardinality(Unconfirmed(p)) -> Unconfirmed(p)] :
        \A i, j \in DOMAIN f : i < j => f[i] < f[j]}

ConfirmAll(p, order) ==
    [p EXCEPT !.intents = [i \in DOMAIN @ |-> [@[i] EXCEPT !.status = "Succeeded"]],
              !.events = @ \o [j \in DOMAIN order |->
                                 [id |-> <<p.seed, Len(p.events) + j>>,
                                  kind |-> "Succeeded",
                                  intent |-> p.intents[order[j]].id]]]

\* The response of a confirmation that the provider lets through.
ConfirmResponse(p, id, outcome) ==
    IF outcome \in PreExecution THEN PreExecutionResponse(outcome)
    ELSE ExecutedResponse(outcome,
             Confirm(p, id).intents[PositionOf(p, id)])

ConfirmEffect(p, id, outcome) ==
    IF outcome \in PreExecution THEN p ELSE Confirm(p, id)
=============================================================================
