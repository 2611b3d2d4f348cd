----------------------------- MODULE ReferenceApp ------------------------------
(***************************************************************************)
(* The payment back end under test: the known-bug reference application of *)
(* tests/reference-app/src/lib.rs with its PostgreSQL database, calling    *)
(* the fixture provider.                                                   *)
(*                                                                         *)
(* One operation (one order, one amount) is checked out by a driver that   *)
(* runs one checkout at a time; each checkout carries its own business     *)
(* request id.  Checkout handlers, webhook handlers and reconcilers are    *)
(* tasks of one process and interleave; a handler's steps are its calls    *)
(* to the provider, its SQL statements (READ COMMITTED) and the regions in *)
(* which it holds the settled_payment_intents lock.                        *)
(*                                                                         *)
(* In a transaction, what precedes the commit is local to the handler's    *)
(* record; other transactions see it only as a lock they wait for.  The    *)
(* statements that follow the row lock up to the commit are one step:      *)
(* nothing they touch can be seen or changed by others in between.         *)
(***************************************************************************)
EXTENDS Naturals, Sequences, FiniteSets

CONSTANTS Checkouts,            \* checkout requests, by business request id
          Webhooks,             \* webhook requests received
          Operation,            \* the one order checked out
          Seed,                 \* seed of the provider's ids
          RetryKeyMode, CallerRetryMode, ReconciliationMode,
          TerminalStateMode, WebhookEffectMode, LedgerBalanceMode,
          Drivers,              \* the drivers: see the variable
          KillLimit,            \* kills of the application, at most
          NoEntry, NoValue

ASSUME ReferenceAppAssumption ==
    /\ RetryKeyMode \in {"faulty_changed_key", "repaired_same_key"}
    /\ CallerRetryMode \in {"faulty_per_request", "repaired_recover_operation"}
    /\ ReconciliationMode \in {"faulty_webhook_only", "repaired_provider_reconcile"}
    /\ TerminalStateMode \in {"faulty_arrival_order", "repaired_monotonic"}
    /\ WebhookEffectMode \in {"faulty_duplicate_effect", "repaired_deduplicate"}
    /\ LedgerBalanceMode \in {"faulty_one_sided_on_duplicate", "repaired_balanced"}
    /\ ~ /\ WebhookEffectMode = "faulty_duplicate_effect"
         /\ LedgerBalanceMode = "faulty_one_sided_on_duplicate"
    /\ Drivers \subseteq [serial: BOOLEAN, checkouts: Nat, webhooks: Nat]
    /\ KillLimit \in Nat
    /\ Checkouts \cap Webhooks = {}

Attempts == {1, 2}

INSTANCE Provider WITH Seeds <- {Seed}, Keys <- Checkouts \X Attempts,
                       Requests <- {Operation}

ASSUME ProviderAssumption == NoEntry \notin Entries

VARIABLES driver,       \* whether it waits for each delivery, and how many
                        \* requests of each kind it sends
          provider,     \* the fixture's objects, events and idempotency cache
          checkouts,    \* the handler of each checkout request
          webhooks,     \* the handler of each webhook request
          reconcilers,  \* the task each handler may have spawned
          payments,     \* table payments: status of each stripe_payment_intent_id
          processed,    \* table processed_webhook_events
          history,      \* table payment_status_history, in history_id order
          effects,      \* table webhook_effects: rows of each event
          ledger,       \* table ledger_entries with their postings
          settled,      \* settled_payment_intents, in memory
          kills         \* kills so far

database == <<payments, processed, history, effects, ledger>>
vars == <<driver, provider, checkouts, webhooks, reconcilers, payments, processed,
          history, effects, ledger, settled, kills>>

Spawners == Checkouts \cup Webhooks
Finished == {"answered", "failed", "dead"}
InTransaction == {"payment", "read", "update", "commit"}

Init ==
    /\ driver \in Drivers
    /\ provider = NewProvider(Seed)
    /\ checkouts = [c \in Checkouts |->
          [pc |-> "idle", attempt |-> 1, id |-> NoValue, response |-> NoValue]]
    /\ webhooks = [w \in Webhooks |->
          [pc |-> "idle", event |-> NoValue, first |-> FALSE, inserted |-> FALSE,
           current |-> NoValue, applied |-> FALSE]]
    /\ reconcilers = [s \in Spawners |-> [pc |-> "none", id |-> NoValue]]
    /\ payments = [id \in {} |-> NoValue]
    /\ processed = {} /\ history = <<>> /\ effects = [e \in {} |-> 0] /\ ledger = {}
    /\ settled = {}
    /\ kills = 0

StatusAt(id) == provider.intents[PositionOf(provider, id)].status
Put(table, key, value) ==
    [k \in DOMAIN table \cup {key} |-> IF k = key THEN value ELSE table[k]]

-----------------------------------------------------------------------------
(* Row locks.  A transaction that inserted or updated a row keeps others     *)
(* that insert or update it waiting until it commits or rolls back.          *)

IntentOf(w) == webhooks[w].event.intent

InsertsEvent(w, e) ==
    webhooks[w].pc \in InTransaction /\ webhooks[w].first /\ webhooks[w].event = e
InsertsRow(w, id) ==
    webhooks[w].pc \in InTransaction /\ webhooks[w].inserted /\ IntentOf(w) = id

\* A status read that locks the row against the writers, as FOR SHARE would.
LocksRowOnceRead(w, id) ==
    \/ InsertsRow(w, id)
    \/ webhooks[w].pc \in {"update", "commit"} /\ webhooks[w].first /\ IntentOf(w) = id
LocksRow(w, id) ==
    \/ InsertsRow(w, id)
    \/ webhooks[w].pc = "commit" /\ webhooks[w].applied /\ IntentOf(w) = id

RowFree(id, self) == \A w \in Webhooks \ {self} : ~LocksRow(w, id)

-----------------------------------------------------------------------------
(* handle_checkout.                                                          *)

Goto(c, pc) == checkouts' = [checkouts EXCEPT ![c].pc = pc]

\* Only the repaired caller looks for an object before it creates one.
Searches == CallerRetryMode = "repaired_recover_operation"

\* A fresh key for every attempt.
ChangedKey(c, attempt) == <<c, attempt>>
\* The idempotency key of an attempt: scope of the request, number of the try.
KeyOfAttempt(c, attempt) ==
    ChangedKey(c, IF RetryKeyMode = "faulty_changed_key" THEN attempt ELSE 1)

Accepted(response) ==
    /\ response.code = 200
    /\ response.body[1].status = "RequiresConfirmation"

\* decode_provider_response.
Decode(c, response) ==
    checkouts' = [checkouts EXCEPT
        ![c].pc = IF Accepted(response) THEN "persist" ELSE "failed",
        ![c].id = IF Accepted(response) THEN response.body[1].id ELSE @,
        ![c].response = NoValue]

CheckoutBegins(c) ==
    /\ checkouts[c].pc = "idle"
    /\ \A other \in Checkouts : checkouts[other].pc \in {"idle"} \cup Finished
    /\ Cardinality({other \in Checkouts : checkouts[other].pc # "idle"}) < driver.checkouts
    /\ Goto(c, IF Searches THEN "search" ELSE "create")
    /\ UNCHANGED <<provider, webhooks, reconcilers, database, settled, kills, driver>>

\* recover_payment_intent_by_operation: none, exactly one that still requires
\* confirmation, or a failure.
CheckoutSearches(c) ==
    /\ checkouts[c].pc = "search"
    /\ \/ provider.intents = <<>> /\ Goto(c, "create")
       \/ /\ Len(provider.intents) = 1
          /\ provider.intents[1].status = "RequiresConfirmation"
          /\ checkouts' = [checkouts EXCEPT ![c].pc = "persist",
                                            ![c].id = provider.intents[1].id]
       \/ /\ \/ Len(provider.intents) > 1
             \/ \E i \in DOMAIN provider.intents : provider.intents[i].status = "Succeeded"
          /\ Goto(c, "failed")
    /\ UNCHANGED <<provider, webhooks, reconcilers, database, settled, kills, driver>>

\* One call of send_create, under any planned outcome.  Only a lost connection
\* leads to the second attempt.
CheckoutCreates(c, outcome) ==
    /\ checkouts[c].pc = "create"
    /\ LET attempt == checkouts[c].attempt
           key == KeyOfAttempt(c, attempt)
           disposition == CreateDisposition(provider, key, outcome)
           response == CreateResponse(provider, key, Operation, outcome)
       IN /\ provider' = CreateEffect(provider, key, Operation, outcome)
          /\ \/ disposition = "Response" /\ Decode(c, response)
             \/ /\ disposition = "DelayResponse"
                /\ checkouts' = [checkouts EXCEPT ![c].pc = "held",
                                                  ![c].response = response]
             \/ /\ disposition = "CloseConnection"
                /\ checkouts' = [checkouts EXCEPT
                      ![c].attempt = 2, ![c].pc = IF attempt = 2 THEN "failed" ELSE @]
    /\ UNCHANGED <<webhooks, reconcilers, database, settled, kills, driver>>

\* The driver releases the provider gate.
HeldCreateAnswered(c) ==
    /\ checkouts[c].pc = "held"
    /\ Decode(c, checkouts[c].response)
    /\ UNCHANGED <<provider, webhooks, reconcilers, database, settled, kills, driver>>

\* INSERT INTO payments ... ON CONFLICT DO NOTHING; only a row that was really
\* inserted removes the object from the settled set, in a later step.
CheckoutPersists(c) ==
    /\ checkouts[c].pc = "persist"
    /\ LET id == checkouts[c].id IN
       /\ \A w \in Webhooks : ~InsertsRow(w, id)
       /\ \/ /\ id \in DOMAIN payments
             /\ Goto(c, "reconcile")
             /\ UNCHANGED payments
          \/ /\ id \notin DOMAIN payments
             /\ payments' = Put(payments, id, "pending")
             /\ Goto(c, "unsettle")
    /\ UNCHANGED <<provider, webhooks, reconcilers, processed, history, effects,
                   ledger, settled, kills, driver>>

CheckoutUnsettles(c) ==
    /\ checkouts[c].pc = "unsettle"
    /\ settled' = settled \ {checkouts[c].id}
    /\ Goto(c, "reconcile")
    /\ UNCHANGED <<provider, webhooks, reconcilers, database, kills, driver>>

CheckoutAnswers(c) ==
    /\ checkouts[c].pc = "reconcile"
    /\ reconcilers' = [reconcilers EXCEPT ![c] = [pc |-> "check", id |-> checkouts[c].id]]
    /\ Goto(c, "answered")
    /\ UNCHANGED <<provider, webhooks, database, settled, kills, driver>>

\* The database connection is lost: before the insert, or after it.
CheckoutFails(c) ==
    /\ checkouts[c].pc \in {"persist", "unsettle", "reconcile"}
    /\ Goto(c, "failed")
    /\ UNCHANGED <<provider, webhooks, reconcilers, database, settled, kills, driver>>

-----------------------------------------------------------------------------
(* The driver's provider commands; every object may be confirmed, and get an *)
(* event of its older state as well as of its success.                       *)

ConfirmsIntent(id) ==
    /\ id \in IntentIds(provider) /\ StatusAt(id) # "Succeeded"
    /\ provider' = Confirm(provider, id)
    /\ UNCHANGED <<checkouts, webhooks, reconcilers, database, settled, kills, driver>>

GeneratesOlderEvent(id) ==
    /\ id \in IntentIds(provider) /\ ~HasEvent(provider, id, "RequiresConfirmation")
    /\ provider' = EventSnapshot(provider, id, "RequiresConfirmation")
    /\ UNCHANGED <<checkouts, webhooks, reconcilers, database, settled, kills, driver>>

-----------------------------------------------------------------------------
(* handle_webhook and persist_webhook.                                       *)

Enter(w, pc) == webhooks' = [webhooks EXCEPT ![w].pc = pc]
IsSuccess(w) == webhooks[w].event.kind = "Succeeded"
LocalStatusOf(event) == IF event.kind = "Succeeded" THEN "succeeded" ELSE "pending"

\* Any event of the provider, in any order and any number of times.
WebhookArrives(w, event) ==
    /\ webhooks[w].pc = "idle"
    /\ Cardinality({other \in Webhooks : webhooks[other].pc # "idle"}) < driver.webhooks
    /\ driver.serial =>
          /\ \A other \in Webhooks : webhooks[other].pc \in {"idle"} \cup Finished
          /\ \A c \in Checkouts : checkouts[c].pc \in {"idle"} \cup Finished
    /\ webhooks' = [webhooks EXCEPT ![w].pc = "event", ![w].event = event]
    /\ UNCHANGED <<provider, checkouts, reconcilers, database, settled, kills, driver>>

\* A duplicate check that does not wait for the transaction that has inserted
\* the same event but not committed.
NobodyInserts(event, w) == TRUE
EventFree(event, w) == \A other \in Webhooks \ {w} : ~InsertsEvent(other, event)

\* INSERT INTO processed_webhook_events ... ON CONFLICT DO NOTHING.
WebhookInsertsEvent(w) ==
    /\ webhooks[w].pc = "event"
    /\ EventFree(webhooks[w].event, w)
    /\ LET first == webhooks[w].event \notin processed
       IN webhooks' = [webhooks EXCEPT ![w].first = first,
                                       ![w].pc = IF first THEN "payment" ELSE "commit"]
    /\ UNCHANGED <<provider, checkouts, reconcilers, database, settled, kills, driver>>

\* persist_payment_status_history: INSERT INTO payments ... DO NOTHING, then
\* SELECT status without a lock, then the decision and UPDATE.
WebhookInsertsPayment(w) ==
    /\ webhooks[w].pc = "payment"
    /\ \A other \in Webhooks \ {w} : ~InsertsRow(other, IntentOf(w))
    /\ webhooks' = [webhooks EXCEPT ![w].inserted = IntentOf(w) \notin DOMAIN payments,
                                    ![w].pc = "read"]
    /\ UNCHANGED <<provider, checkouts, reconcilers, database, settled, kills, driver>>

WebhookReadsStatus(w) ==
    /\ webhooks[w].pc = "read"
    /\ webhooks' = [webhooks EXCEPT
          ![w].current = IF webhooks[w].inserted THEN LocalStatusOf(webhooks[w].event)
                         ELSE payments[IntentOf(w)],
          ![w].pc = "update"]
    /\ UNCHANGED <<provider, checkouts, reconcilers, database, settled, kills, driver>>

\* Every snapshot applied in arrival order.
AppliesAlways(w) == TRUE
Applies(w) ==
    \/ IsSuccess(w)
    \/ TerminalStateMode = "faulty_arrival_order"
    \/ webhooks[w].current # "succeeded"

WebhookUpdates(w) ==
    /\ webhooks[w].pc = "update"
    /\ Applies(w) => RowFree(IntentOf(w), w)
    /\ webhooks' = [webhooks EXCEPT ![w].applied = Applies(w), ![w].pc = "commit"]
    /\ UNCHANGED <<provider, checkouts, reconcilers, database, settled, kills, driver>>

HistoryRow(w) ==
    [event |-> webhooks[w].event, applied |-> webhooks[w].applied,
     after |-> IF webhooks[w].applied THEN LocalStatusOf(webhooks[w].event)
               ELSE webhooks[w].current]

AppliesEffect(w) ==
    IsSuccess(w) /\ (webhooks[w].first \/ WebhookEffectMode = "faulty_duplicate_effect")
OneSidedEntry(w) ==
    /\ IsSuccess(w) /\ ~AppliesEffect(w)
    /\ LedgerBalanceMode = "faulty_one_sided_on_duplicate"

\* The rows of webhook_effects and of the ledger that one delivery adds.
EffectRows(w) == IF AppliesEffect(w) THEN 1 ELSE 0
LedgerRows(w) ==
    {[delivery |-> w, event |-> webhooks[w].event, credit |-> credit] :
        credit \in (IF AppliesEffect(w) THEN {TRUE} ELSE {})
                      \cup (IF OneSidedEntry(w) THEN {FALSE} ELSE {})}

EffectsOf(event) == IF event \in DOMAIN effects THEN effects[event] ELSE 0

\* transaction.commit(): everything becomes visible at once.
WebhookCommits(w) ==
    LET event == webhooks[w].event
        id == IntentOf(w)
    IN /\ webhooks[w].pc = "commit"
       /\ processed' = processed \cup {event}
       /\ effects' = Put(effects, event, EffectsOf(event) + EffectRows(w))
       /\ ledger' = ledger \cup LedgerRows(w)
       /\ \/ /\ webhooks[w].first
             /\ history' = Append(history, HistoryRow(w))
             /\ payments' = IF webhooks[w].inserted \/ webhooks[w].applied
                            THEN Put(payments, id, LocalStatusOf(event)) ELSE payments
          \/ ~webhooks[w].first /\ UNCHANGED <<history, payments>>
       /\ Enter(w, "settle")
       /\ UNCHANGED <<provider, checkouts, reconcilers, settled, kills, driver>>

\* After the commit, under its own lock.
WebhookSettles(w) ==
    /\ webhooks[w].pc = "settle"
    /\ settled' = IF IsSuccess(w) THEN settled \cup {IntentOf(w)}
                  ELSE IF TerminalStateMode = "faulty_arrival_order"
                  THEN settled \ {IntentOf(w)} ELSE settled
    /\ Enter(w, IF ~IsSuccess(w) /\ ReconciliationMode = "repaired_provider_reconcile"
                THEN "reconcile" ELSE "answered")
    /\ UNCHANGED <<provider, checkouts, reconcilers, database, kills, driver>>

WebhookStartsReconciliation(w) ==
    /\ webhooks[w].pc = "reconcile"
    /\ reconcilers' = [reconcilers EXCEPT ![w] = [pc |-> "check", id |-> IntentOf(w)]]
    /\ Enter(w, "answered")
    /\ UNCHANGED <<provider, checkouts, database, settled, kills, driver>>

\* The database connection is lost; the open transaction rolls back.
WebhookFails(w) ==
    /\ webhooks[w].pc \in {"event", "settle", "reconcile"} \cup InTransaction
    /\ Enter(w, "failed")
    /\ UNCHANGED <<provider, checkouts, reconcilers, database, settled, kills, driver>>

-----------------------------------------------------------------------------
(* reconcile_payment_until_horizon.                                          *)

Step(s, pc) == reconcilers' = [reconcilers EXCEPT ![s].pc = pc]

ReconcilerChecks(s) ==
    /\ reconcilers[s].pc = "check"
    /\ Step(s, IF reconcilers[s].id \in settled THEN "done" ELSE "retrieve")
    /\ UNCHANGED <<provider, checkouts, webhooks, database, settled, kills, driver>>

\* A reconciler that takes any answer for a success.
SeesAnything(id) == ReconciliationMode = "repaired_provider_reconcile"
SeesSuccess(id) ==
    StatusAt(id) = "Succeeded" /\ ReconciliationMode = "repaired_provider_reconcile"

\* One poll: the answer is used in a later step, or the task sleeps.
ReconcilerRetrieves(s) ==
    /\ reconcilers[s].pc = "retrieve"
    /\ Step(s, IF SeesSuccess(reconcilers[s].id) THEN "update" ELSE "check")
    /\ UNCHANGED <<provider, checkouts, webhooks, database, settled, kills, driver>>

\* UPDATE payments, its own transaction.  The row exists: every spawner has
\* persisted it before.
ReconcilerUpdates(s) ==
    /\ reconcilers[s].pc = "update"
    /\ LET id == reconcilers[s].id IN
       /\ id \in DOMAIN payments
       /\ \A w \in Webhooks : ~LocksRow(w, id)
       /\ payments' = [payments EXCEPT ![id] = "succeeded"]
    /\ Step(s, "insert")
    /\ UNCHANGED <<provider, checkouts, webhooks, processed, history, effects,
                   ledger, settled, kills, driver>>

ReconcilerSettles(s) ==
    /\ reconcilers[s].pc = "insert"
    /\ settled' = settled \cup {reconcilers[s].id}
    /\ Step(s, "done")
    /\ UNCHANGED <<provider, checkouts, webhooks, database, kills, driver>>

\* The horizon passes, during a poll or between two; or the database connection
\* is lost, before the update or after it.
ReconcilerGivesUp(s) ==
    /\ reconcilers[s].pc \in {"check", "retrieve", "update", "insert"}
    /\ Step(s, "done")
    /\ UNCHANGED <<provider, checkouts, webhooks, database, settled, kills, driver>>

-----------------------------------------------------------------------------
\* SIGKILL and restart: tasks, open transactions and the settled set are lost.
Killed ==
    /\ kills < KillLimit
    /\ kills' = kills + 1
    /\ checkouts' = [c \in Checkouts |->
          IF checkouts[c].pc \in {"idle"} \cup Finished THEN checkouts[c]
          ELSE [checkouts[c] EXCEPT !.pc = "dead"]]
    /\ webhooks' = [w \in Webhooks |->
          IF webhooks[w].pc \in {"idle"} \cup Finished THEN webhooks[w]
          ELSE [webhooks[w] EXCEPT !.pc = "dead"]]
    /\ reconcilers' = [s \in Spawners |->
          IF reconcilers[s].pc = "none" THEN reconcilers[s]
          ELSE [reconcilers[s] EXCEPT !.pc = "done"]]
    /\ settled' = {}
    /\ UNCHANGED <<provider, database, driver>>

Checkout(c) ==
    \/ CheckoutBegins(c)
    \/ CheckoutSearches(c)
    \/ \E outcome \in Outcomes : CheckoutCreates(c, outcome)
    \/ HeldCreateAnswered(c)
    \/ CheckoutPersists(c)
    \/ CheckoutUnsettles(c)
    \/ CheckoutAnswers(c)
    \/ CheckoutFails(c)

WebhookTask(w) ==
    \/ WebhookInsertsEvent(w)
    \/ WebhookInsertsPayment(w)
    \/ WebhookReadsStatus(w)
    \/ WebhookUpdates(w)
    \/ WebhookCommits(w)
    \/ WebhookSettles(w)
    \/ WebhookStartsReconciliation(w)

Reconciler(s) ==
    \/ ReconcilerChecks(s)
    \/ ReconcilerRetrieves(s)
    \/ ReconcilerUpdates(s)
    \/ ReconcilerSettles(s)
    \/ ReconcilerGivesUp(s)

Next ==
    \/ \E c \in Checkouts : Checkout(c)
    \/ \E id \in IntentIds(provider) : ConfirmsIntent(id) \/ GeneratesOlderEvent(id)
    \/ \E w \in Webhooks :
          \/ \E i \in DOMAIN provider.events : WebhookArrives(w, provider.events[i])
          \/ WebhookTask(w)
          \/ WebhookFails(w)
    \/ \E s \in Spawners : Reconciler(s)
    \/ Killed

Spec == Init /\ [][Next]_vars

\* Tokio and PostgreSQL run every task that can run; nothing else is promised.
FairSpec == Spec /\ \A w \in Webhooks : WF_vars(WebhookTask(w))

-----------------------------------------------------------------------------
(* Properties.                                                               *)

\* invariants/01: an operation has at most one provider object, however many
\* of its checkouts fail, lose their answer or die with the application.
ProviderObjectUnique == Len(provider.intents) <= 1

\* invariants/02 and 05 and their converse: a succeeded event has exactly one
\* effect and one balanced ledger entry once it was processed, and none before,
\* for duplicate deliveries that overlap, roll back or are killed.
EffectsAndLedgerOnce ==
    \A i \in DOMAIN provider.events :
        LET event == provider.events[i]
            entries == {entry \in ledger : entry.event = event}
            expected == IF event \in processed /\ event.kind = "Succeeded" THEN 1 ELSE 0
        IN /\ EffectsOf(event) = expected
           /\ Cardinality(entries) = expected
           /\ \A entry \in entries : entry.credit

\* The database never claims what the provider does not hold: every payment row
\* is an object of the provider, and one that succeeded locally did so there.
LocalNeverAhead ==
    \A id \in DOMAIN payments :
        /\ id \in IntentIds(provider)
        /\ payments[id] = "succeeded" => StatusAt(id) = "Succeeded"

\* invariants/04: after a success was recorded for an object, an event of its
\* older state is not applied to it, when the driver delivers one at a time.
TerminalSuccessMonotonic ==
    driver.serial => \A i, j \in DOMAIN history :
        /\ i < j
        /\ history[i].event.intent = history[j].event.intent
        /\ history[i].event.kind = "Succeeded" /\ history[i].after = "succeeded"
        /\ history[j].event.kind = "RequiresConfirmation"
        => ~(history[j].applied /\ history[j].after = "pending")

\* RepairedMonotonic "preserves terminal success when an older non-terminal
\* snapshot arrives": a payment that was succeeded stays so.
TerminalSuccessPreserved ==
    [][\A id \in DOMAIN payments :
          payments[id] = "succeeded" => payments'[id] = "succeeded"]_vars

\* Transactions never wait on each other in a cycle: every webhook request that
\* arrives is answered, fails, or dies with the application.
WebhooksSettle ==
    \A w \in Webhooks : (webhooks[w].pc = "event") ~> (webhooks[w].pc \in Finished)
=============================================================================
