----------------------------- MODULE CaseHttpProofs ----------------------------
(***************************************************************************)
(* Proofs about CaseHttp, for every set of valid plan specifications and   *)
(* every set of applications: the planned kills are supported, a plan      *)
(* executes unless a call is not answered as planned, the symbolic state   *)
(* it was compiled with is a true account of the real one, and the         *)
(* checkpoint is whole.                                                    *)
(*                                                                         *)
(* The plan runs one action ahead, so the invariant HttpInv speaks of two  *)
(* symbolic states: the one the next action is planned in, model, and the  *)
(* one the current action was planned in, which Real relates to the        *)
(* fixture, the application, the adapters and the captures.                *)
(***************************************************************************)
EXTENDS CaseHttp, PlannerProofs, FiniteSetTheorems, SequenceTheorems

-----------------------------------------------------------------------------
(* Types.                                                                    *)

\* References to outputs of actions.
Refs == [action: Nat, slot: {"None", "PaymentIntentId", "ProviderGateId"}, occurrence: Nat]

\* The managed fixture.
Fixtures == [stripe: Stripe!Providers, outcomes: Seq(Outcomes),
             gates: SUBSET Nat, nextGate: Nat, command: Nat,
             request: Nat \cup {NoValue}, response: Nat \cup {NoValue}]

\* The outputs materialized so far.
Sources == [active: Refs, objects: Seq(Refs), gate: Refs, generated: Nat]

\* The application process and its database.
Apps == [up: BOOLEAN, waiting: Stripe!Ids \cup {NoValue}, persisted: BOOLEAN]

\* The provider adapter.
ProviderStates == [pending: Exchanges \cup {NoValue}, response: {"observed", NoValue},
                   known: SUBSET Stripe!Ids, recovered: Nat, control: Nat,
                   observations: Nat]

\* The queue of events.
Queues == Seq([event: Nat, delayed: BOOLEAN])

\* The webhook adapter.
WebhookStates == [queue: Seq([event: Nat, delayed: BOOLEAN]),
                  generated: SUBSET (Nat \X Stripe!Ids), last: Nat \cup {NoValue},
                  control: Nat, observations: Nat,
                  request: Nat \cup {NoValue}, response: Nat \cup {NoValue}]

\* The fields of the case adapter.
CaseFields == {"healthy", "probe", "quiescence", "checkpoint"}

\* Every component of the state is of its kind.
Types ==
    /\ fixture \in Fixtures /\ app \in Apps
    /\ provider \in ProviderStates /\ webhook \in WebhookStates
    /\ DOMAIN case = CaseFields
    /\ case.healthy \in BOOLEAN /\ case.probe \in {"Ready", "Observed"}
    /\ observed \in Nat /\ diverged \in BOOLEAN
    /\ sources \in Sources

-----------------------------------------------------------------------------
(* What a symbolic state m says of the real one.                             *)

\* Objects are numbered in creation order under the seed of the case.
Numbered(p) == \A i \in DOMAIN p.intents : p.intents[i].id = <<Seed, i>>

\* Between two requests no key is in use.
Fresh(p) == p.idempotency = [k \in {1, 2} |-> NoEntry]

\* The adapter knows every object the provider has; outcomes are left over only
\* of recovered requests.
ProviderPart ==
  /\ Numbered(fixture.stripe) /\ Fresh(fixture.stripe)
  /\ provider.known = Known(fixture.stripe)
  /\ Len(fixture.stripe.intents) <= Len(sources.objects)
  /\ Len(fixture.outcomes) = provider.recovered
  /\ fixture.outcomes \in Seq({"Normal"})
  /\ Faulty => provider.recovered = 0 /\ ~diverged

\* Both adapters and the journal are in step with the fixture, the process is up
\* when the plan says so, and what was known at quiescence is all there is.
ControlPart(m) ==
  /\ provider.control = fixture.command /\ webhook.control = fixture.command
  /\ provider.observations = observed /\ webhook.observations = observed
  /\ (m.healthy <=> case.healthy) /\ (m.healthy <=> app.up)
  /\ case.quiescence = (IF m.phase = "Quiesced" THEN Known(fixture.stripe) ELSE NoValue)
  /\ case.checkpoint = (IF m.phase = "Complete" THEN Known(fixture.stripe) ELSE NoValue)
  /\ m.phase = "Start" => case.probe = "Ready" /\ ~app.persisted

\* A call is held exactly in the phases the plan holds one in, behind the one
\* gate of the fixture.
HeldPart(m) ==
  IF m.phase \in {"CheckoutResponseHeld", "ConfirmResponseHeld"}
  THEN LET p == provider.pending IN
       /\ p # NoValue
       /\ m.phase = "CheckoutResponseHeld" => p.kind = "Checkout"
       /\ fixture.gates = {p.gate}
       /\ sources.gate \in DOMAIN captured /\ captured[sources.gate] = p.gate
       /\ p.ids # <<>> /\ \A i \in DOMAIN p.ids : p.ids[i] \in Known(fixture.stripe)
       /\ app.waiting = IF p.disconnect THEN NoValue ELSE p.ids[Len(p.ids)]
  ELSE provider.pending = NoValue /\ fixture.gates = {}

\* The exchange kept for a kill is there exactly when the current action is the
\* kill that cuts it.
CutPart ==
  /\ provider.response # NoValue <=> Cut(current) = "ClientResponseObserved"
  /\ webhook.request # NoValue <=> Cut(current) = "WebhookRequestForwarded"
  /\ webhook.response # NoValue <=> Cut(current) = "WebhookResponseObserved"
  /\ fixture.request = webhook.request /\ fixture.response = webhook.response
  /\ Cut(current) = "ClientRequestForwarded" =>
        /\ provider.pending # NoValue /\ provider.pending.kind = "Checkout"
        /\ ~provider.pending.disconnect
  /\ Cut(current) \notin {NoValue, "ClientRequestForwarded"} => provider.pending = NoValue
  /\ Cut(current) = "SqlProbe" => case.probe = "Observed"

\* The phases in which a checkout may still add objects.
Early == {"Start", "CheckoutRetryable", "CheckoutResponseHeld",
          "PaymentIntentKnown", "ConfirmRetryable"}

\* Every source of an object is captured, every object has a source, and the
\* captures refer to actions before the next one.
Traces(s, c, known, early) ==
  LET n == Len(s.objects) IN
  /\ s.objects # <<>> => s.active = s.objects[n]
  /\ \A i \in 1 .. n : /\ s.objects[i].slot = "PaymentIntentId"
                       /\ s.objects[i].action < n
                       /\ s.objects[i] \in DOMAIN c
                       /\ c[s.objects[i]] \in known
  /\ \A id \in known : \E i \in 1 .. n : c[s.objects[i]] = id
  /\ s.gate.slot # "PaymentIntentId"
  /\ early => \A r \in DOMAIN c : r.action < n

TracePart(m) ==
  /\ m.objects = Len(sources.objects)
  /\ Traces(sources, captured, Known(fixture.stripe), m.phase \in Early)

\* The k-th event generated: the objects take turns, first with the stale
\* snapshots where those are allowed, then with the success.
Reported(k) ==
  LET id == captured[sources.objects[(k % Len(sources.objects)) + 1]] IN
  /\ \E e \in webhook.generated : e[2] = id
  /\ ~spec.allowStale \/ k >= Len(sources.objects) => Stripe!HasEvent(fixture.stripe, id, "Succeeded")

\* The queue and the events generated are as the plan counts them.
EventPart(m) ==
  /\ m.phase # "Events" => webhook.queue = <<>>
  /\ m.phase = "Events" =>
        /\ m.pending = Len(webhook.queue) /\ m.generated = sources.generated
        /\ ~m.delayUsed => \A i \in DOMAIN webhook.queue : ~webhook.queue[i].delayed
        /\ m.delivered > 0 => webhook.last # NoValue
  /\ m.phase \notin {"Events", "Quiesced", "Complete"} => sources.generated = 0
  /\ m.phase \in {"Quiesced", "Complete"} => sources.generated >= TargetEvents(spec, m.objects)
  /\ \A e \in webhook.generated :
        /\ e[1] \in DOMAIN fixture.stripe.events /\ fixture.stripe.events[e[1]].intent = e[2]
        /\ spec.allowStale => Stripe!HasEvent(fixture.stripe, e[2], "RequiresConfirmation")
  /\ \A k \in 0 .. sources.generated - 1 : Reported(k)

\* The payment under way has succeeded when the plan says it was confirmed, and
\* the faulty application has made an object for every planned commit.
StatusPart(m) ==
  /\ \/ m.phase \in {"ConfirmResponseHeld", "Confirmed", "Events", "Quiesced", "Complete"}
     \/ m.phase = "ConfirmRetryable" /\ m.ambiguous
     => StatusOf(fixture.stripe, ActiveIntent) = "Succeeded"
  /\ Faulty => m.objects = Len(fixture.stripe.intents)

Real(m) == /\ Types /\ ProviderPart /\ ControlPart(m) /\ HeldPart(m) /\ CutPart
           /\ TracePart(m) /\ EventPart(m) /\ StatusPart(m)

\* The current action was planned in the symbolic state m.
PlannedAt(m) ==
  \/ /\ current = NoAction /\ m = model /\ m.phase \in {"Start", "Complete"}
  \/ /\ current \in Eligible(spec, m) /\ model = Apply(m, current) /\ m.phase # "Complete"

-----------------------------------------------------------------------------
(* The invariant of a case.                                                  *)

\* What is observed of an action is all that a later kill can cut.
Seen(m, a) ==
    ~m.legacy /\ m.kills = 0 =>
        /\ m.observation = ObservationAfter(a)
        /\ m.phase = "Complete" => m.observation = "None"

\* The plan is one the compiler accepts, and its last action the one seen.
KillInv == PlanInv /\ Seen(model, current)

\* Until the case ends the state that the current action was planned in says
\* what is real; it ends in an error only after a call answered otherwise.
HttpInv ==
    /\ KillInv
    /\ failure # NoValue => diverged /\ case.checkpoint = NoValue
    /\ Faulty => ~diverged
    /\ failure = NoValue => \E m : Sound(spec, m) /\ PlannedAt(m) /\ Real(m)

-----------------------------------------------------------------------------
(* What the compiler's next choice means.                                    *)

\* After a choice the symbolic state is sound and the choice was an eligible
\* one that preflight accepts; a complete case has no further choice.
LEMMA Chosen ==
    ASSUME PlanInv, NEW next, Compiles(next)
    PROVE  /\ PlanInv'
           /\ spec' = spec /\ ValidPlanSpec(spec) /\ Sound(spec, model)
           /\ model.phase = "Complete" => next = NoAction /\ model' = model
           /\ model.phase # "Complete" => /\ next \in Eligible(spec, model)
                                          /\ model' = Apply(model, next)
                                          /\ Preflight(current, next)
<1>1. ValidPlanSpec(spec) /\ Sound(spec, model)
  BY SpecsAssumption DEF PlanInv
<1>2. CASE model.phase = "Complete"
  <2>1. next = NoAction /\ UNCHANGED vars
    BY <1>2 DEF Compiles
  <2>2. PlanInv'
    BY <2>1, PlanInvStep
  <2> QED  BY <1>1, <1>2, <2>1, <2>2 DEF vars
<1>3. CASE model.phase # "Complete"
  <2>1. /\ next \in Eligible(spec, model) /\ Fits(spec, Apply(model, next), used)
        /\ Preflight(current, next) /\ model' = Apply(model, next)
        /\ used' = used + 1 /\ UNCHANGED spec
    BY <1>3 DEF Compiles
  <2>2. \E a \in Eligible(spec, model) :
           /\ a.kind = next.kind
           /\ Fits(spec, Apply(model, a), used)
           /\ model' = Apply(model, a)
           /\ used' = used + 1
           /\ UNCHANGED spec
    BY <2>1
  <2>3. Choose(next.kind)
    BY <2>2, Zenon DEF Choose
  <2>4. next.kind \in {"DriveCheckout", "RetryBusinessRequest", "RetrievePaymentIntent",
            "ReleaseProviderGate", "ConfirmPaymentIntent", "RetryProviderRequest",
            "GenerateProviderEvent", "DeliverWebhook", "DuplicateWebhook",
            "DelayWebhook", "ReorderWebhooks", "DropWebhook", "KillApplication",
            "RestartAndAwaitHealth", "WaitForQuiescence", "CheckCheckpoint"}
    <3>1. model.phase \in Phases
      BY <1>1 DEF Sound, IsModel
    <3>2. CASE next \in PhaseActions(spec, model)
      BY <3>1, <3>2 DEF PhaseActions, WithScript, Kinds, EventActions, Phases
    <3>3. CASE next \in KillActions(spec, model)
      BY <3>3 DEF KillActions
    <3>4. CASE next \in Kinds({"RestartAndAwaitHealth"})
      BY <3>4 DEF Kinds
    <3> QED  BY <2>1, <3>2, <3>3, <3>4 DEF Eligible
  <2>5. Next
    BY <2>3, <2>4 DEF Next
  <2>6. PlanInv'
    BY <2>5, PlanInvStep
  <2> QED  BY <1>1, <1>3, <2>1, <2>6
<1> QED  BY <1>2, <1>3

-----------------------------------------------------------------------------
(* The kills the scheduler plans.                                            *)

\* Unless it is a kill, an action is observed as it is applied.
LEMMA AppliedIsSeen ==
    ASSUME NEW s, NEW m, Sound(s, m), m.phase # "Complete", NEW a \in Eligible(s, m)
    PROVE  Seen(Apply(m, a), a)
<1> DEFINE x == Observe(m, a)
           n == Apply(m, a)
<1>1. IsModel(m) /\ m.kills \in 0 .. 1
  BY DEF Sound, IsModel
<1>2. /\ IsModel(x) /\ x.kills = m.kills /\ x.phase = m.phase
      /\ x.legacy = m.legacy
      /\ ~m.legacy /\ m.kills = 0 => x.observation = ObservationAfter(a)
  <2>1. IsModel(x) /\ x.kills = m.kills /\ x.phase = m.phase
    BY <1>1, ObserveFacts
  <2>2. CASE m.legacy \/ m.kills > 0
    BY <1>1, <2>1, <2>2 DEF Observe
  <2>3. CASE ~m.legacy /\ ~(m.kills > 0)
    BY <1>1, <2>1, <2>3 DEF Observe, IsModel, Fields
  <2> QED  BY <2>1, <2>2, <2>3
<1> HIDE DEF x
<1>3. CASE a.kind = "KillApplication"
  <2>1. n = Kill(x, a.cutPoint)
    BY <1>3 DEF Apply, x
  <2> DEFINE cut == IF a.cutPoint = "ClientResponseObserved" /\ x.phase = "PaymentIntentKnown"
                    THEN Enter(x, "CheckoutRetryable") ELSE x
  <2>2. IsModel(cut) /\ cut.kills = x.kills
    BY <1>2, EnterFacts DEF Phases
  <2>3. n = [cut EXCEPT !.healthy = FALSE, !.kills = @ + 1]
    BY <2>1 DEF Kill
  <2> HIDE DEF cut
  <2>4. n.kills = x.kills + 1
    BY <2>2, <2>3 DEF IsModel, Fields
  <2> QED  BY <1>1, <1>2, <2>4 DEF Seen
<1>4. CASE a.kind = "RestartAndAwaitHealth"
  <2>1. n = [x EXCEPT !.healthy = TRUE]
    BY <1>4 DEF Apply, x
  <2>2. n.kills = x.kills /\ n.legacy = x.legacy /\ n.observation = x.observation
        /\ n.phase = x.phase
    BY <1>2, <2>1 DEF IsModel, Fields
  <2> QED  BY <1>1, <1>2, <2>2 DEF Seen
<1>5. CASE a.kind \notin {"KillApplication", "RestartAndAwaitHealth"}
  <2>1. n = ApplyHealthy(x, a)
    BY <1>5 DEF Apply, x
  <2>2. \A phase : LET e == Enter(x, phase) IN
            /\ DOMAIN e = Fields /\ e.kills = x.kills /\ e.legacy = x.legacy
            /\ e.observation = x.observation /\ e.phase = phase
    BY <1>2 DEF Enter, IsModel, Fields
  <2>3. a \in PhaseActions(s, m) /\ m.phase \in Phases
    BY <1>5 DEF Eligible, Kinds, KillActions, Sound, IsModel
  <2>4. a.kind \in {"DriveCheckout", "RetryBusinessRequest", "RetrievePaymentIntent",
            "ReleaseProviderGate", "ConfirmPaymentIntent", "RetryProviderRequest",
            "GenerateProviderEvent", "DeliverWebhook", "DuplicateWebhook",
            "DelayWebhook", "ReorderWebhooks", "DropWebhook",
            "WaitForQuiescence", "CheckCheckpoint"}
    BY <2>3 DEF PhaseActions, WithScript, Kinds, EventActions, Phases
  <2>5. /\ n.kills = x.kills /\ n.legacy = x.legacy
        /\ n.observation = x.observation
        /\ n.phase = "Complete" => a.kind = "CheckCheckpoint"
    <3>1. CASE a.kind \in {"DriveCheckout", "RetryBusinessRequest"}
      <4> DEFINE C(k) == CreatePhase(x, a.script, k)
      <4>1. \A k : /\ DOMAIN C(k) = Fields
                   /\ C(k).kills = x.kills /\ C(k).legacy = x.legacy
                   /\ C(k).observation = x.observation /\ C(k).phase # "Complete"
        BY <2>2 DEF CreatePhase, Fields
      <4>2. \E k : n = Created(C(k), a.script)
        BY <2>1, <3>1 DEF ApplyHealthy
      <4> HIDE DEF C
      <4> QED  BY <4>1, <4>2 DEF Created, Fields
    <3>2. CASE a.kind \in {"ConfirmPaymentIntent", "RetryProviderRequest"}
      <4> DEFINE C(k) == ConfirmPhase(x, a.script, k)
      <4>1. \A k : /\ DOMAIN C(k) = Fields
                   /\ C(k).kills = x.kills /\ C(k).legacy = x.legacy
                   /\ C(k).observation = x.observation /\ C(k).phase # "Complete"
        BY <2>2 DEF ConfirmPhase, Fields
      <4>2. \E k : n = C(k)
        BY <2>1, <3>2 DEF ApplyHealthy
      <4> QED  BY <4>1, <4>2
    <3>3. CASE a.kind \in {"ReleaseProviderGate", "RetrievePaymentIntent"}
      <4>1. n = KnownOrConfirmed(x)
        BY <2>1, <3>3 DEF ApplyHealthy
      <4> QED  BY <2>2, <4>1 DEF KnownOrConfirmed
    <3>4. CASE a.kind = "GenerateProviderEvent"
      <4>1. n = Generate(x)
        BY <2>1, <3>4 DEF ApplyHealthy
      <4> QED  BY <1>2, <4>1 DEF Generate, IsModel, Fields
    <3>5. CASE a.kind \in {"WaitForQuiescence", "CheckCheckpoint"}
      BY <2>1, <2>2, <3>5 DEF ApplyHealthy
    <3>6. CASE a.kind \in {"DeliverWebhook", "DuplicateWebhook", "DelayWebhook",
                           "ReorderWebhooks", "DropWebhook"}
      BY <1>2, <2>1, <3>6 DEF ApplyHealthy, IsModel, Fields
    <3> QED  BY <2>4, <3>1, <3>2, <3>3, <3>4, <3>5, <3>6
  <2>6. a.kind = "CheckCheckpoint" => ObservationAfter(a) = "None"
    BY DEF ObservationAfter
  <2> QED  BY <1>2, <2>5, <2>6 DEF Seen
<1> QED  BY <1>3, <1>4, <1>5

\* A cut point of the action just observed is one preflight accepts after it.
LEMMA SupportedIsAccepted ==
    ASSUME NEW a, NEW c \in Supports(ObservationAfter(a))
    PROVE  CutBy(c, a)
<1> DEFINE o == ObservationAfter(a)
<1>1. CASE o = "CheckoutRequestHeld"
  <2>1. /\ a.kind \in BusinessRequest /\ TerminalOutcome(a.script) = "CommitThenDelay"
    BY <1>1 DEF ObservationAfter, BusinessRequest
  <2>2. c = "ClientRequestForwarded"
    BY <1>1 DEF Supports
  <2> QED  BY <2>1, <2>2 DEF CutBy, ClientRequestCut
<1>2. CASE o = "InitialCheckoutResponse"
  <2>1. a.kind = "DriveCheckout" /\ TerminalOutcome(a.script) = "Normal"
    BY <1>2 DEF ObservationAfter
  <2>2. c \in {"ClientResponseObserved", "SqlProbe"}
    BY <1>2 DEF Supports
  <2> QED  BY <2>1, <2>2 DEF CutBy, ClientResponseCut, SqlProbeCut, BusinessRequest
<1>3. CASE o = "CheckoutResponse"
  <2>1. /\ a.kind \in BusinessRequest /\ TerminalOutcome(a.script) # "CommitThenDelay"
    BY <1>3 DEF ObservationAfter, BusinessRequest
  <2>2. c = "ClientResponseObserved"
    BY <1>3 DEF Supports
  <2> QED  BY <2>1, <2>2 DEF CutBy, ClientResponseCut
<1>4. CASE o = "WebhookDelivery"
  <2>1. a.kind \in Delivery
    BY <1>4 DEF ObservationAfter, Delivery
  <2>2. c \in {"WebhookRequestForwarded", "WebhookResponseObserved"}
    BY <1>4 DEF Supports
  <2> QED  BY <2>1, <2>2 DEF CutBy, WebhookRequestCut, WebhookResponseCut
<1>5. o \in Observations
  BY DEF ObservationAfter, Observations
<1>6. CASE o = "None"
  BY <1>6 DEF Supports
<1> QED  BY <1>1, <1>2, <1>3, <1>4, <1>5, <1>6 DEF Observations

\* The plan stays one the compiler accepts, and its last action the one seen.
LEMMA KillInvStep == KillInv /\ [CaseNext]_allVars => KillInv'
<1> SUFFICES ASSUME KillInv, [CaseNext]_allVars PROVE KillInv'
  OBVIOUS
<1>1. CASE UNCHANGED allVars
  <2>1. UNCHANGED vars /\ current' = current
    BY <1>1 DEF allVars, caseVars
  <2> QED  BY <2>1 DEF vars, KillInv, PlanInv, Seen, BudgetSuffices
<1>2. ASSUME NEW next, Compiles(next), current' = next PROVE KillInv'
  <2>1. /\ PlanInv' /\ Sound(spec, model)
        /\ model.phase = "Complete" => next = NoAction /\ model' = model
        /\ model.phase # "Complete" => /\ next \in Eligible(spec, model)
                                       /\ model' = Apply(model, next)
    BY <1>2, Chosen DEF KillInv
  <2>2. CASE model.phase = "Complete"
    <3>1. ObservationAfter(NoAction) = "None"
      BY DEF ObservationAfter, NoAction
    <3> QED  BY <1>2, <2>1, <2>2, <3>1 DEF KillInv, Seen
  <2>3. CASE model.phase # "Complete"
    BY <1>2, <2>1, <2>3, AppliedIsSeen DEF KillInv
  <2> QED  BY <2>2, <2>3
<1> QED  BY <1>1, <1>2 DEF CaseNext, Ended

\* The scheduler in force plans no kill that preflight then refuses, whatever
\* the specification and the choices.
THEOREM PlannedKillsAreSupported == CaseSpec => []KillsAreSupported
<1>1. CaseInit => KillInv
  <2> SUFFICES ASSUME CaseInit PROVE KillInv
    OBVIOUS
  <2>1. PlanInv
    BY PlanInvInit DEF CaseInit
  <2>2. current = NoAction /\ \E legacy \in BOOLEAN : model = Initial(legacy)
    BY DEF CaseInit, Init
  <2>3. model.observation = "None"
    BY <2>2 DEF Initial
  <2>4. ObservationAfter(NoAction) = "None"
    BY DEF ObservationAfter, NoAction
  <2> QED  BY <2>1, <2>2, <2>3, <2>4 DEF KillInv, Seen
<1>2. KillInv => KillsAreSupported
  <2> SUFFICES ASSUME KillInv, ~model.legacy, NEW a \in KillActions(spec, model)
               PROVE  Preflight(current, a)
    BY DEF KillsAreSupported
  <2>1. ValidPlanSpec(spec) /\ Sound(spec, model)
    BY SpecsAssumption DEF KillInv, PlanInv
  <2>2. a.cutPoint \in CutPointsOf(model) /\ model.kills < spec.maxKills
    BY DEF KillActions
  <2>3. model.kills = 0 /\ a.cutPoint \in Supports(model.observation)
    BY <2>1, <2>2 DEF ValidPlanSpec, Sound, IsModel, CutPointsOf
  <2>4. model.observation = ObservationAfter(current)
    BY <2>3 DEF KillInv, Seen
  <2> QED  BY <2>3, <2>4, SupportedIsAccepted DEF Preflight
<1> QED  BY <1>1, <1>2, KillInvStep, PTL DEF CaseSpec

-----------------------------------------------------------------------------
(* Which state an action is planned in, and which it leads to.               *)

\* The scripts of a checkout: one call, or a lost one and its retry.
IsScript(script) ==
    \/ \E o \in Outcomes \ {"CommitThenClose"} : script = Single(o)
    \/ script \in [first: {"CommitThenClose"}, retry: Outcomes]

\* Every script of a business request is one of them.
LEMMA ScriptsAreShort ==
    ASSUME NEW s, ValidPlanSpec(s), NEW F \in SUBSET s.outcomes,
           NEW script \in BusinessScripts(s, F)
    PROVE  IsScript(script)
BY DEF BusinessScripts, IsScript, ValidPlanSpec

\* Each action has its phases, in which the process is up unless it is the
\* restart that is planned.
PlannedIn(s, m, a) ==
    /\ a.kind = "RestartAndAwaitHealth" <=> ~m.healthy
    /\ a.kind \in BusinessRequest =>
          /\ IsScript(a.script)
          /\ m.phase \in {"Start", "CheckoutRetryable"}
          /\ a.kind = "DriveCheckout" <=> m.phase = "Start"
    /\ a.kind \in ConfirmKinds =>
          /\ m.phase \in {"PaymentIntentKnown", "ConfirmRetryable"}
          /\ \E o \in Outcomes : a.script = Single(o)
    /\ a.kind = "RetrievePaymentIntent" =>
          m.ambiguous /\ m.phase \in {"CheckoutRetryable", "ConfirmRetryable"}
    /\ a.kind = "ReleaseProviderGate" =>
          m.phase \in {"CheckoutResponseHeld", "ConfirmResponseHeld"}
    /\ a.kind = "GenerateProviderEvent" => m.phase \in {"Confirmed", "Events"}
    /\ a.kind \in Delivery \cup {"DropWebhook", "ReorderWebhooks", "DelayWebhook",
                                 "WaitForQuiescence"} => m.phase = "Events"
    /\ a.kind \in {"DeliverWebhook", "DropWebhook"} => m.pending > 0
    /\ a.kind = "DuplicateWebhook" => m.delivered > 0
    /\ a.kind = "ReorderWebhooks" => m.pending >= 2
    /\ a.kind = "DelayWebhook" => m.pending > 0 /\ ~m.delayUsed
    /\ a.kind = "WaitForQuiescence" =>
          m.pending = 0 /\ ~(m.generated < TargetEvents(s, m.objects))
    /\ a.kind = "CheckCheckpoint" => m.phase = "Quiesced"
    /\ a.kind = "KillApplication" => a.cutPoint \in CutPoints

\* The kinds of action a plan is made of.
ActionKinds == {"DriveCheckout", "RetryBusinessRequest", "RetrievePaymentIntent",
    "ReleaseProviderGate", "ConfirmPaymentIntent", "RetryProviderRequest",
    "GenerateProviderEvent", "DeliverWebhook", "DuplicateWebhook", "DelayWebhook",
    "ReorderWebhooks", "DropWebhook", "KillApplication", "RestartAndAwaitHealth",
    "WaitForQuiescence", "CheckCheckpoint"}

\* An eligible action is planned in one of its phases.
LEMMA EligibleIsPlanned ==
    ASSUME NEW s, ValidPlanSpec(s), NEW m, Sound(s, m), NEW a \in Eligible(s, m)
    PROVE  PlannedIn(s, m, a) /\ a.kind \in ActionKinds
<1>1. m.phase \in Phases /\ s.outcomes \subseteq Outcomes /\ s.cutPoints \subseteq CutPoints
  BY DEF Sound, IsModel, ValidPlanSpec
<1> USE DEF BusinessRequest, ConfirmKinds, Delivery, ActionKinds
<1>2. CASE ~m.healthy
  <2>1. a.kind = "RestartAndAwaitHealth"
    BY <1>2 DEF Eligible, Kinds
  <2> QED  BY <1>2, <2>1 DEF PlannedIn
<1>3. CASE m.healthy /\ a \in KillActions(s, m)
  <2>1. a.kind = "KillApplication" /\ a.cutPoint \in CutPoints
    BY <1>1, <1>3 DEF KillActions
  <2> QED  BY <1>3, <2>1 DEF PlannedIn
<1>4. CASE m.healthy /\ a \in PhaseActions(s, m)
  <2>1. CASE m.phase = "Start"
    <3>1. a.kind = "DriveCheckout" /\ a.script \in BusinessScripts(s, s.outcomes)
      BY <1>4, <2>1 DEF PhaseActions, WithScript
    <3>2. IsScript(a.script)
      BY <3>1, ScriptsAreShort
    <3> QED  BY <1>4, <2>1, <3>1, <3>2 DEF PlannedIn
  <2>2. CASE m.phase = "CheckoutRetryable"
    <3>1. \/ /\ a.kind = "RetryBusinessRequest"
             /\ a.script \in BusinessScripts(s, RetryOutcomes(s, m.attempts))
          \/ a.kind = "RetrievePaymentIntent" /\ m.ambiguous
      BY <1>4, <2>2 DEF PhaseActions, WithScript, Kinds
    <3>2. RetryOutcomes(s, m.attempts) \in SUBSET s.outcomes
      BY DEF RetryOutcomes
    <3>3. a.kind = "RetryBusinessRequest" => IsScript(a.script)
      BY <3>1, <3>2, ScriptsAreShort
    <3> QED  BY <1>4, <2>2, <3>1, <3>3 DEF PlannedIn
  <2>3. CASE m.phase \in {"CheckoutResponseHeld", "ConfirmResponseHeld"}
    <3>1. a.kind = "ReleaseProviderGate"
      BY <1>4, <2>3 DEF PhaseActions, Kinds
    <3> QED  BY <1>4, <2>3, <3>1 DEF PlannedIn
  <2>4. CASE m.phase = "PaymentIntentKnown"
    <3>1. a.kind = "ConfirmPaymentIntent" /\ \E o \in Outcomes : a.script = Single(o)
      BY <1>1, <1>4, <2>4 DEF PhaseActions, WithScript
    <3> QED  BY <1>4, <2>4, <3>1 DEF PlannedIn
  <2>5. CASE m.phase = "ConfirmRetryable"
    <3>1. \/ a.kind = "RetryProviderRequest" /\ \E o \in Outcomes : a.script = Single(o)
          \/ a.kind = "RetrievePaymentIntent" /\ m.ambiguous
      BY <1>1, <1>4, <2>5 DEF PhaseActions, WithScript, Kinds, RetryOutcomes
    <3> QED  BY <1>4, <2>5, <3>1 DEF PlannedIn
  <2>6. CASE m.phase = "Confirmed"
    <3>1. a.kind = "GenerateProviderEvent"
      BY <1>4, <2>6 DEF PhaseActions, Kinds
    <3> QED  BY <1>4, <2>6, <3>1 DEF PlannedIn
  <2>7. CASE m.phase = "Events"
    <3>1. \/ a.kind = "GenerateProviderEvent"
          \/ a.kind = "DeliverWebhook" /\ m.pending > 0
          \/ a.kind = "DropWebhook" /\ m.pending > 0
          \/ a.kind = "ReorderWebhooks" /\ m.pending >= 2
          \/ a.kind = "DuplicateWebhook" /\ m.delivered > 0
          \/ /\ a.kind = "WaitForQuiescence" /\ m.pending = 0
             /\ ~(m.generated < TargetEvents(s, m.objects))
          \/ a.kind = "DelayWebhook" /\ m.pending > 0 /\ ~m.delayUsed
      BY <1>4, <2>7 DEF PhaseActions, EventActions, Kinds
    <3> QED  BY <1>4, <2>7, <3>1 DEF PlannedIn
  <2>8. CASE m.phase = "Quiesced"
    <3>1. a.kind = "CheckCheckpoint"
      BY <1>4, <2>8 DEF PhaseActions, Kinds
    <3> QED  BY <1>4, <2>8, <3>1 DEF PlannedIn
  <2>9. m.phase # "Complete"
    BY <1>4 DEF PhaseActions
  <2> QED  BY <1>1, <2>1, <2>2, <2>3, <2>4, <2>5, <2>6, <2>7, <2>8, <2>9 DEF Phases
<1> QED  BY <1>2, <1>3, <1>4 DEF Eligible

\* The events and the objects of two states are counted alike.
Counts(m, n) ==
    /\ n.objects = m.objects /\ n.generated = m.generated /\ n.pending = m.pending
    /\ n.delivered = m.delivered /\ (n.delayUsed <=> m.delayUsed)

\* The phase a call leads to, by the outcome of the last call of its script.
PhaseAfter(script, answered, held, retryable) ==
    CASE TerminalOutcome(script) = "Normal" -> answered
      [] TerminalOutcome(script) = "CommitThenDelay" -> held
      [] OTHER -> retryable

\* The phase and the counts that an action planned in m leads to.
LeadsTo(m, a, n) ==
    /\ a.kind # "KillApplication" => n.healthy
    /\ a.kind = "KillApplication" =>
          /\ ~n.healthy /\ n.objects = m.objects
          /\ n.phase = (IF /\ a.cutPoint = "ClientResponseObserved"
                           /\ m.phase = "PaymentIntentKnown"
                        THEN "CheckoutRetryable" ELSE m.phase)
          /\ m.phase = "Events" => Counts(m, n)
    /\ a.kind = "RestartAndAwaitHealth" => n.phase = m.phase /\ Counts(m, n)
    /\ a.kind \in BusinessRequest =>
          /\ n.objects = m.objects + CommittedCount(a.script)
          /\ n.phase = PhaseAfter(a.script, "PaymentIntentKnown",
                                  "CheckoutResponseHeld", "CheckoutRetryable")
    /\ a.kind \notin BusinessRequest => n.objects = m.objects
    /\ a.kind \in ConfirmKinds =>
          n.phase = PhaseAfter(a.script, "Confirmed", "ConfirmResponseHeld",
                               "ConfirmRetryable")
    /\ a.kind \in {"ReleaseProviderGate", "RetrievePaymentIntent"} =>
          n.phase = (IF m.phase \in {"CheckoutResponseHeld", "CheckoutRetryable"}
                     THEN "PaymentIntentKnown" ELSE "Confirmed")
    /\ a.kind = "GenerateProviderEvent" =>
          /\ n.phase = "Events" /\ n.generated = m.generated + 1
          /\ n.pending = m.pending + 1 /\ n.delivered = m.delivered
          /\ n.delayUsed <=> m.delayUsed
    /\ a.kind \in Delivery \cup {"DropWebhook", "ReorderWebhooks", "DelayWebhook"} =>
          /\ n.phase = m.phase /\ n.generated = m.generated
          /\ a.kind # "DelayWebhook" => (n.delayUsed <=> m.delayUsed)
          /\ a.kind = "DelayWebhook" => n.delayUsed
          /\ n.pending = m.pending - (IF a.kind \in {"DeliverWebhook", "DropWebhook"}
                                      THEN 1 ELSE 0)
          /\ n.delivered = m.delivered + (IF a.kind = "DeliverWebhook" THEN 1 ELSE 0)
    /\ a.kind = "WaitForQuiescence" => n.phase = "Quiesced"
    /\ a.kind = "CheckCheckpoint" => n.phase = "Complete"

\* An eligible action leads where its kind says.
LEMMA AppliedLeads ==
    ASSUME NEW s, ValidPlanSpec(s), NEW m, Sound(s, m), NEW a \in Eligible(s, m)
    PROVE  LeadsTo(m, a, Apply(m, a))
<1> DEFINE x == Observe(m, a)
           n == Apply(m, a)
<1> SUFFICES LeadsTo(m, a, n)
  OBVIOUS
<1>1. IsModel(m) /\ IsModel(x) /\ PlannedIn(s, m, a) /\ a.kind \in ActionKinds
  BY ObserveFacts, EligibleIsPlanned DEF Sound
<1>2. x.phase = m.phase /\ Counts(m, x) /\ (x.healthy <=> m.healthy)
  BY <1>1, ObserveFacts DEF Counts
<1> HIDE DEF x
<1>3. \A phase : LET e == Enter(x, phase) IN
          /\ DOMAIN e = Fields /\ e.phase = phase /\ e.objects = x.objects
          /\ (e.healthy <=> x.healthy)
  BY <1>1 DEF Enter, IsModel, Fields
<1> USE DEF BusinessRequest, ConfirmKinds, Delivery, ActionKinds
<1>4. CASE a.kind = "KillApplication"
  <2> DEFINE cut == IF a.cutPoint = "ClientResponseObserved" /\ x.phase = "PaymentIntentKnown"
                    THEN Enter(x, "CheckoutRetryable") ELSE x
  <2>1. n = [cut EXCEPT !.healthy = FALSE, !.kills = @ + 1]
    BY <1>4 DEF Apply, Kill, x
  <2>2. /\ DOMAIN cut = Fields /\ cut.objects = m.objects
        /\ cut.phase = (IF /\ a.cutPoint = "ClientResponseObserved"
                           /\ m.phase = "PaymentIntentKnown"
                        THEN "CheckoutRetryable" ELSE m.phase)
        /\ m.phase = "Events" => Counts(m, cut)
    BY <1>1, <1>2, <1>3 DEF IsModel, Counts
  <2> HIDE DEF cut
  <2>3. /\ ~n.healthy /\ n.objects = cut.objects /\ n.phase = cut.phase
        /\ Counts(m, cut) => Counts(m, n)
    BY <2>1, <2>2 DEF Fields, Counts
  <2> HIDE DEF n
  <2> QED  BY <1>4, <2>2, <2>3 DEF LeadsTo
<1>5. CASE a.kind = "RestartAndAwaitHealth"
  <2>1. n = [x EXCEPT !.healthy = TRUE]
    BY <1>5 DEF Apply, x
  <2>2. n.healthy /\ n.phase = x.phase /\ Counts(x, n)
    BY <1>1, <2>1 DEF IsModel, Fields, Counts
  <2> HIDE DEF n
  <2> QED  BY <1>2, <1>5, <2>2 DEF LeadsTo, Counts
<1>6. CASE a.kind \notin {"KillApplication", "RestartAndAwaitHealth"}
  <2>1. n = ApplyHealthy(x, a) /\ m.healthy
    BY <1>1, <1>6 DEF Apply, x, PlannedIn
  <2> HIDE DEF n
  <2>2. CASE a.kind \in BusinessRequest
    <3> DEFINE C(k) == CreatePhase(x, a.script, k)
               count == CommittedCount(a.script)
               after == PhaseAfter(a.script, "PaymentIntentKnown",
                                  "CheckoutResponseHeld", "CheckoutRetryable")
    <3>1. \A k : /\ DOMAIN C(k) = Fields /\ C(k).phase = after
                 /\ C(k).objects = x.objects /\ (C(k).healthy <=> x.healthy)
      BY <1>3 DEF CreatePhase, PhaseAfter, Fields
    <3>2. PICK k : n = Created(C(k), a.script)
      BY <2>1, <2>2 DEF ApplyHealthy
    <3>3. n = [C(k) EXCEPT !.objects = @ + count]
      BY <3>2 DEF Created
    <3> HIDE DEF C, count, after
    <3>4. n.phase = after /\ n.objects = x.objects + count /\ (n.healthy <=> x.healthy)
      BY <3>1, <3>3 DEF Fields
    <3>5. n.phase = after /\ n.objects = m.objects + count /\ n.healthy
      BY <1>2, <2>1, <3>4 DEF Counts
    <3> QED  BY <2>2, <3>5 DEF LeadsTo, count, after
  <2>3. CASE a.kind \in ConfirmKinds
    <3> DEFINE C(k) == ConfirmPhase(x, a.script, k)
               after == PhaseAfter(a.script, "Confirmed", "ConfirmResponseHeld",
                                   "ConfirmRetryable")
    <3>1. \A k : /\ C(k).phase = after
                 /\ C(k).objects = x.objects /\ (C(k).healthy <=> x.healthy)
      BY <1>3 DEF ConfirmPhase, PhaseAfter, Fields
    <3>2. \E k : n = C(k)
      BY <2>1, <2>3 DEF ApplyHealthy
    <3> HIDE DEF C, after
    <3>3. n.phase = after /\ n.objects = m.objects /\ n.healthy
      BY <1>2, <2>1, <3>1, <3>2 DEF Counts
    <3> QED  BY <2>3, <3>3 DEF LeadsTo, after
  <2>4. CASE a.kind \in {"ReleaseProviderGate", "RetrievePaymentIntent"}
    <3>1. n = KnownOrConfirmed(x)
      BY <2>1, <2>4 DEF ApplyHealthy
    <3>2. /\ n.objects = m.objects /\ n.healthy
          /\ n.phase = (IF m.phase \in {"CheckoutResponseHeld", "CheckoutRetryable"}
                        THEN "PaymentIntentKnown" ELSE "Confirmed")
      BY <1>2, <1>3, <2>1, <3>1 DEF KnownOrConfirmed, Counts
    <3> QED  BY <2>4, <3>2 DEF LeadsTo
  <2>5. CASE a.kind = "GenerateProviderEvent"
    <3>1. n = Generate(x)
      BY <2>1, <2>5 DEF ApplyHealthy
    <3>2. /\ n.objects = x.objects /\ (n.healthy <=> x.healthy)
          /\ n.phase = "Events" /\ n.generated = x.generated + 1
          /\ n.pending = x.pending + 1 /\ n.delivered = x.delivered
          /\ (n.delayUsed <=> x.delayUsed)
      BY <1>1, <3>1 DEF Generate, IsModel, Fields
    <3> QED  BY <1>2, <2>1, <2>5, <3>2 DEF LeadsTo, Counts
  <2>6. CASE a.kind \in {"WaitForQuiescence", "CheckCheckpoint"}
    <3>1. /\ a.kind = "WaitForQuiescence" => n = Enter(x, "Quiesced")
          /\ a.kind = "CheckCheckpoint" => n = Enter(x, "Complete")
      BY <2>1, <2>6 DEF ApplyHealthy
    <3>2. /\ n.objects = m.objects /\ n.healthy
          /\ a.kind = "WaitForQuiescence" => n.phase = "Quiesced"
          /\ a.kind = "CheckCheckpoint" => n.phase = "Complete"
      BY <1>2, <1>3, <2>1, <2>6, <3>1 DEF Counts
    <3> QED  BY <2>6, <3>2 DEF LeadsTo
  <2>7. CASE a.kind \in {"DeliverWebhook", "DuplicateWebhook", "DelayWebhook",
                         "ReorderWebhooks", "DropWebhook"}
    <3>1. /\ n.objects = x.objects /\ (n.healthy <=> x.healthy)
          /\ n.phase = x.phase /\ n.generated = x.generated
          /\ a.kind # "DelayWebhook" => (n.delayUsed <=> x.delayUsed)
          /\ a.kind = "DelayWebhook" => n.delayUsed
          /\ n.pending = x.pending - (IF a.kind \in {"DeliverWebhook", "DropWebhook"}
                                      THEN 1 ELSE 0)
          /\ n.delivered = x.delivered + (IF a.kind = "DeliverWebhook" THEN 1 ELSE 0)
      <4> DEFINE k == a.kind
      <4>1. /\ k = "DeliverWebhook" => n = [x EXCEPT !.pending = @ - 1, !.delivered = @ + 1]
            /\ k = "DropWebhook" => n = [x EXCEPT !.pending = @ - 1]
            /\ k = "DuplicateWebhook" => n = [x EXCEPT !.duplicates = @ + 1]
            /\ k = "DelayWebhook" => n = [x EXCEPT !.delayUsed = TRUE]
            /\ k = "ReorderWebhooks" => n = [x EXCEPT !.reorderUsed = TRUE]
        BY <2>1 DEF ApplyHealthy
      <4>2. k \in {"DeliverWebhook", "DuplicateWebhook", "DelayWebhook",
                   "ReorderWebhooks", "DropWebhook"}
        BY <2>7
      <4> HIDE DEF k
      <4>3. CASE k = "DeliverWebhook"
        BY <1>1, <4>1, <4>3 DEF IsModel, Fields, k
      <4>4. CASE k = "DropWebhook"
        BY <1>1, <4>1, <4>4 DEF IsModel, Fields, k
      <4>5. CASE k \in {"DuplicateWebhook", "DelayWebhook", "ReorderWebhooks"}
        BY <1>1, <4>1, <4>5 DEF IsModel, Fields, k
      <4> QED  BY <4>2, <4>3, <4>4, <4>5
    <3> QED  BY <1>2, <2>1, <2>7, <3>1 DEF LeadsTo, Counts
  <2> QED  BY <1>1, <1>6, <2>2, <2>3, <2>4, <2>5, <2>6, <2>7
<1> QED  BY <1>4, <1>5, <1>6

-----------------------------------------------------------------------------
(* The provider behind the fixture.                                          *)

\* Its objects are numbered from one under the seed of the case.
Provides(p) == p \in Stripe!Providers /\ Numbered(p)

\* What no call of the case takes back: objects and events are only added, and
\* what succeeded stays so.
Extends(p, q) ==
    /\ Provides(q) /\ q.idempotency = p.idempotency
    /\ Len(p.intents) <= Len(q.intents)
    /\ DOMAIN p.events \subseteq DOMAIN q.events
    /\ \A i \in DOMAIN p.events : q.events[i] = p.events[i]
    /\ \A i \in DOMAIN p.intents :
          p.intents[i].status = "Succeeded" => q.intents[i].status = "Succeeded"

\* A provider is a record of these fields.
LEMMA ProviderShape ==
    ASSUME NEW p, Provides(p)
    PROVE  /\ p.seed = Seed
           /\ p.intents \in Seq(Stripe!PaymentIntents)
           /\ p.events \in Seq(Stripe!Events)
           /\ p.idempotency \in [{1, 2} -> Stripe!Entries \cup {NoEntry}]
           /\ p = [seed |-> p.seed, intents |-> p.intents, events |-> p.events,
                   idempotency |-> p.idempotency]
           /\ DOMAIN p.intents = 1 .. Len(p.intents) /\ Len(p.intents) \in Nat
           /\ DOMAIN p.events = 1 .. Len(p.events) /\ Len(p.events) \in Nat
<1> DEFINE I == Stripe!PaymentIntents
           E == Stripe!Events
           M == [{1, 2} -> Stripe!Entries \cup {NoEntry}]
<1>1. p \in [seed : {Seed}, intents : Seq(I), events : Seq(E), idempotency : M]
  BY DEF Provides, Stripe!Providers
<1> HIDE DEF I, E, M
<1>2. /\ p.seed = Seed /\ p.intents \in Seq(I) /\ p.events \in Seq(E)
      /\ p.idempotency \in M
      /\ p = [seed |-> p.seed, intents |-> p.intents, events |-> p.events,
              idempotency |-> p.idempotency]
  BY <1>1
<1> QED  BY <1>2 DEF I, E, M

\* The ids that are known are the numbers so far.
LEMMA KnownIds ==
    ASSUME NEW p, Provides(p)
    PROVE  /\ Known(p) = {<<Seed, i>> : i \in 1 .. Len(p.intents)}
           /\ Known(p) \subseteq Stripe!Ids
<1>1. DOMAIN p.intents = 1 .. Len(p.intents) /\ Len(p.intents) \in Nat
  BY ProviderShape
<1>2. \A i \in 1 .. Len(p.intents) : p.intents[i].id = <<Seed, i>>
  BY <1>1 DEF Provides, Numbered
<1>3. Known(p) = {<<Seed, i>> : i \in 1 .. Len(p.intents)}
  BY <1>1, <1>2 DEF Known
<1>4. \A i \in 1 .. Len(p.intents) : <<Seed, i>> \in Stripe!Ids
  BY <1>1 DEF Stripe!Ids
<1> QED  BY <1>3, <1>4

\* A known id has one position.
LEMMA PositionFacts ==
    ASSUME NEW p, Provides(p), NEW id \in Known(p)
    PROVE  /\ Stripe!PositionOf(p, id) \in DOMAIN p.intents
           /\ p.intents[Stripe!PositionOf(p, id)].id = id
           /\ \A i \in DOMAIN p.intents : p.intents[i].id = id => i = Stripe!PositionOf(p, id)
<1>1. \E i \in DOMAIN p.intents : p.intents[i].id = id
  BY DEF Known
<1>2. /\ Stripe!PositionOf(p, id) \in DOMAIN p.intents
      /\ p.intents[Stripe!PositionOf(p, id)].id = id
  BY <1>1 DEF Stripe!PositionOf
<1>3. \A i, j \in DOMAIN p.intents : p.intents[i].id = p.intents[j].id => i = j
  <2> SUFFICES ASSUME NEW i \in DOMAIN p.intents, NEW j \in DOMAIN p.intents,
                      p.intents[i].id = p.intents[j].id
               PROVE  i = j
    OBVIOUS
  <2>1. <<Seed, i>> = <<Seed, j>>
    BY DEF Provides, Numbered
  <2> QED  BY <2>1
<1> QED  BY <1>2, <1>3

\* Nothing that is known is forgotten, and no event is lost.
LEMMA ExtendsFacts ==
    ASSUME NEW p, NEW q, Provides(p), Extends(p, q)
    PROVE  /\ Known(p) \subseteq Known(q)
           /\ Len(p.intents) = Len(q.intents) => Known(p) = Known(q)
           /\ \A id, kind : Stripe!HasEvent(p, id, kind) => Stripe!HasEvent(q, id, kind)
           /\ \A id \in Known(p) :
                 StatusOf(p, id) = "Succeeded" => StatusOf(q, id) = "Succeeded"
<1>1. Provides(q) /\ Len(p.intents) \in Nat /\ Len(q.intents) \in Nat
  BY ProviderShape DEF Extends
<1>2. /\ Known(p) = {<<Seed, i>> : i \in 1 .. Len(p.intents)}
      /\ Known(q) = {<<Seed, i>> : i \in 1 .. Len(q.intents)}
  BY <1>1, KnownIds
<1>3. 1 .. Len(p.intents) \subseteq 1 .. Len(q.intents)
  BY <1>1 DEF Extends
<1>4. \A id, kind : Stripe!HasEvent(p, id, kind) => Stripe!HasEvent(q, id, kind)
  BY DEF Extends, Stripe!HasEvent
<1>5. ASSUME NEW id \in Known(p), StatusOf(p, id) = "Succeeded"
      PROVE  StatusOf(q, id) = "Succeeded"
  <2> DEFINE i == Stripe!PositionOf(p, id)
  <2>1. i \in DOMAIN p.intents /\ p.intents[i].id = id /\ p.intents[i].status = "Succeeded"
    BY <1>5, PositionFacts DEF StatusOf
  <2> HIDE DEF i
  <2>2. i \in DOMAIN q.intents /\ id \in Known(q)
    BY <1>1, <1>2, <1>3, <2>1, ProviderShape
  <2>3. q.intents[i].id = <<Seed, i>> /\ p.intents[i].id = <<Seed, i>>
    BY <1>1, <2>1, <2>2 DEF Provides, Numbered
  <2>4. i = Stripe!PositionOf(q, id)
    BY <1>1, <2>1, <2>2, <2>3, PositionFacts
  <2>5. q.intents[i].status = "Succeeded"
    BY <2>1 DEF Extends
  <2> QED  BY <2>4, <2>5 DEF StatusOf
<1> QED  BY <1>2, <1>3, <1>4, <1>5

\* An event that is asked for is there, and nothing else has changed.
LEMMA EnsureEventFacts ==
    ASSUME NEW p, Provides(p), NEW id \in Known(p), NEW kind \in Stripe!Statuses
    PROVE  LET q == Stripe!EnsureEvent(p, id, kind) IN
           /\ Extends(p, q) /\ q.intents = p.intents
           /\ Stripe!HasEvent(q, id, kind)
<1> DEFINE e == [id |-> <<p.seed, Len(p.events) + 1>>, kind |-> kind, intent |-> id]
           q == Stripe!EnsureEvent(p, id, kind)
<1> SUFFICES Extends(p, q) /\ q.intents = p.intents /\ Stripe!HasEvent(q, id, kind)
  OBVIOUS
<1>1. /\ p.seed = Seed /\ p.events \in Seq(Stripe!Events)
      /\ p.intents \in Seq(Stripe!PaymentIntents)
      /\ p.idempotency \in [{1, 2} -> Stripe!Entries \cup {NoEntry}]
      /\ p = [seed |-> p.seed, intents |-> p.intents, events |-> p.events,
              idempotency |-> p.idempotency]
      /\ Len(p.intents) \in Nat /\ Len(p.events) \in Nat
      /\ DOMAIN p.events = 1 .. Len(p.events)
  BY ProviderShape
<1>2. CASE Stripe!HasEvent(p, id, kind)
  <2>1. q = p
    BY <1>2 DEF Stripe!EnsureEvent
  <2> QED  BY <1>1, <1>2, <2>1 DEF Extends
<1>3. CASE ~Stripe!HasEvent(p, id, kind)
  <2>1. q = [p EXCEPT !.events = Append(@, e)]
    BY <1>3 DEF Stripe!EnsureEvent
  <2>2. e \in Stripe!Events
    <3>1. id \in Stripe!Ids /\ <<p.seed, Len(p.events) + 1>> \in Stripe!Ids
      BY <1>1, KnownIds DEF Stripe!Ids
    <3> QED  BY <3>1 DEF Stripe!Events
  <2>3. e.kind = kind /\ e.intent = id
    OBVIOUS
  <2> HIDE DEF e
  <2> DEFINE es == Append(p.events, e)
  <2>4. q = [seed |-> p.seed, intents |-> p.intents, events |-> es,
             idempotency |-> p.idempotency]
    BY <1>1, <2>1
  <2>5. /\ es \in Seq(Stripe!Events) /\ Len(es) = Len(p.events) + 1
        /\ DOMAIN es = 1 .. Len(p.events) + 1
        /\ es[Len(p.events) + 1] = e
        /\ \A i \in 1 .. Len(p.events) : es[i] = p.events[i]
    BY <1>1, <2>2
  <2> HIDE DEF es, q
  <2>6. /\ q.intents = p.intents /\ q.events = es /\ q.idempotency = p.idempotency
    BY <2>4
  <2>7. q \in Stripe!Providers
    BY <1>1, <2>4, <2>5 DEF Stripe!Providers
  <2>8. Provides(q)
    BY <2>6, <2>7 DEF Provides, Numbered
  <2>9. Stripe!HasEvent(q, id, kind)
    <3>1. Len(p.events) + 1 \in DOMAIN q.events
      BY <1>1, <2>5, <2>6
    <3> QED  BY <2>3, <2>5, <2>6, <3>1 DEF Stripe!HasEvent
  <2>10. DOMAIN p.events \subseteq DOMAIN q.events
    BY <1>1, <2>5, <2>6
  <2> QED  BY <1>1, <2>5, <2>6, <2>8, <2>9, <2>10 DEF Extends
<1> QED  BY <1>2, <1>3

\* A confirmation leaves the object succeeded, and adds at most an event.
LEMMA ConfirmFacts ==
    ASSUME NEW p, Provides(p), NEW id \in Known(p)
    PROVE  LET q == Stripe!Confirm(p, id) IN
           /\ Extends(p, q) /\ Len(q.intents) = Len(p.intents)
           /\ StatusOf(q, id) = "Succeeded"
<1> DEFINE i == Stripe!PositionOf(p, id)
           q == Stripe!Confirm(p, id)
<1> SUFFICES /\ Extends(p, q) /\ Len(q.intents) = Len(p.intents)
             /\ StatusOf(q, id) = "Succeeded"
  OBVIOUS
<1>1. /\ p.intents \in Seq(Stripe!PaymentIntents)
      /\ p.events \in Seq(Stripe!Events) /\ p.seed = Seed
      /\ p.idempotency \in [{1, 2} -> Stripe!Entries \cup {NoEntry}]
      /\ p = [seed |-> p.seed, intents |-> p.intents, events |-> p.events,
              idempotency |-> p.idempotency]
      /\ Len(p.intents) \in Nat /\ DOMAIN p.intents = 1 .. Len(p.intents)
  BY ProviderShape
<1>2. i \in DOMAIN p.intents /\ p.intents[i].id = id
  BY PositionFacts
<1>3. CASE p.intents[i].status = "Succeeded"
  <2>1. q = p
    BY <1>3 DEF Stripe!Confirm
  <2> QED  BY <1>1, <1>3, <2>1 DEF Extends, StatusOf
<1>4. CASE p.intents[i].status # "Succeeded"
  <2> DEFINE r == [p EXCEPT !.intents[i].status = "Succeeded"]
             is == [p.intents EXCEPT ![i].status = "Succeeded"]
  <2>1. q = Stripe!EnsureEvent(r, id, "Succeeded")
    BY <1>4 DEF Stripe!Confirm
  <2>2. r = [seed |-> p.seed, intents |-> is, events |-> p.events,
             idempotency |-> p.idempotency]
    <3>1. r = [p EXCEPT !.intents = is]
      OBVIOUS
    <3> HIDE DEF is, r
    <3> QED  BY <1>1, <3>1
  <2>3. p.intents[i] \in Stripe!PaymentIntents
    BY <1>1, <1>2, ElementOfSeq
  <2>4. [p.intents[i] EXCEPT !.status = "Succeeded"] \in Stripe!PaymentIntents
    BY <2>3 DEF Stripe!PaymentIntents, Stripe!Statuses
  <2>5. /\ is \in Seq(Stripe!PaymentIntents) /\ Len(is) = Len(p.intents)
        /\ DOMAIN is = DOMAIN p.intents
        /\ is[i] = [p.intents[i] EXCEPT !.status = "Succeeded"]
        /\ \A j \in DOMAIN p.intents : j # i => is[j] = p.intents[j]
    BY <1>1, <1>2, <2>4
  <2>6. \A j \in DOMAIN p.intents : is[j].id = p.intents[j].id
    BY <2>3, <2>5 DEF Stripe!PaymentIntents
  <2>7. is[i].status = "Succeeded"
    BY <2>3, <2>5 DEF Stripe!PaymentIntents
  <2> HIDE DEF r, is, q, i
  <2>8. r \in Stripe!Providers /\ r.intents = is /\ r.events = p.events
        /\ r.idempotency = p.idempotency
    BY <1>1, <2>2, <2>5 DEF Stripe!Providers
  <2>9. Provides(r)
    BY <2>5, <2>6, <2>8 DEF Provides, Numbered
  <2>10. id \in Known(r)
    BY <1>2, <2>5, <2>6, <2>8 DEF Known
  <2>11. Extends(r, q) /\ q.intents = is
    <3>1. "Succeeded" \in Stripe!Statuses
      BY DEF Stripe!Statuses
    <3> QED  BY <2>1, <2>8, <2>9, <2>10, <3>1, EnsureEventFacts
  <2>12. Extends(p, q)
    <3>1. \A j \in DOMAIN p.intents : p.intents[j].status = "Succeeded" => is[j].status = "Succeeded"
      BY <2>5, <2>7
    <3> QED  BY <1>1, <2>5, <2>8, <2>11, <3>1 DEF Extends
  <2>13. i = Stripe!PositionOf(q, id)
    <3>1. Provides(q) /\ id \in Known(q)
      BY <2>9, <2>10, <2>11, ExtendsFacts DEF Extends
    <3>2. i \in DOMAIN q.intents /\ q.intents[i].id = id
      BY <1>2, <2>5, <2>6, <2>11
    <3> QED  BY <3>1, <3>2, PositionFacts
  <2> QED  BY <2>5, <2>7, <2>11, <2>12, <2>13 DEF StatusOf
<1> QED  BY <1>3, <1>4

\* A snapshot leaves an event of its kind, and no other object.
LEMMA SnapshotFacts ==
    ASSUME NEW p, Provides(p), NEW id \in Known(p), NEW kind \in Stripe!Statuses
    PROVE  LET q == Stripe!EventSnapshot(p, id, kind) IN
           /\ Extends(p, q) /\ Len(q.intents) = Len(p.intents)
           /\ Stripe!HasEvent(q, id, kind)
<1> DEFINE q == Stripe!EventSnapshot(p, id, kind)
           r == Stripe!Confirm(p, id)
<1> SUFFICES /\ Extends(p, q) /\ Len(q.intents) = Len(p.intents)
             /\ Stripe!HasEvent(q, id, kind)
  OBVIOUS
<1>1. CASE kind # "Succeeded"
  <2>1. q = Stripe!EnsureEvent(p, id, kind)
    BY <1>1 DEF Stripe!EventSnapshot
  <2> HIDE DEF q
  <2> QED  BY <2>1, EnsureEventFacts
<1>2. CASE kind = "Succeeded"
  <2>1. q = Stripe!EnsureEvent(r, id, kind)
    BY <1>2 DEF Stripe!EventSnapshot
  <2>2. Extends(p, r) /\ Len(r.intents) = Len(p.intents)
    BY ConfirmFacts
  <2> HIDE DEF q, r
  <2>3. Provides(r) /\ id \in Known(r)
    BY <2>2, ExtendsFacts DEF Extends
  <2>4. Extends(r, q) /\ q.intents = r.intents /\ Stripe!HasEvent(q, id, kind)
    BY <2>1, <2>3, EnsureEventFacts
  <2>5. Extends(p, q)
    BY <2>2, <2>4 DEF Extends
  <2> QED  BY <2>2, <2>4, <2>5
<1> QED  BY <1>1, <1>2

-----------------------------------------------------------------------------
(* One create, and the calls of a checkout.                                  *)

\* Some objects more, and the events as they were.
Adds(p, q, n) ==
    /\ Provides(q) /\ Len(q.intents) = Len(p.intents) + n
    /\ q.events = p.events
    /\ \A i \in DOMAIN p.intents : q.intents[i] = p.intents[i]

\* The objects one call under a fresh key makes.
Made(o) == IF Commits(o) THEN 1 ELSE 0

\* What the driver's request ends in after a call with this outcome.
StatusAfter(o) ==
    IF o = "CommitThenDelay" THEN "held" ELSE IF o = "Normal" THEN "answered" ELSE "failed"

\* A create under a fresh key does what its outcome says.
LEMMA FreshCreate ==
    ASSUME NEW p, Provides(p), NEW key \in {1, 2}, p.idempotency[key] = NoEntry,
           NEW o \in Outcomes
    PROVE  LET q == Stripe!CreateEffect(p, key, "order", o)
               r == Stripe!CreateResponse(p, key, "order", o)
           IN  /\ Adds(p, q, Made(o))
               /\ ~Stripe!Cached(p, key)
               /\ Stripe!CreateDisposition(p, key, o) = Stripe!DispositionOf(o)
               /\ r.code = 200 <=> o \in {"Normal", "CommitThenClose", "CommitThenDelay"}
               /\ r.code = 200 => r.body[1].id = <<Seed, Len(p.intents) + 1>>
               /\ \A k \in {1, 2} \ {key} : q.idempotency[k] = p.idempotency[k]
               /\ Commits(o) => Stripe!Cached(q, key) /\ q.idempotency[key].response = r
<1> DEFINE q == Stripe!CreateEffect(p, key, "order", o)
           r == Stripe!CreateResponse(p, key, "order", o)
           pi == Stripe!NewIntent(p, "order")
           n == Len(p.intents)
<1> SUFFICES /\ Adds(p, q, Made(o))
             /\ ~Stripe!Cached(p, key)
             /\ Stripe!CreateDisposition(p, key, o) = Stripe!DispositionOf(o)
             /\ r.code = 200 <=> o \in {"Normal", "CommitThenClose", "CommitThenDelay"}
             /\ r.code = 200 => r.body[1].id = <<Seed, Len(p.intents) + 1>>
             /\ \A k \in {1, 2} \ {key} : q.idempotency[k] = p.idempotency[k]
             /\ Commits(o) => Stripe!Cached(q, key) /\ q.idempotency[key].response = r
  OBVIOUS
<1>1. /\ p.seed = Seed /\ p.intents \in Seq(Stripe!PaymentIntents)
      /\ p.events \in Seq(Stripe!Events)
      /\ p.idempotency \in [{1, 2} -> Stripe!Entries \cup {NoEntry}]
      /\ p = [seed |-> p.seed, intents |-> p.intents, events |-> p.events,
              idempotency |-> p.idempotency]
      /\ n \in Nat /\ DOMAIN p.intents = 1 .. n
  BY ProviderShape
<1>2. ~Stripe!Cached(p, key)
  BY DEF Stripe!Cached
<1>3. Stripe!CreateDisposition(p, key, o) = Stripe!DispositionOf(o)
  BY <1>2 DEF Stripe!CreateDisposition
<1>4. Commits(o) <=> o \notin Stripe!PreExecution
  BY DEF Commits, Stripe!PreExecution
<1>5. pi \in Stripe!PaymentIntents /\ pi.id = <<Seed, n + 1>>
  <2>1. <<p.seed, n + 1>> \in Stripe!Ids
    BY <1>1 DEF Stripe!Ids
  <2>2. "RequiresConfirmation" \in Stripe!Statuses
    BY DEF Stripe!Statuses
  <2> QED  BY <1>1, <2>1, <2>2 DEF Stripe!NewIntent, Stripe!PaymentIntents
<1>6. CASE ~Commits(o)
  <2>1. o \in Stripe!PreExecution /\ o \in {"PreExecute429", "PreExecute500"}
    BY <1>4, <1>6 DEF Stripe!PreExecution
  <2>2. q = p
    BY <2>1 DEF Stripe!CreateEffect, Stripe!Executes
  <2>3. r = Stripe!PreExecutionResponse(o)
    BY <1>2, <2>1 DEF Stripe!CreateResponse
  <2>4. r.code # 200
    BY <2>3 DEF Stripe!PreExecutionResponse, Stripe!ErrorResponse
  <2> HIDE DEF q, r
  <2>5. Adds(p, q, Made(o))
    BY <1>1, <1>6, <2>2 DEF Adds, Made
  <2> QED  BY <1>2, <1>3, <1>6, <2>1, <2>2, <2>4, <2>5
<1>7. CASE Commits(o)
  <2> DEFINE x == Stripe!ExecutedResponse(o, pi)
             e == [request |-> "order", intent |-> pi, response |-> x]
             is == Append(p.intents, pi)
             cache == [p.idempotency EXCEPT ![key] = e]
  <2>1. Stripe!Executes(p, key, o)
    BY <1>2, <1>4, <1>7 DEF Stripe!Executes
  <2>2. q = [p EXCEPT !.intents = is, !.idempotency = cache]
    BY <2>1 DEF Stripe!CreateEffect
  <2>3. r = x
    BY <1>2, <1>4, <1>7 DEF Stripe!CreateResponse
  <2>4. x = IF o = "PostExecute500" THEN [code |-> 500, body |-> <<>>]
            ELSE [code |-> 200, body |-> <<pi>>]
    BY DEF Stripe!ExecutedResponse, Stripe!ErrorResponse, Stripe!ObjectResponse
  <2> HIDE DEF pi
  <2>5. /\ x.code = 200 <=> o # "PostExecute500"
        /\ x.code = 200 => x.body[1].id = <<Seed, n + 1>>
    BY <1>5, <2>4
  <2>6. x \in Stripe!Responses
    <3>1. <<pi>> \in Seq(Stripe!PaymentIntents) /\ <<>> \in Seq(Stripe!PaymentIntents)
      BY <1>5
    <3> QED  BY <2>4, <3>1 DEF Stripe!Responses
  <2>7. e.response = x
    OBVIOUS
  <2>8. e \in Stripe!Entries
    BY <1>5, <2>6 DEF Stripe!Entries
  <2> HIDE DEF x, e
  <2>9. /\ cache \in [{1, 2} -> Stripe!Entries \cup {NoEntry}] /\ cache[key] = e
        /\ \A k \in {1, 2} \ {key} : cache[k] = p.idempotency[k]
    BY <1>1, <2>8
  <2>10. /\ is \in Seq(Stripe!PaymentIntents) /\ Len(is) = n + 1
         /\ DOMAIN is = 1 .. n + 1 /\ is[n + 1] = pi
         /\ \A i \in 1 .. n : is[i] = p.intents[i]
    BY <1>1, <1>5
  <2> HIDE DEF cache, is
  <2>11. q = [seed |-> p.seed, intents |-> is, events |-> p.events, idempotency |-> cache]
    BY <1>1, <2>2
  <2> HIDE DEF q, r, n
  <2>12. q.intents = is /\ q.events = p.events /\ q.idempotency = cache
    BY <2>11
  <2>13. q \in Stripe!Providers
    BY <1>1, <2>9, <2>10, <2>11 DEF Stripe!Providers
  <2>14. Numbered(q)
    <3> SUFFICES ASSUME NEW i \in 1 .. n + 1 PROVE is[i].id = <<Seed, i>>
      BY <2>10, <2>12 DEF Numbered
    <3>1. CASE i = n + 1
      BY <1>5, <2>10, <3>1
    <3>2. CASE i # n + 1
      <4>1. i \in 1 .. n
        BY <1>1, <3>2
      <4> QED  BY <1>1, <2>10, <4>1 DEF Provides, Numbered
    <3> QED  BY <3>1, <3>2
  <2>15. Adds(p, q, Made(o))
    BY <1>1, <1>7, <2>10, <2>12, <2>13, <2>14 DEF Adds, Made, Provides, n
  <2>16. Stripe!Cached(q, key) /\ q.idempotency[key].response = r
    <3>1. e # NoEntry
      BY <2>8, NoEntryAssumption
    <3> QED  BY <2>3, <2>7, <2>9, <2>12, <3>1 DEF Stripe!Cached
  <2>17. r.code = 200 <=> o \in {"Normal", "CommitThenClose", "CommitThenDelay"}
    BY <1>7, <2>3, <2>5 DEF Commits, Outcomes
  <2> QED  BY <1>2, <1>3, <2>3, <2>5, <2>9, <2>12, <2>15, <2>16, <2>17 DEF n
<1> QED  BY <1>6, <1>7

\* One more call adds to what the calls before it added.
LEMMA AddsMore ==
    ASSUME NEW p, NEW q, NEW r, NEW i \in Nat, NEW j \in Nat, Provides(p),
           Adds(p, q, i), Adds(q, r, j)
    PROVE  Adds(p, r, i + j)
<1>1. /\ Len(p.intents) \in Nat /\ DOMAIN p.intents = 1 .. Len(p.intents)
      /\ DOMAIN q.intents = 1 .. Len(q.intents)
  BY ProviderShape DEF Adds
<1>2. DOMAIN p.intents \subseteq DOMAIN q.intents
  BY <1>1 DEF Adds
<1>3. Len(r.intents) = Len(p.intents) + (i + j)
  <2> DEFINE a == Len(p.intents)
             b == Len(q.intents)
             c == Len(r.intents)
  <2>1. a \in Nat /\ b = a + i /\ c = b + j
    BY <1>1 DEF Adds
  <2> HIDE DEF a, b, c
  <2>2. c = a + (i + j)
    BY <2>1
  <2> QED  BY <2>2 DEF a, c
<1>4. \A k \in DOMAIN p.intents : r.intents[k] = p.intents[k]
  BY <1>2 DEF Adds
<1> QED  BY <1>3, <1>4 DEF Adds

\* When the request ends its keys are forgotten, and nothing else.
LEMMA KeysForgotten ==
    ASSUME NEW p, Provides(p), Fresh(p), NEW n \in Nat, NEW q, Adds(p, q, n)
    PROVE  LET r == [q EXCEPT !.idempotency = [k \in {1, 2} |-> NoEntry]]
           IN  Extends(p, r) /\ Adds(p, r, n)
<1> DEFINE fresh == [k \in {1, 2} |-> NoEntry]
           r == [q EXCEPT !.idempotency = fresh]
<1> SUFFICES Extends(p, r) /\ Adds(p, r, n)
  OBVIOUS
<1>1. /\ q.seed = Seed /\ q.intents \in Seq(Stripe!PaymentIntents)
      /\ q.events \in Seq(Stripe!Events)
      /\ q = [seed |-> q.seed, intents |-> q.intents, events |-> q.events,
              idempotency |-> q.idempotency]
  BY ProviderShape DEF Adds
<1>2. fresh \in [{1, 2} -> Stripe!Entries \cup {NoEntry}]
  OBVIOUS
<1>3. p.idempotency = fresh
  BY DEF Fresh
<1> HIDE DEF fresh
<1>4. r = [seed |-> q.seed, intents |-> q.intents, events |-> q.events,
           idempotency |-> fresh]
  BY <1>1
<1> HIDE DEF r
<1>5. r.intents = q.intents /\ r.events = q.events /\ r.idempotency = fresh
  BY <1>4
<1>6. r \in Stripe!Providers
  BY <1>1, <1>2, <1>4 DEF Stripe!Providers
<1>7. Provides(r)
  BY <1>5, <1>6 DEF Provides, Adds, Numbered
<1>8. Adds(p, r, n)
  BY <1>5, <1>7 DEF Adds
<1>9. Len(p.intents) \in Nat
  BY ProviderShape
<1> QED  BY <1>3, <1>5, <1>7, <1>8, <1>9 DEF Extends, Adds

\* A fixture after calls: fewer outcomes, and another provider.
Called(f, outcomes, q) == [f EXCEPT !.outcomes = outcomes, !.stripe = q]

\* Two rounds of calls are one.
LEMMA CalledTwice ==
    ASSUME NEW f \in Fixtures, NEW o, NEW q, NEW o2, NEW q2
    PROVE  /\ Called(Called(f, o, q), o2, q2) = Called(f, o2, q2)
           /\ Called(f, o, q).stripe = q /\ Called(f, o, q).outcomes = o
           /\ Called(f, o, q).gates = f.gates
           /\ Called(f, o, q).nextGate = f.nextGate
           /\ Called(f, o, q).command = f.command
           /\ Called(f, o, q).request = f.request
           /\ Called(f, o, q).response = f.response
BY DEF Called, Fixtures

\* The record of a call.
LEMMA CallShape ==
    ASSUME NEW f \in Fixtures, NEW key, NEW planned
    PROVE  LET o == Head(f.outcomes)
               c == CallCreate(f, key, planned)
           IN  /\ c.fixture = Called(f, Tail(f.outcomes),
                                     Stripe!CreateEffect(f.stripe, key, "order", o))
               /\ c.disposition = Stripe!CreateDisposition(f.stripe, key, o)
               /\ c.response = Stripe!CreateResponse(f.stripe, key, "order", o)
               /\ c.diverged <=> \/ o # planned
                                 \/ Stripe!Cached(f.stripe, key) /\ planned # "Normal"
<1> DEFINE o == Head(f.outcomes)
           c == CallCreate(f, key, planned)
<1> SUFFICES /\ c.fixture = Called(f, Tail(f.outcomes),
                                   Stripe!CreateEffect(f.stripe, key, "order", o))
             /\ c.disposition = Stripe!CreateDisposition(f.stripe, key, o)
             /\ c.response = Stripe!CreateResponse(f.stripe, key, "order", o)
             /\ c.diverged <=> \/ o # planned
                               \/ Stripe!Cached(f.stripe, key) /\ planned # "Normal"
  OBVIOUS
<1>1. c.fixture = [f EXCEPT !.outcomes = Tail(@),
                       !.stripe = Stripe!CreateEffect(@, key, "order", o)]
  BY Zenon DEF CallCreate
<1>2. /\ c.disposition = Stripe!CreateDisposition(f.stripe, key, o)
      /\ c.response = Stripe!CreateResponse(f.stripe, key, "order", o)
      /\ c.diverged = (\/ o # planned
                       \/ Stripe!Cached(f.stripe, key) /\ planned # "Normal")
  BY DEF CallCreate
<1>3. c.fixture = Called(f, Tail(f.outcomes),
                         Stripe!CreateEffect(f.stripe, key, "order", o))
  BY <1>1 DEF Called, Fixtures
<1> HIDE DEF c
<1> QED  BY <1>2, <1>3

\* What the driver is told.
LEMMA AnswerShape ==
    ASSUME NEW call
    PROVE  LET a == Answer(call) IN
           /\ a = [fixture |-> call.fixture, diverged |-> a.diverged,
                   status |-> a.status, id |-> a.id]
           /\ a.fixture = call.fixture /\ a.diverged = call.diverged
           /\ a.status = (IF call.disposition = "DelayResponse" THEN "held"
                          ELSE IF call.disposition = "Response" /\ call.response.code = 200
                               THEN "answered" ELSE "failed")
           /\ call.response.code = 200 => a.id = call.response.body[1].id
BY DEF Answer

\* A request whose first call is not cut off makes no other.
LEMMA OneCall ==
    ASSUME NEW f \in Fixtures, Provides(f.stripe), Fresh(f.stripe), f.outcomes # <<>>,
           NEW script, Head(f.outcomes) # "CommitThenClose"
    PROVE  LET o == Head(f.outcomes)
               p == f.stripe
               r == Creates(f, script)
           IN  /\ r.status = StatusAfter(o)
               /\ r.status \in {"answered", "held"} => r.id = <<Seed, Len(p.intents) + 1>>
               /\ r.diverged <=> o # script.first
               /\ \E q : /\ Extends(p, q) /\ Adds(p, q, Made(o))
                         /\ r.fixture = Called(f, Tail(f.outcomes), q)
<1> DEFINE o == Head(f.outcomes)
           p == f.stripe
           r == Creates(f, script)
           c == CallCreate(f, 1, script.first)
           q == Stripe!CreateEffect(p, 1, "order", o)
           s == Stripe!CreateResponse(p, 1, "order", o)
           fresh == [k \in {1, 2} |-> NoEntry]
           z == [q EXCEPT !.idempotency = fresh]
           a == Answer(c)
<1> SUFFICES /\ r.status = StatusAfter(o)
             /\ r.status \in {"answered", "held"} => r.id = <<Seed, Len(p.intents) + 1>>
             /\ r.diverged <=> o # script.first
             /\ Extends(p, z) /\ Adds(p, z, Made(o))
             /\ r.fixture = Called(f, Tail(f.outcomes), z)
  OBVIOUS
<1>1. o \in Outcomes
  BY HeadTailProperties DEF Fixtures
<1>2. p.idempotency[1] = NoEntry
  BY DEF Fresh
<1>3. /\ Adds(p, q, Made(o)) /\ ~Stripe!Cached(p, 1)
      /\ Stripe!CreateDisposition(p, 1, o) = Stripe!DispositionOf(o)
      /\ s.code = 200 <=> o \in {"Normal", "CommitThenClose", "CommitThenDelay"}
      /\ s.code = 200 => s.body[1].id = <<Seed, Len(p.intents) + 1>>
  BY <1>1, <1>2, FreshCreate
<1>4. /\ c.fixture = Called(f, Tail(f.outcomes), q)
      /\ c.disposition = Stripe!DispositionOf(o) /\ c.response = s
      /\ c.diverged <=> o # script.first
  BY <1>3, CallShape
<1>5. Extends(p, z) /\ Adds(p, z, Made(o))
  <2>1. Made(o) \in Nat
    BY DEF Made
  <2> QED  BY <1>3, <2>1, KeysForgotten
<1>6. c.disposition # "CloseConnection"
  BY <1>1, <1>4 DEF Stripe!DispositionOf
<1>7. r = [a EXCEPT !.fixture.stripe.idempotency = fresh]
  BY <1>6 DEF Creates
<1> HIDE DEF c, q, s, p, o, fresh
<1>8. /\ a = [fixture |-> c.fixture, diverged |-> a.diverged, status |-> a.status, id |-> a.id]
      /\ a.fixture = c.fixture /\ a.diverged = c.diverged
      /\ a.status = (IF c.disposition = "DelayResponse" THEN "held"
                     ELSE IF c.disposition = "Response" /\ c.response.code = 200
                          THEN "answered" ELSE "failed")
      /\ c.response.code = 200 => a.id = c.response.body[1].id
  BY AnswerShape
<1> HIDE DEF a, r
<1>9. /\ r.status = a.status /\ r.id = a.id /\ r.diverged = a.diverged
      /\ r.fixture = [c.fixture EXCEPT !.stripe.idempotency = fresh]
  BY <1>7, <1>8
<1>10. r.fixture = Called(f, Tail(f.outcomes), z)
  BY <1>4, <1>9 DEF Called, Fixtures
<1>11. a.status = StatusAfter(o)
  BY <1>1, <1>3, <1>4, <1>8 DEF StatusAfter, Stripe!DispositionOf, Outcomes, o
<1>12. a.status \in {"answered", "held"} => a.id = <<Seed, Len(p.intents) + 1>>
  <2>1. a.status \in {"answered", "held"} => c.response.code = 200
    BY <1>1, <1>3, <1>4, <1>8, <1>11 DEF StatusAfter
  <2> QED  BY <1>3, <1>4, <1>8, <2>1
<1>13. r.diverged <=> o # script.first
  BY <1>4, <1>8, <1>9
<1> QED  BY <1>5, <1>9, <1>10, <1>11, <1>12, <1>13

\* A request cut off after the commit is made again: under a key of its own
\* it is another call, under the same one it is answered as the first was.
LEMMA TwoCalls ==
    ASSUME NEW f \in Fixtures, Provides(f.stripe), Fresh(f.stripe),
           Len(f.outcomes) >= 2, NEW script, Head(f.outcomes) = "CommitThenClose"
    PROVE  LET o == Head(Tail(f.outcomes))
               p == f.stripe
               r == Creates(f, script)
               again == application.retryKey = "faulty_changed_key"
           IN  /\ r.status = (IF again THEN StatusAfter(o) ELSE "answered")
               /\ r.diverged <=> \/ script.first # "CommitThenClose"
                                 \/ o # script.retry
                                 \/ ~again /\ script.retry # "Normal"
               /\ \E q : /\ Extends(p, q)
                         /\ Adds(p, q, 1 + IF again THEN Made(o) ELSE 0)
                         /\ r.status \in {"answered", "held"} => r.id = <<Seed, Len(q.intents)>>
                         /\ r.fixture = Called(f, Tail(Tail(f.outcomes)), q)
<1> DEFINE o == Head(Tail(f.outcomes))
           p == f.stripe
           r == Creates(f, script)
           again == application.retryKey = "faulty_changed_key"
           first == CallCreate(f, 1, script.first)
           key == IF again THEN 2 ELSE 1
           g == first.fixture
           second == CallCreate(g, key, script.retry)
           u == Stripe!CreateEffect(p, 1, "order", "CommitThenClose")
           q == Stripe!CreateEffect(u, key, "order", o)
           s1 == Stripe!CreateResponse(p, 1, "order", "CommitThenClose")
           s2 == Stripe!CreateResponse(u, key, "order", o)
           fresh == [k \in {1, 2} |-> NoEntry]
           z == [q EXCEPT !.idempotency = fresh]
           a == Answer(second)
           n == 1 + IF again THEN Made(o) ELSE 0
<1> SUFFICES /\ r.status = (IF again THEN StatusAfter(o) ELSE "answered")
             /\ r.diverged <=> \/ script.first # "CommitThenClose"
                               \/ o # script.retry
                               \/ ~again /\ script.retry # "Normal"
             /\ Extends(p, z) /\ Adds(p, z, n)
             /\ r.status \in {"answered", "held"} => r.id = <<Seed, Len(z.intents)>>
             /\ r.fixture = Called(f, Tail(Tail(f.outcomes)), z)
  OBVIOUS
<1>1. o \in Outcomes
  <2>1. f.outcomes \in Seq(Outcomes) /\ f.outcomes # <<>>
    BY DEF Fixtures
  <2>2. Tail(f.outcomes) \in Seq(Outcomes) /\ Len(Tail(f.outcomes)) = Len(f.outcomes) - 1
    BY <2>1, HeadTailProperties
  <2>3. Tail(f.outcomes) # <<>>
    <3>1. Len(f.outcomes) \in Nat
      BY <2>1, LenProperties
    <3> DEFINE long == Len(f.outcomes)
               less == Len(Tail(f.outcomes))
    <3>2. long \in Nat /\ long >= 2 /\ less = long - 1
      BY <2>2, <3>1
    <3> HIDE DEF long, less
    <3>4. less # 0
      BY <3>2
    <3>3. \A s : s = <<>> => Len(s) = 0
      OBVIOUS
    <3> QED  BY <3>3, <3>4 DEF less
  <2> QED  BY <2>2, <2>3, HeadTailProperties
<1>2. /\ Adds(p, u, 1) /\ ~Stripe!Cached(p, 1)
      /\ Stripe!CreateDisposition(p, 1, "CommitThenClose") = "CloseConnection"
      /\ s1.code = 200 /\ s1.body[1].id = <<Seed, Len(p.intents) + 1>>
      /\ u.idempotency[2] = NoEntry
      /\ Stripe!Cached(u, 1) /\ u.idempotency[1].response = s1
  <2>1. p.idempotency[1] = NoEntry /\ p.idempotency[2] = NoEntry
    BY DEF Fresh
  <2>2. "CommitThenClose" \in Outcomes /\ Commits("CommitThenClose")
        /\ Made("CommitThenClose") = 1
        /\ Stripe!DispositionOf("CommitThenClose") = "CloseConnection"
    BY DEF Outcomes, Commits, Made, Stripe!DispositionOf
  <2> HIDE DEF p, u, s1
  <2>3. LET x == Stripe!CreateEffect(p, 1, "order", "CommitThenClose")
            y == Stripe!CreateResponse(p, 1, "order", "CommitThenClose")
        IN  /\ Adds(p, x, Made("CommitThenClose"))
            /\ ~Stripe!Cached(p, 1)
            /\ Stripe!CreateDisposition(p, 1, "CommitThenClose")
                  = Stripe!DispositionOf("CommitThenClose")
            /\ y.code = 200 <=> "CommitThenClose" \in {"Normal", "CommitThenClose", "CommitThenDelay"}
            /\ y.code = 200 => y.body[1].id = <<Seed, Len(p.intents) + 1>>
            /\ \A k \in {1, 2} \ {1} : x.idempotency[k] = p.idempotency[k]
            /\ Commits("CommitThenClose") => Stripe!Cached(x, 1) /\ x.idempotency[1].response = y
    BY <2>1, <2>2, FreshCreate DEF p
  <2> QED  BY <2>1, <2>2, <2>3 DEF u, s1
<1>3. /\ g = Called(f, Tail(f.outcomes), u)
      /\ first.disposition = "CloseConnection"
      /\ first.diverged <=> script.first # "CommitThenClose"
  BY <1>2, CallShape
<1>4. g \in Fixtures /\ g.stripe = u /\ g.outcomes = Tail(f.outcomes)
  <2>1. Tail(f.outcomes) \in Seq(Outcomes)
    BY HeadTailProperties DEF Fixtures
  <2>2. u \in Stripe!Providers
    BY <1>2 DEF Adds, Provides
  <2> HIDE DEF u, first
  <2> QED  BY <1>3, <2>1, <2>2 DEF Called, Fixtures
<1> HIDE DEF g, first, u, p, s1
<1>5. /\ second.fixture = Called(g, Tail(g.outcomes), q)
      /\ second.disposition = Stripe!CreateDisposition(u, key, o)
      /\ second.response = s2
      /\ second.diverged <=> \/ o # script.retry
                             \/ Stripe!Cached(u, key) /\ script.retry # "Normal"
  <2> DEFINE h == Head(g.outcomes)
             w == g.stripe
  <2>1. /\ second.fixture = Called(g, Tail(g.outcomes), Stripe!CreateEffect(w, key, "order", h))
        /\ second.disposition = Stripe!CreateDisposition(w, key, h)
        /\ second.response = Stripe!CreateResponse(w, key, "order", h)
        /\ second.diverged <=> \/ h # script.retry
                               \/ Stripe!Cached(w, key) /\ script.retry # "Normal"
    BY <1>4, CallShape, ZenonT(30)
  <2>2. h = o /\ w = u
    BY <1>4
  <2> HIDE DEF h, w, o, second, key
  <2> QED  BY <2>1, <2>2
<1>6. r = [[a EXCEPT !.diverged = @ \/ first.diverged]
              EXCEPT !.fixture.stripe.idempotency = fresh]
  BY <1>3, Zenon DEF Creates, first, g
<1> HIDE DEF q, s2, fresh, a, r, second, o
<1>7. Provides(u) /\ Len(u.intents) = Len(p.intents) + 1
  BY <1>2 DEF Adds
<1>8. /\ Adds(p, q, n)
      /\ a.status = (IF again THEN StatusAfter(o) ELSE "answered")
      /\ a.status \in {"answered", "held"} => a.id = <<Seed, Len(q.intents)>>
      /\ second.diverged <=> o # script.retry \/ (~again /\ script.retry # "Normal")
  <2>1. /\ a.status = (IF second.disposition = "DelayResponse" THEN "held"
                       ELSE IF second.disposition = "Response" /\ second.response.code = 200
                            THEN "answered" ELSE "failed")
        /\ second.response.code = 200 => a.id = second.response.body[1].id
    BY AnswerShape DEF a
  <2>2. CASE again
    <3>1. /\ Adds(u, q, Made(o)) /\ ~Stripe!Cached(u, 2)
          /\ Stripe!CreateDisposition(u, 2, o) = Stripe!DispositionOf(o)
          /\ s2.code = 200 <=> o \in {"Normal", "CommitThenClose", "CommitThenDelay"}
          /\ s2.code = 200 => s2.body[1].id = <<Seed, Len(u.intents) + 1>>
      BY <1>1, <1>2, <1>7, <2>2, FreshCreate DEF q, s2
    <3>2. Made(o) \in Nat /\ (o \in {"Normal", "CommitThenDelay"} => Made(o) = 1)
      BY DEF Made, Commits
    <3>3. Adds(p, q, 1 + Made(o))
      BY <1>2, <3>1, <3>2, AddsMore DEF p
    <3>4. a.status = StatusAfter(o)
      BY <1>1, <1>5, <2>1, <2>2, <3>1 DEF StatusAfter, Stripe!DispositionOf, Outcomes
    <3>5. ASSUME a.status \in {"answered", "held"} PROVE a.id = <<Seed, Len(q.intents)>>
      <4>1. o \in {"Normal", "CommitThenDelay"}
        BY <1>1, <3>4, <3>5 DEF StatusAfter
      <4>2. Len(q.intents) = Len(u.intents) + 1
        BY <3>1, <3>2, <4>1 DEF Adds
      <4> QED  BY <1>5, <2>1, <3>1, <4>1, <4>2
    <3> QED  BY <1>5, <2>2, <3>1, <3>3, <3>4, <3>5
  <2>3. CASE ~again
    <3>1. q = u
      BY <1>2, <2>3 DEF q, Stripe!CreateEffect, Stripe!Executes
    <3>2. s2 = s1 /\ Stripe!CreateDisposition(u, 1, o) = "Response"
      BY <1>2, <2>3 DEF s2, Stripe!CreateResponse, Stripe!CreateDisposition
    <3>3. Adds(p, q, 1)
      BY <1>2, <3>1
    <3> QED  BY <1>2, <1>5, <1>7, <2>1, <2>3, <3>1, <3>2, <3>3
  <2> QED  BY <2>2, <2>3
<1>9. Extends(p, z) /\ Adds(p, z, n)
  <2>1. n \in Nat
    BY DEF Made
  <2> HIDE DEF n
  <2> QED  BY <1>8, <2>1, KeysForgotten DEF p, fresh
<1>10. /\ a = [fixture |-> second.fixture, diverged |-> a.diverged, status |-> a.status, id |-> a.id]
       /\ a.diverged = second.diverged
  BY AnswerShape DEF a
<1> HIDE DEF again, n
<1>11. /\ r.status = a.status /\ r.id = a.id
       /\ r.diverged = (second.diverged \/ first.diverged)
       /\ r.fixture = [second.fixture EXCEPT !.stripe.idempotency = fresh]
  BY <1>6, <1>10
<1>12. r.fixture = Called(f, Tail(Tail(f.outcomes)), z)
  <2>1. second.fixture = Called(f, Tail(Tail(f.outcomes)), q)
    BY <1>3, <1>4, <1>5, CalledTwice
  <2> QED  BY <1>11, <2>1 DEF Called, Fixtures
<1>13. Len(z.intents) = Len(q.intents)
  <2>1. z.intents = q.intents
    BY <1>8, ProviderShape DEF Adds
  <2> QED  BY <2>1
<1> HIDE DEF z
<1> QED  BY <1>3, <1>8, <1>9, <1>11, <1>12, <1>13 DEF again, n

\* Two sequences of one element.
LEMMA OneAndOne ==
    ASSUME NEW S, NEW a \in S, NEW b \in S
    PROVE  <<a>> \o <<b>> = <<a, b>>
<1>1. <<a>> \in Seq(S) /\ <<b>> \in Seq(S) /\ <<a, b>> \in Seq(S)
      /\ Len(<<a>>) = 1 /\ Len(<<b>>) = 1 /\ Len(<<a, b>>) = 2
  OBVIOUS
<1> DEFINE s == <<a>>
           t == <<b>>
           u == <<a, b>>
<1>2. s[1] = a /\ t[1] = b /\ u[1] = a /\ u[2] = b
  OBVIOUS
<1> HIDE DEF s, t, u
<1>3. /\ s \o t \in Seq(S) /\ Len(s \o t) = 2
      /\ \A i \in 1 .. 2 : (s \o t)[i] = IF i <= 1 THEN s[i] ELSE t[i - 1]
  <2>1. /\ s \o t \in Seq(S) /\ Len(s \o t) = Len(s) + Len(t)
        /\ \A i \in 1 .. Len(s) + Len(t) : (s \o t)[i] = IF i <= Len(s) THEN s[i] ELSE t[i - Len(s)]
    BY <1>1, ConcatProperties DEF s, t
  <2>2. Len(s) = 1 /\ Len(t) = 1
    BY <1>1 DEF s, t
  <2> QED  BY <2>1, <2>2
<1>4. (s \o t)[1] = u[1] /\ (s \o t)[2] = u[2]
  BY <1>2, <1>3
<1>5. ASSUME NEW i \in 1 .. 2 PROVE (s \o t)[i] = u[i]
  <2>1. i = 1 \/ i = 2
    OBVIOUS
  <2> QED  BY <1>4, <2>1
<1>6. u \in Seq(S) /\ Len(u) = 2
  BY <1>1 DEF u
<1>7. s \o t = u
  BY <1>3, <1>5, <1>6, SeqEqual
<1> QED  BY <1>7 DEF s, t, u

\* The first of a sequence.
LEMMA FirstFacts ==
    ASSUME NEW S, NEW s \in Seq(S), NEW t \in Seq(S), s # <<>>
    PROVE  Head(s) = s[1] /\ (s \o t)[1] = s[1] /\ s \o t # <<>>
<1>1. Len(s) \in Nat \ {0} /\ Len(t) \in Nat
  BY EmptySeq, LenProperties
<1>2. SubSeq(s, 1, Len(s)) = s
  BY SubSeqFull
<1>3. Head(s) = s[1]
  BY <1>1, <1>2, HeadTailOfSubSeq
<1>4. (s \o t)[1] = s[1]
  BY <1>1, ConcatProperties
<1> QED  BY <1>3, <1>4, ConcatEqualIffEmpty

\* The outcomes of an action lie behind those that recovered requests left.
LEMMA PlannedShape ==
    ASSUME NEW f \in Fixtures, f.outcomes \in Seq({"Normal"}),
           NEW script, script.first \in Outcomes, script.retry \in Outcomes \cup {NoRetry}
    PROVE  LET g == Planned(f, script)
               os == g.outcomes
               L == f.outcomes
           IN  /\ g \in Fixtures /\ g.stripe = f.stripe
               /\ \A o, q : Called(g, o, q) = Called(f, o, q)
               /\ g = Called(f, os, f.stripe)
               /\ os \in Seq(Outcomes) /\ os # <<>>
               /\ Len(os) = Len(L) + CallCount(script)
               /\ L = <<>> => /\ Head(os) = script.first
                              /\ script.retry = NoRetry => Tail(os) = <<>>
                              /\ script.retry # NoRetry => /\ Head(Tail(os)) = script.retry
                                                           /\ Tail(Tail(os)) = <<>>
               /\ L # <<>> => Head(os) = "Normal"
               /\ Tail(os) \in Seq(Outcomes) /\ Len(Tail(os)) = Len(os) - 1
               /\ script = Single("Normal") => /\ os \in Seq({"Normal"})
                                               /\ Tail(os) \in Seq({"Normal"})
<1> DEFINE g == Planned(f, script)
           L == f.outcomes
           second == IF script.retry = NoRetry THEN <<>> ELSE <<script.retry>>
           os == Append(L, script.first) \o second
<1> SUFFICES /\ g \in Fixtures /\ g.stripe = f.stripe /\ g.outcomes = os
             /\ \A o, q : Called(g, o, q) = Called(f, o, q)
             /\ g = Called(f, os, f.stripe)
             /\ os \in Seq(Outcomes) /\ os # <<>>
             /\ Len(os) = Len(L) + CallCount(script)
             /\ L = <<>> => /\ Head(os) = script.first
                            /\ script.retry = NoRetry => Tail(os) = <<>>
                            /\ script.retry # NoRetry => /\ Head(Tail(os)) = script.retry
                                                         /\ Tail(Tail(os)) = <<>>
             /\ L # <<>> => Head(os) = "Normal"
             /\ Tail(os) \in Seq(Outcomes) /\ Len(Tail(os)) = Len(os) - 1
             /\ script = Single("Normal") => /\ os \in Seq({"Normal"})
                                             /\ Tail(os) \in Seq({"Normal"})
  BY Zenon
<1>1. L \in Seq(Outcomes) /\ L \in Seq({"Normal"})
  BY DEF Fixtures
<1>2. g = [f EXCEPT !.outcomes = os]
  BY DEF Planned
<1>3. Append(L, script.first) \in Seq(Outcomes) /\ second \in Seq(Outcomes)
  BY <1>1
<1>4. os \in Seq(Outcomes)
  BY <1>3, ConcatProperties
<1>5. /\ Len(os) = Len(L) + CallCount(script) /\ os # <<>>
  <2> DEFINE x == Append(L, script.first)
             a == Len(L)
  <2>1. Len(x) = a + 1 /\ a \in Nat
    BY <1>1
  <2>2. Len(second) = CallCount(script) - 1 /\ CallCount(script) \in {1, 2}
    BY DEF CallCount
  <2>3. Len(os) = Len(x) + Len(second)
    BY <1>3, ConcatProperties
  <2> HIDE DEF x, second, a
  <2>4. Len(os) = a + CallCount(script) /\ Len(os) # 0
    BY <2>1, <2>2, <2>3
  <2> QED  BY <2>4 DEF a
<1>6. L = <<>> => os = <<script.first>> \o second
  OBVIOUS
<1>7. L = <<>> => /\ Head(os) = script.first
                  /\ script.retry = NoRetry => Tail(os) = <<>>
                  /\ script.retry # NoRetry => /\ Head(Tail(os)) = script.retry
                                               /\ Tail(Tail(os)) = <<>>
  <2>1. CASE script.retry = NoRetry
    <3>1. L = <<>> => os = <<script.first>>
      BY <1>6, <2>1
    <3> QED  BY <2>1, <3>1
  <2>2. CASE script.retry # NoRetry
    <3>1. L = <<>> => os = <<script.first, script.retry>>
      <4>1. second = <<script.retry>>
        BY <2>2
      <4>2. <<script.first>> \o <<script.retry>> = <<script.first, script.retry>>
        BY <2>2, OneAndOne
      <4> HIDE DEF second, os
      <4> QED  BY <1>6, <4>1, <4>2
    <3>2. Head(<<script.first, script.retry>>) = script.first
          /\ Tail(<<script.first, script.retry>>) = <<script.retry>>
          /\ Head(<<script.retry>>) = script.retry /\ Tail(<<script.retry>>) = <<>>
      OBVIOUS
    <3> HIDE DEF os
    <3> QED  BY <2>2, <3>1, <3>2
  <2> QED  BY <2>1, <2>2
<1>8. L # <<>> => Head(os) = "Normal"
  <2> SUFFICES ASSUME L # <<>> PROVE Head(os) = "Normal"
    OBVIOUS
  <2> DEFINE x == Append(L, script.first)
  <2>1. Len(L) \in Nat \ {0} /\ L[1] = "Normal"
    BY <1>1
  <2>2. x[1] = L[1] /\ Len(x) = Len(L) + 1
    BY <1>1, <2>1
  <2>3. x \in Seq(Outcomes) /\ x # <<>>
    BY <1>3, <2>1, <2>2
  <2> HIDE DEF x, second
  <2>4. (x \o second)[1] = x[1] /\ x \o second # <<>>
    BY <1>3, <2>3, FirstFacts
  <2>5. os = x \o second
    BY DEF x
  <2> HIDE DEF os
  <2>6. Head(os) = os[1]
    BY <1>4, <1>5, FirstFacts
  <2> QED  BY <2>1, <2>2, <2>4, <2>5, <2>6
<1>9. Tail(os) \in Seq(Outcomes) /\ Len(Tail(os)) = Len(os) - 1
  BY <1>4, <1>5, HeadTailProperties
<1>10. script = Single("Normal") => /\ os \in Seq({"Normal"})
                                    /\ Tail(os) \in Seq({"Normal"})
  <2> SUFFICES ASSUME script = Single("Normal")
               PROVE  os \in Seq({"Normal"}) /\ Tail(os) \in Seq({"Normal"})
    OBVIOUS
  <2>1. script.first = "Normal" /\ script.retry = NoRetry
    BY DEF Single
  <2>2. Append(L, script.first) \in Seq({"Normal"}) /\ second \in Seq({"Normal"})
    BY <1>1, <2>1
  <2>3. os \in Seq({"Normal"})
    BY <2>2, ConcatProperties
  <2> HIDE DEF os
  <2> QED  BY <1>5, <2>3, HeadTailProperties
<1> HIDE DEF os, L
<1>11. /\ g \in Fixtures /\ g.stripe = f.stripe /\ g.outcomes = os
       /\ \A o, q : Called(g, o, q) = Called(f, o, q)
       /\ g = Called(f, os, f.stripe)
  BY <1>2, <1>4 DEF Called, Fixtures
<1> QED  BY <1>4, <1>5, <1>7, <1>8, <1>9, <1>10, <1>11

\* What a checkout comes to: an object found again, the calls as they are
\* planned, or one that takes an outcome a recovered request left behind.
FindsAgain(f, script, r, q, rest) ==
    /\ application.caller # "faulty_per_request" /\ f.stripe.intents # <<>>
    /\ q = f.stripe /\ Len(rest) = Len(f.outcomes) + CallCount(script)
    /\ script = Single("Normal") => rest \in Seq({"Normal"})
    /\ r.status \in {"answered", "failed"}
    /\ r.status = "answered" => /\ r.id \in Known(f.stripe)
                                /\ StatusOf(f.stripe, r.id) = "RequiresConfirmation"
    /\ ~r.diverged => r.status = "answered" /\ script = Single("Normal")

\* The request makes its own calls: the installed outcomes are all taken.
CallsAsPlanned(f, script, r, q, rest) ==
    /\ f.outcomes = <<>> /\ rest = <<>>
    /\ r.status \in {"answered", "held", "failed"}
    /\ \E n \in 0 .. 2 :
          /\ Adds(f.stripe, q, n)
          /\ r.status \in {"answered", "held"} => n >= 1 /\ r.id = <<Seed, Len(q.intents)>>
          /\ r.status = "held" => n = CommittedCount(script)
          /\ ~r.diverged => /\ r.status = StatusAfter(TerminalOutcome(script))
                            /\ \/ n = CommittedCount(script)
                               \/ /\ n = 1 /\ CommittedCount(script) = 2
                                  /\ script.first = "CommitThenClose"
          /\ Faulty => ~r.diverged /\ n = CommittedCount(script)

\* The request takes the outcomes a recovered one left before its own.
TakesWhatIsLeft(f, script, r, q, rest) ==
    /\ f.outcomes # <<>> /\ Len(rest) = Len(f.outcomes) + CallCount(script) - 1
    /\ Adds(f.stripe, q, 1)
    /\ r.status = "answered" /\ r.id = <<Seed, Len(q.intents)>>
    /\ script = Single("Normal") => rest \in Seq({"Normal"})
    /\ ~r.diverged => script = Single("Normal")

\* A request finds an object it owns, makes its calls or takes what is left.
LEMMA CheckoutFacts ==
    ASSUME NEW f \in Fixtures, Provides(f.stripe), Fresh(f.stripe),
           f.outcomes \in Seq({"Normal"}), NEW script, IsScript(script)
    PROVE  LET r == Checkout(Planned(f, script), script) IN
           \E q, rest :
              /\ r.fixture = Called(f, rest, q) /\ Extends(f.stripe, q)
              /\ rest \in Seq(Outcomes)
              /\ \/ FindsAgain(f, script, r, q, rest)
                 \/ CallsAsPlanned(f, script, r, q, rest)
                 \/ TakesWhatIsLeft(f, script, r, q, rest)
<1> DEFINE g == Planned(f, script)
           os == g.outcomes
           p == f.stripe
           r == Checkout(g, script)
           Result(q, rest) == /\ r.fixture = Called(f, rest, q) /\ Extends(p, q)
                              /\ rest \in Seq(Outcomes)
                              /\ \/ FindsAgain(f, script, r, q, rest)
                                 \/ CallsAsPlanned(f, script, r, q, rest)
                                 \/ TakesWhatIsLeft(f, script, r, q, rest)
<1> SUFFICES \E q, rest : Result(q, rest)
  BY Zenon
<1>1. /\ script.first \in Outcomes /\ script.retry \in Outcomes \cup {NoRetry}
      /\ script.retry # NoRetry => script.first = "CommitThenClose"
      /\ script.retry = NoRetry => /\ script.first # "CommitThenClose"
                                   /\ script = Single(script.first)
  <2>1. CASE \E o \in Outcomes \ {"CommitThenClose"} : script = Single(o)
    BY <2>1, NoRetryAssumption DEF Single
  <2>2. CASE script \in [first: {"CommitThenClose"}, retry: Outcomes]
    BY <2>2, NoRetryAssumption DEF Outcomes
  <2> QED  BY <2>1, <2>2 DEF IsScript
<1>2. /\ g \in Fixtures /\ g.stripe = p
      /\ \A o, q : Called(g, o, q) = Called(f, o, q)
      /\ g = Called(f, os, p)
      /\ os \in Seq(Outcomes) /\ os # <<>>
      /\ Len(os) = Len(f.outcomes) + CallCount(script)
      /\ f.outcomes = <<>> =>
            /\ Head(os) = script.first
            /\ script.retry = NoRetry => Tail(os) = <<>>
            /\ script.retry # NoRetry => Head(Tail(os)) = script.retry /\ Tail(Tail(os)) = <<>>
      /\ f.outcomes # <<>> => Head(os) = "Normal"
      /\ Tail(os) \in Seq(Outcomes) /\ Len(Tail(os)) = Len(os) - 1
      /\ script = Single("Normal") => os \in Seq({"Normal"}) /\ Tail(os) \in Seq({"Normal"})
  BY <1>1, PlannedShape
<1> HIDE DEF g, os
<1>3. CASE ~(application.caller = "faulty_per_request" \/ p.intents = <<>>)
  <2> DEFINE found == p.intents
             ok == Len(found) = 1 /\ found[1].status = "RequiresConfirmation"
  <2>1. r = [fixture |-> g, diverged |-> ~ok \/ script # Single("Normal"),
             status |-> IF ok THEN "answered" ELSE "failed",
             id |-> IF ok THEN found[1].id ELSE NoValue]
    BY <1>2, <1>3, Zenon DEF Checkout
  <2>2. ok => found[1].id \in Known(p) /\ StatusOf(p, found[1].id) = "RequiresConfirmation"
    <3> SUFFICES ASSUME ok
                 PROVE  found[1].id \in Known(p) /\ StatusOf(p, found[1].id) = "RequiresConfirmation"
      OBVIOUS
    <3>1. 1 \in DOMAIN p.intents
      BY ProviderShape
    <3>2. found[1].id \in Known(p)
      BY <3>1 DEF Known
    <3>3. Stripe!PositionOf(p, found[1].id) = 1
      BY <3>1, <3>2, PositionFacts
    <3> QED  BY <3>2, <3>3 DEF StatusOf
  <2> HIDE DEF ok, r
  <2>3. /\ r.fixture = g
        /\ r.status = (IF ok THEN "answered" ELSE "failed")
        /\ ok => r.id = found[1].id
        /\ r.diverged = (~ok \/ script # Single("Normal"))
    BY <2>1
  <2>4. FindsAgain(f, script, r, p, os)
    BY <1>2, <1>3, <2>2, <2>3 DEF FindsAgain
  <2>5. Extends(p, p)
    <3>1. Len(p.intents) \in Nat
      BY ProviderShape
    <3> QED  BY <3>1 DEF Extends
  <2>6. Result(p, os)
    BY <1>2, <2>3, <2>4, <2>5
  <2> QED  BY <2>6
<1>4. CASE application.caller = "faulty_per_request" \/ p.intents = <<>>
  <2>1. r = Creates(g, script)
    BY <1>2, <1>4 DEF Checkout
  <2> DEFINE o == Head(os)
  <2>2. CASE o # "CommitThenClose"
    <3>1. /\ r.status = StatusAfter(o)
          /\ r.status \in {"answered", "held"} => r.id = <<Seed, Len(p.intents) + 1>>
          /\ r.diverged <=> o # script.first
          /\ \E q : /\ Extends(p, q) /\ Adds(p, q, Made(o))
                    /\ r.fixture = Called(g, Tail(os), q)
      <4> HIDE DEF r
      <4> QED  BY <1>2, <2>1, <2>2, OneCall DEF os
    <3>2. PICK q : /\ Extends(p, q) /\ Adds(p, q, Made(o))
                   /\ r.fixture = Called(f, Tail(os), q)
      BY <1>2, <3>1
    <3> HIDE DEF r, o
    <3>3. o \in Outcomes
      BY <1>2, HeadTailProperties DEF o
    <3>4. r.status \in {"answered", "held"} => Made(o) = 1 /\ r.id = <<Seed, Len(q.intents)>>
      <4>1. r.status \in {"answered", "held"} => o \in {"Normal", "CommitThenDelay"}
        BY <3>1, <3>3 DEF StatusAfter
      <4>2. o \in {"Normal", "CommitThenDelay"} => Made(o) = 1
        BY DEF Made, Commits
      <4> QED  BY <3>1, <3>2, <4>1, <4>2 DEF Adds
    <3>5. CASE f.outcomes = <<>>
      <4>1. o = script.first /\ script.retry = NoRetry /\ Tail(os) = <<>>
        BY <1>1, <1>2, <2>2, <3>5 DEF o
      <4>2. CommittedCount(script) = Made(o) /\ TerminalOutcome(script) = o
        BY <4>1 DEF CommittedCount, TerminalOutcome, Made
      <4>3. Made(o) \in 0 .. 2 /\ r.status \in {"answered", "held", "failed"}
        BY <3>1 DEF Made, StatusAfter
      <4>4. CallsAsPlanned(f, script, r, q, Tail(os))
        <5> DEFINE n == Made(o)
        <5>1. n \in 0 .. 2 /\ Adds(f.stripe, q, n) /\ n = CommittedCount(script)
              /\ (r.status \in {"answered", "held"} => n >= 1 /\ r.id = <<Seed, Len(q.intents)>>)
              /\ ~r.diverged /\ r.status = StatusAfter(TerminalOutcome(script))
          BY <3>1, <3>2, <3>4, <4>1, <4>2, <4>3
        <5> HIDE DEF n, p
        <5> QED  BY <3>5, <4>1, <4>3, <5>1 DEF CallsAsPlanned
      <4> QED  BY <1>2, <3>2, <4>4
    <3>6. CASE f.outcomes # <<>>
      <4>1. o = "Normal"
        BY <1>2, <3>6 DEF o
      <4>2. Made(o) = 1 /\ r.status = "answered"
        BY <3>1, <4>1 DEF Made, Commits, StatusAfter
      <4>3. ~r.diverged => script = Single("Normal")
        BY <1>1, <3>1, <4>1
      <4>4. Len(Tail(os)) = Len(f.outcomes) + CallCount(script) - 1
        <5> DEFINE a == Len(f.outcomes)
                   b == CallCount(script)
                   c == Len(os)
                   d == Len(Tail(os))
        <5>1. a \in Nat /\ b \in Nat /\ c = a + b /\ d = c - 1
          BY <1>2 DEF CallCount, Fixtures
        <5> HIDE DEF a, b, c, d
        <5>2. d = a + b - 1
          BY <5>1
        <5> QED  BY <5>2 DEF a, b, d
      <4>5. TakesWhatIsLeft(f, script, r, q, Tail(os))
        BY <1>2, <3>2, <3>4, <3>6, <4>2, <4>3, <4>4 DEF TakesWhatIsLeft
      <4> QED  BY <1>2, <3>2, <4>5
    <3> QED  BY <3>5, <3>6
  <2>3. CASE o = "CommitThenClose"
    <3>1. f.outcomes = <<>> /\ script.first = "CommitThenClose" /\ script.retry \in Outcomes
          /\ script.retry # NoRetry
      BY <1>1, <1>2, <2>3
    <3> DEFINE again == application.retryKey = "faulty_changed_key"
               t == script.retry
               n == 1 + IF again THEN Made(t) ELSE 0
    <3>2. Head(Tail(os)) = t /\ Tail(Tail(os)) = <<>> /\ Len(os) >= 2
      <4>1. Len(f.outcomes) = 0 /\ CallCount(script) = 2
        BY <3>1 DEF CallCount
      <4> QED  BY <1>2, <3>1, <4>1, SMTT(30)
    <3>3. /\ r.status = (IF again THEN StatusAfter(t) ELSE "answered")
          /\ r.diverged <=> ~again /\ t # "Normal"
          /\ \E q : /\ Extends(p, q) /\ Adds(p, q, n)
                    /\ r.status \in {"answered", "held"} => r.id = <<Seed, Len(q.intents)>>
                    /\ r.fixture = Called(g, <<>>, q)
      <4> DEFINE h == Head(Tail(os))
      <4>1. LET w == Creates(g, script) IN
            /\ w.status = (IF again THEN StatusAfter(h) ELSE "answered")
            /\ w.diverged <=> \/ script.first # "CommitThenClose"
                              \/ h # script.retry
                              \/ ~again /\ script.retry # "Normal"
            /\ \E q : /\ Extends(p, q)
                      /\ Adds(p, q, 1 + IF again THEN Made(h) ELSE 0)
                      /\ w.status \in {"answered", "held"} => w.id = <<Seed, Len(q.intents)>>
                      /\ w.fixture = Called(g, Tail(Tail(os)), q)
        BY <1>2, <2>3, <3>2, TwoCalls, ZenonT(30) DEF os
      <4>2. h = t
        BY <3>2
      <4> HIDE DEF r, h, again, t
      <4> QED  BY <2>1, <3>1, <3>2, <4>1, <4>2 DEF t
    <3>4. PICK q : /\ Extends(p, q) /\ Adds(p, q, n)
                   /\ r.status \in {"answered", "held"} => r.id = <<Seed, Len(q.intents)>>
                   /\ r.fixture = Called(f, <<>>, q)
      BY <1>2, <3>3
    <3>5. CommittedCount(script) = 1 + Made(t) /\ TerminalOutcome(script) = t
      BY <3>1 DEF CommittedCount, TerminalOutcome, Made, Commits
    <3>6. Made(t) \in {0, 1} /\ n \in 0 .. 2 /\ n >= 1
      BY DEF Made
    <3>7. StatusAfter(t) \in {"answered", "held", "failed"}
          /\ StatusAfter("Normal") = "answered"
          /\ Made("Normal") = 1
      BY DEF StatusAfter, Made, Commits
    <3>8. Faulty => again
      BY DEF Faulty
    <3> HIDE DEF r, again, t
    <3>9. CallsAsPlanned(f, script, r, q, <<>>)
      <4>1. CASE again
        <5>1. n = CommittedCount(script) /\ ~r.diverged /\ r.status = StatusAfter(t)
          BY <3>3, <3>5, <3>6, <4>1
        <5> HIDE DEF n, p
        <5> QED  BY <3>1, <3>4, <3>5, <3>6, <3>7, <5>1 DEF CallsAsPlanned, p
      <4>2. CASE ~again
        <5>1. n = 1 /\ r.status = "answered" /\ (~r.diverged => t = "Normal") /\ ~Faulty
          BY <3>3, <3>8, <4>2
        <5>2. ~r.diverged => /\ r.status = StatusAfter(TerminalOutcome(script))
                             /\ CommittedCount(script) = 2
          BY <3>5, <3>7, <5>1
        <5> HIDE DEF n, p
        <5> QED  BY <3>1, <3>4, <3>6, <5>1, <5>2 DEF CallsAsPlanned, p
      <4> QED  BY <4>1, <4>2
    <3>10. <<>> \in Seq(Outcomes)
      OBVIOUS
    <3> QED  BY <3>4, <3>9, <3>10
  <2> QED  BY <2>2, <2>3
<1> QED  BY <1>3, <1>4

-----------------------------------------------------------------------------
(* The outputs of an action and what is captured for them.                   *)

\* A request declares an object for each create that commits.
LEMMA ObjectFacts ==
    ASSUME NEW n \in Nat, NEW script, IsScript(script)
    PROVE  LET objects == ObjectOutputs(n, script) count == CommittedCount(script) IN
           /\ objects \in Seq(Refs) /\ Len(objects) = count /\ count \in 0 .. 2
           /\ \A i \in 1 .. count : objects[i] = Ref(n, "PaymentIntentId", i - 1)
           /\ TerminalOutcome(script) = "CommitThenDelay" => count >= 1
           /\ script.first \in Outcomes /\ script.retry \in Outcomes \cup {NoRetry}
<1> DEFINE objects == ObjectOutputs(n, script)
           count == CommittedCount(script)
           r0 == Ref(n, "PaymentIntentId", 0)
           r1 == Ref(n, "PaymentIntentId", 1)
           Of(outcome, ref) == IF outcome # NoRetry /\ CreateCommits(outcome)
                               THEN <<ref>> ELSE <<>>
<1> SUFFICES /\ objects \in Seq(Refs) /\ Len(objects) = count /\ count \in 0 .. 2
             /\ \A i \in 1 .. count : objects[i] = Ref(n, "PaymentIntentId", i - 1)
             /\ TerminalOutcome(script) = "CommitThenDelay" => count >= 1
             /\ script.first \in Outcomes /\ script.retry \in Outcomes \cup {NoRetry}
  OBVIOUS
<1>1. r0 \in Refs /\ r1 \in Refs
  BY DEF Ref, Refs
<1>2. objects = Of(script.first, r0) \o Of(script.retry, r1)
  BY Zenon DEF ObjectOutputs
<1>3. r0 = Ref(n, "PaymentIntentId", 1 - 1) /\ r1 = Ref(n, "PaymentIntentId", 2 - 1)
  OBVIOUS
<1> HIDE DEF r0, r1, objects
<1>4. CASE \E o \in Outcomes \ {"CommitThenClose"} : script = Single(o)
  <2>1. /\ script.first \in Outcomes \ {"CommitThenClose"} /\ script.retry = NoRetry
        /\ TerminalOutcome(script) = script.first
    BY <1>4 DEF Single, TerminalOutcome
  <2>2. Of(script.retry, r1) = <<>>
    BY <2>1
  <2>3. CASE Commits(script.first)
    <3>1. Of(script.first, r0) = <<r0>> /\ count = 1
      BY <2>1, <2>3, NoRetryAssumption DEF CreateCommits, Commits, CommittedCount
    <3>2. objects = <<r0>>
      <4>1. <<r0>> \in Seq(Refs)
        BY <1>1
      <4> HIDE DEF Of
      <4> QED  BY <1>2, <2>2, <3>1, <4>1, ConcatEmptySeq
    <3> QED  BY <1>1, <1>3, <2>1, <3>1, <3>2
  <2>4. CASE ~Commits(script.first)
    <3>1. Of(script.first, r0) = <<>> /\ count = 0
      BY <2>1, <2>4, NoRetryAssumption DEF CreateCommits, Commits, CommittedCount
    <3>2. objects = <<>>
      BY <1>2, <2>2, <3>1, ConcatEmptySeq
    <3> QED  BY <2>1, <2>4, <3>1, <3>2 DEF Commits
  <2> QED  BY <2>3, <2>4
<1>5. CASE script \in [first: {"CommitThenClose"}, retry: Outcomes]
  <2>1. /\ script.first = "CommitThenClose" /\ script.retry \in Outcomes
        /\ script.retry # NoRetry /\ "CommitThenClose" # NoRetry
        /\ TerminalOutcome(script) = script.retry
        /\ script.first \in Outcomes
    BY <1>5, NoRetryAssumption DEF TerminalOutcome, Outcomes
  <2>2. Of(script.first, r0) = <<r0>>
    BY <2>1 DEF CreateCommits
  <2>3. CASE Commits(script.retry)
    <3>1. Of(script.retry, r1) = <<r1>> /\ count = 2
      BY <2>1, <2>3 DEF CreateCommits, Commits, CommittedCount
    <3>2. objects = <<r0, r1>>
      <4> HIDE DEF Of
      <4>1. <<r0>> \o <<r1>> = <<r0, r1>>
        BY <1>1, OneAndOne
      <4> QED  BY <1>2, <2>2, <3>1, <4>1
    <3>3. /\ <<r0, r1>> \in Seq(Refs) /\ Len(<<r0, r1>>) = 2
          /\ <<r0, r1>>[1] = r0 /\ <<r0, r1>>[2] = r1
      BY <1>1
    <3>4. ASSUME NEW i \in 1 .. 2 PROVE objects[i] = Ref(n, "PaymentIntentId", i - 1)
      <4>1. CASE i = 1
        BY <1>3, <3>2, <3>3, <4>1
      <4>2. CASE i = 2
        BY <1>3, <3>2, <3>3, <4>2
      <4> QED  BY <4>1, <4>2
    <3> QED  BY <2>1, <3>1, <3>2, <3>3, <3>4
  <2>4. CASE ~Commits(script.retry)
    <3>1. Of(script.retry, r1) = <<>> /\ count = 1
      BY <2>1, <2>4 DEF CreateCommits, Commits, CommittedCount
    <3>2. objects = <<r0>>
      <4>1. <<r0>> \in Seq(Refs)
        BY <1>1
      <4> HIDE DEF Of
      <4> QED  BY <1>2, <2>2, <3>1, <4>1, ConcatEmptySeq
    <3> QED  BY <1>1, <1>3, <2>1, <3>1, <3>2
  <2> QED  BY <2>3, <2>4
<1> QED  BY <1>4, <1>5 DEF IsScript

\* Each output stands for one value.
Distinct(outputs) ==
    \A i, j \in DOMAIN outputs : outputs[i] = outputs[j] => i = j

\* As many values as distinct outputs are captured one for each.
LEMMA CaptureFacts ==
    ASSUME NEW outputs \in Seq(Refs), NEW V, NEW values \in Seq(V),
           Len(values) = Len(outputs), Distinct(outputs)
    PROVE  LET new == Captures(outputs, values) IN
           /\ ValidCaptures(outputs, new)
           /\ \A r : r \in DOMAIN new <=> \E i \in 1 .. Len(outputs) : r = outputs[i]
           /\ \A i \in 1 .. Len(outputs) : new[outputs[i]] = values[i]
<1> DEFINE new == Captures(outputs, values)
<1> SUFFICES /\ ValidCaptures(outputs, new)
             /\ \A r : r \in DOMAIN new <=> \E i \in 1 .. Len(outputs) : r = outputs[i]
             /\ \A i \in 1 .. Len(outputs) : new[outputs[i]] = values[i]
  OBVIOUS
<1>1. DOMAIN outputs = 1 .. Len(outputs) /\ DOMAIN values = 1 .. Len(outputs)
  BY LenProperties
<1>2. DOMAIN outputs \cap DOMAIN values = DOMAIN outputs
  BY <1>1
<1>3. DOMAIN new = {outputs[i] : i \in DOMAIN outputs}
  BY <1>2 DEF Captures
<1>4. ASSUME NEW i \in 1 .. Len(outputs) PROVE new[outputs[i]] = values[i]
  <2>1. (CHOOSE j \in DOMAIN outputs : outputs[j] = outputs[i]) = i
    BY <1>1 DEF Distinct
  <2>2. outputs[i] \in {outputs[j] : j \in DOMAIN outputs \cap DOMAIN values}
    BY <1>1, <1>2
  <2>3. new[outputs[i]] = values[CHOOSE j \in DOMAIN outputs : outputs[j] = outputs[i]]
    BY <2>2 DEF Captures
  <2> QED  BY <2>1, <2>3
<1>5. \A r : r \in DOMAIN new <=> \E i \in 1 .. Len(outputs) : r = outputs[i]
  <2> HIDE DEF new
  <2> QED  BY <1>1, <1>3
<1>6. ValidCaptures(outputs, new)
  <2> HIDE DEF new
  <2> QED  BY <1>3 DEF ValidCaptures
<1> HIDE DEF new
<1> QED  BY <1>4, <1>5, <1>6

\* The references a later action can take: the objects and the gate.
Kept(s) == {s.objects[i] : i \in DOMAIN s.objects} \cup {s.gate}

\* A capture stays while its reference is kept; the first one stands.
LEMMA LiveFacts ==
    ASSUME NEW s, NEW c, NEW new
    PROVE  LET d == Live(s, c, new) IN
           /\ \A r : r \in DOMAIN d <=> (r \in DOMAIN c \/ r \in DOMAIN new) /\ r \in Kept(s)
           /\ \A r \in DOMAIN c : r \in Kept(s) => d[r] = c[r]
           /\ \A r \in DOMAIN new : r \in Kept(s) /\ r \notin DOMAIN c => d[r] = new[r]
<1> DEFINE d == Live(s, c, new)
           kept == Kept(s)
<1> SUFFICES /\ \A r : r \in DOMAIN d <=> (r \in DOMAIN c \/ r \in DOMAIN new) /\ r \in kept
             /\ \A r \in DOMAIN c : r \in kept => d[r] = c[r]
             /\ \A r \in DOMAIN new : r \in kept /\ r \notin DOMAIN c => d[r] = new[r]
  OBVIOUS
<1>1. d = [r \in (DOMAIN c \cup DOMAIN new) \cap kept |->
              IF r \in DOMAIN c THEN c[r] ELSE new[r]]
  BY Zenon DEF Live, Kept
<1> HIDE DEF d, kept
<1> QED  BY <1>1

\* The outputs of a request: its objects, and the gate when it is held.
LEMMA RequestOutputs ==
    ASSUME NEW n \in Nat, NEW a, a.kind \in BusinessRequest, IsScript(a.script)
    PROVE  LET outputs == OutputsOf(n, a)
               count == CommittedCount(a.script)
               held == TerminalOutcome(a.script) = "CommitThenDelay"
           IN  /\ outputs \in Seq(Refs) /\ Distinct(outputs)
               /\ Len(outputs) = count + IF held THEN 1 ELSE 0
               /\ \A i \in 1 .. count : outputs[i] = Ref(n, "PaymentIntentId", i - 1)
               /\ held => outputs[count + 1] = Ref(n, "ProviderGateId", 0)
               /\ CheckoutContract(outputs, a.script)
<1> DEFINE outputs == OutputsOf(n, a)
           count == CommittedCount(a.script)
           held == TerminalOutcome(a.script) = "CommitThenDelay"
           objects == ObjectOutputs(n, a.script)
           gates == GateOutputs(n, a.script)
           g == Ref(n, "ProviderGateId", 0)
<1> SUFFICES /\ outputs \in Seq(Refs) /\ Distinct(outputs)
             /\ Len(outputs) = count + IF held THEN 1 ELSE 0
             /\ \A i \in 1 .. count : outputs[i] = Ref(n, "PaymentIntentId", i - 1)
             /\ held => outputs[count + 1] = g
             /\ CheckoutContract(outputs, a.script)
  OBVIOUS
<1>1. /\ objects \in Seq(Refs) /\ Len(objects) = count /\ count \in 0 .. 2
      /\ \A i \in 1 .. count : objects[i] = Ref(n, "PaymentIntentId", i - 1)
      /\ held => count >= 1
  BY ObjectFacts
<1>2. outputs = objects \o gates
  BY DEF OutputsOf, ObjectsOf, GatesOf, BusinessRequest
<1>3. gates = IF held THEN <<g>> ELSE <<>>
  BY DEF GateOutputs
<1>4. g \in Refs /\ g.slot = "ProviderGateId"
  BY DEF Ref, Refs
<1> HIDE DEF objects, outputs, gates, g, count, held
<1>5. gates \in Seq(Refs) /\ Len(gates) = (IF held THEN 1 ELSE 0) /\ (held => gates[1] = g)
  BY <1>3, <1>4
<1>6. /\ outputs \in Seq(Refs) /\ Len(outputs) = count + Len(gates)
      /\ \A i \in 1 .. count + Len(gates) :
            outputs[i] = IF i <= count THEN objects[i] ELSE gates[i - count]
  BY <1>1, <1>2, <1>5, ConcatProperties
<1>7. \A i \in 1 .. count : outputs[i] = Ref(n, "PaymentIntentId", i - 1)
  <2> SUFFICES ASSUME NEW i \in 1 .. count PROVE outputs[i] = Ref(n, "PaymentIntentId", i - 1)
    OBVIOUS
  <2>1. i \in 1 .. count + Len(gates) /\ i <= count
    BY <1>1, <1>5
  <2>2. outputs[i] = objects[i]
    BY <1>6, <2>1
  <2> QED  BY <1>1, <2>2
<1>8. held => outputs[count + 1] = g
  <2> SUFFICES ASSUME held PROVE outputs[count + 1] = g
    OBVIOUS
  <2>1. count + 1 \in 1 .. count + Len(gates) /\ ~(count + 1 <= count) /\ (count + 1) - count = 1
    BY <1>1, <1>5
  <2>2. outputs[count + 1] = gates[(count + 1) - count]
    BY <1>6, <2>1
  <2> QED  BY <1>5, <2>1, <2>2
<1>9. Distinct(outputs)
  <2> SUFFICES ASSUME NEW i \in DOMAIN outputs, NEW j \in DOMAIN outputs, outputs[i] = outputs[j]
               PROVE  i = j
    BY DEF Distinct
  <2>1. i \in 1 .. count + Len(gates) /\ j \in 1 .. count + Len(gates)
    BY <1>6, LenProperties
  <2>2. \A k \in 1 .. count : /\ outputs[k].slot = "PaymentIntentId"
                              /\ outputs[k].occurrence = k - 1
    <3>1. \A k : LET r == Ref(n, "PaymentIntentId", k) IN
              r.slot = "PaymentIntentId" /\ r.occurrence = k
      BY DEF Ref
    <3> QED  BY <1>7, <3>1
  <2>3. CASE i <= count /\ j <= count
    <3>1. i \in 1 .. count /\ j \in 1 .. count
      BY <1>1, <1>5, <2>1, <2>3
    <3>2. i - 1 = j - 1
      BY <2>2, <3>1
    <3> QED  BY <1>1, <3>1, <3>2
  <2>4. CASE i <= count /\ ~(j <= count)
    <3>1. i \in 1 .. count /\ held /\ j = count + 1
      BY <1>1, <1>5, <2>1, <2>4
    <3> QED  BY <1>4, <1>8, <2>2, <3>1
  <2>5. CASE j <= count /\ ~(i <= count)
    <3>1. j \in 1 .. count /\ held /\ i = count + 1
      BY <1>1, <1>5, <2>1, <2>5
    <3> QED  BY <1>4, <1>8, <2>2, <3>1
  <2>6. CASE ~(i <= count) /\ ~(j <= count)
    BY <1>1, <1>5, <2>1, <2>6
  <2> QED  BY <2>3, <2>4, <2>5, <2>6
<1>10. CheckoutContract(outputs, a.script)
  <2> DEFINE gates0 == GateOutputs(0, a.script)
             front == SubSeq(outputs, 1, Len(outputs) - Len(gates0))
  <2>1. gates0 = (IF held THEN <<Ref(0, "ProviderGateId", 0)>> ELSE <<>>)
    BY DEF GateOutputs, held
  <2>2. Len(gates0) = Len(gates) /\ (gates0 # <<>> => held)
    BY <1>5, <2>1
  <2>3. Len(outputs) - Len(gates0) = count
    BY <1>1, <1>5, <1>6, <2>2
  <2>4. front = SubSeq(outputs, 1, count)
    BY <2>3
  <2>5. \A i \in 1 .. count : outputs[i] \in Refs
    BY <1>1, <1>5, <1>6, ElementOfSeq
  <2> DEFINE sub == SubSeq(outputs, 1, count)
  <2>6. /\ sub \in Seq(Refs)
        /\ Len(sub) = IF 1 <= count THEN count - 1 + 1 ELSE 0
        /\ \A i \in 1 .. count - 1 + 1 : sub[i] = outputs[1 + i - 1]
    BY <1>1, <2>5, SubSeqProperties
  <2> HIDE DEF sub, gates0
  <2>7. Len(sub) = count /\ DOMAIN sub = 1 .. count
    BY <1>1, <2>6, LenProperties
  <2>8. \A i \in 1 .. count : sub[i] = outputs[i]
    BY <1>1, <2>6
  <2>9. \A i \in DOMAIN sub : sub[i].slot = "PaymentIntentId" /\ sub[i].occurrence = i - 1
    <3>1. \A k : LET r == Ref(n, "PaymentIntentId", k) IN
              r.slot = "PaymentIntentId" /\ r.occurrence = k
      BY DEF Ref
    <3> QED  BY <1>7, <2>7, <2>8, <3>1
  <2>10. ObjectContract(front, count)
    BY <2>4, <2>7, <2>9 DEF ObjectContract, sub
  <2>11. gates0 # <<>> => /\ outputs # <<>> /\ outputs[Len(outputs)].slot = "ProviderGateId"
    <3> SUFFICES ASSUME held PROVE outputs # <<>> /\ outputs[Len(outputs)].slot = "ProviderGateId"
      BY <2>2
    <3>1. Len(outputs) = count + 1 /\ Len(outputs) # 0
      BY <1>1, <1>5, <1>6
    <3> QED  BY <1>4, <1>8, <3>1
  <2> HIDE DEF front
  <2>12. /\ ObjectContract(front, CommittedCount(a.script))
         /\ gates0 # <<>> => /\ outputs # <<>> /\ outputs[Len(outputs)].slot = "ProviderGateId"
    BY <2>10, <2>11 DEF count
  <2> QED  BY <2>12, Zenon DEF CheckoutContract, gates0, front
<1> QED  BY <1>5, <1>6, <1>7, <1>8, <1>9, <1>10

\* What an action adds to the sources.
LEMMA ReserveFacts ==
    ASSUME NEW s \in Sources, NEW a
    PROVE  LET n == Len(s.objects) t == Reserve(s, a) IN
           /\ a.kind \in BusinessRequest =>
                 LET objects == ObjectOutputs(n, a.script) IN
                 /\ t.objects = s.objects \o objects
                 /\ t.active = (IF objects = <<>> THEN s.active ELSE objects[Len(objects)])
           /\ a.kind \notin BusinessRequest => t.objects = s.objects /\ t.active = s.active
           /\ a.kind \in BusinessRequest \cup ConfirmKinds =>
                 t.gate = (IF TerminalOutcome(a.script) = "CommitThenDelay"
                           THEN Ref(n, "ProviderGateId", 0) ELSE s.gate)
           /\ a.kind \notin BusinessRequest \cup ConfirmKinds =>
                 t.gate = (IF a.kind = "ReleaseProviderGate" THEN NoRef ELSE s.gate)
           /\ t.generated = (IF a.kind = "GenerateProviderEvent" THEN s.generated + 1
                             ELSE s.generated)
           /\ DOMAIN t = {"active", "objects", "gate", "generated"}
           /\ t = [active |-> t.active, objects |-> t.objects, gate |-> t.gate,
                   generated |-> t.generated]
<1> DEFINE n == Len(s.objects)
           t == Reserve(s, a)
           objects == ObjectsOf(n, a)
           gates == GatesOf(n, a)
<1>1. /\ t.active = (IF objects = <<>> THEN s.active ELSE objects[Len(objects)])
      /\ t.objects = s.objects \o objects
      /\ t.gate = (IF gates # <<>> THEN gates[1]
                   ELSE IF a.kind = "ReleaseProviderGate" THEN NoRef ELSE s.gate)
      /\ t.generated = s.generated + (IF a.kind = "GenerateProviderEvent" THEN 1 ELSE 0)
      /\ DOMAIN t = {"active", "objects", "gate", "generated"}
      /\ t = [active |-> t.active, objects |-> t.objects, gate |-> t.gate,
              generated |-> t.generated]
  BY DEF Reserve
<1>2. s.objects \o <<>> = s.objects /\ s.generated \in Nat
  BY ConcatEmptySeq DEF Sources
<1>3. /\ a.kind \in BusinessRequest => objects = ObjectOutputs(n, a.script)
      /\ a.kind \notin BusinessRequest => objects = <<>>
      /\ a.kind \in BusinessRequest \cup ConfirmKinds => gates = GateOutputs(n, a.script)
      /\ a.kind \notin BusinessRequest \cup ConfirmKinds => gates = <<>>
      /\ a.kind \in BusinessRequest \cup ConfirmKinds => a.kind # "ReleaseProviderGate"
  BY DEF ObjectsOf, GatesOf, BusinessRequest, ConfirmKinds
<1>4. GateOutputs(n, a.script) = (IF TerminalOutcome(a.script) = "CommitThenDelay"
                                  THEN <<Ref(n, "ProviderGateId", 0)>> ELSE <<>>)
  BY DEF GateOutputs
<1> HIDE DEF t, objects, gates, n
<1>5. t.generated = (IF a.kind = "GenerateProviderEvent" THEN s.generated + 1 ELSE s.generated)
  BY <1>1, <1>2
<1>8. \A r : <<r>> # <<>> /\ <<r>>[1] = r
  OBVIOUS
<1>6. a.kind \in BusinessRequest \cup ConfirmKinds =>
        t.gate = (IF TerminalOutcome(a.script) = "CommitThenDelay"
                  THEN Ref(n, "ProviderGateId", 0) ELSE s.gate)
  <2> SUFFICES ASSUME a.kind \in BusinessRequest \cup ConfirmKinds
               PROVE  t.gate = (IF TerminalOutcome(a.script) = "CommitThenDelay"
                                THEN Ref(n, "ProviderGateId", 0) ELSE s.gate)
    OBVIOUS
  <2>1. CASE TerminalOutcome(a.script) = "CommitThenDelay"
    <3>1. gates = <<Ref(n, "ProviderGateId", 0)>>
      BY <1>3, <1>4, <2>1
    <3>2. gates # <<>> /\ gates[1] = Ref(n, "ProviderGateId", 0)
      BY <1>8, <3>1
    <3> QED  BY <1>1, <2>1, <3>2
  <2>2. CASE TerminalOutcome(a.script) # "CommitThenDelay"
    <3>1. gates = <<>>
      BY <1>3, <1>4, <2>2
    <3> QED  BY <1>1, <1>3, <2>2, <3>1
  <2> QED  BY <2>1, <2>2
<1>7. /\ a.kind \in BusinessRequest => objects = ObjectOutputs(n, a.script)
      /\ a.kind \notin BusinessRequest => t.objects = s.objects /\ t.active = s.active
      /\ a.kind \notin BusinessRequest \cup ConfirmKinds =>
            t.gate = (IF a.kind = "ReleaseProviderGate" THEN NoRef ELSE s.gate)
  <2>1. objects = <<>> => t.objects = s.objects /\ t.active = s.active
    BY <1>1, <1>2
  <2>2. gates = <<>> => t.gate = (IF a.kind = "ReleaseProviderGate" THEN NoRef ELSE s.gate)
    BY <1>1
  <2> QED  BY <1>3, <2>1, <2>2
<1>9. a.kind \in BusinessRequest =>
         LET os == ObjectOutputs(n, a.script) IN
         /\ t.objects = s.objects \o os
         /\ t.active = (IF os = <<>> THEN s.active ELSE os[Len(os)])
  <2> SUFFICES ASSUME a.kind \in BusinessRequest
               PROVE  LET os == ObjectOutputs(n, a.script) IN
                      /\ t.objects = s.objects \o os
                      /\ t.active = (IF os = <<>> THEN s.active ELSE os[Len(os)])
    OBVIOUS
  <2>1. ObjectOutputs(n, a.script) = objects
    BY <1>7
  <2> QED  BY <1>1, <2>1, Zenon
<1> QED  BY <1>1, <1>5, <1>6, <1>7, <1>9, Zenon DEF t, n

\* The first values of a request are what it adds to what is known.
StandFor(values, count, known, after) ==
    /\ known \subseteq after
    /\ \A i \in 1 .. count : values[i] \in after
    /\ \A id \in after : id \in known \/ \E i \in 1 .. count : values[i] = id

\* A request whose objects are captured leaves every object it knows captured.
LEMMA TracesGrow ==
    ASSUME NEW s \in Sources, NEW c, NEW known, Traces(s, c, known, TRUE),
           NEW a, a.kind \in BusinessRequest, IsScript(a.script),
           NEW V, NEW values \in Seq(V),
           Len(values) = Len(OutputsOf(Len(s.objects), a)),
           NEW after, StandFor(values, CommittedCount(a.script), known, after)
    PROVE  LET n == Len(s.objects)
               count == CommittedCount(a.script)
               held == TerminalOutcome(a.script) = "CommitThenDelay"
               new == Captures(OutputsOf(n, a), values)
               t == Reserve(s, a)
               d == Live(t, c, new)
           IN  /\ t \in Sources /\ Len(t.objects) = n + count
               /\ Traces(t, d, after, TRUE)
               /\ held => t.gate \in DOMAIN d /\ d[t.gate] = values[count + 1]
               /\ t.generated = s.generated
               /\ ValidCaptures(OutputsOf(n, a), new)
<1> DEFINE n == Len(s.objects)
           outputs == OutputsOf(n, a)
           objects == ObjectOutputs(n, a.script)
           count == CommittedCount(a.script)
           held == TerminalOutcome(a.script) = "CommitThenDelay"
           new == Captures(outputs, values)
           t == Reserve(s, a)
           d == Live(t, c, new)
           kept == Kept(t)
           g == Ref(n, "ProviderGateId", 0)
<1> SUFFICES /\ t \in Sources /\ Len(t.objects) = n + count
             /\ Traces(t, d, after, TRUE)
             /\ held => t.gate \in DOMAIN d /\ d[t.gate] = values[count + 1]
             /\ t.generated = s.generated
             /\ ValidCaptures(outputs, new)
  OBVIOUS
<1>0. /\ known \subseteq after
      /\ \A i \in 1 .. count : values[i] \in after
      /\ \A id \in after : id \in known \/ \E i \in 1 .. count : values[i] = id
  BY DEF StandFor
<1>1. /\ s.objects \in Seq(Refs) /\ n \in Nat /\ DOMAIN s.objects = 1 .. n
      /\ s.active \in Refs /\ s.gate \in Refs /\ s.generated \in Nat
  BY LenProperties DEF Sources
<1>2. /\ outputs \in Seq(Refs) /\ Distinct(outputs)
      /\ Len(outputs) = count + IF held THEN 1 ELSE 0
      /\ \A i \in 1 .. count : outputs[i] = Ref(n, "PaymentIntentId", i - 1)
      /\ held => outputs[count + 1] = g
  BY <1>1, RequestOutputs
<1>3. /\ objects \in Seq(Refs) /\ Len(objects) = count /\ count \in 0 .. 2
      /\ \A i \in 1 .. count : objects[i] = Ref(n, "PaymentIntentId", i - 1)
      /\ held => count >= 1
  BY <1>1, ObjectFacts
<1>4. /\ ValidCaptures(outputs, new)
      /\ \A r : r \in DOMAIN new <=> \E i \in 1 .. Len(outputs) : r = outputs[i]
      /\ \A i \in 1 .. Len(outputs) : new[outputs[i]] = values[i]
  <2>1. Len(values) = Len(outputs)
    OBVIOUS
  <2> HIDE DEF outputs
  <2> QED  BY <1>2, <2>1, CaptureFacts
<1>5. /\ t.objects = s.objects \o objects
      /\ t.active = (IF objects = <<>> THEN s.active ELSE objects[Len(objects)])
      /\ t.gate = (IF held THEN g ELSE s.gate)
      /\ t.generated = s.generated
      /\ t = [active |-> t.active, objects |-> t.objects, gate |-> t.gate,
              generated |-> t.generated]
  <2>1. a.kind # "GenerateProviderEvent" /\ a.kind \in BusinessRequest \cup ConfirmKinds
    BY DEF BusinessRequest
  <2> QED  BY <2>1, ReserveFacts
<1>6. /\ \A r : r \in DOMAIN d <=> (r \in DOMAIN c \/ r \in DOMAIN new) /\ r \in kept
      /\ \A r \in DOMAIN c : r \in kept => d[r] = c[r]
      /\ \A r \in DOMAIN new : r \in kept /\ r \notin DOMAIN c => d[r] = new[r]
  <2> HIDE DEF t, new
  <2> QED  BY LiveFacts
<1> HIDE DEF t, new, objects, outputs
<1> DEFINE k == Len(t.objects)
<1>7. /\ t.objects \in Seq(Refs) /\ k = n + count
      /\ \A i \in 1 .. n + count : t.objects[i] = IF i <= n THEN s.objects[i] ELSE objects[i - n]
      /\ DOMAIN t.objects = 1 .. k
  BY <1>1, <1>3, <1>5, ConcatProperties, LenProperties
<1>8. g \in Refs /\ g.slot = "ProviderGateId" /\ g.action = n
  BY <1>1 DEF Ref, Refs
<1> HIDE DEF d, kept, g, held, count, k, n
<1>9. t \in Sources
  <2>1. t.active \in Refs
    <3>1. CASE objects = <<>>
      BY <1>1, <1>5, <3>1
    <3>2. CASE objects # <<>>
      <4>1. Len(objects) \in 1 .. Len(objects)
        BY <1>3, <3>2, EmptySeq
      <4> QED  BY <1>3, <1>5, <3>2, <4>1, ElementOfSeq
    <3> QED  BY <3>1, <3>2
  <2> QED  BY <1>1, <1>5, <1>7, <1>8, <2>1 DEF Sources
<1>10. \A i \in 1 .. n : t.objects[i] = s.objects[i] /\ s.objects[i] \in kept /\ i \in 1 .. k
  <2> SUFFICES ASSUME NEW i \in 1 .. n
               PROVE  t.objects[i] = s.objects[i] /\ s.objects[i] \in kept /\ i \in 1 .. k
    OBVIOUS
  <2>1. i \in 1 .. n + count /\ i <= n /\ i \in 1 .. k
    BY <1>1, <1>3, <1>7
  <2>2. t.objects[i] = s.objects[i]
    BY <1>7, <2>1
  <2> QED  BY <1>7, <2>1, <2>2 DEF kept, Kept
<1>11. \A i \in 1 .. count : /\ n + i \in 1 .. k
                             /\ t.objects[n + i] = outputs[i]
                             /\ outputs[i] \in kept /\ outputs[i] \in DOMAIN new
                             /\ outputs[i].slot = "PaymentIntentId" /\ outputs[i].action = n
                             /\ new[outputs[i]] = values[i]
  <2> SUFFICES ASSUME NEW i \in 1 .. count
               PROVE  /\ n + i \in 1 .. k
                      /\ t.objects[n + i] = outputs[i]
                      /\ outputs[i] \in kept /\ outputs[i] \in DOMAIN new
                      /\ outputs[i].slot = "PaymentIntentId" /\ outputs[i].action = n
                      /\ new[outputs[i]] = values[i]
    OBVIOUS
  <2>1. n + i \in 1 .. n + count /\ ~(n + i <= n) /\ (n + i) - n = i /\ n + i \in 1 .. k
    BY <1>1, <1>3, <1>7
  <2>2. t.objects[n + i] = objects[(n + i) - n]
    BY <1>7, <2>1
  <2>3. objects[i] = outputs[i]
    BY <1>2, <1>3
  <2>4. t.objects[n + i] = outputs[i]
    BY <2>1, <2>2, <2>3
  <2>5. outputs[i] \in kept
    BY <1>7, <2>1, <2>4 DEF kept, Kept
  <2>6. i \in 1 .. Len(outputs)
    BY <1>2, <1>3
  <2>7. \A x : LET r == Ref(n, "PaymentIntentId", x) IN
            r.slot = "PaymentIntentId" /\ r.action = n
    BY DEF Ref
  <2> QED  BY <1>2, <1>4, <2>1, <2>4, <2>5, <2>6, <2>7
<1>12. \A r \in DOMAIN c : r.action < n
  BY DEF Traces, n
<1>13. \A r \in DOMAIN new : r.action = n /\ r \notin DOMAIN c /\ count >= 1
  <2> SUFFICES ASSUME NEW r \in DOMAIN new PROVE r.action = n /\ r \notin DOMAIN c /\ count >= 1
    OBVIOUS
  <2>1. PICK i \in 1 .. Len(outputs) : r = outputs[i]
    BY <1>4
  <2>2. CASE i \in 1 .. count
    <3>1. r.action = n /\ count >= 1
      BY <1>3, <1>11, <2>1, <2>2
    <3> QED  BY <1>1, <1>12, <3>1
  <2>3. CASE i \notin 1 .. count
    <3>1. held /\ i = count + 1
      BY <1>2, <1>3, <2>3
    <3>2. r.action = n
      BY <1>2, <1>8, <2>1, <3>1
    <3> QED  BY <1>1, <1>3, <1>12, <3>1, <3>2
  <2> QED  BY <2>2, <2>3
<1>14. \A i \in 1 .. n : /\ s.objects[i].slot = "PaymentIntentId" /\ s.objects[i].action < n
                         /\ s.objects[i] \in DOMAIN c /\ c[s.objects[i]] \in known
  BY DEF Traces, n
<1>15. \A i \in 1 .. n : /\ t.objects[i] \in DOMAIN d /\ d[t.objects[i]] = c[s.objects[i]]
  BY <1>6, <1>10, <1>14
<1>16. \A i \in 1 .. count : /\ t.objects[n + i] \in DOMAIN d
                             /\ d[t.objects[n + i]] = values[i]
  BY <1>6, <1>11, <1>13
<1>17. ASSUME NEW i \in 1 .. k
       PROVE  /\ t.objects[i].slot = "PaymentIntentId" /\ t.objects[i].action < k
              /\ t.objects[i] \in DOMAIN d /\ d[t.objects[i]] \in after
  <2>1. CASE i \in 1 .. n
    <3>1. /\ t.objects[i].slot = "PaymentIntentId" /\ t.objects[i] \in DOMAIN d
          /\ d[t.objects[i]] \in after /\ t.objects[i].action < n
      BY <1>0, <1>10, <1>14, <1>15, <2>1
    <3>2. t.objects[i] \in Refs
      BY <1>7, ElementOfSeq DEF k
    <3>3. t.objects[i].action \in Nat
      BY <3>2 DEF Refs
    <3>4. t.objects[i].action < k
      BY <1>1, <1>3, <1>7, <3>1, <3>3
    <3> QED  BY <3>1, <3>4
  <2>2. CASE i \notin 1 .. n
    <3>1. i - n \in 1 .. count /\ n + (i - n) = i /\ n < k
      BY <1>1, <1>3, <1>7, <2>2
    <3>2. PICK j \in 1 .. count : i = n + j
      BY <3>1
    <3> QED  BY <1>0, <1>11, <1>16, <3>1, <3>2 DEF count
  <2> QED  BY <2>1, <2>2
<1>18. ASSUME NEW id \in after PROVE \E i \in 1 .. k : d[t.objects[i]] = id
  <2>1. CASE id \in known
    <3>1. PICK i \in 1 .. n : c[s.objects[i]] = id
      BY <2>1 DEF Traces, n
    <3> QED  BY <1>10, <1>15, <3>1
  <2>2. CASE id \notin known
    <3>1. PICK i \in 1 .. count : values[i] = id
      BY <1>0, <2>2 DEF count
    <3> QED  BY <1>11, <1>16, <3>1
  <2> QED  BY <2>1, <2>2
<1>19. ASSUME NEW r \in DOMAIN d PROVE r.action < k
  <2>1. CASE r \in DOMAIN c
    <3>1. r.action < n
      BY <1>12, <2>1
    <3>2. r \in Refs
      BY <1>6, <1>7, <1>9 DEF kept, Kept, Sources
    <3>3. r.action \in Nat
      BY <3>2 DEF Refs
    <3> QED  BY <1>1, <1>3, <1>7, <3>1, <3>3
  <2>2. CASE r \in DOMAIN new
    BY <1>1, <1>3, <1>7, <1>13, <2>2
  <2> QED  BY <1>6, <2>1, <2>2
<1>20. t.objects # <<>> => t.active = t.objects[k]
  <2>1. CASE count = 0
    <3>1. objects = <<>>
      BY <1>3, <2>1, EmptySeq
    <3>2. t.objects = s.objects /\ k = n
      BY <1>1, <1>5, <1>7, <2>1, <3>1, ConcatEmptySeq
    <3>3. s.objects # <<>> => s.active = s.objects[n]
      BY DEF Traces, n
    <3> QED  BY <1>5, <3>1, <3>2, <3>3
  <2>2. CASE count # 0
    <3>1. count \in 1 .. count /\ objects # <<>>
      BY <1>3, <2>2
    <3>2. t.active = objects[count]
      BY <1>3, <1>5, <3>1
    <3>3. t.objects[n + count] = outputs[count] /\ objects[count] = outputs[count]
      BY <1>2, <1>3, <1>11, <3>1
    <3> QED  BY <1>7, <3>2, <3>3
  <2> QED  BY <2>1, <2>2
<1>21. t.gate.slot # "PaymentIntentId"
  BY <1>5, <1>8 DEF Traces
<1>22. Traces(t, d, after, TRUE)
  BY <1>17, <1>18, <1>19, <1>20, <1>21 DEF Traces, k
<1>23. held => t.gate \in DOMAIN d /\ d[t.gate] = values[count + 1]
  <2> SUFFICES ASSUME held PROVE t.gate \in DOMAIN d /\ d[t.gate] = values[count + 1]
    OBVIOUS
  <2>1. t.gate = g /\ g \in kept /\ count + 1 \in 1 .. Len(outputs) /\ outputs[count + 1] = g
    BY <1>2, <1>3, <1>5 DEF kept, Kept
  <2>2. g \in DOMAIN new /\ new[g] = values[count + 1]
    BY <1>4, <2>1
  <2> QED  BY <1>6, <1>13, <2>1, <2>2
<1> QED  BY <1>4, <1>5, <1>7, <1>9, <1>22, <1>23 DEF k, t

\* An action that is no request and takes no gate captures nothing.
LEMMA NothingCaptured ==
    ASSUME NEW a, NEW k, a.kind \notin BusinessRequest \cup {"GenerateProviderEvent"},
           a.kind \in ConfirmKinds => TerminalOutcome(a.script) # "CommitThenDelay"
    PROVE  /\ OutputsOf(k, a) = <<>>
           /\ OutputContract(<<>>, <<>>) /\ ValidCaptures(<<>>, Captures(<<>>, <<>>))
<1>1. ObjectsOf(k, a) = <<>> /\ GatesOf(k, a) = <<>>
  BY DEF ObjectsOf, GatesOf, GateOutputs
<1>2. OutputsOf(k, a) = <<>> \o <<>>
  BY <1>1 DEF OutputsOf
<1>3. <<>> \o <<>> = <<>>
  OBVIOUS
<1>4. OutputContract(<<>>, <<>>)
  BY DEF OutputContract
<1>5. ValidCaptures(<<>>, Captures(<<>>, <<>>))
  <2>1. DOMAIN <<>> \cap DOMAIN <<>> = {} /\ DOMAIN <<>> = {}
    OBVIOUS
  <2>2. DOMAIN Captures(<<>>, <<>>) = {<<>>[i] : i \in DOMAIN <<>> \cap DOMAIN <<>>}
    BY Zenon DEF Captures
  <2> QED  BY <2>1, <2>2, Zenon DEF ValidCaptures
<1> QED  BY <1>2, <1>3, <1>4, <1>5

\* One output stands for one value.
LEMMA OneCaptured ==
    ASSUME NEW ref, NEW v
    PROVE  LET new == Captures(<<ref>>, <<v>>) IN
           /\ OutputContract(<<ref>>, <<ref.slot>>) /\ ValidCaptures(<<ref>>, new)
           /\ \A r : r \in DOMAIN new <=> r = ref
           /\ new[ref] = v
<1> DEFINE o == <<ref>>
           new == Captures(o, <<v>>)
<1> SUFFICES /\ OutputContract(o, <<ref.slot>>) /\ ValidCaptures(o, new)
             /\ \A r : r \in DOMAIN new <=> r = ref
             /\ new[ref] = v
  OBVIOUS
<1>1. DOMAIN o = {1} /\ DOMAIN o \cap DOMAIN <<v>> = {1} /\ o[1] = ref /\ <<v>>[1] = v
  OBVIOUS
<1>2. OutputContract(o, <<ref.slot>>)
  BY <1>1 DEF OutputContract
<1>3. new = [r \in {o[i] : i \in DOMAIN o \cap DOMAIN <<v>>} |->
                <<v>>[CHOOSE i \in DOMAIN o : o[i] = r]]
  BY DEF Captures
<1> HIDE DEF o, new
<1>4. {o[i] : i \in {1}} = {ref}
  BY <1>1
<1>5. DOMAIN new = {ref}
  BY <1>1, <1>3, <1>4
<1>6. new[ref] = v
  <2>1. (CHOOSE i \in DOMAIN o : o[i] = ref) = 1
    BY <1>1
  <2> QED  BY <1>1, <1>3, <1>4, <2>1
<1>7. ValidCaptures(o, new)
  BY <1>1, <1>4, <1>5 DEF ValidCaptures
<1> QED  BY <1>2, <1>5, <1>6, <1>7

\* What an action leaves in the traces that makes no object.
LEMMA TracesKept ==
    ASSUME NEW s \in Sources, NEW c, NEW known, NEW early, Traces(s, c, known, early),
           NEW a, a.kind \notin BusinessRequest, NEW later, later => early
    PROVE  LET t == Reserve(s, a) IN
           /\ t \in Sources /\ t.objects = s.objects /\ t.active = s.active
           /\ Traces(t, c, known, later)
           /\ a.kind \notin ConfirmKinds \cup {"ReleaseProviderGate"} => t.gate = s.gate
           /\ a.kind \in ConfirmKinds /\ TerminalOutcome(a.script) # "CommitThenDelay" =>
                 t.gate = s.gate
           /\ t.generated = s.generated + IF a.kind = "GenerateProviderEvent" THEN 1 ELSE 0
<1> DEFINE t == Reserve(s, a)
           n == Len(s.objects)
<1>1. /\ t.objects = s.objects /\ t.active = s.active
      /\ a.kind \in ConfirmKinds =>
            t.gate = (IF TerminalOutcome(a.script) = "CommitThenDelay"
                      THEN Ref(n, "ProviderGateId", 0) ELSE s.gate)
      /\ a.kind \notin ConfirmKinds =>
            t.gate = (IF a.kind = "ReleaseProviderGate" THEN NoRef ELSE s.gate)
      /\ t.generated = (IF a.kind = "GenerateProviderEvent" THEN s.generated + 1
                        ELSE s.generated)
      /\ t = [active |-> t.active, objects |-> t.objects, gate |-> t.gate,
              generated |-> t.generated]
  BY ReserveFacts
<1>2. /\ s.objects \in Seq(Refs) /\ n \in Nat /\ s.generated \in Nat
      /\ s.active \in Refs /\ s.gate \in Refs
  BY LenProperties DEF Sources
<1>3. /\ NoRef \in Refs /\ NoRef.slot # "PaymentIntentId"
      /\ Ref(n, "ProviderGateId", 0) \in Refs
      /\ Ref(n, "ProviderGateId", 0).slot # "PaymentIntentId"
  BY <1>2 DEF NoRef, Ref, Refs
<1>4. s.gate.slot # "PaymentIntentId"
  BY DEF Traces
<1> SUFFICES /\ t \in Sources /\ t.objects = s.objects /\ t.active = s.active
             /\ Traces(t, c, known, later)
             /\ a.kind \notin ConfirmKinds \cup {"ReleaseProviderGate"} => t.gate = s.gate
             /\ a.kind \in ConfirmKinds /\ TerminalOutcome(a.script) # "CommitThenDelay" =>
                   t.gate = s.gate
             /\ t.generated = s.generated + IF a.kind = "GenerateProviderEvent" THEN 1 ELSE 0
  OBVIOUS
<1> HIDE DEF t
<1>5. t.gate \in Refs /\ t.gate.slot # "PaymentIntentId"
  BY <1>1, <1>2, <1>3, <1>4
<1>6. t.generated = s.generated + IF a.kind = "GenerateProviderEvent" THEN 1 ELSE 0
  BY <1>1, <1>2
<1>7. t \in Sources
  BY <1>1, <1>2, <1>5, <1>6 DEF Sources
<1>8. Traces(t, c, known, later)
  BY <1>1, <1>5 DEF Traces
<1> QED  BY <1>1, <1>6, <1>7, <1>8

\* What is captured of a gate or an event leaves the objects' captures alone.
LEMMA CapturesKept ==
    ASSUME NEW s \in Sources, NEW c, NEW known, NEW early,
           Traces(s, c, known, early),
           NEW new, \A r \in DOMAIN new : r.slot # "PaymentIntentId"
    PROVE  LET d == Live(s, c, new) IN
           /\ Traces(s, d, known, FALSE)
           /\ s.objects # <<>> => d[s.active] = c[s.active]
           /\ \A i \in 1 .. Len(s.objects) : d[s.objects[i]] = c[s.objects[i]]
           /\ s.gate \in DOMAIN new /\ s.gate \notin DOMAIN c =>
                 s.gate \in DOMAIN d /\ d[s.gate] = new[s.gate]
<1> DEFINE d == Live(s, c, new)
           n == Len(s.objects)
<1>1. /\ \A r : r \in DOMAIN d <=> (r \in DOMAIN c \/ r \in DOMAIN new) /\ r \in Kept(s)
      /\ \A r \in DOMAIN c : r \in Kept(s) => d[r] = c[r]
      /\ \A r \in DOMAIN new : r \in Kept(s) /\ r \notin DOMAIN c => d[r] = new[r]
  BY LiveFacts
<1> SUFFICES /\ Traces(s, d, known, FALSE)
             /\ s.objects # <<>> => d[s.active] = c[s.active]
             /\ \A i \in 1 .. n : d[s.objects[i]] = c[s.objects[i]]
             /\ s.gate \in DOMAIN new /\ s.gate \notin DOMAIN c =>
                   s.gate \in DOMAIN d /\ d[s.gate] = new[s.gate]
  OBVIOUS
<1> HIDE DEF d
<1>2. /\ s.objects # <<>> => s.active = s.objects[n]
      /\ \A i \in 1 .. n : /\ s.objects[i].slot = "PaymentIntentId"
                           /\ s.objects[i].action < n
                           /\ s.objects[i] \in DOMAIN c
                           /\ c[s.objects[i]] \in known
      /\ \A id \in known : \E i \in 1 .. n : c[s.objects[i]] = id
      /\ s.gate.slot # "PaymentIntentId"
  BY DEF Traces
<1>3. s.objects \in Seq(Refs) /\ n \in Nat /\ DOMAIN s.objects = 1 .. n
  BY LenProperties DEF Sources
<1>4. \A i \in 1 .. n : s.objects[i] \in Kept(s) /\ s.gate \in Kept(s)
  BY <1>3 DEF Kept
<1>5. \A i \in 1 .. n : s.objects[i] \in DOMAIN d /\ d[s.objects[i]] = c[s.objects[i]]
  BY <1>1, <1>2, <1>4
<1>6. Traces(s, d, known, FALSE)
  <2>1. \A id \in known : \E i \in 1 .. n : d[s.objects[i]] = id
    <3> SUFFICES ASSUME NEW id \in known PROVE \E i \in 1 .. n : d[s.objects[i]] = id
      OBVIOUS
    <3>1. PICK i \in 1 .. n : c[s.objects[i]] = id
      BY <1>2
    <3> QED  BY <1>5, <3>1
  <2>2. \A i \in 1 .. n : d[s.objects[i]] \in known
    BY <1>2, <1>5
  <2> QED  BY <1>2, <1>5, <2>1, <2>2 DEF Traces, n
<1>7. s.objects # <<>> => d[s.active] = c[s.active]
  <2>1. s.objects # <<>> => n \in 1 .. n
    BY <1>3, EmptySeq
  <2> QED  BY <1>2, <1>5, <2>1
<1>8. s.gate \in Kept(s)
  BY DEF Kept
<1> QED  BY <1>1, <1>5, <1>6, <1>7, <1>8

-----------------------------------------------------------------------------
(* One step of the executor.                                                 *)

\* A confirmation is only to be repeated with an ambiguous answer behind it
\* when its script says so.
Ambiguity(m, a, n) ==
    n.phase = "ConfirmRetryable" =>
        (n.ambiguous <=> IF a.kind \in ConfirmKinds THEN HasAmbiguousCommit(a.script)
                         ELSE m.ambiguous)

\* The plan counts a commit as ambiguous as its action says.
LEMMA AppliedIsAmbiguous ==
    ASSUME NEW s, ValidPlanSpec(s), NEW m, Sound(s, m), m.phase # "Complete",
           NEW a \in Eligible(s, m)
    PROVE  Ambiguity(m, a, Apply(m, a))
<1> DEFINE x == Observe(m, a)
           n == Apply(m, a)
<1> SUFFICES Ambiguity(m, a, n)
  OBVIOUS
<1>1. /\ IsModel(m) /\ IsModel(x) /\ PlannedIn(s, m, a) /\ a.kind \in ActionKinds
      /\ LeadsTo(m, a, n)
      /\ x.phase = m.phase /\ (x.ambiguous <=> m.ambiguous)
  BY ObserveFacts, EligibleIsPlanned, AppliedLeads DEF Sound
<1> HIDE DEF x
<1>2. \A phase : LET e == Enter(x, phase) IN DOMAIN e = Fields /\ e.phase = phase
  BY <1>1 DEF Enter, IsModel, Fields
<1> USE DEF BusinessRequest, ConfirmKinds, Delivery, ActionKinds
<1>3. CASE a.kind = "KillApplication"
  <2> DEFINE cut == IF /\ a.cutPoint = "ClientResponseObserved"
                       /\ x.phase = "PaymentIntentKnown"
                    THEN Enter(x, "CheckoutRetryable") ELSE x
  <2>1. n = [cut EXCEPT !.healthy = FALSE, !.kills = @ + 1]
    BY <1>3 DEF Apply, Kill, x
  <2>2. DOMAIN cut = Fields /\ (cut.phase = "ConfirmRetryable" => cut = x)
    BY <1>1, <1>2 DEF IsModel
  <2> HIDE DEF n, cut
  <2>3. n.phase = cut.phase /\ n.ambiguous = cut.ambiguous
    BY <2>1, <2>2 DEF Fields
  <2> QED  BY <1>1, <1>3, <2>2, <2>3 DEF Ambiguity
<1>4. CASE a.kind = "RestartAndAwaitHealth"
  <2>1. n = [x EXCEPT !.healthy = TRUE]
    BY <1>4 DEF Apply, x
  <2>2. n.ambiguous = x.ambiguous
    BY <1>1, <2>1 DEF IsModel, Fields
  <2> HIDE DEF n
  <2> QED  BY <1>1, <1>4, <2>2 DEF Ambiguity
<1>5. CASE a.kind \in ConfirmKinds
  <2> DEFINE C(k) == ConfirmPhase(x, a.script, k)
  <2>1. \A k : /\ C(k).phase = "ConfirmRetryable" =>
                     (C(k).ambiguous <=> HasAmbiguousCommit(a.script))
    BY <1>2 DEF ConfirmPhase, Fields
  <2>2. \E k : n = C(k)
    BY <1>5 DEF Apply, ApplyHealthy, x
  <2> HIDE DEF n, C
  <2> QED  BY <1>5, <2>1, <2>2 DEF Ambiguity
<1>6. CASE a.kind \notin ConfirmKinds \cup {"KillApplication", "RestartAndAwaitHealth"}
  <2> HIDE DEF n
  <2>1. n.phase # "ConfirmRetryable"
    BY <1>1, <1>6 DEF LeadsTo, PlannedIn, PhaseAfter
  <2> QED  BY <2>1 DEF Ambiguity
<1> QED  BY <1>3, <1>4, <1>5, <1>6

\* The kills that can come right after the current action.
Cuts(next) ==
    /\ Cut(next) \in CutPoints \cup {NoValue}
    /\ current.kind \notin BusinessRequest \cup Delivery => Cut(next) = NoValue
    /\ current.kind \in Delivery =>
          Cut(next) \in {NoValue, "WebhookRequestForwarded", "WebhookResponseObserved"}
    /\ current.kind \in BusinessRequest =>
          IF TerminalOutcome(current.script) = "CommitThenDelay"
          THEN Cut(next) \in {NoValue, "ClientRequestForwarded"}
          ELSE Cut(next) \in {NoValue, "ClientResponseObserved", "SqlProbe"}
    /\ Cut(next) = "SqlProbe" =>
          current.kind = "DriveCheckout" /\ TerminalOutcome(current.script) = "Normal"

\* A planned kill cuts an exchange of the action before it.
LEMMA CutsNext ==
    ASSUME NEW next, Preflight(current, next),
           next.kind = "KillApplication" => next.cutPoint \in CutPoints
    PROVE  Cuts(next)
<1>1. NoValue \notin CutPoints
  BY NoValueAssumption
<1>2. CASE next.kind # "KillApplication"
  BY <1>1, <1>2 DEF Cut, Cuts, CutPoints
<1>3. CASE next.kind = "KillApplication"
  <2>1. Cut(next) \in CutPoints /\ CutBy(Cut(next), current)
    BY <1>3 DEF Preflight, Cut
  <2> QED  BY <2>1 DEF CutBy, Cuts, CutPoints, ClientRequestCut, ClientResponseCut,
                       WebhookRequestCut, WebhookResponseCut, SqlProbeCut,
                       BusinessRequest, Delivery
<1> QED  BY <1>2, <1>3

\* The action under way is the one the plan holds for the state m, n is the
\* state the plan goes on from, and next the action that follows.
StepOf(m, n, next) ==
    /\ failure = NoValue
    /\ ValidPlanSpec(spec) /\ Sound(spec, m) /\ Sound(spec, n)
    /\ m.phase # "Complete" /\ Real(m)
    /\ current.kind \in ActionKinds /\ PlannedIn(spec, m, current)
    /\ LeadsTo(m, current, n) /\ Ambiguity(m, current, n) /\ Cuts(next)
    /\ sources' = Reserve(sources, current) /\ current' = next
    /\ UNCHANGED <<spec, application>>

\* What the action has to come to.
Outcome(n) ==
    /\ failure' # NoValue => diverged' /\ case'.checkpoint = NoValue
    /\ Faulty => ~diverged'
    /\ failure' = NoValue => Real(n)'

\* The input of an action is among the captures.
LEMMA InputIsCaptured ==
    ASSUME NEW m, NEW n, NEW next, StepOf(m, n, next)
    PROVE  /\ Resolves(sources, captured, current)
           /\ current.kind \in ConfirmKinds \cup {"RetrievePaymentIntent", "GenerateProviderEvent"} =>
                 /\ sources.objects # <<>>
                 /\ Input \in Known(fixture.stripe)
           /\ current.kind \in ConfirmKinds \cup {"RetrievePaymentIntent"} =>
                 Input = ActiveIntent
           /\ current.kind = "ReleaseProviderGate" => Input = provider.pending.gate
<1> USE DEF ConfirmKinds
<1> DEFINE k == Len(sources.objects)
           i == (sources.generated % k) + 1
<1>1. /\ m.objects = k /\ Traces(sources, captured, Known(fixture.stripe), m.phase \in Early)
      /\ sources.objects \in Seq(Refs) /\ k \in Nat /\ sources.generated \in Nat
      /\ HeldPart(m)
  BY LenProperties DEF StepOf, Real, TracePart, Types, Sources
<1>2. current.kind \in {"ConfirmPaymentIntent", "RetryProviderRequest", "RetrievePaymentIntent",
                        "GenerateProviderEvent"} => m.objects \in Nat \ {0}
  <2>1. /\ ObjectsBounded(m) /\ IsModel(m) /\ PlannedIn(spec, m, current)
    BY DEF StepOf, Sound
  <2> QED  BY <2>1 DEF ObjectsBounded, BeforePayment, PlannedIn, IsModel
<1>3. CASE current.kind \in {"ConfirmPaymentIntent", "RetryProviderRequest", "RetrievePaymentIntent"}
  <2>1. k \in 1 .. k /\ sources.objects # <<>>
    BY <1>1, <1>2, <1>3
  <2>2. sources.active \in DOMAIN captured /\ captured[sources.active] \in Known(fixture.stripe)
    BY <1>1, <2>1 DEF Traces
  <2>3. InputOf(sources, current) = sources.active
    BY <1>3 DEF InputOf
  <2> QED  BY <1>3, <2>1, <2>2, <2>3 DEF Resolves, Input, ActiveIntent
<1>4. CASE current.kind = "GenerateProviderEvent"
  <2>1. k \in Nat \ {0} /\ sources.objects # <<>>
    BY <1>1, <1>2, <1>4
  <2>2. i \in 1 .. k
    BY <1>1, <2>1
  <2>3. InputOf(sources, current) = sources.objects[i]
    BY <1>4, <2>1 DEF InputOf
  <2> HIDE DEF i
  <2>4. sources.objects[i] \in DOMAIN captured /\ captured[sources.objects[i]] \in Known(fixture.stripe)
    BY <1>1, <2>2 DEF Traces
  <2> QED  BY <1>4, <2>1, <2>3, <2>4 DEF Resolves, Input
<1>5. CASE current.kind = "ReleaseProviderGate"
  <2>1. m.phase \in {"CheckoutResponseHeld", "ConfirmResponseHeld"}
    BY <1>5 DEF StepOf, PlannedIn
  <2>2. sources.gate \in DOMAIN captured /\ captured[sources.gate] = provider.pending.gate
    BY <1>1, <2>1 DEF HeldPart
  <2>3. InputOf(sources, current) = sources.gate
    BY <1>5 DEF InputOf
  <2> QED  BY <1>5, <2>2, <2>3 DEF Resolves, Input
<1>6. CASE ~TakesInput(current)
  BY <1>6 DEF TakesInput, Resolves
<1> QED  BY <1>3, <1>4, <1>5, <1>6 DEF TakesInput

-----------------------------------------------------------------------------
(* What the steps that leave a part of the state alone keep of it.           *)

\* The adapter that is told what the other did keeps its own state.
LEMMA ProviderSynchronized ==
    ASSUME NEW p \in ProviderStates, NEW own, own.control \in Nat, own.observations \in Nat
    PROVE  LET q == Synchronize(p, own) IN
           /\ q \in ProviderStates
           /\ q.pending = p.pending /\ q.response = p.response /\ q.known = p.known
           /\ q.recovered = p.recovered
           /\ q.control = own.control /\ q.observations = own.observations
BY DEF ProviderStates, Synchronize

\* What the provider adapter did, the webhook adapter knows.
LEMMA WebhookSynchronized ==
    ASSUME NEW w \in WebhookStates, NEW own, own.control \in Nat, own.observations \in Nat
    PROVE  LET q == Synchronize(w, own) IN
           /\ q \in WebhookStates
           /\ q.queue = w.queue /\ q.generated = w.generated /\ q.last = w.last
           /\ q.request = w.request /\ q.response = w.response
           /\ q.control = own.control /\ q.observations = own.observations
BY DEF WebhookStates, Synchronize

\* Which parts of the state an action finds itself in.
LEMMA RealParts ==
    ASSUME NEW m, NEW n, NEW next, StepOf(m, n, next)
    PROVE  /\ fixture \in Fixtures /\ app \in Apps /\ provider \in ProviderStates
           /\ webhook \in WebhookStates /\ observed \in Nat /\ sources \in Sources
           /\ Provides(fixture.stripe) /\ Fresh(fixture.stripe)
           /\ provider.control = fixture.command /\ webhook.control = fixture.command
           /\ provider.observations = observed /\ webhook.observations = observed
           /\ fixture.command \in Nat /\ fixture.gates \in SUBSET Nat
           /\ fixture.nextGate \in Nat
           /\ m.phase # "Quiesced" => NotQuiesced
           /\ InStep
           /\ current.kind # "RestartAndAwaitHealth" => app.up /\ case.healthy
           /\ m.phase \notin {"CheckoutResponseHeld", "ConfirmResponseHeld"} =>
                 provider.pending = NoValue /\ fixture.gates = {}
           /\ current.kind # "KillApplication" =>
                 /\ provider.response = NoValue
                 /\ webhook.request = NoValue /\ webhook.response = NoValue
                 /\ fixture.request = NoValue /\ fixture.response = NoValue
<1>1. Types /\ ProviderPart /\ ControlPart(m) /\ HeldPart(m) /\ CutPart
  BY DEF StepOf, Real
<1>2. fixture.stripe \in Stripe!Providers /\ fixture.command \in Nat
      /\ fixture.gates \in SUBSET Nat /\ fixture.nextGate \in Nat
  BY <1>1 DEF Types, Fixtures
<1>3. m.phase \in Phases /\ m.phase # "Complete" /\ m.healthy \in BOOLEAN
  BY DEF StepOf, Sound, IsModel
<1>4. m.phase # "Quiesced" => NotQuiesced
  BY <1>1, <1>3 DEF ControlPart, NotQuiesced
<1>5. current.kind # "RestartAndAwaitHealth" => app.up /\ case.healthy
  BY <1>1, <1>3 DEF ControlPart, StepOf, PlannedIn
<1>6. m.phase \notin {"CheckoutResponseHeld", "ConfirmResponseHeld"} =>
          provider.pending = NoValue /\ fixture.gates = {}
  BY <1>1 DEF HeldPart
<1>7. current.kind # "KillApplication" =>
                 /\ provider.response = NoValue
                 /\ webhook.request = NoValue /\ webhook.response = NoValue
                 /\ fixture.request = NoValue /\ fixture.response = NoValue
  <2>1. NoValue \notin CutPoints
    BY NoValueAssumption
  <2>2. current.kind # "KillApplication" => Cut(current) = NoValue
    BY DEF Cut
  <2> QED  BY <1>1, <2>1, <2>2 DEF CutPart, CutPoints
<1> QED  BY <1>1, <1>2, <1>4, <1>5, <1>6, <1>7
         DEF Types, ProviderPart, ControlPart, Provides, InStep

\* Without a kill to follow nothing is held for one.
LEMMA NothingToCut ==
    ASSUME NEW m, NEW n, NEW next, StepOf(m, n, next),
           current.kind \notin BusinessRequest \cup Delivery,
           provider'.response = NoValue,
           webhook'.request = NoValue, webhook'.response = NoValue,
           fixture'.request = NoValue, fixture'.response = NoValue
    PROVE  CutPart'
<1>1. NoValue \notin CutPoints
  BY NoValueAssumption
<1>2. Cut(current)' = NoValue
  BY DEF StepOf, Cuts, Cut
<1> QED  BY <1>1, <1>2 DEF CutPart, CutPoints

\* An action that captures nothing keeps the traces of the objects.
LEMMA TracesStay ==
    ASSUME NEW m, NEW n, NEW next, StepOf(m, n, next),
           current.kind \notin BusinessRequest,
           current.kind \in ConfirmKinds => TerminalOutcome(current.script) # "CommitThenDelay",
           captured' = captured, Known(fixture'.stripe) = Known(fixture.stripe)
    PROVE  /\ TracePart(n)' /\ sources' \in Sources
           /\ sources'.objects = sources.objects /\ sources'.active = sources.active
           /\ current.kind # "ReleaseProviderGate" => sources'.gate = sources.gate
           /\ sources'.generated
                 = sources.generated + IF current.kind = "GenerateProviderEvent" THEN 1 ELSE 0
           /\ ActiveIntent' = ActiveIntent
<1>1. /\ sources \in Sources /\ m.objects = Len(sources.objects)
      /\ Traces(sources, captured, Known(fixture.stripe), m.phase \in Early)
  BY DEF StepOf, Real, TracePart, Types
<1>2. n.objects = m.objects /\ (n.phase \in Early => m.phase \in Early)
  <2>1. LeadsTo(m, current, n) /\ PlannedIn(spec, m, current) /\ current.kind \in ActionKinds
    BY DEF StepOf
  <2> QED  BY <2>1 DEF LeadsTo, PlannedIn, Early, BusinessRequest, ConfirmKinds, Delivery,
                       ActionKinds
<1>3. sources' = Reserve(sources, current)
  BY DEF StepOf
<1> DEFINE t == Reserve(sources, current)
<1>4. /\ t \in Sources /\ t.objects = sources.objects /\ t.active = sources.active
      /\ Traces(t, captured, Known(fixture.stripe), n.phase \in Early)
      /\ current.kind # "ReleaseProviderGate" => t.gate = sources.gate
      /\ t.generated = sources.generated
                       + IF current.kind = "GenerateProviderEvent" THEN 1 ELSE 0
  <2> DEFINE known == Known(fixture.stripe)
             early == m.phase \in Early
             later == n.phase \in Early
  <2>1. sources \in Sources /\ Traces(sources, captured, known, early) /\ (later => early)
    BY <1>1, <1>2
  <2> HIDE DEF known, early, later
  <2>2. LET r == Reserve(sources, current) IN
        /\ r \in Sources /\ r.objects = sources.objects /\ r.active = sources.active
        /\ Traces(r, captured, known, later)
        /\ current.kind \notin ConfirmKinds \cup {"ReleaseProviderGate"} => r.gate = sources.gate
        /\ current.kind \in ConfirmKinds /\ TerminalOutcome(current.script) # "CommitThenDelay" =>
              r.gate = sources.gate
        /\ r.generated = sources.generated
                         + IF current.kind = "GenerateProviderEvent" THEN 1 ELSE 0
    BY <2>1, TracesKept
  <2> QED  BY <2>2 DEF known, later
<1> HIDE DEF t
<1>5. sources' = t
  BY <1>3 DEF t
<1>6. TracePart(n)'
  BY <1>1, <1>2, <1>4, <1>5 DEF TracePart
<1>7. ActiveIntent' = ActiveIntent
  BY <1>4, <1>5 DEF ActiveIntent
<1> QED  BY <1>4, <1>5, <1>6, <1>7

\* The payment under way stays as it is unless it is confirmed.
LEMMA StatusStays ==
    ASSUME NEW m, NEW n, NEW next, StepOf(m, n, next),
           current.kind \notin BusinessRequest \cup ConfirmKinds,
           Extends(fixture.stripe, fixture'.stripe),
           Len(fixture'.stripe.intents) = Len(fixture.stripe.intents),
           ActiveIntent' = ActiveIntent
    PROVE  StatusPart(n)'
<1>1. /\ StatusPart(m) /\ Provides(fixture.stripe)
      /\ sources.objects \in Seq(Refs) /\ m.objects = Len(sources.objects)
      /\ Traces(sources, captured, Known(fixture.stripe), m.phase \in Early)
  BY RealParts DEF StepOf, Real, TracePart, Sources
<1>2. LeadsTo(m, current, n) /\ PlannedIn(spec, m, current) /\ current.kind \in ActionKinds
      /\ Ambiguity(m, current, n) /\ Sound(spec, m) /\ application' = application
  BY DEF StepOf
<1> DEFINE Done(x) == \/ x.phase \in {"ConfirmResponseHeld", "Confirmed", "Events", "Quiesced", "Complete"}
                      \/ x.phase = "ConfirmRetryable" /\ x.ambiguous
<1>3. n.objects = m.objects /\ (Done(n) => Done(m))
  BY <1>2 DEF LeadsTo, PlannedIn, Ambiguity, BusinessRequest, ConfirmKinds, Delivery,
              ActionKinds
<1>4. Done(m) => ActiveIntent \in Known(fixture.stripe)
  <2> SUFFICES ASSUME Done(m) PROVE ActiveIntent \in Known(fixture.stripe)
    OBVIOUS
  <2>1. m.objects \in Nat \ {0}
    BY <1>2 DEF Sound, ObjectsBounded, BeforePayment, IsModel
  <2>2. m.objects \in 1 .. Len(sources.objects) /\ sources.objects # <<>>
    BY <1>1, <2>1
  <2>3. sources.active = sources.objects[Len(sources.objects)]
    BY <1>1, <2>2 DEF Traces
  <2> QED  BY <1>1, <2>2, <2>3 DEF Traces, ActiveIntent
<1>5. Done(n) => StatusOf(fixture'.stripe, ActiveIntent') = "Succeeded"
  <2> SUFFICES ASSUME Done(n) PROVE StatusOf(fixture'.stripe, ActiveIntent') = "Succeeded"
    OBVIOUS
  <2>1. StatusOf(fixture.stripe, ActiveIntent) = "Succeeded"
    BY <1>1, <1>3 DEF StatusPart
  <2>2. StatusOf(fixture'.stripe, ActiveIntent) = "Succeeded"
    BY <1>1, <1>3, <1>4, <2>1, ExtendsFacts
  <2> QED  BY <2>2
<1>6. Faulty' => n.objects = Len(fixture'.stripe.intents)
  BY <1>1, <1>2, <1>3 DEF StatusPart, Faulty
<1> QED  BY <1>5, <1>6 DEF StatusPart

\* No event is lost, and none is queued that was not generated.
LEMMA EventsStay ==
    ASSUME NEW m, NEW n, NEW next, StepOf(m, n, next),
           current.kind \in BusinessRequest \cup ConfirmKinds
               \cup {"RetrievePaymentIntent", "ReleaseProviderGate", "KillApplication",
                     "RestartAndAwaitHealth", "WaitForQuiescence", "CheckCheckpoint"},
           webhook'.queue = webhook.queue, webhook'.generated = webhook.generated,
           webhook'.last = webhook.last,
           Extends(fixture.stripe, fixture'.stripe),
           sources'.generated = sources.generated,
           sources.generated # 0 => sources'.objects = sources.objects /\ captured' = captured
    PROVE  EventPart(n)'
<1>1. /\ EventPart(m) /\ Provides(fixture.stripe) /\ webhook \in WebhookStates
      /\ sources.generated \in Nat
  BY RealParts DEF StepOf, Real, Sources
<1>2. /\ LeadsTo(m, current, n) /\ PlannedIn(spec, m, current) /\ current.kind \in ActionKinds
      /\ m.generated \in Nat /\ m.objects \in Nat /\ spec' = spec
  BY DEF StepOf, Sound, IsModel
<1>3. webhook.queue \in Seq([event: Nat, delayed: BOOLEAN]) /\ Len(webhook.queue) \in Nat
  BY <1>1, LenProperties DEF WebhookStates
<1>4. /\ n.phase = "Events" => m.phase = "Events" /\ Counts(m, n)
      /\ n.phase # "Events" => \/ m.phase # "Events"
                               \/ m.phase = "Events" /\ m.pending = 0
      /\ n.phase \notin {"Events", "Quiesced", "Complete"} =>
            m.phase \notin {"Events", "Quiesced", "Complete"}
      /\ n.phase \in {"Quiesced", "Complete"} =>
            /\ n.objects = m.objects
            /\ \/ m.phase \in {"Quiesced", "Complete"}
               \/ m.phase = "Events" /\ ~(m.generated < TargetEvents(spec, m.objects))
  BY <1>2 DEF LeadsTo, PlannedIn, BusinessRequest, ConfirmKinds, Delivery, ActionKinds,
              PhaseAfter, Counts
<1>5. n.phase # "Events" => webhook'.queue = <<>>
  <2> SUFFICES ASSUME n.phase # "Events" PROVE webhook.queue = <<>>
    OBVIOUS
  <2>1. CASE m.phase # "Events"
    BY <1>1, <2>1 DEF EventPart
  <2>2. CASE m.phase = "Events" /\ m.pending = 0
    BY <1>1, <1>3, <2>2, EmptySeq DEF EventPart
  <2> QED  BY <1>4, <2>1, <2>2
<1>6. n.phase = "Events" =>
        /\ n.pending = Len(webhook'.queue) /\ n.generated = sources'.generated
        /\ ~n.delayUsed => \A i \in DOMAIN webhook'.queue : ~webhook'.queue[i].delayed
        /\ n.delivered > 0 => webhook'.last # NoValue
  BY <1>1, <1>4 DEF EventPart, Counts
<1>7. n.phase \notin {"Events", "Quiesced", "Complete"} => sources'.generated = 0
  BY <1>1, <1>4 DEF EventPart
<1>8. n.phase \in {"Quiesced", "Complete"} =>
        sources'.generated >= TargetEvents(spec, n.objects)
  <2> SUFFICES ASSUME n.phase \in {"Quiesced", "Complete"}
               PROVE  sources.generated >= TargetEvents(spec, m.objects)
    BY <1>4
  <2>1. TargetEvents(spec, m.objects) \in Nat
    BY <1>2 DEF TargetEvents, EventsPerObject
  <2>2. CASE m.phase \in {"Quiesced", "Complete"}
    BY <1>1, <2>2 DEF EventPart
  <2>3. CASE m.phase = "Events" /\ ~(m.generated < TargetEvents(spec, m.objects))
    BY <1>1, <1>2, <2>1, <2>3 DEF EventPart
  <2> QED  BY <1>4, <2>2, <2>3
<1>9. /\ DOMAIN fixture.stripe.events \subseteq DOMAIN fixture'.stripe.events
      /\ \A i \in DOMAIN fixture.stripe.events :
            fixture'.stripe.events[i] = fixture.stripe.events[i]
      /\ \A id, kind : Stripe!HasEvent(fixture.stripe, id, kind) =>
                         Stripe!HasEvent(fixture'.stripe, id, kind)
  BY <1>1, ExtendsFacts DEF Extends
<1>10. \A e \in webhook'.generated :
        /\ e[1] \in DOMAIN fixture'.stripe.events
        /\ fixture'.stripe.events[e[1]].intent = e[2]
        /\ spec.allowStale => Stripe!HasEvent(fixture'.stripe, e[2], "RequiresConfirmation")
  BY <1>1, <1>9 DEF EventPart
<1>11. \A k \in 0 .. sources'.generated - 1 : Reported(k)'
  <2> SUFFICES ASSUME NEW k \in 0 .. sources.generated - 1 PROVE Reported(k)'
    OBVIOUS
  <2>1. Reported(k) /\ sources'.objects = sources.objects /\ captured' = captured
    BY <1>1 DEF EventPart
  <2> QED  BY <1>2, <1>9, <2>1 DEF Reported
<1> QED  BY <1>2, <1>5, <1>6, <1>7, <1>8, <1>10, <1>11 DEF EventPart

\* What is held stays held.
LEMMA HeldStays ==
    ASSUME NEW m, NEW n, NEW next, StepOf(m, n, next),
           current.kind \notin BusinessRequest \cup ConfirmKinds
               \cup {"ReleaseProviderGate", "KillApplication"},
           provider'.pending = provider.pending, fixture'.gates = fixture.gates,
           app'.waiting = app.waiting, captured' = captured,
           sources'.gate = sources.gate,
           Known(fixture'.stripe) = Known(fixture.stripe)
    PROVE  HeldPart(n)'
<1>1. HeldPart(m) /\ LeadsTo(m, current, n) /\ PlannedIn(spec, m, current)
      /\ current.kind \in ActionKinds
  BY DEF StepOf, Real
<1>2. \/ n.phase = m.phase
      \/ /\ n.phase \notin {"CheckoutResponseHeld", "ConfirmResponseHeld"}
         /\ m.phase \notin {"CheckoutResponseHeld", "ConfirmResponseHeld"}
  BY <1>1 DEF LeadsTo, PlannedIn, BusinessRequest, ConfirmKinds, Delivery, ActionKinds
<1> QED  BY <1>1, <1>2 DEF HeldPart

\* The case is open and the process is up, before and after.
LEMMA ControlStays ==
    ASSUME NEW m, NEW n, NEW next, StepOf(m, n, next),
           current.kind \notin {"KillApplication", "RestartAndAwaitHealth",
                                "WaitForQuiescence", "CheckCheckpoint"},
           case'.healthy = case.healthy, case'.quiescence = case.quiescence,
           case'.checkpoint = case.checkpoint, app'.up = app.up,
           provider'.control = fixture'.command, webhook'.control = fixture'.command,
           provider'.observations = observed', webhook'.observations = observed'
    PROVE  ControlPart(n)'
<1>1. /\ ControlPart(m) /\ LeadsTo(m, current, n) /\ PlannedIn(spec, m, current)
      /\ current.kind \in ActionKinds /\ m.healthy \in BOOLEAN /\ n.healthy \in BOOLEAN
  BY DEF StepOf, Real, Sound, IsModel
<1>2. /\ n.phase \notin {"Start", "Quiesced", "Complete"}
      /\ m.phase \notin {"Quiesced", "Complete"} /\ n.healthy /\ m.healthy
  BY <1>1 DEF LeadsTo, PlannedIn, BusinessRequest, ConfirmKinds, Delivery, ActionKinds,
              PhaseAfter
<1> QED  BY <1>1, <1>2 DEF ControlPart

\* A provider that only stays the same extends what it was.
LEMMA SameExtends ==
    ASSUME NEW p, Provides(p)
    PROVE  Extends(p, p)
BY ProviderShape DEF Extends

-----------------------------------------------------------------------------
(* The steps that only read, and the end of the case.                        *)

\* A payment that is retrieved was created before.
LEMMA RetrieveStep ==
    ASSUME NEW m, NEW n, NEW next, StepOf(m, n, next), RetrievePaymentIntent(next)
    PROVE  Outcome(n)
<1>1. /\ current.kind = "RetrievePaymentIntent"
      /\ webhook' = Synchronize(webhook, provider)
      /\ Require(NotQuiesced /\ provider.pending = NoValue /\ InStep
                 /\ fixture.gates = {} /\ app.up
                 /\ NoOutputs /\ Input \in Known(fixture.stripe), "RetrievePaymentIntent")
      /\ UNCHANGED <<captured, fixture, app, provider, case, observed, diverged>>
  BY DEF RetrievePaymentIntent, RequireOpen, Running
<1>2. /\ m.phase \in {"CheckoutRetryable", "ConfirmRetryable"}
      /\ UNCHANGED application /\ ProviderPart /\ Types
  BY <1>1 DEF StepOf, PlannedIn, Real
<1>3. NoOutputs
  BY <1>1, NothingCaptured DEF NoOutputs, Complete, Outputs, BusinessRequest, ConfirmKinds
<1>4. failure' = NoValue
  BY <1>1, <1>2, <1>3, RealParts, InputIsCaptured DEF Require
<1>5. /\ fixture \in Fixtures /\ provider \in ProviderStates /\ webhook \in WebhookStates
      /\ Provides(fixture.stripe) /\ Extends(fixture.stripe, fixture.stripe)
      /\ provider.control = fixture.command /\ provider.observations = observed
      /\ provider.control \in Nat /\ provider.observations \in Nat
  BY RealParts, SameExtends DEF ProviderStates
<1>6. /\ webhook' \in WebhookStates
      /\ webhook'.queue = webhook.queue /\ webhook'.generated = webhook.generated
      /\ webhook'.last = webhook.last
      /\ webhook'.request = webhook.request /\ webhook'.response = webhook.response
      /\ webhook'.control = provider.control /\ webhook'.observations = provider.observations
  BY <1>1, <1>5, WebhookSynchronized
<1>7. /\ TracePart(n)' /\ sources' \in Sources
      /\ sources'.objects = sources.objects
      /\ sources'.gate = sources.gate /\ sources'.generated = sources.generated
      /\ ActiveIntent' = ActiveIntent
  <2>1. sources.generated \in Nat
    BY RealParts DEF Sources
  <2> QED  BY <1>1, <2>1, TracesStay DEF BusinessRequest, ConfirmKinds
<1>8. ControlPart(n)'
  BY <1>1, <1>5, <1>6, ControlStays
<1>9. HeldPart(n)'
  BY <1>1, <1>7, HeldStays DEF BusinessRequest, ConfirmKinds
<1>10. CutPart'
  BY <1>1, <1>6, RealParts, NothingToCut DEF BusinessRequest, Delivery
<1>11. EventPart(n)'
  BY <1>1, <1>5, <1>6, <1>7, EventsStay
<1>12. StatusPart(n)'
  BY <1>1, <1>5, <1>7, StatusStays DEF BusinessRequest, ConfirmKinds
<1>13. Types'
  BY <1>1, <1>2, <1>6, <1>7 DEF Types
<1>14. ProviderPart'
  BY <1>1, <1>2, <1>7 DEF ProviderPart, Faulty
<1>15. Faulty => ~diverged'
  BY <1>1, <1>2 DEF ProviderPart
<1> QED  BY <1>4, <1>7, <1>8, <1>9, <1>10, <1>11, <1>12, <1>13, <1>14, <1>15
         DEF Outcome, Real

\* A restart finds the process down.
LEMMA RestartStepOf ==
    ASSUME NEW m, NEW n, NEW next, StepOf(m, n, next), RestartAndAwaitHealth(next)
    PROVE  Outcome(n)
<1>1. /\ current.kind = "RestartAndAwaitHealth"
      /\ app' = [app EXCEPT !.up = TRUE]
      /\ case' = [case EXCEPT !.healthy = TRUE]
      /\ Require(~case.healthy, "RestartAndAwaitHealth")
      /\ UNCHANGED <<captured, fixture, provider, webhook, observed, diverged>>
  BY DEF RestartAndAwaitHealth, Running
<1>2. /\ ~m.healthy /\ n.healthy /\ n.phase = m.phase /\ m.phase # "Complete"
      /\ UNCHANGED application /\ ProviderPart /\ Types /\ ControlPart(m)
  BY <1>1 DEF StepOf, PlannedIn, Real, LeadsTo
<1>3. failure' = NoValue
  BY <1>1, <1>2 DEF Require, ControlPart
<1>4. /\ app \in Apps /\ DOMAIN case = CaseFields /\ Extends(fixture.stripe, fixture.stripe)
  BY <1>2, RealParts, SameExtends DEF Types
<1>5. /\ app' \in Apps /\ app'.up /\ app'.waiting = app.waiting
      /\ app'.persisted = app.persisted
      /\ DOMAIN case' = CaseFields /\ case'.healthy /\ case'.probe = case.probe
      /\ case'.healthy \in BOOLEAN
      /\ case'.quiescence = case.quiescence /\ case'.checkpoint = case.checkpoint
  BY <1>1, <1>4 DEF Apps, CaseFields
<1>6. /\ TracePart(n)' /\ sources' \in Sources
      /\ sources'.objects = sources.objects
      /\ sources'.gate = sources.gate /\ sources'.generated = sources.generated
      /\ ActiveIntent' = ActiveIntent
  <2>1. sources.generated \in Nat
    BY RealParts DEF Sources
  <2> QED  BY <1>1, <2>1, TracesStay DEF BusinessRequest, ConfirmKinds
<1>7. ControlPart(n)'
  BY <1>1, <1>2, <1>5 DEF ControlPart
<1>8. HeldPart(n)'
  BY <1>1, <1>5, <1>6, HeldStays DEF BusinessRequest, ConfirmKinds
<1>9. CutPart'
  BY <1>1, RealParts, NothingToCut DEF BusinessRequest, Delivery
<1>10. EventPart(n)'
  BY <1>1, <1>4, <1>6, EventsStay
<1>11. StatusPart(n)'
  BY <1>1, <1>4, <1>6, StatusStays DEF BusinessRequest, ConfirmKinds
<1>12. Types'
  BY <1>1, <1>2, <1>5, <1>6 DEF Types
<1>13. ProviderPart'
  BY <1>1, <1>2, <1>6 DEF ProviderPart, Faulty
<1>14. Faulty => ~diverged'
  BY <1>1, <1>2 DEF ProviderPart
<1> QED  BY <1>3, <1>6, <1>7, <1>8, <1>9, <1>10, <1>11, <1>12, <1>13, <1>14
         DEF Outcome, Real

\* No value stands for what is known, however much that is.
LEMMA KnownIsValue ==
    ASSUME NEW m, NEW n, NEW next, StepOf(m, n, next)
    PROVE  Known(fixture.stripe) # NoValue
<1>1. /\ Provides(fixture.stripe) /\ ProviderPart /\ m.objects = Len(sources.objects)
      /\ Sound(spec, m)
  BY RealParts DEF StepOf, Real, TracePart
<1>2. Len(fixture.stripe.intents) \in Nat /\ m.objects \in Nat /\ m.objects <= 12
  <2>1. m.attempts \in 0 .. 2 /\ m.phase \in Phases /\ m.kills \in 0 .. 1 /\ ObjectsBounded(m)
        /\ m.objects \in Nat
    BY <1>1 DEF Sound, IsModel
  <2>2. m.objects <= 12
    BY <2>1 DEF ObjectsBounded, BeforePayment
  <2> QED  BY <1>1, <2>1, <2>2, ProviderShape
<1>3. Len(fixture.stripe.intents) \in 0 .. MaxObjects
  <2> DEFINE a == Len(fixture.stripe.intents)
             b == m.objects
  <2>1. a \in Nat /\ b \in Nat /\ b <= 12 /\ a <= b
    BY <1>1, <1>2 DEF ProviderPart
  <2> HIDE DEF a, b
  <2>2. a \in 0 .. MaxObjects
    BY <2>1 DEF MaxObjects
  <2> QED  BY <2>2 DEF a
<1> QED  BY <1>1, <1>3, KnownIds, NoValueAssumption

\* Quiescence is reached: nothing is held, queued or left over.
LEMMA WaitStep ==
    ASSUME NEW m, NEW n, NEW next, StepOf(m, n, next), WaitForQuiescence(next)
    PROVE  Outcome(n)
<1>1. /\ current.kind = "WaitForQuiescence"
      /\ case' = [case EXCEPT !.quiescence = Known(fixture.stripe)]
      /\ Require(NotQuiesced /\ Quiet, "WaitForQuiescence")
      /\ UNCHANGED <<captured, fixture, app, provider, webhook, observed, diverged>>
  BY DEF WaitForQuiescence, Running
<1>2. /\ m.phase = "Events" /\ m.pending = 0 /\ n.phase = "Quiesced"
      /\ m.healthy /\ n.healthy
      /\ UNCHANGED application /\ ProviderPart /\ Types /\ ControlPart(m) /\ EventPart(m)
      /\ case.quiescence = NoValue /\ case.checkpoint = NoValue
  BY <1>1 DEF StepOf, PlannedIn, Real, LeadsTo, ControlPart
<1>3. webhook.queue = <<>>
  <2>1. webhook.queue \in Seq([event: Nat, delayed: BOOLEAN]) /\ Len(webhook.queue) = 0
    BY <1>2 DEF EventPart, Types, WebhookStates
  <2> QED  BY <2>1, EmptySeq
<1>4. failure' = NoValue
  BY <1>1, <1>2, <1>3, RealParts DEF Require, Quiet, Idle, ProviderPart
<1>5. DOMAIN case = CaseFields /\ Extends(fixture.stripe, fixture.stripe)
  BY <1>2, RealParts, SameExtends DEF Types
<1>6. /\ DOMAIN case' = CaseFields /\ case'.healthy = case.healthy /\ case'.probe = case.probe
      /\ case'.quiescence = Known(fixture.stripe) /\ case'.checkpoint = NoValue
  BY <1>1, <1>2, <1>5 DEF CaseFields
<1>7. /\ TracePart(n)' /\ sources' \in Sources
      /\ sources'.objects = sources.objects
      /\ sources'.gate = sources.gate /\ sources'.generated = sources.generated
      /\ ActiveIntent' = ActiveIntent
  <2>1. sources.generated \in Nat
    BY RealParts DEF Sources
  <2> QED  BY <1>1, <2>1, TracesStay DEF BusinessRequest, ConfirmKinds
<1>8. ControlPart(n)'
  BY <1>1, <1>2, <1>6 DEF ControlPart
<1>9. HeldPart(n)'
  BY <1>1, <1>7, HeldStays DEF BusinessRequest, ConfirmKinds
<1>10. CutPart'
  BY <1>1, RealParts, NothingToCut DEF BusinessRequest, Delivery
<1>11. EventPart(n)'
  BY <1>1, <1>5, <1>7, EventsStay
<1>12. StatusPart(n)'
  BY <1>1, <1>5, <1>7, StatusStays DEF BusinessRequest, ConfirmKinds
<1>13. Types'
  BY <1>1, <1>2, <1>6, <1>7 DEF Types
<1>14. ProviderPart'
  BY <1>1, <1>2, <1>7 DEF ProviderPart, Faulty
<1>15. Faulty => ~diverged'
  BY <1>1, <1>2 DEF ProviderPart
<1> QED  BY <1>4, <1>7, <1>8, <1>9, <1>10, <1>11, <1>12, <1>13, <1>14, <1>15
         DEF Outcome, Real

\* The checkpoint is taken of what quiescence found.
LEMMA CheckStep ==
    ASSUME NEW m, NEW n, NEW next, StepOf(m, n, next), CheckCheckpoint(next)
    PROVE  Outcome(n)
<1>1. /\ current.kind = "CheckCheckpoint"
      /\ case' = [case EXCEPT !.quiescence = NoValue, !.checkpoint = case.quiescence]
      /\ Require(NoOutputs /\ case.checkpoint = NoValue /\ case.quiescence # NoValue,
                 "CheckCheckpoint")
      /\ UNCHANGED <<captured, fixture, app, provider, webhook, observed, diverged>>
  BY DEF CheckCheckpoint, Running
<1>2. /\ m.phase = "Quiesced" /\ n.phase = "Complete" /\ m.healthy /\ n.healthy
      /\ UNCHANGED application /\ ProviderPart /\ Types /\ ControlPart(m)
      /\ case.quiescence = Known(fixture.stripe) /\ case.checkpoint = NoValue
  BY <1>1 DEF StepOf, PlannedIn, Real, LeadsTo, ControlPart
<1>3. NoOutputs
  BY <1>1, NothingCaptured DEF NoOutputs, Complete, Outputs, BusinessRequest, ConfirmKinds
<1>4. failure' = NoValue
  BY <1>1, <1>2, <1>3, KnownIsValue DEF Require
<1>5. DOMAIN case = CaseFields /\ Extends(fixture.stripe, fixture.stripe)
  BY <1>2, RealParts, SameExtends DEF Types
<1>6. /\ DOMAIN case' = CaseFields /\ case'.healthy = case.healthy /\ case'.probe = case.probe
      /\ case'.quiescence = NoValue /\ case'.checkpoint = Known(fixture.stripe)
  BY <1>1, <1>2, <1>5 DEF CaseFields
<1>7. /\ TracePart(n)' /\ sources' \in Sources
      /\ sources'.objects = sources.objects
      /\ sources'.gate = sources.gate /\ sources'.generated = sources.generated
      /\ ActiveIntent' = ActiveIntent
  <2>1. sources.generated \in Nat
    BY RealParts DEF Sources
  <2> QED  BY <1>1, <2>1, TracesStay DEF BusinessRequest, ConfirmKinds
<1>8. ControlPart(n)'
  BY <1>1, <1>2, <1>6 DEF ControlPart
<1>9. HeldPart(n)'
  BY <1>1, <1>7, HeldStays DEF BusinessRequest, ConfirmKinds
<1>10. CutPart'
  BY <1>1, RealParts, NothingToCut DEF BusinessRequest, Delivery
<1>11. EventPart(n)'
  BY <1>1, <1>5, <1>7, EventsStay
<1>12. StatusPart(n)'
  BY <1>1, <1>5, <1>7, StatusStays DEF BusinessRequest, ConfirmKinds
<1>13. Types'
  BY <1>1, <1>2, <1>6, <1>7 DEF Types
<1>14. ProviderPart'
  BY <1>1, <1>2, <1>7 DEF ProviderPart, Faulty
<1>15. Faulty => ~diverged'
  BY <1>1, <1>2 DEF ProviderPart
<1> QED  BY <1>4, <1>7, <1>8, <1>9, <1>10, <1>11, <1>12, <1>13, <1>14, <1>15
         DEF Outcome, Real

-----------------------------------------------------------------------------
(* The queue of events.                                                      *)

\* A queue as long as the plan takes it for holds what was generated.
LEMMA EventsQueued ==
    ASSUME NEW m, NEW n, NEW next, StepOf(m, n, next),
           current.kind \in Delivery \cup {"DropWebhook", "ReorderWebhooks", "DelayWebhook"},
           Len(webhook'.queue) = n.pending,
           ~n.delayUsed => \A i \in DOMAIN webhook'.queue : ~webhook'.queue[i].delayed,
           n.delivered > 0 => webhook'.last # NoValue,
           webhook'.generated = webhook.generated,
           fixture'.stripe = fixture.stripe, captured' = captured,
           sources'.generated = sources.generated, sources'.objects = sources.objects
    PROVE  EventPart(n)'
<1>1. EventPart(m) /\ sources.generated \in Nat /\ spec' = spec
  BY RealParts DEF StepOf, Real, Sources
<1>2. m.phase = "Events" /\ n.phase = "Events" /\ n.generated = m.generated
  BY DEF StepOf, PlannedIn, LeadsTo, Delivery
<1>3. \A k \in 0 .. sources'.generated - 1 : Reported(k)'
  <2> SUFFICES ASSUME NEW k \in 0 .. sources.generated - 1 PROVE Reported(k)'
    OBVIOUS
  <2>1. Reported(k)
    BY <1>1 DEF EventPart
  <2> QED  BY <1>1, <2>1 DEF Reported
<1> QED  BY <1>1, <1>2, <1>3 DEF EventPart

\* What is queued, while events are.
LEMMA QueueFacts ==
    ASSUME NEW m, NEW n, NEW next, StepOf(m, n, next), m.phase = "Events"
    PROVE  LET q == webhook.queue IN
           /\ q \in Queues /\ Len(q) = m.pending /\ m.pending \in Nat
           /\ DOMAIN q = 1 .. Len(q)
           /\ ~m.delayUsed => \A i \in DOMAIN q : ~q[i].delayed
           /\ m.delivered > 0 => webhook.last # NoValue
<1>1. EventPart(m) /\ webhook \in WebhookStates /\ m.pending \in Nat
  BY RealParts DEF StepOf, Real, Sound, IsModel
<1> QED  BY <1>1, LenProperties DEF EventPart, WebhookStates, Queues

\* Delaying, reordering and dropping only touch the queue.
LEMMA QueueStep ==
    ASSUME NEW m, NEW n, NEW next, StepOf(m, n, next), NEW q \in Queues,
           current.kind \in {"DropWebhook", "ReorderWebhooks", "DelayWebhook"},
           webhook' = [webhook EXCEPT !.queue = q],
           provider' = Synchronize(provider, webhook),
           NotQuiesced /\ NoOutputs => failure' = NoValue,
           UNCHANGED <<captured, fixture, app, case, observed, diverged>>,
           Len(q) = n.pending,
           ~n.delayUsed => \A i \in DOMAIN q : ~q[i].delayed
    PROVE  Outcome(n)
<1>1. /\ webhook' = [webhook EXCEPT !.queue = q]
      /\ provider' = Synchronize(provider, webhook)
      /\ UNCHANGED <<captured, fixture, app, case, observed, diverged>>
  OBVIOUS
<1>2. /\ m.phase = "Events" /\ n.delivered = m.delivered
      /\ UNCHANGED application /\ ProviderPart /\ Types /\ EventPart(m)
      /\ m.delivered \in Nat
  BY <1>1 DEF StepOf, PlannedIn, LeadsTo, Real, Delivery, Sound, IsModel
<1>3. NoOutputs
  BY NothingCaptured DEF NoOutputs, Complete, Outputs, BusinessRequest, ConfirmKinds
<1>4. failure' = NoValue
  BY <1>2, <1>3, RealParts
<1>5. /\ provider \in ProviderStates /\ webhook \in WebhookStates
      /\ webhook.control = fixture.command /\ webhook.observations = observed
      /\ webhook.control \in Nat /\ webhook.observations \in Nat
      /\ Extends(fixture.stripe, fixture.stripe)
  BY RealParts, SameExtends DEF WebhookStates
<1>6. /\ provider' \in ProviderStates
      /\ provider'.pending = provider.pending /\ provider'.response = provider.response
      /\ provider'.known = provider.known /\ provider'.recovered = provider.recovered
      /\ provider'.control = webhook.control /\ provider'.observations = webhook.observations
  BY <1>1, <1>5, ProviderSynchronized
<1>7. /\ webhook' \in WebhookStates /\ webhook'.queue = q
      /\ webhook'.generated = webhook.generated /\ webhook'.last = webhook.last
      /\ webhook'.request = webhook.request /\ webhook'.response = webhook.response
      /\ webhook'.control = webhook.control /\ webhook'.observations = webhook.observations
  BY <1>1, <1>5 DEF WebhookStates, Queues
<1>8. /\ TracePart(n)' /\ sources' \in Sources
      /\ sources'.objects = sources.objects
      /\ sources'.gate = sources.gate /\ sources'.generated = sources.generated
      /\ ActiveIntent' = ActiveIntent
  <2>1. sources.generated \in Nat
    BY RealParts DEF Sources
  <2> QED  BY <1>1, <2>1, TracesStay DEF BusinessRequest, ConfirmKinds
<1>9. ControlPart(n)'
  BY <1>1, <1>5, <1>6, <1>7, ControlStays
<1>10. HeldPart(n)'
  BY <1>1, <1>6, <1>8, HeldStays DEF BusinessRequest, ConfirmKinds
<1>11. CutPart'
  BY <1>1, <1>6, <1>7, RealParts, NothingToCut DEF BusinessRequest, Delivery
<1>12. EventPart(n)'
  BY <1>1, <1>2, <1>7, <1>8, EventsQueued DEF EventPart
<1>13. StatusPart(n)'
  BY <1>1, <1>5, <1>8, StatusStays DEF BusinessRequest, ConfirmKinds
<1>14. Types'
  BY <1>1, <1>2, <1>6, <1>7, <1>8 DEF Types
<1>15. ProviderPart'
  BY <1>1, <1>2, <1>6, <1>8 DEF ProviderPart, Faulty
<1>16. Faulty => ~diverged'
  BY <1>1, <1>2 DEF ProviderPart
<1> QED  BY <1>4, <1>8, <1>9, <1>10, <1>11, <1>12, <1>13, <1>14, <1>15, <1>16
         DEF Outcome, Real

\* Dropping the first event shortens the queue.
LEMMA DropStep ==
    ASSUME NEW m, NEW n, NEW next, StepOf(m, n, next), DropWebhook(next)
    PROVE  Outcome(n)
<1> DEFINE q == webhook.queue
           ok == q # <<>>
           r == Tail(q)
<1>1. /\ current.kind = "DropWebhook"
      /\ webhook' = [webhook EXCEPT !.queue = IF ok THEN r ELSE @]
      /\ provider' = Synchronize(provider, webhook)
      /\ NotQuiesced /\ NoOutputs /\ ok => failure' = NoValue
      /\ UNCHANGED <<captured, fixture, app, case, observed, diverged>>
  BY DEF DropWebhook, QueueAction, Running, RequireOpen, Require
<1>2. /\ m.phase = "Events" /\ m.pending > 0 /\ n.pending = m.pending - 1
      /\ (n.delayUsed <=> m.delayUsed)
  BY <1>1 DEF StepOf, PlannedIn, LeadsTo, Delivery
<1>3. /\ q \in Queues /\ Len(q) = m.pending /\ m.pending \in Nat /\ DOMAIN q = 1 .. Len(q)
      /\ ~m.delayUsed => \A i \in DOMAIN q : ~q[i].delayed
  BY <1>2, QueueFacts
<1> HIDE DEF q
<1>4. q # <<>>
  BY <1>2, <1>3
<1>5. /\ r \in Queues /\ Len(r) = m.pending - 1
      /\ \A i \in DOMAIN r : i + 1 \in DOMAIN q /\ r[i] = q[i + 1]
  <2>1. r \in Queues /\ Len(r) = Len(q) - 1 /\ \A i \in 1 .. Len(r) : r[i] = q[i + 1]
    BY <1>3, <1>4, HeadTailProperties DEF Queues
  <2>2. DOMAIN r = 1 .. Len(r) /\ Len(r) \in Nat
    BY <2>1, LenProperties DEF Queues
  <2> HIDE DEF r
  <2> QED  BY <1>3, <2>1, <2>2
<1>6. ~n.delayUsed => \A i \in DOMAIN r : ~r[i].delayed
  BY <1>2, <1>3, <1>5
<1> HIDE DEF r, ok
<1>7. ok /\ Len(r) = n.pending
      /\ webhook' = [webhook EXCEPT !.queue = r]
  BY <1>1, <1>2, <1>4, <1>5 DEF ok
<1> QED  BY <1>1, <1>5, <1>6, <1>7, QueueStep

\* Reordering swaps the first two events.
LEMMA ReorderStep ==
    ASSUME NEW m, NEW n, NEW next, StepOf(m, n, next), ReorderWebhooks(next)
    PROVE  Outcome(n)
<1> DEFINE q == webhook.queue
           ok == Len(q) >= 2
           r == [q EXCEPT ![1] = q[2], ![2] = q[1]]
<1>1. /\ current.kind = "ReorderWebhooks"
      /\ webhook' = [webhook EXCEPT !.queue = IF ok THEN r ELSE @]
      /\ provider' = Synchronize(provider, webhook)
      /\ NotQuiesced /\ NoOutputs /\ ok => failure' = NoValue
      /\ UNCHANGED <<captured, fixture, app, case, observed, diverged>>
  BY DEF ReorderWebhooks, QueueAction, Running, RequireOpen, Require
<1>2. /\ m.phase = "Events" /\ m.pending >= 2 /\ n.pending = m.pending
      /\ (n.delayUsed <=> m.delayUsed)
  <2>1. /\ m.phase = "Events" /\ m.pending >= 2 /\ n.pending = m.pending - 0 /\ m.pending \in Nat
        /\ (n.delayUsed <=> m.delayUsed)
    BY <1>1 DEF StepOf, PlannedIn, LeadsTo, Delivery, Sound, IsModel
  <2> QED  BY <2>1
<1>3. /\ q \in Queues /\ Len(q) = m.pending /\ m.pending \in Nat /\ DOMAIN q = 1 .. Len(q)
      /\ ~m.delayUsed => \A i \in DOMAIN q : ~q[i].delayed
  BY <1>2, QueueFacts
<1> HIDE DEF q
<1>4. 1 \in DOMAIN q /\ 2 \in DOMAIN q
  BY <1>2, <1>3
<1>5. /\ r \in Queues /\ Len(r) = m.pending /\ DOMAIN r = DOMAIN q
      /\ \A i \in DOMAIN r : \E j \in DOMAIN q : r[i] = q[j]
  <2>1. /\ DOMAIN r = DOMAIN q /\ r[1] = q[2] /\ r[2] = q[1]
        /\ \A i \in DOMAIN q \ {1, 2} : r[i] = q[i]
    BY <1>4
  <2>2. r \in Queues
    <3> DEFINE u == [q EXCEPT ![1] = q[2]]
               T == [event: Nat, delayed: BOOLEAN]
    <3>1. q \in Seq(T) /\ 1 \in 1 .. Len(q) /\ 2 \in 1 .. Len(q)
      BY <1>3, <1>4 DEF Queues
    <3> HIDE DEF T
    <3>2. q[1] \in T /\ q[2] \in T
      BY <3>1, ElementOfSeq
    <3>3. u \in Seq(T) /\ Len(u) = Len(q)
      BY <3>1, <3>2, ExceptSeq
    <3>4. r = [u EXCEPT ![2] = q[1]]
      BY <1>4
    <3> HIDE DEF u, r
    <3>5. r \in Seq(T)
      BY <3>1, <3>2, <3>3, <3>4, ExceptSeq
    <3> QED  BY <3>5 DEF Queues, T
  <2>3. DOMAIN r = 1 .. Len(r) /\ Len(r) \in Nat
    BY <2>2, LenProperties DEF Queues
  <2> HIDE DEF r
  <2>4. Len(r) = Len(q)
    BY <1>3, <2>1, <2>3
  <2> QED  BY <1>3, <1>4, <2>1, <2>2, <2>4
<1>6. ~n.delayUsed => \A i \in DOMAIN r : ~r[i].delayed
  BY <1>2, <1>3, <1>5
<1> HIDE DEF r, ok
<1>7. ok /\ Len(r) = n.pending
      /\ webhook' = [webhook EXCEPT !.queue = r]
  BY <1>1, <1>2, <1>3, <1>5 DEF ok
<1> QED  BY <1>1, <1>5, <1>6, <1>7, QueueStep

\* Delaying marks the first event, which no one has delayed before.
LEMMA DelayStep ==
    ASSUME NEW m, NEW n, NEW next, StepOf(m, n, next), DelayWebhook(next)
    PROVE  Outcome(n)
<1> DEFINE q == webhook.queue
           ok == q # <<>> /\ ~q[1].delayed
           r == [q EXCEPT ![1].delayed = TRUE]
<1>1. /\ current.kind = "DelayWebhook"
      /\ webhook' = [webhook EXCEPT !.queue = IF ok THEN r ELSE @]
      /\ provider' = Synchronize(provider, webhook)
      /\ NotQuiesced /\ NoOutputs /\ ok => failure' = NoValue
      /\ UNCHANGED <<captured, fixture, app, case, observed, diverged>>
  BY DEF DelayWebhook, QueueAction, Running, RequireOpen, Require
<1>2. /\ m.phase = "Events" /\ m.pending > 0 /\ n.pending = m.pending
      /\ n.delayUsed /\ ~m.delayUsed
  <2>1. /\ m.phase = "Events" /\ m.pending > 0 /\ n.pending = m.pending - 0 /\ m.pending \in Nat
        /\ n.delayUsed /\ ~m.delayUsed
    BY <1>1 DEF StepOf, PlannedIn, LeadsTo, Delivery, Sound, IsModel
  <2> QED  BY <2>1
<1>3. /\ q \in Queues /\ Len(q) = m.pending /\ m.pending \in Nat /\ DOMAIN q = 1 .. Len(q)
      /\ ~m.delayUsed => \A i \in DOMAIN q : ~q[i].delayed
  BY <1>2, QueueFacts
<1> HIDE DEF q
<1>4. 1 \in DOMAIN q /\ q # <<>> /\ ~q[1].delayed
  BY <1>2, <1>3
<1>5. r \in Queues /\ Len(r) = m.pending
  <2>1. q[1] \in [event: Nat, delayed: BOOLEAN]
    BY <1>3, <1>4, ElementOfSeq DEF Queues
  <2> DEFINE e == [q[1] EXCEPT !.delayed = TRUE]
  <2>2. e \in [event: Nat, delayed: BOOLEAN] /\ r = [q EXCEPT ![1] = e]
    BY <1>4, <2>1
  <2> HIDE DEF e, r
  <2>3. r \in Queues /\ DOMAIN r = DOMAIN q
    BY <1>3, <1>4, <2>2, ExceptSeq DEF Queues
  <2>4. DOMAIN r = 1 .. Len(r) /\ Len(r) \in Nat
    BY <2>3, LenProperties DEF Queues
  <2>5. Len(r) = Len(q)
    BY <1>3, <2>3, <2>4
  <2> QED  BY <1>3, <2>3, <2>5
<1> HIDE DEF r, ok
<1>6. ok /\ Len(r) = n.pending
      /\ webhook' = [webhook EXCEPT !.queue = r]
  BY <1>1, <1>2, <1>4, <1>5 DEF ok
<1> QED  BY <1>1, <1>2, <1>5, <1>6, QueueStep

-----------------------------------------------------------------------------
(* A kill.                                                                   *)

\* The exchange a kill is to cut is there, and only that one.
LEMMA KillFacts ==
    ASSUME NEW m, NEW n, NEW next, StepOf(m, n, next), current.kind = "KillApplication"
    PROVE  LET c == current.cutPoint IN
           /\ c \in CutPoints /\ MayKill(c) /\ case.healthy
           /\ c = "ClientRequestForwarded" =>
                 provider.pending # NoValue /\ provider.response = NoValue
           /\ c # "ClientRequestForwarded" => provider.pending = NoValue
           /\ c # "ClientResponseObserved" => provider.response = NoValue
           /\ c = "WebhookRequestForwarded" =>
                 webhook.request # NoValue /\ webhook.response = NoValue
           /\ c = "WebhookResponseObserved" =>
                 webhook.response # NoValue /\ webhook.request = NoValue
           /\ ~Discards(c) => webhook.request = NoValue /\ webhook.response = NoValue
           /\ fixture.request = webhook.request /\ fixture.response = webhook.response
<1> DEFINE c == current.cutPoint
<1> SUFFICES
        /\ c \in CutPoints /\ MayKill(c) /\ case.healthy
        /\ c = "ClientRequestForwarded" =>
              provider.pending # NoValue /\ provider.response = NoValue
        /\ c # "ClientRequestForwarded" => provider.pending = NoValue
        /\ c # "ClientResponseObserved" => provider.response = NoValue
        /\ c = "WebhookRequestForwarded" =>
              webhook.request # NoValue /\ webhook.response = NoValue
        /\ c = "WebhookResponseObserved" =>
              webhook.response # NoValue /\ webhook.request = NoValue
        /\ ~Discards(c) => webhook.request = NoValue /\ webhook.response = NoValue
        /\ fixture.request = webhook.request /\ fixture.response = webhook.response
  OBVIOUS
<1>1. c \in CutPoints /\ Cut(current) = c /\ c # NoValue
  BY NoValueAssumption DEF StepOf, PlannedIn, Cut
<1>2. CutPart /\ case.healthy
  BY RealParts DEF StepOf, Real
<1> HIDE DEF c
<1>3. MayKill(c)
  BY <1>1, <1>2 DEF CutPart, MayKill, CutPoints
<1> QED  BY <1>1, <1>2, <1>3 DEF CutPart, CutPoints, Discards

\* A held request survives its application, disconnected.
LEMMA Disconnected ==
    ASSUME NEW x \in Exchanges
    PROVE  LET y == [x EXCEPT !.disconnect = TRUE] IN
           /\ y \in Exchanges /\ y # NoValue
           /\ y.gate = x.gate /\ y.kind = x.kind /\ y.ids = x.ids /\ y.disconnect
BY NoValueAssumption DEF Exchanges

\* What a kill leaves of the adapters and the fixture.
LEMMA KillEffects ==
    ASSUME NEW m, NEW n, NEW next, StepOf(m, n, next), KillApplication(next)
    PROVE  /\ failure' = NoValue /\ UNCHANGED <<captured, diverged>>
           /\ fixture' \in Fixtures /\ provider' \in ProviderStates
           /\ webhook' \in WebhookStates /\ observed' \in Nat
           /\ fixture'.stripe = fixture.stripe /\ fixture'.outcomes = fixture.outcomes
           /\ fixture'.gates = fixture.gates
           /\ fixture'.request = NoValue /\ fixture'.response = NoValue
           /\ webhook'.request = NoValue /\ webhook'.response = NoValue
           /\ webhook'.queue = webhook.queue /\ webhook'.generated = webhook.generated
           /\ webhook'.last = webhook.last
           /\ provider'.control = fixture'.command /\ webhook'.control = fixture'.command
           /\ provider'.observations = observed' /\ webhook'.observations = observed'
           /\ provider'.known = provider.known /\ provider'.recovered = provider.recovered
           /\ provider'.response = NoValue
           /\ provider.pending = NoValue => provider'.pending = NoValue
           /\ provider.pending # NoValue =>
                 /\ provider'.pending # NoValue
                 /\ provider'.pending.gate = provider.pending.gate
                 /\ provider'.pending.kind = provider.pending.kind
                 /\ provider'.pending.ids = provider.pending.ids
                 /\ provider'.pending.disconnect
<1> DEFINE c == current.cutPoint
           p == [provider EXCEPT
                    !.pending = IF c = "ClientRequestForwarded" /\ @ # NoValue
                                THEN [@ EXCEPT !.disconnect = TRUE] ELSE @,
                    !.response = IF c = "ClientResponseObserved" THEN NoValue ELSE @]
           pending == IF c = "ClientRequestForwarded" /\ provider.pending # NoValue
                      THEN [provider.pending EXCEPT !.disconnect = TRUE] ELSE provider.pending
<1>1. /\ current.kind = "KillApplication"
      /\ IF Discards(c) THEN DiscardHeld(c, p)
         ELSE /\ provider' = p
              /\ Require(case.healthy /\ MayKill(c), "KillApplication")
              /\ UNCHANGED <<fixture, webhook, observed>>
      /\ UNCHANGED <<captured, diverged>>
  BY DEF KillApplication, Running
<1>2. /\ c \in CutPoints /\ MayKill(c) /\ case.healthy
      /\ c = "ClientRequestForwarded" =>
            provider.pending # NoValue /\ provider.response = NoValue
      /\ c # "ClientRequestForwarded" => provider.pending = NoValue
      /\ c # "ClientResponseObserved" => provider.response = NoValue
      /\ c = "WebhookRequestForwarded" =>
            webhook.request # NoValue /\ webhook.response = NoValue
      /\ c = "WebhookResponseObserved" =>
            webhook.response # NoValue /\ webhook.request = NoValue
      /\ ~Discards(c) => webhook.request = NoValue /\ webhook.response = NoValue
      /\ fixture.request = webhook.request /\ fixture.response = webhook.response
  BY <1>1, KillFacts
<1>3. /\ fixture \in Fixtures /\ provider \in ProviderStates /\ webhook \in WebhookStates
      /\ provider.control = fixture.command /\ provider.observations = observed
      /\ webhook.control = fixture.command /\ webhook.observations = observed
      /\ observed \in Nat /\ fixture.command \in Nat
  BY RealParts
<1>4. /\ provider.pending = NoValue => pending = NoValue
      /\ provider.pending # NoValue =>
            /\ pending \in Exchanges /\ pending # NoValue
            /\ pending.gate = provider.pending.gate /\ pending.kind = provider.pending.kind
            /\ pending.ids = provider.pending.ids /\ pending.disconnect
  <2>1. CASE provider.pending = NoValue
    BY <2>1
  <2>2. CASE provider.pending # NoValue
    <3>1. c = "ClientRequestForwarded" /\ provider.pending \in Exchanges
      BY <1>2, <1>3, <2>2 DEF ProviderStates
    <3>2. pending = [provider.pending EXCEPT !.disconnect = TRUE]
      BY <2>2, <3>1
    <3> HIDE DEF pending
    <3> QED  BY <2>2, <3>1, <3>2, Disconnected
  <2> QED  BY <2>1, <2>2
<1> HIDE DEF c
<1>5. /\ p.pending = pending /\ p.response = NoValue /\ p.known = provider.known
      /\ p.recovered = provider.recovered /\ p.control = provider.control
      /\ p.observations = provider.observations /\ p \in ProviderStates
  <2>1. p = [provider EXCEPT !.pending = pending, !.response = NoValue]
    BY <1>2, <1>3 DEF ProviderStates
  <2>2. pending \in Exchanges \cup {NoValue}
    BY <1>4
  <2> HIDE DEF p, pending
  <2> QED  BY <1>3, <2>1, <2>2 DEF ProviderStates
<1> HIDE DEF p, pending
<1>6. CASE ~Discards(c)
  <2>1. provider' = p /\ UNCHANGED <<fixture, webhook, observed>> /\ failure' = NoValue
    BY <1>1, <1>2, <1>6 DEF Require
  <2> QED  BY <1>1, <1>2, <1>3, <1>4, <1>5, <1>6, <2>1
<1>7. CASE Discards(c)
  <2> DEFINE w == [webhook EXCEPT !.control = @ + 1, !.observations = @ + 1,
                                  !.request = NoValue, !.response = NoValue]
             heldGate == IF c = "WebhookRequestForwarded" THEN fixture.request
                         ELSE fixture.response
  <2>1. /\ fixture' = [fixture EXCEPT !.command = @ + 1,
                                      !.request = NoValue, !.response = NoValue]
        /\ webhook' = w
        /\ provider' = Synchronize(p, w)
        /\ observed' = observed + 1
        /\ Require(/\ case.healthy /\ MayKill(c)
                   /\ webhook.control = fixture.command
                   /\ heldGate # NoValue
                   /\ heldGate \in {webhook.request, webhook.response}
                   /\ w.observations = observed + 1,
                   "KillApplication")
    BY <1>1, <1>7 DEF DiscardHeld, Record, Recorded
  <2>2. heldGate # NoValue /\ heldGate \in {webhook.request, webhook.response}
    BY <1>2, <1>7 DEF Discards
  <2> HIDE DEF heldGate
  <2>3. /\ w \in WebhookStates /\ w.control = fixture.command + 1
        /\ w.observations = observed + 1
        /\ w.request = NoValue /\ w.response = NoValue
        /\ w.queue = webhook.queue /\ w.generated = webhook.generated
        /\ w.last = webhook.last
    <3> DEFINE k == webhook.control + 1
               j == webhook.observations + 1
    <3>1. /\ k \in Nat /\ k = fixture.command + 1 /\ j \in Nat /\ j = observed + 1
          /\ w = [webhook EXCEPT !.control = k, !.observations = j,
                                 !.request = NoValue, !.response = NoValue]
      BY <1>3 DEF WebhookStates
    <3> HIDE DEF k, j, w
    <3> QED  BY <1>3, <3>1 DEF WebhookStates
  <2> HIDE DEF w
  <2>4. failure' = NoValue
    BY <1>2, <1>3, <2>1, <2>2, <2>3 DEF Require
  <2>5. /\ w.control \in Nat /\ w.observations \in Nat
    BY <1>3, <2>3
  <2>6. LET q == Synchronize(p, w) IN
           /\ q \in ProviderStates
           /\ q.pending = p.pending /\ q.response = p.response /\ q.known = p.known
           /\ q.recovered = p.recovered
           /\ q.control = w.control /\ q.observations = w.observations
    BY <1>5, <2>5, ProviderSynchronized
  <2>7. /\ fixture' \in Fixtures
        /\ fixture'.stripe = fixture.stripe /\ fixture'.outcomes = fixture.outcomes
        /\ fixture'.gates = fixture.gates /\ fixture'.command = fixture.command + 1
        /\ fixture'.request = NoValue /\ fixture'.response = NoValue
    <3> DEFINE k == fixture.command + 1
    <3>1. k \in Nat /\ fixture' = [fixture EXCEPT !.command = k, !.request = NoValue,
                                                  !.response = NoValue]
      BY <1>3, <2>1
    <3> HIDE DEF k
    <3>2. /\ fixture' \in Fixtures
          /\ fixture'.stripe = fixture.stripe /\ fixture'.outcomes = fixture.outcomes
          /\ fixture'.gates = fixture.gates /\ fixture'.command = k
          /\ fixture'.request = NoValue /\ fixture'.response = NoValue
      BY <1>3, <3>1 DEF Fixtures
    <3> QED  BY <3>2 DEF k
  <2>8. observed' \in Nat
    BY <1>3, <2>1
  <2> QED  BY <1>1, <1>3, <1>4, <1>5, <2>1, <2>3, <2>4, <2>6, <2>7, <2>8
<1> QED  BY <1>6, <1>7

\* A kill finds what it is to cut, and leaves the process down.
LEMMA KillsAsPlanned ==
    ASSUME NEW m, NEW n, NEW next, StepOf(m, n, next), KillApplication(next)
    PROVE  Outcome(n)
<1>1. /\ current.kind = "KillApplication"
      /\ app' = [app EXCEPT !.up = FALSE, !.waiting = NoValue]
      /\ case' = [case EXCEPT !.healthy = FALSE]
  BY DEF KillApplication, Running
<1>2. /\ failure' = NoValue /\ UNCHANGED <<captured, diverged>>
      /\ fixture' \in Fixtures /\ provider' \in ProviderStates
      /\ webhook' \in WebhookStates /\ observed' \in Nat
      /\ fixture'.stripe = fixture.stripe /\ fixture'.outcomes = fixture.outcomes
      /\ fixture'.gates = fixture.gates
      /\ fixture'.request = NoValue /\ fixture'.response = NoValue
      /\ webhook'.request = NoValue /\ webhook'.response = NoValue
      /\ webhook'.queue = webhook.queue /\ webhook'.generated = webhook.generated
      /\ webhook'.last = webhook.last
      /\ provider'.control = fixture'.command /\ webhook'.control = fixture'.command
      /\ provider'.observations = observed' /\ webhook'.observations = observed'
      /\ provider'.known = provider.known /\ provider'.recovered = provider.recovered
      /\ provider'.response = NoValue
      /\ provider.pending = NoValue => provider'.pending = NoValue
      /\ provider.pending # NoValue =>
            /\ provider'.pending # NoValue
            /\ provider'.pending.gate = provider.pending.gate
            /\ provider'.pending.kind = provider.pending.kind
            /\ provider'.pending.ids = provider.pending.ids
            /\ provider'.pending.disconnect
  BY KillEffects
<1>3. /\ ~n.healthy
      /\ \/ n.phase = m.phase
         \/ m.phase = "PaymentIntentKnown" /\ n.phase = "CheckoutRetryable"
      /\ UNCHANGED application /\ ProviderPart /\ Types /\ ControlPart(m) /\ HeldPart(m)
      /\ m.phase # "Complete"
  BY <1>1 DEF StepOf, Real, LeadsTo
<1>4. /\ app \in Apps /\ DOMAIN case = CaseFields /\ Extends(fixture.stripe, fixture.stripe)
  BY <1>3, RealParts, SameExtends DEF Types
<1>5. /\ app' \in Apps /\ ~app'.up /\ app'.waiting = NoValue
      /\ app'.persisted = app.persisted
      /\ DOMAIN case' = CaseFields /\ ~case'.healthy /\ case'.probe = case.probe
      /\ case'.healthy \in BOOLEAN
      /\ case'.quiescence = case.quiescence /\ case'.checkpoint = case.checkpoint
  BY <1>1, <1>4 DEF Apps, CaseFields
<1>6. /\ TracePart(n)' /\ sources' \in Sources
      /\ sources'.objects = sources.objects
      /\ sources'.gate = sources.gate /\ sources'.generated = sources.generated
      /\ ActiveIntent' = ActiveIntent
  <2>1. sources.generated \in Nat
    BY RealParts DEF Sources
  <2> QED  BY <1>1, <1>2, <2>1, TracesStay DEF BusinessRequest, ConfirmKinds
<1>7. ControlPart(n)'
  BY <1>2, <1>3, <1>5 DEF ControlPart
<1>8. HeldPart(n)'
  <2>1. CASE m.phase \in {"CheckoutResponseHeld", "ConfirmResponseHeld"}
    <3>1. n.phase = m.phase
      BY <1>3, <2>1
    <3>2. /\ provider.pending # NoValue
          /\ m.phase = "CheckoutResponseHeld" => provider.pending.kind = "Checkout"
          /\ fixture.gates = {provider.pending.gate}
          /\ sources.gate \in DOMAIN captured
          /\ captured[sources.gate] = provider.pending.gate
          /\ provider.pending.ids # <<>>
          /\ \A i \in DOMAIN provider.pending.ids :
                provider.pending.ids[i] \in Known(fixture.stripe)
      BY <1>3, <2>1 DEF HeldPart
    <3> QED  BY <1>2, <1>5, <1>6, <2>1, <3>1, <3>2 DEF HeldPart
  <2>2. CASE m.phase \notin {"CheckoutResponseHeld", "ConfirmResponseHeld"}
    <3>1. n.phase \notin {"CheckoutResponseHeld", "ConfirmResponseHeld"}
      BY <1>3, <2>2
    <3> QED  BY <1>2, <1>3, <2>2, <3>1 DEF HeldPart
  <2> QED  BY <2>1, <2>2
<1>9. CutPart'
  BY <1>1, <1>2, NothingToCut DEF BusinessRequest, Delivery
<1>10. EventPart(n)'
  BY <1>1, <1>2, <1>4, <1>6, EventsStay
<1>11. StatusPart(n)'
  BY <1>1, <1>2, <1>4, <1>6, StatusStays DEF BusinessRequest, ConfirmKinds
<1>12. Types'
  BY <1>1, <1>2, <1>3, <1>5, <1>6 DEF Types
<1>13. ProviderPart'
  BY <1>1, <1>2, <1>3, <1>6 DEF ProviderPart, Faulty
<1>14. Faulty => ~diverged'
  BY <1>2, <1>3 DEF ProviderPart
<1> QED  BY <1>2, <1>6, <1>7, <1>8, <1>9, <1>10, <1>11, <1>12, <1>13, <1>14
         DEF Outcome, Real

-----------------------------------------------------------------------------
(* Deliveries.                                                               *)

\* There is an event to deliver, and the queue is as long as the plan has it.
LEMMA DeliveredFacts ==
    ASSUME NEW m, NEW n, NEW next, StepOf(m, n, next), current.kind \in Delivery
    PROVE  LET d == Delivered IN
           /\ EventToDeliver # NoValue
           /\ d \in WebhookStates /\ d.last # NoValue /\ d.generated = webhook.generated
           /\ d.control = fixture.command + 1 /\ d.observations = webhook.observations
           /\ d.request = webhook.request /\ d.response = webhook.response
           /\ Len(d.queue) = n.pending
           /\ ~n.delayUsed => \A i \in DOMAIN d.queue : ~d.queue[i].delayed
<1> DEFINE q == webhook.queue
           d == Delivered
           e == EventToDeliver
           r == IF current.kind = "DeliverWebhook" /\ q # <<>> THEN Tail(q) ELSE q
<1>1. /\ m.phase = "Events" /\ (n.delayUsed <=> m.delayUsed)
      /\ current.kind = "DeliverWebhook" => m.pending > 0 /\ n.pending = m.pending - 1
      /\ current.kind = "DuplicateWebhook" => m.delivered > 0 /\ n.pending = m.pending - 0
      /\ m.pending \in Nat
      /\ current.kind \in {"DeliverWebhook", "DuplicateWebhook"}
  BY DEF StepOf, PlannedIn, LeadsTo, Delivery, Sound, IsModel
<1>2. /\ q \in Queues /\ Len(q) = m.pending /\ DOMAIN q = 1 .. Len(q)
      /\ ~m.delayUsed => \A i \in DOMAIN q : ~q[i].delayed
      /\ m.delivered > 0 => webhook.last # NoValue
  BY <1>1, QueueFacts
<1>3. webhook \in WebhookStates /\ webhook.control = fixture.command /\ fixture.command \in Nat
  BY RealParts
<1>4. e \in Nat
  <2>1. CASE current.kind = "DuplicateWebhook"
    <3>1. webhook.last # NoValue /\ webhook.last \in Nat \cup {NoValue}
      BY <1>1, <1>2, <1>3, <2>1 DEF WebhookStates
    <3> QED  BY <2>1, <3>1 DEF EventToDeliver
  <2>2. CASE current.kind = "DeliverWebhook"
    <3>1. q # <<>>
      BY <1>1, <1>2, <2>2
    <3>2. Head(q) \in [event: Nat, delayed: BOOLEAN]
      BY <1>2, <3>1, HeadTailProperties DEF Queues
    <3>3. e = Head(q).event
      BY <2>2, <3>1 DEF EventToDeliver
    <3> QED  BY <3>2, <3>3
  <2> QED  BY <1>1, <2>1, <2>2
<1>5. /\ r \in Queues /\ Len(r) = n.pending
      /\ ~n.delayUsed => \A i \in DOMAIN r : ~r[i].delayed
  <2>1. CASE current.kind = "DuplicateWebhook"
    <3>1. r = q
      BY <2>1
    <3> HIDE DEF r, q
    <3> QED  BY <1>1, <1>2, <2>1, <3>1
  <2>2. CASE current.kind = "DeliverWebhook"
    <3> HIDE DEF q
    <3>1. q # <<>>
      BY <1>1, <1>2, <2>2
    <3>2. r = Tail(q)
      BY <2>2, <3>1
    <3> HIDE DEF r
    <3>3. r \in Queues /\ Len(r) = Len(q) - 1 /\ \A i \in 1 .. Len(r) : r[i] = q[i + 1]
      BY <1>2, <3>1, <3>2, HeadTailProperties DEF Queues
    <3>4. DOMAIN r = 1 .. Len(r) /\ Len(r) \in Nat
      BY <3>3, LenProperties DEF Queues
    <3>5. \A i \in DOMAIN r : i + 1 \in DOMAIN q /\ r[i] = q[i + 1]
      BY <1>2, <3>3, <3>4
    <3>6. ~n.delayUsed => \A i \in DOMAIN r : ~r[i].delayed
      BY <1>1, <1>2, <3>5
    <3> QED  BY <1>1, <1>2, <2>2, <3>3, <3>6
  <2> QED  BY <1>1, <2>1, <2>2
<1>6. d = [webhook EXCEPT !.queue = r, !.last = e, !.control = @ + 1]
  BY DEF Delivered, AfterDelivery
<1> HIDE DEF r, e, q
<1> DEFINE k == webhook.control + 1
<1>7. k \in Nat /\ k = fixture.command + 1
  BY <1>3
<1>8. /\ d \in WebhookStates /\ d.last = e /\ d.generated = webhook.generated
      /\ d.control = k /\ d.observations = webhook.observations
      /\ d.request = webhook.request /\ d.response = webhook.response
      /\ d.queue = r
  <2>1. d = [webhook EXCEPT !.queue = r, !.last = e, !.control = k]
    BY <1>6
  <2> HIDE DEF d, k
  <2> QED  BY <1>3, <1>4, <1>5, <1>7, <2>1 DEF WebhookStates, Queues
<1> HIDE DEF k, d
<1>9. e # NoValue
  BY <1>4, NoValueAssumption
<1> QED  BY <1>5, <1>7, <1>8, <1>9 DEF e, d

\* A delivery is one the plan has an event for, whatever becomes of its answer.
LEMMA DeliveryStep ==
    ASSUME NEW m, NEW n, NEW next, StepOf(m, n, next), current.kind \in Delivery,
           NEW w, webhook' = w, w \in WebhookStates,
           w.queue = Delivered.queue, w.last = Delivered.last,
           w.generated = webhook.generated,
           provider' = Synchronize(provider, w),
           w.control = fixture'.command, w.observations = observed', observed' \in Nat,
           fixture' \in Fixtures, fixture'.stripe = fixture.stripe,
           fixture'.outcomes = fixture.outcomes, fixture'.gates = fixture.gates,
           fixture'.request = w.request, fixture'.response = w.response,
           w.request # NoValue <=> Cut(next) = "WebhookRequestForwarded",
           w.response # NoValue <=> Cut(next) = "WebhookResponseObserved",
           app' \in Apps, app'.up = app.up, app'.waiting = app.waiting,
           NotQuiesced /\ app.up /\ NoOutputs /\ EventToDeliver # NoValue => failure' = NoValue,
           UNCHANGED <<captured, case, diverged>>
    PROVE  Outcome(n)
<1>1. /\ m.phase = "Events" /\ n.phase = "Events"
      /\ UNCHANGED application /\ ProviderPart /\ Types /\ HeldPart(m)
      /\ current.kind # "KillApplication" /\ current.kind # "RestartAndAwaitHealth"
  BY DEF StepOf, PlannedIn, LeadsTo, Real, Delivery
<1>2. NoOutputs
  BY NothingCaptured DEF NoOutputs, Complete, Outputs, BusinessRequest, ConfirmKinds, Delivery
<1>3. /\ EventToDeliver # NoValue /\ Delivered.last # NoValue
      /\ Len(Delivered.queue) = n.pending
      /\ ~n.delayUsed => \A i \in DOMAIN Delivered.queue : ~Delivered.queue[i].delayed
  BY DeliveredFacts
<1>4. failure' = NoValue
  BY <1>1, <1>2, <1>3, RealParts
<1>5. /\ provider \in ProviderStates /\ webhook' \in WebhookStates
      /\ w.control \in Nat /\ w.observations \in Nat
      /\ provider.pending = NoValue /\ provider.response = NoValue
      /\ Extends(fixture.stripe, fixture.stripe)
  BY <1>1, RealParts, SameExtends DEF WebhookStates
<1>6. /\ provider' \in ProviderStates
      /\ provider'.pending = provider.pending /\ provider'.response = provider.response
      /\ provider'.known = provider.known /\ provider'.recovered = provider.recovered
      /\ provider'.control = w.control /\ provider'.observations = w.observations
  <2> DEFINE x == Synchronize(provider, w)
  <2>1. LET y == Synchronize(provider, w) IN
        /\ y \in ProviderStates
        /\ y.pending = provider.pending /\ y.response = provider.response
        /\ y.known = provider.known /\ y.recovered = provider.recovered
        /\ y.control = w.control /\ y.observations = w.observations
    BY <1>5, ProviderSynchronized
  <2> QED  BY <2>1
<1>7. /\ TracePart(n)' /\ sources' \in Sources
      /\ sources'.objects = sources.objects
      /\ sources'.gate = sources.gate /\ sources'.generated = sources.generated
      /\ ActiveIntent' = ActiveIntent
  <2>1. sources.generated \in Nat
    BY RealParts DEF Sources
  <2> QED  BY <1>1, <2>1, TracesStay DEF BusinessRequest, ConfirmKinds, Delivery
<1>8. ControlPart(n)'
  BY <1>6, ControlStays DEF Delivery
<1>9. HeldPart(n)'
  BY <1>1, <1>6, <1>7, HeldStays DEF BusinessRequest, ConfirmKinds, Delivery
<1>10. CutPart'
  <2>1. /\ Cut(next) \in {NoValue, "WebhookRequestForwarded", "WebhookResponseObserved"}
        /\ Cut(current)' = Cut(next)
        /\ NoValue \notin CutPoints
    BY NoValueAssumption DEF StepOf, Cuts, Cut
  <2> QED  BY <1>5, <1>6, <2>1 DEF CutPart, CutPoints
<1>11. EventPart(n)'
  BY <1>3, <1>7, EventsQueued
<1>12. StatusPart(n)'
  BY <1>5, <1>7, StatusStays DEF BusinessRequest, ConfirmKinds, Delivery
<1>13. Types'
  BY <1>1, <1>5, <1>6, <1>7 DEF Types
<1>14. ProviderPart'
  BY <1>1, <1>6, <1>7 DEF ProviderPart, Faulty
<1>15. Faulty => ~diverged'
  BY <1>1 DEF ProviderPart
<1> QED  BY <1>4, <1>7, <1>8, <1>9, <1>10, <1>11, <1>12, <1>13, <1>14, <1>15
         DEF Outcome, Real

\* A delivery whose answer comes back.
LEMMA DeliversAsPlanned ==
    ASSUME NEW m, NEW n, NEW next, StepOf(m, n, next), DeliverWebhook(next)
    PROVE  Outcome(n)
<1> DEFINE d == Delivered
           k == fixture.command + 1
<1>1. /\ current.kind \in Delivery /\ ~Discards(Cut(next))
      /\ fixture' = [fixture EXCEPT !.command = k]
      /\ app' = [app EXCEPT !.persisted = TRUE]
      /\ webhook' = d /\ provider' = Synchronize(provider, d)
      /\ Require(/\ NotQuiesced /\ webhook.control = fixture.command /\ app.up
                 /\ NoOutputs /\ EventToDeliver # NoValue
                 /\ fixture'.command = webhook.control + 1, "DeliverWebhook")
      /\ UNCHANGED <<captured, case, diverged, observed>>
  BY DEF DeliverWebhook, DeliverEvent, RequireOpen, Running, AnsweredInStep
<1>2. /\ d \in WebhookStates /\ d.generated = webhook.generated
      /\ d.control = k /\ d.observations = webhook.observations
      /\ d.request = webhook.request /\ d.response = webhook.response
  BY <1>1, DeliveredFacts
<1>3. /\ fixture \in Fixtures /\ app \in Apps /\ k \in Nat
      /\ webhook.control = fixture.command /\ webhook.observations = observed
      /\ observed \in Nat
      /\ webhook.request = NoValue /\ webhook.response = NoValue
      /\ fixture.request = NoValue /\ fixture.response = NoValue
  BY <1>1, RealParts DEF Delivery
<1> HIDE DEF d
<1>4. /\ fixture' \in Fixtures /\ fixture'.stripe = fixture.stripe
      /\ fixture'.outcomes = fixture.outcomes /\ fixture'.gates = fixture.gates
      /\ fixture'.command = k
      /\ fixture'.request = NoValue /\ fixture'.response = NoValue
  <2> HIDE DEF k
  <2> QED  BY <1>1, <1>3 DEF Fixtures
<1>5. app' \in Apps /\ app'.up = app.up /\ app'.waiting = app.waiting
  BY <1>1, <1>3 DEF Apps
<1>6. NotQuiesced /\ app.up /\ NoOutputs /\ EventToDeliver # NoValue => failure' = NoValue
  BY <1>1, <1>3, <1>4 DEF Require
<1>7. Cut(next) \notin {"WebhookRequestForwarded", "WebhookResponseObserved"}
  BY <1>1 DEF Discards
<1>8. webhook' = d /\ d.queue = Delivered.queue /\ d.last = Delivered.last
  BY <1>1 DEF d
<1>9. /\ d.observations = observed' /\ observed' \in Nat
      /\ d.request = NoValue /\ d.response = NoValue
      /\ UNCHANGED <<captured, case, diverged>>
  BY <1>1, <1>2, <1>3
<1> HIDE DEF k
<1> QED  BY <1>1, <1>2, <1>4, <1>5, <1>6, <1>7, <1>8, <1>9, DeliveryStep

\* A delivery held before the application takes it.
LEMMA ForwardsAsPlanned ==
    ASSUME NEW m, NEW n, NEW next, StepOf(m, n, next), ForwardWebhookRequest(next)
    PROVE  Outcome(n)
<1> DEFINE g == fixture.nextGate + 1
           w == [Delivered EXCEPT !.observations = @ + 1, !.request = g]
           k == fixture.command + 1
           o == observed + 1
<1>1. /\ current.kind \in Delivery /\ Cut(next) = "WebhookRequestForwarded"
      /\ fixture' = [fixture EXCEPT !.command = k, !.nextGate = g, !.request = g]
      /\ webhook' = w /\ provider' = Synchronize(provider, w)
      /\ observed' = o
      /\ Require(/\ NotQuiesced
                 /\ /\ webhook.control = fixture.command /\ app.up
                    /\ NoOutputs /\ EventToDeliver # NoValue
                    /\ /\ webhook.request = NoValue
                       /\ webhook.response = NoValue
                       /\ fixture'.command = webhook.control + 1 /\ fixture'.request = g
                       /\ w.observations = o, "DeliverWebhook")
      /\ UNCHANGED <<captured, case, diverged, app>>
  BY DEF ForwardWebhookRequest, DeliverEvent, RequireOpen, Running, ForwardedRequest,
         Record, Recorded
<1>2. /\ Delivered \in WebhookStates /\ Delivered.generated = webhook.generated
      /\ Delivered.control = k /\ Delivered.observations = webhook.observations
      /\ Delivered.request = webhook.request /\ Delivered.response = webhook.response
  BY <1>1, DeliveredFacts
<1>3. /\ fixture \in Fixtures /\ app \in Apps /\ k \in Nat /\ g \in Nat /\ o \in Nat
      /\ webhook.control = fixture.command /\ webhook.observations = observed
      /\ observed \in Nat
      /\ webhook.request = NoValue /\ webhook.response = NoValue
      /\ fixture.request = NoValue /\ fixture.response = NoValue
      /\ g # NoValue
  BY <1>1, RealParts, NoValueAssumption DEF Delivery
<1>4. /\ w \in WebhookStates /\ w.queue = Delivered.queue /\ w.last = Delivered.last
      /\ w.generated = webhook.generated /\ w.control = k /\ w.observations = o
      /\ w.request = g /\ w.response = NoValue
  <2>1. w = [Delivered EXCEPT !.observations = o, !.request = g]
    BY <1>2, <1>3
  <2> HIDE DEF w, k, g, o
  <2> QED  BY <1>2, <1>3, <2>1 DEF WebhookStates
<1> HIDE DEF w
<1>5. /\ fixture' \in Fixtures /\ fixture'.stripe = fixture.stripe
      /\ fixture'.outcomes = fixture.outcomes /\ fixture'.gates = fixture.gates
      /\ fixture'.command = k
      /\ fixture'.request = g /\ fixture'.response = NoValue
  <2> HIDE DEF k, g
  <2> QED  BY <1>1, <1>3 DEF Fixtures
<1>6. NotQuiesced /\ app.up /\ NoOutputs /\ EventToDeliver # NoValue => failure' = NoValue
  BY <1>1, <1>3, <1>4, <1>5 DEF Require
<1> HIDE DEF k, g, o
<1> QED  BY <1>1, <1>3, <1>4, <1>5, <1>6, DeliveryStep

\* A delivery whose answer is observed and held.
LEMMA HoldsAsPlanned ==
    ASSUME NEW m, NEW n, NEW next, StepOf(m, n, next), HoldWebhookResponse(next)
    PROVE  Outcome(n)
<1> DEFINE g == fixture.nextGate + 1
           w == [Delivered EXCEPT !.observations = @ + 1, !.response = g]
           k == fixture.command + 1
           o == observed + 1
<1>1. /\ current.kind \in Delivery /\ Cut(next) = "WebhookResponseObserved"
      /\ fixture' = [fixture EXCEPT !.command = k, !.nextGate = g, !.response = g]
      /\ app' = [app EXCEPT !.persisted = TRUE]
      /\ webhook' = w /\ provider' = Synchronize(provider, w)
      /\ observed' = o
      /\ Require(/\ NotQuiesced
                 /\ /\ webhook.control = fixture.command /\ app.up
                    /\ NoOutputs /\ EventToDeliver # NoValue
                    /\ webhook.response = NoValue /\ w.observations = o, "DeliverWebhook")
      /\ UNCHANGED <<captured, case, diverged>>
  BY DEF HoldWebhookResponse, DeliverEvent, RequireOpen, Running, Record, Recorded
<1>2. /\ Delivered \in WebhookStates /\ Delivered.generated = webhook.generated
      /\ Delivered.control = k /\ Delivered.observations = webhook.observations
      /\ Delivered.request = webhook.request /\ Delivered.response = webhook.response
  BY <1>1, DeliveredFacts
<1>3. /\ fixture \in Fixtures /\ app \in Apps /\ k \in Nat /\ g \in Nat /\ o \in Nat
      /\ webhook.control = fixture.command /\ webhook.observations = observed
      /\ observed \in Nat
      /\ webhook.request = NoValue /\ webhook.response = NoValue
      /\ fixture.request = NoValue /\ fixture.response = NoValue
      /\ g # NoValue
  BY <1>1, RealParts, NoValueAssumption DEF Delivery
<1>4. /\ w \in WebhookStates /\ w.queue = Delivered.queue /\ w.last = Delivered.last
      /\ w.generated = webhook.generated /\ w.control = k /\ w.observations = o
      /\ w.request = NoValue /\ w.response = g
  <2>1. w = [Delivered EXCEPT !.observations = o, !.response = g]
    BY <1>2, <1>3
  <2> HIDE DEF w, k, g, o
  <2> QED  BY <1>2, <1>3, <2>1 DEF WebhookStates
<1> HIDE DEF w
<1>5. /\ fixture' \in Fixtures /\ fixture'.stripe = fixture.stripe
      /\ fixture'.outcomes = fixture.outcomes /\ fixture'.gates = fixture.gates
      /\ fixture'.command = k
      /\ fixture'.request = NoValue /\ fixture'.response = g
  <2> HIDE DEF k, g
  <2> QED  BY <1>1, <1>3 DEF Fixtures
<1>6. app' \in Apps /\ app'.up = app.up /\ app'.waiting = app.waiting
  BY <1>1, <1>3 DEF Apps
<1>7. NotQuiesced /\ app.up /\ NoOutputs /\ EventToDeliver # NoValue => failure' = NoValue
  BY <1>1, <1>3, <1>4, <1>5 DEF Require
<1> HIDE DEF k, g, o
<1> QED  BY <1>1, <1>3, <1>4, <1>5, <1>6, <1>7, DeliveryStep

-----------------------------------------------------------------------------
(* The release of a held request.                                            *)

\* A request that is released is the one held, and ends as it must.
LEMMA ReleasesAsPlanned ==
    ASSUME NEW m, NEW n, NEW next, StepOf(m, n, next), ReleaseProviderGate(next)
    PROVE  Outcome(n)
<1> DEFINE held == provider.pending
           gate == Input
           k == fixture.command + 1
           o == observed + 1
           p == [provider EXCEPT !.pending = NoValue, !.control = @ + 1,
                                 !.observations = @ + 1]
<1>1. /\ current.kind = "ReleaseProviderGate"
      /\ fixture' = [fixture EXCEPT !.gates = @ \ {gate}, !.command = k]
      /\ app' = [app EXCEPT !.waiting = NoValue,
                            !.persisted = @ \/ app.waiting # NoValue]
      /\ provider' = p /\ webhook' = Synchronize(webhook, p) /\ observed' = o
      /\ Require(NotQuiesced /\
                 /\ held # NoValue /\ held.gate = gate
                 /\ InStep /\ gate \in fixture.gates
                 /\ {held.ids[i] : i \in DOMAIN held.ids} \subseteq Known(fixture.stripe)
                 /\ p.observations = o
                 /\ IF held.disconnect THEN app.waiting = NoValue
                    ELSE app.waiting = held.ids[Len(held.ids)],
                 "ReleaseProviderGate")
      /\ UNCHANGED <<captured, case, diverged>>
  BY DEF ReleaseProviderGate, ReleaseGate, RequireOpen, Running, Record, Recorded
<1>2. /\ m.phase \in {"CheckoutResponseHeld", "ConfirmResponseHeld"}
      /\ n.phase \in {"PaymentIntentKnown", "Confirmed"}
      /\ UNCHANGED application /\ ProviderPart /\ Types /\ HeldPart(m)
  BY <1>1 DEF StepOf, PlannedIn, LeadsTo, Real
<1>3. /\ fixture \in Fixtures /\ app \in Apps /\ provider \in ProviderStates
      /\ webhook \in WebhookStates /\ observed \in Nat /\ fixture.command \in Nat
      /\ provider.control = fixture.command /\ provider.observations = observed
      /\ webhook.request = NoValue /\ webhook.response = NoValue
      /\ fixture.request = NoValue /\ fixture.response = NoValue
      /\ provider.response = NoValue
      /\ Extends(fixture.stripe, fixture.stripe) /\ InStep /\ NotQuiesced
      /\ k \in Nat /\ o \in Nat
  BY <1>1, <1>2, RealParts, SameExtends
<1>4. /\ held # NoValue /\ gate = held.gate /\ fixture.gates = {held.gate}
      /\ \A i \in DOMAIN held.ids : held.ids[i] \in Known(fixture.stripe)
      /\ app.waiting = IF held.disconnect THEN NoValue ELSE held.ids[Len(held.ids)]
  BY <1>1, <1>2, InputIsCaptured DEF HeldPart
<1>5. /\ p \in ProviderStates /\ p.pending = NoValue /\ p.response = NoValue
      /\ p.known = provider.known /\ p.recovered = provider.recovered
      /\ p.control = k /\ p.observations = o
  <2>1. p = [provider EXCEPT !.pending = NoValue, !.control = k, !.observations = o]
    BY <1>3
  <2> HIDE DEF p, k, o
  <2> QED  BY <1>3, <2>1 DEF ProviderStates
<1> HIDE DEF held, gate, p
<1>6. failure' = NoValue
  BY <1>1, <1>3, <1>4, <1>5 DEF Require
<1>7. /\ webhook' \in WebhookStates
      /\ webhook'.queue = webhook.queue /\ webhook'.generated = webhook.generated
      /\ webhook'.last = webhook.last
      /\ webhook'.request = webhook.request /\ webhook'.response = webhook.response
      /\ webhook'.control = k /\ webhook'.observations = o
  <2>1. LET y == Synchronize(webhook, p) IN
        /\ y \in WebhookStates
        /\ y.queue = webhook.queue /\ y.generated = webhook.generated /\ y.last = webhook.last
        /\ y.request = webhook.request /\ y.response = webhook.response
        /\ y.control = p.control /\ y.observations = p.observations
    BY <1>3, <1>5, WebhookSynchronized
  <2> QED  BY <1>1, <1>5, <2>1
<1>8. /\ fixture' \in Fixtures /\ fixture'.stripe = fixture.stripe
      /\ fixture'.outcomes = fixture.outcomes /\ fixture'.gates = {}
      /\ fixture'.command = k
      /\ fixture'.request = NoValue /\ fixture'.response = NoValue
  <2>1. fixture' = [fixture EXCEPT !.gates = {}, !.command = k]
    BY <1>1, <1>4
  <2> HIDE DEF k
  <2> QED  BY <1>3, <2>1 DEF Fixtures
<1>9. app' \in Apps /\ app'.up = app.up /\ app'.waiting = NoValue
  BY <1>1, <1>3 DEF Apps
<1>10. /\ TracePart(n)' /\ sources' \in Sources
       /\ sources'.objects = sources.objects
       /\ sources'.generated = sources.generated
       /\ ActiveIntent' = ActiveIntent
  <2>1. sources.generated \in Nat
    BY RealParts DEF Sources
  <2> QED  BY <1>1, <1>8, <2>1, TracesStay DEF BusinessRequest, ConfirmKinds
<1>11. ControlPart(n)'
  BY <1>1, <1>5, <1>7, <1>8, <1>9, ControlStays
<1>12. HeldPart(n)'
  BY <1>1, <1>2, <1>5, <1>8 DEF HeldPart
<1>13. CutPart'
  BY <1>1, <1>3, <1>5, <1>7, <1>8, NothingToCut DEF BusinessRequest, Delivery
<1>14. EventPart(n)'
  BY <1>1, <1>3, <1>7, <1>8, <1>10, EventsStay
<1>15. StatusPart(n)'
  BY <1>1, <1>3, <1>8, <1>10, StatusStays DEF BusinessRequest, ConfirmKinds
<1>16. Types'
  BY <1>1, <1>2, <1>3, <1>5, <1>7, <1>8, <1>9, <1>10 DEF Types
<1>17. ProviderPart'
  BY <1>1, <1>2, <1>5, <1>8, <1>10 DEF ProviderPart, Faulty
<1>18. Faulty => ~diverged'
  BY <1>1, <1>2 DEF ProviderPart
<1> QED  BY <1>6, <1>10, <1>11, <1>12, <1>13, <1>14, <1>15, <1>16, <1>17, <1>18
         DEF Outcome, Real

-----------------------------------------------------------------------------
(* A new event.                                                              *)

\* The objects are gone through at most twice.
LEMMA SecondRound ==
    ASSUME NEW k \in Nat, NEW L \in Nat \ {0}, k >= L, k < 2 * L
    PROVE  (k - L) % L = k % L /\ k - L \in 0 .. k - 1
OBVIOUS

\* An event is one of the object whose turn it is, of the state it has to show.
LEMMA SnapshotKinds ==
    ASSUME NEW id
    PROVE  /\ SnapshotOfEvent(id) \in Stripe!Statuses
           /\ ~spec.allowStale => SnapshotOfEvent(id) = "Succeeded"
           /\ (\E e \in webhook.generated : e[2] = id) => SnapshotOfEvent(id) = "Succeeded"
           /\ spec.allowStale /\ (\A e \in webhook.generated : e[2] # id) =>
                 SnapshotOfEvent(id) = "RequiresConfirmation"
BY DEF SnapshotOfEvent, Stripe!Statuses

\* The object whose turn it is, and the objects that had theirs.
LEMMA TurnFacts ==
    ASSUME NEW m, NEW n, NEW next, StepOf(m, n, next), current.kind = "GenerateProviderEvent"
    PROVE  LET L == Len(sources.objects) g == sources.generated IN
           /\ L \in Nat \ {0} /\ g \in Nat /\ n.generated = g + 1 /\ g < 2 * L
           /\ n.pending = Len(webhook.queue) + 1
           /\ ~n.delayUsed => \A i \in DOMAIN webhook.queue : ~webhook.queue[i].delayed
           /\ n.delivered > 0 => webhook.last # NoValue
           /\ (g % L) + 1 \in 1 .. L
           /\ Input = captured[sources.objects[(g % L) + 1]]
           /\ Input \in Known(fixture.stripe)
<1> DEFINE L == Len(sources.objects)
           g == sources.generated
<1>1. /\ EventPart(m) /\ m.objects = L /\ sources \in Sources /\ webhook \in WebhookStates
  BY RealParts DEF StepOf, Real, TracePart
<1>2. /\ m.phase \in {"Confirmed", "Events"} /\ n.phase = "Events"
      /\ n.generated = m.generated + 1 /\ n.pending = m.pending + 1
      /\ n.delivered = m.delivered /\ (n.delayUsed <=> m.delayUsed)
      /\ n.objects = m.objects
      /\ IsModel(m) /\ EventsBounded(spec, m) /\ EventsBounded(spec, n)
      /\ m.generated \in Nat /\ m.objects \in Nat /\ m.delivered \in Nat /\ m.pending \in Nat
  BY DEF StepOf, PlannedIn, LeadsTo, Sound, IsModel, BusinessRequest
<1>3. sources.objects # <<>> /\ Input \in Known(fixture.stripe)
  BY InputIsCaptured
<1>4. L \in Nat \ {0} /\ g \in Nat
  <2>1. sources.objects \in Seq(Refs) /\ g \in Nat
    BY <1>1 DEF Sources
  <2> QED  BY <1>3, <2>1, LenProperties, EmptySeq
<1>5. TargetEvents(spec, n.objects) <= 2 * L
  <2>1. n.objects = L
    BY <1>1, <1>2
  <2> HIDE DEF L
  <2> QED  BY <1>4, <2>1 DEF TargetEvents, EventsPerObject
<1>6. m.generated = g
  BY <1>1, <1>2 DEF EventPart, EventsBounded
<1>7. g < 2 * L
  <2>1. n.generated \in 1 .. TargetEvents(spec, n.objects)
    BY <1>2 DEF EventsBounded
  <2>2. TargetEvents(spec, n.objects) \in Nat
    BY <1>2 DEF TargetEvents, EventsPerObject
  <2> HIDE DEF L, g
  <2> QED  BY <1>2, <1>4, <1>5, <1>6, <2>1, <2>2
<1>8. m.pending = Len(webhook.queue)
  <2>1. webhook.queue \in Seq([event: Nat, delayed: BOOLEAN])
    BY <1>1 DEF WebhookStates
  <2> QED  BY <1>1, <1>2, <2>1, EmptySeq DEF EventPart, EventsBounded
<1>9. ~n.delayUsed => \A i \in DOMAIN webhook.queue : ~webhook.queue[i].delayed
  BY <1>1, <1>2 DEF EventPart
<1>10. n.delivered > 0 => webhook.last # NoValue
  BY <1>1, <1>2 DEF EventPart, EventsBounded
<1>11. Input = captured[sources.objects[(g % L) + 1]]
  BY <1>3 DEF Input, InputOf, ConfirmKinds
<1>12. (g % L) + 1 \in 1 .. L
  <2> HIDE DEF g, L
  <2> QED  BY <1>4
<1> QED  BY <1>2, <1>3, <1>4, <1>6, <1>7, <1>8, <1>9, <1>10, <1>11, <1>12

\* A new event is queued, and the captures of the objects are kept.
LEMMA GeneratesAsPlanned ==
    ASSUME NEW m, NEW n, NEW next, StepOf(m, n, next), GenerateProviderEvent(next)
    PROVE  Outcome(n)
<1> DEFINE id == Input
           kind == SnapshotOfEvent(id)
           p == fixture.stripe
           after == Stripe!EventSnapshot(p, id, kind)
           event == CHOOSE i \in DOMAIN after.events :
                       after.events[i].intent = id /\ after.events[i].kind = kind
           k == fixture.command + 1
           L == Len(sources.objects)
           g == sources.generated
           item == [event |-> event, delayed |-> FALSE]
           w == [webhook EXCEPT !.control = @ + 1,
                                !.generated = @ \cup {<<event, id>>},
                                !.queue = Append(@, item)]
           ref == Ref(L, "EventId", 0)
           new == Captures(<<ref>>, <<event>>)
           t == Reserve(sources, current)
           d == Live(t, captured, new)
<1>1. current.kind = "GenerateProviderEvent"
  BY DEF GenerateProviderEvent, Running
<1>2. Outputs = <<ref>>
  BY <1>1 DEF Outputs, OutputsOf
<1>3. /\ fixture' = [fixture EXCEPT !.stripe = after, !.command = k]
      /\ webhook' = w /\ provider' = Synchronize(provider, w)
      /\ Require(/\ NotQuiesced /\ webhook.control = fixture.command
                 /\ id \in Known(p)
                 /\ OutputContract(<<ref>>, <<"EventId">>)
                 /\ ValidCaptures(<<ref>>, new)
                 /\ \A e \in webhook.generated : e[1] = event => e[2] = id,
                 "GenerateProviderEvent")
      /\ captured' = d
      /\ UNCHANGED <<app, case, observed, diverged>>
  BY <1>2 DEF GenerateProviderEvent, RequireOpen, Capture, Complete
<1>4. /\ m.phase \in {"Confirmed", "Events"} /\ n.phase = "Events"
      /\ UNCHANGED <<application, spec>> /\ ProviderPart /\ Types /\ EventPart(m)
      /\ n.objects = m.objects /\ m.objects = L /\ sources' = t
      /\ Traces(sources, captured, Known(p), m.phase \in Early)
  BY <1>1 DEF StepOf, PlannedIn, LeadsTo, Real, TracePart, BusinessRequest
<1>5. /\ fixture \in Fixtures /\ app \in Apps /\ provider \in ProviderStates
      /\ webhook \in WebhookStates /\ observed \in Nat /\ fixture.command \in Nat
      /\ webhook.control = fixture.command /\ webhook.observations = observed
      /\ webhook.request = NoValue /\ webhook.response = NoValue
      /\ fixture.request = NoValue /\ fixture.response = NoValue
      /\ provider.response = NoValue /\ provider.pending = NoValue /\ fixture.gates = {}
      /\ Provides(p) /\ Fresh(p) /\ NotQuiesced /\ k \in Nat /\ sources \in Sources
  BY <1>1, <1>4, RealParts
<1>6. /\ L \in Nat \ {0} /\ g \in Nat /\ n.generated = g + 1 /\ g < 2 * L
      /\ n.pending = Len(webhook.queue) + 1
      /\ ~n.delayUsed => \A i \in DOMAIN webhook.queue : ~webhook.queue[i].delayed
      /\ n.delivered > 0 => webhook.last # NoValue
      /\ (g % L) + 1 \in 1 .. L
      /\ id = captured[sources.objects[(g % L) + 1]]
      /\ id \in Known(p)
  BY <1>1, TurnFacts
<1>7. /\ kind \in Stripe!Statuses
      /\ ~spec.allowStale => kind = "Succeeded"
      /\ (\E e \in webhook.generated : e[2] = id) => kind = "Succeeded"
      /\ spec.allowStale /\ (\A e \in webhook.generated : e[2] # id) =>
            kind = "RequiresConfirmation"
  BY SnapshotKinds
<1> HIDE DEF id, kind, p
<1>8. /\ Extends(p, after) /\ Len(after.intents) = Len(p.intents)
      /\ Stripe!HasEvent(after, id, kind)
  BY <1>5, <1>6, <1>7, SnapshotFacts
<1> HIDE DEF after
<1>9. /\ Known(after) = Known(p) /\ Provides(after) /\ after.idempotency = p.idempotency
      /\ \A x, y : Stripe!HasEvent(p, x, y) => Stripe!HasEvent(after, x, y)
      /\ DOMAIN p.events \subseteq DOMAIN after.events
      /\ \A i \in DOMAIN p.events : after.events[i] = p.events[i]
  BY <1>5, <1>8, ExtendsFacts DEF Extends
<1>10. /\ event \in DOMAIN after.events /\ after.events[event].intent = id
       /\ event \in Nat
  <2>1. \E i \in DOMAIN after.events :
           after.events[i].intent = id /\ after.events[i].kind = kind
    BY <1>8 DEF Stripe!HasEvent
  <2>2. DOMAIN after.events = 1 .. Len(after.events)
    BY <1>9, ProviderShape
  <2>3. event \in DOMAIN after.events /\ after.events[event].intent = id
    BY <2>1
  <2> HIDE DEF event
  <2> QED  BY <2>2, <2>3
<1> HIDE DEF event
<1>11. \A e \in webhook.generated :
          /\ e[1] \in DOMAIN p.events /\ p.events[e[1]].intent = e[2]
          /\ spec.allowStale => Stripe!HasEvent(p, e[2], "RequiresConfirmation")
  BY <1>4 DEF EventPart, p
<1>12. \A e \in webhook.generated : e[1] = event => e[2] = id
  BY <1>9, <1>10, <1>11
<1>13. /\ OutputContract(<<ref>>, <<"EventId">>) /\ ValidCaptures(<<ref>>, new)
       /\ \A r \in DOMAIN new : r.slot # "PaymentIntentId"
  <2>1. ref.slot = "EventId"
    BY DEF Ref
  <2> HIDE DEF ref
  <2>2. LET c == Captures(<<ref>>, <<event>>) IN
        /\ OutputContract(<<ref>>, <<ref.slot>>) /\ ValidCaptures(<<ref>>, c)
        /\ \A r : r \in DOMAIN c <=> r = ref
    BY OneCaptured
  <2> QED  BY <2>1, <2>2
<1> HIDE DEF ref, new
<1>14. failure' = NoValue
  BY <1>3, <1>5, <1>6, <1>12, <1>13 DEF Require
<1> DEFINE queue == Append(webhook.queue, item)
           generated == webhook.generated \cup {<<event, id>>}
<1>15. /\ queue \in Seq([event: Nat, delayed: BOOLEAN])
       /\ Len(queue) = Len(webhook.queue) + 1
       /\ ~n.delayUsed => \A i \in DOMAIN queue : ~queue[i].delayed
  <2> DEFINE q == webhook.queue
             S == [event: Nat, delayed: BOOLEAN]
  <2>1. q \in Seq(S) /\ (~n.delayUsed => \A i \in DOMAIN q : ~q[i].delayed)
    BY <1>5, <1>6 DEF WebhookStates
  <2>2. item \in S /\ ~item.delayed
    BY <1>10
  <2> HIDE DEF q, item, S
  <2>3. DOMAIN q = 1 .. Len(q) /\ Len(q) \in Nat
    BY <2>1, LenProperties
  <2> DEFINE a == Append(q, item)
  <2>4. /\ a \in Seq(S) /\ Len(a) = Len(q) + 1
        /\ \A i \in 1 .. Len(q) : a[i] = q[i]
        /\ a[Len(q) + 1] = item
        /\ DOMAIN a = 1 .. Len(q) + 1
    <3>2. /\ a \in Seq(S) /\ a # <<>> /\ Len(a) = Len(q) + 1
          /\ \A i \in 1 .. Len(q) : a[i] = q[i]
          /\ a[Len(q) + 1] = item
      BY <2>1, <2>2, AppendProperties
    <3>3. DOMAIN a = 1 .. Len(a)
      BY <3>2, LenProperties
    <3> QED  BY <3>2, <3>3
  <2>5. ~n.delayUsed => \A i \in DOMAIN a : ~a[i].delayed
    <3> HIDE DEF a
    <3>1. \A i \in DOMAIN a : i \in DOMAIN q \/ i = Len(q) + 1
      BY <2>3, <2>4
    <3>2. /\ \A i \in DOMAIN q : a[i] = q[i]
          /\ a[Len(q) + 1] = item
      BY <2>3, <2>4
    <3> SUFFICES ASSUME ~n.delayUsed, NEW i \in DOMAIN a PROVE ~a[i].delayed
      OBVIOUS
    <3>3. CASE i \in DOMAIN q
      <4>1. ~q[i].delayed /\ a[i] = q[i]
        BY <2>1, <3>2, <3>3
      <4> QED  BY <4>1
    <3>4. CASE i = Len(q) + 1
      <4>1. a[i] = item
        BY <3>2, <3>4
      <4> QED  BY <2>2, <4>1
    <3> QED  BY <3>1, <3>3, <3>4
  <2> QED  BY <2>4, <2>5 DEF q, S
<1>16. generated \in SUBSET (Nat \X Stripe!Ids)
  <2>1. id \in Stripe!Ids
    BY <1>5, <1>6, KnownIds
  <2> QED  BY <1>5, <1>10, <2>1 DEF WebhookStates
<1>17. /\ w \in WebhookStates /\ w.queue = queue /\ w.generated = generated
       /\ w.last = webhook.last /\ w.control = k /\ w.observations = observed
       /\ w.request = NoValue /\ w.response = NoValue
  <2>1. w = [webhook EXCEPT !.control = k, !.generated = generated, !.queue = queue]
    BY <1>5
  <2> HIDE DEF w, k, generated, queue
  <2> QED  BY <1>5, <1>15, <1>16, <2>1 DEF WebhookStates
<1> HIDE DEF w
<1>18. /\ provider' \in ProviderStates
       /\ provider'.pending = provider.pending /\ provider'.response = provider.response
       /\ provider'.known = provider.known /\ provider'.recovered = provider.recovered
       /\ provider'.control = k /\ provider'.observations = observed
  <2>1. LET y == Synchronize(provider, w) IN
        /\ y \in ProviderStates
        /\ y.pending = provider.pending /\ y.response = provider.response
        /\ y.known = provider.known /\ y.recovered = provider.recovered
        /\ y.control = w.control /\ y.observations = w.observations
    BY <1>5, <1>17, ProviderSynchronized
  <2> QED  BY <1>3, <1>17, <2>1
<1>19. /\ fixture' \in Fixtures /\ fixture'.stripe = after
       /\ fixture'.outcomes = fixture.outcomes /\ fixture'.gates = {}
       /\ fixture'.command = k
       /\ fixture'.request = NoValue /\ fixture'.response = NoValue
  <2> HIDE DEF k
  <2>1. after \in Stripe!Providers
    BY <1>9 DEF Provides
  <2> QED  BY <1>3, <1>5, <2>1 DEF Fixtures
<1>20. /\ t \in Sources /\ t.objects = sources.objects /\ t.active = sources.active
       /\ t.gate = sources.gate /\ t.generated = g + 1
       /\ Traces(t, captured, Known(p), FALSE)
  <2> DEFINE known == Known(p)
             early == m.phase \in Early
  <2>1. sources \in Sources /\ Traces(sources, captured, known, early)
    BY <1>4, <1>5
  <2> HIDE DEF known, early
  <2>2. LET r == Reserve(sources, current) IN
        /\ r \in Sources /\ r.objects = sources.objects /\ r.active = sources.active
        /\ Traces(r, captured, known, FALSE)
        /\ current.kind \notin ConfirmKinds \cup {"ReleaseProviderGate"} => r.gate = sources.gate
        /\ r.generated = sources.generated
                         + IF current.kind = "GenerateProviderEvent" THEN 1 ELSE 0
    BY <1>1, <2>1, TracesKept DEF BusinessRequest
  <2> QED  BY <1>1, <2>2 DEF known, ConfirmKinds
<1> HIDE DEF t
<1>21. /\ Traces(t, d, Known(p), FALSE)
       /\ \A i \in 1 .. L : d[sources.objects[i]] = captured[sources.objects[i]]
       /\ d[t.active] = captured[sources.active]
  <2> DEFINE known == Known(p)
  <2> HIDE DEF known
  <2>1. Traces(t, captured, known, FALSE)
    BY <1>20 DEF known
  <2>2. /\ Traces(t, d, known, FALSE)
        /\ t.objects # <<>> => d[t.active] = captured[t.active]
        /\ \A i \in 1 .. Len(t.objects) : d[t.objects[i]] = captured[t.objects[i]]
    BY <1>13, <1>20, <2>1, CapturesKept, ZenonT(30)
  <2>3. t.objects # <<>>
    BY <1>6, <1>20
  <2> QED  BY <1>20, <2>2, <2>3 DEF known
<1> HIDE DEF d
<1>22. TracePart(n)'
  <2>1. (n.phase \in Early) = FALSE
    BY <1>4 DEF Early
  <2>2. Traces(sources', captured', Known(fixture'.stripe), n.phase \in Early)
    BY <1>3, <1>4, <1>9, <1>19, <1>21, <2>1
  <2> QED  BY <1>4, <1>20, <2>2 DEF TracePart
<1>23. ActiveIntent' = ActiveIntent
  BY <1>3, <1>4, <1>21 DEF ActiveIntent
<1>24. ControlPart(n)'
  BY <1>1, <1>3, <1>17, <1>18, <1>19, ControlStays
<1>25. HeldPart(n)'
  BY <1>4, <1>5, <1>18, <1>19 DEF HeldPart
<1>26. CutPart'
  BY <1>1, <1>3, <1>5, <1>17, <1>18, <1>19, NothingToCut DEF BusinessRequest, Delivery
<1>27. \A e \in generated :
          /\ e[1] \in DOMAIN after.events /\ after.events[e[1]].intent = e[2]
          /\ spec.allowStale => Stripe!HasEvent(after, e[2], "RequiresConfirmation")
  <2>1. \A e \in webhook.generated :
          /\ e[1] \in DOMAIN after.events /\ after.events[e[1]].intent = e[2]
          /\ spec.allowStale => Stripe!HasEvent(after, e[2], "RequiresConfirmation")
    BY <1>9, <1>11
  <2>2. spec.allowStale => Stripe!HasEvent(after, id, "RequiresConfirmation")
    <3>1. CASE \A e \in webhook.generated : e[2] # id
      BY <1>7, <1>8, <3>1
    <3>2. CASE \E e \in webhook.generated : e[2] = id
      BY <2>1, <3>2
    <3> QED  BY <3>1, <3>2
  <2>3. <<event, id>>[1] = event /\ <<event, id>>[2] = id
    OBVIOUS
  <2> QED  BY <1>10, <2>1, <2>2, <2>3
<1>28. \A j \in 0 .. g : Reported(j)'
  <2> SUFFICES ASSUME NEW j \in 0 .. g PROVE Reported(j)'
    OBVIOUS
  <2> DEFINE x == captured[sources.objects[(j % L) + 1]]
  <2>1. (j % L) + 1 \in 1 .. L
    <3> HIDE DEF L, g
    <3> QED  BY <1>6
  <2>2. captured'[sources'.objects[(j % Len(sources'.objects)) + 1]] = x
    BY <1>3, <1>4, <1>20, <1>21, <2>1
  <2>3. \A i \in 0 .. g - 1 :
           LET y == captured[sources.objects[(i % L) + 1]] IN
           /\ \E e \in webhook.generated : e[2] = y
           /\ ~spec.allowStale \/ i >= L => Stripe!HasEvent(p, y, "Succeeded")
    BY <1>4 DEF EventPart, Reported, p
  <2>4. /\ \E e \in generated : e[2] = x
        /\ ~spec.allowStale \/ j >= L => Stripe!HasEvent(after, x, "Succeeded")
    <3>1. CASE j # g
      <4>1. j \in 0 .. g - 1
        <5> HIDE DEF g
        <5> QED  BY <1>6, <3>1
      <4>2. /\ \E e \in webhook.generated : e[2] = x
            /\ ~spec.allowStale \/ j >= L => Stripe!HasEvent(p, x, "Succeeded")
        BY <2>3, <4>1
      <4> QED  BY <1>9, <4>2
    <3>2. CASE j = g
      <4>1. x = id
        BY <1>6, <3>2
      <4>2. <<event, id>> \in generated /\ <<event, id>>[2] = id
        OBVIOUS
      <4>3. j >= L => kind = "Succeeded"
        <5> SUFFICES ASSUME j >= L PROVE kind = "Succeeded"
          OBVIOUS
        <5>1. (g - L) % L = g % L /\ g - L \in 0 .. g - 1
          <6> HIDE DEF L, g
          <6> QED  BY <1>6, <3>2, SecondRound
        <5>2. \E e \in webhook.generated : e[2] = captured[sources.objects[((g - L) % L) + 1]]
          BY <2>3, <5>1
        <5>3. \E e \in webhook.generated : e[2] = id
          BY <1>6, <5>1, <5>2
        <5> QED  BY <1>7, <5>3
      <4> HIDE DEF x, generated
      <4> QED  BY <1>7, <1>8, <4>1, <4>2, <4>3
    <3> QED  BY <3>1, <3>2
  <2>5. webhook'.generated = generated /\ fixture'.stripe = after /\ spec' = spec
        /\ Len(sources'.objects) = L
    BY <1>3, <1>4, <1>17, <1>19, <1>20
  <2> HIDE DEF x, generated
  <2> QED  BY <2>2, <2>4, <2>5 DEF Reported
<1>29. EventPart(n)'
  <2>1. /\ webhook'.queue = queue /\ webhook'.generated = generated
        /\ webhook'.last = webhook.last /\ fixture'.stripe = after /\ spec' = spec
        /\ sources'.generated = g + 1
    BY <1>3, <1>4, <1>17, <1>19, <1>20
  <2>2. 0 .. sources'.generated - 1 = 0 .. g
    <3> HIDE DEF g
    <3> QED  BY <1>6, <2>1
  <2> HIDE DEF queue, generated, g
  <2>3. /\ n.pending = Len(webhook'.queue) /\ n.generated = sources'.generated
        /\ ~n.delayUsed => \A i \in DOMAIN webhook'.queue : ~webhook'.queue[i].delayed
        /\ n.delivered > 0 => webhook'.last # NoValue
    BY <1>6, <1>15, <2>1
  <2> QED  BY <1>4, <1>27, <1>28, <2>1, <2>2, <2>3 DEF EventPart
<1>30. StatusPart(n)'
  BY <1>1, <1>8, <1>19, <1>23, StatusStays DEF BusinessRequest, ConfirmKinds, p
<1>31. Types'
  BY <1>3, <1>4, <1>17, <1>18, <1>19, <1>20 DEF Types
<1>32. ProviderPart'
  <2>1. /\ Numbered(after) /\ Fresh(after)
    BY <1>5, <1>9 DEF Provides, Fresh
  <2> QED  BY <1>3, <1>4, <1>8, <1>9, <1>18, <1>19, <1>20, <2>1 DEF ProviderPart, Faulty, p
<1>33. Faulty => ~diverged'
  BY <1>3, <1>4 DEF ProviderPart
<1> QED  BY <1>14, <1>22, <1>24, <1>25, <1>26, <1>29, <1>30, <1>31, <1>32, <1>33
         DEF Outcome, Real

-----------------------------------------------------------------------------
(* Confirmations.                                                            *)

\* The code of a confirmation with this outcome.
CodeOf(o) == IF o = "PreExecute429" THEN 429
             ELSE IF o \in {"PreExecute500", "PostExecute500"} THEN 500 ELSE 200

\* What a confirmation comes to: o is the outcome it is answered with.
Confirms(call, script, id, q, rest, o) ==
    /\ script = Single(script.first) /\ script.first \in Outcomes
    /\ call.fixture = Called(fixture, rest, q)
    /\ call.disposition = Stripe!DispositionOf(o) /\ call.code = CodeOf(o)
    /\ (call.diverged <=> o # script.first)
    /\ Extends(fixture.stripe, q) /\ Len(q.intents) = Len(fixture.stripe.intents)
    /\ Known(q) = Known(fixture.stripe)
    /\ Commits(o) => StatusOf(q, id) = "Succeeded"
    /\ ~Commits(o) => q = fixture.stripe
    /\ rest \in Seq(Outcomes) /\ Len(rest) = Len(fixture.outcomes)
    /\ o # script.first => o = "Normal" /\ fixture.outcomes # <<>>
    /\ o = script.first => rest \in Seq({"Normal"})

\* A confirmation is answered as planned, unless a recovered request left an
\* outcome for it.
LEMMA ConfirmCall ==
    ASSUME NEW m, NEW n, NEW next, StepOf(m, n, next), current.kind \in ConfirmKinds
    PROVE  LET call == CallConfirm(Planned(fixture, current.script), Input,
                                   current.script.first)
           IN  \E q, rest : \E o \in Outcomes :
                  Confirms(call, current.script, Input, q, rest, o)
<1> DEFINE script == current.script
           id == Input
           f == fixture
           L == fixture.outcomes
           p == fixture.stripe
           g == Planned(f, script)
           os == g.outcomes
           o == Head(os)
           q == Stripe!ConfirmEffect(p, id, o)
           call == CallConfirm(g, id, script.first)
<1> SUFFICES \E x, rest : \E y \in Outcomes : Confirms(call, script, id, x, rest, y)
  OBVIOUS
<1>1. \E y \in Outcomes : script = Single(y)
  BY DEF StepOf, PlannedIn
<1>2. /\ script.first \in Outcomes /\ script.retry = NoRetry /\ script = Single(script.first)
  BY <1>1 DEF Single
<1>3. /\ f \in Fixtures /\ Provides(p) /\ L \in Seq({"Normal"}) /\ id \in Known(p)
  BY RealParts, InputIsCaptured DEF StepOf, Real, ProviderPart
<1> HIDE DEF script, id
<1>4. /\ g \in Fixtures /\ g.stripe = p
      /\ \A x, y : Called(g, x, y) = Called(f, x, y)
      /\ os \in Seq(Outcomes) /\ os # <<>>
      /\ Len(os) = Len(L) + CallCount(script)
      /\ L = <<>> => Head(os) = script.first /\ Tail(os) = <<>>
      /\ L # <<>> => Head(os) = "Normal"
      /\ Tail(os) \in Seq(Outcomes) /\ Len(Tail(os)) = Len(os) - 1
      /\ script = Single("Normal") => Tail(os) \in Seq({"Normal"})
  BY <1>2, <1>3, PlannedShape
<1>5. o \in Outcomes
  BY <1>4, HeadTailProperties
<1>6. /\ call.fixture = Called(g, Tail(os), Stripe!ConfirmEffect(g.stripe, id, o))
      /\ call.disposition = Stripe!DispositionOf(o)
      /\ call.code = Stripe!ConfirmResponse(g.stripe, id, o).code
      /\ (call.diverged <=> o # script.first)
  BY DEF CallConfirm, Called
<1> HIDE DEF call
<1>7. call.fixture = Called(f, Tail(os), q)
  BY <1>4, <1>6
<1>8. Len(Tail(os)) = Len(L)
  <2>1. Len(L) \in Nat /\ CallCount(script) = 1
    BY <1>2, <1>3, LenProperties DEF CallCount
  <2> DEFINE a == Len(Tail(os))
             b == Len(os)
             c == Len(L)
             j == CallCount(script)
  <2>4. b = c + j /\ a = b - 1
    BY <1>4
  <2>5. c \in Nat /\ j = 1
    BY <2>1
  <2> HIDE DEF j
  <2>2. c \in Nat /\ b = c + 1 /\ a = b - 1
    <3> HIDE DEF a, b, c
    <3> QED  BY <2>4, <2>5
  <2> HIDE DEF a, b, c
  <2>3. a = c
    BY <2>2
  <2> QED  BY <2>3 DEF a, c
<1>9. o = script.first => Tail(os) \in Seq({"Normal"})
  <2>1. CASE L = <<>>
    <3>1. Tail(os) = L
      BY <1>4, <2>1
    <3> QED  BY <1>3, <3>1
  <2>2. CASE L # <<>>
    BY <1>2, <1>4, <2>2
  <2> QED  BY <2>1, <2>2
<1>10. o # script.first => o = "Normal" /\ L # <<>>
  BY <1>4
<1> HIDE DEF g, os, o
<1>11. /\ Extends(p, q) /\ Len(q.intents) = Len(p.intents) /\ Known(q) = Known(p)
       /\ Commits(o) => StatusOf(q, id) = "Succeeded"
       /\ ~Commits(o) => q = p
  <2>1. CASE Commits(o)
    <3>1. q = Stripe!Confirm(p, id)
      BY <2>1 DEF Commits, Stripe!ConfirmEffect, Stripe!PreExecution
    <3> HIDE DEF q, p
    <3>2. Extends(p, q) /\ Len(q.intents) = Len(p.intents) /\ StatusOf(q, id) = "Succeeded"
      BY <1>3, <3>1, ConfirmFacts
    <3> QED  BY <1>3, <2>1, <3>2, ExtendsFacts
  <2>2. CASE ~Commits(o)
    <3>1. q = p
      BY <2>2 DEF Commits, Stripe!ConfirmEffect, Stripe!PreExecution
    <3> HIDE DEF q
    <3> QED  BY <1>3, <2>2, <3>1, SameExtends
  <2> QED  BY <2>1, <2>2
<1>12. call.code = CodeOf(o)
  <2>1. Stripe!ConfirmResponse(p, id, o).code = CodeOf(o)
    BY <1>5 DEF Outcomes, CodeOf, Stripe!ConfirmResponse, Stripe!PreExecution,
                Stripe!PreExecutionResponse, Stripe!ExecutedResponse, Stripe!ErrorResponse,
                Stripe!ObjectResponse
  <2> QED  BY <1>4, <1>6, <2>1
<1> DEFINE rest == Tail(os)
<1>13. rest \in Seq(Outcomes)
  BY <1>4
<1>14. Confirms(call, script, id, q, rest, o)
  BY <1>2, <1>6, <1>7, <1>8, <1>9, <1>10, <1>11, <1>12, <1>13 DEF Confirms
<1> HIDE DEF q, rest
<1> QED  BY <1>5, <1>14

\* The phases in which a payment can be confirmed.
LEMMA ConfirmParts ==
    ASSUME NEW m, NEW n, NEW next, StepOf(m, n, next), current.kind \in ConfirmKinds
    PROVE  /\ m.phase \in {"PaymentIntentKnown", "ConfirmRetryable"}
           /\ n.phase = PhaseAfter(current.script, "Confirmed", "ConfirmResponseHeld",
                                   "ConfirmRetryable")
           /\ n.objects = m.objects /\ m.objects = Len(sources.objects)
           /\ n.phase = "ConfirmRetryable" =>
                 (n.ambiguous <=> HasAmbiguousCommit(current.script))
           /\ UNCHANGED <<application, spec>> /\ sources.generated = 0
           /\ sources' = Reserve(sources, current)
           /\ Types /\ ProviderPart /\ StatusPart(m) /\ EventPart(m)
           /\ Traces(sources, captured, Known(fixture.stripe), TRUE)
           /\ sources.objects # <<>> /\ Input = ActiveIntent
           /\ Input \in Known(fixture.stripe)
           /\ provider.pending = NoValue /\ fixture.gates = {} /\ app.up
           /\ provider.response = NoValue /\ webhook.request = NoValue
           /\ webhook.response = NoValue
           /\ fixture.request = NoValue /\ fixture.response = NoValue
           /\ NotQuiesced /\ InStep
<1>1. /\ m.phase \in {"PaymentIntentKnown", "ConfirmRetryable"}
      /\ n.phase = PhaseAfter(current.script, "Confirmed", "ConfirmResponseHeld",
                              "ConfirmRetryable")
      /\ n.objects = m.objects /\ m.objects = Len(sources.objects)
      /\ n.phase = "ConfirmRetryable" =>
            (n.ambiguous <=> HasAmbiguousCommit(current.script))
      /\ UNCHANGED <<application, spec>>
      /\ sources' = Reserve(sources, current)
      /\ Types /\ ProviderPart /\ StatusPart(m) /\ EventPart(m)
      /\ Traces(sources, captured, Known(fixture.stripe), m.phase \in Early)
  BY DEF StepOf, PlannedIn, LeadsTo, Real, TracePart, BusinessRequest, ConfirmKinds, Ambiguity
<1>2. (m.phase \in Early) = TRUE
  BY <1>1 DEF Early
<1>3. sources.generated = 0
  BY <1>1 DEF EventPart
<1>4. current.kind # "KillApplication" /\ current.kind # "RestartAndAwaitHealth"
  BY DEF ConfirmKinds
<1> QED  BY <1>1, <1>2, <1>3, <1>4, RealParts, InputIsCaptured

\* A confirmation leaves the payment in the state its outcome says, or ends the
\* case on an outcome that was not its own.
LEMMA ConfirmsAsPlanned ==
    ASSUME NEW m, NEW n, NEW next, StepOf(m, n, next), ConfirmPaymentIntent(next)
    PROVE  Outcome(n)
<1> DEFINE script == current.script
           outcome == script.first
           id == Input
           call == CallConfirm(Planned(fixture, script), id, outcome)
           closed == call.disposition = "CloseConnection"
           after == call.fixture.stripe
           p == fixture.stripe
<1>1. current.kind \in ConfirmKinds
  BY DEF ConfirmPaymentIntent, Running
<1>2. /\ outcome # "CommitThenDelay"
      /\ fixture' = call.fixture
      /\ webhook' = Synchronize(webhook, provider)
      /\ diverged' = (diverged \/ call.diverged)
      /\ Require(NotQuiesced /\
                 /\ provider.pending = NoValue /\ InStep
                 /\ fixture.gates = {} /\ app.up
                 /\ NoOutputs
                 /\ closed <=> (outcome = "CommitThenClose")
                 /\ ~closed => call.code = ExpectedCode(outcome)
                 /\ call.disposition # "DelayResponse"
                 /\ StatusOf(after, id) =
                       IF Commits(outcome) THEN "Succeeded" ELSE StatusOf(p, id),
                 "ConfirmPaymentIntent")
      /\ UNCHANGED <<captured, app, provider, case, observed>>
  BY DEF ConfirmPaymentIntent, RequireOpen
<1>3. /\ m.phase \in {"PaymentIntentKnown", "ConfirmRetryable"}
      /\ n.phase = PhaseAfter(script, "Confirmed", "ConfirmResponseHeld", "ConfirmRetryable")
      /\ n.objects = m.objects /\ m.objects = Len(sources.objects)
      /\ n.phase = "ConfirmRetryable" => (n.ambiguous <=> HasAmbiguousCommit(script))
      /\ UNCHANGED <<application, spec>> /\ sources.generated = 0
      /\ Types /\ ProviderPart /\ StatusPart(m) /\ EventPart(m)
      /\ sources.objects # <<>> /\ id = ActiveIntent
      /\ id \in Known(p)
      /\ provider.pending = NoValue /\ fixture.gates = {} /\ app.up
      /\ provider.response = NoValue /\ webhook.request = NoValue
      /\ webhook.response = NoValue
      /\ fixture.request = NoValue /\ fixture.response = NoValue
      /\ NotQuiesced /\ InStep
  BY <1>1, ConfirmParts
<1>4. PICK q, rest : \E o \in Outcomes : Confirms(call, script, id, q, rest, o)
  BY <1>1, ConfirmCall
<1>5. PICK o \in Outcomes : Confirms(call, script, id, q, rest, o)
  BY <1>4
<1> HIDE DEF call, id, script
<1>6. /\ script = Single(outcome) /\ outcome \in Outcomes
      /\ call.fixture = Called(fixture, rest, q)
      /\ call.disposition = Stripe!DispositionOf(o) /\ call.code = CodeOf(o)
      /\ (call.diverged <=> o # outcome)
      /\ Extends(p, q) /\ Len(q.intents) = Len(p.intents) /\ Known(q) = Known(p)
      /\ Commits(o) => StatusOf(q, id) = "Succeeded"
      /\ ~Commits(o) => q = p
      /\ rest \in Seq(Outcomes) /\ Len(rest) = Len(fixture.outcomes)
      /\ o # outcome => o = "Normal" /\ fixture.outcomes # <<>>
      /\ o = outcome => rest \in Seq({"Normal"})
  BY <1>5 DEF Confirms
<1>7. TerminalOutcome(script) = outcome
  BY <1>6 DEF TerminalOutcome, Single
<1>8. /\ fixture' = Called(fixture, rest, q) /\ after = q
      /\ fixture' \in Fixtures /\ fixture'.stripe = q /\ fixture'.outcomes = rest
      /\ fixture'.gates = {} /\ fixture'.command = fixture.command
      /\ fixture'.request = NoValue /\ fixture'.response = NoValue
  <2>1. fixture \in Fixtures /\ q \in Stripe!Providers
    BY <1>1, <1>6, RealParts DEF Extends, Provides
  <2>2. call.fixture = Called(fixture, rest, q) /\ rest \in Seq(Outcomes)
    BY <1>6
  <2>3. Called(fixture, rest, q) \in Fixtures
    BY <2>1, <2>2 DEF Called, Fixtures
  <2> QED  BY <1>2, <1>3, <2>1, <2>2, <2>3, CalledTwice
<1> HIDE DEF p
<1>9. NoOutputs
  BY <1>1, <1>2, <1>7, NothingCaptured
     DEF NoOutputs, Complete, Outputs, BusinessRequest, ConfirmKinds, script
<1>10. o = outcome => failure' = NoValue
  <2> SUFFICES ASSUME o = outcome PROVE failure' = NoValue
    OBVIOUS
  <2>1. /\ closed <=> (outcome = "CommitThenClose")
        /\ ~closed => call.code = ExpectedCode(outcome)
        /\ call.disposition # "DelayResponse"
    BY <1>2, <1>6 DEF Stripe!DispositionOf, CodeOf, ExpectedCode, Outcomes
  <2>2. StatusOf(q, id) = IF Commits(outcome) THEN "Succeeded" ELSE StatusOf(p, id)
    BY <1>6
  <2> QED  BY <1>2, <1>3, <1>8, <1>9, <2>1, <2>2 DEF Require, p
<1>11. o # outcome => failure' # NoValue
  <2> SUFFICES ASSUME o # outcome PROVE failure' # NoValue
    OBVIOUS
  <2>1. o = "Normal" /\ ~closed /\ call.code = 200
    BY <1>6 DEF Stripe!DispositionOf, CodeOf
  <2>2. ~(closed <=> (outcome = "CommitThenClose")) \/ call.code # ExpectedCode(outcome)
    BY <1>2, <1>6, <2>1 DEF ExpectedCode, Outcomes
  <2>3. NoValue # "ConfirmPaymentIntent"
    BY NoValueAssumption DEF Errors
  <2> QED  BY <1>2, <2>1, <2>2, <2>3 DEF Require
<1>12. failure' # NoValue => diverged' /\ case'.checkpoint = NoValue
  BY <1>2, <1>3, <1>6, <1>10 DEF NotQuiesced
<1>13. Faulty => ~diverged'
  <2> SUFFICES ASSUME Faulty PROVE ~diverged'
    OBVIOUS
  <2>1. Len(fixture.outcomes) = 0 /\ fixture.outcomes \in Seq({"Normal"}) /\ ~diverged
    BY <1>3 DEF ProviderPart
  <2>2. fixture.outcomes = <<>>
    BY <2>1, EmptySeq
  <2> QED  BY <1>2, <1>6, <2>1, <2>2
<1>14. failure' = NoValue => Real(n)'
  <2> SUFFICES ASSUME failure' = NoValue PROVE Real(n)'
    OBVIOUS
  <2>1. o = outcome
    BY <1>11
  <2>2. /\ provider \in ProviderStates /\ webhook \in WebhookStates
        /\ provider.control = fixture.command /\ provider.observations = observed
        /\ provider.control \in Nat /\ provider.observations \in Nat
        /\ Provides(p) /\ Fresh(p)
    BY RealParts DEF ProviderStates, p
  <2>3. /\ webhook' \in WebhookStates
        /\ webhook'.queue = webhook.queue /\ webhook'.generated = webhook.generated
        /\ webhook'.last = webhook.last
        /\ webhook'.request = webhook.request /\ webhook'.response = webhook.response
        /\ webhook'.control = provider.control /\ webhook'.observations = provider.observations
    <3>1. LET y == Synchronize(webhook, provider) IN
          /\ y \in WebhookStates
          /\ y.queue = webhook.queue /\ y.generated = webhook.generated
          /\ y.last = webhook.last
          /\ y.request = webhook.request /\ y.response = webhook.response
          /\ y.control = provider.control /\ y.observations = provider.observations
      BY <2>2, WebhookSynchronized
    <3> QED  BY <1>2, <3>1
  <2>4. /\ TracePart(n)' /\ sources' \in Sources
        /\ sources'.objects = sources.objects /\ sources'.active = sources.active
        /\ sources'.gate = sources.gate
        /\ sources'.generated = sources.generated
        /\ ActiveIntent' = ActiveIntent
    <3>1. current.kind \in ConfirmKinds => TerminalOutcome(current.script) # "CommitThenDelay"
      BY <1>2, <1>7 DEF script
    <3>2. current.kind \notin BusinessRequest /\ current.kind # "GenerateProviderEvent"
          /\ current.kind # "ReleaseProviderGate"
      BY <1>1 DEF BusinessRequest, ConfirmKinds
    <3>3. Known(fixture'.stripe) = Known(fixture.stripe) /\ captured' = captured
      BY <1>2, <1>6, <1>8 DEF p
    <3> QED  BY <1>3, <3>1, <3>2, <3>3, TracesStay
  <2>5. ControlPart(n)'
    BY <1>1, <1>2, <1>8, <2>2, <2>3, ControlStays DEF ConfirmKinds
  <2>6. HeldPart(n)'
    <3>1. n.phase \notin {"CheckoutResponseHeld", "ConfirmResponseHeld"}
      BY <1>2, <1>3, <1>7 DEF PhaseAfter
    <3> QED  BY <1>2, <1>3, <1>8, <3>1 DEF HeldPart
  <2>7. CutPart'
    BY <1>1, <1>2, <1>3, <1>8, <2>3, NothingToCut DEF BusinessRequest, Delivery, ConfirmKinds
  <2>8. EventPart(n)'
    BY <1>1, <1>3, <1>6, <1>8, <2>3, <2>4, EventsStay DEF p
  <2>9. StatusPart(n)'
    <3>1. n.phase = "Confirmed" \/ n.phase = "ConfirmRetryable"
      BY <1>2, <1>3, <1>7 DEF PhaseAfter
    <3>2. n.phase = "Confirmed" => outcome = "Normal"
      BY <1>2, <1>3, <1>7 DEF PhaseAfter
    <3>3. n.phase = "ConfirmRetryable" /\ n.ambiguous => Commits(outcome)
      <4>1. HasAmbiguousCommit(script) => Commits(outcome)
        BY <1>6 DEF HasAmbiguousCommit, Calls, Single
      <4> QED  BY <1>3, <4>1
    <3>4. Commits("Normal")
      BY DEF Commits
    <3>5. \/ n.phase \in {"ConfirmResponseHeld", "Confirmed", "Events", "Quiesced", "Complete"}
          \/ n.phase = "ConfirmRetryable" /\ n.ambiguous
          => StatusOf(q, id) = "Succeeded"
      BY <1>6, <2>1, <3>1, <3>2, <3>3, <3>4
    <3>6. Faulty => n.objects = Len(q.intents)
      BY <1>3, <1>6 DEF StatusPart, p
    <3> QED  BY <1>3, <1>8, <2>4, <3>5, <3>6 DEF StatusPart, Faulty
  <2>10. Types'
    BY <1>2, <1>3, <1>8, <2>3, <2>4, <1>6 DEF Types
  <2>11. ProviderPart'
    <3>1. Numbered(q) /\ Fresh(q)
      BY <1>6, <2>2 DEF Extends, Provides, Fresh
    <3>2. Faulty => ~diverged'
      BY <1>13
    <3> QED  BY <1>2, <1>3, <1>6, <1>8, <2>1, <2>4, <3>1, <3>2 DEF ProviderPart, Faulty, p
  <2> QED  BY <2>4, <2>5, <2>6, <2>7, <2>8, <2>9, <2>10, <2>11 DEF Real
<1> QED  BY <1>12, <1>13, <1>14 DEF Outcome

\* A confirmation held after its commit.
LEMMA HoldsTheConfirmation ==
    ASSUME NEW m, NEW n, NEW next, StepOf(m, n, next), HeldConfirmation(next)
    PROVE  Outcome(n)
<1> DEFINE script == current.script
           outcome == script.first
           id == Input
           call == CallConfirm(Planned(fixture, script), id, outcome)
           held == call.disposition = "DelayResponse"
           after == IF held THEN Hold(call.fixture) ELSE call.fixture
           g == fixture.nextGate + 1
           o1 == observed + 1
           x == after.nextGate
           exchange == [gate |-> x, kind |-> "Confirm", ids |-> <<id>>, disconnect |-> FALSE]
           r == [provider EXCEPT !.pending = exchange, !.observations = @ + 1]
           p == fixture.stripe
           L == Len(sources.objects)
           ref == Ref(L, "ProviderGateId", 0)
           new == Captures(Outputs, <<x>>)
           t == Reserve(sources, current)
           d == Live(t, captured, new)
<1>1. current.kind \in ConfirmKinds /\ outcome = "CommitThenDelay"
  BY DEF HeldConfirmation, Running
<1>2. /\ fixture' = after
      /\ app' = [app EXCEPT !.waiting = id]
      /\ provider' = r /\ webhook' = Synchronize(webhook, r)
      /\ observed' = o1
      /\ captured' = d
      /\ diverged' = (diverged \/ call.diverged)
      /\ Require(NotQuiesced /\
                 /\ provider.pending = NoValue /\ InStep
                 /\ fixture.gates = {} /\ app.up
                 /\ OutputContract(Outputs, <<"ProviderGateId">>)
                 /\ ValidCaptures(Outputs, new)
                 /\ held /\ StatusOf(after.stripe, id) = "Succeeded"
                 /\ r.observations = o1,
                 "HeldConfirmation")
      /\ UNCHANGED case
  BY DEF HeldConfirmation, RequireOpen, Record, Recorded, Capture, Complete, ConfirmationHeld
<1>3. /\ m.phase \in {"PaymentIntentKnown", "ConfirmRetryable"}
      /\ n.phase = PhaseAfter(script, "Confirmed", "ConfirmResponseHeld", "ConfirmRetryable")
      /\ n.objects = m.objects /\ m.objects = L
      /\ UNCHANGED <<application, spec>> /\ sources.generated = 0 /\ sources' = t
      /\ Types /\ ProviderPart /\ StatusPart(m) /\ EventPart(m)
      /\ Traces(sources, captured, Known(p), TRUE)
      /\ sources.objects # <<>> /\ id = ActiveIntent
      /\ id \in Known(p)
      /\ provider.pending = NoValue /\ fixture.gates = {} /\ app.up
      /\ provider.response = NoValue /\ webhook.request = NoValue
      /\ webhook.response = NoValue
      /\ fixture.request = NoValue /\ fixture.response = NoValue
      /\ NotQuiesced /\ InStep
  BY <1>1, ConfirmParts
<1>4. PICK q, rest : \E o \in Outcomes : Confirms(call, script, id, q, rest, o)
  BY <1>1, ConfirmCall
<1>5. PICK o \in Outcomes : Confirms(call, script, id, q, rest, o)
  BY <1>4
<1> HIDE DEF call, id, script
<1>6. /\ script = Single(outcome) /\ outcome \in Outcomes
      /\ call.fixture = Called(fixture, rest, q)
      /\ call.disposition = Stripe!DispositionOf(o)
      /\ (call.diverged <=> o # outcome)
      /\ Extends(p, q) /\ Len(q.intents) = Len(p.intents) /\ Known(q) = Known(p)
      /\ Commits(o) => StatusOf(q, id) = "Succeeded"
      /\ rest \in Seq(Outcomes) /\ Len(rest) = Len(fixture.outcomes)
      /\ o # outcome => o = "Normal" /\ fixture.outcomes # <<>>
      /\ o = outcome => rest \in Seq({"Normal"})
  BY <1>5 DEF Confirms
<1>7. TerminalOutcome(script) = "CommitThenDelay" /\ n.phase = "ConfirmResponseHeld"
  BY <1>1, <1>3, <1>6 DEF TerminalOutcome, Single, PhaseAfter
<1>8. held <=> o = outcome
  BY <1>1, <1>6 DEF Stripe!DispositionOf
<1>9. failure' = NoValue => o = outcome
  <2>1. NoValue # "HeldConfirmation"
    BY NoValueAssumption DEF Errors
  <2> QED  BY <1>2, <1>8, <2>1 DEF Require
<1>10. Faulty => ~diverged'
  <2> SUFFICES ASSUME Faulty PROVE ~diverged'
    OBVIOUS
  <2>1. Len(fixture.outcomes) = 0 /\ fixture.outcomes \in Seq({"Normal"}) /\ ~diverged
    BY <1>3 DEF ProviderPart
  <2>2. fixture.outcomes = <<>>
    BY <2>1, EmptySeq
  <2> QED  BY <1>2, <1>6, <2>1, <2>2
<1>11. /\ fixture \in Fixtures /\ app \in Apps /\ provider \in ProviderStates
       /\ webhook \in WebhookStates /\ observed \in Nat /\ sources \in Sources
       /\ provider.control = fixture.command /\ provider.observations = observed
       /\ fixture.command \in Nat /\ fixture.nextGate \in Nat
       /\ Provides(p) /\ Fresh(p) /\ id \in Stripe!Ids
       /\ L \in Nat /\ g \in Nat /\ o1 \in Nat
  <2>1. /\ fixture \in Fixtures /\ app \in Apps /\ provider \in ProviderStates
       /\ webhook \in WebhookStates /\ observed \in Nat /\ sources \in Sources
       /\ provider.control = fixture.command /\ provider.observations = observed
       /\ fixture.command \in Nat /\ fixture.nextGate \in Nat
       /\ Provides(p) /\ Fresh(p)
    BY RealParts
  <2>2. id \in Stripe!Ids
    BY <1>3, <2>1, KnownIds
  <2>3. L \in Nat
    BY <2>1, LenProperties DEF Sources
  <2> QED  BY <2>1, <2>2, <2>3
<1>12. o = outcome =>
         /\ fixture' \in Fixtures /\ fixture'.stripe = q /\ fixture'.outcomes = rest
         /\ fixture'.gates = {g} /\ fixture'.command = fixture.command
         /\ fixture'.request = NoValue /\ fixture'.response = NoValue
         /\ x = g /\ after.stripe = q
  <2> SUFFICES ASSUME o = outcome
               PROVE  /\ fixture' \in Fixtures /\ fixture'.stripe = q /\ fixture'.outcomes = rest
                      /\ fixture'.gates = {g} /\ fixture'.command = fixture.command
                      /\ fixture'.request = NoValue /\ fixture'.response = NoValue
                      /\ x = g /\ after.stripe = q
    OBVIOUS
  <2> DEFINE h == Called(fixture, rest, q)
  <2>1. after = Hold(h)
    BY <1>6, <1>8
  <2>2. q \in Stripe!Providers /\ rest \in Seq(Outcomes)
    BY <1>6 DEF Extends, Provides
  <2>3. h \in Fixtures
    BY <1>11, <2>2 DEF Called, Fixtures
  <2>4. /\ h.stripe = q /\ h.outcomes = rest /\ h.gates = {} /\ h.nextGate = fixture.nextGate
        /\ h.command = fixture.command /\ h.request = NoValue /\ h.response = NoValue
    BY <1>3, <1>11, CalledTwice
  <2> HIDE DEF h
  <2>5. after = [h EXCEPT !.nextGate = g, !.gates = {g}]
    BY <2>1, <2>4 DEF Hold
  <2> HIDE DEF after, g
  <2> QED  BY <1>2, <1>11, <2>3, <2>4, <2>5 DEF Fixtures, g
<1> HIDE DEF after, held
<1>13. Outputs = <<ref>>
  <2>1. OutputsOf(L, current) = <<>> \o <<ref>>
    BY <1>1, <1>7 DEF OutputsOf, ObjectsOf, GatesOf, GateOutputs, BusinessRequest,
                      ConfirmKinds, script
  <2>2. <<>> \o <<ref>> = <<ref>>
    <3> HIDE DEF ref
    <3>1. <<ref>> \in Seq({ref})
      OBVIOUS
    <3> QED  BY <3>1, ConcatEmptySeq
  <2> QED  BY <2>1, <2>2 DEF Outputs
<1>14. /\ ref.slot = "ProviderGateId" /\ ref.action = L
  BY DEF Ref
<1> HIDE DEF ref
<1>15. /\ OutputContract(Outputs, <<"ProviderGateId">>) /\ ValidCaptures(Outputs, new)
       /\ \A s : s \in DOMAIN new <=> s = ref
       /\ new[ref] = x
  <2>1. LET c == Captures(<<ref>>, <<x>>) IN
           /\ OutputContract(<<ref>>, <<ref.slot>>) /\ ValidCaptures(<<ref>>, c)
           /\ \A s : s \in DOMAIN c <=> s = ref
           /\ c[ref] = x
    BY OneCaptured
  <2> QED  BY <1>13, <1>14, <2>1
<1> HIDE DEF new
<1>16. o = outcome => failure' = NoValue
  <2> SUFFICES ASSUME o = outcome PROVE failure' = NoValue
    OBVIOUS
  <2>1. held /\ Commits(o)
    BY <1>1, <1>8 DEF Commits
  <2>2. StatusOf(after.stripe, id) = "Succeeded"
    BY <1>6, <1>12, <2>1
  <2>3. r.observations = o1
    BY <1>11 DEF ProviderStates
  <2> HIDE DEF r
  <2> QED  BY <1>2, <1>3, <1>15, <2>1, <2>2, <2>3 DEF Require
<1>17. failure' # NoValue => diverged' /\ case'.checkpoint = NoValue
  BY <1>2, <1>3, <1>6, <1>16 DEF NotQuiesced
<1>18. failure' = NoValue => Real(n)'
  <2> SUFFICES ASSUME failure' = NoValue PROVE Real(n)'
    OBVIOUS
  <2>1. /\ o = outcome
        /\ fixture' \in Fixtures /\ fixture'.stripe = q /\ fixture'.outcomes = rest
        /\ fixture'.gates = {g} /\ fixture'.command = fixture.command
        /\ fixture'.request = NoValue /\ fixture'.response = NoValue
        /\ x = g
    BY <1>9, <1>12
  <2> HIDE DEF x
  <2>2. exchange \in Exchanges /\ exchange # NoValue
    <3>1. id \in {Seed} \X Nat
      BY <1>11 DEF Stripe!Ids
    <3>2. <<id>> \in Seq({Seed} \X Nat)
      BY <3>1
    <3> HIDE DEF g
    <3>3. exchange \in Exchanges
      BY <1>11, <2>1, <3>2 DEF Exchanges
    <3> QED  BY <3>3, NoValueAssumption
  <2>3. /\ exchange.gate = g /\ exchange.ids = <<id>> /\ ~exchange.disconnect
    BY <2>1
  <2> HIDE DEF exchange
  <2>4. /\ r \in ProviderStates /\ r.pending = exchange /\ r.response = NoValue
        /\ r.known = provider.known /\ r.recovered = provider.recovered
        /\ r.control = fixture.command /\ r.observations = o1
    <3>1. r = [provider EXCEPT !.pending = exchange, !.observations = o1]
      BY <1>11
    <3> HIDE DEF r, o1
    <3> QED  BY <1>3, <1>11, <2>2, <3>1 DEF ProviderStates
  <2> HIDE DEF r, g, o1
  <2>5. /\ webhook' \in WebhookStates
        /\ webhook'.queue = webhook.queue /\ webhook'.generated = webhook.generated
        /\ webhook'.last = webhook.last
        /\ webhook'.request = webhook.request /\ webhook'.response = webhook.response
        /\ webhook'.control = fixture.command /\ webhook'.observations = o1
    <3>1. LET y == Synchronize(webhook, r) IN
          /\ y \in WebhookStates
          /\ y.queue = webhook.queue /\ y.generated = webhook.generated
          /\ y.last = webhook.last
          /\ y.request = webhook.request /\ y.response = webhook.response
          /\ y.control = r.control /\ y.observations = r.observations
      BY <1>11, <2>4, WebhookSynchronized
    <3> QED  BY <1>2, <2>4, <3>1
  <2>6. app' \in Apps /\ app'.up = app.up /\ app'.waiting = id
    BY <1>2, <1>11 DEF Apps
  <2>7. /\ t \in Sources /\ t.objects = sources.objects /\ t.active = sources.active
        /\ t.gate = ref /\ t.generated = sources.generated
        /\ Traces(t, captured, Known(p), FALSE)
    <3> DEFINE known == Known(p)
    <3>1. Traces(sources, captured, known, TRUE) /\ sources.generated = 0
      BY <1>3
    <3> HIDE DEF known
    <3>2. LET y == Reserve(sources, current) IN
          /\ y \in Sources /\ y.objects = sources.objects /\ y.active = sources.active
          /\ Traces(y, captured, known, FALSE)
          /\ y.generated = sources.generated
                           + IF current.kind = "GenerateProviderEvent" THEN 1 ELSE 0
      BY <1>1, <1>11, <3>1, TracesKept, ZenonT(30) DEF BusinessRequest, ConfirmKinds
    <3>3. LET y == Reserve(sources, current) IN
          y.gate = (IF TerminalOutcome(current.script) = "CommitThenDelay"
                    THEN Ref(L, "ProviderGateId", 0) ELSE sources.gate)
      BY <1>1, <1>11, ReserveFacts
    <3>4. t.gate = ref
      BY <1>7, <3>3 DEF script, ref
    <3>5. t.generated = sources.generated
      BY <1>1, <3>1, <3>2 DEF ConfirmKinds
    <3>6. /\ t \in Sources /\ t.objects = sources.objects /\ t.active = sources.active
          /\ Traces(t, captured, known, FALSE)
      BY <3>2
    <3> QED  BY <3>4, <3>5, <3>6 DEF known
  <2> HIDE DEF t
  <2>8. ref \notin DOMAIN captured
    <3>1. \A s \in DOMAIN captured : s.action < L
      BY <1>3 DEF Traces
    <3> HIDE DEF L
    <3> QED  BY <1>11, <1>14, <3>1
  <2>9. /\ Traces(t, d, Known(p), FALSE)
        /\ d[t.active] = captured[sources.active]
        /\ t.gate \in DOMAIN d /\ d[t.gate] = g
    <3> DEFINE known == Known(p)
    <3>1. Traces(t, captured, known, FALSE)
      BY <2>7
    <3>2. \A s \in DOMAIN new : s.slot # "PaymentIntentId"
      BY <1>14, <1>15
    <3> HIDE DEF known
    <3>3. t \in Sources
      BY <2>7
    <3>4. /\ Traces(t, d, known, FALSE)
          /\ t.objects # <<>> => d[t.active] = captured[t.active]
      BY <3>1, <3>2, <3>3, CapturesKept
    <3>5. t.gate \in DOMAIN d /\ d[t.gate] = new[t.gate]
      <4>1. t.gate \in DOMAIN new /\ t.gate \notin DOMAIN captured
        BY <1>15, <2>7, <2>8
      <4>2. t.gate \in Kept(t)
        BY DEF Kept
      <4>3. /\ \A s : s \in DOMAIN d <=> (s \in DOMAIN captured \/ s \in DOMAIN new) /\ s \in Kept(t)
            /\ \A s \in DOMAIN new : s \in Kept(t) /\ s \notin DOMAIN captured => d[s] = new[s]
        BY LiveFacts
      <4> HIDE DEF d
      <4> QED  BY <4>1, <4>2, <4>3
    <3> HIDE DEF d
    <3> QED  BY <1>3, <1>15, <2>1, <2>7, <2>8, <3>4, <3>5 DEF known
  <2> HIDE DEF d
  <2>10. TracePart(n)'
    <3>1. (n.phase \in Early) = FALSE
      BY <1>7 DEF Early
    <3>2. Traces(sources', captured', Known(fixture'.stripe), n.phase \in Early)
      BY <1>2, <1>3, <1>6, <2>1, <2>9, <3>1
    <3> QED  BY <1>3, <2>7, <3>2 DEF TracePart
  <2>11. ActiveIntent' = ActiveIntent
    BY <1>2, <1>3, <2>9 DEF ActiveIntent
  <2>12. ControlPart(n)'
    BY <1>1, <1>2, <2>1, <2>4, <2>5, <2>6, ControlStays DEF ConfirmKinds
  <2>13. HeldPart(n)'
    <3>1. <<id>>[Len(<<id>>)] = id /\ <<id>> # <<>> /\ DOMAIN <<id>> = {1} /\ <<id>>[1] = id
      OBVIOUS
    <3>2. \A i \in DOMAIN <<id>> : <<id>>[i] \in Known(q)
      BY <1>3, <1>6, <3>1
    <3> QED  BY <1>2, <1>3, <1>7, <2>1, <2>2, <2>3, <2>4, <2>6, <2>9, <3>1, <3>2, ZenonT(30) DEF HeldPart
  <2>14. CutPart'
    BY <1>1, <1>2, <1>3, <2>1, <2>4, <2>5, NothingToCut
       DEF BusinessRequest, Delivery, ConfirmKinds
  <2>15. EventPart(n)'
    BY <1>1, <1>3, <1>6, <2>1, <2>5, <2>7, EventsStay DEF p
  <2>16. StatusPart(n)'
    <3>1. Commits("CommitThenDelay")
      BY DEF Commits
    <3>2. StatusOf(q, id) = "Succeeded"
      BY <1>1, <1>6, <2>1, <3>1
    <3>3. Faulty => n.objects = Len(q.intents)
      BY <1>3, <1>6 DEF StatusPart, p
    <3> QED  BY <1>3, <2>1, <2>11, <3>2, <3>3 DEF StatusPart, Faulty
  <2>17. Types'
    <3>1. observed' \in Nat /\ diverged' \in BOOLEAN
      BY <1>2, <1>3, <1>6, <1>11 DEF Types
    <3> QED  BY <1>2, <1>3, <2>1, <2>4, <2>5, <2>6, <2>7, <3>1 DEF Types
  <2>18. ProviderPart'
    <3>1. Numbered(q) /\ Fresh(q)
      BY <1>6, <1>11 DEF Extends, Provides, Fresh
    <3>2. Faulty => ~diverged'
      BY <1>10
    <3> QED  BY <1>2, <1>3, <1>6, <2>1, <2>4, <2>7, <3>1, <3>2 DEF ProviderPart, Faulty, p
  <2> QED  BY <2>10, <2>12, <2>13, <2>14, <2>15, <2>16, <2>17, <2>18 DEF Real
<1> QED  BY <1>10, <1>17, <1>18 DEF Outcome

-----------------------------------------------------------------------------
(* Checkouts.                                                                *)

\* The phases in which the payment can be requested.
LEMMA CheckoutParts ==
    ASSUME NEW m, NEW n, NEW next, StepOf(m, n, next), current.kind \in BusinessRequest
    PROVE  /\ m.phase \in {"Start", "CheckoutRetryable"}
           /\ current.kind = "DriveCheckout" <=> m.phase = "Start"
           /\ IsScript(current.script)
           /\ n.phase = PhaseAfter(current.script, "PaymentIntentKnown",
                                   "CheckoutResponseHeld", "CheckoutRetryable")
           /\ n.objects = m.objects + CommittedCount(current.script)
           /\ m.objects = Len(sources.objects)
           /\ m.phase = "Start" => m.objects = 0
           /\ UNCHANGED <<application, spec>> /\ sources.generated = 0
           /\ n.phase = "ConfirmRetryable" => FALSE
           /\ sources' = Reserve(sources, current) /\ Cuts(next) /\ current' = next
           /\ Types /\ ProviderPart /\ StatusPart(m) /\ EventPart(m)
           /\ m.phase = "Start" => case.probe = "Ready" /\ ~app.persisted
           /\ Traces(sources, captured, Known(fixture.stripe), TRUE)
           /\ provider.pending = NoValue /\ fixture.gates = {} /\ app.up
           /\ provider.response = NoValue /\ webhook.request = NoValue
           /\ webhook.response = NoValue
           /\ fixture.request = NoValue /\ fixture.response = NoValue
           /\ NotQuiesced /\ InStep
<1>1. /\ m.phase \in {"Start", "CheckoutRetryable"}
      /\ current.kind = "DriveCheckout" <=> m.phase = "Start"
      /\ IsScript(current.script)
      /\ n.phase = PhaseAfter(current.script, "PaymentIntentKnown",
                              "CheckoutResponseHeld", "CheckoutRetryable")
      /\ n.objects = m.objects + CommittedCount(current.script)
      /\ m.objects = Len(sources.objects)
      /\ m.phase = "Start" => m.objects = 0
      /\ UNCHANGED <<application, spec>>
      /\ sources' = Reserve(sources, current) /\ Cuts(next) /\ current' = next
      /\ Types /\ ProviderPart /\ StatusPart(m) /\ EventPart(m)
      /\ m.phase = "Start" => case.probe = "Ready" /\ ~app.persisted
      /\ Traces(sources, captured, Known(fixture.stripe), m.phase \in Early)
  BY DEF StepOf, PlannedIn, LeadsTo, Real, TracePart, BusinessRequest, Sound,
         ObjectsBounded, ControlPart
<1>2. (m.phase \in Early) = TRUE
  BY <1>1 DEF Early
<1>3. sources.generated = 0
  BY <1>1 DEF EventPart
<1>4. current.kind # "KillApplication" /\ current.kind # "RestartAndAwaitHealth"
  BY DEF BusinessRequest
<1>5. n.phase # "ConfirmRetryable"
  BY <1>1 DEF PhaseAfter
<1> QED  BY <1>1, <1>2, <1>3, <1>4, <1>5, RealParts

\* The ids of the objects a request adds are the numbers after those before.
LEMMA NewIdsFacts ==
    ASSUME NEW p, NEW q, NEW k \in Nat, Provides(p), Adds(p, q, k)
    PROVE  LET new == NewIds(p, q) IN
           /\ new \in Seq({Seed} \X Nat) /\ Len(new) = k
           /\ \A i \in 1 .. k : new[i] = <<Seed, Len(p.intents) + i>>
           /\ Known(q) = Known(p) \cup {new[i] : i \in DOMAIN new}
<1> DEFINE a == Len(p.intents)
           b == Len(q.intents)
           new == NewIds(p, q)
<1>1. /\ Provides(q) /\ b = a + k /\ a \in Nat /\ b \in Nat
      /\ DOMAIN q.intents = 1 .. b
      /\ Known(p) = {<<Seed, i>> : i \in 1 .. a}
      /\ Known(q) = {<<Seed, i>> : i \in 1 .. b}
  BY ProviderShape, KnownIds DEF Adds
<1>2. \A i \in 1 .. b : q.intents[i].id = <<Seed, i>>
  BY <1>1 DEF Provides, Numbered
<1>3. new = [i \in 1 .. b - a |-> q.intents[a + i].id]
  BY DEF NewIds
<1> HIDE DEF a, b, new
<1>4. b - a = k
  BY <1>1
<1>5. \A i \in 1 .. k : a + i \in 1 .. b
  BY <1>1
<1>6. \A i \in 1 .. k : new[i] = <<Seed, a + i>>
  BY <1>2, <1>3, <1>4, <1>5
<1>7. new = [i \in 1 .. k |-> <<Seed, a + i>>]
  BY <1>2, <1>3, <1>4, <1>5
<1>8. new \in Seq({Seed} \X Nat) /\ Len(new) = k /\ DOMAIN new = 1 .. k
  <2>1. \A i \in 1 .. k : <<Seed, a + i>> \in {Seed} \X Nat
    BY <1>1
  <2> QED  BY <1>7, <2>1
<1>9. \A id : id \in Known(q) <=> id \in Known(p) \/ \E i \in DOMAIN new : id = new[i]
  <2>1. ASSUME NEW id PROVE id \in Known(q) <=> id \in Known(p) \/ \E i \in 1 .. k : id = <<Seed, a + i>>
    <3>1. ASSUME NEW j \in 1 .. b, id = <<Seed, j>>
          PROVE  id \in Known(p) \/ \E i \in 1 .. k : id = <<Seed, a + i>>
      <4>1. CASE j <= a
        BY <1>1, <3>1, <4>1
      <4>2. CASE j > a
        <5>1. j - a \in 1 .. k /\ j = a + (j - a)
          BY <1>1, <4>2
        <5> QED  BY <3>1, <5>1
      <4> QED  BY <1>1, <4>1, <4>2
    <3>2. ASSUME NEW j \in 1 .. a, id = <<Seed, j>>
          PROVE  id \in Known(q)
      <4>1. j \in 1 .. b
        BY <1>1
      <4> QED  BY <1>1, <3>2, <4>1
    <3> QED  BY <1>1, <1>5, <3>1, <3>2
  <2>2. ASSUME NEW id PROVE id \in Known(q) <=> id \in Known(p) \/ \E i \in DOMAIN new : id = new[i]
    <3>1. id \in Known(q) <=> id \in Known(p) \/ \E i \in 1 .. k : id = <<Seed, a + i>>
      BY <2>1
    <3>2. (\E i \in DOMAIN new : id = new[i]) <=> \E i \in 1 .. k : id = <<Seed, a + i>>
      BY <1>6, <1>8
    <3> QED  BY <3>1, <3>2
  <2> QED  BY <2>2
<1>10. Known(q) = Known(p) \cup {new[i] : i \in DOMAIN new}
  BY <1>9
<1> QED  BY <1>6, <1>8, <1>10 DEF a, new

\* One object stands for the lost call and its retry.
StandsForBoth(script, k) ==
    k = 1 /\ CommittedCount(script) = 2 /\ script.first = "CommitThenClose"

\* Each value of one sequence is a value of the other.
SameValues(s, t) ==
    /\ \A i \in DOMAIN s : \E j \in DOMAIN t : s[i] = t[j]
    /\ \A j \in DOMAIN t : \E i \in DOMAIN s : s[i] = t[j]

\* The ids a request stands for are those of the objects it added.
LEMMA AttemptFacts ==
    ASSUME NEW script, NEW V, NEW new \in Seq(V), NEW k \in Nat, Len(new) = k,
           NEW ids, ids = AttemptIds(script, new)
    PROVE  /\ ids \in Seq(V)
           /\ Len(ids) = (IF StandsForBoth(script, k) THEN 2 ELSE k)
           /\ SameValues(ids, new)
           /\ k >= 1 => ids # <<>> /\ ids[Len(ids)] = new[k]
<1> DEFINE twice == StandsForBoth(script, k)
<1>1. ids = IF twice THEN new \o new ELSE new
  BY DEF AttemptIds, StandsForBoth
<1>2a. twice => k = 1
  BY DEF StandsForBoth
<1>2. CASE twice
  <2>1. ids = new \o new /\ k = 1
    BY <1>1, <1>2, <1>2a
  <2>2. DOMAIN new = {1} /\ new[1] \in V /\ new = <<new[1]>>
    BY <2>1
  <2> DEFINE x == new[1]
  <2>3. ids = <<x>> \o <<x>> /\ x \in V
    BY <2>1, <2>2
  <2> HIDE DEF x
  <2>4. ids = <<x, x>>
    BY <2>3, OneAndOne
  <2>5. ids \in Seq(V) /\ Len(ids) = 2 /\ DOMAIN ids = {1, 2} /\ ids[1] = x /\ ids[2] = x
        /\ ids # <<>>
    BY <2>3, <2>4
  <2>6. SameValues(ids, new)
    BY <2>2, <2>5 DEF x, SameValues
  <2> QED  BY <1>2, <2>1, <2>5, <2>6 DEF x
<1>3. CASE ~twice
  <2>1. ids = new
    BY <1>1, <1>3
  <2>2. SameValues(ids, new)
    BY <2>1 DEF SameValues
  <2> QED  BY <1>3, <2>1, <2>2
<1> QED  BY <1>2, <1>3

\* What a script says of a request that ends in an answer.
LEMMA AnsweredScripts ==
    ASSUME NEW script, IsScript(script)
    PROVE  /\ CommittedCount(script) \in 0 .. 2 /\ CallCount(script) \in 1 .. 2
           /\ TerminalOutcome(script) \in Outcomes
           /\ TerminalOutcome(script) = "Normal" /\ CommittedCount(script) = 1 =>
                 script = Single("Normal")
           /\ TerminalOutcome(script) = "Normal" /\ CallCount(script) = 1 =>
                 script = Single("Normal")
           /\ script = Single("Normal") =>
                 /\ TerminalOutcome(script) = "Normal"
                 /\ CommittedCount(script) = 1 /\ CallCount(script) = 1
<1>1. CASE \E o \in Outcomes \ {"CommitThenClose"} : script = Single(o)
  <2>1. PICK o \in Outcomes \ {"CommitThenClose"} : script = Single(o)
    BY <1>1
  <2>2. script.first = o /\ script.retry = NoRetry
    BY <2>1 DEF Single
  <2>3. TerminalOutcome(script) = o /\ CallCount(script) = 1
        /\ CommittedCount(script) = (IF Commits(o) THEN 1 ELSE 0)
    BY <2>2 DEF TerminalOutcome, CallCount, CommittedCount
  <2>4. script = Single("Normal") => o = "Normal"
    <3>1. Single("Normal").first = "Normal"
      BY DEF Single
    <3> QED  BY <2>2, <3>1
  <2> QED  BY <2>1, <2>3, <2>4 DEF Commits
<1>2. CASE script \in [first: {"CommitThenClose"}, retry: Outcomes]
  <2>1. script.first = "CommitThenClose" /\ script.retry \in Outcomes
    BY <1>2
  <2>2. script.retry # NoRetry
    BY <2>1, NoRetryAssumption
  <2>3. /\ TerminalOutcome(script) = script.retry /\ CallCount(script) = 2
        /\ CommittedCount(script) = 1 + (IF Commits(script.retry) THEN 1 ELSE 0)
    BY <2>1, <2>2 DEF TerminalOutcome, CallCount, CommittedCount, Commits
  <2>4. script # Single("Normal")
    <3>1. Single("Normal").first = "Normal"
      BY DEF Single
    <3> QED  BY <2>1, <3>1
  <2> QED  BY <2>1, <2>3, <2>4 DEF Commits
<1> QED  BY <1>1, <1>2 DEF IsScript

\* What a request that is not to be held is checked for.
DriveChecks(before, script, r, recovered, new, ids, left) ==
    /\ DriverAnswers(r, script)
    /\ Len(before.outcomes) - Consumed(script, recovered) = left
    /\ recovered => CommittedCount(script) = 1 /\ new = <<>>
    /\ Len(ids) = CommittedCount(script)
    /\ r.status = "answered" => ids # <<>> /\ ids[Len(ids)] = r.id

\* What it has come to when the checks hold.
Drives(f, script, r, recovered, ids, q, rest) ==
    /\ ids \in Seq({Seed} \X Nat) /\ Len(ids) = CommittedCount(script)
    /\ \A id : id \in Known(q) <=> id \in Known(f.stripe) \/ \E i \in DOMAIN ids : id = ids[i]
    /\ rest \in Seq({"Normal"})
    /\ Len(rest) = Len(f.outcomes) + IF recovered THEN CallCount(script) ELSE 0
    /\ Len(q.intents) <= Len(f.stripe.intents) + CommittedCount(script)
    /\ Faulty => Len(q.intents) = Len(f.stripe.intents) + CommittedCount(script)

\* A request that finds its object again is recovered, and nothing is called.
LEMMA FindsObject ==
    ASSUME NEW f \in Fixtures, Provides(f.stripe), f.outcomes \in Seq({"Normal"}),
           NEW script, IsScript(script), TerminalOutcome(script) # "CommitThenDelay",
           NEW r, NEW q, NEW rest, FindsAgain(f, script, r, q, rest),
           NEW before, Len(before.outcomes) = Len(f.outcomes) + CallCount(script),
           NEW ids, NEW recovered \in BOOLEAN,
           NEW again \in BOOLEAN, ~r.diverged => again,
           recovered <=> /\ again /\ r.status = "answered"
                         /\ r.id \in Known(f.stripe)
                         /\ StatusOf(q, r.id) = "RequiresConfirmation",
           recovered => ids = <<r.id>>
    PROVE  /\ DriveChecks(before, script, r, recovered, NewIds(f.stripe, q), ids, Len(rest))
                 => Drives(f, script, r, recovered, ids, q, rest)
           /\ ~r.diverged
                 => DriveChecks(before, script, r, recovered, NewIds(f.stripe, q), ids, Len(rest))
           /\ Faulty => ~r.diverged
<1> DEFINE a == Len(f.outcomes)
           c == CallCount(script)
           b == Len(rest)
           k == Len(f.stripe.intents)
           count == CommittedCount(script)
           new == NewIds(f.stripe, q)
           checks == DriveChecks(before, script, r, recovered, new, ids, b)
<1>1. /\ application.caller # "faulty_per_request" /\ q = f.stripe
      /\ b = a + c /\ a \in Nat /\ c \in 1 .. 2 /\ b \in Nat /\ k \in Nat
      /\ script = Single("Normal") => rest \in Seq({"Normal"})
      /\ r.status = "answered" => /\ r.id \in Known(f.stripe)
                                  /\ StatusOf(f.stripe, r.id) = "RequiresConfirmation"
      /\ ~r.diverged => r.status = "answered" /\ script = Single("Normal")
      /\ Len(before.outcomes) = a + c
  BY AnsweredScripts, ProviderShape, LenProperties DEF FindsAgain
<1>2. ~Faulty
  BY <1>1 DEF Faulty
<1>3. new = <<>>
  <2>1. Adds(f.stripe, q, 0)
    BY <1>1 DEF Adds, Provides
  <2>2. LET z == NewIds(f.stripe, q) IN z \in Seq({Seed} \X Nat) /\ Len(z) = 0
    BY <2>1, NewIdsFacts
  <2> QED  BY <2>2, EmptySeq
<1> HIDE DEF new
<1>4. ~recovered => ~checks
  <2> HIDE DEF a, b, c
  <2>1. ~recovered => Consumed(script, recovered) = c
    BY DEF Consumed, c
  <2> SUFFICES ASSUME ~recovered, checks PROVE FALSE
    OBVIOUS
  <2>2. Len(before.outcomes) - Consumed(script, recovered) = b
    BY DEF DriveChecks
  <2> QED  BY <1>1, <2>1, <2>2
<1>5. recovered => /\ r.status = "answered" /\ ids = <<r.id>> /\ r.id \in Known(f.stripe)
                   /\ Len(ids) = 1 /\ ids # <<>> /\ ids[Len(ids)] = r.id /\ DOMAIN ids = {1}
                   /\ ids \in Seq({Seed} \X Nat)
  <2> SUFFICES ASSUME recovered
               PROVE  /\ r.status = "answered" /\ ids = <<r.id>> /\ r.id \in Known(f.stripe)
                      /\ Len(ids) = 1 /\ ids # <<>> /\ ids[Len(ids)] = r.id /\ DOMAIN ids = {1}
                      /\ ids \in Seq({Seed} \X Nat)
    OBVIOUS
  <2> DEFINE x == r.id
             S == {Seed} \X Nat
  <2>1. x \in S /\ ids = <<x>> /\ r.status = "answered" /\ x \in Known(f.stripe)
    BY KnownIds DEF Stripe!Ids
  <2> HIDE DEF x, S
  <2>2. Len(ids) = 1 /\ ids # <<>> /\ ids[Len(ids)] = x /\ DOMAIN ids = {1} /\ ids \in Seq(S)
    BY <2>1
  <2> QED  BY <2>1, <2>2 DEF x, S
<1>6. checks => Drives(f, script, r, recovered, ids, q, rest)
  <2> SUFFICES ASSUME checks PROVE Drives(f, script, r, recovered, ids, q, rest)
    OBVIOUS
  <2>1. recovered
    BY <1>4
  <2>2. DriverAnswers(r, script) /\ count = 1
    BY <2>1 DEF DriveChecks
  <2>3. TerminalOutcome(script) = "Normal"
    BY <1>5, <2>1, <2>2 DEF DriverAnswers
  <2>4. script = Single("Normal")
    BY <2>2, <2>3, AnsweredScripts
  <2>5. \A id : id \in Known(q) <=> id \in Known(f.stripe) \/ \E i \in DOMAIN ids : id = ids[i]
    BY <1>1, <1>5, <2>1
  <2>6. b = a + IF recovered THEN c ELSE 0
    BY <1>1, <2>1
  <2>7. Len(q.intents) <= k + count
    BY <1>1, <2>2
  <2> HIDE DEF a, b, c, k
  <2> QED  BY <1>1, <1>2, <1>5, <2>1, <2>2, <2>4, <2>5, <2>6, <2>7 DEF Drives, a, b, c, k
<1>7. ~r.diverged => checks
  <2> SUFFICES ASSUME ~r.diverged PROVE checks
    OBVIOUS
  <2>1. recovered /\ script = Single("Normal")
    BY <1>1
  <2>2. TerminalOutcome(script) = "Normal" /\ count = 1
    BY <2>1, AnsweredScripts
  <2>3. Len(before.outcomes) - Consumed(script, recovered) = b
    <3>1. Consumed(script, recovered) = 0
      BY <2>1 DEF Consumed
    <3> HIDE DEF a, b, c
    <3> QED  BY <1>1, <3>1
  <2> HIDE DEF b
  <2> QED  BY <1>1, <1>3, <1>5, <2>1, <2>2, <2>3 DEF DriveChecks, DriverAnswers
<1> QED  BY <1>2, <1>6, <1>7 DEF new, b

\* A request whose calls are answered as planned adds an object for each that
\* commits, or one that both calls stand for.
LEMMA MakesCalls ==
    ASSUME NEW f \in Fixtures, Provides(f.stripe), f.outcomes \in Seq({"Normal"}),
           NEW script, IsScript(script), TerminalOutcome(script) # "CommitThenDelay",
           NEW r, NEW q, NEW rest, CallsAsPlanned(f, script, r, q, rest),
           NEW before, Len(before.outcomes) = Len(f.outcomes) + CallCount(script),
           NEW ids, NEW recovered \in BOOLEAN,
           recovered => r.status = "answered" /\ r.id \in Known(f.stripe),
           ~recovered => ids = AttemptIds(script, NewIds(f.stripe, q))
    PROVE  /\ DriveChecks(before, script, r, recovered, NewIds(f.stripe, q), ids, Len(rest))
                 => Drives(f, script, r, recovered, ids, q, rest)
           /\ ~r.diverged
                 => DriveChecks(before, script, r, recovered, NewIds(f.stripe, q), ids, Len(rest))
           /\ Faulty => ~r.diverged /\ ~recovered
<1> DEFINE c == CallCount(script)
           k == Len(f.stripe.intents)
           count == CommittedCount(script)
           new == NewIds(f.stripe, q)
           checks == DriveChecks(before, script, r, recovered, new, ids, Len(rest))
<1>1. f.outcomes = <<>> /\ rest = <<>> /\ r.status \in {"answered", "held", "failed"}
  BY DEF CallsAsPlanned
<1>2. PICK j \in 0 .. 2 :
        /\ Adds(f.stripe, q, j)
        /\ r.status \in {"answered", "held"} => j >= 1 /\ r.id = <<Seed, Len(q.intents)>>
        /\ ~r.diverged => /\ r.status = StatusAfter(TerminalOutcome(script))
                          /\ \/ j = count
                             \/ j = 1 /\ count = 2 /\ script.first = "CommitThenClose"
        /\ Faulty => ~r.diverged /\ j = count
  BY DEF CallsAsPlanned
<1>3. /\ k \in Nat /\ Len(q.intents) = k + j /\ j \in Nat /\ c \in 1 .. 2
      /\ Len(f.outcomes) = 0 /\ Len(rest) = 0 /\ Len(before.outcomes) = c
      /\ count \in 0 .. 2
  <2>1. /\ k \in Nat /\ Len(q.intents) = k + j /\ j \in Nat /\ c \in 1 .. 2
        /\ count \in 0 .. 2
    BY <1>2, ProviderShape, AnsweredScripts DEF Adds
  <2>2. Len(f.outcomes) = 0 /\ Len(rest) = 0
    BY <1>1
  <2>3. Len(before.outcomes) = 0 + c
    BY <2>2
  <2> HIDE DEF c
  <2> QED  BY <2>1, <2>2, <2>3
<1>4. /\ new \in Seq({Seed} \X Nat) /\ Len(new) = j /\ DOMAIN new = 1 .. j
      /\ \A i \in 1 .. j : new[i] = <<Seed, k + i>>
      /\ Known(q) = Known(f.stripe) \cup {new[i] : i \in DOMAIN new}
  BY <1>2, NewIdsFacts
<1> HIDE DEF new
<1>5. \A id : id \in Known(q) <=> id \in Known(f.stripe) \/ \E i \in DOMAIN new : id = new[i]
  BY <1>4
<1>6. r.status = "answered" => r.id \notin Known(f.stripe)
  <2>1. Known(f.stripe) = {<<Seed, i>> : i \in 1 .. k}
    BY KnownIds
  <2> HIDE DEF k
  <2>2. r.status = "answered" => r.id = <<Seed, k + j>> /\ j >= 1
    BY <1>2, <1>3
  <2>3. j >= 1 => \A i \in 1 .. k : i # k + j
    BY <1>3
  <2>4. \A i \in 1 .. k : <<Seed, i>> = <<Seed, k + j>> => i = k + j
    OBVIOUS
  <2> QED  BY <2>1, <2>2, <2>3, <2>4
<1>7. ~recovered /\ ids = AttemptIds(script, new)
  BY <1>6 DEF new
<1>8. /\ ids \in Seq({Seed} \X Nat)
      /\ Len(ids) = (IF /\ j = 1 /\ count = 2
                        /\ script.first = "CommitThenClose"
                     THEN 2 ELSE j)
      /\ \A v : (\E i \in DOMAIN ids : v = ids[i]) <=> \E i \in DOMAIN new : v = new[i]
      /\ j >= 1 => ids # <<>> /\ ids[Len(ids)] = new[j]
  <2> DEFINE V == {Seed} \X Nat
  <2>a. new \in Seq(V) /\ Len(new) = j /\ j \in Nat
    BY <1>3, <1>4
  <2> HIDE DEF V
  <2>b. ids = AttemptIds(script, new)
    BY <1>7
  <2>1. /\ ids \in Seq(V)
        /\ Len(ids) = (IF StandsForBoth(script, j) THEN 2 ELSE j)
        /\ SameValues(ids, new)
        /\ j >= 1 => ids # <<>> /\ ids[Len(ids)] = new[j]
    BY <2>a, <2>b, AttemptFacts
  <2>2. \A v : (\E i \in DOMAIN ids : v = ids[i]) <=> \E i \in DOMAIN new : v = new[i]
    BY <2>1 DEF SameValues
  <2> QED  BY <2>1, <2>2 DEF V, StandsForBoth
<1>9. checks => Drives(f, script, r, recovered, ids, q, rest)
  <2> SUFFICES ASSUME checks PROVE Drives(f, script, r, recovered, ids, q, rest)
    OBVIOUS
  <2>1. Len(ids) = count
    BY DEF DriveChecks
  <2>2. \A id : id \in Known(q) <=> id \in Known(f.stripe) \/ \E i \in DOMAIN ids : id = ids[i]
    BY <1>5, <1>8, ZenonT(30)
  <2>3. Len(rest) = Len(f.outcomes) + IF recovered THEN c ELSE 0
    BY <1>3, <1>7
  <2>4. j <= count
    BY <1>3, <1>8, <2>1
  <2>5. Len(q.intents) <= k + count /\ (Faulty => Len(q.intents) = k + count)
    <3> HIDE DEF k, count
    <3> QED  BY <1>2, <1>3, <2>4
  <2>6. rest \in Seq({"Normal"})
    BY <1>1
  <2> QED  BY <1>8, <2>1, <2>2, <2>3, <2>5, <2>6 DEF Drives
<1>10. ~r.diverged => checks
  <2> SUFFICES ASSUME ~r.diverged PROVE checks
    OBVIOUS
  <2>1. r.status = StatusAfter(TerminalOutcome(script))
    BY <1>2
  <2>2. DriverAnswers(r, script)
    BY <2>1 DEF DriverAnswers, StatusAfter
  <2>3. Len(ids) = count
    BY <1>2, <1>8
  <2>4. Len(before.outcomes) - Consumed(script, recovered) = Len(rest)
    <3>1. Consumed(script, recovered) = c
      BY <1>7 DEF Consumed
    <3> HIDE DEF c
    <3> QED  BY <1>3, <3>1
  <2>5. r.status = "answered" => ids # <<>> /\ ids[Len(ids)] = r.id
    <3> SUFFICES ASSUME r.status = "answered" PROVE ids # <<>> /\ ids[Len(ids)] = r.id
      OBVIOUS
    <3>1. j >= 1 /\ r.id = <<Seed, Len(q.intents)>>
      BY <1>2
    <3>2. j \in 1 .. j
      BY <1>3, <3>1
    <3>3. new[j] = <<Seed, k + j>>
      BY <1>4, <3>2
    <3> QED  BY <1>3, <1>8, <3>1, <3>3
  <2> QED  BY <1>7, <2>2, <2>3, <2>4, <2>5 DEF DriveChecks
<1> QED  BY <1>2, <1>7, <1>9, <1>10 DEF new

\* A request that takes an outcome a recovered one left is checked as a call
\* that is answered.
LEMMA TakesLeft ==
    ASSUME NEW f \in Fixtures, Provides(f.stripe), f.outcomes \in Seq({"Normal"}),
           NEW script, IsScript(script), TerminalOutcome(script) # "CommitThenDelay",
           NEW r, NEW q, NEW rest, TakesWhatIsLeft(f, script, r, q, rest),
           rest \in Seq(Outcomes),
           NEW before, Len(before.outcomes) = Len(f.outcomes) + CallCount(script),
           NEW ids, NEW recovered \in BOOLEAN,
           recovered => r.status = "answered" /\ r.id \in Known(f.stripe),
           ~recovered => ids = AttemptIds(script, NewIds(f.stripe, q)),
           Faulty => f.outcomes = <<>>
    PROVE  /\ DriveChecks(before, script, r, recovered, NewIds(f.stripe, q), ids, Len(rest))
                 => Drives(f, script, r, recovered, ids, q, rest)
           /\ ~r.diverged
                 => DriveChecks(before, script, r, recovered, NewIds(f.stripe, q), ids, Len(rest))
           /\ Faulty => ~r.diverged
<1> DEFINE a == Len(f.outcomes)
           c == CallCount(script)
           b == Len(rest)
           k == Len(f.stripe.intents)
           count == CommittedCount(script)
           new == NewIds(f.stripe, q)
           checks == DriveChecks(before, script, r, recovered, new, ids, b)
<1>1. /\ f.outcomes # <<>> /\ b = a + c - 1 /\ Adds(f.stripe, q, 1)
      /\ r.status = "answered" /\ r.id = <<Seed, Len(q.intents)>>
      /\ script = Single("Normal") => rest \in Seq({"Normal"})
      /\ ~r.diverged => script = Single("Normal")
      /\ Len(before.outcomes) = a + c
  BY DEF TakesWhatIsLeft
<1>2. /\ a \in Nat /\ b \in Nat /\ k \in Nat /\ c \in 1 .. 2 /\ count \in 0 .. 2
      /\ Len(q.intents) = k + 1
  BY <1>1, ProviderShape, AnsweredScripts, LenProperties DEF Adds
<1>3. ~Faulty
  BY <1>1
<1>4. /\ new \in Seq({Seed} \X Nat) /\ Len(new) = 1 /\ DOMAIN new = 1 .. 1
      /\ new[1] = <<Seed, k + 1>>
      /\ Known(q) = Known(f.stripe) \cup {new[i] : i \in DOMAIN new}
  <2> DEFINE j == 1
  <2>1. j \in Nat /\ Adds(f.stripe, q, j) /\ j = 1
    BY <1>1
  <2> HIDE DEF j
  <2>2. /\ new \in Seq({Seed} \X Nat) /\ Len(new) = j
        /\ \A i \in 1 .. j : new[i] = <<Seed, Len(f.stripe.intents) + i>>
        /\ Known(q) = Known(f.stripe) \cup {new[i] : i \in DOMAIN new}
    BY <2>1, NewIdsFacts
  <2> HIDE DEF new
  <2>3. 1 \in 1 .. j
    BY <2>1
  <2> QED  BY <2>1, <2>2, <2>3
<1> HIDE DEF new
<1>5. \A id : id \in Known(q) <=> id \in Known(f.stripe) \/ \E i \in DOMAIN new : id = new[i]
  BY <1>4
<1>6. r.id \notin Known(f.stripe)
  <2>1. Known(f.stripe) = {<<Seed, i>> : i \in 1 .. k}
    BY KnownIds
  <2> HIDE DEF k
  <2>2. r.id = <<Seed, k + 1>>
    BY <1>1, <1>2
  <2>3. \A i \in 1 .. k : i # k + 1
    BY <1>2
  <2>4. \A i \in 1 .. k : <<Seed, i>> = <<Seed, k + 1>> => i = k + 1
    OBVIOUS
  <2> QED  BY <2>1, <2>2, <2>3, <2>4
<1>7. ~recovered /\ ids = AttemptIds(script, new)
  BY <1>6 DEF new
<1>8. /\ ids \in Seq({Seed} \X Nat)
      /\ Len(ids) = (IF /\ 1 = 1 /\ count = 2
                        /\ script.first = "CommitThenClose"
                     THEN 2 ELSE 1)
      /\ \A v : (\E i \in DOMAIN ids : v = ids[i]) <=> \E i \in DOMAIN new : v = new[i]
      /\ ids # <<>> /\ ids[Len(ids)] = new[1]
  <2> DEFINE j == 1
  <2>0. j \in Nat /\ j >= 1 /\ Len(new) = j /\ j = 1
    BY <1>4
  <2> HIDE DEF j
  <2> DEFINE V == {Seed} \X Nat
  <2>a. new \in Seq(V) /\ Len(new) = j /\ j \in Nat
    BY <1>4, <2>0
  <2> HIDE DEF V
  <2>b. ids = AttemptIds(script, new)
    BY <1>7
  <2>1. /\ ids \in Seq(V)
        /\ Len(ids) = (IF StandsForBoth(script, j) THEN 2 ELSE j)
        /\ SameValues(ids, new)
        /\ j >= 1 => ids # <<>> /\ ids[Len(ids)] = new[j]
    BY <2>a, <2>b, AttemptFacts
  <2>2. \A v : (\E i \in DOMAIN ids : v = ids[i]) <=> \E i \in DOMAIN new : v = new[i]
    BY <2>1 DEF SameValues
  <2> QED  BY <2>0, <2>1, <2>2 DEF V, StandsForBoth
<1>9. checks => Drives(f, script, r, recovered, ids, q, rest)
  <2> SUFFICES ASSUME checks PROVE Drives(f, script, r, recovered, ids, q, rest)
    OBVIOUS
  <2>1. DriverAnswers(r, script) /\ Len(ids) = count
        /\ Len(before.outcomes) - Consumed(script, recovered) = b
    BY DEF DriveChecks
  <2>2. Consumed(script, recovered) = c
    BY <1>7 DEF Consumed
  <2>3. c = 1 /\ b = a
    <3> HIDE DEF a, b, c
    <3> QED  BY <1>1, <1>2, <2>1, <2>2
  <2>4. TerminalOutcome(script) = "Normal"
    BY <1>1, <2>1 DEF DriverAnswers
  <2>5. script = Single("Normal")
    BY <2>3, <2>4, AnsweredScripts
  <2>6. count = 1 /\ rest \in Seq({"Normal"})
    BY <1>1, <2>5, AnsweredScripts
  <2>7. \A id : id \in Known(q) <=> id \in Known(f.stripe) \/ \E i \in DOMAIN ids : id = ids[i]
    <3>1. \A id : (\E i \in DOMAIN ids : id = ids[i]) <=> \E i \in DOMAIN new : id = new[i]
      BY <1>8
    <3> QED  BY <1>5, <3>1, ZenonT(30)
  <2>8. b = a + IF recovered THEN c ELSE 0
    <3> HIDE DEF a, b, c
    <3> QED  BY <1>2, <1>7, <2>3
  <2>9. Len(q.intents) <= k + count
    BY <1>2, <2>6
  <2> QED  BY <1>3, <1>8, <2>1, <2>6, <2>7, <2>8, <2>9 DEF Drives
<1>10. ~r.diverged => checks
  <2> SUFFICES ASSUME ~r.diverged PROVE checks
    OBVIOUS
  <2>1. TerminalOutcome(script) = "Normal" /\ count = 1 /\ c = 1
    BY <1>1, AnsweredScripts
  <2>2. Len(before.outcomes) - Consumed(script, recovered) = b
    <3>1. Consumed(script, recovered) = c
      BY <1>7 DEF Consumed
    <3> HIDE DEF a, b, c
    <3> QED  BY <1>1, <1>2, <2>1, <3>1
  <2>3. Len(ids) = count
    BY <1>8, <2>1
  <2>4. ids[Len(ids)] = r.id
    BY <1>1, <1>2, <1>4, <1>8
  <2> HIDE DEF b
  <2> QED  BY <1>1, <1>7, <1>8, <2>1, <2>2, <2>3, <2>4 DEF DriveChecks, DriverAnswers
<1> QED  BY <1>3, <1>9, <1>10 DEF new, b

\* The ids a request is taken to stand for.
IdsOf(script, r, q) ==
    IF IsRecovered(r) THEN <<r.id>> ELSE AttemptIds(script, NewIds(fixture.stripe, q))

\* A request that is not held passes its checks unless a call was not answered
\* as planned; when it passes them its objects are those it declares.
LEMMA DriveFacts ==
    ASSUME NEW m, NEW n, NEW next, StepOf(m, n, next), current.kind \in BusinessRequest,
           NEW script, script = current.script, TerminalOutcome(script) # "CommitThenDelay",
           NEW before, before = Planned(fixture, script),
           NEW r, r = Checkout(before, script)
    PROVE  \E q, rest :
              /\ r.fixture = Called(fixture, rest, q) /\ Extends(fixture.stripe, q)
              /\ rest \in Seq(Outcomes)
              /\ DriveChecks(before, script, r, IsRecovered(r), NewIds(fixture.stripe, q),
                             IdsOf(script, r, q), Len(rest))
                    => Drives(fixture, script, r, IsRecovered(r), IdsOf(script, r, q), q, rest)
              /\ ~r.diverged
                    => DriveChecks(before, script, r, IsRecovered(r), NewIds(fixture.stripe, q),
                                   IdsOf(script, r, q), Len(rest))
              /\ Faulty => ~r.diverged /\ ~IsRecovered(r)
<1> DEFINE f == fixture
           recovered == IsRecovered(r)
           again == current.kind = "RetryBusinessRequest"
<1>1. /\ f \in Fixtures /\ Provides(f.stripe) /\ Fresh(f.stripe)
      /\ f.outcomes \in Seq({"Normal"}) /\ IsScript(script)
      /\ Faulty => f.outcomes = <<>>
  <2>1. f.outcomes \in Seq({"Normal"}) /\ (Faulty => Len(f.outcomes) = 0) /\ IsScript(script)
    BY CheckoutParts DEF ProviderPart
  <2>2. Faulty => f.outcomes = <<>>
    BY <2>1, EmptySeq
  <2> QED  BY <2>1, <2>2, RealParts
<1>2. script.first \in Outcomes /\ script.retry \in Outcomes \cup {NoRetry}
  <2>1. Len(sources.objects) \in Nat
    BY CheckoutParts, RealParts DEF Sources
  <2> QED  BY <1>1, <2>1, ObjectFacts
<1>3. Len(before.outcomes) = Len(f.outcomes) + CallCount(script)
  <2>1. LET g == Planned(f, script)
            os == g.outcomes IN Len(os) = Len(f.outcomes) + CallCount(script)
    BY <1>1, <1>2, PlannedShape
  <2> QED  BY <2>1
<1>4. PICK q, rest :
        /\ r.fixture = Called(f, rest, q) /\ Extends(f.stripe, q)
        /\ rest \in Seq(Outcomes)
        /\ \/ FindsAgain(f, script, r, q, rest)
           \/ CallsAsPlanned(f, script, r, q, rest)
           \/ TakesWhatIsLeft(f, script, r, q, rest)
  <2>1. LET z == Checkout(Planned(f, script), script) IN
        \E q, rest :
              /\ z.fixture = Called(f, rest, q) /\ Extends(f.stripe, q)
              /\ rest \in Seq(Outcomes)
              /\ \/ FindsAgain(f, script, z, q, rest)
                 \/ CallsAsPlanned(f, script, z, q, rest)
                 \/ TakesWhatIsLeft(f, script, z, q, rest)
    BY <1>1, CheckoutFacts
  <2> QED  BY <2>1
<1> DEFINE ids == IdsOf(script, r, q)
           new == NewIds(f.stripe, q)
           checks == DriveChecks(before, script, r, recovered, new, ids, Len(rest))
           good == Drives(f, script, r, recovered, ids, q, rest)
<1>5. r.fixture.stripe = q
  BY <1>1, <1>4, CalledTwice
<1>6. /\ recovered \in BOOLEAN
      /\ recovered <=> /\ again /\ r.status = "answered"
                       /\ r.id \in Known(f.stripe)
                       /\ StatusOf(q, r.id) = "RequiresConfirmation"
  BY <1>5 DEF IsRecovered
<1>7. recovered => ids = <<r.id>>
  BY DEF IdsOf
<1>8. ~recovered => ids = AttemptIds(script, NewIds(f.stripe, q))
  BY DEF IdsOf
<1>9. FindsAgain(f, script, r, q, rest) => again
  <2> SUFFICES ASSUME FindsAgain(f, script, r, q, rest), ~again PROVE FALSE
    OBVIOUS
  <2>1. m.phase = "Start"
    BY CheckoutParts DEF BusinessRequest
  <2>2. Len(f.stripe.intents) <= 0
    BY <2>1, CheckoutParts DEF ProviderPart
  <2>3. f.stripe.intents \in Seq(Stripe!PaymentIntents) /\ Len(f.stripe.intents) \in Nat
    BY <1>1, ProviderShape
  <2>4. f.stripe.intents = <<>>
    <3>1. Len(f.stripe.intents) = 0
      <4> DEFINE k == Len(f.stripe.intents)
      <4>1. k <= 0 /\ k \in Nat
        BY <2>2, <2>3
      <4> HIDE DEF k
      <4>2. k = 0
        BY <4>1
      <4> QED  BY <4>2 DEF k
    <3> QED  BY <2>3, <3>1, EmptySeq
  <2> QED  BY <2>4 DEF FindsAgain
<1>10. recovered => ~Faulty
  <2> SUFFICES ASSUME recovered, Faulty PROVE FALSE
    OBVIOUS
  <2>1. CASE FindsAgain(f, script, r, q, rest)
    BY <2>1 DEF FindsAgain, Faulty
  <2>2. CASE TakesWhatIsLeft(f, script, r, q, rest)
    BY <1>1, <2>2 DEF TakesWhatIsLeft
  <2>3. CASE CallsAsPlanned(f, script, r, q, rest)
    <3> HIDE DEF recovered, ids
    <3>1. recovered => r.status = "answered" /\ r.id \in Known(f.stripe)
      BY <1>6
    <3> QED  BY <1>1, <1>3, <1>6, <1>8, <2>3, <3>1, MakesCalls
  <2> QED  BY <1>4, <2>1, <2>2, <2>3
<1> HIDE DEF recovered, ids, again, f
<1>11. (checks => good) /\ (~r.diverged => checks) /\ (Faulty => ~r.diverged)
  <2>0. again \in BOOLEAN
    BY DEF again
  <2>1. CASE FindsAgain(f, script, r, q, rest)
    <3>1. ~r.diverged => again
      BY <1>9, <2>1
    <3> QED  BY <1>1, <1>3, <1>6, <1>7, <2>0, <2>1, <3>1, FindsObject
  <2>2. CASE CallsAsPlanned(f, script, r, q, rest)
    <3>1. recovered => r.status = "answered" /\ r.id \in Known(f.stripe)
      BY <1>6
    <3> QED  BY <1>1, <1>3, <1>6, <1>8, <2>2, <3>1, MakesCalls, ZenonT(30)
  <2>3. CASE TakesWhatIsLeft(f, script, r, q, rest)
    <3>1. recovered => r.status = "answered" /\ r.id \in Known(f.stripe)
      BY <1>6
    <3>2. rest \in Seq(Outcomes)
      BY <1>4
    <3> QED  BY <1>1, <1>3, <1>6, <1>8, <2>3, <3>1, <3>2, TakesLeft
  <2> QED  BY <1>4, <2>1, <2>2, <2>3
<1>12. Faulty => ~recovered
  BY <1>10
<1> HIDE DEF new, checks, good
<1>13. /\ r.fixture = Called(fixture, rest, q) /\ Extends(fixture.stripe, q)
       /\ rest \in Seq(Outcomes)
  BY <1>4 DEF f
<1> QED  BY <1>11, <1>12, <1>13 DEF new, checks, good, recovered, ids, f

\* The answer of a request is kept for the kill that loses it.
LEMMA RequestCut ==
    ASSUME NEW m, NEW n, NEW next, StepOf(m, n, next), current.kind \in BusinessRequest,
           TerminalOutcome(current.script) # "CommitThenDelay",
           provider'.response = KeptResponse(next), provider'.pending = NoValue,
           webhook'.request = NoValue, webhook'.response = NoValue,
           fixture'.request = NoValue, fixture'.response = NoValue,
           Cut(next) = "SqlProbe" => case'.probe = "Observed"
    PROVE  CutPart'
<1>1. NoValue \notin CutPoints /\ NoValue # "observed"
  BY NoValueAssumption
<1>2. Cut(current)' = Cut(next)
  BY DEF StepOf, Cut
<1>3. Cut(next) \in {NoValue, "ClientResponseObserved", "SqlProbe"}
  BY DEF StepOf, Cuts, BusinessRequest, Delivery
<1>4. (provider.response # NoValue)' <=> Cut(next) = "ClientResponseObserved"
  BY <1>1 DEF KeptResponse
<1> QED  BY <1>1, <1>2, <1>3, <1>4 DEF CutPart, CutPoints

\* The predicate of the probe becomes true while an answered request runs.
LEMMA ProbeObserves ==
    ASSUME NEW m, NEW n, NEW next, StepOf(m, n, next), current.kind \in BusinessRequest,
           NEW answered \in BOOLEAN, answered <=> TerminalOutcome(current.script) = "Normal",
           app' = [app EXCEPT !.persisted = @ \/ answered],
           case' = [case EXCEPT !.probe =
                       IF Cut(next) = "SqlProbe"
                       THEN ObserveTrue(RequireFalse(@, Evaluate(app)), Evaluate(app'))
                       ELSE @]
    PROVE  /\ app' \in Apps /\ app'.up = app.up
           /\ DOMAIN case' = CaseFields /\ case'.healthy = case.healthy
           /\ case'.quiescence = case.quiescence /\ case'.checkpoint = case.checkpoint
           /\ case'.probe \in {"Ready", "Observed"}
           /\ Cut(next) = "SqlProbe" => case'.probe = "Observed"
<1>1. app \in Apps /\ DOMAIN case = CaseFields /\ case.probe \in {"Ready", "Observed"}
  BY CheckoutParts DEF Types
<1>2. app' \in Apps /\ app'.up = app.up /\ app'.persisted = (app.persisted \/ answered)
  BY <1>1 DEF Apps
<1> DEFINE pr == IF Cut(next) = "SqlProbe"
                 THEN ObserveTrue(RequireFalse(case.probe, Evaluate(app)), Evaluate(app'))
                 ELSE case.probe
<1>3. case' = [case EXCEPT !.probe = pr]
  OBVIOUS
<1>4. Cut(next) = "SqlProbe" => pr = "Observed"
  <2> SUFFICES ASSUME Cut(next) = "SqlProbe" PROVE pr = "Observed"
    OBVIOUS
  <2>1. current.kind = "DriveCheckout" /\ TerminalOutcome(current.script) = "Normal"
    BY DEF StepOf, Cuts
  <2>2. case.probe = "Ready" /\ ~app.persisted
    BY <2>1, CheckoutParts
  <2> QED  BY <1>2, <2>1, <2>2 DEF ObserveTrue, RequireFalse, Evaluate
<1>5. pr \in {"Ready", "Observed"}
  BY <1>1, <1>4
<1> HIDE DEF pr
<1>6. /\ DOMAIN case' = CaseFields /\ case'.healthy = case.healthy
      /\ case'.quiescence = case.quiescence /\ case'.checkpoint = case.checkpoint
      /\ case'.probe = pr
  BY <1>1, <1>3 DEF CaseFields
<1> QED  BY <1>2, <1>4, <1>5, <1>6

\* A request leaves the objects it declares, or ends the case on an outcome
\* that was not its own.
LEMMA ChecksOutAsPlanned ==
    ASSUME NEW m, NEW n, NEW next, StepOf(m, n, next), DriveCheckout(next)
    PROVE  Outcome(n)
<1> DEFINE script == current.script
           before == Planned(fixture, script)
           r == Checkout(before, script)
           p == fixture.stripe
           L == Len(sources.objects)
           recovered == IsRecovered(r)
           newIds == NewIds(p, r.fixture.stripe)
           values == IF recovered THEN <<r.id>> ELSE AttemptIds(script, newIds)
           more == IF recovered THEN CallCount(script) ELSE 0
           known == provider.known \cup {values[i] : i \in DOMAIN values}
           u == [provider EXCEPT !.known = known,
                                 !.recovered = @ + more,
                                 !.response = KeptResponse(next)]
           caps == Captures(Outputs, values)
           t == Reserve(sources, current)
           d == Live(t, captured, caps)
           answered == (r.status = "answered")
           count == CommittedCount(script)
<1>1. current.kind \in BusinessRequest /\ TerminalOutcome(script) # "CommitThenDelay"
  BY DEF DriveCheckout, Running
<1>2. /\ fixture' = r.fixture
      /\ app' = [app EXCEPT !.persisted = @ \/ answered]
      /\ provider' = u /\ webhook' = Synchronize(webhook, u)
      /\ captured' = d
      /\ case' = [case EXCEPT !.probe =
                       IF Cut(next) = "SqlProbe"
                       THEN ObserveTrue(RequireFalse(@, Evaluate(app)), Evaluate(app'))
                       ELSE @]
      /\ diverged' = (diverged \/ r.diverged)
      /\ Require(NotQuiesced /\
                 /\ Idle(provider) /\ InStep
                 /\ fixture.gates = {} /\ r.fixture.gates = {}
                 /\ DriverAnswers(r, script)
                 /\ Len(before.outcomes) - Consumed(script, recovered)
                       = Len(r.fixture.outcomes)
                 /\ recovered => count = 1 /\ newIds = <<>>
                 /\ CheckoutContract(Outputs, script)
                 /\ Len(values) = count /\ ValidCaptures(Outputs, caps)
                 /\ r.status = "answered" => values # <<>> /\ values[Len(values)] = r.id
                 /\ Cut(next) = "SqlProbe" => case'.probe = "Observed",
                 "DriveCheckout")
      /\ UNCHANGED observed
  BY DEF DriveCheckout, RequireOpen, Capture, Complete
<1>3. /\ IsScript(script)
      /\ n.phase = PhaseAfter(script, "PaymentIntentKnown",
                              "CheckoutResponseHeld", "CheckoutRetryable")
      /\ n.objects = m.objects + count /\ m.objects = L
      /\ UNCHANGED <<application, spec>> /\ sources.generated = 0 /\ sources' = t
      /\ Types /\ ProviderPart /\ StatusPart(m) /\ EventPart(m)
      /\ Traces(sources, captured, Known(p), TRUE)
      /\ provider.pending = NoValue /\ fixture.gates = {} /\ app.up
      /\ provider.response = NoValue /\ webhook.request = NoValue
      /\ webhook.response = NoValue
      /\ fixture.request = NoValue /\ fixture.response = NoValue
      /\ NotQuiesced /\ InStep
  BY <1>1, CheckoutParts
<1>4. PICK q, rest :
        /\ r.fixture = Called(fixture, rest, q) /\ Extends(p, q)
        /\ rest \in Seq(Outcomes)
        /\ DriveChecks(before, script, r, recovered, NewIds(p, q), IdsOf(script, r, q), Len(rest))
              => Drives(fixture, script, r, recovered, IdsOf(script, r, q), q, rest)
        /\ ~r.diverged
              => DriveChecks(before, script, r, recovered, NewIds(p, q),
                             IdsOf(script, r, q), Len(rest))
        /\ Faulty => ~r.diverged /\ ~recovered
  BY <1>1, DriveFacts
<1>5. /\ fixture \in Fixtures /\ app \in Apps /\ provider \in ProviderStates
      /\ webhook \in WebhookStates /\ observed \in Nat /\ sources \in Sources
      /\ provider.control = fixture.command /\ provider.observations = observed
      /\ fixture.command \in Nat /\ Provides(p) /\ Fresh(p) /\ L \in Nat
      /\ CallCount(script) \in 1 .. 2 /\ count \in 0 .. 2
  <2>1. /\ fixture \in Fixtures /\ app \in Apps /\ provider \in ProviderStates
        /\ webhook \in WebhookStates /\ observed \in Nat /\ sources \in Sources
        /\ provider.control = fixture.command /\ provider.observations = observed
        /\ fixture.command \in Nat /\ Provides(p) /\ Fresh(p)
    BY RealParts
  <2>2. L \in Nat
    BY <2>1, LenProperties DEF Sources
  <2> QED  BY <1>3, <2>1, <2>2, AnsweredScripts
<1>6. r.fixture.stripe = q /\ r.fixture.outcomes = rest /\ r.fixture.gates = {}
      /\ r.fixture.command = fixture.command
      /\ r.fixture.request = NoValue /\ r.fixture.response = NoValue
      /\ r.fixture \in Fixtures
  <2>1. q \in Stripe!Providers /\ rest \in Seq(Outcomes)
    BY <1>4 DEF Extends, Provides
  <2>2. Called(fixture, rest, q) \in Fixtures
    BY <1>5, <2>1 DEF Called, Fixtures
  <2> QED  BY <1>3, <1>4, <1>5, <2>2, CalledTwice
<1>7. newIds = NewIds(p, q) /\ values = IdsOf(script, r, q)
  BY <1>6 DEF IdsOf
<1> DEFINE checks == DriveChecks(before, script, r, recovered, newIds, values, Len(rest))
<1>8. /\ checks => Drives(fixture, script, r, recovered, values, q, rest)
      /\ ~r.diverged => checks
      /\ Faulty => ~r.diverged /\ ~recovered
  BY <1>4, <1>7
<1>9. recovered \in BOOLEAN /\ answered \in BOOLEAN
  BY DEF IsRecovered
<1> HIDE DEF script, before, r, recovered, newIds, values, answered
<1>10. failure' = NoValue => checks
  <2> SUFFICES ASSUME failure' = NoValue PROVE checks
    OBVIOUS
  <2>1. NoValue # "DriveCheckout"
    BY NoValueAssumption DEF Errors
  <2> HIDE DEF caps
  <2> QED  BY <1>2, <1>6, <2>1 DEF Require, DriveChecks
<1>11. Faulty => ~diverged'
  <2>1. Faulty => ~diverged
    BY <1>3 DEF ProviderPart
  <2> QED  BY <1>2, <1>8, <2>1
\* What follows when the checks hold.
<1>12. checks =>
         /\ t \in Sources /\ Len(t.objects) = L + count
         /\ Traces(t, d, Known(q), TRUE)
         /\ t.generated = sources.generated
         /\ CheckoutContract(Outputs, script) /\ ValidCaptures(Outputs, caps)
         /\ known = Known(q)
  <2> SUFFICES ASSUME checks
               PROVE  /\ t \in Sources /\ Len(t.objects) = L + count
                      /\ Traces(t, d, Known(q), TRUE)
                      /\ t.generated = sources.generated
                      /\ CheckoutContract(Outputs, script) /\ ValidCaptures(Outputs, caps)
                      /\ known = Known(q)
    OBVIOUS
  <2> DEFINE V == {Seed} \X Nat
             now == Known(p)
             after == Known(q)
  <2>1. /\ values \in Seq(V) /\ Len(values) = count
        /\ \A id : id \in after <=> id \in now \/ \E i \in DOMAIN values : id = values[i]
    BY <1>8 DEF Drives
  <2>2. DOMAIN values = 1 .. count
    BY <2>1, LenProperties
  <2>3. Len(OutputsOf(L, current)) = count /\ CheckoutContract(OutputsOf(L, current), script)
    <3>1. LET outputs == OutputsOf(L, current)
              held == TerminalOutcome(current.script) = "CommitThenDelay"
          IN  /\ Len(outputs) = CommittedCount(current.script) + IF held THEN 1 ELSE 0
              /\ CheckoutContract(outputs, current.script)
      BY <1>1, <1>3, <1>5, RequestOutputs DEF script
    <3>2. /\ Len(OutputsOf(L, current)) = CommittedCount(current.script) + 0
          /\ CheckoutContract(OutputsOf(L, current), current.script)
      BY <1>1, <3>1 DEF script
    <3> HIDE DEF L
    <3> QED  BY <1>5, <3>2 DEF script
  <2>4. StandFor(values, CommittedCount(current.script), now, after)
    BY <2>1, <2>2 DEF script, StandFor
  <2>5. known = after
    <3>1. provider.known = now
      BY <1>3 DEF ProviderPart
    <3>2. \A id : id \in known <=> id \in now \/ \E i \in DOMAIN values : id = values[i]
      BY <3>1
    <3> HIDE DEF known, now, after
    <3> QED  BY <2>1, <3>2
  <2> HIDE DEF V, now, after
  <2>6. Traces(sources, captured, now, TRUE)
    BY <1>3 DEF now
  <2>7. Len(values) = Len(OutputsOf(Len(sources.objects), current))
    BY <2>1, <2>3
  <2>8. IsScript(current.script)
    BY <1>3 DEF script
  <2>9. LET num == Len(sources.objects)
            cc == CommittedCount(current.script)
            held == TerminalOutcome(current.script) = "CommitThenDelay"
            made == Captures(OutputsOf(num, current), values)
            s == Reserve(sources, current)
            e == Live(s, captured, made)
        IN  /\ s \in Sources /\ Len(s.objects) = num + cc
            /\ Traces(s, e, after, TRUE)
            /\ s.generated = sources.generated
            /\ ValidCaptures(OutputsOf(num, current), made)
    BY <1>1, <1>5, <2>1, <2>4, <2>6, <2>7, <2>8, TracesGrow, ZenonT(30)
  <2>10. Outputs = OutputsOf(L, current)
    BY DEF Outputs
  <2> QED  BY <2>3, <2>5, <2>9, <2>10 DEF after, script
<1>13. checks =>
         /\ app' \in Apps /\ app'.up = app.up
         /\ DOMAIN case' = CaseFields /\ case'.healthy = case.healthy
         /\ case'.quiescence = case.quiescence /\ case'.checkpoint = case.checkpoint
         /\ case'.probe \in {"Ready", "Observed"}
         /\ Cut(next) = "SqlProbe" => case'.probe = "Observed"
  <2> SUFFICES ASSUME checks
               PROVE /\ app' \in Apps /\ app'.up = app.up
                     /\ DOMAIN case' = CaseFields /\ case'.healthy = case.healthy
                     /\ case'.quiescence = case.quiescence /\ case'.checkpoint = case.checkpoint
                     /\ case'.probe \in {"Ready", "Observed"}
                     /\ Cut(next) = "SqlProbe" => case'.probe = "Observed"
    OBVIOUS
  <2>1. DriverAnswers(r, script)
    BY DEF DriveChecks
  <2>2. answered <=> TerminalOutcome(current.script) = "Normal"
    BY <2>1 DEF DriverAnswers, answered, script
  <2> QED  BY <1>1, <1>2, <1>9, <2>2, ProbeObserves
<1>14. ~r.diverged => failure' = NoValue
  <2> SUFFICES ASSUME ~r.diverged PROVE failure' = NoValue
    OBVIOUS
  <2>1. checks
    BY <1>8
  <2>2. /\ CheckoutContract(Outputs, script) /\ ValidCaptures(Outputs, caps)
        /\ Cut(next) = "SqlProbe" => case'.probe = "Observed"
    BY <1>12, <1>13, <2>1
  <2>3. /\ DriverAnswers(r, script)
        /\ Len(before.outcomes) - Consumed(script, recovered) = Len(r.fixture.outcomes)
        /\ recovered => count = 1 /\ newIds = <<>>
        /\ Len(values) = count
        /\ r.status = "answered" => values # <<>> /\ values[Len(values)] = r.id
    BY <1>6, <2>1 DEF DriveChecks
  <2>4. Idle(provider)
    BY <1>3 DEF Idle
  <2> HIDE DEF caps, count
  <2> QED  BY <1>2, <1>3, <1>6, <2>2, <2>3, <2>4 DEF Require
<1>15. failure' # NoValue => diverged' /\ case'.checkpoint = NoValue
  <2>1. case'.checkpoint = case.checkpoint
    BY <1>2, <1>3 DEF Types, CaseFields
  <2> QED  BY <1>2, <1>3, <1>14, <2>1 DEF NotQuiesced
<1>16. failure' = NoValue => Real(n)'
  <2> SUFFICES ASSUME failure' = NoValue PROVE Real(n)'
    OBVIOUS
  <2>1. /\ checks /\ Drives(fixture, script, r, recovered, values, q, rest)
        /\ t \in Sources /\ Len(t.objects) = L + count
        /\ Traces(t, d, Known(q), TRUE)
        /\ t.generated = sources.generated
        /\ known = Known(q)
        /\ app' \in Apps /\ app'.up = app.up
        /\ DOMAIN case' = CaseFields /\ case'.healthy = case.healthy
        /\ case'.quiescence = case.quiescence /\ case'.checkpoint = case.checkpoint
        /\ case'.probe \in {"Ready", "Observed"}
        /\ Cut(next) = "SqlProbe" => case'.probe = "Observed"
    BY <1>8, <1>10, <1>12, <1>13
  <2> HIDE DEF checks, known, d, caps
  <2>2. /\ rest \in Seq({"Normal"}) /\ Len(rest) = Len(fixture.outcomes) + more
        /\ Len(q.intents) <= Len(p.intents) + count
        /\ Faulty => Len(q.intents) = Len(p.intents) + count
    BY <2>1 DEF Drives
  <2>3. /\ Provides(q) /\ Fresh(q) /\ Known(q) \subseteq Stripe!Ids
        /\ Len(p.intents) \in Nat /\ Len(q.intents) \in Nat
    <3>1. Provides(q) /\ Fresh(q)
      BY <1>4, <1>5 DEF Extends, Fresh
    <3> QED  BY <1>5, <3>1, KnownIds, ProviderShape
  <2> DEFINE k == provider.recovered + more
             kept == KeptResponse(next)
  <2>4. k \in Nat /\ kept \in {"observed", NoValue} /\ Len(rest) = k
    <3>1. provider.recovered \in Nat /\ Len(fixture.outcomes) = provider.recovered
      BY <1>3, <1>5 DEF ProviderPart, ProviderStates
    <3>2. more \in Nat
      BY <1>5
    <3> HIDE DEF more
    <3> QED  BY <2>2, <3>1, <3>2 DEF KeptResponse
  <2>5. u = [provider EXCEPT !.known = known, !.recovered = k, !.response = kept]
    OBVIOUS
  <2> HIDE DEF u, k, kept
  <2>6. /\ u \in ProviderStates /\ u.pending = NoValue /\ u.response = KeptResponse(next)
        /\ u.known = Known(q) /\ u.recovered = Len(rest)
        /\ u.control = fixture.command /\ u.observations = observed
    <3>1. known \in SUBSET Stripe!Ids
      BY <2>1, <2>3
    <3> QED  BY <1>3, <1>5, <2>1, <2>4, <2>5, <3>1 DEF ProviderStates, kept
  <2>7. /\ webhook' \in WebhookStates
        /\ webhook'.queue = webhook.queue /\ webhook'.generated = webhook.generated
        /\ webhook'.last = webhook.last
        /\ webhook'.request = webhook.request /\ webhook'.response = webhook.response
        /\ webhook'.control = fixture.command /\ webhook'.observations = observed
    <3>1. LET y == Synchronize(webhook, u) IN
          /\ y \in WebhookStates
          /\ y.queue = webhook.queue /\ y.generated = webhook.generated
          /\ y.last = webhook.last
          /\ y.request = webhook.request /\ y.response = webhook.response
          /\ y.control = u.control /\ y.observations = u.observations
      BY <1>5, <2>6, WebhookSynchronized
    <3> QED  BY <1>2, <2>6, <3>1
  <2> HIDE DEF t
  <2>8. n.phase \in {"PaymentIntentKnown", "CheckoutRetryable"}
    BY <1>1, <1>3 DEF PhaseAfter
  <2>9. TracePart(n)'
    <3>1. (n.phase \in Early) = TRUE
      BY <2>8 DEF Early
    <3>2. Traces(sources', captured', Known(fixture'.stripe), n.phase \in Early)
      BY <1>2, <1>3, <1>6, <2>1, <3>1
    <3> QED  BY <1>3, <2>1, <3>2 DEF TracePart
  <2>10. ControlPart(n)'
    BY <1>1, <1>2, <1>6, <2>1, <2>6, <2>7, ControlStays DEF BusinessRequest
  <2>11. HeldPart(n)'
    BY <1>2, <1>6, <2>6, <2>8 DEF HeldPart
  <2>12. CutPart'
    BY <1>1, <1>2, <1>3, <1>6, <2>1, <2>6, <2>7, RequestCut DEF script
  <2>13. EventPart(n)'
    BY <1>1, <1>2, <1>3, <1>4, <1>6, <2>1, <2>7, EventsStay DEF p
  <2>14. StatusPart(n)'
    <3>1. Faulty => n.objects = Len(q.intents)
      BY <1>3, <2>2 DEF StatusPart, p
    <3> QED  BY <1>2, <1>3, <1>6, <2>8, <3>1 DEF StatusPart, Faulty
  <2>15. Types'
    <3>1. /\ observed' \in Nat /\ diverged' \in BOOLEAN /\ case'.healthy \in BOOLEAN
          /\ sources' \in Sources
      <4>1. case'.healthy \in BOOLEAN /\ diverged \in BOOLEAN
        BY <1>3, <2>1 DEF Types
      <4>2. diverged' \in BOOLEAN
        BY <1>2, <4>1
      <4> QED  BY <1>2, <1>3, <1>5, <2>1, <4>1, <4>2
    <3> QED  BY <1>2, <1>6, <2>1, <2>6, <2>7, <3>1 DEF Types
  <2>16. ProviderPart'
    <3>1. Numbered(q)
      BY <2>3 DEF Provides
    <3>2. Len(q.intents) <= Len(t.objects)
      <4>1. Len(p.intents) <= L
        BY <1>3 DEF ProviderPart
      <4> DEFINE a == Len(p.intents)
                 b == Len(q.intents)
      <4> HIDE DEF L, count, a, b
      <4>2. a <= L /\ b <= a + count /\ a \in Nat /\ b \in Nat /\ L \in Nat /\ count \in 0 .. 2
        BY <1>5, <2>2, <2>3, <4>1 DEF a, b
      <4>3. b <= L + count
        BY <4>2
      <4> QED  BY <2>1, <4>3 DEF b
    <3>3. Faulty => ~diverged' /\ u.recovered = 0
      <4> SUFFICES ASSUME Faulty PROVE ~diverged' /\ u.recovered = 0
        OBVIOUS
      <4>1. provider.recovered = 0 /\ ~recovered
        BY <1>3, <1>8 DEF ProviderPart
      <4>2. k = 0
        BY <4>1 DEF k
      <4> QED  BY <1>11, <2>4, <2>6, <4>2
    <3> QED  BY <1>2, <1>3, <1>6, <2>2, <2>3, <2>6, <3>1, <3>2, <3>3
             DEF ProviderPart, Faulty
  <2> QED  BY <2>9, <2>10, <2>11, <2>12, <2>13, <2>14, <2>15, <2>16 DEF Real
<1> QED  BY <1>11, <1>15, <1>16 DEF Outcome

\* A request is held as planned, with an object for each commit, unless it took
\* an outcome that a recovered one left.
LEMMA HoldFacts ==
    ASSUME NEW m, NEW n, NEW next, StepOf(m, n, next), current.kind \in BusinessRequest,
           NEW script, script = current.script, TerminalOutcome(script) = "CommitThenDelay",
           NEW r, r = Checkout(Planned(fixture, script), script)
    PROVE  \E q, rest :
              /\ r.fixture = Called(fixture, rest, q) /\ Extends(fixture.stripe, q)
              /\ rest \in Seq(Outcomes)
              /\ ~r.diverged => r.status = "held"
              /\ Faulty => ~r.diverged
              /\ r.status = "held" =>
                    /\ rest = <<>> /\ fixture.outcomes = <<>>
                    /\ Adds(fixture.stripe, q, CommittedCount(script))
                    /\ CommittedCount(script) >= 1
                    /\ r.id = <<Seed, Len(q.intents)>>
<1> DEFINE f == fixture
<1>1. /\ f \in Fixtures /\ Provides(f.stripe) /\ Fresh(f.stripe)
      /\ f.outcomes \in Seq({"Normal"}) /\ IsScript(script)
      /\ Faulty => f.outcomes = <<>>
  <2>1. f.outcomes \in Seq({"Normal"}) /\ (Faulty => Len(f.outcomes) = 0) /\ IsScript(script)
    BY CheckoutParts DEF ProviderPart
  <2>2. Faulty => f.outcomes = <<>>
    BY <2>1, EmptySeq
  <2> QED  BY <2>1, <2>2, RealParts
<1>2. PICK q, rest :
        /\ r.fixture = Called(f, rest, q) /\ Extends(f.stripe, q)
        /\ rest \in Seq(Outcomes)
        /\ \/ FindsAgain(f, script, r, q, rest)
           \/ CallsAsPlanned(f, script, r, q, rest)
           \/ TakesWhatIsLeft(f, script, r, q, rest)
  <2>1. LET z == Checkout(Planned(f, script), script) IN
        \E q, rest :
              /\ z.fixture = Called(f, rest, q) /\ Extends(f.stripe, q)
              /\ rest \in Seq(Outcomes)
              /\ \/ FindsAgain(f, script, z, q, rest)
                 \/ CallsAsPlanned(f, script, z, q, rest)
                 \/ TakesWhatIsLeft(f, script, z, q, rest)
    BY <1>1, CheckoutFacts
  <2> QED  BY <2>1
<1>3. script # Single("Normal")
  BY <1>1, AnsweredScripts
<1> DEFINE count == CommittedCount(script)
           good == /\ ~r.diverged => r.status = "held"
                   /\ Faulty => ~r.diverged
                   /\ r.status = "held" =>
                         /\ rest = <<>> /\ f.outcomes = <<>>
                         /\ Adds(f.stripe, q, count) /\ count >= 1
                         /\ r.id = <<Seed, Len(q.intents)>>
<1>4. CASE FindsAgain(f, script, r, q, rest)
  <2>1. ~Faulty /\ r.diverged /\ r.status # "held"
    BY <1>3, <1>4 DEF FindsAgain, Faulty
  <2> QED  BY <1>2, <2>1
<1>5. CASE TakesWhatIsLeft(f, script, r, q, rest)
  <2>1. ~Faulty /\ r.diverged /\ r.status # "held"
    BY <1>1, <1>3, <1>5 DEF TakesWhatIsLeft
  <2> QED  BY <1>2, <2>1
<1>6. CASE CallsAsPlanned(f, script, r, q, rest)
  <2>1. f.outcomes = <<>> /\ rest = <<>>
    BY <1>6 DEF CallsAsPlanned
  <2>2. PICK j \in 0 .. 2 :
          /\ Adds(f.stripe, q, j)
          /\ r.status \in {"answered", "held"} => j >= 1 /\ r.id = <<Seed, Len(q.intents)>>
          /\ r.status = "held" => j = count
          /\ ~r.diverged => r.status = StatusAfter(TerminalOutcome(script))
          /\ Faulty => ~r.diverged
    BY <1>6 DEF CallsAsPlanned
  <2>3. ~r.diverged => r.status = "held"
    BY <2>2 DEF StatusAfter
  <2>4. r.status = "held" => Adds(f.stripe, q, count) /\ count >= 1
                             /\ r.id = <<Seed, Len(q.intents)>>
    BY <2>2
  <2> QED  BY <1>2, <2>1, <2>2, <2>3, <2>4
<1> QED  BY <1>2, <1>4, <1>5, <1>6

\* What is held of a request can only be cut before it is answered.
LEMMA HeldRequestCut ==
    ASSUME NEW m, NEW n, NEW next, StepOf(m, n, next), current.kind \in BusinessRequest,
           TerminalOutcome(current.script) = "CommitThenDelay",
           provider'.response = NoValue, provider'.pending # NoValue,
           provider'.pending.kind = "Checkout", ~provider'.pending.disconnect,
           webhook'.request = NoValue, webhook'.response = NoValue,
           fixture'.request = NoValue, fixture'.response = NoValue
    PROVE  CutPart'
<1>1. NoValue \notin CutPoints
  BY NoValueAssumption
<1>2. Cut(current)' = Cut(next)
  BY DEF StepOf, Cut
<1>3. Cut(next) \in {NoValue, "ClientRequestForwarded"}
  BY DEF StepOf, Cuts, BusinessRequest, Delivery
<1> QED  BY <1>1, <1>2, <1>3 DEF CutPart, CutPoints

\* A request held after its commit.
LEMMA HoldsTheCheckout ==
    ASSUME NEW m, NEW n, NEW next, StepOf(m, n, next), HeldCheckout(next)
    PROVE  Outcome(n)
<1> DEFINE script == current.script
           r == Checkout(Planned(fixture, script), script)
           held == r.status = "held"
           after == IF held THEN Hold(r.fixture) ELSE r.fixture
           p == fixture.stripe
           L == Len(sources.objects)
           ids == NewIds(p, after.stripe)
           x == after.nextGate
           g == fixture.nextGate + 1
           o1 == observed + 1
           exchange == [gate |-> x, kind |-> "Checkout", ids |-> ids, disconnect |-> FALSE]
           known == Known(p) \cup {ids[i] : i \in DOMAIN ids}
           u == [provider EXCEPT !.known = known, !.pending = exchange,
                                 !.observations = @ + 1]
           values == ids \o <<x>>
           caps == Captures(Outputs, values)
           t == Reserve(sources, current)
           d == Live(t, captured, caps)
           count == CommittedCount(script)
<1>1. current.kind \in BusinessRequest /\ TerminalOutcome(script) = "CommitThenDelay"
  BY DEF HeldCheckout, Running
<1>2. /\ fixture' = after
      /\ app' = [app EXCEPT !.waiting = r.id]
      /\ provider' = u /\ webhook' = Synchronize(webhook, u)
      /\ observed' = o1
      /\ captured' = d
      /\ diverged' = (diverged \/ r.diverged)
      /\ Require(NotQuiesced /\
                 /\ provider.pending = NoValue /\ InStep
                 /\ fixture.gates = {} /\ held
                 /\ CheckoutContract(Outputs, script)
                 /\ Len(ids) = count
                 /\ ValidCaptures(Outputs, caps) /\ u.observations = o1,
                 "HeldCheckout")
      /\ UNCHANGED case
  BY DEF HeldCheckout, RequireOpen, Record, Recorded, Capture, Complete
<1>3. /\ IsScript(script)
      /\ n.phase = PhaseAfter(script, "PaymentIntentKnown",
                              "CheckoutResponseHeld", "CheckoutRetryable")
      /\ n.objects = m.objects + count /\ m.objects = L
      /\ UNCHANGED <<application, spec>> /\ sources.generated = 0 /\ sources' = t
      /\ Types /\ ProviderPart /\ StatusPart(m) /\ EventPart(m)
      /\ Traces(sources, captured, Known(p), TRUE)
      /\ provider.pending = NoValue /\ fixture.gates = {} /\ app.up
      /\ provider.response = NoValue /\ webhook.request = NoValue
      /\ webhook.response = NoValue
      /\ fixture.request = NoValue /\ fixture.response = NoValue
      /\ NotQuiesced /\ InStep
  BY <1>1, CheckoutParts
<1>4. PICK q, rest :
        /\ r.fixture = Called(fixture, rest, q) /\ Extends(p, q)
        /\ rest \in Seq(Outcomes)
        /\ ~r.diverged => held
        /\ Faulty => ~r.diverged
        /\ held => /\ rest = <<>> /\ fixture.outcomes = <<>>
                   /\ Adds(p, q, count) /\ count >= 1
                   /\ r.id = <<Seed, Len(q.intents)>>
  BY <1>1, HoldFacts
<1> HIDE DEF r, script
<1>5. /\ fixture \in Fixtures /\ app \in Apps /\ provider \in ProviderStates
      /\ webhook \in WebhookStates /\ observed \in Nat /\ sources \in Sources
      /\ provider.control = fixture.command /\ provider.observations = observed
      /\ fixture.command \in Nat /\ fixture.nextGate \in Nat
      /\ Provides(p) /\ Fresh(p) /\ L \in Nat /\ count \in 0 .. 2
      /\ g \in Nat /\ o1 \in Nat
  <2>1. /\ fixture \in Fixtures /\ app \in Apps /\ provider \in ProviderStates
        /\ webhook \in WebhookStates /\ observed \in Nat /\ sources \in Sources
        /\ provider.control = fixture.command /\ provider.observations = observed
        /\ fixture.command \in Nat /\ fixture.nextGate \in Nat /\ Provides(p) /\ Fresh(p)
    BY RealParts
  <2>2. L \in Nat
    BY <2>1, LenProperties DEF Sources
  <2> QED  BY <1>3, <2>1, <2>2, AnsweredScripts
<1>6. n.phase = "CheckoutResponseHeld"
  BY <1>1, <1>3 DEF PhaseAfter
<1>7. failure' = NoValue => held
  <2>1. NoValue # "HeldCheckout"
    BY NoValueAssumption DEF Errors
  <2> HIDE DEF caps, u
  <2> QED  BY <1>2, <2>1 DEF Require
<1>8. Faulty => ~diverged'
  <2>1. Faulty => ~diverged
    BY <1>3 DEF ProviderPart
  <2> QED  BY <1>2, <1>4, <2>1
<1>9. held => /\ after.stripe = q /\ after.outcomes = rest /\ after.gates = {g}
              /\ after.command = fixture.command
              /\ after.request = NoValue /\ after.response = NoValue
              /\ after \in Fixtures /\ x = g
  <2> SUFFICES ASSUME held
               PROVE  /\ after.stripe = q /\ after.outcomes = rest /\ after.gates = {g}
                      /\ after.command = fixture.command
                      /\ after.request = NoValue /\ after.response = NoValue
                      /\ after \in Fixtures /\ x = g
    OBVIOUS
  <2> DEFINE h == Called(fixture, rest, q)
  <2>1. after = Hold(h)
    BY <1>4
  <2>2. q \in Stripe!Providers /\ rest \in Seq(Outcomes)
    BY <1>4 DEF Extends, Provides
  <2>3. h \in Fixtures
    BY <1>5, <2>2 DEF Called, Fixtures
  <2>4. /\ h.stripe = q /\ h.outcomes = rest /\ h.gates = {} /\ h.nextGate = fixture.nextGate
        /\ h.command = fixture.command /\ h.request = NoValue /\ h.response = NoValue
    BY <1>3, <1>5, CalledTwice
  <2> HIDE DEF h
  <2>5. after = [h EXCEPT !.nextGate = g, !.gates = {g}]
    BY <2>1, <2>4 DEF Hold
  <2> HIDE DEF after, g
  <2> QED  BY <1>5, <2>3, <2>4, <2>5 DEF Fixtures
<1> HIDE DEF after, x, g
<1> DEFINE V == ({Seed} \X Nat) \cup Nat
<1>10. held => /\ ids \in Seq({Seed} \X Nat) /\ Len(ids) = count /\ ids # <<>>
               /\ DOMAIN ids = 1 .. count /\ ids[Len(ids)] = r.id
               /\ known = Known(q) /\ \A i \in DOMAIN ids : ids[i] \in Known(q)
               /\ values \in Seq(V) /\ Len(values) = count + 1
               /\ \A i \in 1 .. count : values[i] = ids[i]
               /\ values[count + 1] = g
               /\ StandFor(values, count, Known(p), Known(q))
  <2> SUFFICES ASSUME held
               PROVE  /\ ids \in Seq({Seed} \X Nat) /\ Len(ids) = count /\ ids # <<>>
                      /\ DOMAIN ids = 1 .. count /\ ids[Len(ids)] = r.id
                      /\ known = Known(q) /\ \A i \in DOMAIN ids : ids[i] \in Known(q)
                      /\ values \in Seq(V) /\ Len(values) = count + 1
                      /\ \A i \in 1 .. count : values[i] = ids[i]
                      /\ values[count + 1] = g
                      /\ StandFor(values, count, Known(p), Known(q))
    OBVIOUS
  <2> DEFINE S == {Seed} \X Nat
             k == Len(p.intents)
  <2>1. Adds(p, q, count) /\ count >= 1 /\ r.id = <<Seed, Len(q.intents)>> /\ x = g
        /\ count \in Nat
    BY <1>4, <1>5, <1>9
  <2>2. ids = NewIds(p, q)
    BY <1>9
  <2>3. /\ ids \in Seq(S) /\ Len(ids) = count
        /\ \A i \in 1 .. count : ids[i] = <<Seed, k + i>>
        /\ Known(q) = Known(p) \cup {ids[i] : i \in DOMAIN ids}
    <3>1. LET z == NewIds(p, q) IN
          /\ z \in Seq(S) /\ Len(z) = count
          /\ \A i \in 1 .. count : z[i] = <<Seed, k + i>>
          /\ Known(q) = Known(p) \cup {z[i] : i \in DOMAIN z}
      BY <1>5, <2>1, NewIdsFacts
    <3> QED  BY <2>2, <3>1
  <2> HIDE DEF ids
  <2>4. DOMAIN ids = 1 .. count /\ ids # <<>>
    <3>1. DOMAIN ids = 1 .. count
      BY <2>3, LenProperties
    <3>2. \A s : s = <<>> => Len(s) = 0
      OBVIOUS
    <3> HIDE DEF count
    <3> QED  BY <2>1, <2>3, <3>1, <3>2
  <2>5. ids[Len(ids)] = r.id
    <3>1. Len(q.intents) = k + count
      BY <2>1 DEF Adds
    <3> HIDE DEF count
    <3>2. count \in 1 .. count
      BY <2>1
    <3> QED  BY <2>1, <2>3, <3>1, <3>2
  <2>6. known = Known(q)
    BY <2>3
  <2>7. \A id : id \in Known(q) <=> id \in Known(p) \/ \E i \in DOMAIN ids : id = ids[i]
    BY <2>3
  <2> HIDE DEF known, S
  <2>8. \A i \in DOMAIN ids : ids[i] \in Known(q)
    BY <2>7
  <2>9. /\ values \in Seq(V) /\ Len(values) = count + 1
        /\ \A i \in 1 .. count : values[i] = ids[i]
        /\ values[count + 1] = g
    <3> DEFINE last == <<x>>
    <3>1. ids \in Seq(V)
      <4>1. S \subseteq V
        BY DEF S
      <4> HIDE DEF V
      <4> QED  BY <2>3, <4>1
    <3>2. last \in Seq(V) /\ Len(last) = 1 /\ last[1] = g
      BY <1>5, <2>1
    <3> HIDE DEF last, V, count
    <3>3. values = ids \o last
      BY DEF last
    <3>4. /\ ids \o last \in Seq(V)
          /\ Len(ids \o last) = Len(ids) + Len(last)
          /\ \A i \in 1 .. Len(ids) + Len(last) : (ids \o last)[i] =
                IF i <= Len(ids) THEN ids[i] ELSE last[i - Len(ids)]
      BY <3>1, <3>2, ConcatProperties
    <3> HIDE DEF values
    <3>5. values \in Seq(V) /\ Len(values) = count + 1
          /\ \A i \in 1 .. count + 1 : values[i] = IF i <= count THEN ids[i] ELSE last[i - count]
      BY <2>3, <3>2, <3>3, <3>4
    <3>6. \A i \in 1 .. count : i \in 1 .. count + 1 /\ i <= count
      BY <2>1
    <3>7. count + 1 \in 1 .. count + 1 /\ ~(count + 1 <= count) /\ (count + 1) - count = 1
      BY <2>1
    <3> QED  BY <3>2, <3>5, <3>6, <3>7
  <2> HIDE DEF values, V, count
  <2>10. StandFor(values, count, Known(p), Known(q))
    <3>1. /\ \A i \in 1 .. count : values[i] \in Known(q)
          /\ \A id \in Known(q) : id \in Known(p) \/ \E i \in 1 .. count : values[i] = id
      BY <2>4, <2>7, <2>8, <2>9
    <3>2. Known(p) \subseteq Known(q)
      BY <2>7
    <3> QED  BY <3>1, <3>2 DEF StandFor
  <2> QED  BY <2>3, <2>4, <2>5, <2>6, <2>8, <2>9, <2>10 DEF S
<1> HIDE DEF ids, known, values, V
<1>11. held =>
         /\ t \in Sources /\ Len(t.objects) = L + count
         /\ Traces(t, d, Known(q), TRUE)
         /\ t.gate \in DOMAIN d /\ d[t.gate] = g
         /\ t.generated = sources.generated
         /\ CheckoutContract(Outputs, script) /\ ValidCaptures(Outputs, caps)
  <2> SUFFICES ASSUME held
               PROVE  /\ t \in Sources /\ Len(t.objects) = L + count
                      /\ Traces(t, d, Known(q), TRUE)
                      /\ t.gate \in DOMAIN d /\ d[t.gate] = g
                      /\ t.generated = sources.generated
                      /\ CheckoutContract(Outputs, script) /\ ValidCaptures(Outputs, caps)
    OBVIOUS
  <2> DEFINE now == Known(p)
             then == Known(q)
  <2>1. Len(OutputsOf(L, current)) = count + 1 /\ CheckoutContract(OutputsOf(L, current), script)
    <3>1. LET outputs == OutputsOf(L, current)
              hold == TerminalOutcome(current.script) = "CommitThenDelay"
          IN  /\ Len(outputs) = CommittedCount(current.script) + IF hold THEN 1 ELSE 0
              /\ CheckoutContract(outputs, current.script)
      BY <1>1, <1>3, <1>5, RequestOutputs DEF script
    <3> HIDE DEF L
    <3> QED  BY <1>1, <3>1 DEF script
  <2>2. values \in Seq(V) /\ Len(values) = count + 1 /\ values[count + 1] = g
        /\ StandFor(values, count, now, then)
    BY <1>10
  <2> HIDE DEF now, then
  <2>3. Traces(sources, captured, now, TRUE)
    BY <1>3 DEF now
  <2>4. Len(values) = Len(OutputsOf(Len(sources.objects), current))
    BY <2>1, <2>2
  <2>5. IsScript(current.script) /\ StandFor(values, CommittedCount(current.script), now, then)
    BY <1>3, <2>2 DEF script
  <2>6. LET num == Len(sources.objects)
            cc == CommittedCount(current.script)
            hold == TerminalOutcome(current.script) = "CommitThenDelay"
            made == Captures(OutputsOf(num, current), values)
            s == Reserve(sources, current)
            e == Live(s, captured, made)
        IN  /\ s \in Sources /\ Len(s.objects) = num + cc
            /\ Traces(s, e, then, TRUE)
            /\ hold => s.gate \in DOMAIN e /\ e[s.gate] = values[cc + 1]
            /\ s.generated = sources.generated
            /\ ValidCaptures(OutputsOf(num, current), made)
    BY <1>1, <1>5, <2>2, <2>3, <2>4, <2>5, TracesGrow
  <2>7. Outputs = OutputsOf(L, current)
    BY DEF Outputs
  <2> QED  BY <1>1, <2>1, <2>2, <2>6, <2>7 DEF then, script
<1> HIDE DEF caps, t, d
<1>12. u.observations = o1
  BY <1>5 DEF ProviderStates
<1>13. held => failure' = NoValue
  <2> HIDE DEF u, o1
  <2> QED  BY <1>2, <1>3, <1>10, <1>11, <1>12 DEF Require
<1>14. failure' # NoValue => diverged' /\ case'.checkpoint = NoValue
  BY <1>2, <1>3, <1>4, <1>13 DEF NotQuiesced
<1>15. failure' = NoValue => Real(n)'
  <2> SUFFICES ASSUME failure' = NoValue PROVE Real(n)'
    OBVIOUS
  <2>1. held /\ rest = <<>> /\ fixture.outcomes = <<>> /\ Adds(p, q, count)
    BY <1>4, <1>7
  <2>2. /\ after.stripe = q /\ after.outcomes = rest /\ after.gates = {g}
        /\ after.command = fixture.command
        /\ after.request = NoValue /\ after.response = NoValue
        /\ after \in Fixtures /\ x = g
    BY <1>9, <2>1
  <2>3. /\ ids \in Seq({Seed} \X Nat) /\ Len(ids) = count /\ ids # <<>>
        /\ ids[Len(ids)] = r.id
        /\ known = Known(q) /\ \A i \in DOMAIN ids : ids[i] \in Known(q)
        /\ count >= 1
    BY <1>4, <1>10, <2>1
  <2>4. /\ t \in Sources /\ Len(t.objects) = L + count
        /\ Traces(t, d, Known(q), TRUE)
        /\ t.gate \in DOMAIN d /\ d[t.gate] = g
        /\ t.generated = sources.generated
    BY <1>11, <2>1
  <2>5. /\ Provides(q) /\ Fresh(q) /\ Known(q) \subseteq Stripe!Ids
        /\ Len(p.intents) \in Nat /\ Len(q.intents) = Len(p.intents) + count
    <3>1. Provides(q) /\ Fresh(q)
      BY <1>4, <1>5 DEF Extends, Fresh
    <3> QED  BY <1>5, <2>1, <3>1, KnownIds, ProviderShape DEF Adds
  <2>6. exchange \in Exchanges /\ exchange # NoValue
    <3>1. exchange \in Exchanges
      BY <1>5, <2>2, <2>3 DEF Exchanges
    <3> QED  BY <3>1, NoValueAssumption
  <2>7. /\ exchange.gate = g /\ exchange.ids = ids /\ ~exchange.disconnect
        /\ exchange.kind = "Checkout"
    BY <2>2
  <2> HIDE DEF exchange
  <2>8. /\ u \in ProviderStates /\ u.pending = exchange /\ u.response = NoValue
        /\ u.known = Known(q) /\ u.recovered = provider.recovered
        /\ u.control = fixture.command /\ u.observations = o1
    <3>1. u = [provider EXCEPT !.known = known, !.pending = exchange, !.observations = o1]
      BY <1>5
    <3>2. known \in SUBSET Stripe!Ids
      BY <2>3, <2>5
    <3> HIDE DEF u, o1
    <3> QED  BY <1>3, <1>5, <2>3, <2>6, <3>1, <3>2 DEF ProviderStates
  <2> HIDE DEF u, o1
  <2>9. /\ webhook' \in WebhookStates
        /\ webhook'.queue = webhook.queue /\ webhook'.generated = webhook.generated
        /\ webhook'.last = webhook.last
        /\ webhook'.request = webhook.request /\ webhook'.response = webhook.response
        /\ webhook'.control = fixture.command /\ webhook'.observations = o1
    <3>1. LET y == Synchronize(webhook, u) IN
          /\ y \in WebhookStates
          /\ y.queue = webhook.queue /\ y.generated = webhook.generated
          /\ y.last = webhook.last
          /\ y.request = webhook.request /\ y.response = webhook.response
          /\ y.control = u.control /\ y.observations = u.observations
      BY <1>5, <2>8, WebhookSynchronized
    <3> QED  BY <1>2, <2>8, <3>1
  <2>10. app' \in Apps /\ app'.up = app.up /\ app'.waiting = r.id
    <3>1. r.id \in Stripe!Ids
      <4> DEFINE last == Len(ids)
      <4>1. last \in DOMAIN ids
        <5>1. DOMAIN ids = 1 .. count /\ count \in 1 .. count
          BY <1>5, <1>10, <2>1, <2>3
        <5> QED  BY <2>3, <5>1
      <4> HIDE DEF last
      <4>2. ids[last] \in Known(q)
        BY <2>3, <4>1
      <4> QED  BY <2>3, <2>5, <4>2 DEF last
    <3> QED  BY <1>2, <1>5, <3>1 DEF Apps
  <2>11. TracePart(n)'
    <3>1. (n.phase \in Early) = TRUE
      BY <1>6 DEF Early
    <3>2. Traces(sources', captured', Known(fixture'.stripe), n.phase \in Early)
      BY <1>2, <1>3, <2>2, <2>4, <3>1
    <3> QED  BY <1>3, <2>4, <3>2 DEF TracePart
  <2>12. ControlPart(n)'
    BY <1>1, <1>2, <2>2, <2>8, <2>9, <2>10, ControlStays DEF BusinessRequest
  <2>13. HeldPart(n)'
    BY <1>2, <1>3, <1>6, <2>2, <2>3, <2>4, <2>6, <2>7, <2>8, <2>10 DEF HeldPart
  <2>14. CutPart'
    BY <1>1, <1>2, <1>3, <2>2, <2>6, <2>7, <2>8, <2>9, HeldRequestCut DEF script
  <2>15. EventPart(n)'
    BY <1>1, <1>2, <1>3, <1>4, <2>2, <2>4, <2>9, EventsStay DEF p
  <2>16. StatusPart(n)'
    <3>1. Faulty => n.objects = Len(q.intents)
      BY <1>3, <2>5 DEF StatusPart, p
    <3> QED  BY <1>2, <1>3, <1>6, <2>2, <3>1 DEF StatusPart, Faulty
  <2>17. Types'
    <3>1. /\ observed' \in Nat /\ diverged' \in BOOLEAN /\ sources' \in Sources
      BY <1>2, <1>3, <1>4, <1>5, <1>8, <2>4 DEF Types
    <3> QED  BY <1>2, <1>3, <2>2, <2>8, <2>9, <2>10, <3>1 DEF Types
  <2>18. ProviderPart'
    <3>1. Numbered(q)
      BY <2>5 DEF Provides
    <3>2. Len(q.intents) <= Len(t.objects)
      <4>1. Len(p.intents) <= L
        BY <1>3 DEF ProviderPart
      <4> DEFINE a == Len(p.intents)
                 b == Len(q.intents)
      <4> HIDE DEF L, count, a, b
      <4>2. a <= L /\ b = a + count /\ a \in Nat /\ L \in Nat /\ count \in 0 .. 2
        BY <1>5, <2>5, <4>1 DEF a, b
      <4>3. b <= L + count
        BY <4>2
      <4> QED  BY <2>4, <4>3 DEF b
    <3>3. Faulty => ~diverged' /\ u.recovered = 0
      BY <1>3, <1>8, <2>8 DEF ProviderPart
    <3>4. Len(rest) = u.recovered /\ rest \in Seq({"Normal"})
      BY <1>3, <2>1, <2>8 DEF ProviderPart
    <3> QED  BY <1>2, <1>3, <2>2, <2>3, <2>5, <2>8, <3>1, <3>2, <3>3, <3>4
             DEF ProviderPart, Faulty
  <2> QED  BY <2>11, <2>12, <2>13, <2>14, <2>15, <2>16, <2>17, <2>18 DEF Real
<1> QED  BY <1>8, <1>14, <1>15 DEF Outcome

-----------------------------------------------------------------------------
(* The beginning of a case.                                                  *)

\* Nothing is reserved before the first action.
LEMMA NothingReserved ==
    ASSUME sources \in Sources
    PROVE  Reserve(sources, NoAction) = sources
<1>1. NoAction.kind = "None"
  BY DEF NoAction
<1> DEFINE a == NoAction
           t == Reserve(sources, a)
<1>2. /\ a.kind \notin BusinessRequest \cup ConfirmKinds
      /\ a.kind # "ReleaseProviderGate" /\ a.kind # "GenerateProviderEvent"
  BY <1>1 DEF BusinessRequest, ConfirmKinds
<1> HIDE DEF a
<1>3. /\ t.objects = sources.objects /\ t.active = sources.active
      /\ t.gate = sources.gate /\ t.generated = sources.generated
      /\ t = [active |-> t.active, objects |-> t.objects, gate |-> t.gate,
              generated |-> t.generated]
  BY <1>2, ReserveFacts
<1>4. sources = [active |-> sources.active, objects |-> sources.objects,
                 gate |-> sources.gate, generated |-> sources.generated]
  BY DEF Sources
<1> HIDE DEF t
<1>5. t = sources
  BY <1>3, <1>4, Zenon
<1> QED  BY <1>5 DEF t, a

\* The first action is chosen, and nothing has happened yet.
LEMMA BeginsAsPlanned ==
    ASSUME NEW m, NEW next, Real(m), current = NoAction,
           Preflight(current, next),
           next.kind = "KillApplication" => next.cutPoint \in CutPoints,
           sources' = Reserve(sources, current), current' = next,
           UNCHANGED <<spec, application, world, failure, diverged>>
    PROVE  Real(m)'
<1>1. sources' = sources
  BY NothingReserved DEF Real, Types
<1>2. /\ spec' = spec /\ application' = application /\ captured' = captured
      /\ fixture' = fixture /\ app' = app /\ provider' = provider /\ webhook' = webhook
      /\ case' = case /\ observed' = observed /\ diverged' = diverged
  BY DEF world
<1>3. next.kind # "KillApplication"
  BY DEF Preflight, CutBy, CutPoints, NoAction, ClientRequestCut, ClientResponseCut,
         WebhookRequestCut, WebhookResponseCut, SqlProbeCut, BusinessRequest, Delivery
<1>4. Cut(current) = NoValue /\ Cut(current)' = NoValue
  BY <1>3 DEF Cut, NoAction
<1>5. Types'
  BY <1>1, <1>2 DEF Real, Types
<1>6. ProviderPart'
  BY <1>1, <1>2 DEF Real, ProviderPart, Faulty
<1>7. ControlPart(m)'
  BY <1>2 DEF Real, ControlPart
<1>8. HeldPart(m)'
  BY <1>1, <1>2 DEF Real, HeldPart
<1>9. CutPart'
  BY <1>2, <1>4 DEF Real, CutPart
<1>10. TracePart(m)'
  BY <1>1, <1>2 DEF Real, TracePart
<1>11. EventPart(m)'
  BY <1>1, <1>2 DEF Real, EventPart, Reported
<1>12. StatusPart(m)'
  BY <1>1, <1>2 DEF Real, StatusPart, ActiveIntent, Faulty
<1> QED  BY <1>5, <1>6, <1>7, <1>8, <1>9, <1>10, <1>11, <1>12 DEF Real

\* A case starts with nothing made, nothing held and nothing known.
LEMMA StartIsReal == CaseInit => Real(model)
<1> SUFFICES ASSUME CaseInit PROVE Real(model)
  OBVIOUS
<1>1. PICK legacy \in BOOLEAN : model = Initial(legacy)
  BY DEF CaseInit, Init
<1>2. /\ model.phase = "Start" /\ model.healthy /\ model.objects = 0
      /\ model.delivered = 0
  BY <1>1 DEF Initial
<1>3. /\ current = NoAction /\ sources = NoSources /\ captured = <<>>
      /\ fixture = [stripe |-> Stripe!NewProvider(Seed), outcomes |-> <<>>,
                    gates |-> {}, nextGate |-> 0, command |-> 1,
                    request |-> NoValue, response |-> NoValue]
      /\ app = [up |-> TRUE, waiting |-> NoValue, persisted |-> FALSE]
      /\ provider = [pending |-> NoValue, response |-> NoValue, known |-> {},
                     recovered |-> 0, control |-> 1, observations |-> 0]
      /\ webhook = [queue |-> <<>>, generated |-> {}, last |-> NoValue,
                    control |-> 1, observations |-> 0,
                    request |-> NoValue, response |-> NoValue]
      /\ case = [healthy |-> TRUE, probe |-> "Ready",
                 quiescence |-> NoValue, checkpoint |-> NoValue]
      /\ observed = 0 /\ diverged = FALSE
  BY DEF CaseInit
<1> DEFINE p == Stripe!NewProvider(Seed)
<1>4. /\ p.intents = <<>> /\ p.events = <<>>
      /\ p.idempotency = [k \in {1, 2} |-> NoEntry]
      /\ p \in Stripe!Providers
  <2>1. p = [seed |-> Seed, intents |-> <<>>, events |-> <<>>,
             idempotency |-> [k \in {1, 2} |-> NoEntry]]
    BY DEF Stripe!NewProvider
  <2>2. /\ <<>> \in Seq(Stripe!PaymentIntents) /\ <<>> \in Seq(Stripe!Events)
        /\ [k \in {1, 2} |-> NoEntry] \in [{1, 2} -> Stripe!Entries \cup {NoEntry}]
    OBVIOUS
  <2> HIDE DEF p
  <2> QED  BY <2>1, <2>2 DEF Stripe!Providers
<1> HIDE DEF p
<1>5. Known(p) = {} /\ Numbered(p) /\ Fresh(p) /\ Len(p.intents) = 0
  BY <1>4 DEF Known, Numbered, Fresh
<1>6. fixture.stripe = p /\ fixture \in Fixtures
  <2>1. <<>> \in Seq(Outcomes)
    OBVIOUS
  <2> QED  BY <1>3, <1>4, <2>1 DEF Fixtures, p
<1>7. /\ NoRef \in Refs /\ NoRef.slot = "None"
      /\ sources.objects = <<>> /\ sources.gate = NoRef /\ sources.generated = 0
      /\ sources \in Sources /\ Len(sources.objects) = 0
  <2>1. NoRef \in Refs /\ NoRef.slot = "None"
    BY DEF NoRef, Ref, Refs
  <2>2. <<>> \in Seq(Refs)
    OBVIOUS
  <2> HIDE DEF NoRef
  <2> QED  BY <1>3, <2>1, <2>2 DEF NoSources, Sources
<1>8. Types
  <2>1. app \in Apps /\ DOMAIN case = CaseFields /\ case.healthy \in BOOLEAN
        /\ case.probe \in {"Ready", "Observed"}
    BY <1>3 DEF Apps, CaseFields
  <2>2. provider \in ProviderStates
    BY <1>3 DEF ProviderStates
  <2>3. webhook \in WebhookStates
    BY <1>3 DEF WebhookStates
  <2> QED  BY <1>3, <1>6, <1>7, <2>1, <2>2, <2>3 DEF Types
<1>9. ProviderPart
  <2>1. provider.recovered = 0 /\ provider.known = {} /\ fixture.outcomes = <<>>
    BY <1>3
  <2> QED  BY <1>3, <1>5, <1>6, <1>7, <2>1 DEF ProviderPart
<1>10. ControlPart(model)
  BY <1>2, <1>3 DEF ControlPart
<1>11. HeldPart(model)
  BY <1>2, <1>3 DEF HeldPart
<1>12. CutPart
  <2>1. Cut(current) = NoValue
    BY <1>3 DEF Cut, NoAction
  <2>2. NoValue \notin CutPoints
    BY NoValueAssumption
  <2> QED  BY <1>3, <2>1, <2>2 DEF CutPart, CutPoints
<1>13. TracePart(model)
  <2>1. DOMAIN captured = {}
    BY <1>3
  <2> DEFINE early == model.phase \in Early
  <2> HIDE DEF early
  <2>2. Traces(sources, captured, {}, early)
    BY <1>7, <2>1 DEF Traces
  <2> QED  BY <1>2, <1>5, <1>6, <1>7, <2>2 DEF TracePart, early
<1>14. EventPart(model)
  <2>1. webhook.queue = <<>> /\ webhook.generated = {}
    BY <1>3
  <2> QED  BY <1>2, <1>7, <2>1 DEF EventPart
<1>15. StatusPart(model)
  BY <1>2, <1>5, <1>6 DEF StatusPart
<1> QED  BY <1>8, <1>9, <1>10, <1>11, <1>12, <1>13, <1>14, <1>15 DEF Real

\* The plan goes on from the state n as the compiler's next choice says.
LEMMA PlanGoesOn ==
    ASSUME PlanInv, NEW next, Compiles(next), NEW n, n = model, current' = next
    PROVE  /\ PlannedAt(n)' /\ Sound(spec, n)'
           /\ UNCHANGED spec /\ ValidPlanSpec(spec) /\ Sound(spec, n)
           /\ Preflight(current, next)
           /\ next.kind = "KillApplication" => next.cutPoint \in CutPoints
<1>1. /\ spec' = spec /\ ValidPlanSpec(spec) /\ Sound(spec, n)
      /\ n.phase = "Complete" => next = NoAction /\ model' = n
      /\ n.phase # "Complete" => /\ next \in Eligible(spec, n)
                                 /\ model' = Apply(n, next)
                                 /\ Preflight(current, next)
  BY Chosen
<1>2. CASE n.phase = "Complete"
  <2>1. next = NoAction /\ model' = n /\ next.kind # "KillApplication"
    BY <1>1, <1>2 DEF NoAction
  <2> QED  BY <1>1, <1>2, <2>1 DEF PlannedAt, Preflight
<1>3. CASE n.phase # "Complete"
  <2>1. PlannedIn(spec, n, next)
    BY <1>1, <1>3, EligibleIsPlanned
  <2>2. next.kind = "KillApplication" => next.cutPoint \in CutPoints
    BY <2>1 DEF PlannedIn
  <2>3. PlannedAt(n)'
    BY <1>1, <1>3 DEF PlannedAt
  <2> QED  BY <1>1, <1>3, <2>2, <2>3
<1> QED  BY <1>2, <1>3

\* An action finds the state it was planned in.
LEMMA ActionsFollowThePlan ==
    ASSUME KillInv, failure = NoValue, NEW m, Sound(spec, m), Real(m),
           current \in Eligible(spec, m), model = Apply(m, current), m.phase # "Complete",
           NEW n, n = model, NEW next, Compiles(next),
           current' = next, sources' = Reserve(sources, current), UNCHANGED application
    PROVE  StepOf(m, n, next)
<1>1. /\ UNCHANGED spec /\ ValidPlanSpec(spec) /\ Sound(spec, n)
      /\ Preflight(current, next)
      /\ next.kind = "KillApplication" => next.cutPoint \in CutPoints
  BY PlanGoesOn DEF KillInv
<1>2. PlannedIn(spec, m, current) /\ current.kind \in ActionKinds
  BY <1>1, EligibleIsPlanned
<1>3. LeadsTo(m, current, n)
  BY <1>1, AppliedLeads
<1>4. Ambiguity(m, current, n)
  BY <1>1, AppliedIsAmbiguous
<1>5. Cuts(next)
  BY <1>1, CutsNext
<1> QED  BY <1>1, <1>2, <1>3, <1>4, <1>5 DEF StepOf

\* Every action comes to what it has to come to.
LEMMA ActionsExecute ==
    ASSUME NEW m, NEW n, NEW next, StepOf(m, n, next), Execute(next)
    PROVE  Outcome(n)
<1>1. current.kind # "None"
  BY DEF StepOf, ActionKinds
<1>2. ~Begin(next)
  BY <1>1 DEF Begin, Running
<1>3. CASE ProviderAction(next)
  BY <1>3, ChecksOutAsPlanned, HoldsTheCheckout, ConfirmsAsPlanned, HoldsTheConfirmation,
     RetrieveStep, ReleasesAsPlanned DEF ProviderAction
<1>4. CASE WebhookAction(next)
  BY <1>4, GeneratesAsPlanned, DeliversAsPlanned, ForwardsAsPlanned, HoldsAsPlanned,
     DelayStep, ReorderStep, DropStep DEF WebhookAction
<1>5. CASE ProcessAction(next)
  BY <1>5, KillsAsPlanned, RestartStepOf DEF ProcessAction
<1>6. CASE WaitForQuiescence(next)
  BY <1>6, WaitStep
<1>7. CASE CheckCheckpoint(next)
  BY <1>7, CheckStep
<1> QED  BY <1>2, <1>3, <1>4, <1>5, <1>6, <1>7 DEF Execute

\* One step: the state n that the next action is planned in is real after it.
LEMMA CaseAdvances ==
    ASSUME HttpInv, failure = NoValue, NEW n, n = model, NEW next, Compiles(next),
           IF Resolves(sources, captured, current) THEN Execute(next)
           ELSE failure' = "MissingResolvedInput" /\ UNCHANGED <<world, diverged>>,
           current' = next, sources' = Reserve(sources, current), UNCHANGED application
    PROVE  /\ PlannedAt(n)' /\ Sound(spec, n)'
           /\ failure' # NoValue => diverged' /\ case'.checkpoint = NoValue
           /\ Faulty' => ~diverged'
           /\ failure' = NoValue => Real(n)'
<1>1. PICK m : Sound(spec, m) /\ PlannedAt(m) /\ Real(m)
  BY DEF HttpInv
<1>2. /\ PlannedAt(n)' /\ Sound(spec, n)' /\ UNCHANGED spec
      /\ Preflight(current, next)
      /\ next.kind = "KillApplication" => next.cutPoint \in CutPoints
  BY PlanGoesOn DEF HttpInv, KillInv
<1>3. Faulty' <=> Faulty
  BY DEF Faulty
<1>4. CASE current = NoAction
  <2>1. current.kind = "None"
    BY <1>4 DEF NoAction
  <2>2. Resolves(sources, captured, current)
    BY <2>1 DEF Resolves, TakesInput, ConfirmKinds
  <2>3. Execute(next)
    BY <2>2
  <2>4. Begin(next)
    BY <2>1, <2>3
       DEF Execute, ProviderAction, WebhookAction, ProcessAction, DriveCheckout, HeldCheckout,
           ConfirmPaymentIntent, HeldConfirmation, RetrievePaymentIntent, ReleaseProviderGate,
           GenerateProviderEvent, DeliverWebhook, ForwardWebhookRequest, HoldWebhookResponse,
           DelayWebhook, ReorderWebhooks, DropWebhook, QueueAction, KillApplication,
           RestartAndAwaitHealth, WaitForQuiescence, CheckCheckpoint, Running,
           BusinessRequest, ConfirmKinds, Delivery
  <2>5. n.phase = "Start" /\ UNCHANGED <<world, failure, diverged>>
    BY <2>4 DEF Begin
  <2>6. n = m
    <3>1. current \in Eligible(spec, m) => current.kind \in ActionKinds
      BY <1>1, SpecsAssumption, EligibleIsPlanned DEF HttpInv, KillInv, PlanInv
    <3>2. current.kind \notin ActionKinds
      BY <2>1 DEF ActionKinds
    <3> QED  BY <1>1, <3>1, <3>2 DEF PlannedAt
  <2>7. failure' = NoValue /\ diverged' = diverged
    BY <2>5
  <2>70. UNCHANGED <<spec, application, world, failure, diverged>>
    BY <1>2, <2>5
  <2>8. m = model /\ m.phase = "Start" /\ sources' = Reserve(sources, current)
    BY <2>5, <2>6
  <2>9. Real(m)'
    BY <1>1, <1>2, <1>4, <2>70, <2>8, BeginsAsPlanned
  <2>10. Real(n)'
    BY <2>6, <2>9
  <2>11. Faulty => ~diverged
    BY DEF HttpInv
  <2>12. Faulty' => ~diverged'
    BY <1>3, <2>7, <2>11
  <2> QED  BY <1>2, <2>7, <2>10, <2>12
<1>5. CASE current # NoAction
  <2>1. current \in Eligible(spec, m) /\ model = Apply(m, current) /\ m.phase # "Complete"
    BY <1>1, <1>5 DEF PlannedAt
  <2>2. StepOf(m, n, next)
    BY <1>1, <2>1, ActionsFollowThePlan DEF HttpInv
  <2>3. Resolves(sources, captured, current)
    BY <2>2, InputIsCaptured
  <2>4. Outcome(n)
    BY <2>2, <2>3, ActionsExecute
  <2>5. /\ failure' # NoValue => diverged' /\ case'.checkpoint = NoValue
        /\ Faulty' => ~diverged'
        /\ failure' = NoValue => Real(n)'
    BY <1>3, <2>4 DEF Outcome
  <2> QED  BY <1>2, <2>5
<1> QED  BY <1>4, <1>5

\* A case starts as the plan says.
LEMMA HttpInvInit == CaseInit => HttpInv
<1> SUFFICES ASSUME CaseInit PROVE HttpInv
  OBVIOUS
<1>1. PlanInv
  BY PlanInvInit DEF CaseInit
<1>2. current = NoAction /\ \E legacy \in BOOLEAN : model = Initial(legacy)
  BY DEF CaseInit, Init
<1>3. model.observation = "None" /\ model.phase = "Start"
  BY <1>2 DEF Initial
<1>4. ObservationAfter(NoAction) = "None"
  BY DEF ObservationAfter, NoAction
<1>5. KillInv
  BY <1>1, <1>2, <1>3, <1>4 DEF KillInv, Seen
<1>6. failure = NoValue /\ ~diverged
  BY DEF CaseInit
<1>7. Sound(spec, model) /\ PlannedAt(model) /\ Real(model)
  BY <1>1, <1>2, <1>3, StartIsReal DEF PlanInv, PlannedAt
<1> QED  BY <1>5, <1>6, <1>7 DEF HttpInv

\* Every step keeps the account of the case true.
LEMMA HttpInvStep == HttpInv /\ [CaseNext]_allVars => HttpInv'
<1> SUFFICES ASSUME HttpInv, [CaseNext]_allVars PROVE HttpInv'
  OBVIOUS
<1>1. KillInv'
  BY KillInvStep DEF HttpInv
<1>2. CASE UNCHANGED allVars
  <2>1. /\ failure' = failure /\ diverged' = diverged /\ case' = case
        /\ application' = application /\ spec' = spec /\ model' = model
        /\ current' = current /\ sources' = sources /\ captured' = captured
        /\ fixture' = fixture /\ app' = app /\ provider' = provider
        /\ webhook' = webhook /\ observed' = observed
    BY <1>2 DEF allVars, caseVars, vars, world
  <2>2. ASSUME NEW m, Real(m) PROVE Real(m)'
    BY <2>1, <2>2 DEF Real, Types, ProviderPart, ControlPart, HeldPart, CutPart, TracePart,
                      EventPart, Reported, StatusPart, ActiveIntent, Faulty
  <2>3. ASSUME NEW m, PlannedAt(m) PROVE PlannedAt(m)'
    BY <2>1, <2>3 DEF PlannedAt
  <2>4. failure' = NoValue => \E m : Sound(spec', m) /\ PlannedAt(m)' /\ Real(m)'
    BY <2>1, <2>2, <2>3 DEF HttpInv
  <2> QED  BY <1>1, <2>1, <2>4 DEF HttpInv, Faulty
<1>3. CASE CaseNext /\ ~UNCHANGED allVars
  <2>1. PICK next : /\ failure = NoValue /\ Compiles(next)
                    /\ IF Resolves(sources, captured, current) THEN Execute(next)
                       ELSE failure' = "MissingResolvedInput" /\ UNCHANGED <<world, diverged>>
                    /\ current' = next /\ sources' = Reserve(sources, current)
                    /\ UNCHANGED application
    BY <1>3 DEF CaseNext, Ended
  <2>2. PICK n : n = model
    OBVIOUS
  <2>3. /\ PlannedAt(n)' /\ Sound(spec, n)'
        /\ failure' # NoValue => diverged' /\ case'.checkpoint = NoValue
        /\ Faulty' => ~diverged'
        /\ failure' = NoValue => Real(n)'
    BY <2>1, <2>2, CaseAdvances
  <2> QED  BY <1>1, <2>3 DEF HttpInv
<1> QED  BY <1>2, <1>3

\* What the symbolic state says is part of what is real.
LEMMA RealIsDescribed ==
    ASSUME NEW m, Sound(spec, m), Real(m)
    PROVE  Describes(m)
<1>1. (m.healthy <=> app.up) /\ m.objects = Len(sources.objects)
  BY DEF Real, ControlPart, TracePart
<1>2. /\ m.phase \in {"CheckoutResponseHeld", "ConfirmResponseHeld"}
           <=> provider.pending # NoValue
      /\ m.phase = "CheckoutResponseHeld" => provider.pending.kind = "Checkout"
  BY DEF Real, HeldPart
<1>3. \A i \in DOMAIN sources.objects :
         captured[sources.objects[i]] \in Known(fixture.stripe)
  <2>1. DOMAIN sources.objects = 1 .. Len(sources.objects)
    BY LenProperties DEF Real, Types, Sources
  <2> DEFINE early == m.phase \in Early
  <2>2. Traces(sources, captured, Known(fixture.stripe), early)
    BY DEF Real, TracePart
  <2> HIDE DEF early
  <2> QED  BY <2>1, <2>2 DEF Traces
<1>4. /\ m.phase \in {"ConfirmResponseHeld", "Confirmed", "Events", "Quiesced", "Complete"}
           => StatusOf(fixture.stripe, ActiveIntent) = "Succeeded"
      /\ Faulty => m.objects = Len(fixture.stripe.intents)
  BY DEF Real, StatusPart
<1>5. m.phase = "Events" => m.pending = Len(webhook.queue)
  BY DEF Real, EventPart
<1>6. m.delivered > 0 => webhook.last # NoValue
  <2>1. m.phase # "Events" => m.delivered = 0
    BY DEF Sound, EventsBounded
  <2> QED  BY <2>1 DEF Real, EventPart
<1> QED  BY <1>1, <1>2, <1>3, <1>4, <1>5, <1>6 DEF Describes

-----------------------------------------------------------------------------
(* The properties of a case.                                                 *)

\* In every reachable state of a case HttpInv holds.
THEOREM CaseInvariant == CaseSpec => []HttpInv
<1> QED  BY HttpInvInit, HttpInvStep, PTL DEF CaseSpec

\* Every plan that compiles and passes preflight executes to its end unless a
\* call is not answered as planned, and no call to the faulty application is:
\* no adapter meets a state it refuses, no kill misses the exchange it is to cut.
THEOREM PlansAlwaysExecute == CaseSpec => []PlansExecute
<1>1. HttpInv => PlansExecute
  BY DEF HttpInv, PlansExecute
<1> QED  BY <1>1, CaseInvariant, PTL

\* What is known of a case that has come to its checkpoint.
LEMMA CompleteFacts ==
    ASSUME HttpInv, case.checkpoint # NoValue
    PROVE  \E m : /\ m.phase = "Complete" /\ Types /\ ProviderPart
                  /\ ControlPart(m) /\ HeldPart(m) /\ CutPart
                  /\ TracePart(m) /\ EventPart(m) /\ current = NoAction
<1>1. failure = NoValue
  BY DEF HttpInv
<1>2. PICK m : Sound(spec, m) /\ PlannedAt(m) /\ Real(m)
  BY <1>1 DEF HttpInv
<1>3. m.phase = "Complete"
  BY <1>2 DEF Real, ControlPart
<1>4. current = NoAction
  BY <1>2, <1>3 DEF PlannedAt
<1> QED  BY <1>2, <1>3, <1>4 DEF Real

\* Of every object of a complete case an event was generated and its success
\* reported; where stale snapshots are allowed also one of the time before it.
LEMMA ReportedFacts ==
    ASSUME NEW m, m.phase = "Complete", Types, ProviderPart, TracePart(m), EventPart(m),
           NEW id \in Known(fixture.stripe)
    PROVE  /\ Stripe!HasEvent(fixture.stripe, id, "Succeeded")
           /\ spec.allowStale => Stripe!HasEvent(fixture.stripe, id, "RequiresConfirmation")
           /\ \E e \in webhook.generated : e[2] = id
<1> DEFINE n == Len(sources.objects)
           early == m.phase \in Early
           count == sources.generated
<1>1. n \in Nat /\ count \in Nat
  BY LenProperties DEF Types, Sources
<1>2. Traces(sources, captured, Known(fixture.stripe), early) /\ m.objects = n
  BY DEF TracePart
<1>3. count >= n * EventsPerObject(spec)
  BY <1>2 DEF EventPart, TargetEvents
<1>4. \A k \in 0 .. count - 1 : Reported(k)
  BY DEF EventPart
<1>5. \A e \in webhook.generated :
         spec.allowStale => Stripe!HasEvent(fixture.stripe, e[2], "RequiresConfirmation")
  BY DEF EventPart
<1> HIDE DEF early
<1>6. PICK j \in 1 .. n : captured[sources.objects[j]] = id
  BY <1>2 DEF Traces
<1>7. \A k \in Nat : k % n = j - 1 =>
         (Reported(k) <=>
            /\ \E e \in webhook.generated : e[2] = id
            /\ ~spec.allowStale \/ k >= n => Stripe!HasEvent(fixture.stripe, id, "Succeeded"))
  <2> SUFFICES ASSUME NEW k \in Nat, k % n = j - 1
               PROVE  Reported(k) <=>
                        /\ \E e \in webhook.generated : e[2] = id
                        /\ ~spec.allowStale \/ k >= n =>
                              Stripe!HasEvent(fixture.stripe, id, "Succeeded")
    OBVIOUS
  <2>1. (k % n) + 1 = j
    <3>1. j \in Nat /\ \A x : x = j - 1 => x + 1 = j
      BY <1>6
    <3> QED  BY <3>1
  <2>2. captured[sources.objects[(k % Len(sources.objects)) + 1]] = id
    BY <1>6, <2>1
  <2> QED  BY <2>2 DEF Reported
<1> HIDE DEF n, count
<1>8. CASE spec.allowStale
  <2>1. count >= n + n
    BY <1>1, <1>3, <1>8 DEF EventsPerObject
  <2>2. /\ n + j - 1 \in Nat /\ n + j - 1 \in 0 .. count - 1
        /\ n + j - 1 >= n /\ (n + j - 1) % n = j - 1
    BY <1>1, <1>6, <2>1
  <2>3. Reported(n + j - 1)
    BY <1>4, <2>2
  <2>4. /\ \E e \in webhook.generated : e[2] = id
        /\ Stripe!HasEvent(fixture.stripe, id, "Succeeded")
    BY <1>7, <2>2, <2>3
  <2> QED  BY <1>5, <1>8, <2>4
<1>9. CASE ~spec.allowStale
  <2>1. count >= n
    BY <1>1, <1>3, <1>9 DEF EventsPerObject
  <2>2. j - 1 \in Nat /\ j - 1 \in 0 .. count - 1 /\ (j - 1) % n = j - 1
    BY <1>1, <1>6, <2>1
  <2>3. Reported(j - 1)
    BY <1>4, <2>2
  <2> QED  BY <1>7, <1>9, <2>2, <2>3
<1> QED  BY <1>8, <1>9

\* The checkpoint is taken of every object, each with its success reported in an
\* event and one generated for it, when no exchange of the case is left open.
THEOREM CheckpointIsAlwaysWhole == CaseSpec => []CheckpointIsWhole
<1>1. HttpInv => CheckpointIsWhole
  <2> SUFFICES ASSUME HttpInv, case.checkpoint # NoValue
               PROVE  /\ case.checkpoint = Known(fixture.stripe)
                      /\ fixture.gates = {} /\ fixture.request = NoValue
                      /\ fixture.response = NoValue
                      /\ \A i \in DOMAIN fixture.stripe.intents :
                            LET id == fixture.stripe.intents[i].id IN
                            /\ Stripe!HasEvent(fixture.stripe, id, "Succeeded")
                            /\ spec.allowStale /\ ~diverged /\ Faulty =>
                                  Stripe!HasEvent(fixture.stripe, id, "RequiresConfirmation")
                            /\ \E e \in webhook.generated : e[2] = id
    BY DEF CheckpointIsWhole
  <2>1. PICK m : /\ m.phase = "Complete" /\ Types /\ ProviderPart
                 /\ ControlPart(m) /\ HeldPart(m) /\ CutPart
                 /\ TracePart(m) /\ EventPart(m) /\ current = NoAction
    BY CompleteFacts
  <2>2. case.checkpoint = Known(fixture.stripe)
    BY <2>1 DEF ControlPart
  <2>3. fixture.gates = {}
    BY <2>1 DEF HeldPart
  <2>4. Cut(current) = NoValue
    BY <2>1 DEF Cut, NoAction
  <2>5. fixture.request = NoValue /\ fixture.response = NoValue
    <3>1. NoValue \notin {"WebhookRequestForwarded", "WebhookResponseObserved"}
      BY NoValueAssumption DEF CutPoints
    <3> QED  BY <2>1, <2>4, <3>1 DEF CutPart
  <2>6. ASSUME NEW i \in DOMAIN fixture.stripe.intents, NEW id,
               id = fixture.stripe.intents[i].id
        PROVE  /\ Stripe!HasEvent(fixture.stripe, id, "Succeeded")
               /\ spec.allowStale => Stripe!HasEvent(fixture.stripe, id, "RequiresConfirmation")
               /\ \E e \in webhook.generated : e[2] = id
    <3>1. id \in Known(fixture.stripe)
      BY <2>6 DEF Known
    <3> QED  BY <2>1, <3>1, ReportedFacts
  <2> QED  BY <2>2, <2>3, <2>5, <2>6
<1> QED  BY <1>1, CaseInvariant, PTL

\* After every action the symbolic state the plan was compiled with is a true
\* account of the process, the held calls, the provider's objects, the payment
\* under way and the queue of events.
THEOREM SymbolicStateIsAlwaysReal == CaseSpec => SymbolicStateIsReal
<1>1. \A m : Sound(spec, m) /\ Real(m) => Describes(m)
  BY RealIsDescribed
<1>2. (\A m : Sound(spec, m) /\ Real(m) => Describes(m))'
  BY <1>1, PTL
<1>3. HttpInv /\ [CaseNext]_allVars =>
        [\A m \in {model} : failure' = NoValue /\ ~diverged' => Describes(m)']_allVars
  <2> SUFFICES ASSUME HttpInv, CaseNext, ~UNCHANGED allVars, failure' = NoValue,
                      NEW n, n = model
               PROVE  Describes(n)'
    OBVIOUS
  <2>1. PICK next : /\ failure = NoValue /\ Compiles(next)
                    /\ IF Resolves(sources, captured, current) THEN Execute(next)
                       ELSE failure' = "MissingResolvedInput" /\ UNCHANGED <<world, diverged>>
                    /\ current' = next /\ sources' = Reserve(sources, current)
                    /\ UNCHANGED application
    BY DEF CaseNext, Ended
  <2>2. Sound(spec, n)' /\ Real(n)'
    BY <2>1, CaseAdvances
  <2> QED  BY <1>2, <2>2
<1> QED  BY <1>3, CaseInvariant, PTL DEF CaseSpec, SymbolicStateIsReal
===============================================================================
