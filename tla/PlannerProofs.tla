---------------------------- MODULE PlannerProofs ------------------------------
(***************************************************************************)
(* Proofs about Planner, for every set of valid plan specifications.       *)
(***************************************************************************)
EXTENDS Planner, TLAPS

Fields == {"phase", "attempts", "ambiguous", "generated", "pending",
           "delivered", "duplicates", "delayUsed", "reorderUsed", "objects",
           "healthy", "kills", "legacy", "observation"}

Observations == {"None", "InitialCheckoutResponse", "CheckoutResponse",
                 "CheckoutRequestHeld", "WebhookDelivery"}

\* The record has its fields, each of its type.
IsModel(m) ==
    /\ DOMAIN m = Fields
    /\ m.phase \in Phases /\ m.attempts \in 0 .. 2
    /\ m.generated \in Nat /\ m.pending \in Nat /\ m.delivered \in Nat
    /\ m.duplicates \in Nat /\ m.objects \in Nat /\ m.kills \in 0 .. 1
    /\ m.ambiguous \in BOOLEAN /\ m.delayUsed \in BOOLEAN
    /\ m.reorderUsed \in BOOLEAN /\ m.healthy \in BOOLEAN
    /\ m.legacy \in BOOLEAN
    /\ m.observation \in Observations

BeforePayment(m) == m.phase \in {"Start", "CheckoutRetryable"}

\* How many objects the checkout can have made: two a call, before and after
\* the one kill, and one at least once a call may have or has succeeded.
ObjectsBounded(m) ==
    /\ m.phase = "Start" => m.objects = 0
    /\ m.phase = "CheckoutRetryable" =>
           /\ m.objects <= 2 * m.attempts + (IF m.kills = 0 THEN 2 ELSE 7)
           /\ m.ambiguous => m.objects >= 1
    /\ ~BeforePayment(m) =>
           m.objects \in 1 .. (IF m.kills = 0 THEN 7 ELSE 12)

\* The events generated never exceed those the objects call for, and the
\* pending and the delivered ones are among them.
EventsBounded(s, m) ==
    /\ m.phase # "Events" => /\ m.generated = 0
                             /\ m.pending = 0
                             /\ m.delivered = 0
    /\ m.phase = "Events" => m.generated \in 1 .. TargetEvents(s, m.objects)
    /\ m.pending + m.delivered <= m.generated

Sound(s, m) ==
    /\ IsModel(m)
    /\ m.kills <= s.maxKills
    /\ m.duplicates <= s.duplicateMax
    /\ ObjectsBounded(m)
    /\ EventsBounded(s, m)

-----------------------------------------------------------------------------
(* Outcome scripts and events.                                             *)

\* A planned script ends in an outcome, makes at most two objects, and makes
\* one at least when its end is an answer or its answer is ambiguous.
LEMMA ScriptFacts ==
    ASSUME NEW s, ValidPlanSpec(s), NEW F, F \subseteq s.outcomes,
           NEW script \in BusinessScripts(s, F)
    PROVE  /\ TerminalOutcome(script) \in Outcomes
           /\ CommittedCount(script) \in 0 .. 2
           /\ TerminalOutcome(script) \in {"Normal", "CommitThenDelay"} =>
                  CommittedCount(script) >= 1
           /\ HasAmbiguousCommit(script) => CommittedCount(script) >= 1
           /\ HasAmbiguousCommit(script) \in BOOLEAN
           /\ F \subseteq {"Normal"} =>
                  /\ TerminalOutcome(script) = "Normal"
                  /\ CommittedCount(script) = 1
<1>1. CASE \E o \in F \ {"CommitThenClose"} : script = Single(o)
  <2>1. PICK o \in F \ {"CommitThenClose"} : script = Single(o)
    BY <1>1
  <2>2. o \in Outcomes /\ script.first = o /\ script.retry = NoRetry
    BY <2>1 DEF Single, ValidPlanSpec
  <2>3. Calls(script) = {o}
    BY <2>2, NoRetryAssumption DEF Calls
  <2>4. QED
    BY <2>2, <2>3, NoRetryAssumption
    DEF TerminalOutcome, CommittedCount, HasAmbiguousCommit, Commits,
        AmbiguousResponse, Outcomes
<1>2. CASE script \in [first: F \cap {"CommitThenClose"}, retry: s.outcomes]
  <2>1. /\ script.first = "CommitThenClose"
        /\ "CommitThenClose" \in F
        /\ script.retry \in Outcomes /\ script.retry # NoRetry
    BY <1>2, NoRetryAssumption DEF ValidPlanSpec
  <2>2. ~ F \subseteq {"Normal"}
    BY <2>1
  <2>3. QED
    BY <2>1, <2>2
    DEF TerminalOutcome, CommittedCount, HasAmbiguousCommit, Commits, Calls,
        Outcomes
<1>3. QED
  BY <1>1, <1>2 DEF BusinessScripts

\* Every object calls for one event or for two.
LEMMA TargetFacts ==
    ASSUME NEW s, NEW i \in Nat, NEW j \in Nat, i <= j
    PROVE  /\ TargetEvents(s, i) \in Nat
           /\ TargetEvents(s, j) \in Nat
           /\ TargetEvents(s, i) <= TargetEvents(s, j)
           /\ i >= 1 => TargetEvents(s, i) >= 1
           /\ TargetEvents(s, i) <= 2 * i
<1>1. CASE s.allowStale
  BY <1>1 DEF TargetEvents, EventsPerObject
<1>2. CASE ~ s.allowStale
  BY <1>2 DEF TargetEvents, EventsPerObject
<1>3. QED
  BY <1>1, <1>2

\* Entering a phase forgets the fields of the last one and keeps the rest.
LEMMA EnterFacts ==
    ASSUME NEW m, IsModel(m), NEW phase \in Phases,
           NEW n, n = Enter(m, phase)
    PROVE  /\ IsModel(n)
           /\ n.phase = phase /\ n.attempts = 0 /\ ~ n.ambiguous
           /\ n.generated = 0 /\ n.pending = 0 /\ n.delivered = 0
           /\ n.duplicates = 0
           /\ n.objects = m.objects /\ n.kills = m.kills
           /\ (n.healthy <=> m.healthy)
<1>1. DOMAIN n = Fields
  BY DEF IsModel, Enter
<1>2. /\ n.phase = phase /\ n.attempts = 0 /\ ~ n.ambiguous
      /\ n.generated = 0 /\ n.pending = 0 /\ n.delivered = 0
      /\ n.duplicates = 0
  BY DEF IsModel, Enter, Fields
<1>3. /\ n.objects = m.objects /\ n.kills = m.kills
      /\ n.observation = m.observation
      /\ (n.healthy <=> m.healthy)
  BY DEF IsModel, Enter, Fields
<1>4. /\ n.ambiguous \in BOOLEAN /\ n.delayUsed \in BOOLEAN
      /\ n.reorderUsed \in BOOLEAN /\ n.healthy \in BOOLEAN
      /\ n.legacy \in BOOLEAN
  BY DEF IsModel, Enter, Fields
<1>5. QED
  BY <1>1, <1>2, <1>3, <1>4 DEF IsModel

\* Observing an action changes nothing but the observation.
LEMMA ObserveFacts ==
    ASSUME NEW m, IsModel(m), NEW a,
           NEW n, n = Observe(m, a)
    PROVE  /\ IsModel(n)
           /\ n.phase = m.phase /\ n.attempts = m.attempts
           /\ (n.ambiguous <=> m.ambiguous) /\ n.generated = m.generated
           /\ n.pending = m.pending /\ n.delivered = m.delivered
           /\ n.duplicates = m.duplicates /\ n.objects = m.objects
           /\ (n.delayUsed <=> m.delayUsed) /\ (n.reorderUsed <=> m.reorderUsed)
           /\ n.kills = m.kills /\ (n.healthy <=> m.healthy)
<1>1. ObservationAfter(a) \in Observations
  BY DEF ObservationAfter, Observations
<1>2. CASE n = m
  BY <1>2
<1>3. CASE n = [m EXCEPT !.observation = ObservationAfter(a)]
  <2>1. IsModel(n)
    BY <1>1, <1>3 DEF IsModel, Fields
  <2>2. QED
    BY <1>3, <2>1 DEF IsModel, Fields
<1>4. QED
  BY <1>2, <1>3 DEF Observe

-----------------------------------------------------------------------------
(* One step.  A choice keeps the state sound and comes at most one action  *)
(* closer to the end.                                                      *)

Steps(s, m, n) ==
    /\ Sound(s, n)
    /\ Distance(s, m) - 1 <= Distance(s, n)

LEMMA DistanceType ==
    ASSUME NEW s, NEW m, Sound(s, m)
    PROVE  HealthyDistance(s, m) \in Int /\ Distance(s, m) \in Int
<1>1. /\ TargetEvents(s, m.objects) \in Int
      /\ TargetEvents(s, m.objects + 1) \in Int
  BY TargetFacts DEF Sound, IsModel
<1>2. HealthyDistance(s, m) \in Int
  BY <1>1 DEF HealthyDistance, Sound, IsModel, Phases
<1>3. QED
  BY <1>2 DEF Distance, Sound, IsModel

\* Observing an action keeps the state sound, eligible for the same actions of
\* its phase, and as far from the end.
LEMMA ObservedState ==
    ASSUME NEW s, NEW m, Sound(s, m), NEW a,
           NEW n, n = Observe(m, a)
    PROVE  /\ Sound(s, n)
           /\ HealthyDistance(s, n) = HealthyDistance(s, m)
           /\ (n.healthy <=> m.healthy) /\ n.kills = m.kills
           /\ PhaseActions(s, n) = PhaseActions(s, m)
<1>1. /\ IsModel(n) /\ n.phase = m.phase /\ n.attempts = m.attempts
      /\ (n.ambiguous <=> m.ambiguous) /\ n.generated = m.generated
      /\ n.pending = m.pending /\ n.delivered = m.delivered
      /\ n.duplicates = m.duplicates /\ n.objects = m.objects
      /\ (n.delayUsed <=> m.delayUsed) /\ (n.reorderUsed <=> m.reorderUsed)
      /\ n.kills = m.kills /\ (n.healthy <=> m.healthy)
  BY ObserveFacts DEF Sound
<1>2. Sound(s, n)
  BY <1>1 DEF Sound, ObjectsBounded, EventsBounded, BeforePayment
<1>3. HealthyDistance(s, n) = HealthyDistance(s, m)
  BY <1>1 DEF HealthyDistance
<1>4. PhaseActions(s, n) = PhaseActions(s, m)
  BY <1>1 DEF PhaseActions, EventActions
<1>5. QED
  BY <1>1, <1>2, <1>3, <1>4

\* A killed process is only ever restarted, and that is one action less to go.
LEMMA RestartStep ==
    ASSUME NEW s, NEW m, Sound(s, m), ~ m.healthy,
           NEW n, n = [m EXCEPT !.healthy = TRUE]
    PROVE  Steps(s, m, n) /\ Distance(s, n) = Distance(s, m) - 1
<1>1. /\ IsModel(n) /\ n.phase = m.phase /\ n.attempts = m.attempts
      /\ (n.ambiguous <=> m.ambiguous) /\ n.generated = m.generated
      /\ n.pending = m.pending /\ n.delivered = m.delivered
      /\ n.duplicates = m.duplicates /\ n.objects = m.objects
      /\ n.kills = m.kills /\ n.healthy
  BY DEF Sound, IsModel, Fields
<1>2. Sound(s, n)
  BY <1>1 DEF Sound, ObjectsBounded, EventsBounded, BeforePayment
<1>3. HealthyDistance(s, n) = HealthyDistance(s, m)
  BY <1>1 DEF HealthyDistance
<1>4. HealthyDistance(s, m) \in Int
  BY DistanceType
<1>5. QED
  BY <1>1, <1>2, <1>3, <1>4 DEF Steps, Distance

\* A kill leads away from the end: the restart, and perhaps the whole payment,
\* is still to come.
LEMMA KillStep ==
    ASSUME NEW s, ValidPlanSpec(s), NEW m, Sound(s, m), m.healthy,
           m.kills < s.maxKills, NEW c, NEW n, n = Kill(m, c)
    PROVE  Steps(s, m, n)
<1> DEFINE back == c = "ClientResponseObserved"
                   /\ m.phase = "PaymentIntentKnown"
<1>1. /\ m.kills = 0 /\ s.maxKills = 1
      /\ m.objects \in Nat /\ m.duplicates \in Nat /\ IsModel(m)
  BY DEF Sound, IsModel, ValidPlanSpec
<1>2. CASE ~ back
  <2>1. n = [m EXCEPT !.healthy = FALSE, !.kills = @ + 1]
    BY <1>2 DEF Kill
  <2>2. /\ IsModel(n) /\ ~ n.healthy /\ n.kills = 1
        /\ n.phase = m.phase /\ n.attempts = m.attempts
        /\ (n.ambiguous <=> m.ambiguous) /\ n.generated = m.generated
        /\ n.pending = m.pending /\ n.delivered = m.delivered
        /\ n.duplicates = m.duplicates /\ n.objects = m.objects
    BY <1>1, <2>1 DEF IsModel, Fields
  <2>3. Sound(s, n)
    BY <1>1, <2>2
    DEF Sound, IsModel, ObjectsBounded, EventsBounded, BeforePayment
  <2>4. HealthyDistance(s, n) = HealthyDistance(s, m)
    BY <2>2 DEF HealthyDistance
  <2>5. HealthyDistance(s, m) \in Int
    BY DistanceType
  <2>6. QED
    BY <2>2, <2>3, <2>4, <2>5 DEF Steps, Distance
<1>3. CASE back
  <2> DEFINE cut == Enter(m, "CheckoutRetryable")
  <2>1. n = [cut EXCEPT !.healthy = FALSE, !.kills = @ + 1]
    BY <1>3 DEF Kill
  <2>2. /\ IsModel(cut) /\ cut.phase = "CheckoutRetryable"
        /\ cut.attempts = 0 /\ ~ cut.ambiguous /\ cut.generated = 0
        /\ cut.pending = 0 /\ cut.delivered = 0 /\ cut.duplicates = 0
        /\ cut.objects = m.objects /\ cut.kills = 0
    <3>1. "CheckoutRetryable" \in Phases
      BY DEF Phases
    <3>2. cut = Enter(m, "CheckoutRetryable")
      OBVIOUS
    <3> HIDE DEF cut
    <3>3. QED
      BY ONLY <1>1, <3>1, <3>2, EnterFacts
  <2> HIDE DEF cut
  <2>3. /\ IsModel(n) /\ ~ n.healthy /\ n.kills = 1
        /\ n.phase = "CheckoutRetryable" /\ n.attempts = 0
        /\ ~ n.ambiguous /\ n.generated = 0 /\ n.pending = 0
        /\ n.delivered = 0 /\ n.duplicates = 0 /\ n.objects = m.objects
    BY <2>1, <2>2 DEF IsModel, Fields
  <2>4. Sound(s, n)
    BY <1>1, <1>3, <2>3
    DEF Sound, ObjectsBounded, EventsBounded, BeforePayment, ValidPlanSpec
  <2>5. /\ HealthyDistance(s, n) = 2 * TargetEvents(s, m.objects + 1) + 4
        /\ HealthyDistance(s, m) = 2 * TargetEvents(s, m.objects) + 3
    BY <1>3, <2>3 DEF HealthyDistance
  <2>6. /\ TargetEvents(s, m.objects) <= TargetEvents(s, m.objects + 1)
        /\ TargetEvents(s, m.objects) \in Nat
        /\ TargetEvents(s, m.objects + 1) \in Nat
    BY <1>1, TargetFacts
  <2>7. QED
    BY <2>3, <2>4, <2>5, <2>6 DEF Steps, Distance
<1>4. QED
  BY <1>2, <1>3
-----------------------------------------------------------------------------
(* The actions of each phase.                                              *)

\* What every entry of a phase leaves: no events yet, and the process as it
\* was.
Entered(m, n, phase, objects) ==
    /\ IsModel(n) /\ n.phase = phase /\ n.objects = objects
    /\ n.generated = 0 /\ n.pending = 0 /\ n.delivered = 0
    /\ n.duplicates = 0 /\ n.kills = m.kills /\ (n.healthy <=> m.healthy)

LEMMA EnteredPhase ==
    ASSUME NEW m, IsModel(m), NEW phase \in Phases,
           NEW n, n = Enter(m, phase)
    PROVE  Entered(m, n, phase, m.objects)
BY EnterFacts DEF Entered

\* A call of the checkout enters the phase of its last outcome and counts the
\* objects of both.
LEMMA CreatedFacts ==
    ASSUME NEW m, IsModel(m), NEW script, NEW k \in 0 .. 3,
           CommittedCount(script) \in 0 .. 2,
           HasAmbiguousCommit(script) \in BOOLEAN,
           k = 3 => TerminalOutcome(script) = "Normal",
           NEW n, n = Created(CreatePhase(m, script, k), script)
    PROVE  /\ TerminalOutcome(script) = "Normal" =>
                  Entered(m, n, "PaymentIntentKnown",
                          m.objects + CommittedCount(script))
           /\ TerminalOutcome(script) = "CommitThenDelay" =>
                  Entered(m, n, "CheckoutResponseHeld",
                          m.objects + CommittedCount(script))
           /\ TerminalOutcome(script) \notin {"Normal", "CommitThenDelay"} =>
                  /\ Entered(m, n, "CheckoutRetryable",
                             m.objects + CommittedCount(script))
                  /\ n.attempts = k
                  /\ n.ambiguous <=> HasAmbiguousCommit(script)
<1> DEFINE c == CommittedCount(script)
           p == CreatePhase(m, script, k)
<1>1. \A phase \in Phases : \A e : e = Enter(m, phase) =>
          Entered(m, e, phase, m.objects)
  BY EnteredPhase
<1>2. {"PaymentIntentKnown", "CheckoutResponseHeld", "CheckoutRetryable"}
          \subseteq Phases
  BY DEF Phases
<1>3. ASSUME NEW e, NEW phase, Entered(m, e, phase, m.objects),
             n = [e EXCEPT !.objects = @ + c]
      PROVE  /\ Entered(m, n, phase, m.objects + c)
             /\ n.attempts = e.attempts
             /\ n.ambiguous <=> e.ambiguous
  <2>1. c \in Nat /\ m.objects \in Nat
    BY DEF IsModel
  <2> HIDE DEF c
  <2>2. QED
    BY <1>3, <2>1 DEF Entered, IsModel, Fields
<1>4. n = [p EXCEPT !.objects = @ + c]
  BY DEF Created
<1>5. CASE TerminalOutcome(script) = "Normal"
  <2>1. p = Enter(m, "PaymentIntentKnown")
    BY <1>5 DEF CreatePhase
  <2>2. Entered(m, p, "PaymentIntentKnown", m.objects)
    BY <1>1, <1>2, <2>1
  <2>3. QED
    BY <1>3, <1>4, <1>5, <2>2
<1>6. CASE TerminalOutcome(script) = "CommitThenDelay"
  <2>1. p = Enter(m, "CheckoutResponseHeld")
    BY <1>6 DEF CreatePhase
  <2>2. Entered(m, p, "CheckoutResponseHeld", m.objects)
    BY <1>1, <1>2, <2>1
  <2>3. QED
    BY <1>3, <1>4, <1>6, <2>2
<1>7. CASE TerminalOutcome(script) \notin {"Normal", "CommitThenDelay"}
  <2> DEFINE e == Enter(m, "CheckoutRetryable")
  <2>1. p = [e EXCEPT !.attempts = k,
                      !.ambiguous = HasAmbiguousCommit(script)]
    BY <1>7 DEF CreatePhase
  <2>2. Entered(m, e, "CheckoutRetryable", m.objects)
    BY <1>1, <1>2
  <2>3. k \in 0 .. 2
    BY <1>7
  <2> HIDE DEF e, p
  <2>4. /\ Entered(m, p, "CheckoutRetryable", m.objects)
        /\ p.attempts = k
        /\ p.ambiguous <=> HasAmbiguousCommit(script)
    BY <2>1, <2>2, <2>3 DEF Entered, IsModel, Fields
  <2>5. QED
    BY <1>3, <1>4, <1>7, <2>4
<1>8. QED
  BY <1>5, <1>6, <1>7

\* A call of the checkout, the first or a retry, keeps the objects bounded and
\* comes one action closer at most: exactly one when it is planned to succeed
\* at once and nothing could have been retrieved instead.
LEMMA CheckoutStep ==
    ASSUME NEW s, ValidPlanSpec(s), NEW m, Sound(s, m), m.healthy,
           NEW F, F \subseteq s.outcomes, NEW script \in BusinessScripts(s, F),
           NEW k,
           \/ m.phase = "Start" /\ k = 0
           \/ /\ m.phase = "CheckoutRetryable" /\ k = m.attempts + 1
              /\ m.attempts < 2 \/ F \subseteq {"Normal"},
           NEW n, n = Created(CreatePhase(m, script, k), script)
    PROVE  Steps(s, m, n)
<1> DEFINE c == CommittedCount(script)
           o == m.objects
<1>1. /\ IsModel(m) /\ o \in Nat /\ m.attempts \in 0 .. 2 /\ m.kills \in 0 .. 1
      /\ m.kills <= s.maxKills /\ s.duplicateMax \in Nat
  BY DEF Sound, IsModel, ValidPlanSpec
<1>2. /\ TerminalOutcome(script) \in Outcomes
      /\ c \in 0 .. 2
      /\ TerminalOutcome(script) \in {"Normal", "CommitThenDelay"} => c >= 1
      /\ HasAmbiguousCommit(script) => c >= 1
      /\ HasAmbiguousCommit(script) \in BOOLEAN
      /\ F \subseteq {"Normal"} =>
             TerminalOutcome(script) = "Normal" /\ c = 1
  BY ScriptFacts
<1>3. k \in 0 .. 3 /\ (k = 3 => F \subseteq {"Normal"})
  BY <1>1
<1>4. k = 3 => TerminalOutcome(script) = "Normal"
  BY <1>2, <1>3
<1>5. o + c <= (IF m.kills = 0 THEN 7 ELSE 12)
      /\ (k <= 2 => o + c <= 2 * k + (IF m.kills = 0 THEN 2 ELSE 7))
  <2>1. CASE m.phase = "Start"
    BY <1>1, <1>2, <2>1 DEF Sound, ObjectsBounded
  <2>2. CASE m.phase = "CheckoutRetryable" /\ m.attempts < 2
    BY <1>1, <1>2, <2>2 DEF Sound, ObjectsBounded
  <2>3. CASE m.phase = "CheckoutRetryable" /\ F \subseteq {"Normal"}
    BY <1>1, <1>2, <2>3 DEF Sound, ObjectsBounded
  <2>4. QED
    BY <2>1, <2>2, <2>3
<1>6. /\ TargetEvents(s, o) \in Nat /\ TargetEvents(s, o + 1) \in Nat
      /\ TargetEvents(s, o + c) \in Nat /\ TargetEvents(s, o + c + 1) \in Nat
      /\ TargetEvents(s, o) <= TargetEvents(s, o + c)
      /\ TargetEvents(s, o + 1) <= TargetEvents(s, o + c + 1)
      /\ c >= 1 => TargetEvents(s, o + 1) <= TargetEvents(s, o + c)
  BY <1>1, <1>2, TargetFacts
<1>7. \/ HealthyDistance(s, m) = 2 * TargetEvents(s, o + 1) + 4
      \/ HealthyDistance(s, m) = 2 * TargetEvents(s, o) + 4 /\ m.ambiguous
  BY DEF HealthyDistance
<1>8. HealthyDistance(s, m) <= 2 * TargetEvents(s, o + 1) + 4
  BY <1>1, <1>6, <1>7, TargetFacts
<1>9. Distance(s, m) = HealthyDistance(s, m) /\ HealthyDistance(s, m) \in Int
  BY DistanceType DEF Distance
<1> HIDE DEF c, o
<1>10. ASSUME NEW phase, Entered(m, n, phase, o + c),
              phase \in {"PaymentIntentKnown", "CheckoutResponseHeld"}, c >= 1
       PROVE  Steps(s, m, n)
  <2>1. Sound(s, n)
    BY <1>1, <1>2, <1>5, <1>10
    DEF Sound, Entered, ObjectsBounded, EventsBounded, BeforePayment
  <2>2. /\ Distance(s, n) = HealthyDistance(s, n)
        /\ HealthyDistance(s, n) \in {2 * TargetEvents(s, o + c) + 3,
                                      2 * TargetEvents(s, o + c) + 4}
    BY <1>6, <1>10 DEF Entered, Distance, HealthyDistance
  <2>3. QED
    BY <1>6, <1>8, <1>9, <1>10, <2>1, <2>2 DEF Steps
<1>11. ASSUME Entered(m, n, "CheckoutRetryable", o + c), n.attempts = k,
              k \in 0 .. 2, n.ambiguous <=> HasAmbiguousCommit(script)
       PROVE  Steps(s, m, n)
  <2>1. Sound(s, n)
    BY <1>1, <1>2, <1>5, <1>11
    DEF Sound, Entered, ObjectsBounded, EventsBounded, BeforePayment
  <2>2. CASE HasAmbiguousCommit(script)
    <3>1. Distance(s, n) = 2 * TargetEvents(s, o + c) + 4
      BY <1>6, <1>11, <2>2 DEF Entered, Distance, HealthyDistance
    <3>2. QED
      BY <1>2, <1>6, <1>8, <1>9, <2>1, <2>2, <3>1 DEF Steps, c
  <2>3. CASE ~ HasAmbiguousCommit(script)
    <3>1. Distance(s, n) = 2 * TargetEvents(s, o + c + 1) + 4
      BY <1>6, <1>11, <2>3 DEF Entered, Distance, HealthyDistance
    <3>2. QED
      BY <1>6, <1>8, <1>9, <2>1, <3>1 DEF Steps
  <2>4. QED
    BY <2>2, <2>3
<1>12. QED
  BY <1>1, <1>2, <1>3, <1>4, <1>10, <1>11, CreatedFacts DEF c, o

\* A call that confirms the payment comes one action closer at most.
LEMMA ConfirmStep ==
    ASSUME NEW s, ValidPlanSpec(s), NEW m, Sound(s, m), m.healthy,
           m.phase \in {"PaymentIntentKnown", "ConfirmRetryable"},
           NEW o \in Outcomes, NEW k, k \in 0 .. 2 \/ (k = 3 /\ o = "Normal"),
           NEW n, n = ConfirmPhase(m, Single(o), k)
    PROVE  Steps(s, m, n)
<1> DEFINE T == TargetEvents(s, m.objects)
<1>1. /\ IsModel(m) /\ m.objects \in Nat /\ 0 <= s.duplicateMax
      /\ {"Confirmed", "ConfirmResponseHeld", "ConfirmRetryable"}
             \subseteq Phases
  BY DEF Sound, IsModel, Phases, ValidPlanSpec
<1>2. TerminalOutcome(Single(o)) = o
  BY DEF TerminalOutcome, Single
<1>3. HasAmbiguousCommit(Single(o)) \in BOOLEAN
  BY DEF HasAmbiguousCommit
<1>4. \A phase \in Phases : \A e : e = Enter(m, phase) =>
          Entered(m, e, phase, m.objects)
  BY <1>1, EnteredPhase
<1>5. T \in Nat /\ Distance(s, m) = 2 * T + 3
  BY <1>1, TargetFacts DEF Distance, HealthyDistance
<1> HIDE DEF T
<1>6. \E phase \in {"Confirmed", "ConfirmResponseHeld", "ConfirmRetryable"} :
          Entered(m, n, phase, m.objects)
  <2>1. CASE o = "Normal"
    BY <1>1, <1>2, <1>4, <2>1 DEF ConfirmPhase
  <2>2. CASE o = "CommitThenDelay"
    BY <1>1, <1>2, <1>4, <2>2 DEF ConfirmPhase
  <2>3. CASE o \notin {"Normal", "CommitThenDelay"}
    <3> DEFINE e == Enter(m, "ConfirmRetryable")
    <3>1. n = [e EXCEPT !.attempts = k,
                        !.ambiguous = HasAmbiguousCommit(Single(o))]
      BY <1>2, <2>3 DEF ConfirmPhase
    <3>2. Entered(m, e, "ConfirmRetryable", m.objects)
      BY <1>1, <1>4
    <3>3. k \in 0 .. 2
      BY <2>3
    <3> HIDE DEF e
    <3>4. Entered(m, n, "ConfirmRetryable", m.objects)
      BY <1>3, <3>1, <3>2, <3>3 DEF Entered, IsModel, Fields
    <3>5. QED
      BY <3>4
  <2>4. QED
    BY <2>1, <2>2, <2>3
<1>7. PICK phase \in {"Confirmed", "ConfirmResponseHeld",
                      "ConfirmRetryable"} :
          Entered(m, n, phase, m.objects)
  BY <1>6
<1>8. Sound(s, n)
  BY <1>1, <1>7
  DEF Sound, Entered, ObjectsBounded, EventsBounded, BeforePayment
<1>9. Distance(s, n) \in {2 * T + 2, 2 * T + 3}
  BY <1>5, <1>7 DEF Entered, Distance, HealthyDistance, T
<1>10. QED
  BY <1>5, <1>8, <1>9 DEF Steps

\* Releasing a held response or retrieving the object of an ambiguous one is
\* the shortest way on.
LEMMA KnownStep ==
    ASSUME NEW s, ValidPlanSpec(s), NEW m, Sound(s, m), m.healthy,
           \/ m.phase \in {"CheckoutResponseHeld", "ConfirmResponseHeld"}
           \/ /\ m.phase \in {"CheckoutRetryable", "ConfirmRetryable"}
              /\ m.ambiguous,
           NEW n, n = KnownOrConfirmed(m)
    PROVE  Steps(s, m, n) /\ Distance(s, n) = Distance(s, m) - 1
<1> DEFINE T == TargetEvents(s, m.objects)
<1>1. /\ IsModel(m) /\ m.objects \in Nat /\ m.objects >= 1
      /\ m.attempts \in 0 .. 2 /\ m.kills \in 0 .. 1 /\ 0 <= s.duplicateMax
      /\ m.objects <= (IF m.kills = 0 THEN 7 ELSE 12)
  BY DEF Sound, IsModel, ObjectsBounded, BeforePayment, ValidPlanSpec
<1>2. \A phase \in Phases : \A e : e = Enter(m, phase) =>
          Entered(m, e, phase, m.objects)
  BY <1>1, EnteredPhase
<1>3. T \in Nat
  BY <1>1, TargetFacts
<1> HIDE DEF T
<1>4. CASE m.phase \in {"CheckoutResponseHeld", "CheckoutRetryable"}
  <2>1. Entered(m, n, "PaymentIntentKnown", m.objects)
    BY <1>2, <1>4 DEF KnownOrConfirmed, Phases
  <2>2. Sound(s, n)
    BY <1>1, <2>1
    DEF Sound, Entered, ObjectsBounded, EventsBounded, BeforePayment
  <2>3. Distance(s, n) = 2 * T + 3 /\ Distance(s, m) = 2 * T + 4
    BY <1>3, <1>4, <2>1 DEF Entered, Distance, HealthyDistance, T
  <2>4. QED
    BY <1>3, <2>2, <2>3 DEF Steps
<1>5. CASE m.phase \in {"ConfirmResponseHeld", "ConfirmRetryable"}
  <2>1. Entered(m, n, "Confirmed", m.objects)
    BY <1>2, <1>5 DEF KnownOrConfirmed, Phases
  <2>2. Sound(s, n)
    BY <1>1, <2>1
    DEF Sound, Entered, ObjectsBounded, EventsBounded, BeforePayment
  <2>3. Distance(s, n) = 2 * T + 2 /\ Distance(s, m) = 2 * T + 3
    BY <1>3, <1>5, <2>1 DEF Entered, Distance, HealthyDistance, T
  <2>4. QED
    BY <1>3, <2>2, <2>3 DEF Steps
<1>6. QED
  BY <1>4, <1>5

\* An event is generated only while an object still calls for one.
LEMMA GenerateStep ==
    ASSUME NEW s, ValidPlanSpec(s), NEW m, Sound(s, m), m.healthy,
           \/ m.phase = "Confirmed"
           \/ /\ m.phase = "Events"
              /\ m.generated < TargetEvents(s, m.objects),
           NEW n, n = Generate(m)
    PROVE  Steps(s, m, n) /\ Distance(s, n) = Distance(s, m) - 1
<1> DEFINE T == TargetEvents(s, m.objects)
<1>1. /\ IsModel(m) /\ m.objects \in Nat /\ m.objects >= 1
      /\ m.generated \in Nat /\ m.pending \in Nat /\ m.delivered \in Nat
      /\ m.pending + m.delivered <= m.generated
      /\ (m.phase = "Confirmed" => m.generated = 0 /\ m.pending = 0)
      /\ (m.phase = "Events" => m.generated >= 1)
      /\ m.kills \in 0 .. 1
      /\ m.objects <= (IF m.kills = 0 THEN 7 ELSE 12)
  BY DEF Sound, IsModel, ObjectsBounded, EventsBounded, BeforePayment
<1>2. T \in Nat /\ T >= 1
  BY <1>1, TargetFacts
<1>3. /\ IsModel(n) /\ n.phase = "Events" /\ n.objects = m.objects
      /\ n.generated = m.generated + 1 /\ n.pending = m.pending + 1
      /\ n.delivered = m.delivered /\ n.duplicates = m.duplicates
      /\ n.kills = m.kills /\ (n.healthy <=> m.healthy)
  <2>0. n = [m EXCEPT !.phase = "Events", !.generated = @ + 1,
                      !.pending = @ + 1]
    BY DEF Generate
  <2>1. IsModel(n) /\ n.phase = "Events"
    BY ONLY <1>1, <2>0 DEF IsModel, Fields, Phases
  <2>2. /\ n.generated = m.generated + 1 /\ n.pending = m.pending + 1
        /\ n.delivered = m.delivered
    BY <1>1 DEF Generate, IsModel, Fields
  <2>3. /\ n.objects = m.objects /\ n.kills = m.kills
        /\ n.duplicates = m.duplicates
    BY <1>1 DEF Generate, IsModel, Fields
  <2>4. n.healthy <=> m.healthy
    BY <1>1 DEF Generate, IsModel, Fields
  <2>5. QED
    BY <2>1, <2>2, <2>3, <2>4
<1> HIDE DEF T
<1>4. m.generated < T
  BY <1>1, <1>2 DEF T
<1>5. Sound(s, n)
  BY <1>1, <1>2, <1>3, <1>4
  DEF Sound, ObjectsBounded, EventsBounded, BeforePayment, T
<1>6. Distance(s, n) = 2 * (T - (m.generated + 1)) + (m.pending + 1) + 2
  BY <1>1, <1>2, <1>3 DEF Distance, HealthyDistance, T
<1>7. Distance(s, m) = 2 * (T - m.generated) + m.pending + 2
  BY <1>1, <1>2 DEF Distance, HealthyDistance, T
<1>8. QED
  BY <1>1, <1>2, <1>5, <1>6, <1>7 DEF Steps

\* A delivery or a drop settles one pending event; a duplicate, a delay and a
\* reordering lead nowhere and are within their own limits.
LEMMA EventStep ==
    ASSUME NEW s, ValidPlanSpec(s), NEW m, Sound(s, m), m.healthy,
           m.phase = "Events",
           NEW n,
           \/ m.pending > 0
              /\ n = [m EXCEPT !.pending = @ - 1, !.delivered = @ + 1]
           \/ m.pending > 0 /\ n = [m EXCEPT !.pending = @ - 1]
           \/ m.duplicates < s.duplicateMax
              /\ n = [m EXCEPT !.duplicates = @ + 1]
           \/ n = [m EXCEPT !.delayUsed = TRUE]
           \/ n = [m EXCEPT !.reorderUsed = TRUE]
    PROVE  /\ Steps(s, m, n)
           /\ m.pending > 0
              /\ n = [m EXCEPT !.pending = @ - 1, !.delivered = @ + 1] =>
                  Distance(s, n) = Distance(s, m) - 1
<1> DEFINE T == TargetEvents(s, m.objects)
<1>1. /\ IsModel(m) /\ m.objects \in Nat
      /\ m.generated \in Nat /\ m.pending \in Nat /\ m.delivered \in Nat
      /\ m.duplicates \in Nat /\ s.duplicateMax \in Nat
  BY DEF Sound, IsModel, ValidPlanSpec
<1>2. T \in Nat
  BY <1>1, TargetFacts
<1> DEFINE Same(x) ==
               /\ IsModel(x) /\ x.phase = "Events" /\ x.objects = m.objects
               /\ x.generated = m.generated
               /\ x.kills = m.kills /\ (x.healthy <=> m.healthy)
<1>3. ASSUME m.pending > 0,
             n = [m EXCEPT !.pending = @ - 1, !.delivered = @ + 1]
      PROVE  /\ Same(n) /\ n.pending = m.pending - 1
             /\ n.delivered = m.delivered + 1
             /\ n.duplicates = m.duplicates
  <2>1. IsModel(n)
    BY ONLY <1>1, <1>3 DEF IsModel, Fields
  <2>2. /\ n.phase = "Events" /\ n.objects = m.objects
        /\ n.generated = m.generated /\ n.kills = m.kills
    BY <1>1, <1>3 DEF IsModel, Fields
  <2>3. n.healthy <=> m.healthy
    BY ONLY <1>1, <1>3 DEF IsModel, Fields
  <2>4. /\ n.pending = m.pending - 1 /\ n.delivered = m.delivered + 1
        /\ n.duplicates = m.duplicates
    BY ONLY <1>1, <1>3 DEF IsModel, Fields
  <2>5. QED
    BY <2>1, <2>2, <2>3, <2>4
<1>4. ASSUME m.pending > 0, n = [m EXCEPT !.pending = @ - 1]
      PROVE  /\ Same(n) /\ n.pending = m.pending - 1
             /\ n.delivered = m.delivered /\ n.duplicates = m.duplicates
  <2>1. IsModel(n)
    BY ONLY <1>1, <1>4 DEF IsModel, Fields
  <2>2. /\ n.phase = "Events" /\ n.objects = m.objects
        /\ n.generated = m.generated /\ n.kills = m.kills
    BY <1>1, <1>4 DEF IsModel, Fields
  <2>3. n.healthy <=> m.healthy
    BY ONLY <1>1, <1>4 DEF IsModel, Fields
  <2>4. /\ n.pending = m.pending - 1 /\ n.delivered = m.delivered
        /\ n.duplicates = m.duplicates
    BY ONLY <1>1, <1>4 DEF IsModel, Fields
  <2>5. QED
    BY <2>1, <2>2, <2>3, <2>4
<1>5. ASSUME m.duplicates < s.duplicateMax,
             n = [m EXCEPT !.duplicates = @ + 1]
      PROVE  /\ Same(n) /\ n.pending = m.pending
             /\ n.delivered = m.delivered
             /\ n.duplicates = m.duplicates + 1
  <2>1. IsModel(n)
    BY ONLY <1>1, <1>5 DEF IsModel, Fields
  <2>2. /\ n.phase = "Events" /\ n.objects = m.objects
        /\ n.generated = m.generated /\ n.kills = m.kills
    BY <1>1, <1>5 DEF IsModel, Fields
  <2>3. n.healthy <=> m.healthy
    BY ONLY <1>1, <1>5 DEF IsModel, Fields
  <2>4. /\ n.pending = m.pending /\ n.delivered = m.delivered
        /\ n.duplicates = m.duplicates + 1
    BY ONLY <1>1, <1>5 DEF IsModel, Fields
  <2>5. QED
    BY <2>1, <2>2, <2>3, <2>4
<1>6. ASSUME n = [m EXCEPT !.delayUsed = TRUE]
             \/ n = [m EXCEPT !.reorderUsed = TRUE]
      PROVE  /\ Same(n) /\ n.pending = m.pending
             /\ n.delivered = m.delivered /\ n.duplicates = m.duplicates
  <2>1. IsModel(n)
    BY ONLY <1>1, <1>6 DEF IsModel, Fields
  <2>2. /\ n.phase = "Events" /\ n.objects = m.objects
        /\ n.generated = m.generated /\ n.kills = m.kills
    BY <1>1, <1>6 DEF IsModel, Fields
  <2>3. n.healthy <=> m.healthy
    BY ONLY <1>1, <1>6 DEF IsModel, Fields
  <2>4. /\ n.pending = m.pending /\ n.delivered = m.delivered
        /\ n.duplicates = m.duplicates
    BY ONLY <1>1, <1>6 DEF IsModel, Fields
  <2>5. QED
    BY <2>1, <2>2, <2>3, <2>4
<1>7. /\ Same(n)
      /\ \/ n.pending = m.pending - 1 /\ n.delivered = m.delivered + 1
         \/ n.pending = m.pending - 1 /\ n.delivered = m.delivered
         \/ n.pending = m.pending /\ n.delivered = m.delivered
      /\ n.duplicates <= s.duplicateMax
  BY <1>1, <1>3, <1>4, <1>5, <1>6 DEF Sound
<1>8. Sound(s, n)
  BY <1>1, <1>7
  DEF Sound, ObjectsBounded, EventsBounded, BeforePayment
<1>9. /\ Distance(s, m) = 2 * (T - m.generated) + m.pending + 2
      /\ Distance(s, n) = 2 * (T - m.generated) + n.pending + 2
  BY <1>1, <1>2, <1>7 DEF Distance, HealthyDistance, IsModel
<1> HIDE DEF T
<1>10. Steps(s, m, n)
  BY <1>1, <1>2, <1>7, <1>8, <1>9 DEF Steps
<1>11. QED
  BY <1>1, <1>2, <1>3, <1>9, <1>10

\* The last two actions of every case.
LEMMA FinalStep ==
    ASSUME NEW s, ValidPlanSpec(s), NEW m, Sound(s, m), m.healthy,
           NEW n,
           \/ /\ m.phase = "Events" /\ m.pending = 0
              /\ ~ (m.generated < TargetEvents(s, m.objects))
              /\ n = Enter(m, "Quiesced")
           \/ m.phase = "Quiesced" /\ n = Enter(m, "Complete")
    PROVE  Steps(s, m, n) /\ Distance(s, n) = Distance(s, m) - 1
<1>1. /\ IsModel(m) /\ m.objects \in Nat /\ m.generated \in Nat
      /\ m.pending \in Nat /\ 0 <= s.duplicateMax
      /\ {"Quiesced", "Complete"} \subseteq Phases
  BY DEF Sound, IsModel, ValidPlanSpec, Phases
<1>2. TargetEvents(s, m.objects) \in Nat
  BY <1>1, TargetFacts
<1>3. \E phase \in {"Quiesced", "Complete"} : Entered(m, n, phase, m.objects)
  BY <1>1, EnteredPhase
<1>4. Sound(s, n)
  BY <1>1, <1>3
  DEF Sound, Entered, ObjectsBounded, EventsBounded, BeforePayment
<1>5. CASE m.phase = "Events"
  <2>1. Entered(m, n, "Quiesced", m.objects)
    BY <1>1, <1>5, EnteredPhase
  <2>2. m.generated = TargetEvents(s, m.objects) /\ m.pending = 0
    BY <1>1, <1>2, <1>5 DEF Sound, EventsBounded
  <2>3. Distance(s, m) = 2 /\ Distance(s, n) = 1
    BY <1>1, <1>5, <2>1, <2>2 DEF Entered, Distance, HealthyDistance
  <2>4. QED
    BY <1>4, <2>3 DEF Steps
<1>6. CASE m.phase = "Quiesced"
  <2>1. Entered(m, n, "Complete", m.objects)
    BY <1>1, <1>6, EnteredPhase
  <2>2. Distance(s, m) = 1 /\ Distance(s, n) = 0
    BY <1>6, <2>1 DEF Entered, Distance, HealthyDistance
  <2>3. QED
    BY <1>4, <2>2 DEF Steps
<1>7. QED
  BY <1>5, <1>6
-----------------------------------------------------------------------------
(* Every eligible action, and the one that leads on.                       *)

LEMMA PhaseStep ==
    ASSUME NEW s, ValidPlanSpec(s), NEW m, Sound(s, m), m.healthy,
           NEW a \in PhaseActions(s, m)
    PROVE  Steps(s, m, ApplyHealthy(m, a))
<1> DEFINE n == ApplyHealthy(m, a)
<1>1. /\ m.phase \in Phases /\ m.attempts \in 0 .. 2
      /\ s.outcomes \subseteq Outcomes
  BY DEF Sound, IsModel, ValidPlanSpec
<1>2. CASE m.phase = "Start"
  <2>1. a.kind = "DriveCheckout" /\ a.script \in BusinessScripts(s, s.outcomes)
    BY <1>2 DEF PhaseActions, WithScript
  <2>2. n = Created(CreatePhase(m, a.script, 0), a.script)
    BY <2>1 DEF ApplyHealthy
  <2> HIDE DEF n
  <2>3. QED
    BY <1>2, <2>1, <2>2, CheckoutStep DEF n
<1>3. CASE m.phase = "CheckoutRetryable"
  <2> DEFINE F == RetryOutcomes(s, m.attempts)
  <2>1. \/ a.kind = "RetryBusinessRequest" /\ a.script \in BusinessScripts(s, F)
        \/ a.kind = "RetrievePaymentIntent" /\ m.ambiguous
    BY <1>3 DEF PhaseActions, WithScript, Kinds
  <2>2. F \subseteq s.outcomes /\ (m.attempts < 2 \/ F \subseteq {"Normal"})
    BY DEF RetryOutcomes
  <2> HIDE DEF F
  <2>3. CASE a.kind = "RetryBusinessRequest"
             /\ a.script \in BusinessScripts(s, F)
    <3>1. n = Created(CreatePhase(m, a.script, m.attempts + 1), a.script)
      BY <2>3 DEF ApplyHealthy
    <3> HIDE DEF n
    <3>2. QED
      BY <1>3, <2>2, <2>3, <3>1, CheckoutStep DEF n
  <2>4. CASE a.kind = "RetrievePaymentIntent" /\ m.ambiguous
    <3>1. n = KnownOrConfirmed(m)
      BY <2>4 DEF ApplyHealthy
    <3> HIDE DEF n
    <3>2. QED
      BY <1>3, <2>4, <3>1, KnownStep DEF n
  <2>5. QED
    BY <2>1, <2>3, <2>4
<1>4. CASE m.phase \in {"CheckoutResponseHeld", "ConfirmResponseHeld"}
  <2>1. a.kind = "ReleaseProviderGate"
    BY <1>4 DEF PhaseActions, Kinds
  <2>2. n = KnownOrConfirmed(m)
    BY <2>1 DEF ApplyHealthy
  <2> HIDE DEF n
  <2>3. QED
    BY <1>4, <2>2, KnownStep DEF n
<1>5. CASE m.phase = "PaymentIntentKnown"
  <2>1. a.kind = "ConfirmPaymentIntent"
        /\ a.script \in {Single(o) : o \in s.outcomes}
    BY <1>5 DEF PhaseActions, WithScript
  <2>2. PICK o \in s.outcomes : a.script = Single(o)
    BY <2>1
  <2>3. n = ConfirmPhase(m, Single(o), 0)
    BY <2>1, <2>2 DEF ApplyHealthy
  <2> HIDE DEF n
  <2>4. QED
    BY <1>1, <1>5, <2>2, <2>3, ConfirmStep DEF n
<1>6. CASE m.phase = "ConfirmRetryable"
  <2>1. \/ a.kind = "RetryProviderRequest"
           /\ a.script \in {Single(o) : o \in RetryOutcomes(s, m.attempts)}
        \/ a.kind = "RetrievePaymentIntent" /\ m.ambiguous
    BY <1>6 DEF PhaseActions, WithScript, Kinds
  <2>2. CASE a.kind = "RetryProviderRequest"
             /\ a.script \in {Single(o) : o \in RetryOutcomes(s, m.attempts)}
    <3>1. PICK o \in RetryOutcomes(s, m.attempts) : a.script = Single(o)
      BY <2>2
    <3>2. o \in Outcomes /\ (m.attempts < 2 \/ o = "Normal")
      BY <1>1 DEF RetryOutcomes
    <3>3. n = ConfirmPhase(m, Single(o), m.attempts + 1)
      BY <2>2, <3>1 DEF ApplyHealthy
    <3>4. m.attempts + 1 \in 0 .. 2 \/ (m.attempts + 1 = 3 /\ o = "Normal")
      BY <1>1, <3>2
    <3> HIDE DEF n
    <3>5. QED
      BY <1>6, <3>2, <3>3, <3>4, ConfirmStep DEF n
  <2>3. CASE a.kind = "RetrievePaymentIntent" /\ m.ambiguous
    <3>1. n = KnownOrConfirmed(m)
      BY <2>3 DEF ApplyHealthy
    <3> HIDE DEF n
    <3>2. QED
      BY <1>6, <2>3, <3>1, KnownStep DEF n
  <2>4. QED
    BY <2>1, <2>2, <2>3
<1>7. CASE m.phase = "Confirmed"
  <2>1. a.kind = "GenerateProviderEvent"
    BY <1>7 DEF PhaseActions, Kinds
  <2>2. n = Generate(m)
    BY <2>1 DEF ApplyHealthy
  <2> HIDE DEF n
  <2>3. QED
    BY <1>7, <2>2, GenerateStep DEF n
<1>8. CASE m.phase = "Events"
  <2>1. a \in EventActions(s, m)
    BY <1>8 DEF PhaseActions
  <2>2. CASE m.generated < TargetEvents(s, m.objects)
    <3>1. a.kind = "GenerateProviderEvent"
      BY <2>1, <2>2 DEF EventActions, Kinds
    <3>2. n = Generate(m)
      BY <3>1 DEF ApplyHealthy
    <3> HIDE DEF n
    <3>3. QED
      BY <1>8, <2>2, <3>2, GenerateStep DEF n
  <2>3. CASE ~ (m.generated < TargetEvents(s, m.objects))
    <3>1. \/ a.kind = "DeliverWebhook" /\ m.pending > 0
          \/ a.kind = "DropWebhook" /\ m.pending > 0
          \/ a.kind = "DuplicateWebhook" /\ m.duplicates < s.duplicateMax
          \/ a.kind \in {"DelayWebhook", "ReorderWebhooks"}
          \/ a.kind = "WaitForQuiescence" /\ m.pending = 0
      BY <2>1, <2>3 DEF EventActions, Kinds
    <3>2. CASE a.kind = "WaitForQuiescence" /\ m.pending = 0
      <4>1. n = Enter(m, "Quiesced")
        BY <3>2 DEF ApplyHealthy
      <4> HIDE DEF n
      <4>2. QED
        BY <1>8, <2>3, <3>2, <4>1, FinalStep DEF n
    <3>3. CASE ~ (a.kind = "WaitForQuiescence")
      <4>1. \/ m.pending > 0
               /\ n = [m EXCEPT !.pending = @ - 1, !.delivered = @ + 1]
            \/ m.pending > 0 /\ n = [m EXCEPT !.pending = @ - 1]
            \/ m.duplicates < s.duplicateMax
               /\ n = [m EXCEPT !.duplicates = @ + 1]
            \/ n = [m EXCEPT !.delayUsed = TRUE]
            \/ n = [m EXCEPT !.reorderUsed = TRUE]
        BY <3>1, <3>3 DEF ApplyHealthy
      <4> HIDE DEF n
      <4>2. QED
        BY ONLY ValidPlanSpec(s), Sound(s, m), m.healthy, <1>8, <4>1,
                EventStep DEF n
    <3>4. QED
      BY <3>1, <3>2, <3>3
  <2>4. QED
    BY <2>2, <2>3
<1>9. CASE m.phase = "Quiesced"
  <2>1. a.kind = "CheckCheckpoint"
    BY <1>9 DEF PhaseActions, Kinds
  <2>2. n = Enter(m, "Complete")
    BY <2>1 DEF ApplyHealthy
  <2> HIDE DEF n
  <2>3. QED
    BY <1>9, <2>2, FinalStep DEF n
<1>10. CASE m.phase = "Complete"
  BY <1>10 DEF PhaseActions
<1>11. QED
  BY <1>1, <1>2, <1>3, <1>4, <1>5, <1>6, <1>7, <1>8, <1>9, <1>10 DEF Phases

\* No action of a phase is a kill or a restart.
LEMMA PhaseKinds ==
    ASSUME NEW s, NEW m, Sound(s, m), NEW a \in PhaseActions(s, m)
    PROVE  a.kind \notin {"KillApplication", "RestartAndAwaitHealth"}
<1>1. m.phase \in Phases
  BY DEF Sound, IsModel
<1>2. QED
  BY <1>1 DEF PhaseActions, WithScript, Kinds, EventActions, Phases

\* Whatever is eligible keeps the state sound and comes at most one action
\* closer.
LEMMA EligibleStep ==
    ASSUME NEW s, ValidPlanSpec(s), NEW m, Sound(s, m),
           NEW a \in Eligible(s, m)
    PROVE  Steps(s, m, Apply(m, a))
<1> DEFINE x == Observe(m, a)
<1>1. /\ Sound(s, x) /\ HealthyDistance(s, x) = HealthyDistance(s, m)
      /\ (x.healthy <=> m.healthy) /\ x.kills = m.kills
      /\ PhaseActions(s, x) = PhaseActions(s, m)
  BY ObservedState
<1>2. Distance(s, x) = Distance(s, m)
  BY <1>1 DEF Distance
<1>3. CASE ~ m.healthy
  <2>1. a.kind = "RestartAndAwaitHealth"
    BY <1>3 DEF Eligible, Kinds
  <2>2. Apply(m, a) = [x EXCEPT !.healthy = TRUE]
    BY <2>1 DEF Apply
  <2> HIDE DEF x
  <2>3. Steps(s, x, Apply(m, a))
    BY <1>1, <1>3, <2>2, RestartStep
  <2>4. QED
    BY <1>2, <2>3 DEF Steps
<1>4. CASE m.healthy /\ a \in PhaseActions(s, m)
  <2>1. a.kind \notin {"KillApplication", "RestartAndAwaitHealth"}
    BY <1>4, PhaseKinds
  <2>2. Apply(m, a) = ApplyHealthy(x, a)
    BY <2>1 DEF Apply
  <2> HIDE DEF x
  <2>3. Steps(s, x, Apply(m, a))
    BY <1>1, <1>4, <2>2, PhaseStep
  <2>4. QED
    BY <1>2, <2>3 DEF Steps
<1>5. CASE m.healthy /\ a \in KillActions(s, m)
  <2>1. a.kind = "KillApplication" /\ m.kills < s.maxKills
    BY <1>5 DEF KillActions
  <2>2. Apply(m, a) = Kill(x, a.cutPoint)
    BY <2>1 DEF Apply
  <2> HIDE DEF x
  <2>3. Steps(s, x, Apply(m, a))
    BY <1>1, <1>5, <2>1, <2>2, KillStep
  <2>4. QED
    BY <1>2, <2>3 DEF Steps
<1>6. QED
  BY <1>3, <1>4, <1>5 DEF Eligible

\* The action that leads on from each phase of a healthy process.
Leads(s, m, a) ==
    \/ /\ m.phase = "Start"
       /\ a = [kind |-> "DriveCheckout", script |-> Single("Normal")]
    \/ /\ m.phase = "CheckoutRetryable" /\ ~ m.ambiguous
       /\ a = [kind |-> "RetryBusinessRequest", script |-> Single("Normal")]
    \/ /\ m.phase = "CheckoutRetryable" /\ m.ambiguous
       /\ a = [kind |-> "RetrievePaymentIntent"]
    \/ /\ m.phase \in {"CheckoutResponseHeld", "ConfirmResponseHeld"}
       /\ a = [kind |-> "ReleaseProviderGate"]
    \/ /\ m.phase = "PaymentIntentKnown"
       /\ a = [kind |-> "ConfirmPaymentIntent", script |-> Single("Normal")]
    \/ /\ m.phase = "ConfirmRetryable"
       /\ a = [kind |-> "RetryProviderRequest", script |-> Single("Normal")]
    \/ /\ m.phase = "Confirmed"
       /\ a = [kind |-> "GenerateProviderEvent"]
    \/ /\ m.phase = "Events"
       /\ m.generated < TargetEvents(s, m.objects)
       /\ a = [kind |-> "GenerateProviderEvent"]
    \/ /\ m.phase = "Events" /\ m.pending > 0
       /\ ~ (m.generated < TargetEvents(s, m.objects))
       /\ a = [kind |-> "DeliverWebhook"]
    \/ /\ m.phase = "Events" /\ m.pending = 0
       /\ ~ (m.generated < TargetEvents(s, m.objects))
       /\ a = [kind |-> "WaitForQuiescence"]
    \/ m.phase = "Quiesced" /\ a = [kind |-> "CheckCheckpoint"]

LEMMA SomeActionLeads ==
    ASSUME NEW s, ValidPlanSpec(s), NEW m, Sound(s, m), m.phase # "Complete"
    PROVE  \E a \in PhaseActions(s, m) : Leads(s, m, a)
<1>1. /\ m.phase \in Phases /\ "Normal" \in s.outcomes
      /\ m.pending \in Nat /\ m.generated \in Nat
      /\ (m.phase = "Events" => m.generated > 0)
  BY DEF Sound, IsModel, ValidPlanSpec, EventsBounded
<1>2. /\ Single("Normal") \in BusinessScripts(s, s.outcomes)
      /\ Single("Normal") \in BusinessScripts(s, RetryOutcomes(s, m.attempts))
      /\ "Normal" \in RetryOutcomes(s, m.attempts)
  BY <1>1 DEF BusinessScripts, RetryOutcomes
<1>3. CASE m.phase = "Start"
  BY <1>2, <1>3 DEF PhaseActions, WithScript, Leads
<1>4. CASE m.phase = "CheckoutRetryable"
  BY <1>2, <1>4 DEF PhaseActions, WithScript, Kinds, Leads
<1>5. CASE m.phase \in {"CheckoutResponseHeld", "ConfirmResponseHeld",
                        "Confirmed", "Quiesced"}
  BY <1>5 DEF PhaseActions, Kinds, Leads
<1>6. CASE m.phase = "PaymentIntentKnown"
  BY <1>1, <1>6 DEF PhaseActions, WithScript, Leads
<1>7. CASE m.phase = "ConfirmRetryable"
  BY <1>2, <1>7 DEF PhaseActions, WithScript, Leads
<1>8. CASE m.phase = "Events"
  <2>1. PhaseActions(s, m) = EventActions(s, m)
    BY <1>8 DEF PhaseActions
  <2>2. CASE m.generated < TargetEvents(s, m.objects)
    BY <1>8, <2>1, <2>2 DEF EventActions, Kinds, Leads
  <2>3. CASE ~ (m.generated < TargetEvents(s, m.objects)) /\ m.pending > 0
    BY <1>8, <2>1, <2>3 DEF EventActions, Kinds, Leads
  <2>4. CASE ~ (m.generated < TargetEvents(s, m.objects)) /\ m.pending = 0
    BY <1>1, <1>8, <2>1, <2>4 DEF EventActions, Kinds, Leads
  <2>5. QED
    BY <1>1, <2>2, <2>3, <2>4
<1>9. QED
  BY <1>1, <1>3, <1>4, <1>5, <1>6, <1>7, <1>8 DEF Phases

\* The leading action comes exactly one action closer.
LEMMA LeadingStep ==
    ASSUME NEW s, ValidPlanSpec(s), NEW m, Sound(s, m), m.healthy,
           NEW a, Leads(s, m, a), NEW n, n = ApplyHealthy(m, a)
    PROVE  Distance(s, n) = Distance(s, m) - 1
<1> DEFINE S == Single("Normal")
           T == TargetEvents(s, m.objects)
           T1 == TargetEvents(s, m.objects + 1)
<1>1. /\ IsModel(m) /\ m.objects \in Nat /\ m.attempts \in 0 .. 2
  BY DEF Sound, IsModel
<1>2. T \in Nat /\ T1 \in Nat
  BY <1>1, TargetFacts
<1>3. TerminalOutcome(S) = "Normal" /\ CommittedCount(S) = 1
      /\ HasAmbiguousCommit(S) \in BOOLEAN
  BY NoRetryAssumption
  DEF TerminalOutcome, CommittedCount, Single, Commits, HasAmbiguousCommit
<1>4. ASSUME NEW k \in 0 .. 3, n = Created(CreatePhase(m, S, k), S),
             m.phase = "Start"
             \/ (m.phase = "CheckoutRetryable" /\ ~ m.ambiguous)
      PROVE  Distance(s, n) = Distance(s, m) - 1
  <2> HIDE DEF S
  <2>1. Entered(m, n, "PaymentIntentKnown", m.objects + 1)
    BY <1>1, <1>3, <1>4, CreatedFacts
  <2>2. Distance(s, n) = 2 * T1 + 3 /\ Distance(s, m) = 2 * T1 + 4
    BY <1>2, <1>4, <2>1 DEF Entered, Distance, HealthyDistance
  <2>3. QED
    BY <1>2, <2>2
<1>5. ASSUME NEW k, n = ConfirmPhase(m, S, k),
             m.phase \in {"PaymentIntentKnown", "ConfirmRetryable"}
      PROVE  Distance(s, n) = Distance(s, m) - 1
  <2>1. n = Enter(m, "Confirmed")
    BY <1>3, <1>5 DEF ConfirmPhase
  <2>2. Entered(m, n, "Confirmed", m.objects)
    BY <1>1, <2>1, EnteredPhase DEF Phases
  <2>3. Distance(s, n) = 2 * T + 2 /\ Distance(s, m) = 2 * T + 3
    BY <1>2, <1>5, <2>2 DEF Entered, Distance, HealthyDistance
  <2>4. QED
    BY <1>2, <2>3
<1> HIDE DEF S, T, T1
<1>6. CASE m.phase \in {"Start", "CheckoutRetryable"} /\ a.kind \in
               {"DriveCheckout", "RetryBusinessRequest"}
  <2>1. \E k \in 0 .. 3 : n = Created(CreatePhase(m, S, k), S)
    <3>1. CASE m.phase = "Start"
      <4>1. n = Created(CreatePhase(m, S, 0), S)
        BY <1>6, <3>1 DEF Leads, ApplyHealthy, S
      <4>2. QED
        BY <4>1
    <3>2. CASE m.phase = "CheckoutRetryable"
      <4>1. n = Created(CreatePhase(m, S, m.attempts + 1), S)
        BY <1>6, <3>2 DEF Leads, ApplyHealthy, S
      <4>2. QED
        BY <1>1, <4>1
    <3>3. QED
      BY <1>6, <3>1, <3>2
  <2>2. m.phase = "Start" \/ (m.phase = "CheckoutRetryable" /\ ~ m.ambiguous)
    BY <1>6 DEF Leads
  <2>3. QED
    BY <1>4, <2>1, <2>2
<1>7. CASE m.phase \in {"PaymentIntentKnown", "ConfirmRetryable"}
  <2>1. \E k : n = ConfirmPhase(m, S, k)
    BY <1>7 DEF Leads, ApplyHealthy, S
  <2>2. QED
    BY <1>5, <1>7, <2>1
<1>8. CASE a.kind \in {"RetrievePaymentIntent", "ReleaseProviderGate"}
  <2>1. n = KnownOrConfirmed(m)
    BY <1>8 DEF ApplyHealthy
  <2>2. \/ m.phase \in {"CheckoutResponseHeld", "ConfirmResponseHeld"}
        \/ m.phase = "CheckoutRetryable" /\ m.ambiguous
    BY <1>8 DEF Leads
  <2>3. QED
    BY <2>1, <2>2, KnownStep
<1>9. CASE a.kind = "GenerateProviderEvent"
  <2>1. n = Generate(m)
    BY <1>9 DEF ApplyHealthy
  <2>2. \/ m.phase = "Confirmed"
        \/ m.phase = "Events" /\ m.generated < TargetEvents(s, m.objects)
    BY <1>9 DEF Leads
  <2>3. QED
    BY <2>1, <2>2, GenerateStep
<1>10. CASE a.kind = "DeliverWebhook"
  <2>1. n = [m EXCEPT !.pending = @ - 1, !.delivered = @ + 1]
    BY <1>10 DEF ApplyHealthy
  <2>2. m.phase = "Events" /\ m.pending > 0
    BY <1>10 DEF Leads
  <2>3. QED
    BY <2>1, <2>2, EventStep
<1>11. CASE a.kind \in {"WaitForQuiescence", "CheckCheckpoint"}
  <2>1. \/ /\ m.phase = "Events" /\ m.pending = 0
           /\ ~ (m.generated < TargetEvents(s, m.objects))
           /\ n = Enter(m, "Quiesced")
        \/ m.phase = "Quiesced" /\ n = Enter(m, "Complete")
    BY <1>11 DEF Leads, ApplyHealthy
  <2>2. QED
    BY <2>1, FinalStep
<1>12. QED
  BY <1>6, <1>7, <1>8, <1>9, <1>10, <1>11 DEF Leads

\* From every sound state that is not the end an eligible action leads on.
LEMMA SomethingLeadsOn ==
    ASSUME NEW s, ValidPlanSpec(s), NEW m, Sound(s, m), m.phase # "Complete"
    PROVE  \E a \in Eligible(s, m) :
               Distance(s, Apply(m, a)) = Distance(s, m) - 1
<1>1. CASE ~ m.healthy
  <2> DEFINE a == [kind |-> "RestartAndAwaitHealth"]
             x == Observe(m, a)
  <2>1. a \in Eligible(s, m)
    BY <1>1 DEF Eligible, Kinds
  <2>2. Apply(m, a) = [x EXCEPT !.healthy = TRUE]
    BY DEF Apply
  <2>3. /\ Sound(s, x) /\ HealthyDistance(s, x) = HealthyDistance(s, m)
        /\ (x.healthy <=> m.healthy)
    BY ObservedState
  <2> HIDE DEF a, x
  <2>4. Distance(s, Apply(m, a)) = Distance(s, x) - 1
    BY <1>1, <2>2, <2>3, RestartStep
  <2>5. Distance(s, x) = Distance(s, m)
    BY <2>3 DEF Distance
  <2>6. QED
    BY <2>1, <2>4, <2>5
<1>2. CASE m.healthy
  <2>1. PICK a \in PhaseActions(s, m) : Leads(s, m, a)
    BY SomeActionLeads
  <2> DEFINE x == Observe(m, a)
  <2>2. /\ Sound(s, x) /\ HealthyDistance(s, x) = HealthyDistance(s, m)
        /\ (x.healthy <=> m.healthy)
    BY ObservedState
  <2>3. /\ x.phase = m.phase /\ (x.ambiguous <=> m.ambiguous)
        /\ x.generated = m.generated /\ x.pending = m.pending
        /\ x.objects = m.objects
    BY ObserveFacts DEF Sound
  <2>4. a.kind \notin {"KillApplication", "RestartAndAwaitHealth"}
    BY PhaseKinds
  <2>5. Apply(m, a) = ApplyHealthy(x, a)
    BY <2>4 DEF Apply
  <2> HIDE DEF x
  <2>6. Leads(s, x, a)
    BY <2>1, <2>3 DEF Leads
  <2>7. Distance(s, Apply(m, a)) = Distance(s, x) - 1
    BY <1>2, <2>2, <2>5, <2>6, LeadingStep
  <2>8. Distance(s, x) = Distance(s, m)
    BY <2>2 DEF Distance
  <2>9. QED
    BY <1>2, <2>1, <2>7, <2>8 DEF Eligible
<1>3. QED
  BY <1>1, <1>2
-----------------------------------------------------------------------------
(* The theorems.                                                           *)

\* The inductive invariant: the symbolic state is sound and the budget that is
\* left is enough.
PlanInv ==
    /\ spec \in Specs
    /\ used \in Nat
    /\ Sound(spec, model)
    /\ BudgetSuffices

LEMMA InitialIsSound ==
    ASSUME NEW s, ValidPlanSpec(s), NEW legacy \in BOOLEAN
    PROVE  Sound(s, Initial(legacy))
<1>1. IsModel(Initial(legacy))
  BY DEF Initial, IsModel, Fields, Phases, Observations
<1>2. QED
  BY <1>1 DEF Initial, Sound, ObjectsBounded, EventsBounded, BeforePayment,
              ValidPlanSpec

LEMMA PlanInvInit == Init => PlanInv
<1> SUFFICES ASSUME Init PROVE PlanInv
  OBVIOUS
<1>1. spec \in Specs /\ ValidPlanSpec(spec) /\ used = 0
  BY SpecsAssumption DEF Init
<1>2. Sound(spec, model)
  BY <1>1, InitialIsSound DEF Init
<1>3. Distance(spec, model) \in Int /\ spec.maxActions \in Int
  BY <1>1, <1>2, DistanceType DEF ValidPlanSpec
<1>4. BudgetSuffices
  BY <1>1, <1>3 DEF Init, Compilable, BudgetSuffices
<1>5. QED
  BY <1>1, <1>2, <1>4 DEF PlanInv

LEMMA PlanInvStep == PlanInv /\ [Next]_vars => PlanInv'
<1> SUFFICES ASSUME PlanInv, [Next]_vars PROVE PlanInv'
  OBVIOUS
<1>1. CASE UNCHANGED vars
  BY <1>1 DEF vars, PlanInv, BudgetSuffices
<1>2. ASSUME NEW kind, Choose(kind)
      PROVE  PlanInv'
  <2>1. PICK a \in Eligible(spec, model) :
            /\ Fits(spec, Apply(model, a), used)
            /\ model' = Apply(model, a)
            /\ used' = used + 1
            /\ spec' = spec
    BY <1>2 DEF Choose
  <2>2. ValidPlanSpec(spec) /\ Sound(spec, model) /\ used \in Nat
    BY SpecsAssumption DEF PlanInv
  <2>3. Sound(spec, model')
    BY <2>1, <2>2, EligibleStep DEF Steps
  <2>4. Distance(spec, model') \in Int /\ spec.maxActions \in Int
    BY <2>2, <2>3, DistanceType DEF ValidPlanSpec
  <2>5. used' + Distance(spec, model') <= spec.maxActions
    BY <2>1, <2>2, <2>4 DEF Fits
  <2>6. QED
    BY <2>1, <2>2, <2>3, <2>5 DEF PlanInv, BudgetSuffices
<1>3. QED
  BY <1>1, <1>2 DEF Next, Compiled

THEOREM PlanInvariant == Spec => []PlanInv
BY PlanInvInit, PlanInvStep, PTL DEF Spec

\* Whatever the specification, the decisions and the scheduler, the budget
\* left always reaches the final checkpoint.
THEOREM BudgetAlwaysSuffices == Spec => []BudgetSuffices
<1>1. PlanInv => BudgetSuffices
  BY DEF PlanInv
<1>2. QED
  BY <1>1, PlanInvariant, PTL

\* The compiler never runs out of eligible actions before the case is complete.
THEOREM CompilerIsNeverStuck == Spec => []NeverStuck
<1>1. ASSUME PlanInv, model.phase # "Complete"
      PROVE  \E a \in Eligible(spec, model) :
                 Fits(spec, Apply(model, a), used)
  <2>1. ValidPlanSpec(spec) /\ Sound(spec, model) /\ used \in Nat
    BY <1>1, SpecsAssumption DEF PlanInv
  <2>2. PICK a \in Eligible(spec, model) :
            Distance(spec, Apply(model, a)) = Distance(spec, model) - 1
    BY <1>1, <2>1, SomethingLeadsOn
  <2>3. Distance(spec, model) \in Int /\ spec.maxActions \in Int
    BY <2>1, DistanceType DEF ValidPlanSpec
  <2>4. QED
    BY <1>1, <2>1, <2>2, <2>3 DEF PlanInv, BudgetSuffices, Fits
<1>2. PlanInv => NeverStuck
  BY <1>1 DEF NeverStuck
<1>3. QED
  BY <1>2, PlanInvariant, PTL

\* The closed form solves the equation of the shortest-path search in every
\* state the compiler reaches.
THEOREM ClosedFormIsMinimum == Spec => []MinimumIsExact
<1>1. ASSUME PlanInv, model.phase # "Complete"
      PROVE  LET next == {Distance(spec, Apply(model, a)) :
                             a \in Eligible(spec, model)}
             IN  /\ Distance(spec, model) - 1 \in next
                 /\ \A d \in next : Distance(spec, model) - 1 <= d
  <2>1. ValidPlanSpec(spec) /\ Sound(spec, model)
    BY <1>1, SpecsAssumption DEF PlanInv
  <2>2. \E a \in Eligible(spec, model) :
            Distance(spec, Apply(model, a)) = Distance(spec, model) - 1
    BY <1>1, <2>1, SomethingLeadsOn
  <2>3. \A a \in Eligible(spec, model) :
            Distance(spec, model) - 1 <= Distance(spec, Apply(model, a))
    BY <2>1, EligibleStep DEF Steps
  <2>4. QED
    BY <2>2, <2>3
<1>2. PlanInv => MinimumIsExact
  BY <1>1 DEF MinimumIsExact
<1>3. QED
  BY <1>2, PlanInvariant, PTL

\* No payment is known, confirmed or reported on without a provider object.
THEOREM PaymentAlwaysHasObject == Spec => []PaymentHasObject
<1>1. PlanInv => PaymentHasObject
  BY DEF PlanInv, Sound, IsModel, ObjectsBounded, BeforePayment,
         PaymentHasObject
<1>2. QED
  BY <1>1, PlanInvariant, PTL

\* Types and counter widths: no counter of the symbolic state leaves its u8.
THEOREM PlannerTypes == Spec => []TypeOK
<1>1. ASSUME PlanInv PROVE TypeOK
  <2> DEFINE T == TargetEvents(spec, model.objects)
  <2>1. /\ ValidPlanSpec(spec) /\ Sound(spec, model) /\ used \in Nat
        /\ IsModel(model) /\ spec \in Specs
    BY <1>1, SpecsAssumption DEF PlanInv, Sound
  <2>2. model.objects \in 0 .. MaxObjects
    BY <2>1
    DEF Sound, IsModel, ObjectsBounded, BeforePayment, MaxObjects
  <2>3. T \in Nat /\ T <= 2 * model.objects
    BY <2>2, TargetFacts DEF MaxObjects
  <2>4. /\ model.generated \in 0 .. 2 * MaxObjects
        /\ model.pending \in 0 .. model.generated
        /\ model.delivered \in 0 .. model.generated
    BY <2>1, <2>2, <2>3 DEF Sound, IsModel, EventsBounded, MaxObjects
  <2>5. /\ model.kills \in 0 .. spec.maxKills
        /\ model.duplicates \in 0 .. spec.duplicateMax
    BY <2>1 DEF Sound, IsModel, ValidPlanSpec
  <2>6. Distance(spec, model) \in Nat
    <3>1. HealthyDistance(spec, model) \in Nat
      <4>1. TargetEvents(spec, model.objects + 1) \in Nat
        BY <2>2, TargetFacts DEF MaxObjects
      <4>2. model.phase = "Events" => model.generated <= T
        BY <2>1, <2>3 DEF Sound, EventsBounded
      <4>3. QED
        BY <2>1, <2>3, <4>1, <4>2 DEF HealthyDistance, IsModel, Phases
    <3>2. QED
      BY <3>1 DEF Distance
  <2>7. used \in 0 .. spec.maxActions
    BY <1>1, <2>1, <2>6 DEF PlanInv, BudgetSuffices, ValidPlanSpec
  <2>8. QED
    BY <2>1, <2>2, <2>4, <2>5, <2>7 DEF TypeOK, IsModel, Observations
<1>2. QED
  BY <1>1, PlanInvariant, PTL
=============================================================================
