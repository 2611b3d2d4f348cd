------------------------------- MODULE Shrinker -------------------------------
(***************************************************************************)
(* The candidate generator of crates/tiv-core/src/shrink.rs: the simpler   *)
(* schedules a counterexample is reduced to.                               *)
(*                                                                         *)
(* A schedule is a sequence of entries, each an action of the source plan  *)
(* or a simplification of one, under the number it has there.  The         *)
(* identity of a candidate is its schedule.  The loops of the code are     *)
(* recursive functions: their value at n is that after n rounds.           *)
(***************************************************************************)
EXTENDS Preflight, Sequences, FiniteSets

CONSTANT FrontierLimit      \* CandidateLimit::default()

ASSUME FrontierLimitAssumption == FrontierLimit \in 1 .. 60

\* The schedule of the source itself.
Whole(actions) == [i \in DOMAIN actions |-> [id |-> i, act |-> actions[i]]]
-----------------------------------------------------------------------------
(* Complexity, compared from left to right.                                 *)

Scripted == {"DriveCheckout", "RetryBusinessRequest", "ConfirmPaymentIntent",
             "RetryProviderRequest"}

ProviderFaultScore(o) ==
    CASE o = "Normal" -> 0
      [] o \in {"PreExecute429", "PreExecute500"} -> 1
      [] o = "PostExecute500" -> 2
      [] OTHER -> 3

\* The provider calls of an action, and the faults planned for them.
CallCount(a) ==
    IF a.kind \notin Scripted THEN 0 ELSE IF a.script.retry = NoRetry THEN 1 ELSE 2

Score(a) ==
    IF CallCount(a) = 0 THEN 0
    ELSE ProviderFaultScore(a.script.first)
         + (IF CallCount(a) = 2 THEN ProviderFaultScore(a.script.retry) ELSE 0)

IsFault(a) ==
    \/ Score(a) > 0
    \/ a.kind \in {"DuplicateWebhook", "ReorderWebhooks", "DropWebhook",
                   "KillApplication", "DelayWebhook"}

Delay(a) == IF a.kind = "DelayWebhook" THEN a.milliseconds ELSE 0

\* The complexity of the first n entries, for each n.
Complexities(schedule) ==
    LET sum[n \in 0 .. Len(schedule)] ==
            IF n = 0 THEN <<0, 0, 0, 0, 0>>
            ELSE LET c == sum[n - 1] a == schedule[n].act IN
                 <<c[1] + 1,
                   c[2] + (IF IsFault(a) THEN 1 ELSE 0),
                   c[3] + Score(a), c[4] + CallCount(a), c[5] + Delay(a)>>
    IN  sum

Complexity(schedule) == Complexities(schedule)[Len(schedule)]

Simpler(schedule, than) ==
    LET x == Complexity(schedule) y == Complexity(than) IN
    \E k \in 1 .. 5 : x[k] < y[k] /\ \A j \in 1 .. k - 1 : x[j] = y[j]
-----------------------------------------------------------------------------
(* What a candidate has to be.                                              *)

SimplerScripts(script) ==
    {Single(o) : o \in (IF script.retry = NoRetry THEN {} ELSE {script.first})
                       \cup {"Normal"}}
    \cup [first: {script.first},
          retry: IF script.retry = NoRetry THEN {} ELSE {"Normal"}]

KindIsSimplification(source, act) ==
    \/ act = source
    \/ source.kind = "DelayWebhook" /\ act.kind = "DelayWebhook"
       /\ act.milliseconds <= source.milliseconds
    \/ source.kind = "DropWebhook" /\ act.kind = "DeliverWebhook"
    \/ source.kind \in Scripted /\ act.kind = source.kind
       /\ act.script \in SimplerScripts(source.script)

\* validate_lineage: actions of the source, in its order, none added.
Descends(schedule, source) ==
    \A i \in DOMAIN schedule :
        /\ i > 1 => schedule[i - 1].id < schedule[i].id
        /\ schedule[i].id \in DOMAIN source
        /\ KindIsSimplification(source[schedule[i].id].act, schedule[i].act)

\* A variant of CutPointsSupported: any action may come before a kill.
AnyCutPoint(schedule) == TRUE

\* reference_cut_points_are_supported; for the probe it asks less than preflight.
CutPointsSupported(schedule) ==
    \A i \in DOMAIN schedule :
        LET kill == schedule[i].act IN
        kill.kind = "KillApplication" =>
            /\ i > 1
            /\ IF kill.cutPoint = "SqlProbe"
               THEN schedule[i - 1].act.kind = "DriveCheckout"
               ELSE CutBy(kill.cutPoint, schedule[i - 1].act)

\* normalize_replay_action_kinds: what can be executed in turn, the rest left
\* out, and the symbolic state it leads to; after the first n entries, for each n.
Normalized(s, legacy, schedule) ==
    LET upTo[n \in 0 .. Len(schedule)] ==
            IF n = 0 THEN [model |-> Initial(legacy), kept |-> <<>>]
            ELSE LET before == upTo[n - 1] e == schedule[n] IN
                 IF e.act \in Eligible(s, before.model)
                 THEN [model |-> Apply(before.model, e.act),
                       kept  |-> Append(before.kept, e)]
                 ELSE before
    IN  upTo

Normalize(s, legacy, schedule) == Normalized(s, legacy, schedule)[Len(schedule)]

\* ShrinkCandidate::materialize, of a schedule from disk too.
IsCandidate(s, legacy, schedule, source) ==
    LET n == Normalize(s, legacy, schedule) IN
    /\ n.kept = schedule /\ n.model.phase = "Complete"
    /\ Descends(schedule, source)
    /\ CutPointsSupported(schedule)
    /\ Simpler(schedule, source)
-----------------------------------------------------------------------------
(* The frontier of a schedule.                                              *)

\* Into how many parts a round divides a schedule.
Partitions(n) ==
    LET parts[k \in 1 .. n] == IF k = 1 THEN 2 ELSE 2 * parts[k - 1]
    IN  parts

\* Chunks of a half, a quarter and so on, down to single actions.
ChunkSizes(n) ==
    LET Ceil(k) == (n + Partitions(n)[k] - 1) \div Partitions(n)[k]
        rounds == {k \in 1 .. n : k > 1 => Ceil(k - 1) > 1}
    IN  [k \in 1 .. Cardinality(rounds) |-> Ceil(k)]

\* All the sequences of a sequence, one after the other.
InTurn(seqs) ==
    LET upTo[n \in 0 .. Len(seqs)] == IF n = 0 THEN <<>> ELSE upTo[n - 1] \o seqs[n]
    IN  upTo[Len(seqs)]

Without(schedule, from, size) ==
    SubSeq(schedule, 1, from - 1) \o SubSeq(schedule, from + size, Len(schedule))

Removals(schedule, size) ==
    [c \in 1 .. (Len(schedule) + size - 1) \div size |->
        Without(schedule, (c - 1) * size + 1, size)]

ChunksRemoved(schedule) ==
    LET sizes == ChunkSizes(Len(schedule)) IN
    InTurn([k \in DOMAIN sizes |-> Removals(schedule, sizes[k])])

Rescripted(a, scripts) ==
    [k \in DOMAIN scripts |-> [a EXCEPT !.script = scripts[k]]]

\* simplified_provider_actions, in its order.
ScriptRewrites(a) ==
    (IF a.script.retry = NoRetry THEN <<>>
     ELSE Rescripted(a, <<Single(a.script.first)>>)
          \o (IF a.script.retry = "Normal" THEN <<>>
              ELSE Rescripted(a, <<[first |-> "CommitThenClose",
                                    retry |-> "Normal"]>>)))
    \o (IF a.script = Single("Normal") THEN <<>>
        ELSE Rescripted(a, <<Single("Normal")>>))

\* An action in a simpler form.
ActionRewrites(a) ==
    CASE a.kind \in Scripted -> ScriptRewrites(a)
      [] a.kind = "DelayWebhook" /\ a.milliseconds > 0 ->
           <<[a EXCEPT !.milliseconds = 0]>>
      [] a.kind = "DropWebhook" -> <<[kind |-> "DeliverWebhook"]>>
      [] OTHER -> <<>>

\* A kill goes with its restart; every other action that can be left out by
\* itself is a chunk of one.
ProposalsAt(schedule, i) ==
    IF schedule[i].act.kind = "KillApplication"
    THEN <<Without(schedule, i,
               IF i < Len(schedule)
                  /\ schedule[i + 1].act.kind = "RestartAndAwaitHealth"
               THEN 2 ELSE 1)>>
    ELSE LET rewrites == ActionRewrites(schedule[i].act)
         IN  [r \in DOMAIN rewrites |-> [schedule EXCEPT ![i].act = rewrites[r]]]

Proposals(schedule) ==
    ChunksRemoved(schedule)
    \o InTurn([i \in DOMAIN schedule |-> ProposalsAt(schedule, i)])

\* push_candidate: every candidate once, and each of them simpler than the
\* schedule it is to replace.
Push(s, legacy, schedule, source, offers, proposal) ==
    LET n == Normalize(s, legacy, proposal) IN
    IF /\ n.model.phase = "Complete"
       /\ \A i \in DOMAIN offers : offers[i] # n.kept
       /\ Simpler(n.kept, schedule)
       /\ IsCandidate(s, legacy, n.kept, source)
    THEN Append(offers, n.kept) ELSE offers

\* Each proposal in turn is pushed.
Offers(s, legacy, schedule, source) ==
    LET proposals == Proposals(schedule)
        upTo[n \in 0 .. Len(proposals)] ==
            IF n = 0 THEN <<>>
            ELSE Push(s, legacy, schedule, source, upTo[n - 1], proposals[n])
    IN  upTo[Len(proposals)]

\* candidate_batch: the first of them, and whether there were more.
Batch(s, legacy, schedule, source) ==
    LET offers == Offers(s, legacy, schedule, source) IN
    [candidates |-> IF Len(offers) > FrontierLimit
                    THEN SubSeq(offers, 1, FrontierLimit) ELSE offers,
     truncated  |-> Len(offers) > FrontierLimit]
=============================================================================
