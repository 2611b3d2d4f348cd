------------------------------ MODULE Reduction -------------------------------
(***************************************************************************)
(* How a counterexample is replayed, shrunk and replayed again: the three  *)
(* commands of configured_replay.rs, configured_shrink.rs and              *)
(* configured_minimized_replay.rs, each of which takes the artifact of the *)
(* one before it.                                                          *)
(*                                                                         *)
(* A schedule is executed three times, each on a fresh baseline, and any  *)
(* invariants may be violated in an attempt.  An attempt may also fail, or *)
(* the deadline of the shrink or a cancellation be read: each of these     *)
(* ends the command, so that the time needs no memory.                     *)
(*                                                                         *)
(* The documents of an artifact are written once: it keeps what the loader *)
(* of the next command says of them (`sound'), not the documents.  Their   *)
(* names, digests, hashes and database identities are left out.  A partial *)
(* artifact is never loaded again; it leaves nothing here.                 *)
(***************************************************************************)
EXTENDS Shrinker

CONSTANTS
    CandidateLimit,     \* --max-candidates
    Invariants,         \* in the order of their identities
    None

ASSUME CandidateLimitAssumption == CandidateLimit \in 1 .. 60
ASSUME InvariantsAssumption == Invariants \subseteq Nat \ {0}

ATTEMPT_COUNT == 3

VARIABLES
    plan,       \* the actions compiled so far; then the recorded source
    command,    \* the command that runs
    trial,      \* the three attempts under way
    search,     \* the search of the shrink under way
    recorded,   \* the invariants the campaign found violated by the source
    replay, shrink, minimized   \* the complete artifacts

run == <<command, trial, search>>
source == <<plan, recorded>>
artifacts == <<replay, shrink, minimized>>
lineage == <<vars, source, run, artifacts>>

Source == Whole(plan)
Legacy == model.legacy
-----------------------------------------------------------------------------
(* Three attempts of one schedule.                                          *)

\* matching is what the command counts, shown a history of what it should count.
Trial(schedule) ==
    [subject |-> schedule, attempts |-> 0, matching |-> 0, shown |-> 0,
     sound |-> TRUE, open |-> FALSE]

Count(condition) == IF condition THEN 1 ELSE 0

First(identities) == CHOOSE i \in identities : \A j \in identities : i <= j

\* select_expected_failure: the counterexample of the recorded case.
Expected == First(recorded)

Held == 0

\* A variant of AttemptResult: any violation is taken for the expected one.
AnyViolation(violated) == IF violated = {} THEN Held ELSE Expected

\* attempt_result: the expected identity wins over an earlier one.
AttemptResult(violated) ==
    CASE violated = {} -> Held
      [] Expected \in violated -> Expected
      [] OTHER -> First(violated)

\* The document of an attempt.
AttemptDocument(violated) ==
    LET result == AttemptResult(violated) IN
    [verdict |-> CASE result = Held -> "held"
                   [] result = Expected -> "expected"
                   [] OTHER -> "other",
     identity |-> result, invariants |-> violated]

\* What a loader makes of it: the result is drawn again from the verdicts of
\* the invariants, and must be the one declared.
Coherent(document) ==
    LET actual == AttemptResult(document.invariants) IN
    /\ document.identity = actual
    /\ document.verdict = "held" <=> actual = Held
    /\ document.verdict = "expected" <=> actual = Expected

\* What matching_count counts.
Matches(violated) == AttemptResult(violated) = Expected

\* classify_reproduction, and the acceptance of a candidate.
Reproduced(matching) == matching >= 2

Attempting == command # "idle" /\ trial # None
Tried == Attempting /\ trial.attempts = ATTEMPT_COUNT
Evaluating == search # None

\* finalize_failed_*: a partial artifact, with the attempts made so far, and
\* nothing to go on from.
Abandon ==
    /\ command' = "idle" /\ trial' = None /\ search' = None
    /\ UNCHANGED <<vars, source, artifacts>>

FailReplay == command = "replay" /\ Abandon
FailShrink == command = "shrink" /\ Abandon
FailMinimized == command = "minimized" /\ Abandon

Fail == FailReplay \/ FailShrink \/ FailMinimized

AtLoopHead == Attempting /\ ~trial.open /\ trial.attempts < ATTEMPT_COUNT

\* What an execution can find: execute_configured_*_attempt compiles the
\* schedule, runs it and judges each invariant.
Findings == SUBSET Invariants

\* Neither cancelled nor too late, and the baseline is fresh and compatible.
BeginAttempt ==
    /\ AtLoopHead
    /\ trial' = [trial EXCEPT !.open = TRUE]
    /\ UNCHANGED <<vars, source, command, search, artifacts>>

EndAttempt ==
    /\ Attempting /\ trial.open
    /\ \E violated \in Findings :
          trial' = [trial EXCEPT !.open = FALSE, !.attempts = @ + 1,
                                 !.matching = @ + Count(Matches(violated)),
                                 !.shown = @ + Count(Expected \in violated),
                                 !.sound = @ /\ Coherent(AttemptDocument(violated))]
    /\ UNCHANGED <<vars, source, command, search, artifacts>>

Interrupted == AtLoopHead /\ Fail

\* attest_replay_boundary, and the compatibility with the source: the first
\* attempt of a command uses the baseline attested before its artifact was begun.
BoundaryRefused ==
    /\ AtLoopHead
    /\ trial.attempts > 0 \/ Evaluating
    /\ Fail

\* The supervised execution fails, is cancelled, or times out (a shrink at its
\* deadline aside).
ExecutionFails == Attempting /\ trial.open /\ Fail

\* The first trace of a candidate is the authority for the others; for the
\* other schedules it is the trace in the artifact loaded.
TraceDiverges ==
    /\ Attempting /\ trial.open
    /\ Evaluating => trial.attempts > 0
    /\ Fail
-----------------------------------------------------------------------------
(* tiv replay configured                                                    *)

\* load_recorded_case: the whole campaign is checked, then one of its cases,
\* which must have violated an invariant.
RecordsCounterexample == recorded # {}
LoadsCase == model.phase = "Complete" /\ RecordsCounterexample

StartReplay ==
    /\ command = "idle" /\ replay = None /\ LoadsCase
    /\ command' = "replay" /\ trial' = Trial(Source)
    /\ UNCHANGED <<vars, source, search, artifacts>>

Conclusion(matching) ==
    IF Reproduced(matching) THEN "counterexample" ELSE "inconclusive"

\* completed_replay_report: what was found, and what to run to see it again.
ReplayReport(matching) ==
    [conclusion |-> Conclusion(matching), run |-> {"replay"}]

\* Three coherent attempts, at least two of which match: what a loader makes
\* of the documents of a trial.
Convincing(t) == t.sound /\ t.matching \in 2 .. ATTEMPT_COUNT

PublishReplay ==
    /\ command = "replay" /\ Tried
    /\ replay' = [result |-> Conclusion(trial.matching), sound |-> Convincing(trial),
                  report |-> ReplayReport(trial.matching)]
    /\ command' = "idle" /\ trial' = None
    /\ UNCHANGED <<vars, source, search, shrink, minimized>>

\* load_verified_configured_replay_source.
LoadsReplay(a) == a # None /\ a.result = "counterexample" /\ a.sound
-----------------------------------------------------------------------------
(* tiv shrink configured                                                    *)

StartShrink ==
    /\ command = "idle" /\ LoadsReplay(replay) /\ shrink = None
    /\ command' = "shrink" /\ trial' = Trial(Source)
    /\ UNCHANGED <<vars, source, search, artifacts>>

\* The search restarts from the frontier of its best schedule.
Frontier(s) ==
    LET batch == Batch(spec, Legacy, s.best, Source) IN
    [s EXCEPT !.frontier = batch.candidates, !.capped = batch.truncated]

\* original is what the loader makes of the attempts of the source, which is the
\* best schedule until a candidate improves on it.
NewSearch(original) ==
    [original |-> original, best |-> Source, improved |-> FALSE, shown |-> 0,
     frontier |-> <<>>, capped |-> FALSE, evaluated |-> {}]

ResultOf(completion) ==
    CASE completion = "complete" -> "counterexample"
      [] completion = "source_inconclusive" -> "inconclusive"
      [] OTHER -> completion

\* completed_shrink_report: the minimized trace, if there is one, is to be
\* replayed.
ShrinkReport(completion, s) ==
    [conclusion |-> ResultOf(completion),
     run |-> {"shrink"} \cup (IF s.improved THEN {"minimized"} ELSE {})]

\* finalize_completed_shrink: a minimized trace is written and bound if there
\* is a best candidate.
Publish(completion, s) ==
    /\ shrink' = [completion |-> completion, result |-> ResultOf(completion),
                  minimized |-> s.best, written |-> s.improved, shown |-> s.shown,
                  original |-> s.original, candidates |-> s.evaluated,
                  report |-> ShrinkReport(completion, s)]
    /\ command' = "idle" /\ trial' = None /\ search' = None
    /\ UNCHANGED <<vars, source, replay, minimized>>

\* evaluate_original has made its three attempts.
SourceEvaluated ==
    /\ command = "shrink" /\ search = None /\ Tried
    /\ IF Reproduced(trial.matching)
       THEN /\ search' = Frontier(NewSearch(Convincing(trial))) /\ trial' = None
            /\ UNCHANGED <<vars, source, command, artifacts>>
       ELSE Publish("source_inconclusive", NewSearch(Convincing(trial)))

Searching == command = "shrink" /\ search # None /\ trial = None

Unseen(c) == \A e \in search.evaluated : e.schedule # c

\* A candidate of an earlier frontier is not tried again.
CacheHit ==
    /\ Searching /\ search.frontier # <<>>
    /\ ~Unseen(Head(search.frontier))
    /\ search' = [search EXCEPT !.frontier = Tail(@)]
    /\ UNCHANGED <<vars, source, command, trial, artifacts>>

CandidatesSpent == Cardinality(search.evaluated) = CandidateLimit

EvaluateCandidate ==
    /\ Searching /\ search.frontier # <<>>
    /\ Unseen(Head(search.frontier)) /\ ~CandidatesSpent
    /\ trial' = Trial(Head(search.frontier))
    /\ UNCHANGED <<vars, source, command, search, artifacts>>

\* Accepted, the candidate is the new best; rejected, the next one is tried.
CandidateEvaluated ==
    /\ command = "shrink" /\ Evaluating /\ Tried
    /\ LET accepted == Reproduced(trial.matching)
           evaluation == [schedule |-> trial.subject, accepted |-> accepted,
                          sound |-> trial.sound /\ accepted = (trial.matching >= 2)]
           known == [search EXCEPT !.evaluated = @ \cup {evaluation}]
       IN  search' = IF accepted
                     THEN Frontier([known EXCEPT !.best = trial.subject,
                                                 !.improved = TRUE, !.shown = trial.shown])
                     ELSE [known EXCEPT !.frontier = Tail(@)]
    /\ trial' = None
    /\ UNCHANGED <<vars, source, command, artifacts>>

\* The candidates or the time are used up before an unseen candidate.
StopSearch ==
    /\ Searching /\ search.frontier # <<>>
    /\ Unseen(Head(search.frontier))
    /\ Publish("budget_exhausted", search)

\* A variant of Completion: a frontier that was cut off is a frontier too.
CompletionOfAny(s) == "complete"

Completion(s) == IF s.capped THEN "budget_exhausted" ELSE "complete"

FrontierExhausted ==
    /\ Searching /\ search.frontier = <<>>
    /\ Publish(Completion(search), search)

\* BudgetExpired: no attempt starts after the deadline, and one that it cuts off
\* counts for nothing; nor do the attempts of this schedule made before it.
BudgetExpires ==
    /\ command = "shrink" /\ Attempting
    /\ AtLoopHead \/ trial.open
    /\ IF Evaluating THEN Publish("budget_exhausted", search)
                     ELSE Publish("source_inconclusive", NewSearch(Convincing(trial)))
-----------------------------------------------------------------------------
(* tiv replay minimized                                                     *)

IsCandidateOfSource(schedule) == IsCandidate(spec, Legacy, schedule, Source)

\* validate_candidate_evidence.
SoundCandidate(c) == c.sound /\ IsCandidateOfSource(c.schedule)

\* validate_source_and_summary.
SoundSummary(a) ==
    /\ <<a.completion, a.result>> \in {<<"complete", "counterexample">>,
                                       <<"budget_exhausted", "budget_exhausted">>}
    /\ a.original
    /\ Cardinality(a.candidates) <= CandidateLimit
    /\ \E c \in a.candidates : c.accepted
    /\ \A c, d \in a.candidates : c.schedule = d.schedule => c = d
    /\ \A c \in a.candidates : SoundCandidate(c)
    /\ Len(a.minimized) <= Len(Source)
    /\ \E c \in a.candidates : c.schedule = a.minimized /\ c.accepted

\* load_verified_minimized_shrink_source: a minimized trace must be bound.
LoadsShrink(a) == a # None /\ a.written /\ SoundSummary(a)

\* FreshBaselineReused: a database or a marker of an earlier attempt.
BaselineReused ==
    /\ command = "minimized" /\ Attempting /\ trial.open
    /\ trial.attempts > 0
    /\ Fail

StartMinimized ==
    /\ command = "idle" /\ minimized = None /\ LoadsShrink(shrink) = TRUE
    /\ command' = "minimized" /\ trial' = Trial(shrink.minimized)
    /\ UNCHANGED <<vars, source, search, artifacts>>

\* completed_minimized_replay_report.
MinimizedReport(matching) ==
    [conclusion |-> Conclusion(matching), run |-> {"minimized"}]

PublishMinimized ==
    /\ command = "minimized" /\ Tried
    /\ minimized' = [result |-> Conclusion(trial.matching),
                     report |-> MinimizedReport(trial.matching)]
    /\ command' = "idle" /\ trial' = None
    /\ UNCHANGED <<vars, source, search, replay, shrink>>
-----------------------------------------------------------------------------
(* The source of it all: a case of a campaign, with a counterexample in it.  *)

Compile ==
    /\ model.phase # "Complete"
    /\ \E a \in Eligible(spec, model) :
          /\ Fits(spec, Apply(model, a), used)
          /\ plan # <<>> => Preflight(plan[Len(plan)], a)
          /\ model' = Apply(model, a)
          /\ plan' = Append(plan, a)
    /\ used' = used + 1
    /\ UNCHANGED <<spec, recorded, run, artifacts>>

\* The last artifact is published, or the one at hand leads no further.
Finished ==
    /\ command = "idle" /\ model.phase = "Complete"
    /\ LoadsCase => replay # None
    /\ LoadsReplay(replay) => shrink # None
    /\ minimized = None => LoadsShrink(shrink) = FALSE
    /\ UNCHANGED lineage

ReductionInit ==
    /\ Init
    /\ plan = <<>> /\ recorded \in SUBSET Invariants
    /\ command = "idle" /\ trial = None /\ search = None
    /\ replay = None /\ shrink = None /\ minimized = None

ReductionNext ==
    \/ Compile
    \/ StartReplay
    \/ StartShrink
    \/ StartMinimized
    \/ BeginAttempt
    \/ EndAttempt
    \/ Interrupted
    \/ BoundaryRefused
    \/ ExecutionFails
    \/ TraceDiverges
    \/ BaselineReused
    \/ PublishReplay
    \/ SourceEvaluated
    \/ CacheHit
    \/ EvaluateCandidate
    \/ CandidateEvaluated
    \/ StopSearch
    \/ FrontierExhausted
    \/ BudgetExpires
    \/ PublishMinimized
    \/ Finished

ReductionSpec == ReductionInit /\ [][ReductionNext]_lineage
-----------------------------------------------------------------------------
\* A shrink that calls its search complete has left no simpler schedule out: each
\* candidate of the best schedule, beyond the cap of a frontier too, has been
\* executed and did not reproduce the failure.
CompleteIsLocalMinimum ==
    command = "idle" /\ shrink # None /\ shrink.completion = "complete" =>
        LET offers == Offers(spec, Legacy, shrink.minimized, Source)
        IN  \A i \in DOMAIN offers :
               \E c \in shrink.candidates : c.schedule = offers[i] /\ ~c.accepted

\* The command a report asks for takes the artifacts there are.
Takes(name) ==
    CASE name = "replay" -> LoadsCase
      [] name = "shrink" -> LoadsReplay(replay)
      [] name = "minimized" -> LoadsShrink(shrink)

\* A minimized trace is strictly simpler than the source, made of its actions,
\* and showed the failure of the source in two of three attempts; each command
\* a report tells its reader to run takes the artifacts there are, as the
\* shrink takes a replay that is published as a counterexample.
MinimizedReproduces ==
    command = "idle" =>
        /\ replay # None /\ replay.result = "counterexample" => LoadsReplay(replay)
        /\ shrink # None /\ shrink.written =>
              /\ Simpler(shrink.minimized, Source)
              /\ Descends(shrink.minimized, Source)
              /\ shrink.shown >= 2
        /\ \A a \in {replay, shrink, minimized} \ {None} :
              /\ a.report.conclusion = a.result
              /\ \A name \in a.report.run : Takes(name)

\* Whatever is executed is a plan the compiler could have made from the same
\* specification, and preflight accepts it: a candidate needs nothing of the
\* fixture, the application and the adapters that a compiled plan does not.
ExecutedIsCompilable ==
    trial # None /\ trial.attempts = 0 =>
        LET s == trial.subject
            After(i) == Normalize(spec, Legacy, SubSeq(s, 1, i)).model
        IN  /\ After(Len(s)).phase = "Complete"
            /\ \A i \in DOMAIN s :
                  /\ s[i].act \in Eligible(spec, After(i - 1))
                  /\ Fits(spec, After(i), i - 1)
                  /\ i > 1 => Preflight(s[i - 1].act, s[i].act)
=============================================================================
