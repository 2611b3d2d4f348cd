# TxProof in TLA+

TxProof searches for counterexamples to the transactional invariants of a payment
back end: it plans a bounded case of actions and faults, drives a real application
against a local payment provider and a PostgreSQL database, kills and restarts the
application, records what happened, checks SQL invariants at the end, and shrinks
and replays what it found. This directory models its parts, checks the models with
TLC and proves the most important properties with TLAPS.

All paths are relative to `src/`.

## The system and its parts

| Part | Code | State it keeps | Operations | Status |
|---|---|---|---|---|
| Provider | `crates/tiv-stripe-pi/src/lib.rs` (`PaymentIntentFixture`) | objects, immutable events, idempotency cache | create, confirm, confirm-all, retrieve, search, event snapshot | `Provider` |
| Managed fixture | same file (`ManagedFixture`, `GateSignal`), `control.rs`, `http.rs` | the fault plan, three maps of gates, the gate and command sequences | data-plane calls; reset, release-gate, confirm-all, generate-event, deliver-event and its two held forms, discard-webhook-request and -response; the ingress callback | `Fixture` |
| Reference application | `tests/reference-app/src/lib.rs`, schema in `tiv-runtime/src/postgres/spike.rs` | six tables, the set of settled objects in memory | checkout, webhook, reconciliation task, kill and restart | `ReferenceApp` |
| SQL invariants | `tests/configured-run-project/invariants/*.sql` | – | 01, 02, 04, 05 are properties of `ReferenceApp` | partly |
| Planner | `crates/tiv-core/src/plan.rs` | symbolic state of a case, actions chosen | eligible actions, their effects, the budget search, the compiler loop | `Planner` |
| Traces | `tiv-core/src/trace.rs` | references to values that do not exist yet, bindings | materialise a compiled case; check and bind what was captured | `CaseTrace`, in `CaseHttp` |
| Shrinker | `tiv-core/src/shrink.rs` | – | candidates of a schedule, their order and normal form | `Shrinker` |
| Replay, shrink, minimized replay | `configured_replay.rs`, `configured_shrink.rs`, `configured_minimized_replay.rs` | three attempts, the search, the artifact for the next command | attempt, compare, accept or reject, publish, load | `Reduction` |
| Case execution | `campaign.rs`, `journal.rs` | journal, sequences of each producer | intent, effect, outcome; append and sync | `Journal`, `CaseRun` |
| Run supervisor, configured campaign | `run_supervisor.rs`, `configured_campaign.rs`, `configured_process.rs` | project lock, running process, results | cancel, time out, recover, publish | `CaseRun`; the lock in `ArtifactStore` |
| Adapters | `provider_http.rs`, `webhook_http.rs`, `case_http.rs`, `reference_case.rs` | pending request, held gate, expected outcomes | one call per planned action | `CaseHttp`; the asynchronous lifecycle of `reference_case.rs` in `CaseRun` |
| Cleanup, artifacts | `cleanup.rs`, `artifacts.rs` | a staging directory, its final name, references between runs | stage, finalize, remove | `ArtifactStore`; a campaign's files in `CaseRun` |
| PostgreSQL lifecycle | `postgres/safety.rs`, `baseline.rs`, `configured_database.rs` | the case, its sealed baseline, verified targets, permits | verify, challenge, authorize, seal, attest, reset, restore | `CaseDatabase` |
| Quiescence and probes | `postgres/quiescence.rs`, `probe.rs` | the stable window | wait until the case is quiescent; observe that a probe's statement ran | `StableWindow`; probes in `CaseHttp` |
| Snapshot evaluation | `postgres/snapshot.rs`, `oracle.rs` | one session and its transaction | attest the role, load the projection, evaluate the suite | `Snapshot`, in `CaseRun` |
| Configuration, CLI, site | `config.rs`, `doctor.rs`, `init.rs`, `tiv-cli`, `marketing/` | none | parsing and scaffolding | not modelled |

How they interact. The planner turns a seed into a plan. The case execution walks
it: an adapter sends each action to the fixture's control plane (one command number
after another) or to the application. The application calls the provider's data
plane, where the next planned outcome answers, fails, loses or delays the call; the
control plane delivers webhooks to the application, and at a crash cut the
application calls back before it persists and is killed while it waits. At the end
the runtime waits for quiescence and evaluates the invariants in one snapshot of the
database. Before each case the database is replaced by a copy of a sealed baseline.
A counterexample is an artifact; replay, shrink and minimized replay each load the
artifact of the command before, execute schedules three times and publish their own.

What is hard: fixture handlers wait on gates that other handlers' commands, resets
and timeouts take away; the webhook client times out while the callback arrives;
the application's transactions, its in-memory set and its reconcilers interleave and
die at any step; the planner must never choose itself out of its budget; a database
is dropped by its name although anybody may recreate it; a search for a simpler
schedule ends at any time and must say how far it came; and the runtime must leave
something consistent behind when it is cancelled.
`PROJECT.json` lists each such hazard at its line with the properties that cover it.

## The models

### Provider and Fixture

`Provider` is `PaymentIntentFixture` as operators on one record. Amount, currency
and operation metadata of a create are one value of `Requests`, because the code
only compares, copies and searches them. Object and event ids are digests of the
seed and a position; here they are that pair. A response is its code and the object
it carries.

`Fixture` is `ManagedFixture` with the handlers of both listeners. It sits behind one
Mutex, so the regions in which a handler holds the lock are the atomic steps:

| Code | Action |
|---|---|
| `create_data_plane`, `manage_disposition` | `Create`, `ConfirmCall` with `Dispatch` |
| `HeldDataPlaneResponse::wait`, connection dropped | `HeldCallWakes`, `CallerGone` |
| control commands | `Reset`, `ReleaseGate`, `ConfirmEvery`, `GenerateEvent`, `DiscardWebhookRequest`, `DiscardWebhookResponse` |
| `handle_deliver_event`: sign / prepare / answered / failed / hold / wake | `DeliverEvent`, `PrepareWebhookRequestGate`, `DeliveryAnswered`, `DeliveryFails`, `HoldWebhookResponse`, `HeldResponseWakes` |
| control client disconnects: hyper drops the handler | `ControlClientGone` |
| application side of a webhook, `webhook_request_forwarded` | `AppReceives`, `AppPersists`, `AppCallsBack`, `AppCallbackWakes`, `AppKilled` |

A planned outcome is consumed even when the call ends in a conflict or an unknown
id, a gate sequence that is exhausted answers 500 after the call was executed, and a
handler that is dropped leaves its gate in the map: all three are in the model
because the code does them. `deliveries[d].admitted` and `dropped`, `run` and
`answers` are history. Commands that the code refuses change nothing and are not
steps.

What the properties say:

* `ReplayIsExact`: the idempotency cache under lost, delayed and
  failed answers and retries planned to fail.
* `SucceededIffEvent`, `ProviderMonotone`: objects and events only move forward.
* `NoOrphanWaiter`: whoever waits on a pending gate can be reached by a command.
* `GateHasOneOwner`: the number of a gate never means two things, although the gate
  outlives the handler, the run, or both.
* `ForwardedNeverPersists`: the promise of a crash cut in the doc of
  `HeldWebhookRequest::wait`.
* `ForwardedLeavesByCommand`, `RequestDeliverySettles`: the race of the 10 s webhook timeout with the callback. An unforwarded gate, which
  would refuse every later Request delivery, goes with its handler; a forwarded one
  stays for the command. The exception in the last, a disconnected control client, is
  what the code does: such a gate stays until the next reset.

### ReferenceApp

One process with checkout, webhook and reconciliation tasks. A task's steps are its
provider calls, its SQL statements, and the regions in which it holds the lock of
`settled_payment_intents`. PostgreSQL at READ COMMITTED is modelled by what the
statements rely on: what an open transaction wrote is in its task's record and is
seen by others only as a lock (`InsertsEvent`, `InsertsRow`, `LocksRow`); an insert
with ON CONFLICT DO NOTHING waits for the transaction that inserted the same key;
a plain SELECT sees the committed row and waits for nobody. From the row lock of the
UPDATE to the commit nothing another transaction can see changes, so history,
effect and ledger rows become visible with `WebhookCommits`. `WebhookFails`,
`CheckoutFails` and `ReconcilerGivesUp` lose the connection at any step, and at the
step after a commit too, when the commit happened and its acknowledgement is lost.
`Killed` loses every task, every open transaction and the settled set.

The six modes of the application are constants; the runs take the repaired one of
each. The provider is the module `Provider`; the driver confirms objects and
generates events in any order. `driver` says how many checkouts and deliveries it
sends, and whether deliveries overlap or follow one another.

Properties: `ProviderObjectUnique` (invariant 01), `EffectsAndLedgerOnce` (02 and
05, and that an effect exists at all), `TerminalSuccessMonotonic` (04),
`LocalNeverAhead`, and `WebhooksSettle`, which says that row locks never make a
cycle.

`TerminalSuccessPreserved` is refuted (run `AppRace`): the doc comment of
`RepairedMonotonic` promises that terminal success is preserved when an older
snapshot arrives. The webhook transaction reads the status without a lock and
updates it later; the reconciler of the same object can set `succeeded` in between
and is overwritten with `pending`. No second webhook is needed. When another
reconciler or the succeeded event comes later, the row is corrected; when the
reconciler that lost has already settled, nothing else polls.

### Planner

`ModelState` is one record: the fields of `Phase::CheckoutRetryable`,
`ConfirmRetryable` and `Events` are zero or FALSE in the other phases, which keeps
equality of states. `PhaseActions`, `EventActions`, `KillActions` and `Eligible` are
the eligible actions, `Apply` their effects with both schedulers' cut-point rules,
and `Choose(kind)` one turn of the compiler's loop: any eligible action from which
the rest of the budget still reaches the checkpoint. The random engine is
nondeterminism.

The code finds the distance to the checkpoint by a memoized search.
`Distance` is its value in closed form, and the theorem `MinimumIsExact` states the
search's own equation: no eligible action leads closer than one less, and one does. It also shows
why marking a state in progress as unreachable in the cache is right: a shortest way
takes the distance down by one with every step, so it never returns to a state.

`BudgetSuffices` and `NeverStuck` are the compiler's promises, checked where the
plans are executed (`CaseHttp`) and proved; `PaymentHasObject`, on which the runtime
relies, is proved.
`TypeOK` bounds the counters: at most twelve objects, far from the end of a `u8`,
and at most two failed retries before the one that succeeds.

### Preflight, CaseTrace and CaseHttp

One compiled case executed over HTTP. `Preflight` has the cut points and what the
runtime demands of a plan before it touches the stack. `CaseTrace` has the values
that do not exist when a case is materialised: which outputs an action declares,
which earlier output is its input, and what the executor does with the captures.
References are numbered by the objects created before; captures that no later action
can take are dropped from the state. `CaseHttp` extends both and executes each action
as the compiler chooses the next, because the executor is serial and looks at
no other action than the current one and the kill after it. `provider` is
`ProviderHttpAdapter`, `webhook` is `WebhookHttpAdapter`, `case` is
`ReferenceCaseAdapter`; `fixture` is the managed fixture as the control plane shows
it, with the operators of `Provider` for what it answers; `app` is the process and
what its database holds of the one order. A SQL probe (`probe.rs`) is the statement
the kill waits for: `RequireFalse`, `ObserveTrue`, `Evaluate`.

| Code | Definition |
|---|---|
| `*_cut_point_actions`, `preflight_reference_actions` | `CutBy`, `Preflight` |
| `materialize_case_actions`, `run_actions` | `OutputsOf`, `InputOf`, `Captures`, `ValidCaptures`, `Resolves` |
| `drive_checkout`, `start_held_checkout`, `confirm_payment_intent`, `start_held_confirmation`, `retrieve_payment_intent`, `release_held_response` | `DriveCheckout`, `HeldCheckout`, `ConfirmPaymentIntent`, `HeldConfirmation`, `RetrievePaymentIntent`, `ReleaseProviderGate` |
| `generate_event`, `deliver_event` and its two held forms, the queue faults | `GenerateProviderEvent`, `DeliverWebhook`, `ForwardWebhookRequest`, `HoldWebhookResponse`, `DelayWebhook`, `ReorderWebhooks`, `DropWebhook` |
| `mark_application_killed`, `complete_application_kill` | `MayKill`, `KillApplication`, `DiscardHeld` |
| `quiescent_provider_projection`, `wait_for_quiescence`, `check_checkpoint` | `Quiet`, `WaitForQuiescence`, `CheckCheckpoint` |
| `execute_provider`, `execute_webhook` | `Synchronize` |

An action that a check of the adapters refuses sets `failure`, which ends the case.
`diverged` is history: a call met an outcome that was not the one planned for it. The
four start-up modes of the application decide which calls it makes, so the plan,
which does not know them, may not fit.

* `PlansExecute`: no action of a compiled case fails unless a recovered object
  shifted the queue of outcomes; for the default (faulty) application never.
* `KillsAreSupported`: the scheduler in force plans no kill that preflight refuses.
* `SymbolicStateIsReal`: after each action what the planner believes of the process,
  the held calls, the objects, the payment and the events is so.
* `CheckpointIsWhole`: the checkpoint covers every object, after the success of each
  was reported, with nothing of the case left open.

`RecoveredOutcomeIsLeft` is refuted (run `RecoveredOutcome`): an application that
recovers its object makes no create, and the create outcome planned for it stays in
the queue. The architecture plan says that it is accounted for; but the queue is
first in, first out, and the confirmation takes it.

### Journal and CaseRun

`JournalRecords` has the records of a case journal and the order they may come in.
`JournalLog` is the promise: the records on stable storage are, action after action,
an intent, what was observed, and an outcome, and no producer's sequence has a gap.
`Journal` is `ObservationJournal` with its writer task: a request in the channel, the
checks of `run_writer`, the write, the sync, the answer, and the final sync. A failed
write may leave a record in part (`Torn`). `Log(c)` maps a case's journal to
`JournalLog` by the prefix of its file that is synchronised, and `DurableLogs` says
that each step of the code is a step or a stutter of that log.

`CaseRun` is a whole configured campaign around it:

| Code | Action |
|---|---|
| `run_configured_campaign_with_cancellation`, `execute_staged_campaign` | `StartRun`, `Attest`, `NextCase`, `ResetCase`, `SnapshotCase` |
| `ConfiguredSnapshotSession::run`, `run_snapshot`, `run_queries` | `Evaluate`, with the steps of `Snapshot` |
| `execute_case_actions`, `run_actions` | `JournalCreated`, `BeginAction`, `IntentAppended`, `OutcomeAppended`, `AppendFails`, `JournalFinished` |
| `ReferenceCaseAdapter::execute` and `ConfiguredProcessControl` | `HttpAnswered`, `RecordObservation`, `ObservationAppended`, `EffectFails`, `IssueDocker`, `DockerAnswered`, `DockerFails`, `ReachBoundary` |
| `supervise_execution`, `complete_supervision`, `recover_if_needed` | `TimedOut`, `CancelledCase`, `InspectApplication`, `ApplicationStarted`, `ApplicationHealthy`, `RecoveryFails`, `SettleCase` |
| `finalize_with_manifest` | `WriteManifest`, `Publish`, `SyncBase` |
| writer task, open thread, docker daemon, Ctrl-C, crash | `Writer`, `AbandonedOpen`, `Docker`, `Cancel`, `Crash` |

A step is a stretch of the case's future between two awaits. The supervisor's select
is biased, so a poll after the cancellation is never a poll of the case. A drop of the
future closes the channel and nothing else: the writer goes on with the request it
has, the daemon with the command it has, and the thread that opens the file opens it.

* `JournalFirst`: no effect begins before its intent is on disk, wherever the run is
  dropped or crashes.
* `NeverRefused`: the index arithmetic of the executor, the counters of the adapter
  and the limit of four records per action agree with the writer.
* `CompleteIsWhole`: what a complete artifact contains, a crash included; and that
  the verdicts of a case, in a partial artifact too, are those of one state the
  database had (`moments`). The database is any between two queries: quiescence is
  what samples showed, and the application can still write.
* `JournalTellsApplication`: the last durable record tells whether the container
  runs, so no request meets a late docker command.
* `AppLeftRunning`: a recovery that succeeded leaves the application up. The exception
  (`lateKill`) is what the code does: `docker kill` is given up after ten seconds or
  dropped with the case, and the daemon may carry it out after the health check.
* `CauseIsFirst`: a failed recovery never hides the timeout or the cancellation.
* `RunEnds`: the campaign ends whatever hangs.

`ChecksumsAreExact` is refuted (run `CampaignChecksums`). At a timeout or cancellation
the case's future is dropped with the `JoinHandle` of the writer in it. The writer can
write its record after the digests of the partial artifact were taken, and even after
the rename. `docs/rust-backend-architecture-plan.md:634` says that checksums hash the
exact bytes written, and `:930` that no detached task owns a mutation capability.
Complete artifacts are not affected: `finish` has joined the writer.

Simplified: the producers other than the orchestrator are one, because each counts
for itself; an action records at most one observation, as the adapters do; one HTTP
action with all its requests is one effect; a record too large or one that cannot be
encoded does not occur; a configuration error found late is an infrastructure error;
the flag `ProcessRecoveryState::required`, which nothing reads in production, is left
out. That the name of a synchronised file survives a crash is assumed of the file
system.

### ArtifactStore

The directory of artifacts under several commands. A process is one command after
another: a campaign, a run derived from a verified artifact (replay, shrink,
minimized replay), or a cleanup; each names a Compose project, whose lock it takes.

| Code | Action |
|---|---|
| `verify_complete_run_artifact` and the loaders, before the lock | `StartDerived`, `LoadSource`, `LockDerived` |
| `RunArtifactStaging::create`, `write_bytes` | `CreateStaging`, `WriteFile` |
| `finalize_with_manifest` | `WriteManifest`, `Publish`, `ReportPublished` |
| `cleanup_run_artifact` | `StartCleanup`, `RefuseStaging`, `VerifyTarget`, `ScanSibling`, `StatAgain`, `RemoveFile`, `RemoveDirectory`, `ReportRemoved` |
| an error, a cancellation, a kill; a power loss | `Fail`, `PowerLoss` |

`stable` holds the names a power loss may leave a directory with: a rename or a
removal is certain only after the base is synchronised, and the files of a removal
that was not may come back.

* `AcceptedIsWhole`: what the verifier accepts is all its run wrote.
* `PublishedSurvives`: an artifact whose path was reported stays acceptable until a
  cleanup found it eligible.
* `RemovedStaysRemoved`: a receipt is not given for a run that comes back.
* `DescendantKeepsSource`: a source is gone under a complete descendant only in the
  ways the code leaves open. Derived runs load their source before they take the
  lock, so a cleanup may remove it in between; and a cleanup under another project's
  configuration is not excluded.

A second cleanup after one that died between the removal and the sync answers
`already_absent` without a sync of its own; that receipt is not in `receipts`.

### CaseDatabase and StableWindow

A PostgreSQL server under `tiv baseline`, which seals the customer's case as a
template once the operator repeated the challenge, and runs, which attest the
baseline and replace the case by a copy of it before each case. A database has an
oid, a marker in a table, a comment, two flags and its data; the command remembers
what it observed.

| Code | Action |
|---|---|
| `observe_case_identity`, `ConfiguredCaseDatabase::connect` | `ObserveCatalog`, `ObserveMarker`, `Connect` |
| `observe_sealed_baseline_identity`, `attest_sealed_baseline_contents`, `create_database_from_template`, `drop_database_exact` | `SealedCatalog`, `CreateClone`, `InspectClone`, `DropClone`, `SweepClone`, `SealedAgain` |
| `run_configured_baseline`, `seal_and_reset_prove` | `RequireBaselineAbsent`, `Challenge`, `FenceCase`, `CopyCase`, `UnfenceCase`, `MarkBaseline`, `PlantProbe`, `SealBaseline`, `DropCase`; in both, `CloneBaseline`, `MarkCase` |
| `reset_verified_case`, `prepare_case_replacement` | `BeginReset`, `RequireRecoveryAbsent`, `RecheckCase`, `RenameCase`, `CommitReset` |
| `fail_case_reset`, `restore_original_case` | `LookUp`, `DropReplacement`, `OpenOriginal`, `RenameBack` |
| `stop_customer_services`, `start_customer_services` | `StopServices`, `StartServices` |
| verifier sessions, `await_stable` | `Connect`, `AwaitQuiescence` over `StableWindow` |
| a kill; somebody else | `Crash`; `Recreate`, `Substitute` |

A statement is refused, carried out, or carried out with its answer lost. Somebody
else may recreate the case or change the baseline between two statements, except
from the last look at the oid to the end of the mutation (`Trusting`): the code goes
by the name from there, and no check of it could help. In the seal that stretch is
longer than a reader would expect, because the last look at the oid comes before the
marker is read in another session. A failed restore, too, goes by the name and owner.

* `ConsentIsExact`: `tiv baseline` drops the database the operator named, after its
  data was sealed, and no other.
* `OriginalSurvives`: a run gives the original up for a whole replacement only,
  whatever fails and wherever it dies.
* `ServicesStartOnWhole`: services come up on the original or the attested copy.
* `SessionsAreBound`: every verifier session reads the database its reset made.
* `LeftoversAreReported`: clones do not pile up silently.
* `CompletionIsStable`: quiescence is given for a stretch of true answers only. The
  comment of `DatabaseQuiescenceCompletion` says "held continuously"; samples are all
  the code has, and all the property claims.

Assumed: one command at a time (the project lock; `tiv baseline` takes no lock, so
two of it, or one during a run, are not covered). Oids and markers nobody remembers
may be used again. What other sessions do to a statement is its refusal. An error
`servicesFailed` can hide that a clone was left; that is `left` in the model.

### Shrinker and Reduction

`Shrinker` has the candidate generator as operators: `Complexity` with its
lexicographic order, the deletions and simplifications a schedule offers (`Offers`),
`Normalize`, which replays a schedule from the compiler's initial state and drops what
is not eligible, and `Batch`, the sorted frontier with its cap. The identity of a
candidate is its schedule.

`Reduction` is the chain of the three commands. A schedule is executed three times;
any subset of the invariants may be violated in an attempt, and an attempt may fail,
diverge from the trace that is its authority, find its baseline reused or
incompatible, or be cut off by the deadline or a cancellation.

| Code | Action |
|---|---|
| attempt loops of all three | `BeginAttempt`, `EndAttempt`, `Interrupted`, `BoundaryRefused`, `ExecutionFails`, `TraceDiverges`, `BaselineReused` |
| `configured_replay.rs` | `StartReplay`, `PublishReplay` |
| `configured_shrink.rs` | `StartShrink`, `SourceEvaluated`, `CacheHit`, `EvaluateCandidate`, `CandidateEvaluated`, `StopSearch`, `FrontierExhausted`, `BudgetExpires` |
| `configured_minimized_replay.rs` | `StartMinimized`, `PublishMinimized` |
| the campaign before | `Compile`, `recorded` |

A loader reads documents that were written once, so an artifact keeps what the loader
says of them (`sound`): that three attempts are coherent, a candidate is one of its
source and accepted exactly when two attempts matched, the summary fits. Names,
digests, hashes and the distinct oids and markers it wants of the attempts are left
out. A partial artifact is loaded by nobody.

* `CompleteIsLocalMinimum`: a search that ends as complete left no candidate of its
  best schedule untried, those the cap of an earlier frontier cut off included.
* `MinimizedReproduces`: a minimized trace is simpler than its source, made of its
  actions, and showed the same failure twice; the next command takes what a replay
  publishes as a counterexample, and whatever a report tells its reader to run takes
  the artifacts there are.
* `ExecutedIsCompilable`: what is executed is a plan the compiler could have made, so
  what `CaseHttp` shows of compiled plans holds of candidates.

That a shrink ends is not stated: an attempt ends by the supervisor's timeouts
(`RunEnds`), and the evaluated candidates are bounded by `CandidateLimit`.

Two disagreements with `docs/rust-backend-architecture-plan.md` were seen while
modelling, and are in the model as the code does them. The deadline at the third
attempt of the source (`configured_shrink.rs:401`) publishes `source_inconclusive`
after two of two attempts matched, where `:831` of the plan says that two fresh
attempts did not reproduce the failure; the report then counts a match of 2/2 as
below 2/3. And the time cap of a case is taken before the baseline reset
(`configured_shrink.rs:570`), so an execution can outlive the deadline by the time of
the reset, where `:818` says that it is capped by the remaining time.

## Runs and bounds

| Run | Distinct states | Bounds | Why they are enough |
|---|---|---|---|
| `FixtureDataPlane` | 1,613,472 | 2 callers, 2 keys, 2 requests, 2 plans of 3 outcomes, 2 gates, 3 commands | a retry, a conflict, a second key, a held call and an exhausted gate sequence happen around a reset |
| `FixtureWebhooks` | 28,946 | 2 deliveries of any mode, 1 held call, 3 gates, 4 commands, no symmetry | two Request deliveries, a stale handler, a reset and a discard meet; the third gate exhausts the sequence; every wait and every way out of it |
| `AppConcurrent` | 2,186,328 | 2 checkouts and 2 overlapping webhooks, or 1 checkout and 3 webhooks one at a time; 1 kill | a duplicate event overlaps itself; a checkout is retried after a lost create or a kill; success, older event and duplicate in any order |
| `AppLiveness` | 137,130 | 2 webhooks, their reconcilers, no kill, no symmetry | all lock waits of two transactions |
| `AppRace` | – | webhooks one after another | the counterexample needs one |
| `CaseExecutes` | 1,503,544 | 9 specifications with budgets from 6 to 22, both schedulers, 4 applications | every outcome and fault with room for a retry, a second object, a kill at each cut and its restart; older events where the queue is long enough; every short budget, where the filter binds |
| `RecoveredOutcome` | – | the same plans, the repaired application | the counterexample needs a lost create, a retry and a confirmation |
| `CampaignRun` | 787,652 | 2 cases of 5 actions: http, kill, restart, wait, check; 2 invariants | two producers number records over several actions; the second case finds what the first left; every await hangs, is dropped, cancelled and crashed at; a write between two queries |
| `CampaignChecksums` | – | 1 case of 4 actions | the counterexample needs the first intent |
| `ArtifactStore` | 317,628 | 2 processes, 2 projects, 2 run ids, 4 commands, 1 power loss | campaign, derived run and the cleanup of both, or a cleanup twice, in any interleaving |
| `CaseDatabase` | 4,758,489 | 3 commands, 2 resets of a run, 1 change by others; a window of 2 of 3 ticks | seal, a run that fails or dies, and the command after it; a second reset finds what the first left; the window restarts once and the deadline is met |
| `Reduction` | 448,732 | 3 specifications with budgets 9 and 10, invariants {1, 2}, frontiers of 3, 5 candidates | frontiers below and above the cap; two acceptances in a row, a cached candidate, an earlier and a later failure beside the expected one |

The bounds are `GateLimit`, `CommandLimit`, `KillLimit`, `LossLimit`, `ResetLimit`,
`OutsiderLimit` and the sizes of the sets. In the fixture `GateLimit` and
`CommandLimit` stand for the end of a `u64`; in `ArtifactStore` and `CaseDatabase`
`CommandLimit` counts commands. `WaitLimit`, `FrontierLimit` and `CandidateLimit` are
the code's own limits with small values. `run` is bounded because a reset is a
command. Deadlock checking is on for `CaseExecutes` and `Reduction`, where stopping
early would be the bug; it is off in the other passing runs: the fixture and the
application stop when the driver does, the campaign, the artifact store and the
database when their commands are used up. Symmetry is used only in runs without
liveness, over values the modules only compare.

Fairness. `Fixture!FairSpec` is weakly fair for handlers that can run and for the end
of a delivery: the webhook client has a 10 s timeout, so "answered or failed" always
comes. `GateSignal::wait` registers for the notification before it loads the state, so
a signal stored at any time is seen and a signalled handler is ready. Nothing is
assumed of the application, the control client or the driver.
`ReferenceApp!FairSpec` is weakly fair for each webhook task: tokio polls ready
tasks and PostgreSQL wakes a waiter when the row is free. Weak fairness is enough
because each of the finitely many tasks takes a row lock once and gives it back.
`CaseRun!FairSpec` is weakly fair for the supervisor alone: the case timeout, the
command and health timeouts of the recovery and the timeouts of the database sessions
bound its waits, and the rest are its own file operations, taken to return. Of the
evaluation, the statements inside the snapshot transaction have timeouts; the
connections, the attestation and the projection before it have none, so `RunEnds`
assumes that the database answers them. Nothing is assumed of the steps of the case,
the writer or the daemon. `CaseDatabase` and `Reduction` state safety only.

## Proofs

Each invariant below holds for every value of the constants, in every behaviour.
Few of the properties are inductive; what each proof adds to them is the point of
it. Every invariant that was strengthened was first given to TLC, as an invariant of
the runs or of a larger instance, before it was proved.

| Module | Theorems |
|---|---|
| `FixtureProofs` | `TypeOK`, `NoOrphanWaiter`, `GateHasOneOwner`, `ForwardedNeverPersists`, `ReplayIsExact`, `SucceededIffEvent`, `ProviderMonotone`, `ForwardedLeavesByCommand` |
| `PlannerProofs` | `TypeOK`, `BudgetSuffices`, `NeverStuck`, `MinimumIsExact`, `PaymentHasObject` |
| `ReferenceAppProofs` | `LocalNeverAhead`, `ProviderObjectUnique`, `EffectsAndLedgerOnce`, `TerminalSuccessMonotonic` |
| `CaseRunProofs` | `JournalFirst`, `NeverRefused`, `DurableLogs`, `CompleteIsWhole`, `JournalTellsApplication`, `AppLeftRunning`, `CauseIsFirst` |
| `ArtifactStoreProofs` | `AcceptedIsWhole`, `PublishedSurvives`, `DescendantKeepsSource`, `RemovedStaysRemoved` |
| `CaseDatabaseProofs` | `CompletionIsStable`, `SessionsAreBound`, `LeftoversAreReported`, `ConsentIsExact`, `OriginalSurvives`, `ServicesStartOnWhole` |
| `CaseHttpProofs` | `KillsAreSupported`, `PlansExecute`, `SymbolicStateIsReal`, `CheckpointIsWhole` |
| `ReductionProofs` | `CompleteIsLocalMinimum`, `MinimizedReproduces`, `ExecutedIsCompilable` |

### The fixture

The first half of `FixtureProofs` is about gates. The invariant is `GateInv`: every gate in use was
allocated (`GatesAllocated`), has one place and one waiter (`GatesOwned`), is pending
while it is in a map (`GatesPending`), the capability a delivery remembers is the one
behind its gate (`DeliveryKnows`), and every waiter on a pending gate is reachable
(`WaitersReachable`). The heart of it is that `next_gate_sequence` is never reset: a
number a stale handler remembers is less than every number given out later.

The second half is about the provider behind it. `ProviderSound` says that ids
are positions and that an event exists exactly for what happened to its object; it is
kept by every operation, and every operation but a reset extends what was there
(`Extends`). `ReplayIsExact` speaks of answers the callers have; it is inductive only
with the answers a released gate would still give, and with the cache: an executed
create of this run was told what its key has recorded (`ReplayInv`).

### The planner

The invariant `PlanInv` says that the symbolic state is sound (the fields fit the
phase, objects exist past the checkout, objects are bounded by phase and attempts)
and that the rest of the budget suffices. In a sound state each eligible action
changes the distance by at least minus one and one action by exactly minus one; that
is `MinimumIsExact`, and with the filter it gives `NeverStuck`. `MinimumIsExact` and
`PaymentHasObject` are not in a run any more: the theorems say them for every
specification.

### The reference application

`LocalInv` types the records of every task and says what each task knows: whoever is
about to write `succeeded` has seen the object succeed, and what has succeeded stays
so. It needs no mode, so `LocalNeverAhead` holds of the faulty application too.

The other three are promises of the repaired modes, and each names the ones it needs
as hypotheses of its theorem, because without them the property is false, as the
faulty modes are there to show:

* `ProviderObjectUnique`, with the same retry key and the search of the caller: only
  one checkout at a time is at work, and one that creates found no object or its own
  key in the cache (`UniqueInv`).
* `EffectsAndLedgerOnce`, with deduplication and the balanced ledger: a transaction
  that inserted its event is the only one, and one that did not has seen it processed
  (`OnceInv`).
* `TerminalSuccessMonotonic`, with monotonic states: from its reads to its commit a
  request that will write an older status has seen no success recorded, and no other
  request commits meanwhile (`MonotonicInv`). This holds where the driver delivers
  one event after another; the property is stated for such a driver, and `AppRace`
  shows what a reconciler can still do.

### The campaign

`IInv` has a part for each actor. `JournalInv` is the writer: the file is what was
acknowledged, at most one record more, and in part only after a failed write
(`SyncedInFile`, `WriterFile`), its counters are those of the records in it
(`WriterCounts`), and the request in the channel is one that may follow
(`RequestFits`). `ExecInv` is the future that executes the case: `AtPlace` says, for
each place it can be at, how far the log on stable storage is, whether it is open, and
how many observations it has; this is what makes `NeverRefused` and `DurableLogs`
true. `AtDaemon` and `AtRecovery` say what the docker daemon may still have to do, in
the future and after it. `CasesDone`, `Published` and `SnapshotInv` carry what is known
of a case that is over until the manifest and the artifact.

`DurableLogs` is a refinement: every step of the campaign appends at most one record
to the log of one case, and one that the abstract `JournalLog` may append.

### The artifact store

Three things interlock in `IInv`. A run that is published or about to be has the files
its manifest lists, under a name that a power loss cannot take (`Owns`, `RunOK`,
`Safe`). A source is in that state for as long as a command that holds its project's
lock is about to publish a descendant (`SourceKept`), and for a descendant that is
published (`DescendantOK`). And a cleanup that scans its siblings still has such a
descendant to look at (`ScanOK`), so that it cannot begin to remove the source. The
step that all this is for is the rename of the descendant while a cleanup of another
project runs, and its other half: two commands of one project never run at once
(`HoldsLock`), which is also why a run has one owner (`OneOwner`).

### The case database

`CompletionIsStable` holds for every window, pause and timeout that `await_stable`
accepts, and whatever the commands do. The invariant says that the window remembers an
answer, that all answers since were true, and that no two answers come at the same
time, because a pause of at least a tick lies between two evaluations; without the
last, a refused answer could hide in the tick in which the window opens again.

The commands have an invariant of their own, `CaseInv`. None of the five properties
is inductive: what a run may rely on differs from step to step, and most of it
outlives what others do to the names meanwhile. The argument is this.

* Fresh ids. An oid, a marker or a private name that is drawn is none that anybody has
  or remembers (`FreshIsFresh`), because fewer ids are in use than may be drawn. So a
  baseline that others have changed never again has the identity that was attested.
* `Attested`: as long as the baseline's identity, its marker included, is the attested
  one, its data is what the attestation saw. The catalog alone does not show the
  marker; the clone does, and the two halves are followed separately (`AsSealed`,
  `Is`).
* `ReplacementIsSeed`: the case cloned from the baseline has the attested data, or the
  second attestation fails. At the commit only the first is left.
* `ReplacementIsWhole`, `Bound`: whoever starts the services, or opens a session, sees
  that replacement or the original put back.
* `OriginalIsAside`: while the private name is taken as well, the database under the
  name of the case is the command's own (`made`), and it is dropped only then.
  `Consented`: from the consent to the drop the case is the one the operator named.
* `NothingElse`: what exists besides the case and the baseline is what the step has
  made, until it is dropped or reported.

`OriginalSurvives`, `ServicesStartOnWhole` and `ConsentIsExact` are action properties;
the invariant in the state before gives each. TLC found `CaseInv` true in every state
of the run before it was proved.

### One case over HTTP

`KillsAreSupported` needs only what was observed of the last action (`Seen`), which is
all the scheduler lets a kill cut. The other three say that the plan, made of a symbolic
state without a stack, fits the stack it runs on, and share one invariant, `HttpInv`:

* Until the case ends there is a symbolic state m in which the current action was
  planned (`PlannedAt`), and m is what is real (`Real`). The plan is one action ahead,
  so the state to compare with is the one before the current action, and the invariant
  has to say that `model` comes from it by that action.
* A case that failed has diverged, and the faulty application never diverges.

`Real` has a part for each of the things an adapter checks before it acts, because
`PlansExecute` is the claim that none of the checks fails:

| Part | What it adds |
|---|---|
| `ProviderPart` | objects are numbered as they were made, no key is in use between requests, the adapter knows every object, and only the outcomes of recovered requests are left in the queue |
| `ControlPart` | both adapters know the last command and observation; the process is up when the plan says so; what was known at quiescence is all there is |
| `HeldPart` | a call is held in exactly the phases the plan holds one in, behind the one gate, and its capability is captured |
| `CutPart` | the exchange kept for a kill is there exactly when the kill is the current action |
| `TracePart` | each object the plan counts is captured, each object there is has a reference, and no capture is of an action to come |
| `EventPart` | the queue and the events are as the plan counts them, and the k-th event generated is of the object whose turn it was |
| `StatusPart` | the payment under way has succeeded when the plan takes it as confirmed |

The proof has a lemma for each action (`ChecksOutAsPlanned`, `HoldsTheCheckout`,
`ConfirmsAsPlanned`, `KillsAsPlanned`, ...), each of the form: planned in a state that
is real, the action does not fail unless a call diverged, and leaves a state that is
real for the next. A checkout is the hard one: it finds an object it owns, makes its own
calls, or takes outcomes a recovered request left before its own (`CheckoutFacts`), and
in the last two the adapter's count of objects and outcomes has to tell a divergence.
`CheckpointIsWhole` comes from `EventPart`: at least one event, or two where stale
snapshots are allowed, was generated in the turn of each object.

### Replay and shrink

`ReductionInv` has five parts. `PlanPart`: the plan so far is a run of the compiler, and
the source, executed from the start, leads to the state it is in. `CommandPart`: each
command and each artifact has the artifact before it. `TrialPart`: what is tried is the
source, the minimized trace, or the head of the frontier, which is new and within the
limit. `ArtifactPart`: what is published is what the loaders ask for. `SearchPart` is the
search: every evaluated schedule is a candidate of the source, once; the best is simpler
than all others accepted (`BestSound`); and of the batch offered for the best, whatever
has not been evaluated is still in the frontier (`FrontierSound`). So when the frontier of
an uncapped batch is used up, every offer has been evaluated, and none was accepted,
since an offer is simpler than the best (`CompleteCovers`): a local minimum.

`ExecutedIsCompilable` needs that a candidate is a plan the compiler could have made
(`CandidatePlannable`), although the search asks less than preflight: it does not look at
the probe a kill waits for. The source makes up for it, because a simplification leaves
kills alone and a script that succeeds is only replaced by one that succeeds
(`SimplificationKeeps`, `SimplerStaysNormal`).

The operators of `Shrinker` run over a schedule, so what they return needs induction, and
the library's induction theorems cannot be instantiated. Instead `SetInduction` shows
with the pigeonhole principle that a set with 0 that is closed under adding one holds all
the numbers to a bound; it is cited for the set of the numbers that have the property at
hand. The operators are recursive functions, which first have to be shown to exist
(`NormalizedExists` and the like). By such an induction the states of `Normalize` are sound
and its result is made of entries of the schedule (`KeptType`), what it keeps of a prefix
depends on the prefix alone (`SamePrefix`), and whatever is offered is a simpler candidate
(`OffersType`).

### Assumptions

They are the ones declared on the constants: a valid specification is one
`PlanSpec::validate` accepts; `NoEntry`, `NoRetry`, `NoValue`, `NoRequest` and the
like are no real values; a plan has at least two actions, ends with a wait and a
check, and restarts what it kills; bounds are natural numbers. The values of `Seeds`, `Keys`, `Callers`, `Processes`,
`Runs` and `Projects` are arbitrary, and no set of them is assumed to be finite unless
the module counts it.

### Only model-checked

* All liveness (`RequestDeliverySettles`, `WebhooksSettle`, `RunEnds`): with ENABLED it
  is beyond the prover. Every other property of a passing run is a theorem.

## Not modelled

Parsing, tokens, signatures, the bytes of requests and the text of errors and
reports; amounts other than one, and with them invariant 03; several operations in
one application; clocks, except as timeouts that may come at any time and the ticks
of `StableWindow`.

* `replay.rs` and `reference_app.rs`: the two-action traces of `tiv replay plan`,
  `reference-app`, `reference-app-evidence` and `reference-app-case`. They are an
  earlier path beside the configured runs, sequential and without a search.
* `evidence.rs` and the hash chain of the journal: what a record contains, not when.
* `archive.rs` and the rest of `spike.rs`: the databases of those commands.
* `compatibility.rs`, `config.rs`, `doctor.rs`, `init.rs`, `repository.rs`, the command
  line and the site: comparisons, parsing, scaffolding and pages without a state.
* Permissions, links and ownership of files and locks.

## Plan

1. `Provider`, `Fixture`, `ReferenceApp`, `Planner` and their first proofs: done.
2. `JournalLog`, `Journal`, `CaseRun`: done, with the journal's refinement checked.
3. `CaseHttp`, the adapters executing compiled plans, with `CaseTrace`: done.
4. `ArtifactStore`, with cleanup and the project lock: done.
5. `CaseDatabase`, `StableWindow`, `Snapshot`: done.
6. `Shrinker`, `Reduction`: done.
7. Proofs of the fixture, the planner, the application, the campaign, the artifact
   store, the case database, the executed case and the reduction: done.
