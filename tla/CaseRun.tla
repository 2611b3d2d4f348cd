-------------------------------- MODULE CaseRun --------------------------------
(***************************************************************************)
(* A configured campaign: run_configured_campaign_with_cancellation and    *)
(* what it calls, for every case of the campaign in turn                   *)
(* (crates/tiv-runtime/src/configured_campaign.rs, campaign.rs,            *)
(* reference_case.rs, run_supervisor.rs, configured_process.rs,            *)
(* artifacts.rs).                                                          *)
(*                                                                         *)
(* The case is a future polled by the supervisor, which drops it when the  *)
(* case timeout or a cancellation comes first.  What the future has set    *)
(* going by then goes on without it: the writer task of the journal, an    *)
(* open of the journal file, a docker command the daemon already has.      *)
(***************************************************************************)
EXTENDS Journal, Snapshot

CONSTANTS Plan,           \* the kinds of the actions of every case
          NoManifest

ActionKinds == {"http", "kill", "restart", "wait", "check"}

\* The planner restarts a killed application before anything else, and ends
\* every case with quiescence and the checkpoint (crates/tiv-core/src/plan.rs).
ASSUME PlanAssumption ==
    /\ Plan \in Seq(ActionKinds) /\ Len(Plan) = ActionCount /\ ActionCount >= 2
    /\ \A k \in Actions : Plan[k] = "kill" <=> k + 1 \in Actions /\ Plan[k + 1] = "restart"
    /\ \A k \in Actions : (Plan[k] = "wait" <=> k = ActionCount - 1)
                          /\ (Plan[k] = "check" <=> k = ActionCount)

VARIABLES phase,          \* where the campaign is
          caseNo,         \* the case it is at
          cancelled,      \* RunCancellation
          exec,           \* the future of the case: place and action
          adapter,        \* ReferenceCaseAdapter
          outcome,        \* SupervisedCaseOutcome of the case
          recovery,       \* the recovery of the application
          daemon,         \* docker commands that have not taken effect
          appUp,          \* whether the application container runs
          verdict,        \* campaign_verdict
          results,        \* case_results: the invariants each case violated
          cause,          \* why the campaign failed
          artifact,       \* the run's directory
          manifest,       \* the digests of the journals in the manifest
          started,        \* history: <<case, action>> whose effect was begun
          lateKill,       \* history: a kill was on its way at recovery
          moments         \* history: the databases the snapshots were of

runVars == <<phase, caseNo, cancelled, verdict, results, cause, artifact, manifest>>
caseVars == <<exec, adapter, outcome, started>>
stackVars == <<recovery, daemon, appUp, lateKill>>
evaluationVars == <<snapshotVars, moments>>
processVars == <<stackVars, evaluationVars>>
vars == <<journalVars, runVars, caseVars, processVars>>

Over == {"ended", "refused", "crashed"}
Errors == {"infrastructure", "inconclusive"}

Idle == [place |-> "gone", action |-> 0, error |-> "none"]
FreshAdapter == [healthy |-> TRUE, quiesced |-> FALSE, checkpoint |-> FALSE,
                 sequence |-> 0]

Init ==
    /\ JournalInit /\ SnapshotInit
    /\ phase = "start" /\ caseNo = 1 /\ cancelled = FALSE
    /\ exec = Idle /\ adapter = FreshAdapter /\ outcome = "none"
    /\ recovery = "none" /\ daemon = {} /\ appUp = TRUE
    /\ verdict = "held" /\ results = <<>> /\ cause = "none"
    /\ artifact = "none" /\ manifest = NoManifest
    /\ started = {} /\ lateKill = FALSE /\ moments = <<>>

(***************************************************************************)
(* The campaign up to the execution of a case.                             *)
(***************************************************************************)

\* The error of execute_staged_campaign, from which partial evidence is made.
\* A configuration error the database reveals late counts as infrastructure.
Fail(class) ==
    /\ phase' = "finalize"
    /\ cause' = class

\* The project lock, the repository's provenance and the staging directory;
\* without them there is no artifact.
StartRun ==
    /\ phase = "start"
    /\ \/ phase' = "refused" /\ UNCHANGED artifact
       \/ ~ cancelled /\ phase' = "attest" /\ artifact' = "staging"
    /\ UNCHANGED <<journalVars, caseVars, processVars, caseNo, cancelled,
                   verdict, results, cause, manifest>>

\* The one container of the application's service runs, is healthy, has the
\* loopback port of the health check and answers it.
ApplicationAttested == appUp

\* validate_recovery_inspection: the container is the configured one, and runs.
InspectedRunning == appUp

\* The attestations of the stack before the first case.
Attest ==
    /\ phase = "attest"
    /\ \/ cancelled /\ Fail("interrupted")
       \/ ~ cancelled /\ Fail("infrastructure")
       \/ ~ cancelled /\ ApplicationAttested /\ phase' = "next" /\ UNCHANGED cause
    /\ UNCHANGED <<journalVars, caseVars, processVars, caseNo, cancelled,
                   verdict, results, artifact, manifest>>

NextCase ==
    /\ phase = "next"
    /\ \/ caseNo \notin Cases /\ phase' = "finalize" /\ UNCHANGED cause
       \/ caseNo \in Cases /\ cancelled /\ Fail("interrupted")
       \/ caseNo \in Cases /\ ~ cancelled /\ phase' = "reset" /\ UNCHANGED cause
    /\ UNCHANGED <<journalVars, caseVars, processVars, caseNo, cancelled,
                   verdict, results, artifact, manifest>>

\* The baseline is restored, database, process and fixture are attested, and
\* the future of the case is made.
ResetCase ==
    /\ phase = "reset"
    /\ \/ /\ Fail("infrastructure")
          /\ UNCHANGED <<exec, adapter, outcome>>
       \/ /\ ApplicationAttested
          /\ phase' = "exec"
          /\ exec' = [place |-> "fixture", action |-> 1, error |-> "none"]
          /\ adapter' = FreshAdapter
          /\ outcome' = "none"
          /\ UNCHANGED cause
    /\ UNCHANGED <<journalVars, processVars, started, caseNo, cancelled,
                   verdict, results, artifact, manifest>>

(***************************************************************************)
(* The execution of a case.  Each step is a stretch of the future between  *)
(* two awaits; the supervisor looks at the cancellation before it polls.   *)
(***************************************************************************)

Polled(place) == phase = "exec" /\ ~ cancelled /\ exec.place = place

GoTo(place) == exec' = [exec EXCEPT !.place = place]

\* The future is over; the supervisor goes on to the recovery.
Supervised(result) ==
    /\ phase' = "recover"
    /\ outcome' = result
    /\ recovery' = "inspect"
    /\ exec' = Idle
    /\ lateKill' = ("kill" \in daemon)

executorFrame == <<runVars, outcome, adapter, started, processVars>>

ResetFixture ==
    /\ Polled("fixture")
    /\ \/ /\ GoTo("opening")
          /\ BeginCreate(caseNo)
          /\ UNCHANGED <<phase, outcome, recovery, lateKill>>
       \/ /\ Supervised("infrastructure")
          /\ UNCHANGED journalVars
    /\ UNCHANGED <<caseNo, cancelled, verdict, results, cause, artifact, manifest,
                   adapter, started, daemon, appUp, evaluationVars>>

JournalCreated ==
    /\ Polled("opening")
    /\ FileOpened(TRUE)
    /\ GoTo("begin")
    /\ UNCHANGED executorFrame

JournalNotCreated ==
    /\ Polled("opening")
    /\ FileNotOpened
    /\ Supervised("infrastructure")
    /\ UNCHANGED <<caseNo, cancelled, verdict, results, cause, artifact, manifest,
                   adapter, started, daemon, appUp, evaluationVars>>

\* run_actions is left, with or without an error, and the journal finished.
FinishWith(error) ==
    /\ exec' = [exec EXCEPT !.place = "finish", !.error = error]
    /\ CloseChannel

\* observation_sequence(index, offset); variant: the index taken from one
ControlSequenceFromOne(k, offset) == 2 * k + offset
ControlSequence(k, offset) == 2 * (k - 1) + offset

Intent(k) == [kind |-> "intent", action |-> k, sequence |-> ControlSequence(k, 1)]
OutcomeOf(k) == [kind |-> "outcome", action |-> k, sequence |-> ControlSequence(k, 2)]
Observation(k, n) == [kind |-> "observation", action |-> k, sequence |-> n]

BeginAction ==
    /\ Polled("begin")
    /\ IF exec.action \in Actions
         THEN Send(Intent(exec.action)) /\ GoTo("awaitIntent")
         ELSE FinishWith("none")
    /\ UNCHANGED executorFrame

Acknowledged == reply = "ok"

\* The adapter's future is made once the intent is acknowledged; variant: at
\* once.
BeginsAtOnce == TRUE
MayBegin == Acknowledged

IntentAppended ==
    /\ Polled("awaitIntent") /\ MayBegin
    /\ GoTo("effect")
    /\ started' = started \cup {<<caseNo, exec.action>>}
    /\ UNCHANGED <<journalVars, runVars, outcome, adapter, processVars>>

AppendFails ==
    /\ \/ Polled("awaitIntent") \/ Polled("awaitObservation") \/ Polled("awaitOutcome")
    /\ reply \in {"refused", "ioError"}
    /\ FinishWith("infrastructure")
    /\ UNCHANGED executorFrame

\* The lifecycle ReferenceCaseAdapter::execute insists on.
InOrder(kind) ==
    CASE kind = "kill" -> adapter.healthy
      [] kind = "restart" -> ~ adapter.healthy
      [] kind = "check" -> adapter.quiesced /\ ~ adapter.checkpoint
      [] OTHER -> ~ adapter.quiesced /\ ~ adapter.checkpoint

Performing(kinds) ==
    Polled("effect") /\ Plan[exec.action] \in kinds /\ InOrder(Plan[exec.action])

RecordOutcome ==
    /\ Send(OutcomeOf(exec.action))
    /\ GoTo("awaitOutcome")

\* The requests of driver, fixture and application in one action: they are
\* answered, fail or hang.
HttpAnswered ==
    /\ Performing({"http"}) /\ appUp
    /\ \/ RecordOutcome
       \/ UNCHANGED journalVars /\ GoTo("observe")
    /\ UNCHANGED executorFrame

\* An HTTP or database effect fails, its captures are not those expected,
\* there is no delivery to cut by a kill, or the action is out of order.
Failures ==
    IF ~ InOrder(Plan[exec.action]) THEN {"infrastructure"}
    ELSE CASE Plan[exec.action] \in {"http", "wait"} -> Errors
           [] Plan[exec.action] = "kill" -> {"infrastructure"}
           [] OTHER -> {}

EffectFails ==
    /\ Polled("effect")
    /\ \E error \in Failures : FinishWith(error)
    /\ UNCHANGED executorFrame

\* record_observation, under the next sequence of its producer
RecordObservation ==
    /\ Polled("observe")
    /\ Send(Observation(exec.action, adapter.sequence + 1))
    /\ GoTo("awaitObservation")
    /\ UNCHANGED executorFrame

ObservationAppended ==
    /\ Polled("awaitObservation") /\ Acknowledged
    /\ adapter' = [adapter EXCEPT !.sequence = @ + 1,
                                  !.healthy = @ /\ Plan[exec.action] # "kill"]
    /\ RecordOutcome
    /\ UNCHANGED <<runVars, outcome, started, processVars>>

\* kill_application and restart_application
CommandOf(kind) == IF kind = "kill" THEN "kill" ELSE "start"

IssueDocker ==
    /\ Performing({"kill", "restart"})
    /\ daemon' = daemon \cup {CommandOf(Plan[exec.action])}
    /\ GoTo("docker")
    /\ UNCHANGED <<journalVars, runVars, outcome, adapter, started, recovery,
                   appUp, lateKill, evaluationVars>>

\* Variant: the client's answer is not waited for.
SettledAtOnce(kind) == TRUE

\* The kill has been inspected, or the restarted application is healthy.  A
\* cut delivery is discarded then, and that is observed.
Settled(kind) ==
    /\ CommandOf(kind) \notin daemon
    /\ IF kind = "restart" THEN ApplicationAttested ELSE ~ InspectedRunning

DockerAnswered ==
    /\ Polled("docker")
    /\ Settled(Plan[exec.action])
    /\ \/ /\ adapter' = [adapter EXCEPT !.healthy = (Plan[exec.action] = "restart")]
          /\ RecordOutcome
       \/ /\ Plan[exec.action] = "kill"
          /\ GoTo("observe")
          /\ UNCHANGED <<journalVars, adapter>>
    /\ UNCHANGED <<runVars, outcome, started, processVars>>

\* The client fails or is given up after ten seconds; the daemon may have the
\* command all the same.
DockerFails ==
    /\ Polled("docker")
    /\ FinishWith("infrastructure")
    /\ UNCHANGED executorFrame

\* wait_for_quiescence and check_checkpoint
ReachBoundary ==
    /\ Performing({"wait", "check"})
    /\ adapter' = [adapter EXCEPT !.quiesced = (Plan[exec.action] = "wait"),
                                  !.checkpoint = (Plan[exec.action] = "check")]
    /\ RecordOutcome
    /\ UNCHANGED <<runVars, outcome, started, processVars>>

OutcomeAppended ==
    /\ Polled("awaitOutcome") /\ Acknowledged
    /\ exec' = [exec EXCEPT !.place = "begin", !.action = @ + 1]
    /\ UNCHANGED <<journalVars, runVars, outcome, adapter, started, processVars>>

\* finish() has joined the writer.  Its error counts when there is no other;
\* a trace that cannot be materialised or a missing checkpoint is one, too.
JournalFinished ==
    /\ Polled("finish") /\ writer \in {"done", "failed"}
    /\ \E materialised \in BOOLEAN :
         Supervised(CASE exec.error # "none" -> exec.error
                      [] writer = "failed" \/ ~ materialised \/ ~ adapter.checkpoint
                           -> "infrastructure"
                      [] OTHER -> "ok")
    /\ UNCHANGED <<journalVars, caseNo, cancelled, verdict, results, cause,
                   artifact, manifest, adapter, started, daemon, appUp, evaluationVars>>

ExecutorStep ==
    \/ ResetFixture \/ JournalCreated \/ JournalNotCreated \/ BeginAction
    \/ IntentAppended \/ AppendFails \/ HttpAnswered \/ EffectFails
    \/ RecordObservation \/ ObservationAppended \/ IssueDocker \/ DockerAnswered
    \/ DockerFails \/ ReachBoundary \/ OutcomeAppended \/ JournalFinished

(***************************************************************************)
(* Supervision and recovery.                                               *)
(***************************************************************************)

\* The future is dropped at whichever await it is: the channel closes, and
\* what the writer, the opening thread or the daemon has is left to them.
Drop(result) ==
    /\ phase = "exec"
    /\ Supervised(result)
    /\ CloseChannel
    /\ UNCHANGED <<caseNo, cancelled, verdict, results, cause, artifact, manifest,
                   adapter, started, daemon, appUp, evaluationVars>>

\* Variant: only the appends are timed.
TimedOutInAppend ==
    /\ ~ cancelled
    /\ exec.place \in {"awaitIntent", "awaitObservation", "awaitOutcome"}
    /\ Drop("timedOut")

TimedOut == ~ cancelled /\ Drop("timedOut")
CancelledCase == cancelled /\ Drop("cancelled")

\* An open of the journal file that nobody waits for any more.
AbandonedOpen ==
    /\ phase # "exec" /\ phase # "crashed"
    /\ \/ artifact = "staging" /\ FileOpened(FALSE)
       \/ FileNotOpened
    /\ UNCHANGED <<runVars, caseVars, processVars>>

Writer ==
    /\ phase # "crashed"
    /\ WriterStep
    /\ UNCHANGED <<runVars, caseVars, processVars>>

\* recover_if_needed: inspect, start if it does not run, await health.  Each
\* part is bounded by a timeout and can fail.
recoveryFrame == <<journalVars, runVars, caseVars, appUp, lateKill, evaluationVars>>

InspectApplication ==
    /\ phase = "recover" /\ recovery = "inspect"
    /\ IF InspectedRunning
         THEN recovery' = "health" /\ UNCHANGED daemon
         ELSE recovery' = "start" /\ daemon' = daemon \cup {"start"}
    /\ UNCHANGED recoveryFrame

\* Variant: nobody waits for the start.
ApplicationStartIssued ==
    /\ phase = "recover" /\ recovery = "start"
    /\ recovery' = "ok" /\ phase' = "settle"
    /\ UNCHANGED <<journalVars, caseVars, daemon, appUp, lateKill, evaluationVars, caseNo,
                   cancelled, verdict, results, cause, artifact, manifest>>

ApplicationStarted ==
    /\ phase = "recover" /\ recovery = "start" /\ "start" \notin daemon
    /\ recovery' = "health"
    /\ UNCHANGED <<recoveryFrame, daemon>>

ApplicationHealthy ==
    /\ phase = "recover" /\ recovery = "health" /\ ApplicationAttested
    /\ recovery' = "ok" /\ phase' = "settle"
    /\ UNCHANGED <<journalVars, caseVars, daemon, appUp, lateKill, evaluationVars, caseNo,
                   cancelled, verdict, results, cause, artifact, manifest>>

RecoveryFails ==
    /\ phase = "recover"
    /\ recovery' = "failed" /\ phase' = "settle"
    /\ UNCHANGED <<journalVars, caseVars, daemon, appUp, lateKill, evaluationVars, caseNo,
                   cancelled, verdict, results, cause, artifact, manifest>>

ClassOf(result) ==
    CASE result = "cancelled" -> "interrupted"
      [] result = "timedOut" -> "inconclusive"
      [] OTHER -> result

\* How the case went, after the probe and quiescence sessions are closed: the
\* first cause is kept.  Variant: the recovery is looked at first.
RecoveryFirst(closed) ==
    CASE recovery = "failed" \/ ~ closed -> "infrastructure"
      [] outcome # "ok" /\ recovery = "ok" /\ closed -> ClassOf(outcome)
      [] OTHER -> IF cancelled THEN "interrupted" ELSE "none"

Settlement(closed) ==
    IF outcome # "ok" THEN ClassOf(outcome)
    ELSE IF recovery = "failed" \/ ~ closed THEN "infrastructure"
    ELSE IF cancelled THEN "interrupted" ELSE "none"

SettleCase ==
    /\ phase = "settle"
    /\ \E closed \in BOOLEAN :
         IF Settlement(closed) = "none"
           THEN phase' = "snapshot" /\ UNCHANGED cause
           ELSE Fail(Settlement(closed))
    /\ UNCHANGED <<journalVars, caseVars, processVars, caseNo, cancelled,
                   verdict, results, artifact, manifest>>

\* A step of the evaluation; the cancellation is not looked at.
Evaluate ==
    /\ phase = "snapshot"
    /\ \/ SnapshotPrepared /\ UNCHANGED moments
       \/ BeginSnapshot /\ moments' = Append(moments, shown')
       \/ EvaluateInvariant /\ UNCHANGED moments
       \/ EvaluationFails /\ UNCHANGED moments
    /\ UNCHANGED <<journalVars, runVars, caseVars, stackVars>>

\* The verdicts of the report, and the files of the case.
SnapshotCase ==
    /\ phase = "snapshot" /\ LeaveSession
    /\ \/ /\ Fail("infrastructure")
          /\ UNCHANGED <<results, verdict, caseNo>>
       \/ /\ Reported
          /\ results' = Append(results, outcomes)
          /\ verdict' = IF outcomes # {} THEN "violated" ELSE verdict
          /\ caseNo' = caseNo + 1
          /\ phase' = "next"
          /\ UNCHANGED cause
    /\ UNCHANGED <<journalVars, caseVars, stackVars, cancelled, artifact, manifest,
                   moments>>

\* The cases that the report counts as violating and offers a replay of.
Violating == {c \in DOMAIN results : results[c] # {}}

(***************************************************************************)
(* Artifacts.                                                              *)
(***************************************************************************)

\* The files there are get their checksums; the manifest holds them.  An
\* error leaves the staging directory.
WriteManifest ==
    /\ phase = "finalize"
    /\ \/ phase' = "ended" /\ UNCHANGED manifest
       \/ phase' = "rename" /\ manifest' = files
    /\ UNCHANGED <<journalVars, caseVars, processVars, caseNo, cancelled,
                   verdict, results, cause, artifact>>

\* Variant: the failure is not looked at.
AlwaysComplete == "complete"

Status == IF cause = "none" THEN "complete" ELSE "partial"

Publish ==
    /\ phase = "rename"
    /\ artifact' = Status
    /\ phase' = "syncBase"
    /\ UNCHANGED <<journalVars, caseVars, processVars, caseNo, cancelled,
                   verdict, results, cause, manifest>>

SyncBase ==
    /\ phase = "syncBase"
    /\ phase' = "ended"
    /\ UNCHANGED <<journalVars, caseVars, processVars, caseNo, cancelled,
                   verdict, results, cause, artifact, manifest>>

(***************************************************************************)
(* The environment.                                                        *)
(***************************************************************************)

\* Ctrl-C
Cancel ==
    /\ phase \notin Over /\ ~ cancelled
    /\ cancelled' = TRUE
    /\ UNCHANGED <<journalVars, caseVars, processVars, phase, caseNo, verdict,
                   results, cause, artifact, manifest>>

\* The daemon carries out a command, or never gets it from a client that
\* was killed.
Awaited(command) ==
    \/ phase = "exec" /\ exec.place = "docker" /\ CommandOf(Plan[exec.action]) = command
    \/ phase = "recover" /\ recovery = "start" /\ command = "start"

Docker ==
    /\ \E command \in daemon :
         /\ daemon' = daemon \ {command}
         /\ \/ appUp' = (command = "start")
            \/ ~ Awaited(command) /\ UNCHANGED appUp
    /\ UNCHANGED <<journalVars, runVars, caseVars, recovery, lateKill, evaluationVars>>

\* The machine or the process dies.  A rename that was not synchronised may
\* be lost.
Crash ==
    /\ phase \notin Over
    /\ phase' = "crashed"
    /\ LoseUnsynced
    /\ \/ UNCHANGED artifact
       \/ phase = "syncBase" /\ artifact' = "staging"
    /\ UNCHANGED <<caseVars, processVars, caseNo, cancelled, verdict, results,
                   cause, manifest>>

SupervisorStep ==
    \/ StartRun \/ Attest \/ NextCase \/ ResetCase \/ TimedOut \/ CancelledCase
    \/ InspectApplication \/ ApplicationStarted \/ ApplicationHealthy
    \/ RecoveryFails \/ SettleCase \/ Evaluate \/ SnapshotCase \/ WriteManifest \/ Publish
    \/ SyncBase

Next ==
    \/ ExecutorStep \/ SupervisorStep \/ Writer \/ AbandonedOpen
    \/ Cancel \/ Docker \/ Crash

Spec == Init /\ [][Next]_vars

\* The supervisor's steps are bounded by timers, or are file operations of its
\* own; the application, the writer of the journal and the daemon owe nothing.
FairSpec == Spec /\ WF_vars(SupervisorStep)

(***************************************************************************)
(* Properties.                                                             *)
(***************************************************************************)

LastDurable(c) == Durable(c)[Len(Durable(c))]

\* Write ahead: no action has had a chance to touch the application, the
\* fixture or a container unless its intent is on stable storage, then and
\* ever after, whatever is cancelled, timed out, failed or crashed
\* (execute_case_actions appends the intent and awaits before the adapter).
JournalFirst ==
    \A c \in Cases, k \in Actions : <<c, k>> \in started =>
        \E i \in 1 .. Len(Durable(c)) :
            Durable(c)[i].kind = "intent" /\ Durable(c)[i].action = k

\* Each case's journal on stable storage is a log in JournalLog's sense, even
\* where the writer is left to itself or dies (run_writer, write_durable).
DurableLogs ==
    /\ \A c \in Cases : Log(c)!Init
    /\ [][\A c \in Cases : UNCHANGED Durable(c) \/ Log(c)!Next]_journalVars

\* The sequences the executor computes from the action's index, those the
\* adapter counts, and the limits JournalLimits derives from the plan agree
\* with what the writer checks: it never refuses a record of a case.
NeverRefused == reply # "refused"

\* A complete artifact has every case: its verdict, and its journal whole,
\* synchronised, and as the manifest has it, up to the outcome of the last
\* action.  A crash does not take this back.  What a case is said to violate,
\* in a partial artifact too, is what the database violated at one moment
\* after it, whatever was written while the queries ran.
CompleteIsWhole ==
    /\ \A c \in DOMAIN results : results[c] = moments[c]
    /\ artifact = "complete" =>
        /\ Len(results) = CaseCount
        /\ verdict = "violated" <=> Violating # {}
        /\ \A c \in Cases :
              /\ files[c] = manifest[c] /\ Durable(c) = manifest[c]
              /\ LastDurable(c) = OutcomeOf(ActionCount)
              /\ <<c, ActionCount>> \in started

\* The last record on stable storage tells whether the application runs: it
\* is down from the outcome of a kill to the intent of the restart, and up
\* around every other action, so no request is sent to a container that a
\* late docker command takes down (kill_application, restart_application).
JournalTellsApplication ==
    phase = "exec" /\ Durable(caseNo) # <<>> =>
        LET last == LastDurable(caseNo)
            kind == Plan[last.action]
        IN CASE kind = "kill" /\ last.kind = "outcome" -> ~ appUp
             [] kind = "restart" /\ last.kind = "outcome" -> appUp
             [] kind \notin {"kill", "restart"} -> appUp
             [] OTHER -> TRUE

\* A case leaves the application running if its recovery says so: only a
\* kill that the daemon still had when the case was given up can undo it
\* (recover_if_needed, CaseRecovery::Recovered).
AppLeftRunning ==
    phase \notin {"exec", "recover"} /\ recovery = "ok" /\ ~ lateKill
        /\ (phase = "crashed" => exec.place = "gone")
            => appUp

\* The class the campaign ends with is that of the first thing that went
\* wrong: a recovery or a session that fails afterwards does not hide a
\* cancellation or a timeout, and a run is not called interrupted or
\* inconclusive for anything else (execute_staged_campaign, failure_class).
CauseIsFirst ==
    phase \in {"finalize", "rename", "syncBase", "ended"} =>
        /\ outcome = "cancelled" => cause = "interrupted"
        /\ outcome = "timedOut" => cause = "inconclusive"
        /\ outcome \in Errors => cause = outcome
        /\ cause = "interrupted" => cancelled
        /\ cause = "inconclusive" => outcome \in {"timedOut", "inconclusive"}

\* A campaign comes to an end although the application, the disk of the
\* journal and the docker daemon may never answer (RunSupervisor,
\* the timeouts of the recovery).
RunEnds == <>(phase \in Over)

\* What docs/rust-backend-architecture-plan.md says of an artifact: the
\* checksums are those of the exact bytes written.
ChecksumsAreExact ==
    phase = "ended" /\ artifact \in {"complete", "partial"} =>
        \A c \in Cases : manifest[c] # Absent => manifest[c] = files[c]

===============================================================================
