-------------------------- MODULE CaseDatabaseProofs --------------------------
(***************************************************************************)
(* Proofs about the case database, its commands and its baseline, for any  *)
(* number of commands, resets and changes by others; and about the wait    *)
(* for a stable case, for every stable window, pause and timeout that      *)
(* await_stable accepts.                                                   *)
(*                                                                         *)
(* CaseInv says, step by step, what a command that is under way may rely   *)
(* on.  Three facts carry it.  An oid, a marker or a private name that is  *)
(* drawn is none that anybody remembers (FreshIsFresh).  So the identity   *)
(* of a baseline that others change never matches again the one that was   *)
(* attested, and the data of a baseline whose identity does match is what  *)
(* the attestation saw (Attested).  And a replacement made between two     *)
(* attestations either has that data or the second attestation fails       *)
(* (ReplacementIsSeed).                                                    *)
(***************************************************************************)
EXTENDS CaseDatabase, TLAPS, FiniteSetTheorems

-----------------------------------------------------------------------------
(* The wait for a stable case.                                               *)

AnswerSet == [at : 0 .. WaitLimit, true : BOOLEAN]

WindowTypeOK ==
    /\ elapsed \in 0 .. WaitLimit
    /\ wait \in {"idle", "query", "sleep", "stable", "timeout", "failed"}
    /\ trueSince \in 0 .. Never
    /\ pollAt \in Nat
    /\ answers \subseteq AnswerSet

\* No two evaluations end at the same time: a pause lies between them.
AnswersApart ==
    /\ wait = "idle" => answers = {}
    /\ wait = "query" => \A o \in answers : o.at < elapsed
    /\ wait = "sleep" => \A o \in answers : o.at < pollAt

\* The window remembers an answer, and all answers since then were true.
WindowIsTrue ==
    trueSince # Never =>
        /\ \E first \in answers : first.at = trueSince
        /\ \A o \in answers : o.at >= trueSince => o.true

\* The wait ends on a window that is wide enough.
WideEnough == wait = "stable" => trueSince # Never /\ elapsed - trueSince >= StableFor

WindowInv == WindowTypeOK /\ AnswersApart /\ WindowIsTrue /\ WideEnough
-----------------------------------------------------------------------------
\* The window as AwaitStable finds it and as a completion or an error leaves it.
LEMMA IdleHasInv == ASSUME Idle PROVE WindowInv
  BY BudgetAssumption
     DEF Idle, WindowInv, WindowTypeOK, AnswersApart, WindowIsTrue, WideEnough,
         Never, AnswerSet

LEMMA IdleAgainHasInv == ASSUME IdleNext PROVE WindowInv'
  BY BudgetAssumption
     DEF IdleNext, WindowInv, WindowTypeOK, AnswersApart, WindowIsTrue,
         WideEnough, Never, AnswerSet

\* Time and the end of a pause move nothing that the window relies on.
LEMMA PassingTime ==
  ASSUME WindowInv, AwaitStable \/ Wake \/ TimeOut \/ Elapse \/ EvaluationFails
  PROVE  WindowInv'
  <1> USE BudgetAssumption DEF WindowInv, WindowTypeOK, AnswersApart,
          WindowIsTrue, WideEnough, Never, AnswerSet
  <1>1. CASE AwaitStable  BY <1>1 DEF AwaitStable
  <1>2. CASE Wake  BY <1>2 DEF Wake
  <1>3. CASE TimeOut  BY <1>3 DEF TimeOut
  <1>4. CASE Elapse  BY <1>4 DEF Elapse
  <1>5. CASE EvaluationFails  BY <1>5 DEF EvaluationFails
  <1> QED  BY <1>1, <1>2, <1>3, <1>4, <1>5

\* An answer: every other one is older, so a window it opens has this one only,
\* and one it does not close has one true answer more.
LEMMA AnswerKeepsInv ==
  ASSUME WindowInv, NEW quiescent \in BOOLEAN, Observe(quiescent)
  PROVE  WindowInv'
  <1> DEFINE answer == [at |-> elapsed, true |-> quiescent]
  <1>1. /\ wait = "query" /\ elapsed \in 0 .. WaitLimit /\ elapsed' = elapsed
        /\ trueSince \in 0 .. Never /\ pollAt \in Nat
        /\ answers \subseteq AnswerSet /\ answers' = answers \cup {answer}
        /\ trueSince' = TrueSinceAfter(quiescent)
    BY DEF WindowInv, WindowTypeOK, Observe
  <1>2. \A o \in answers : o.at < elapsed
    BY <1>1 DEF WindowInv, AnswersApart
  <1>3. answer \in AnswerSet /\ answer.at = elapsed /\ answer.true = quiescent
    BY <1>1 DEF AnswerSet
  <1>4. \/ /\ wait' = "stable" /\ pollAt' = pollAt
           /\ quiescent /\ elapsed - TrueSinceAfter(quiescent) >= StableFor
        \/ wait' = "sleep" /\ pollAt' = elapsed + PollInterval
    BY DEF Observe
  <1>5. trueSince' \in 0 .. Never
    BY <1>1, BudgetAssumption DEF TrueSinceAfter, Never
  <1>6. WindowTypeOK'
    BY <1>1, <1>3, <1>4, <1>5, BudgetAssumption DEF WindowTypeOK
  <1>7. AnswersApart'
    <2>1. wait' # "idle" /\ wait' # "query"  BY <1>4
    <2>2. ASSUME wait' = "sleep", NEW o \in answers' PROVE o.at < pollAt'
      <3>1. pollAt' = elapsed + PollInterval  BY <1>4, <2>2
      <3>2. o.at \in 0 .. WaitLimit /\ o.at <= elapsed
        BY <1>1, <1>2, <1>3, <2>2 DEF AnswerSet
      <3> QED  BY <1>1, <3>1, <3>2, BudgetAssumption
    <2> QED  BY <2>1, <2>2 DEF AnswersApart
  <1>8. WindowIsTrue'
    <2> SUFFICES ASSUME trueSince' # Never
                 PROVE  /\ \E first \in answers' : first.at = trueSince'
                        /\ \A o \in answers' : o.at >= trueSince' => o.true
      BY DEF WindowIsTrue, Never
    <2>1. quiescent
      BY <1>1 DEF TrueSinceAfter
    <2>2. CASE trueSince = Never
      <3>1. trueSince' = elapsed  BY <1>1, <2>1, <2>2 DEF TrueSinceAfter
      <3>2. \A o \in answers : ~(o.at >= elapsed)
        BY <1>1, <1>2 DEF AnswerSet
      <3> QED  BY <1>1, <1>3, <2>1, <3>1, <3>2
    <2>3. CASE trueSince # Never
      <3>1. trueSince' = trueSince  BY <1>1, <2>1, <2>3 DEF TrueSinceAfter
      <3>2. /\ \E first \in answers : first.at = trueSince
            /\ \A o \in answers : o.at >= trueSince => o.true
        BY <2>3 DEF WindowInv, WindowIsTrue
      <3> QED  BY <1>1, <1>3, <2>1, <3>1, <3>2
    <2> QED  BY <2>2, <2>3
  <1>9. WideEnough'
    BY <1>1, <1>4, BudgetAssumption DEF WideEnough, TrueSinceAfter, Never
  <1> QED  BY <1>6, <1>7, <1>8, <1>9 DEF WindowInv

LEMMA WaitKeepsInv == ASSUME WindowInv, WaitStep PROVE WindowInv'
  <1>1. CASE Evaluate
    <2>1. PICK bounded \in BOOLEAN, rolledBack \in BOOLEAN, rows \in Results :
             IF IsAnswer(bounded, rows, rolledBack)
             THEN Observe(rows = <<"true">>) ELSE EvaluationFails
      BY <1>1 DEF Evaluate
    <2>2. CASE IsAnswer(bounded, rows, rolledBack)
      <3>1. Observe(rows = <<"true">>) /\ (rows = <<"true">>) \in BOOLEAN
        BY <2>1, <2>2
      <3> QED  BY <3>1, AnswerKeepsInv
    <2>3. CASE ~IsAnswer(bounded, rows, rolledBack)
      BY <2>1, <2>3, PassingTime
    <2> QED  BY <2>2, <2>3
  <1>2. CASE AwaitStable \/ Wake \/ TimeOut \/ Elapse
    BY <1>2, PassingTime
  <1> QED  BY <1>1, <1>2 DEF WaitStep
-----------------------------------------------------------------------------
\* Only the wait of the checkpoint and a kill touch the window.
LEMMA WindowSteps ==
  ASSUME [Next]_vars PROVE WaitStep \/ IdleNext \/ UNCHANGED window
  <1>1. CASE Attest
    BY <1>1 DEF Attest, ObserveCatalog, ObserveMarker, Connect, SealedCatalog,
       CreateClone, InspectClone, DropClone, SweepClone, SealedAgain, Quiet
  <1>2. CASE Seal
    BY <1>2 DEF Seal, RequireBaselineAbsent, Challenge, CopyCase, UnfenceCase,
       MarkBaseline, PlantProbe, SealBaseline, DropCase, Quiet
  <1>3. CASE Reset
    BY <1>3 DEF Reset, BeginReset, RequireRecoveryAbsent, RecheckCase,
       RenameCase, CommitReset, LookUp, DropReplacement, OpenOriginal,
       RenameBack, Quiet
  <1>4. CASE StopServices \/ StartServices \/ FenceCase \/ CloneBaseline \/ MarkCase
    BY <1>4 DEF StopServices, StartServices, FenceCase, CloneBaseline, MarkCase,
       Quiet
  <1>5. CASE Begin \/ Resume \/ End
    BY <1>5 DEF Begin, Resume, End, Quiet
  <1>6. CASE AwaitQuiescence
    BY <1>6 DEF AwaitQuiescence
  <1>7. CASE Crash
    BY <1>7 DEF Crash
  <1>8. CASE Recreate \/ Substitute
    BY <1>8 DEF Recreate, Substitute, Outside
  <1>9. CASE UNCHANGED vars
    BY <1>9 DEF vars, window
  <1> QED  BY <1>1, <1>2, <1>3, <1>4, <1>5, <1>6, <1>7, <1>8, <1>9
           DEF Next, Command

LEMMA WindowInvStep == ASSUME WindowInv, [Next]_vars PROVE WindowInv'
  <1>1. CASE WaitStep  BY <1>1, WaitKeepsInv
  <1>2. CASE IdleNext  BY <1>2, IdleAgainHasInv
  <1>3. CASE UNCHANGED window
    BY <1>3 DEF window, WindowInv, WindowTypeOK, AnswersApart, WindowIsTrue,
       WideEnough, Never
  <1> QED  BY <1>1, <1>2, <1>3, WindowSteps

\* An answer at the start of the window has been there long enough.
LEMMA InvIsStable == ASSUME WindowInv PROVE CompletionIsStable
  <1> SUFFICES ASSUME wait = "stable"
               PROVE  \E first \in answers :
                         /\ elapsed - first.at >= StableFor
                         /\ \A o \in answers : o.at >= first.at => o.true
    BY DEF CompletionIsStable
  <1>1. trueSince # Never /\ elapsed - trueSince >= StableFor
    BY DEF WindowInv, WideEnough
  <1> QED  BY <1>1 DEF WindowInv, WindowIsTrue

\* Whatever the predicate answers, however long an evaluation takes and whichever
\* command waits, a completion comes only after a window of true answers as long
\* as the configuration asks for (StableWindow::observe, await_stable).
THEOREM WindowIsStable == Spec => []CompletionIsStable
  <1>1. Init => WindowInv  BY IdleHasInv DEF Init
  <1>2. WindowInv /\ [Next]_vars => WindowInv'  BY WindowInvStep
  <1>3. WindowInv => CompletionIsStable  BY InvIsStable
  <1> QED  BY <1>1, <1>2, <1>3, PTL DEF Spec
-----------------------------------------------------------------------------
(* The commands and the baseline.                                            *)

\* The identity that a record of one holds.
IsIdentity(i) == i = [oid |-> i.oid, marker |-> i.marker]

\* The records have the fields that the module gives them.
DatabaseFields == {"oid", "marker", "kind", "comment", "template", "open", "probe",
                   "data"}
CommandFields == {"kind", "step", "sub", "consents", "want", "base", "obs", "after",
                  "uuid", "private", "temporary", "seed", "made", "replaced",
                  "opened", "error"}

Databases ==
    /\ IsFiniteSet(DOMAIN server)
    /\ \A n \in DOMAIN server : DOMAIN server[n] = DatabaseFields

Records ==
    /\ Databases /\ IsFiniteSet(cmd.made)
    /\ DOMAIN cmd = CommandFields /\ DOMAIN cmd.temporary = {"name", "bad"}
    /\ \A i \in {phrase, cmd.want, cmd.base, cmd.obs, cmd.after} : IsIdentity(i)

\* The steps of a run, of `tiv baseline`, and those of it that follow the consent.
RunSteps == {"observe", "attest", "session", "stop", "reobserve", "reattest",
             "absent", "start", "bind", "bindOpen", "openProbe",
             "openQuiescence", "quiet", "openSnapshot", "resume", "end"}
            \cup Replacing \cup Restoring
Sealing == {"noBaselineYet", "fence", "copyCase", "unfence", "markBaseline",
            "plantProbe", "seal", "dropCase"}
BaselineSteps == {"observe", "noBaseline", "challenge", "stop", "reobserve",
                  "clone", "mark", "observeNew", "attestAfter", "start", "end"}
                 \cup Sealing

\* Which part of a step a command can be in.
SubOK ==
    IF cmd.step \in Observing
    THEN \/ cmd.sub \in {"catalog", "marker"}
         \/ cmd.sub = "direct" /\ cmd.step \in Opening
    ELSE IF cmd.step \in Attesting
    THEN cmd.sub \in {"sealed", "clone", "inspect", "dropClone", "again", "sweep"}
    ELSE cmd.sub = ""

\* The steps that an error reaches.
ErrorSteps == {"start", "unfence", "end"} \cup Restoring
Reported == {"temporaryLeft", "recoveryFailed", "servicesFailed"}

\* Steps of a reset that know the private name of the original.
Naming == {"stop", "reobserve", "reattest", "absent", "lookup", "dropReplacement",
            "renameBack"} \cup Replacing

\* A command is at a step of its kind; an error, and what it restores, only where
\* a failure leads.
StepOK ==
    /\ \/ cmd = NoCommand
       \/ cmd.kind = "run" /\ cmd.step \in RunSteps
       \/ cmd.kind = "baseline" /\ cmd.step \in BaselineSteps
    /\ SubOK
    /\ cmd.error # "none" => cmd.step \in ErrorSteps
    /\ cmd.step \in Restoring => cmd.error # "none"
    /\ cmd.sub = "again" => ~cmd.temporary.bad
    /\ cmd.kind = "run" /\ cmd.private = Nothing
          => cmd.step \notin Naming

-----------------------------------------------------------------------------
\* What a command can have left at a step.
Working ==
    (IF cmd.sub \in {"inspect", "dropClone", "sweep"} THEN {Clone} ELSE {})
    \cup (IF /\ cmd.kind = "run" /\ cmd.private # Nothing
             /\ cmd.step \in {"clone", "mark", "observeNew", "attestAfter", "commit",
                              "lookup", "dropReplacement", "openOriginal",
                              "renameBack"}
          THEN {Recovery} ELSE {})

\* Besides the case and the baseline there is only what the step has made, unless
\* a command was killed or says so.
NothingElse ==
    left \/ cmd.error \in Reported
         \/ DOMAIN server \subseteq {Case, Baseline} \cup Working

-----------------------------------------------------------------------------
\* The baseline is the one of an identity: by oid and comment, as the catalog
\* tells, and by the marker inside, as only a clone tells.
AsSealed(id) == Exists(Baseline) /\ server[Baseline].oid = id.oid
                /\ server[Baseline].comment = id.marker
Is(id) == AsSealed(id) /\ server[Baseline].marker = id.marker

\* The clone has been inspected and found to be what the catalog said.
Checked == cmd.sub \in {"dropClone", "again"} /\ ~cmd.temporary.bad

\* A baseline with the identity that the session attested has the data it saw.
Attested ==
    cmd.kind = "run" =>
        /\ cmd.step \in RunSteps \ {"observe", "attest", "end"}
              => (Is(cmd.base) => server[Baseline].data = cmd.seed)
        /\ cmd.step = "attest" /\ cmd.sub = "inspect" /\ Exists(Clone)
              => (Is(cmd.obs) => server[Baseline].data = server[Clone].data)
        /\ cmd.step = "attest" /\ Checked
              => (Is(cmd.obs) => server[Baseline].data = cmd.seed)

\* The case has the attested data, unless something has happened to the baseline.
SeedOr(unlessBaseline) ==
    unlessBaseline \/ (Exists(Case) /\ server[Case].data = cmd.seed)

\* The replacement has the data of the baseline, or the second attestation of the
\* baseline is going to fail.
ReplacementIsSeed ==
    cmd.kind = "run" =>
        /\ cmd.step \in {"mark", "observeNew"} => SeedOr(~Is(cmd.base))
        /\ cmd.step = "attestAfter" =>
              /\ cmd.sub \in {"sealed", "clone"} => SeedOr(~Is(cmd.base))
              /\ cmd.sub = "inspect" =>
                    SeedOr(\/ ~AsSealed(cmd.base)
                           \/ /\ Exists(Clone)
                              /\ server[Clone].marker # cmd.base.marker)
              /\ Checked => SeedOr(~AsSealed(cmd.base)
                                   \/ cmd.obs.marker # cmd.base.marker)
        /\ cmd.step = "commit" => SeedOr(FALSE)

\* The case is open, is a case, and has an identity.
WholeAs(id) == Readable(Case, "case") /\ server[Case].oid = id.oid
               /\ server[Case].marker = id.marker

\* Whoever starts the services finds the replacement, or the original again.
ReplacementIsWhole ==
    cmd.kind = "run" =>
        /\ cmd.step \in {"observeNew", "observeRestored"} /\ cmd.sub = "marker"
              => Exists(Case) /\ cmd.obs.oid = server[Case].oid
        /\ cmd.step \in {"attestAfter", "commit"}
              => WholeAs(cmd.after) /\ server[Case].marker = cmd.uuid
        /\ cmd.step = "start" /\ (cmd.replaced \/ cmd.made # {}) => WholeAs(cmd.want)
        /\ cmd.made # {} => cmd.step \in Replacing \cup Restoring \cup {"start"}

\* A case is replaced from the commit on until its next reset, and only a replaced
\* case is opened for sessions.
AfterReset == {"start", "bind", "bindOpen", "openProbe", "openQuiescence", "quiet",
               "openSnapshot", "resume", "session"}

Bound ==
    /\ cmd.kind = "run" /\ cmd.error = "none" /\ cmd.step \in AfterReset \ {"session"}
          => cmd.replaced
    /\ cmd.opened # {} => cmd.replaced
    /\ cmd.replaced =>
        /\ cmd.kind = "run" /\ cmd.step \in AfterReset /\ cmd.error = "none"
        /\ cmd.made = {}
        /\ Exists(Case) /\ server[Case].oid = cmd.want.oid
              => server[Case].data = cmd.seed
    /\ SessionsAreBound

\* While the original is aside, the database under the name of the case is the
\* command's own; only such a database is dropped to restore it.
OriginalIsAside ==
    cmd.kind = "run" =>
        /\ cmd.step \in {"fence", "recheck", "rename"} => ~Exists(Recovery)
        /\ cmd.step \in {"clone", "mark", "observeNew", "attestAfter", "commit",
                         "lookup", "dropReplacement"}
              => (Exists(Recovery) /\ Exists(Case) => server[Case].oid \in cmd.made)
        /\ cmd.step = "dropReplacement" => Exists(Recovery)

-----------------------------------------------------------------------------
\* What the operator consented to is what the seal copies, and the case is not
\* dropped before its copy is sealed.
Copied == Exists(Baseline) /\ server[Baseline].data = server[Case].data

Consented ==
    cmd.kind = "baseline" =>
        /\ cmd.step \in {"stop", "reobserve"} \cup Sealing
              => cmd.consents /\ phrase = cmd.want
        /\ cmd.step = "reobserve" /\ cmd.sub = "marker"
              => Exists(Case) /\ cmd.obs.oid = server[Case].oid
        /\ cmd.step \in Sealing
              => /\ Exists(Case) /\ server[Case].oid = cmd.want.oid
                 /\ server[Case].marker = cmd.want.marker
        /\ cmd.step = "unfence" /\ cmd.error = "none" => Copied
        /\ cmd.step \in {"markBaseline", "plantProbe", "seal", "dropCase"} => Copied
        /\ cmd.step \in {"plantProbe", "seal", "dropCase"} => cmd.base.marker # Nothing
        /\ cmd.step = "dropCase" => IsSealed

CaseInv == /\ Records /\ StepOK /\ NothingElse /\ Attested /\ ReplacementIsSeed
           /\ ReplacementIsWhole /\ Bound /\ OriginalIsAside /\ Consented
-----------------------------------------------------------------------------

\* The order of the steps, once as a table.
LEMMA RunOrder ==
  /\ Following("run", "observe") = "attest"
  /\ Following("run", "attest") = "session"
  /\ Following("run", "session") = "stop"
  /\ Following("run", "stop") = "reobserve"
  /\ Following("run", "reobserve") = "reattest"
  /\ Following("run", "reattest") = "absent"
  /\ Following("run", "absent") = "fence"
  /\ Following("run", "fence") = "recheck"
  /\ Following("run", "recheck") = "rename"
  /\ Following("run", "rename") = "clone"
  /\ Following("run", "clone") = "mark"
  /\ Following("run", "mark") = "observeNew"
  /\ Following("run", "observeNew") = "attestAfter"
  /\ Following("run", "attestAfter") = "commit"
  /\ Following("run", "commit") = "start"
  /\ Following("run", "start") = "bind"
  /\ Following("run", "bind") = "bindOpen"
  /\ Following("run", "bindOpen") = "openProbe"
  /\ Following("run", "openProbe") = "openQuiescence"
  /\ Following("run", "openQuiescence") = "quiet"
  /\ Following("run", "quiet") = "openSnapshot"
  /\ Following("run", "openSnapshot") = "resume"
  BY DEF Following, Steps

\* The steps of `tiv baseline`, in their order (run_configured_baseline).
LEMMA BaselineOrder ==
  /\ Following("baseline", "observe") = "noBaseline"
  /\ Following("baseline", "noBaseline") = "challenge"
  /\ Following("baseline", "challenge") = "stop"
  /\ Following("baseline", "stop") = "reobserve"
  /\ Following("baseline", "reobserve") = "noBaselineYet"
  /\ Following("baseline", "noBaselineYet") = "fence"
  /\ Following("baseline", "fence") = "copyCase"
  /\ Following("baseline", "copyCase") = "unfence"
  /\ Following("baseline", "unfence") = "markBaseline"
  /\ Following("baseline", "markBaseline") = "plantProbe"
  /\ Following("baseline", "plantProbe") = "seal"
  /\ Following("baseline", "seal") = "dropCase"
  /\ Following("baseline", "dropCase") = "clone"
  /\ Following("baseline", "clone") = "mark"
  /\ Following("baseline", "mark") = "observeNew"
  /\ Following("baseline", "observeNew") = "attestAfter"
  /\ Following("baseline", "attestAfter") = "start"
  /\ Following("baseline", "start") = "end"
  BY DEF Following, Steps

-----------------------------------------------------------------------------
\* The command knows what it knew.
Same(c, d) ==
    /\ c.kind = d.kind /\ c.consents = d.consents /\ c.want = d.want
    /\ c.base = d.base /\ c.obs = d.obs /\ c.after = d.after /\ c.uuid = d.uuid
    /\ c.private = d.private /\ c.temporary = d.temporary /\ c.seed = d.seed
    /\ c.made = d.made /\ c.replaced = d.replaced /\ c.opened = d.opened

SubOf(step) == IF step \in Observing THEN "catalog"
               ELSE IF step \in Attesting THEN "sealed" ELSE ""

\* It goes on to a step.
Went(d, c, step) ==
    /\ DOMAIN d = CommandFields /\ Same(d, c) /\ d.error = c.error
    /\ d.step = step /\ d.sub = SubOf(step)

\* What a step that is entered keeps of the command.
LEMMA EnterIs ==
  ASSUME NEW c, DOMAIN c = CommandFields, NEW step
  PROVE  Went(Enter(c, step), c, step)
  BY DEF Enter, Same, CommandFields, SubOf, Went

\* What a command that goes on to its next step keeps.
LEMMA DoneIs ==
  ASSUME NEW c, DOMAIN c = CommandFields
  PROVE  Went(Done(c), c, Following(c.kind, c.step))
  BY EnterIs DEF Done

\* It knows nothing any more.
Ended(c, kind, error) ==
    /\ DOMAIN c = CommandFields
    /\ c.kind = kind /\ c.step = "end" /\ c.sub = "" /\ c.error = error
    /\ c.want = NoIdentity /\ c.base = NoIdentity /\ c.obs = NoIdentity
    /\ c.after = NoIdentity /\ c.temporary = [name |-> Nothing, bad |-> FALSE]
    /\ c.made = {} /\ c.replaced = FALSE /\ c.opened = {}

\* What a command that ends has forgotten.
LEMMA EndingIs ==
  ASSUME NEW error PROVE Ended(Ending(error), cmd.kind, error)
  BY DEF Ended, Ending, NoCommand, CommandFields

\* Where a failure leads: to the end, or to what restores the case or starts the
\* services.
FailsWith(d, c, error) ==
    \/ /\ c.step \in BeforeStop \cup AfterStart \cup Restoring \cup {"start"}
       /\ \E e : /\ Ended(d, cmd.kind, e) /\ e # "none"
                 /\ c.error = "none" /\ c.step \notin Restoring => e = error
                 /\ c.step \in Restoring => e \in Reported
                 /\ c.error # "none" /\ c.step = "start" => e \in Reported
    \/ /\ c.step \notin BeforeStop \cup AfterStart \cup Restoring \cup {"start"}
       /\ DOMAIN d = CommandFields /\ Same(d, c)
       /\ d.error = (IF c.error = "none" THEN error ELSE c.error)
       /\ d.step = (IF c.kind = "run" /\ c.step \in Replacing THEN "lookup"
                    ELSE IF c.kind = "baseline" /\ c.step = "copyCase"
                    THEN "unfence" ELSE "start")
       /\ d.sub = ""

\* Every failure leads where FailsWith says (fail_case_reset).
LEMMA FailedIs ==
  ASSUME NEW c, DOMAIN c = CommandFields, NEW error, error # "none", c.kind = cmd.kind,
         c.step # "end", NEW d, d = Failed(c, error)
  PROVE  FailsWith(d, c, error)
<1> USE DEF FailsWith
<1> DEFINE e == IF c.error = "none" THEN error ELSE c.error
           with == [c EXCEPT !.error = e]
<1>1. /\ DOMAIN with = CommandFields /\ Same(with, c) /\ with.error = e
  BY DEF Same, CommandFields
<1>2. CASE c.step \in BeforeStop \cup AfterStart \cup Restoring \cup {"start"}
  <2>1. CASE c.step \in BeforeStop \cup AfterStart
    <3>1. Failed(c, error) = Ending(e)
      BY <2>1 DEF Failed, BeforeStop, AfterStart, Restoring, Replacing
    <3> QED  BY <2>1, <3>1, EndingIs DEF BeforeStop, AfterStart, Restoring, Reported
  <2>2. CASE c.step = "start"
    <3>1. Failed(c, error) = Ending(IF c.error = "none" THEN error ELSE "servicesFailed")
      BY <2>2 DEF Failed, BeforeStop, AfterStart, Restoring, Replacing
    <3> QED  BY <2>2, <3>1, EndingIs DEF Reported, Restoring
  <2>3. CASE c.step \in Restoring
    <3>1. Failed(c, error) = Ending("recoveryFailed")
      BY <2>3 DEF Failed, BeforeStop, AfterStart, Restoring, Replacing
    <3> QED  BY <2>3, <3>1, EndingIs DEF Reported
  <2> QED  BY <1>2, <2>1, <2>2, <2>3
<1>3. CASE c.step \notin BeforeStop \cup AfterStart \cup Restoring \cup {"start"}
  <2> DEFINE to == IF c.kind = "run" /\ c.step \in Replacing THEN "lookup"
                   ELSE IF c.kind = "baseline" /\ c.step = "copyCase"
                   THEN "unfence" ELSE "start"
  <2>1. Failed(c, error) = Enter(with, to)
    BY <1>3 DEF Failed
  <2>2. SubOf(to) = ""
    BY DEF SubOf, Observing, Attesting
  <2> HIDE DEF to, with
  <2>3. Went(Enter(with, to), with, to)
    BY <1>1, EnterIs
  <2>4. DOMAIN d = CommandFields /\ Same(d, with) /\ d.error = e /\ d.step = to /\ d.sub = ""
    BY <1>1, <2>1, <2>2, <2>3 DEF Went
  <2>5. Same(d, c)
    BY <1>1, <2>4 DEF Same
  <2> HIDE DEF FailsWith
  <2> QED  BY <1>3, <2>4, <2>5 DEF FailsWith, to
<1> QED  BY <1>2, <1>3

-----------------------------------------------------------------------------
\* A command under way is a run or a baseline, at a step of its own.
LEMMA KindAndStep ==
  ASSUME StepOK
  PROVE  /\ cmd.kind = "run" => cmd.step \in RunSteps
         /\ cmd.kind = "baseline" => cmd.step \in BaselineSteps
         /\ cmd.kind \notin {"run", "baseline"} => cmd = NoCommand
         /\ cmd.step # "idle" => cmd.kind \in {"run", "baseline"}
<1>1. NoCommand.kind = "none" /\ NoCommand.step = "idle"
  BY DEF NoCommand
<1> QED  BY <1>1 DEF StepOK

\* A command that ends: the error it carries, if any, tells what is left.
LEMMA EndedKeeps ==
  ASSUME CaseInv, NEW e, Ended(cmd', cmd.kind, e), cmd.kind \in {"run", "baseline"},
         IsIdentity(phrase'), left' = left, Databases',
         left \/ e \in Reported \/ DOMAIN server' \subseteq {Case, Baseline}
  PROVE  CaseInv'
<1> USE DEF Ended
<1>1. cmd'.kind \in {"run", "baseline"} /\ cmd'.step = "end" /\ cmd'.sub = ""
      /\ cmd'.error = e /\ cmd'.made = {} /\ cmd'.replaced = FALSE /\ cmd'.opened = {}
  OBVIOUS
<1>2. Records'
  BY FS_EmptySet DEF Records, IsIdentity, NoIdentity
<1>3. StepOK'
  BY <1>1 DEF StepOK, SubOK, Opening, Observing, Attesting, RunSteps, BaselineSteps,
     ErrorSteps, Restoring, Naming, Replacing
<1>4. NothingElse'
  BY <1>1 DEF NothingElse, Working
<1>5. Attested' /\ ReplacementIsSeed' /\ OriginalIsAside' /\ Consented'
  BY <1>1
     DEF Attested, Checked, ReplacementIsSeed, OriginalIsAside, Consented, Sealing
<1>6. ReplacementIsWhole' /\ Bound'
  BY <1>1 DEF ReplacementIsWhole, Bound, AfterReset, SessionsAreBound
<1> QED  BY <1>2, <1>3, <1>4, <1>5, <1>6 DEF CaseInv

\* What a statement that failed may have done.
Aside ==
    IF /\ cmd.kind = "run"
       /\ cmd.step \in {"rename", "clone", "mark", "observeNew", "attestAfter", "commit"}
    THEN {Recovery} ELSE {}

\* A statement that fails, at any step: what the server may look like afterwards,
\* carried out or not, for the failure to lead to a state of the invariant.  A
\* clone of the baseline may have been made already.
LEMMA FailingKeeps ==
  ASSUME CaseInv, NEW c, DOMAIN c = CommandFields,
         c.kind = cmd.kind, c.step = cmd.step, c.error = cmd.error,
         c.want = cmd.want, c.base = cmd.base, c.obs = cmd.obs, c.after = cmd.after,
         c.seed = cmd.seed, c.private = cmd.private, c.consents = cmd.consents,
         c.temporary = cmd.temporary, c.replaced = cmd.replaced,
         c.opened = cmd.opened, IsFiniteSet(c.made),
         c.made = cmd.made \/ cmd.step = "clone",
         NEW error \in Reported \cup {"error"}, cmd' = Failed(c, error),
         cmd.kind \in {"run", "baseline"},
         cmd.step \notin {"session", "resume", "end"},
         UNCHANGED <<phrase, left>>, Databases',
         cmd.kind = "run" /\ Exists(Baseline)'
            => Exists(Baseline) /\ server'[Baseline] = server[Baseline],
         \/ left \/ (error \in Reported /\ cmd.error = "none") \/ cmd.step \in Restoring
         \/ cmd.error \in Reported
         \/ DOMAIN server' \subseteq {Case, Baseline} \cup Aside,
         cmd.kind = "run" /\ cmd.step \in Replacing
            => (Recovery \in DOMAIN server' /\ Case \in DOMAIN server'
                  => server'[Case].oid \in c.made),
         cmd.kind = "baseline" /\ cmd.step = "copyCase"
            => /\ Exists(Case)' /\ server'[Case].oid = server[Case].oid
               /\ server'[Case].marker = server[Case].marker
  PROVE  CaseInv'
<1>0. FailsWith(cmd', c, error)
  <2>1. error # "none" /\ c.step # "end"  BY DEF Reported
  <2> QED  BY <2>1, FailedIs
<1>1. error # "none" /\ IsIdentity(phrase')
  BY DEF Reported, CaseInv, Records
<1>2. CASE cmd.step \in BeforeStop \cup AfterStart \cup Restoring \cup {"start"}
  <2>1. PICK e : /\ Ended(cmd', cmd.kind, e)
                 /\ cmd.error = "none" /\ cmd.step \notin Restoring => e = error
                 /\ cmd.step \in Restoring => e \in Reported
                 /\ cmd.error # "none" /\ cmd.step = "start" => e \in Reported
    BY <1>1, <1>0, <1>2 DEF FailsWith
  <2>2. left \/ e \in Reported \/ DOMAIN server' \subseteq {Case, Baseline}
    BY <1>2, <2>1 DEF Aside, CaseInv, StepOK, ErrorSteps, BeforeStop, AfterStart,
       Restoring, Reported
  <2> QED  BY <1>1, <2>1, <2>2, EndedKeeps
<1>3. CASE cmd.step \notin BeforeStop \cup AfterStart \cup Restoring \cup {"start"}
  <2>0. /\ DOMAIN cmd' = CommandFields /\ Same(cmd', c)
        /\ cmd'.error = (IF cmd.error = "none" THEN error ELSE cmd.error)
        /\ cmd'.step = (IF cmd.kind = "run" /\ cmd.step \in Replacing THEN "lookup"
                        ELSE IF cmd.kind = "baseline" /\ cmd.step = "copyCase"
                        THEN "unfence" ELSE "start")
        /\ cmd'.sub = ""
    BY <1>1, <1>0, <1>3 DEF FailsWith
  <2>1. /\ cmd'.kind = cmd.kind /\ cmd'.want = cmd.want /\ cmd'.base = cmd.base
        /\ cmd'.obs = cmd.obs /\ cmd'.after = cmd.after /\ cmd'.seed = cmd.seed
        /\ cmd'.private = cmd.private /\ cmd'.consents = cmd.consents
        /\ cmd'.temporary = cmd.temporary /\ cmd'.replaced = cmd.replaced
        /\ cmd'.opened = cmd.opened /\ cmd'.made = c.made
        /\ cmd'.error # "none"
    BY <1>1, <2>0 DEF Same
  <2>2. cmd.kind = "run" => cmd.step \in RunSteps
    BY KindAndStep DEF CaseInv
  <2>3. cmd.kind = "baseline" => cmd.step \in BaselineSteps
    BY KindAndStep DEF CaseInv
  <2>4. ~cmd.replaced /\ cmd.opened = {}
    BY <1>3 DEF CaseInv, Bound, AfterReset, AfterStart
  <2>5. Records'
    <3>1. /\ IsIdentity(cmd.want) /\ IsIdentity(cmd.base) /\ IsIdentity(cmd.obs)
          /\ IsIdentity(cmd.after) /\ DOMAIN cmd.temporary = {"name", "bad"}
      BY DEF CaseInv, Records
    <3>2. \A i \in {phrase', cmd'.want, cmd'.base, cmd'.obs, cmd'.after} : IsIdentity(i)
      BY <1>1, <2>1, <3>1
    <3>3. IsFiniteSet(cmd'.made)
      BY <2>1
    <3> QED  BY <2>0, <2>1, <3>1, <3>2, <3>3 DEF Records
  <2>6. StepOK'
    <3>1. /\ cmd'.step \in {"lookup", "unfence", "start"}
          /\ cmd'.step \notin Observing \cup Attesting \cup Opening
          /\ cmd'.step \in ErrorSteps /\ cmd'.step # "end" /\ cmd'.sub = ""
      BY <2>0 DEF Observing, Attesting, Opening, ErrorSteps, Restoring
    <3>2. /\ cmd'.kind = "run" => cmd'.step \in RunSteps
          /\ cmd'.kind = "baseline" => cmd'.step \in BaselineSteps
      BY <1>3, <2>0, <2>1, <2>2, <2>3
         DEF RunSteps, BaselineSteps, Restoring, Sealing
    <3>3. cmd'.kind = "run" /\ cmd'.private = Nothing => cmd'.step \notin Naming
      BY <1>3, <2>0, <2>1 DEF CaseInv, StepOK, Naming, Replacing
    <3> QED  BY <2>1, <3>1, <3>2, <3>3 DEF StepOK, SubOK
  <2>7. NothingElse'
    <3>1. (error \in Reported /\ cmd.error = "none") \/ cmd.error \in Reported
             => cmd'.error \in Reported
      BY <2>0 DEF Reported
    <3>2. DOMAIN server' \subseteq {Case, Baseline} \cup Aside => NothingElse'
      <4>1. Aside # {} => Aside \subseteq Working'
        BY <1>3, <2>0, <2>1, <2>2
           DEF Aside, Working, Recovery, CaseInv, StepOK, Naming, Replacing
      <4> QED  BY <4>1 DEF NothingElse
    <3>3. left \/ cmd'.error \in Reported \/ DOMAIN server' \subseteq {Case, Baseline} \cup Aside
      BY <1>3, <3>1
    <3>4. (left \/ cmd'.error \in Reported) => NothingElse'
      BY DEF NothingElse
    <3> QED  BY <3>2, <3>3, <3>4
  <2>8. Attested'
    <3>1. cmd.kind = "run" => cmd.step \in RunSteps \ {"observe", "attest", "end"}
      BY <1>3, <2>2 DEF BeforeStop, AfterStart
    <3>2. cmd.kind = "run" /\ Is(cmd.base)' => Is(cmd.base)
      BY <2>1 DEF Is, AsSealed, Exists
    <3>3. cmd.kind = "run" => (Is(cmd.base) => server[Baseline].data = cmd.seed)
      BY <3>1 DEF CaseInv, Attested
    <3>4. cmd.kind = "run" /\ Is(cmd.base)' => server'[Baseline] = server[Baseline]
      BY DEF Is, AsSealed, Exists
    <3>5. cmd.kind = "run" => (Is(cmd.base)' => server'[Baseline].data = cmd'.seed)
      BY <2>1, <3>2, <3>3, <3>4
    <3>6. cmd'.step # "attest"
      BY <2>0
    <3> QED  BY <2>1, <3>5, <3>6 DEF Attested
  <2>9. ReplacementIsSeed'
    BY <2>0, <2>1 DEF ReplacementIsSeed
  <2>10. ReplacementIsWhole'
    BY <1>3, <2>0, <2>1, <2>2, <2>4 DEF CaseInv, ReplacementIsWhole, Replacing,
       Restoring
  <2>11. Bound'
    BY <2>1, <2>4 DEF Bound, SessionsAreBound
  <2>12. OriginalIsAside'
    BY <1>3, <2>0, <2>1, <2>2 DEF OriginalIsAside, Recovery, Exists
  <2>13. Consented'
    BY <1>3, <2>0, <2>1, <2>3 DEF CaseInv, Consented, Sealing
  <2> QED  BY <2>5, <2>6, <2>7, <2>8, <2>9, <2>10, <2>11, <2>12, <2>13 DEF CaseInv
<1> QED  BY <1>2, <1>3

\* A query that fails, or a statement that is refused.
LEMMA RefusedKeeps ==
  ASSUME CaseInv, NEW error \in Reported \cup {"error"}, cmd' = Failed(cmd, error),
         UNCHANGED <<server, phrase, left>>, cmd.kind \in {"run", "baseline"},
         cmd.step \notin {"session", "resume", "end"},
         \/ cmd.sub \notin {"inspect", "dropClone", "sweep"}
         \/ error \in Reported /\ cmd.error = "none"
  PROVE  CaseInv'
<1>1. /\ DOMAIN cmd = CommandFields /\ IsFiniteSet(cmd.made) /\ Databases'
      /\ UNCHANGED <<phrase, left>>
  BY DEF CaseInv, Records, Databases
<1>2. \/ left \/ (error \in Reported /\ cmd.error = "none") \/ cmd.step \in Restoring
      \/ cmd.error \in Reported \/ DOMAIN server' \subseteq {Case, Baseline} \cup Aside
  BY DEF CaseInv, NothingElse, Working, Aside, Restoring
<1>3. cmd.kind = "run" /\ cmd.step \in Replacing
         => (Recovery \in DOMAIN server' /\ Case \in DOMAIN server'
               => server'[Case].oid \in cmd.made)
  BY DEF CaseInv, OriginalIsAside, Replacing, Exists
<1>4. cmd.kind = "baseline" /\ cmd.step = "copyCase"
         => /\ Exists(Case)' /\ server'[Case].oid = server[Case].oid
            /\ server'[Case].marker = server[Case].marker
  BY DEF CaseInv, Consented, Sealing, Exists
<1>5. cmd.kind = "run" /\ Exists(Baseline)'
         => Exists(Baseline) /\ server'[Baseline] = server[Baseline]
  BY DEF Exists
<1> QED  BY <1>1, <1>2, <1>3, <1>4, <1>5, FailingKeeps

-----------------------------------------------------------------------------
\* An enumerated set is finite.
LEMMA FourAreFinite == ASSUME NEW a, NEW b, NEW c, NEW d PROVE IsFiniteSet({a, b, c, d})
<1>1. IsFiniteSet({a})  BY FS_Singleton
<1>2. IsFiniteSet({a} \cup {b})  BY <1>1, FS_AddElement
<1>3. IsFiniteSet(({a} \cup {b}) \cup {c})  BY <1>2, FS_AddElement
<1>4. IsFiniteSet((({a} \cup {b}) \cup {c}) \cup {d})  BY <1>3, FS_AddElement
<1>5. {a, b, c, d} = (({a} \cup {b}) \cup {c}) \cup {d}  OBVIOUS
<1> QED  BY <1>4, <1>5

\* Two finite sets together are finite.
LEMMA BothAreFinite ==
  ASSUME NEW S, NEW T, IsFiniteSet(S), IsFiniteSet(T) PROVE IsFiniteSet(S \cup T)
  BY FS_Union

\* Finitely many ids are in use, so that there is always another one.
LEMMA InUseIsFinite == ASSUME Records PROVE IsFiniteSet(InUse)
<1> DEFINE of(n) == Ids(server[n]) \cup {n[2], server[n].comment}
           ofs == {of(n) : n \in DOMAIN server}
           f == [n \in DOMAIN server |-> of(n)]
           identities == {phrase, cmd.want, cmd.base, cmd.obs, cmd.after}
           known == {Ids(i) : i \in identities}
           rest == {Nothing, cmd.uuid, cmd.private, cmd.temporary.name}
<1>1. IsFiniteSet(ofs)
  <2>1. f \in Surjection(DOMAIN server, ofs)
    BY DEF Surjection
  <2> QED  BY <2>1, FS_Surjection DEF Records, Databases
<1>2. \A T \in ofs : IsFiniteSet(T)
  <2> SUFFICES ASSUME NEW n \in DOMAIN server PROVE IsFiniteSet(of(n))
    OBVIOUS
  <2>1. of(n) = {server[n].oid, server[n].marker, n[2], server[n].comment}
    BY DEF Ids
  <2>2. IsFiniteSet({server[n].oid, server[n].marker, n[2], server[n].comment})
    BY FourAreFinite
  <2> HIDE DEF of
  <2> QED  BY <2>1, <2>2
<1>3. IsFiniteSet(UNION ofs)
  BY <1>1, <1>2, FS_UNION
<1>4. IsFiniteSet(UNION known)
  <2>1. UNION known = Ids(phrase) \cup Ids(cmd.want) \cup Ids(cmd.base) \cup Ids(cmd.obs)
                      \cup Ids(cmd.after)
    OBVIOUS
  <2>2. \A i : IsFiniteSet(Ids(i))
    <3>1. \A i : Ids(i) = ({} \cup {i.oid}) \cup {i.marker}
      BY DEF Ids
    <3> QED  BY <3>1, FS_EmptySet, FS_AddElement
  <2> HIDE DEF known
  <2>3. IsFiniteSet(Ids(phrase) \cup Ids(cmd.want))
    BY <2>2, BothAreFinite
  <2>4. IsFiniteSet(Ids(phrase) \cup Ids(cmd.want) \cup Ids(cmd.base))
    BY <2>2, <2>3, BothAreFinite
  <2>5. IsFiniteSet(Ids(phrase) \cup Ids(cmd.want) \cup Ids(cmd.base) \cup Ids(cmd.obs))
    BY <2>2, <2>4, BothAreFinite
  <2>6. IsFiniteSet(Ids(phrase) \cup Ids(cmd.want) \cup Ids(cmd.base) \cup Ids(cmd.obs)
                    \cup Ids(cmd.after))
    BY <2>2, <2>5, BothAreFinite
  <2> QED  BY <2>1, <2>6
<1>5. IsFiniteSet(rest)
  BY FourAreFinite
<1>6. IsFiniteSet(cmd.made)
  BY DEF Records
<1>7. InUse = (((UNION ofs) \cup (UNION known)) \cup rest) \cup cmd.made
  BY DEF InUse
<1> HIDE DEF ofs, known, rest
<1>8. IsFiniteSet((UNION ofs) \cup (UNION known))
  BY <1>3, <1>4, BothAreFinite
<1>9. IsFiniteSet(((UNION ofs) \cup (UNION known)) \cup rest)
  BY <1>5, <1>8, BothAreFinite
<1>10. IsFiniteSet((((UNION ofs) \cup (UNION known)) \cup rest) \cup cmd.made)
  BY <1>6, <1>9, BothAreFinite
<1> QED  BY <1>7, <1>10

\* Among one more numbers than are in use, one is not.
LEMMA FirstIsFresh ==
  ASSUME IsFiniteSet(InUse), NEW i \in Nat
  PROVE  FirstAfter(i) \in Nat \ {0} /\ FirstAfter(i) \notin InUse
<1> DEFINE range == (i + 1) .. (i + 1 + Cardinality(InUse))
<1>1. Cardinality(InUse) \in Nat
  BY FS_CardinalityType
<1>2. \E n \in range : n \notin InUse
  <2> SUFFICES ASSUME range \subseteq InUse PROVE FALSE
    OBVIOUS
  <2>1. Cardinality(range) = Cardinality(InUse) + 1
    BY <1>1, FS_Interval
  <2>2. Cardinality(range) <= Cardinality(InUse)
    BY FS_Subset
  <2> QED  BY <1>1, <2>1, <2>2
<1>3. FirstAfter(i) \in range /\ FirstAfter(i) \notin InUse
  BY <1>2 DEF FirstAfter
<1> QED  BY <1>1, <1>3

\* An id that is drawn is one that nobody has or remembers.
LEMMA FreshIsFresh == ASSUME CaseInv PROVE fresh \in Nat \ {0} /\ fresh \notin InUse
  BY InUseIsFinite, FirstIsFresh DEF CaseInv, fresh

-----------------------------------------------------------------------------
\* The catalog tells the oid that the name has now.
LEMMA ObserveCatalogKeeps ==
  ASSUME CaseInv, ObserveCatalog PROVE CaseInv'
<1> USE DEF Case, Baseline
<1>1. /\ cmd.sub = "catalog" /\ UNCHANGED <<server, phrase, left>>
      /\ DOMAIN cmd = CommandFields
      /\ cmd.step \in Observing
  BY DEF ObserveCatalog, Query, Quiet, CaseInv, Records, StepOK, SubOK, Opening,
     Observing, Attesting
<1>2. /\ cmd.kind \in {"run", "baseline"}
      /\ cmd.kind = "run" => cmd.step \in RunSteps
      /\ cmd.kind = "baseline" => cmd.step \in BaselineSteps
      /\ cmd.step \notin {"session", "resume", "end"}
  BY <1>1, KindAndStep DEF CaseInv, Observing
<1>3. CASE cmd' = Failed(cmd, "error")
  BY <1>1, <1>2, <1>3, RefusedKeeps
<1>4. CASE /\ Exists(Case)
           /\ cmd' = [cmd EXCEPT !.sub = "marker", !.obs.oid = server[Case].oid]
  <2>1. /\ DOMAIN cmd' = CommandFields /\ cmd'.kind = cmd.kind /\ cmd'.step = cmd.step
        /\ cmd'.sub = "marker" /\ cmd'.error = cmd.error
        /\ cmd'.consents = cmd.consents /\ cmd'.want = cmd.want
        /\ cmd'.base = cmd.base /\ cmd'.after = cmd.after
        /\ cmd'.uuid = cmd.uuid /\ cmd'.private = cmd.private
        /\ cmd'.temporary = cmd.temporary /\ cmd'.seed = cmd.seed
        /\ cmd'.made = cmd.made /\ cmd'.replaced = cmd.replaced
        /\ cmd'.opened = cmd.opened
    BY <1>1, <1>4 DEF CommandFields
  <2>2. IsIdentity(cmd'.obs) /\ cmd'.obs.oid = server[Case].oid
    BY <1>1, <1>4 DEF CommandFields, CaseInv, Records, IsIdentity
  <2>3. Records'
    BY <1>1, <2>1, <2>2 DEF CaseInv, Records, Databases, IsIdentity
  <2>4. StepOK'
    BY <1>1, <1>2, <2>1 DEF CaseInv, StepOK, SubOK, Observing, Opening, Attesting
  <2>5. NothingElse'
    BY <1>1, <2>1 DEF CaseInv, NothingElse, Working, Clone, Recovery
  <2>6. Attested' /\ ReplacementIsSeed'
    BY <1>1, <2>1
       DEF CaseInv, Attested, Checked, Is, AsSealed, Exists, Observing,
           ReplacementIsSeed, SeedOr
  <2>7. ReplacementIsWhole'
    BY <1>1, <1>4, <2>1, <2>2
       DEF CaseInv, ReplacementIsWhole, WholeAs, Readable, Exists, Observing
  <2>8. Bound' /\ OriginalIsAside'
    BY <1>1, <2>1
       DEF CaseInv, Bound, SessionsAreBound, Exists, OriginalIsAside, Recovery
  <2>9. Consented'
    BY <1>1, <1>4, <2>1, <2>2 DEF CaseInv, Consented, Copied, Exists, IsSealed
  <2> QED  BY <2>3, <2>4, <2>5, <2>6, <2>7, <2>8, <2>9 DEF CaseInv
<1> QED  BY <1>3, <1>4 DEF ObserveCatalog, Query

\* A step that changes no database and nothing that the command knows.
LEMMA AdvanceKeeps ==
  ASSUME CaseInv, UNCHANGED <<server, phrase, left>>, cmd' = Done(cmd),
         \/ /\ cmd.kind = "run"
            /\ cmd.step \in {"stop", "reobserve", "absent", "recheck", "start", "bind",
                             "quiet"}
         \/ /\ cmd.kind = "baseline"
            /\ cmd.step \in {"noBaseline", "challenge", "stop", "reobserve",
                             "noBaselineYet", "start"},
         cmd.error = "none",
         cmd.step = "absent" => ~Exists(Recovery),
         cmd.kind = "baseline" /\ cmd.step = "reobserve"
            => /\ Exists(Case) /\ server[Case].oid = cmd.want.oid
               /\ server[Case].marker = cmd.want.marker,
         cmd.step = "challenge" => cmd.consents /\ phrase = cmd.want
  PROVE  CaseInv'
<1>1. /\ DOMAIN cmd' = CommandFields /\ cmd'.kind = cmd.kind /\ cmd'.error = "none"
      /\ cmd'.consents = cmd.consents /\ cmd'.want = cmd.want /\ cmd'.obs = cmd.obs
      /\ cmd'.base = cmd.base /\ cmd'.after = cmd.after
      /\ cmd'.uuid = cmd.uuid /\ cmd'.private = cmd.private
      /\ cmd'.temporary = cmd.temporary /\ cmd'.seed = cmd.seed
      /\ cmd'.made = cmd.made /\ cmd'.replaced = cmd.replaced
      /\ cmd'.opened = cmd.opened
      /\ cmd'.step = Following(cmd.kind, cmd.step) /\ cmd'.sub = SubOf(cmd'.step)
  BY DoneIs DEF CaseInv, Records, Went, Same
<1>2. /\ cmd.kind = "run" =>
           /\ cmd.step = "stop" => cmd'.step = "reobserve"
           /\ cmd.step = "reobserve" => cmd'.step = "reattest"
           /\ cmd.step = "absent" => cmd'.step = "fence"
           /\ cmd.step = "recheck" => cmd'.step = "rename"
           /\ cmd.step = "start" => cmd'.step = "bind"
           /\ cmd.step = "bind" => cmd'.step = "bindOpen"
           /\ cmd.step = "quiet" => cmd'.step = "openSnapshot"
      /\ cmd.kind = "baseline" =>
           /\ cmd.step = "noBaseline" => cmd'.step = "challenge"
           /\ cmd.step = "challenge" => cmd'.step = "stop"
           /\ cmd.step = "stop" => cmd'.step = "reobserve"
           /\ cmd.step = "reobserve" => cmd'.step = "noBaselineYet"
           /\ cmd.step = "noBaselineYet" => cmd'.step = "fence"
           /\ cmd.step = "start" => cmd'.step = "end"
  BY <1>1, RunOrder, BaselineOrder
<1>3. cmd'.sub = SubOf(cmd'.step) /\ cmd.sub \notin {"inspect", "dropClone", "sweep"}
  BY <1>1 DEF CaseInv, StepOK, SubOK, Attesting, Opening, Observing
<1>4. Records'
  BY <1>1 DEF CaseInv, Records, Databases, IsIdentity
<1>5. StepOK'
  <2>1. SubOK'
    BY <1>1, <1>2 DEF SubOK, SubOf, Observing, Attesting
  <2>2. cmd'.kind = "run" => cmd'.step \in RunSteps
    BY <1>1, <1>2 DEF RunSteps, Replacing
  <2>3. cmd'.kind = "baseline" => cmd'.step \in BaselineSteps
    BY <1>1, <1>2 DEF BaselineSteps, Sealing
  <2>4. cmd'.kind = "run" /\ cmd'.private = Nothing => cmd'.step \notin Naming
    BY <1>1, <1>2 DEF CaseInv, StepOK, Naming, Replacing
  <2>5. cmd'.step \notin Restoring /\ cmd'.sub # "again"
    BY <1>1, <1>2 DEF Restoring, SubOf
  <2> QED  BY <1>1, <2>1, <2>2, <2>3, <2>4, <2>5 DEF StepOK
<1>6. NothingElse'
  <2>1. Working = {}
    BY <1>3 DEF Working
  <2> QED  BY <1>1, <2>1 DEF CaseInv, NothingElse
<1>7. Attested'
  BY <1>1, <1>2 DEF CaseInv, Attested, RunSteps, Replacing, Is, AsSealed, Exists
<1>8. ReplacementIsSeed'
  BY <1>1, <1>2 DEF ReplacementIsSeed
<1>9. ReplacementIsWhole'
  BY <1>1, <1>2 DEF CaseInv, ReplacementIsWhole, Replacing, Restoring,
     Bound, AfterReset
<1>10. Bound'
  BY <1>1, <1>2 DEF CaseInv, Bound, AfterReset, SessionsAreBound, Exists
<1>11. OriginalIsAside'
  BY <1>1, <1>2 DEF CaseInv, OriginalIsAside, Exists, Recovery
<1>12. Consented'
  BY <1>1, <1>2, <1>3 DEF CaseInv, Consented, Sealing, Exists, SubOf, Observing
<1> QED  BY <1>4, <1>5, <1>6, <1>7, <1>8, <1>9, <1>10, <1>11, <1>12 DEF CaseInv

\* What the step of a command tells of its kind, its fields and its error.
LEMMA StepIsKnown ==
  ASSUME CaseInv
  PROVE  /\ DOMAIN cmd = CommandFields
         /\ cmd.step # "idle" => cmd.kind \in {"run", "baseline"}
         /\ cmd.kind = "run" => cmd.step \in RunSteps
         /\ cmd.kind = "baseline" => cmd.step \in BaselineSteps
         /\ cmd.step \notin ErrorSteps => cmd.error = "none"
  BY KindAndStep DEF CaseInv, Records, StepOK

\* The services are stopped (stop_customer_services).
LEMMA StopServicesKeeps ==
  ASSUME CaseInv, StopServices PROVE CaseInv'
<1>1. /\ cmd.step = "stop" /\ cmd.sub = "" /\ UNCHANGED <<server, phrase, left>>
      /\ cmd.kind \in {"run", "baseline"} /\ cmd.error = "none"
  BY StepIsKnown DEF StopServices, At, ErrorSteps, Restoring
<1>2. CASE cmd' = Done(cmd)
  BY <1>1, <1>2, AdvanceKeeps
<1>3. CASE cmd' = Failed(cmd, "error")
  BY <1>1, <1>3, RefusedKeeps
<1> QED  BY <1>2, <1>3 DEF StopServices

\* The services are started, after a reset or a failed one (start_customer_services).
LEMMA StartServicesKeeps ==
  ASSUME CaseInv, StartServices PROVE CaseInv'
<1>1. /\ cmd.step = "start" /\ cmd.sub = "" /\ UNCHANGED <<server, phrase, left>>
      /\ cmd.kind \in {"run", "baseline"}
  BY StepIsKnown DEF StartServices, At
<1>2. CASE cmd.error = "none" /\ cmd' = Done(cmd)
  BY <1>1, <1>2, AdvanceKeeps
<1>3. CASE cmd' = Ending(cmd.error)
  <2>1. Ended(cmd', cmd.kind, cmd.error)
    BY <1>3, EndingIs
  <2>2. left \/ cmd.error \in Reported \/ DOMAIN server' \subseteq {Case, Baseline}
    BY <1>1 DEF CaseInv, NothingElse, Working
  <2>3. Databases' /\ IsIdentity(phrase')
    BY <1>1 DEF CaseInv, Records, Databases
  <2> QED  BY <1>1, <2>1, <2>2, <2>3, EndedKeeps
<1>4. CASE cmd' = Failed(cmd, "error")
  BY <1>1, <1>4, RefusedKeeps
<1> QED  BY <1>2, <1>3, <1>4 DEF StartServices

\* The seal requires that there is no baseline (require_baseline_absent).
LEMMA RequireBaselineAbsentKeeps ==
  ASSUME CaseInv, RequireBaselineAbsent PROVE CaseInv'
<1>1. /\ cmd.step \in {"noBaseline", "noBaselineYet"} /\ cmd.sub = ""
      /\ UNCHANGED <<server, phrase, left>>
      /\ cmd.kind = "baseline" /\ cmd.error = "none"
  BY StepIsKnown
     DEF RequireBaselineAbsent, Query, Quiet, At, ErrorSteps, Restoring, RunSteps,
         Replacing
<1>2. CASE cmd' = Done(cmd)
  BY <1>1, <1>2, AdvanceKeeps
<1>3. CASE cmd' = Failed(cmd, "error")
  BY <1>1, <1>3, RefusedKeeps
<1> QED  BY <1>2, <1>3 DEF RequireBaselineAbsent, Query

\* The operator is shown the identity and consents or does not (ResetChallenge).
LEMMA ChallengeKeeps ==
  ASSUME CaseInv, Challenge PROVE CaseInv'
<1>1. /\ cmd.step = "challenge" /\ cmd.sub = "" /\ UNCHANGED <<server, left>>
      /\ cmd.kind = "baseline" /\ cmd.error = "none"
  BY StepIsKnown DEF Challenge, At, ErrorSteps, Restoring, RunSteps, Replacing
<1>2. CASE phrase' = cmd.want /\ cmd' = Ending(cmd.error)
  <2>1. Ended(cmd', cmd.kind, cmd.error)
    BY <1>2, EndingIs
  <2>2. left \/ cmd.error \in Reported \/ DOMAIN server' \subseteq {Case, Baseline}
    BY <1>1 DEF CaseInv, NothingElse, Working
  <2>3. Databases' /\ IsIdentity(phrase')
    BY <1>1, <1>2 DEF CaseInv, Records, Databases
  <2> QED  BY <1>1, <2>1, <2>2, <2>3, EndedKeeps
<1>3. CASE cmd.consents /\ phrase = cmd.want /\ phrase' = phrase /\ cmd' = Done(cmd)
  BY <1>1, <1>3, AdvanceKeeps
<1>4. CASE phrase' = phrase /\ cmd' = Failed(cmd, "error")
  BY <1>1, <1>4, RefusedKeeps
<1> QED  BY <1>2, <1>3, <1>4 DEF Challenge

\* The private name is free (prepare_case_replacement).
LEMMA RequireRecoveryAbsentKeeps ==
  ASSUME CaseInv, RequireRecoveryAbsent PROVE CaseInv'
<1>1. /\ cmd.step = "absent" /\ cmd.sub = "" /\ UNCHANGED <<server, phrase, left>>
      /\ cmd.kind = "run" /\ cmd.error = "none"
  BY StepIsKnown DEF RequireRecoveryAbsent, Query, Quiet, At, ErrorSteps, Restoring,
     BaselineSteps, Sealing
<1>2. CASE ~Exists(Recovery) /\ cmd' = Done(cmd)
  BY <1>1, <1>2, AdvanceKeeps
<1>3. CASE cmd' = Failed(cmd, "error")
  BY <1>1, <1>3, RefusedKeeps
<1> QED  BY <1>2, <1>3 DEF RequireRecoveryAbsent, Query

\* The last look at the oid, before the rename (require_database_identity).
LEMMA RecheckCaseKeeps ==
  ASSUME CaseInv, RecheckCase PROVE CaseInv'
<1>1. /\ cmd.step = "recheck" /\ cmd.sub = "" /\ UNCHANGED <<server, phrase, left>>
      /\ cmd.kind = "run" /\ cmd.error = "none"
  BY StepIsKnown
     DEF RecheckCase, Query, Quiet, At, ErrorSteps, Restoring, BaselineSteps,
         Sealing
<1>2. CASE cmd' = Done(cmd)
  BY <1>1, <1>2, AdvanceKeeps
<1>3. CASE cmd' = Failed(cmd, "error")
  BY <1>1, <1>3, RefusedKeeps
<1> QED  BY <1>2, <1>3 DEF RecheckCase, Query

\* Nothing that the invariant speaks of changes.
LEMMA UnchangedKeeps ==
  ASSUME CaseInv, UNCHANGED <<server, cmd, phrase, left>> PROVE CaseInv'
<1> USE DEF CaseInv, Exists, Clone, Recovery, Readable, Is, AsSealed, SeedOr, WholeAs
<1>1. Records' /\ StepOK' /\ NothingElse'
  BY DEF Records, Databases, IsIdentity, StepOK, SubOK, NothingElse, Working
<1>2. Attested' /\ ReplacementIsSeed'
  BY DEF Attested, ReplacementIsSeed, Checked
<1>3. ReplacementIsWhole' /\ Bound' /\ OriginalIsAside'
  BY DEF ReplacementIsWhole, Bound, SessionsAreBound, OriginalIsAside
<1>4. Consented'
  BY DEF Consented, Copied, IsSealed
<1> QED  BY <1>1, <1>2, <1>3, <1>4

\* A wait goes on or ends; it touches no database (await_stable).
LEMMA AwaitQuiescenceKeeps ==
  ASSUME CaseInv, AwaitQuiescence PROVE CaseInv'
<1>1. /\ cmd.step = "quiet" /\ cmd.sub = "" /\ UNCHANGED <<server, phrase, left>>
      /\ cmd.kind = "run" /\ cmd.error = "none"
  BY StepIsKnown
     DEF AwaitQuiescence, At, ErrorSteps, Restoring, BaselineSteps, Sealing
<1>2. CASE cmd' = Done(cmd)
  BY <1>1, <1>2, AdvanceKeeps
<1>3. CASE cmd' = Failed(cmd, "error")
  BY <1>1, <1>3, RefusedKeeps
<1>4. CASE cmd' = cmd
  BY <1>1, <1>4, UnchangedKeeps
<1> QED  BY <1>2, <1>3, <1>4 DEF AwaitQuiescence

\* Between commands.
LEMMA IdleKeeps ==
  ASSUME CaseInv, cmd' = NoCommand, UNCHANGED <<server, phrase>>,
         left' \/ DOMAIN server \subseteq {Case, Baseline}
  PROVE  CaseInv'
<1>1. /\ DOMAIN cmd' = CommandFields /\ cmd'.kind = "none" /\ cmd'.step = "idle"
      /\ cmd'.sub = "" /\ cmd'.error = "none" /\ cmd'.made = {} /\ cmd'.opened = {}
      /\ cmd'.replaced = FALSE /\ cmd'.temporary = [name |-> Nothing, bad |-> FALSE]
      /\ cmd'.want = NoIdentity /\ cmd'.base = NoIdentity /\ cmd'.obs = NoIdentity
      /\ cmd'.after = NoIdentity
  BY DEF NoCommand, CommandFields
<1>2. Records'
  BY <1>1, FS_EmptySet DEF CaseInv, Records, Databases, IsIdentity, NoIdentity
<1>3. StepOK'
  BY <1>1 DEF StepOK, SubOK, Observing, Attesting, Restoring
<1>4. NothingElse'
  BY <1>1 DEF NothingElse, Working
<1>5. Attested' /\ ReplacementIsSeed' /\ OriginalIsAside' /\ Consented'
      /\ ReplacementIsWhole'
  BY <1>1
     DEF Attested, ReplacementIsSeed, OriginalIsAside, Consented, ReplacementIsWhole
<1>6. Bound'
  BY <1>1 DEF Bound, SessionsAreBound
<1> QED  BY <1>2, <1>3, <1>4, <1>5, <1>6 DEF CaseInv

\* A command ends, and forgets what it observed.
LEMMA EndKeeps ==
  ASSUME CaseInv, End PROVE CaseInv'
<1>1. /\ cmd.step = "end" /\ cmd.sub = "" /\ UNCHANGED <<server, phrase>>
      /\ cmd' = NoCommand /\ left' = (left \/ cmd.error \in Reported)
  BY DEF End, At, Reported
<1>2. left' \/ DOMAIN server \subseteq {Case, Baseline}
  BY <1>1 DEF CaseInv, NothingElse, Working
<1> QED  BY <1>1, <1>2, IdleKeeps

\* A command that is killed forgets everything; that it left something is told.
LEMMA CrashKeeps ==
  ASSUME CaseInv, Crash PROVE CaseInv'
  BY IdleKeeps DEF Crash

\* The next command begins, knowing nothing.
LEMMA BeginKeeps ==
  ASSUME CaseInv, Begin PROVE CaseInv'
<1>1. PICK kind \in {"baseline", "run"}, consents \in BOOLEAN :
         cmd' = Enter([NoCommand EXCEPT !.kind = kind, !.consents = consents], "observe")
  BY DEF Begin
<1>2. UNCHANGED <<server, phrase, left>> /\ cmd = NoCommand
  BY DEF Begin
<1>3. /\ DOMAIN cmd' = CommandFields /\ cmd'.kind = kind /\ cmd'.step = "observe"
      /\ cmd'.sub = "catalog" /\ cmd'.error = "none" /\ cmd'.made = {} /\ cmd'.opened = {}
      /\ cmd'.replaced = FALSE /\ cmd'.temporary = [name |-> Nothing, bad |-> FALSE]
      /\ cmd'.want = NoIdentity /\ cmd'.base = NoIdentity /\ cmd'.obs = NoIdentity
      /\ cmd'.after = NoIdentity
  BY <1>1 DEF NoCommand, CommandFields, Enter, Observing
<1>4. Records'
  BY <1>2, <1>3, FS_EmptySet DEF CaseInv, Records, Databases, IsIdentity, NoIdentity
<1>5. StepOK'
  BY <1>3 DEF StepOK, SubOK, Observing, RunSteps, BaselineSteps, Restoring, Naming,
     Replacing
<1>6. NothingElse'
  <2>1. Working = {} /\ cmd.error \notin Reported
    BY <1>2 DEF Working, NoCommand, Reported
  <2> QED  BY <1>2, <1>3, <2>1 DEF CaseInv, NothingElse
<1>7. Attested' /\ ReplacementIsSeed' /\ OriginalIsAside' /\ Consented'
      /\ ReplacementIsWhole'
  BY <1>3 DEF Attested, ReplacementIsSeed, OriginalIsAside, Consented, Sealing,
     ReplacementIsWhole
<1>8. Bound'
  BY <1>3 DEF Bound, SessionsAreBound, AfterReset
<1> QED  BY <1>4, <1>5, <1>6, <1>7, <1>8 DEF CaseInv

\* A step that changes no database and says what it changes of the command.
LEMMA ResumeKeeps ==
  ASSUME CaseInv, Resume PROVE CaseInv'
<1>1. /\ cmd.step \in {"resume", "session"} /\ cmd.sub = ""
      /\ UNCHANGED <<server, phrase, left>> /\ cmd.kind = "run" /\ cmd.error = "none"
  BY StepIsKnown
     DEF Resume, Quiet, At, ErrorSteps, Restoring, BaselineSteps, Sealing
<1>2. CASE cmd' = Ending(cmd.error)
  <2>1. Ended(cmd', cmd.kind, cmd.error)
    BY <1>2, EndingIs
  <2>2. left \/ cmd.error \in Reported \/ DOMAIN server' \subseteq {Case, Baseline}
    BY <1>1 DEF CaseInv, NothingElse, Working
  <2>3. Databases' /\ IsIdentity(phrase')
    BY <1>1 DEF CaseInv, Records, Databases
  <2> HIDE DEF Ended
  <2>4. cmd.kind \in {"run", "baseline"} /\ left' = left
    BY <1>1
  <2> QED  BY <2>1, <2>2, <2>3, <2>4, EndedKeeps
<1>3. CASE cmd.step = "resume" /\ cmd' = Enter(cmd, "session")
  <2>1. /\ DOMAIN cmd' = CommandFields /\ Same(cmd', cmd) /\ cmd'.error = cmd.error
        /\ cmd'.step = "session" /\ cmd'.sub = ""
    <3>1. Went(cmd', cmd, "session")
      BY <1>3, EnterIs, StepIsKnown
    <3> QED  BY <3>1 DEF Went, SubOf, Observing, Attesting
  <2> USE DEF Same
  <2>2. Records'
    <3>1. \A i \in {phrase', cmd'.want, cmd'.base, cmd'.obs, cmd'.after} : IsIdentity(i)
      BY <1>1, <2>1 DEF CaseInv, Records
    <3>2. Databases'
      BY <1>1 DEF CaseInv, Records, Databases
    <3> QED  BY <2>1, <3>1, <3>2 DEF CaseInv, Records
  <2>3. StepOK'
    BY <1>1, <2>1
       DEF StepOK, SubOK, Observing, Attesting, RunSteps, Naming, Replacing,
           Restoring
  <2>4. NothingElse'
    BY <1>1, <2>1 DEF CaseInv, NothingElse, Working
  <2>5. Attested'
    BY <1>1, <1>3, <2>1 DEF CaseInv, Attested, RunSteps, Is, AsSealed, Exists
  <2>6. ReplacementIsSeed' /\ OriginalIsAside' /\ Consented'
    BY <1>1, <2>1 DEF ReplacementIsSeed, OriginalIsAside, Consented
  <2>7. ReplacementIsWhole'
    BY <1>1, <1>3, <2>1 DEF CaseInv, ReplacementIsWhole, Replacing, Restoring
  <2>8. Bound'
    BY <1>1, <2>1 DEF CaseInv, Bound, SessionsAreBound, AfterReset, Exists
  <2> QED  BY <2>2, <2>3, <2>4, <2>5, <2>6, <2>7, <2>8 DEF CaseInv
<1> QED  BY <1>1, <1>2, <1>3 DEF Resume, At

\* A reset forgets the sessions of the one before it and draws a private name.
LEMMA BeginResetKeeps ==
  ASSUME CaseInv, BeginReset PROVE CaseInv'
<1> DEFINE c == [cmd EXCEPT !.opened = {}, !.private = fresh, !.made = {},
                            !.replaced = FALSE]
<1>1. /\ cmd.step = "session" /\ cmd.sub = "" /\ cmd' = Done(c)
      /\ UNCHANGED <<server, phrase, left>> /\ cmd.kind = "run" /\ cmd.error = "none"
  BY StepIsKnown DEF BeginReset, At, ErrorSteps, Restoring, BaselineSteps, Sealing
<1>2. /\ DOMAIN c = CommandFields /\ c.kind = "run" /\ c.step = "session"
      /\ c.private = fresh /\ c.made = {} /\ c.opened = {} /\ c.replaced = FALSE
      /\ c.want = cmd.want /\ c.base = cmd.base /\ c.obs = cmd.obs
      /\ c.after = cmd.after /\ c.temporary = cmd.temporary /\ c.seed = cmd.seed
      /\ c.error = cmd.error
  BY <1>1, StepIsKnown DEF CommandFields
<1> HIDE DEF c
<1>3. /\ DOMAIN cmd' = CommandFields /\ cmd'.kind = "run" /\ cmd'.error = "none"
      /\ cmd'.private = fresh /\ cmd'.made = {} /\ cmd'.opened = {}
      /\ cmd'.replaced = FALSE
      /\ cmd'.want = cmd.want /\ cmd'.base = cmd.base /\ cmd'.obs = cmd.obs
      /\ cmd'.after = cmd.after /\ cmd'.temporary = cmd.temporary
      /\ cmd'.seed = cmd.seed /\ cmd'.step = "stop" /\ cmd'.sub = ""
  <2>1. Went(cmd', c, "stop")
    BY <1>1, <1>2, DoneIs, RunOrder
  <2> QED  BY <1>1, <1>2, <2>1 DEF Went, Same, SubOf, Observing, Attesting
<1>4. Records'
  <2>1. \A i \in {phrase', cmd'.want, cmd'.base, cmd'.obs, cmd'.after} : IsIdentity(i)
    BY <1>1, <1>3 DEF CaseInv, Records
  <2> QED  BY <1>1, <1>3, <2>1, FS_EmptySet
              DEF CaseInv, Records, Databases, IsIdentity
<1>5. StepOK'
  <2>1. cmd'.private # Nothing
    BY <1>3, FreshIsFresh DEF Nothing
  <2> QED  BY <1>3, <2>1
              DEF StepOK, SubOK, Observing, Attesting, RunSteps, Naming, Replacing,
                  Restoring
<1>6. NothingElse'
  BY <1>1, <1>3 DEF CaseInv, NothingElse, Working
<1>7. Attested'
  BY <1>1, <1>3 DEF CaseInv, Attested, RunSteps, Is, AsSealed, Exists
<1>8. ReplacementIsSeed' /\ OriginalIsAside' /\ Consented' /\ ReplacementIsWhole'
  BY <1>3 DEF ReplacementIsSeed, OriginalIsAside, Consented, ReplacementIsWhole
<1>9. Bound'
  BY <1>3 DEF Bound, SessionsAreBound, AfterReset
<1> QED  BY <1>4, <1>5, <1>6, <1>7, <1>8, <1>9 DEF CaseInv

\* The marker is read by name, after the oid: at the steps where it counts nobody
\* can have put another database behind the name in between.
LEMMA ObserveMarkerKeeps ==
  ASSUME CaseInv, ObserveMarker PROVE CaseInv'
<1> DEFINE seen == [oid |-> cmd.obs.oid, marker |-> server[Case].marker]
<1>1. /\ cmd.sub = "marker" /\ UNCHANGED <<server, phrase, left>>
      /\ DOMAIN cmd = CommandFields /\ cmd.step \in Observing
  BY DEF ObserveMarker, Query, Quiet, CaseInv, Records, StepOK, SubOK, Attesting
<1>2. /\ cmd.kind \in {"run", "baseline"}
      /\ cmd.kind = "run" => cmd.step \in RunSteps
      /\ cmd.kind = "baseline" => cmd.step \in BaselineSteps
      /\ cmd.step \notin {"session", "resume", "end"}
      /\ cmd.step # "observeRestored" => cmd.error = "none"
  BY <1>1, StepIsKnown DEF Observing, ErrorSteps, Restoring
<1>3. CASE cmd' = Failed(cmd, "error")
  BY <1>1, <1>2, <1>3, RefusedKeeps
<1>4. ASSUME Readable(Case, "case"), Accepts(seen), cmd' = Observed(seen)
      PROVE  CaseInv'
  <2>1. IsIdentity(seen)
    BY DEF IsIdentity
  <2>2. \A i \in {phrase, cmd.want, cmd.base, cmd.obs, cmd.after} : IsIdentity(i)
    BY DEF CaseInv, Records
  <2>3. Working \subseteq {Recovery}
        /\ (cmd.kind = "baseline" \/ cmd.step # "observeNew" => Working = {})
    BY <1>1 DEF Working, Observing
  <2>4. Exists(Case)
    BY <1>4 DEF Readable
  <2>5. CASE cmd.step = "observe"
    <3> DEFINE c == [cmd EXCEPT !.want = seen]
    <3>1. cmd' = Done(c)
      BY <1>4, <2>5 DEF Observed, Opening
    <3>2. /\ DOMAIN c = CommandFields /\ c.kind = cmd.kind /\ c.step = "observe"
          /\ c.private = cmd.private /\ c.made = cmd.made /\ c.opened = cmd.opened
          /\ c.replaced = cmd.replaced /\ c.want = seen /\ c.base = cmd.base
          /\ c.obs = cmd.obs /\ c.after = cmd.after /\ c.temporary = cmd.temporary
          /\ c.seed = cmd.seed /\ c.error = cmd.error
      BY <1>1, <2>5 DEF CommandFields
    <3> HIDE DEF c
    <3>3. Went(cmd', c, Following(cmd.kind, "observe"))
      BY <3>1, <3>2, DoneIs
    <3> DEFINE next == Following(cmd.kind, "observe")
    <3>a. /\ cmd.kind = "run" => next = "attest"
          /\ cmd.kind = "baseline" => next = "noBaseline"
      BY RunOrder, BaselineOrder
    <3>b. cmd'.step = next /\ cmd'.sub = SubOf(next)
      BY <3>3 DEF Went
    <3> HIDE DEF next
    <3>4. /\ cmd.kind = "run" => cmd'.step = "attest" /\ cmd'.sub = "sealed"
          /\ cmd.kind = "baseline" => cmd'.step = "noBaseline" /\ cmd'.sub = ""
      BY <3>a, <3>b DEF SubOf, Observing, Attesting
    <3>5. /\ DOMAIN cmd' = CommandFields /\ cmd'.kind = cmd.kind
          /\ cmd'.private = cmd.private /\ cmd'.made = cmd.made
          /\ cmd'.opened = cmd.opened
          /\ cmd'.replaced = cmd.replaced /\ cmd'.want = seen /\ cmd'.base = cmd.base
          /\ cmd'.obs = cmd.obs /\ cmd'.after = cmd.after
          /\ cmd'.temporary = cmd.temporary
          /\ cmd'.seed = cmd.seed /\ cmd'.error = "none"
      BY <1>2, <2>5, <3>2, <3>3 DEF Went, Same
    <3>6. cmd'.step \in {"attest", "noBaseline"} /\ cmd'.sub \in {"sealed", ""}
      BY <1>2, <3>4
    <3> HIDE DEF seen
    <3>7. Records'
      <4>1. \A i \in {phrase', cmd'.want, cmd'.base, cmd'.obs, cmd'.after} : IsIdentity(i)
        BY <1>1, <3>5, <2>1, <2>2
      <4> QED  BY <1>1, <3>5, <4>1 DEF CaseInv, Records, Databases
    <3>8. StepOK'
      BY <1>2, <3>4, <3>5 DEF StepOK, SubOK, Observing, Attesting, RunSteps,
         BaselineSteps, Naming, Replacing, Restoring
    <3>9. NothingElse'
      BY <1>1, <1>2, <2>3, <2>5, <3>5 DEF CaseInv, NothingElse, Reported
    <3>10. Attested' /\ ReplacementIsSeed' /\ OriginalIsAside' /\ Consented'
      BY <3>4, <3>5, <3>6 DEF Attested, Checked, ReplacementIsSeed, OriginalIsAside,
         Consented, Sealing, RunSteps
    <3>11. ReplacementIsWhole' /\ Bound'
      BY <2>5, <3>5, <3>6 DEF CaseInv, ReplacementIsWhole, Bound, SessionsAreBound,
         AfterReset, Replacing, Restoring
    <3> QED  BY <3>7, <3>8, <3>9, <3>10, <3>11 DEF CaseInv
  <2>6. CASE cmd.step = "observeNew"
    <3> DEFINE c == [cmd EXCEPT !.after = seen]
    <3>1. cmd' = Done(c)
      BY <1>4, <2>6 DEF Observed, Opening
    <3>2. /\ DOMAIN c = CommandFields /\ c.kind = cmd.kind /\ c.step = "observeNew"
          /\ c.private = cmd.private /\ c.made = cmd.made /\ c.opened = cmd.opened
          /\ c.replaced = cmd.replaced /\ c.want = cmd.want /\ c.base = cmd.base
          /\ c.obs = cmd.obs /\ c.after = seen /\ c.temporary = cmd.temporary
          /\ c.seed = cmd.seed /\ c.error = cmd.error /\ c.uuid = cmd.uuid
      BY <1>1, <2>6 DEF CommandFields
    <3> HIDE DEF c
    <3>3. Went(cmd', c, Following(cmd.kind, "observeNew"))
      BY <3>1, <3>2, DoneIs
    <3> DEFINE next == Following(cmd.kind, "observeNew")
    <3>a. next = "attestAfter"
      BY <1>2, RunOrder, BaselineOrder
    <3>b. cmd'.step = next /\ cmd'.sub = SubOf(next)
      BY <3>3 DEF Went
    <3> HIDE DEF next
    <3>4. cmd'.step = "attestAfter" /\ cmd'.sub = "sealed"
      BY <3>a, <3>b DEF SubOf, Observing, Attesting
    <3>5. /\ DOMAIN cmd' = CommandFields /\ cmd'.kind = cmd.kind
          /\ cmd'.private = cmd.private /\ cmd'.made = cmd.made
          /\ cmd'.opened = cmd.opened
          /\ cmd'.replaced = cmd.replaced /\ cmd'.want = cmd.want
          /\ cmd'.base = cmd.base /\ cmd'.uuid = cmd.uuid
          /\ cmd'.obs = cmd.obs /\ cmd'.after = seen
          /\ cmd'.temporary = cmd.temporary
          /\ cmd'.seed = cmd.seed /\ cmd'.error = "none"
      BY <1>2, <2>6, <3>2, <3>3 DEF Went, Same
    <3>6. /\ seen.oid = cmd.obs.oid /\ seen.marker = server[Case].marker
          /\ seen.marker = cmd.uuid
      BY <1>4, <2>6 DEF Accepts, FreshlyReset
    <3> HIDE DEF seen
    <3>7. Records'
      <4>1. \A i \in {phrase', cmd'.want, cmd'.base, cmd'.obs, cmd'.after} : IsIdentity(i)
        BY <1>1, <3>5, <2>1, <2>2
      <4> QED  BY <1>1, <3>5, <4>1 DEF CaseInv, Records, Databases
    <3>8. StepOK'
      BY <1>2, <2>6, <3>4, <3>5
         DEF CaseInv, StepOK, SubOK, Observing, Attesting, RunSteps, BaselineSteps,
             Naming, Replacing, Restoring
    <3>9. NothingElse'
      BY <1>1, <1>2, <2>3, <2>6, <3>4, <3>5
         DEF CaseInv, NothingElse, Working, Recovery, Reported
    <3>10. Attested' /\ ReplacementIsSeed'
      BY <1>1, <2>6, <3>4, <3>5 DEF CaseInv, Attested, Checked, ReplacementIsSeed,
         SeedOr, Is, AsSealed, Exists, RunSteps, Replacing
    <3>11. ReplacementIsWhole'
      BY <1>1, <1>4, <2>6, <3>4, <3>5, <3>6
         DEF CaseInv, ReplacementIsWhole, WholeAs, Readable, Exists, Replacing
    <3>12. Bound' /\ OriginalIsAside' /\ Consented'
      BY <1>1, <2>6, <3>4, <3>5 DEF CaseInv, Bound, SessionsAreBound, AfterReset,
         OriginalIsAside, Exists, Recovery, Consented, Sealing
    <3> QED  BY <3>7, <3>8, <3>9, <3>10, <3>11, <3>12 DEF CaseInv
  <2>7. CASE cmd.step = "observeRestored"
    <3>1. Went(cmd', cmd, "start")
      BY <1>1, <1>4, <2>7, EnterIs DEF Observed, Opening
    <3>2. /\ DOMAIN cmd' = CommandFields /\ cmd'.kind = cmd.kind
          /\ cmd'.private = cmd.private /\ cmd'.made = cmd.made
          /\ cmd'.opened = cmd.opened /\ cmd'.after = cmd.after
          /\ cmd'.replaced = cmd.replaced /\ cmd'.want = cmd.want
          /\ cmd'.base = cmd.base /\ cmd'.obs = cmd.obs
          /\ cmd'.temporary = cmd.temporary
          /\ cmd'.seed = cmd.seed /\ cmd'.error = cmd.error
          /\ cmd'.step = "start" /\ cmd'.sub = ""
      BY <3>1 DEF Went, Same, SubOf, Observing, Attesting
    <3>3. seen = cmd.want
      BY <1>4, <2>7 DEF Accepts, SameIdentity
    <3>4. cmd.want.oid = cmd.obs.oid /\ cmd.want.marker = server[Case].marker
      BY <3>3
    <3>5. cmd.kind = "run" /\ cmd.error # "none"
      BY <1>2, <2>7 DEF CaseInv, StepOK, BaselineSteps, Sealing, Restoring
    <3>6. Records'
      BY <1>1, <2>2, <3>2 DEF CaseInv, Records, Databases
    <3>7. StepOK'
      BY <3>2, <3>5
         DEF StepOK, SubOK, Observing, Attesting, RunSteps, ErrorSteps, Naming,
             Replacing
    <3>8. NothingElse'
      BY <1>1, <2>3, <2>7, <3>2 DEF CaseInv, NothingElse
    <3>9. Attested'
      BY <1>1, <2>7, <3>2 DEF CaseInv, Attested, RunSteps, Restoring, Is, AsSealed,
         Exists
    <3>10. ReplacementIsSeed' /\ OriginalIsAside' /\ Consented'
      BY <3>2, <3>5 DEF ReplacementIsSeed, OriginalIsAside, Consented
    <3>11. ReplacementIsWhole'
      BY <1>1, <1>4, <2>7, <3>2, <3>4
         DEF CaseInv, ReplacementIsWhole, WholeAs, Readable, Exists
    <3>12. Bound'
      BY <2>7, <3>2, <3>5 DEF CaseInv, Bound, SessionsAreBound, AfterReset
    <3> QED  BY <3>6, <3>7, <3>8, <3>9, <3>10, <3>11, <3>12 DEF CaseInv
  <2>8. CASE cmd.step \in Opening
    <3>1. /\ DOMAIN cmd' = CommandFields /\ cmd'.kind = cmd.kind
          /\ cmd'.private = cmd.private /\ cmd'.made = cmd.made
          /\ cmd'.opened = cmd.opened /\ cmd'.after = cmd.after
          /\ cmd'.replaced = cmd.replaced /\ cmd'.want = cmd.want
          /\ cmd'.base = cmd.base /\ cmd'.obs = cmd.obs
          /\ cmd'.temporary = cmd.temporary
          /\ cmd'.seed = cmd.seed /\ cmd'.error = cmd.error
          /\ cmd'.step = cmd.step /\ cmd'.sub = "direct"
      BY <1>1, <1>4, <2>8 DEF Observed, Opening, CommandFields
    <3>2. Records'
      BY <1>1, <2>2, <3>1 DEF CaseInv, Records, Databases
    <3>3. StepOK'
      BY <1>1, <1>2, <2>8, <3>1 DEF CaseInv, StepOK, SubOK
    <3>4. NothingElse'
      BY <1>1, <2>3, <2>8, <3>1 DEF CaseInv, NothingElse, Opening
    <3>5. Attested'
      BY <1>1, <2>8, <3>1
         DEF CaseInv, Attested, Checked, Is, AsSealed, Exists, Opening
    <3>6. ReplacementIsSeed' /\ OriginalIsAside' /\ Consented'
      BY <2>8, <3>1
         DEF ReplacementIsSeed, OriginalIsAside, Consented, Opening, Sealing
    <3>7. ReplacementIsWhole'
      BY <1>1, <2>8, <3>1 DEF CaseInv, ReplacementIsWhole, Opening
    <3>8. Bound'
      BY <1>1, <2>8, <3>1 DEF CaseInv, Bound, SessionsAreBound, Exists
    <3> QED  BY <3>2, <3>3, <3>4, <3>5, <3>6, <3>7, <3>8 DEF CaseInv
  <2>9. CASE cmd.step \in {"reobserve", "bind"}
    <3>1. cmd' = Done(cmd) /\ seen = cmd.want
      BY <1>4, <2>9 DEF Observed, Opening, Accepts, SameIdentity
    <3>2. cmd.want.oid = cmd.obs.oid /\ cmd.want.marker = server[Case].marker
      BY <3>1
    <3>3. cmd.kind = "baseline" => cmd.step = "reobserve"
      BY <1>2, <2>9 DEF BaselineSteps, Sealing
    <3>4. cmd.kind = "baseline" /\ cmd.step = "reobserve"
             => /\ Exists(Case) /\ server[Case].oid = cmd.want.oid
                /\ server[Case].marker = cmd.want.marker
      BY <1>1, <2>4, <3>2 DEF CaseInv, Consented
    <3> QED  BY <1>1, <1>2, <2>9, <3>1, <3>3, <3>4, AdvanceKeeps
  <2> QED  BY <1>1, <2>5, <2>6, <2>7, <2>8, <2>9 DEF Observing, Opening
<1> QED  BY <1>3, <1>4 DEF ObserveMarker, Query

\* A session is opened on the oid that the reset made: it has the seed.
LEMMA ConnectKeeps ==
  ASSUME CaseInv, Connect PROVE CaseInv'
<1>1. /\ cmd.sub = "direct" /\ UNCHANGED <<server, phrase, left>>
      /\ DOMAIN cmd = CommandFields /\ cmd.step \in Opening
  BY DEF Connect, Query, Quiet, CaseInv, Records, StepOK, SubOK, Attesting
<1>2. cmd.kind = "run" /\ cmd.error = "none"
  BY <1>1, StepIsKnown DEF Opening, ErrorSteps, Restoring, BaselineSteps, Sealing
<1>3. CASE cmd' = Failed(cmd, "error")
  BY <1>1, <1>2, <1>3, RefusedKeeps DEF Opening
<1> DEFINE session == [oid |-> server[Case].oid, data |-> server[Case].data]
           c == [cmd EXCEPT !.opened = @ \cup {session}]
<1>4. ASSUME Reached, cmd' = Done(c) PROVE CaseInv'
  <2>1. /\ DOMAIN c = CommandFields /\ c.kind = cmd.kind /\ c.step = cmd.step
        /\ c.private = cmd.private /\ c.made = cmd.made
        /\ c.opened = cmd.opened \cup {session}
        /\ c.replaced = cmd.replaced /\ c.want = cmd.want /\ c.base = cmd.base
        /\ c.obs = cmd.obs /\ c.after = cmd.after /\ c.temporary = cmd.temporary
        /\ c.seed = cmd.seed /\ c.error = cmd.error
    BY <1>1 DEF CommandFields
  <2> HIDE DEF c
  <2>2. Went(cmd', c, Following("run", cmd.step))
    BY <1>2, <1>4, <2>1, DoneIs
  <2>3. /\ cmd'.step \in {"openProbe", "openQuiescence", "quiet", "resume"}
        /\ cmd'.sub = SubOf(cmd'.step)
    BY <1>1, <2>2, RunOrder DEF Opening, Went
  <2>4. /\ DOMAIN cmd' = CommandFields /\ cmd'.kind = "run"
        /\ cmd'.private = cmd.private /\ cmd'.made = cmd.made
        /\ cmd'.opened = cmd.opened \cup {session} /\ cmd'.after = cmd.after
        /\ cmd'.replaced = cmd.replaced /\ cmd'.want = cmd.want
        /\ cmd'.base = cmd.base /\ cmd'.obs = cmd.obs
        /\ cmd'.temporary = cmd.temporary
        /\ cmd'.seed = cmd.seed /\ cmd'.error = "none"
    BY <1>2, <2>1, <2>2 DEF Went, Same
  <2>5. cmd.replaced
    BY <1>1, <1>2 DEF CaseInv, Bound, AfterReset, Opening
  <2>6. session.oid = cmd.want.oid /\ session.data = cmd.seed
    BY <1>4, <2>5 DEF Reached, CaseInv, Bound
  <2> HIDE DEF session
  <2>7. Records'
    BY <1>1, <2>4 DEF CaseInv, Records, Databases
  <2>8. StepOK'
    BY <2>3, <2>4 DEF StepOK, SubOK, SubOf, Observing, Opening, Attesting, RunSteps,
       Naming, Replacing, Restoring
  <2>9. NothingElse'
    <3>1. Working = {} /\ cmd.error \notin Reported
      BY <1>1, <1>2 DEF Working, Opening, Reported
    <3> QED  BY <1>1, <2>4, <3>1 DEF CaseInv, NothingElse
  <2>10. Attested'
    BY <1>1, <1>2, <2>3, <2>4
       DEF CaseInv, Attested, RunSteps, Opening, Is, AsSealed, Exists
  <2>11. ReplacementIsSeed' /\ OriginalIsAside' /\ Consented'
    BY <2>3, <2>4 DEF ReplacementIsSeed, OriginalIsAside, Consented
  <2>12. ReplacementIsWhole'
    BY <1>1, <1>2, <2>3, <2>4 DEF CaseInv, ReplacementIsWhole, Opening, Replacing,
       Restoring
  <2>13. Bound'
    BY <1>1, <1>2, <2>3, <2>4, <2>5, <2>6 DEF CaseInv, Bound, SessionsAreBound,
       AfterReset, Exists
  <2> QED  BY <2>7, <2>8, <2>9, <2>10, <2>11, <2>12, <2>13 DEF CaseInv
<1> QED  BY <1>3, <1>4 DEF Connect, Query

\* Only the reading that finds the original under the private name, and something
\* else under the name of the case, lets that be dropped.
LEMMA LookUpKeeps ==
  ASSUME CaseInv, LookUp PROVE CaseInv'
<1>1. /\ cmd.step = "lookup" /\ cmd.sub = "" /\ UNCHANGED <<server, phrase, left>>
      /\ DOMAIN cmd = CommandFields /\ cmd.kind = "run" /\ cmd.error # "none"
      /\ ~cmd.replaced /\ cmd.opened = {}
  BY StepIsKnown
     DEF LookUp, Quiet, At, BaselineSteps, Sealing, CaseInv, StepOK, Restoring,
         Bound, AfterReset
<1>2. CASE cmd' = Failed(cmd, "error")
  BY <1>1, <1>2, RefusedKeeps
<1>3. ASSUME NEW c, c = cmd \/ c = [cmd EXCEPT !.private = Nothing], NEW step,
             cmd' = Enter(c, step),
             \/ c.private = Nothing /\ ~Exists(Recovery) /\ step = "openOriginal"
             \/ /\ c.private = cmd.private /\ Exists(Recovery)
                /\ step \in {"openOriginal", "dropReplacement"}
      PROVE  CaseInv'
  <2>1. /\ DOMAIN c = CommandFields /\ c.kind = cmd.kind
        /\ c.made = cmd.made /\ c.opened = cmd.opened
        /\ c.replaced = cmd.replaced /\ c.want = cmd.want /\ c.base = cmd.base
        /\ c.obs = cmd.obs /\ c.after = cmd.after /\ c.temporary = cmd.temporary
        /\ c.seed = cmd.seed /\ c.error = cmd.error
    BY <1>1, <1>3 DEF CommandFields
  <2>2. Went(cmd', c, step)
    BY <1>3, <2>1, EnterIs
  <2>3. /\ DOMAIN cmd' = CommandFields /\ cmd'.kind = "run"
        /\ cmd'.private = c.private /\ cmd'.made = cmd.made
        /\ cmd'.opened = {} /\ cmd'.after = cmd.after
        /\ cmd'.replaced = cmd.replaced /\ cmd'.want = cmd.want
        /\ cmd'.base = cmd.base /\ cmd'.obs = cmd.obs
        /\ cmd'.temporary = cmd.temporary
        /\ cmd'.seed = cmd.seed /\ cmd'.error = cmd.error
        /\ cmd'.step = step /\ cmd'.step \in {"openOriginal", "dropReplacement"}
        /\ cmd'.sub = ""
    BY <1>1, <1>3, <2>1, <2>2 DEF Went, Same, SubOf, Observing, Attesting
  <2>4. Records'
    BY <1>1, <2>3 DEF CaseInv, Records, Databases
  <2>5. cmd.private # Nothing
    BY <1>1 DEF CaseInv, StepOK, Naming
  <2>6. StepOK'
    BY <1>1, <1>3, <2>3, <2>5 DEF StepOK, SubOK, Observing, Attesting, RunSteps,
       ErrorSteps, Naming, Replacing, Restoring
  <2>7. NothingElse'
    <3>1. left \/ cmd.error \in Reported
          \/ DOMAIN server \subseteq {Case, Baseline, Recovery}
      BY <1>1 DEF CaseInv, NothingElse, Working
    <3>2. CASE c.private = Nothing /\ ~Exists(Recovery)
      BY <1>1, <2>3, <3>1, <3>2 DEF NothingElse, Exists
    <3>3. CASE c.private = cmd.private
      <4>1. Recovery \in Working'
        BY <2>3, <2>5, <3>3 DEF Working, Recovery
      <4> QED  BY <1>1, <2>3, <3>1, <4>1 DEF NothingElse
    <3> QED  BY <1>3, <3>2, <3>3
  <2>8. Attested'
    BY <1>1, <2>3 DEF CaseInv, Attested, RunSteps, Restoring, Is, AsSealed, Exists
  <2>9. ReplacementIsSeed' /\ Consented' /\ ReplacementIsWhole'
    BY <2>3 DEF ReplacementIsSeed, Consented, ReplacementIsWhole, Restoring
  <2>10. Bound'
    BY <1>1, <2>3 DEF Bound, SessionsAreBound
  <2>11. OriginalIsAside'
    BY <1>1, <1>3, <2>3 DEF CaseInv, OriginalIsAside, Exists, Recovery
  <2> QED  BY <2>4, <2>6, <2>7, <2>8, <2>9, <2>10, <2>11 DEF CaseInv
<1>4. CASE /\ ~Exists(Recovery)
           /\ cmd' = Enter([cmd EXCEPT !.private = Nothing], "openOriginal")
  <2>1. [cmd EXCEPT !.private = Nothing].private = Nothing
    BY <1>1 DEF CommandFields
  <2> QED  BY <1>3, <1>4, <2>1
<1>5. CASE /\ Exists(Recovery)
           /\ cmd' = Enter(cmd, IF Exists(Case) THEN "dropReplacement"
                                ELSE "openOriginal")
  BY <1>3, <1>5
<1> QED  BY <1>2, <1>4, <1>5 DEF LookUp

-----------------------------------------------------------------------------
\* All but what an attestation of the baseline changes.
Keeps(c, d) ==
    /\ DOMAIN c = CommandFields
    /\ c.kind = d.kind /\ c.step = d.step /\ c.error = d.error
    /\ c.consents = d.consents /\ c.want = d.want /\ c.base = d.base
    /\ c.after = d.after /\ c.uuid = d.uuid /\ c.private = d.private
    /\ c.made = d.made /\ c.replaced = d.replaced /\ c.opened = d.opened

Others(s) ==
    \A n \in {Case, Baseline, Recovery} :
        /\ n \in DOMAIN s <=> n \in DOMAIN server
        /\ n \in DOMAIN s => s[n] = server[n]

\* What an attestation leaves alone.
LEMMA AttestingKeeps ==
  ASSUME CaseInv, cmd.step \in Attesting, UNCHANGED <<phrase, left>>, Databases',
         Others(server'), Keeps(cmd', cmd),
         cmd'.sub \in {"sealed", "clone", "inspect", "dropClone", "again", "sweep"},
         cmd'.sub = "again" => ~cmd'.temporary.bad,
         IsIdentity(cmd'.obs), DOMAIN cmd'.temporary = {"name", "bad"},
         Attested', ReplacementIsSeed', NothingElse'
  PROVE  CaseInv'
<1>1. /\ cmd.kind = "run" => cmd.step \in RunSteps
      /\ cmd.kind = "baseline" => cmd.step \in BaselineSteps
      /\ cmd.kind \in {"run", "baseline"} /\ cmd.error = "none"
  BY StepIsKnown DEF Attesting, ErrorSteps, Restoring
<1>2. ~cmd.replaced /\ cmd.opened = {}
  BY DEF CaseInv, Bound, AfterReset, Attesting
<1> USE DEF Keeps
<1>3. Records'
  BY DEF CaseInv, Records, IsIdentity
<1>4. StepOK'
  <2>1. SubOK'
    BY DEF SubOK, Observing, Attesting
  <2>2. cmd'.kind = "run" /\ cmd'.private = Nothing => cmd'.step \notin Naming
    BY DEF CaseInv, StepOK
  <2> QED  BY <1>1, <2>1, <2>2 DEF StepOK, Attesting, Restoring
<1>5. ReplacementIsWhole'
  BY DEF CaseInv, ReplacementIsWhole, Attesting, Others, WholeAs, Readable, Exists
<1>6. Bound'
  BY <1>2 DEF CaseInv, Bound, SessionsAreBound
<1>7. OriginalIsAside'
  BY DEF CaseInv, OriginalIsAside, Attesting, Others, Exists, Recovery
<1>8. Consented'
  BY <1>1 DEF CaseInv, Consented, Attesting, Sealing
<1> QED  BY <1>3, <1>4, <1>5, <1>6, <1>7, <1>8 DEF CaseInv

\* The catalog tells which baseline there is (observe_sealed_baseline_identity).
LEMMA SealedCatalogKeeps ==
  ASSUME CaseInv, SealedCatalog PROVE CaseInv'
<1>1. /\ cmd.sub = "sealed" /\ UNCHANGED <<server, phrase, left>>
      /\ DOMAIN cmd = CommandFields /\ cmd.step \in Attesting
  BY DEF SealedCatalog, Query, Quiet, CaseInv, Records, StepOK, SubOK
<1>2. /\ cmd.kind \in {"run", "baseline"} /\ cmd.error = "none"
  BY <1>1, StepIsKnown DEF Attesting, ErrorSteps, Restoring
<1>3. CASE cmd' = Failed(cmd, "error")
  BY <1>1, <1>2, <1>3, RefusedKeeps DEF Attesting
<1>4. ASSUME cmd' = [cmd EXCEPT !.sub = "clone", !.obs = SealedIdentity,
                                !.temporary = [name |-> fresh, bad |-> FALSE]]
      PROVE  CaseInv'
  <2>1. Keeps(cmd', cmd) /\ cmd'.sub = "clone" /\ cmd'.obs = SealedIdentity
        /\ cmd'.temporary = [name |-> fresh, bad |-> FALSE] /\ cmd'.seed = cmd.seed
    BY <1>1, <1>4 DEF Keeps, CommandFields
  <2>2. IsIdentity(cmd'.obs) /\ DOMAIN cmd'.temporary = {"name", "bad"}
    BY <2>1 DEF IsIdentity, SealedIdentity
  <2>3. Databases' /\ Others(server')
    BY <1>1 DEF Others, CaseInv, Records, Databases
  <2>4. Attested'
    BY <1>1, <2>1 DEF CaseInv, Attested, Checked, Keeps, Is, AsSealed, Exists
  <2>5. ReplacementIsSeed'
    BY <1>1, <2>1
       DEF CaseInv, ReplacementIsSeed, Checked, Keeps, SeedOr, Is, AsSealed, Exists,
           Attesting
  <2>6. NothingElse'
    BY <1>1, <2>1 DEF CaseInv, NothingElse, Working, Keeps, Recovery
  <2> QED  BY <1>1, <2>1, <2>2, <2>3, <2>4, <2>5, <2>6, AttestingKeeps
<1> QED  BY <1>3, <1>4 DEF SealedCatalog, Query

\* The clone has the marker and the data of the baseline as it is now.
LEMMA CreateCloneKeeps ==
  ASSUME CaseInv, CreateClone PROVE CaseInv'
<1>1. /\ cmd.sub = "clone" /\ UNCHANGED <<phrase, left>>
      /\ DOMAIN cmd = CommandFields /\ cmd.step \in Attesting
  BY DEF CreateClone, Quiet, CaseInv, Records, StepOK, SubOK
<1>2. Clone \notin {Case, Baseline, Recovery}
  BY DEF Clone, Case, Baseline, Recovery
<1>3. ASSUME NEW sub \in {"inspect", "sweep"}, cmd' = [cmd EXCEPT !.sub = sub],
             \/ server' = server /\ sub = "sweep"
             \/ Exists(Baseline) /\ server' = With(Clone, CopyOf(Baseline))
      PROVE  CaseInv'
  <2>1. Keeps(cmd', cmd) /\ cmd'.sub = sub /\ cmd'.obs = cmd.obs
        /\ cmd'.temporary = cmd.temporary /\ cmd'.seed = cmd.seed
    BY <1>1, <1>3 DEF Keeps, CommandFields
  <2>2. IsIdentity(cmd'.obs) /\ DOMAIN cmd'.temporary = {"name", "bad"}
    BY <2>1 DEF CaseInv, Records
  <2>3. server' # server =>
           /\ Exists(Baseline) /\ DOMAIN server' = DOMAIN server \cup {Clone}
           /\ server'[Clone] = CopyOf(Baseline)
           /\ \A n \in DOMAIN server \ {Clone} : server'[n] = server[n]
    BY <1>3 DEF With
  <2>4. Exists(Baseline) =>
           /\ DOMAIN CopyOf(Baseline) = DatabaseFields
           /\ CopyOf(Baseline).marker = server[Baseline].marker
           /\ CopyOf(Baseline).data = server[Baseline].data
    BY DEF CopyOf, CaseInv, Records, Databases, DatabaseFields, Exists
  <2>5. Databases'
    <3>1. /\ IsFiniteSet(DOMAIN server)
          /\ \A n \in DOMAIN server : DOMAIN server[n] = DatabaseFields
      BY DEF CaseInv, Records, Databases
    <3>2. IsFiniteSet(DOMAIN server')
      BY <2>3, <3>1, FS_AddElement
    <3> QED  BY <2>3, <2>4, <3>1, <3>2 DEF Databases
  <2>6. Others(server')
    BY <1>2, <2>3 DEF Others
  <2> HIDE DEF Others
  <2>7. /\ Clone' = Clone /\ Exists(Baseline)' = Exists(Baseline)
        /\ Exists(Baseline) => server'[Baseline] = server[Baseline]
        /\ Exists(Case)' = Exists(Case)
        /\ Exists(Case) => server'[Case] = server[Case]
        /\ sub = "inspect"
              => /\ Exists(Baseline) /\ server'[Clone].marker = server[Baseline].marker
                 /\ server'[Clone].data = server[Baseline].data /\ Exists(Clone)'
    <3>1. Clone' = Clone
      BY <2>1 DEF Clone
    <3>2. /\ Exists(Baseline)' = Exists(Baseline) /\ Exists(Case)' = Exists(Case)
          /\ Exists(Baseline) => server'[Baseline] = server[Baseline]
          /\ Exists(Case) => server'[Case] = server[Case]
      BY <2>6 DEF Others, Exists
    <3>3. sub = "inspect" => /\ Exists(Baseline) /\ server'[Clone] = CopyOf(Baseline)
                             /\ Clone \in DOMAIN server'
      BY <1>3 DEF With
    <3> QED  BY <2>4, <3>1, <3>2, <3>3 DEF Exists
  <2>8. Attested' /\ ReplacementIsSeed'
    <3>1. /\ cmd'.kind = cmd.kind /\ cmd'.step = cmd.step /\ cmd'.base = cmd.base
          /\ cmd'.sub \notin {"dropClone", "again", "sealed", "clone"}
      BY <2>1 DEF Keeps
    <3>2. Is(cmd.base)' = Is(cmd.base) /\ Is(cmd.obs)' = Is(cmd.obs)
          /\ AsSealed(cmd.base)' = AsSealed(cmd.base)
      BY <2>1, <2>7, <3>1 DEF Is, AsSealed
    <3>3. Attested'
      BY <2>1, <2>7, <3>1, <3>2 DEF CaseInv, Attested, Checked, Is, AsSealed
    <3>4. cmd.kind = "run" /\ cmd.step = "attestAfter"
             => ~Is(cmd.base) \/ (Exists(Case) /\ server[Case].data = cmd.seed)
      BY <1>1 DEF CaseInv, ReplacementIsSeed, SeedOr
    <3>5. ReplacementIsSeed'
      BY <1>1, <2>1, <2>7, <3>1, <3>2, <3>4
         DEF ReplacementIsSeed, Checked, SeedOr, Attesting, Is
    <3> QED  BY <3>3, <3>5
  <2>9. NothingElse'
    <3>1. left \/ cmd.error \in Reported
          \/ DOMAIN server \subseteq {Case, Baseline} \cup Working
      BY DEF CaseInv, NothingElse
    <3>2. DOMAIN server' \subseteq DOMAIN server \cup {Clone}
      BY <2>3
    <3>3. Working \cup {Clone} \subseteq Working'
      BY <1>1, <1>3, <2>1 DEF Working, Keeps, Clone, Recovery
    <3> QED  BY <1>1, <2>1, <3>1, <3>2, <3>3 DEF NothingElse, Keeps
  <2> QED  BY <1>1, <1>3, <2>1, <2>2, <2>5, <2>6, <2>7, <2>8, <2>9, AttestingKeeps
<1> QED  BY <1>3 DEF CreateClone, Statement

\* The marker inside the clone is compared (inspect_baseline_clone_marker).
LEMMA InspectCloneKeeps ==
  ASSUME CaseInv, InspectClone PROVE CaseInv'
<1>1. /\ cmd.sub = "inspect" /\ UNCHANGED <<server, phrase, left>>
      /\ DOMAIN cmd = CommandFields /\ cmd.step \in Attesting
      /\ DOMAIN cmd.temporary = {"name", "bad"}
  BY DEF InspectClone, Quiet, CaseInv, Records, StepOK, SubOK
<1>2. /\ Keeps(cmd', cmd) /\ cmd'.sub = "dropClone" /\ cmd'.obs = cmd.obs
      /\ DOMAIN cmd'.temporary = {"name", "bad"}
      /\ cmd'.temporary.name = cmd.temporary.name
      /\ \/ /\ Exists(Clone) /\ server[Clone].marker = cmd.obs.marker
            /\ cmd'.seed = IF cmd.step = "attest" THEN server[Clone].data ELSE cmd.seed
         \/ cmd'.temporary.bad /\ cmd'.seed = cmd.seed
  <2>1. CASE /\ Readable(Clone, "baseline") /\ server[Clone].marker = cmd.obs.marker
             /\ cmd' = [cmd EXCEPT !.sub = "dropClone",
                                   !.seed = IF cmd.step = "attest"
                                            THEN server[Clone].data ELSE @]
    BY <1>1, <2>1 DEF Keeps, CommandFields, Readable
  <2>2. CASE cmd' = [cmd EXCEPT !.sub = "dropClone", !.temporary.bad = TRUE]
    BY <1>1, <2>2 DEF Keeps, CommandFields
  <2> QED  BY <2>1, <2>2 DEF InspectClone
<1>3. IsIdentity(cmd'.obs) /\ Databases' /\ Others(server')
  BY <1>1, <1>2 DEF CaseInv, Records, Databases, Others
<1>4. Attested'
  BY <1>1, <1>2 DEF CaseInv, Attested, Checked, Keeps, Is, AsSealed, Exists
<1>5. ReplacementIsSeed'
  BY <1>1, <1>2
     DEF CaseInv, ReplacementIsSeed, Checked, Keeps, SeedOr, Is, AsSealed, Exists,
         Attesting
<1>6. NothingElse'
  BY <1>1, <1>2 DEF CaseInv, NothingElse, Working, Keeps, Recovery, Clone
<1> QED  BY <1>1, <1>2, <1>3, <1>4, <1>5, <1>6, AttestingKeeps

\* The clone is gone.
LEMMA WithoutClone ==
  ASSUME CaseInv, server' = Without(Clone)
  PROVE  /\ Databases' /\ Others(server') /\ DOMAIN server' = DOMAIN server \ {Clone}
         /\ Exists(Baseline)' = Exists(Baseline) /\ Exists(Case)' = Exists(Case)
         /\ Exists(Baseline) => server'[Baseline] = server[Baseline]
         /\ Exists(Case) => server'[Case] = server[Case]
<1>1. /\ Clone \notin {Case, Baseline, Recovery}
      /\ DOMAIN server' = DOMAIN server \ {Clone}
      /\ \A n \in DOMAIN server' : server'[n] = server[n]
  BY DEF Without, Clone, Case, Baseline, Recovery
<1>2. Databases'
  BY <1>1, FS_RemoveElement DEF CaseInv, Records, Databases
<1>3. Others(server')
  BY <1>1 DEF Others
<1> QED  BY <1>1, <1>2, <1>3 DEF Others, Exists

\* An attestation that lost its clone ends with an error.
LEMMA WithoutCloneFails ==
  ASSUME CaseInv, server' = Without(Clone), UNCHANGED <<phrase, left>>,
         cmd.step \in Attesting, NEW error \in Reported \cup {"error"},
         cmd' = Failed(cmd, error)
  PROVE  CaseInv'
<1>1. /\ cmd.kind \in {"run", "baseline"} /\ DOMAIN cmd = CommandFields
      /\ IsFiniteSet(cmd.made)
  BY StepIsKnown DEF Attesting, CaseInv, Records
<1>2. left \/ cmd.error \in Reported \/ DOMAIN server' \subseteq {Case, Baseline} \cup Aside
  <2>1. Working \subseteq {Clone} \cup Aside
    BY DEF Working, Aside, Attesting
  <2> QED  BY <2>1, WithoutClone DEF CaseInv, NothingElse
<1>3. cmd.kind = "run" /\ cmd.step \in Replacing
         => (Recovery \in DOMAIN server' /\ Case \in DOMAIN server'
               => server'[Case].oid \in cmd.made)
  BY WithoutClone DEF CaseInv, OriginalIsAside, Attesting, Replacing, Exists
<1>4. cmd.step # "copyCase" /\ cmd.step \notin {"session", "resume", "end"}
  BY DEF Attesting
<1>5. cmd.kind = "run" /\ Exists(Baseline)'
         => Exists(Baseline) /\ server'[Baseline] = server[Baseline]
  BY WithoutClone
<1>6. Databases' /\ UNCHANGED <<phrase, left>>
  BY WithoutClone
<1> QED  BY <1>1, <1>2, <1>3, <1>4, <1>5, <1>6, FailingKeeps

\* The clone is dropped, by its oid (drop_database_exact).
LEMMA DropCloneKeeps ==
  ASSUME CaseInv, DropClone PROVE CaseInv'
<1>1. /\ cmd.sub = "dropClone" /\ UNCHANGED <<phrase, left>>
      /\ DOMAIN cmd = CommandFields /\ cmd.step \in Attesting
      /\ DOMAIN cmd.temporary = {"name", "bad"}
  BY DEF DropClone, Quiet, CaseInv, Records, StepOK, SubOK
<1>2. /\ cmd.kind \in {"run", "baseline"} /\ cmd.error = "none"
  BY <1>1, StepIsKnown DEF Attesting, ErrorSteps, Restoring
<1>3. CASE server' = server /\ cmd' = Failed(cmd, "temporaryLeft")
  BY <1>1, <1>2, <1>3, RefusedKeeps DEF Attesting, Reported
<1>4. CASE server' = Without(Clone) /\ cmd' = Failed(cmd, "temporaryLeft")
  BY <1>1, <1>4, WithoutCloneFails DEF Reported
<1>5. CASE server' = Without(Clone) /\ cmd' = Failed(cmd, "error")
  BY <1>1, <1>5, WithoutCloneFails
<1>6. ASSUME server' = Without(Clone), ~cmd.temporary.bad,
             cmd' = [cmd EXCEPT !.sub = "again"]
      PROVE  CaseInv'
  <2>1. Keeps(cmd', cmd) /\ cmd'.sub = "again" /\ cmd'.obs = cmd.obs
        /\ cmd'.temporary = cmd.temporary /\ cmd'.seed = cmd.seed
    BY <1>1, <1>6 DEF Keeps, CommandFields
  <2>2. IsIdentity(cmd'.obs)
    BY <2>1 DEF CaseInv, Records
  <2>3. /\ Databases' /\ Others(server') /\ DOMAIN server' = DOMAIN server \ {Clone}
        /\ Exists(Baseline)' = Exists(Baseline) /\ Exists(Case)' = Exists(Case)
        /\ Exists(Baseline) => server'[Baseline] = server[Baseline]
        /\ Exists(Case) => server'[Case] = server[Case]
    BY <1>6, WithoutClone
  <2>4. /\ cmd'.kind = cmd.kind /\ cmd'.step = cmd.step /\ cmd'.base = cmd.base
    BY <2>1 DEF Keeps
  <2>5. Is(cmd.base)' = Is(cmd.base) /\ Is(cmd.obs)' = Is(cmd.obs)
        /\ AsSealed(cmd.base)' = AsSealed(cmd.base)
    BY <2>1, <2>3, <2>4 DEF Is, AsSealed
  <2>6. Attested'
    BY <1>1, <1>6, <2>1, <2>3, <2>4, <2>5
       DEF CaseInv, Attested, Checked, Is, AsSealed
  <2>7. ReplacementIsSeed'
    BY <1>1, <1>6, <2>1, <2>3, <2>4, <2>5 DEF CaseInv, ReplacementIsSeed, Checked,
       SeedOr, Attesting
  <2>8. NothingElse'
    BY <1>1, <2>1, <2>3 DEF CaseInv, NothingElse, Working, Keeps, Recovery
  <2> QED  BY <1>1, <1>6, <2>1, <2>2, <2>3, <2>6, <2>7, <2>8, AttestingKeeps
<1> QED  BY <1>3, <1>4, <1>5, <1>6 DEF DropClone, Statement

\* A clone that may exist is removed or reported (cleanup_temporary_database_if_present).
LEMMA SweepCloneKeeps ==
  ASSUME CaseInv, SweepClone PROVE CaseInv'
<1>1. /\ cmd.sub = "sweep" /\ UNCHANGED <<phrase, left>>
      /\ DOMAIN cmd = CommandFields /\ cmd.step \in Attesting
  BY DEF SweepClone, Quiet, CaseInv, Records, StepOK, SubOK
<1>2. /\ cmd.kind \in {"run", "baseline"} /\ cmd.error = "none"
  BY <1>1, StepIsKnown DEF Attesting, ErrorSteps, Restoring
<1>3. CASE server' = server /\ cmd' = Failed(cmd, "temporaryLeft")
  BY <1>1, <1>2, <1>3, RefusedKeeps DEF Attesting, Reported
<1>4. CASE server' = Without(Clone) /\ cmd' = Failed(cmd, "temporaryLeft")
  BY <1>1, <1>4, WithoutCloneFails DEF Reported
<1>5. CASE server' = Without(Clone) /\ cmd' = Failed(cmd, "error")
  BY <1>1, <1>5, WithoutCloneFails
<1> QED  BY <1>3, <1>4, <1>5 DEF SweepClone, Statement

\* The second look finds the identity of the first one: the clone between them had
\* the data of that baseline, or the identity never matches again.
LEMMA SealedAgainKeeps ==
  ASSUME CaseInv, SealedAgain PROVE CaseInv'
<1>1. /\ cmd.sub = "again" /\ UNCHANGED <<server, phrase, left>>
      /\ DOMAIN cmd = CommandFields /\ cmd.step \in Attesting
  BY DEF SealedAgain, Query, Quiet, CaseInv, Records, StepOK, SubOK
<1>2. /\ cmd.kind \in {"run", "baseline"} /\ cmd.error = "none"
      /\ cmd.kind = "run" => cmd.step \in RunSteps
      /\ cmd.kind = "baseline" => cmd.step = "attestAfter"
      /\ ~cmd.replaced /\ cmd.opened = {}
  BY <1>1, StepIsKnown DEF Attesting, ErrorSteps, Restoring, BaselineSteps, Sealing,
     CaseInv, Bound, AfterReset
<1>3. CASE cmd' = Failed(cmd, "error")
  BY <1>1, <1>2, <1>3, RefusedKeeps DEF Attesting
<1> DEFINE c == [cmd EXCEPT !.base = cmd.obs, !.obs = NoIdentity,
                            !.temporary = NoCommand.temporary]
<1>4. ASSUME IsSealed, SealedIdentity = cmd.obs, AcceptsBaseline, cmd' = Done(c)
      PROVE  CaseInv'
  <2>1. NoCommand.temporary = [name |-> Nothing, bad |-> FALSE]
    BY DEF NoCommand
  <2>2. /\ DOMAIN c = CommandFields /\ c.kind = cmd.kind /\ c.step = cmd.step
        /\ c.private = cmd.private /\ c.made = cmd.made /\ c.opened = cmd.opened
        /\ c.replaced = cmd.replaced /\ c.want = cmd.want /\ c.base = cmd.obs
        /\ c.obs = NoIdentity /\ c.after = cmd.after /\ c.uuid = cmd.uuid
        /\ c.temporary = [name |-> Nothing, bad |-> FALSE]
        /\ c.seed = cmd.seed /\ c.error = cmd.error
    BY <1>1, <2>1 DEF CommandFields
  <2> HIDE DEF c
  <2>3. Went(cmd', c, Following(cmd.kind, cmd.step))
    BY <1>4, <2>2, DoneIs
  <2>4. /\ DOMAIN cmd' = CommandFields /\ cmd'.kind = cmd.kind
        /\ cmd'.private = cmd.private /\ cmd'.made = cmd.made
        /\ cmd'.opened = {} /\ cmd'.replaced = FALSE /\ cmd'.want = cmd.want
        /\ cmd'.base = cmd.obs /\ cmd'.obs = NoIdentity /\ cmd'.after = cmd.after
        /\ cmd'.temporary = [name |-> Nothing, bad |-> FALSE]
        /\ cmd'.seed = cmd.seed /\ cmd'.error = "none" /\ cmd'.uuid = cmd.uuid
    BY <1>2, <2>2, <2>3 DEF Went, Same, CaseInv, Records
  <2>5. /\ cmd.kind = "run" =>
             /\ cmd.step = "attest" => cmd'.step = "session"
             /\ cmd.step = "reattest" => cmd'.step = "absent"
             /\ cmd.step = "attestAfter" => cmd'.step = "commit"
        /\ cmd.kind = "baseline" => cmd'.step = "start"
    BY <1>2, <2>3, RunOrder, BaselineOrder DEF Went
  <2>6. cmd'.sub = "" /\ cmd'.step \in {"session", "absent", "commit", "start"}
    BY <1>1, <1>2, <2>3, <2>5 DEF Went, SubOf, Attesting, Observing
  <2>7. Records'
    <3>1. \A i \in {phrase', cmd'.want, cmd'.base, cmd'.obs, cmd'.after} : IsIdentity(i)
      BY <1>1, <2>4 DEF CaseInv, Records, IsIdentity, NoIdentity
    <3> QED  BY <1>1, <2>4, <3>1 DEF CaseInv, Records, Databases
  <2>8. StepOK'
    BY <1>1, <1>2, <2>4, <2>5, <2>6
       DEF CaseInv, StepOK, SubOK, Observing, Attesting, RunSteps, BaselineSteps,
           Naming, Replacing, Restoring
  <2>9. NothingElse'
    BY <1>1, <1>2, <2>4, <2>5, <2>6 DEF CaseInv, NothingElse, Working, Attesting,
       Recovery, Reported
  <2>10. AsSealed(cmd.obs)
    BY <1>4 DEF AsSealed, SealedIdentity, IsSealed
  <2>11. cmd.step # "attest" /\ cmd.kind = "run" => cmd.obs = cmd.base
    BY <1>4 DEF AcceptsBaseline, SameBaseline
  <2>12. ~cmd.temporary.bad
    BY <1>1 DEF CaseInv, StepOK
  <2>13. Attested'
    <3>1. cmd.kind = "run" => (Is(cmd.obs) => server[Baseline].data = cmd.seed)
      BY <1>1, <1>2, <2>11, <2>12 DEF CaseInv, Attested, Checked, Attesting
    <3> QED  BY <1>1, <2>4, <2>6, <3>1 DEF Attested, Checked, Is, AsSealed, Exists
  <2>14. ReplacementIsSeed'
    <3>1. cmd.kind = "run" /\ cmd.step = "attestAfter" => SeedOr(FALSE)
      BY <1>1, <2>10, <2>11, <2>12 DEF CaseInv, ReplacementIsSeed, Checked, SeedOr
    <3> QED  BY <1>1, <1>2, <2>4, <2>5, <2>6, <3>1
                DEF ReplacementIsSeed, SeedOr, Exists, Attesting
  <2>15. ReplacementIsWhole'
    BY <1>1, <1>2, <2>4, <2>5, <2>6
       DEF CaseInv, ReplacementIsWhole, WholeAs, Readable, Exists, Attesting,
           Replacing, Restoring
  <2>16. Bound'
    <3>1. cmd.kind = "run" => cmd'.step \in {"session", "absent", "commit"}
      BY <1>1, <2>5 DEF Attesting
    <3> QED  BY <2>4, <3>1 DEF Bound, SessionsAreBound, AfterReset
  <2>17. OriginalIsAside' /\ Consented'
    BY <1>1, <1>2, <2>4, <2>5, <2>6
       DEF CaseInv, OriginalIsAside, Consented, Sealing, Exists, Recovery, Attesting
  <2> QED  BY <2>7, <2>8, <2>9, <2>13, <2>14, <2>15, <2>16, <2>17 DEF CaseInv
<1> QED  BY <1>3, <1>4 DEF SealedAgain, Query

-----------------------------------------------------------------------------
\* A statement was carried out and the command goes on.
Forward(d, c, step) ==
    /\ DOMAIN d = CommandFields /\ d.kind = c.kind /\ d.error = c.error
    /\ d.consents = c.consents /\ d.obs = c.obs /\ d.temporary = c.temporary
    /\ d.seed = c.seed /\ d.opened = c.opened
    /\ d.step = step /\ d.sub = SubOf(step)

\* A statement of the seal was carried out.
LEMMA SealingGoesOn ==
  ASSUME CaseInv, cmd.kind = "baseline", cmd.step \in Sealing \cup {"clone", "mark"},
         NEW step \in Sealing \cup {"clone", "mark", "observeNew", "start"},
         step = "start" \/ cmd.error = "none",
         Forward(cmd', cmd, step), cmd'.replaced = cmd.replaced,
         IsIdentity(cmd'.want), IsIdentity(cmd'.base), IsIdentity(cmd'.after),
         IsFiniteSet(cmd'.made), UNCHANGED <<phrase, left>>, Databases',
         DOMAIN server' \subseteq DOMAIN server \cup {Case, Baseline},
         Consented'
  PROVE  CaseInv'
<1> USE DEF Forward
<1>1. cmd'.kind = "baseline" /\ ~cmd.replaced /\ cmd.opened = {}
  BY DEF CaseInv, Bound
<1>2. Records'
  <2>1. \A i \in {phrase', cmd'.want, cmd'.base, cmd'.obs, cmd'.after} : IsIdentity(i)
    BY DEF CaseInv, Records
  <2> QED  BY <2>1 DEF CaseInv, Records
<1>3. StepOK'
  <2>1. SubOK' /\ cmd'.sub # "again"
    BY DEF SubOK, SubOf, Observing, Attesting, Opening
  <2>2. cmd'.step \in BaselineSteps
    BY DEF BaselineSteps
  <2>3. cmd'.error # "none" => cmd'.step \in ErrorSteps
    BY DEF ErrorSteps
  <2>4. cmd'.step \notin Restoring
    BY DEF Restoring, Sealing
  <2> QED  BY <1>1, <2>1, <2>2, <2>3, <2>4 DEF StepOK
<1>4. NothingElse'
  <2>1. Working = {}
    BY DEF Working, CaseInv, StepOK, SubOK, Sealing, Observing, Attesting
  <2> QED  BY <2>1 DEF CaseInv, NothingElse
<1>5. Attested' /\ ReplacementIsSeed' /\ ReplacementIsWhole' /\ OriginalIsAside'
  BY <1>1 DEF Attested, ReplacementIsSeed, ReplacementIsWhole, OriginalIsAside
<1>6. Bound'
  BY <1>1 DEF Bound, SessionsAreBound
<1> QED  BY <1>2, <1>3, <1>4, <1>5, <1>6 DEF CaseInv

\* A statement of the reset, or of what undoes it, was carried out.
LEMMA ResetGoesOn ==
  ASSUME CaseInv, cmd.kind = "run", cmd.step \in Replacing \cup Restoring,
         NEW step \in Replacing \cup Restoring \cup {"start"},
         step \in Restoring => cmd.error # "none",
         step \in Replacing => cmd.error = "none",
         Forward(cmd', cmd, step), cmd'.base = cmd.base,
         cmd'.private = Nothing => step \notin Naming,
         IsIdentity(cmd'.want), IsIdentity(cmd'.after),
         IsFiniteSet(cmd'.made), UNCHANGED <<phrase, left>>, Databases',
         Exists(Baseline)' => Exists(Baseline) /\ server'[Baseline] = server[Baseline],
         NothingElse', ReplacementIsSeed', ReplacementIsWhole', OriginalIsAside',
         (step # "start" /\ cmd'.replaced = cmd.replaced) \/ Bound'
  PROVE  CaseInv'
<1> USE DEF Forward
<1>1. ~cmd.replaced /\ cmd.opened = {}
  BY DEF CaseInv, Bound, AfterReset, Replacing, Restoring
<1>2. Records'
  <2>1. \A i \in {phrase', cmd'.want, cmd'.base, cmd'.obs, cmd'.after} : IsIdentity(i)
    BY DEF CaseInv, Records
  <2> QED  BY <2>1 DEF CaseInv, Records
<1>3. StepOK'
  <2>1. SubOK' /\ cmd'.sub # "again"
    BY DEF SubOK, SubOf, Observing, Attesting, Opening, Replacing, Restoring
  <2>2. cmd'.step \in RunSteps
    BY DEF RunSteps
  <2>3. /\ cmd'.error # "none" => cmd'.step \in ErrorSteps
        /\ cmd'.step \in Restoring => cmd'.error # "none"
    BY DEF ErrorSteps
  <2> QED  BY <2>1, <2>2, <2>3 DEF StepOK
<1>4. Attested'
  BY DEF CaseInv, Attested, RunSteps, Replacing, Restoring, Is, AsSealed, Exists
<1>5. Consented'
  BY DEF Consented
<1>6. Bound'
  BY <1>1 DEF Bound, SessionsAreBound, AfterReset, Replacing, Restoring
<1> QED  BY <1>2, <1>3, <1>4, <1>5, <1>6 DEF CaseInv

\* A statement that changes fields of one database.
LEMMA OneAltered ==
  ASSUME CaseInv, NEW n \in DOMAIN server, NEW db, DOMAIN db = DatabaseFields,
         server' = [server EXCEPT ![n] = db]
  PROVE  /\ Databases' /\ DOMAIN server' = DOMAIN server /\ server'[n] = db
         /\ \A m \in DOMAIN server : m # n => server'[m] = server[m]
  BY DEF CaseInv, Records, Databases

\* The case is closed to others and its sessions end (terminate_database_connections).
LEMMA FenceCaseKeeps ==
  ASSUME CaseInv, FenceCase PROVE CaseInv'
<1> DEFINE fenced == [server[Case] EXCEPT !.open = FALSE]
<1>1. /\ cmd.step = "fence" /\ cmd.sub = "" /\ UNCHANGED <<phrase, left>>
      /\ cmd.kind \in {"run", "baseline"} /\ cmd.error = "none"
      /\ DOMAIN cmd = CommandFields /\ IsFiniteSet(cmd.made)
  BY StepIsKnown DEF FenceCase, Quiet, At, ErrorSteps, Restoring, CaseInv, Records
<1>2. CASE server' = server /\ cmd' = Failed(cmd, "error")
  BY <1>1, <1>2, RefusedKeeps
<1>3. ASSUME Exists(Case), server' = [server EXCEPT ![Case].open = FALSE]
      PROVE  /\ Databases' /\ DOMAIN server' = DOMAIN server
             /\ server'[Case].oid = server[Case].oid
             /\ server'[Case].marker = server[Case].marker
             /\ \A m \in DOMAIN server : m # Case => server'[m] = server[m]
  <2>1. /\ DOMAIN fenced = DatabaseFields /\ fenced.oid = server[Case].oid
        /\ fenced.marker = server[Case].marker
    BY <1>3 DEF CaseInv, Records, Databases, DatabaseFields, Exists
  <2>2. server' = [server EXCEPT ![Case] = fenced]
    BY <1>3
  <2> HIDE DEF fenced
  <2> QED  BY <1>3, <2>1, <2>2, OneAltered DEF Exists
<1>4. Case # Baseline /\ Case # Recovery
  BY DEF Case, Baseline, Recovery
<1>5. CASE /\ Exists(Case) /\ server' = [server EXCEPT ![Case].open = FALSE]
           /\ cmd' = Failed(cmd, "error")
  <2>1. left \/ cmd.error \in Reported \/ DOMAIN server' \subseteq {Case, Baseline} \cup Aside
    BY <1>1, <1>3, <1>5 DEF CaseInv, NothingElse, Working
  <2>2. cmd.kind = "run" => ~(Recovery \in DOMAIN server')
    BY <1>1, <1>3, <1>5 DEF CaseInv, OriginalIsAside, Exists
  <2>3. Exists(Baseline)' => Exists(Baseline) /\ server'[Baseline] = server[Baseline]
    BY <1>3, <1>4, <1>5 DEF Exists
  <2> QED  BY <1>1, <1>3, <1>5, <2>1, <2>2, <2>3, FailingKeeps
<1>6. ASSUME Exists(Case), server' = [server EXCEPT ![Case].open = FALSE],
             cmd' = Done(cmd)
      PROVE  CaseInv'
  <2>1. Went(cmd', cmd, Following(cmd.kind, cmd.step))
    BY <1>1, <1>6, DoneIs
  <2>2. /\ Forward(cmd', cmd, Following(cmd.kind, "fence"))
        /\ cmd'.want = cmd.want /\ cmd'.base = cmd.base /\ cmd'.after = cmd.after
        /\ cmd'.made = cmd.made /\ cmd'.replaced = cmd.replaced
        /\ cmd'.private = cmd.private
    BY <1>1, <2>1 DEF Went, Same, Forward
  <2>3. IsIdentity(cmd'.want) /\ IsIdentity(cmd'.base) /\ IsIdentity(cmd'.after)
    BY <2>2 DEF CaseInv, Records
  <2>4. CASE cmd.kind = "baseline"
    <3>1. Following(cmd.kind, "fence") = "copyCase"
      BY <2>4, BaselineOrder
    <3>2. Consented'
      <4>1. cmd'.kind = "baseline" /\ cmd'.step = "copyCase"
            /\ cmd'.consents = cmd.consents
        BY <2>2, <2>4, <3>1 DEF Forward
      <4> QED  BY <1>1, <1>3, <1>6, <2>2, <2>4, <4>1
                  DEF CaseInv, Consented, Sealing, Exists
    <3> QED  BY <1>1, <1>3, <1>6, <2>2, <2>3, <2>4, <3>1, <3>2, SealingGoesOn
             DEF Sealing
  <2>5. CASE cmd.kind = "run"
    <3>1. Following(cmd.kind, "fence") = "recheck"
      BY <2>5, RunOrder
    <3>2. cmd'.kind = "run" /\ cmd'.step = "recheck"
          /\ cmd'.error = "none" /\ cmd'.sub = ""
      BY <1>1, <2>2, <2>5, <3>1 DEF Forward, SubOf, Observing, Attesting
    <3>3. NothingElse'
      BY <1>1, <1>3, <1>6 DEF CaseInv, NothingElse, Working, Reported
    <3>4. ReplacementIsSeed' /\ OriginalIsAside'
      BY <1>1, <1>3, <1>6, <2>2, <2>5, <3>2
         DEF CaseInv, ReplacementIsSeed, OriginalIsAside, Exists, Recovery
    <3>5. ReplacementIsWhole'
      BY <3>2 DEF ReplacementIsWhole, Replacing
    <3>6. Exists(Baseline)' => Exists(Baseline) /\ server'[Baseline] = server[Baseline]
      BY <1>3, <1>4, <1>6 DEF Exists
    <3>7. cmd'.private # Nothing
      BY <1>1, <2>2, <2>5 DEF CaseInv, StepOK, Naming, Replacing
    <3>8. "recheck" \in Replacing /\ "recheck" \notin Restoring /\ "fence" \in Replacing
      BY DEF Replacing, Restoring
    <3> QED  BY <1>1, <1>3, <1>6, <2>2, <2>3, <2>5, <3>1, <3>3, <3>4, <3>5, <3>6,
                <3>7,
             <3>8, ResetGoesOn
  <2> QED  BY <1>1, <2>4, <2>5
<1> QED  BY <1>2, <1>5, <1>6 DEF FenceCase, Alter, Statement

-----------------------------------------------------------------------------
\* A statement of the seal that was carried out without the answer.
LEMMA SealingFails ==
  ASSUME CaseInv, cmd.kind = "baseline", cmd.step \in Sealing \cup {"clone", "mark"},
         UNCHANGED <<phrase, left>>, Databases',
         DOMAIN server' \subseteq DOMAIN server \cup {Case, Baseline},
         cmd.step = "copyCase"
            => /\ Exists(Case)' /\ server'[Case].oid = server[Case].oid
               /\ server'[Case].marker = server[Case].marker,
         NEW c, DOMAIN c = CommandFields,
         c.kind = cmd.kind, c.step = cmd.step, c.error = cmd.error,
         c.want = cmd.want, c.base = cmd.base, c.obs = cmd.obs, c.after = cmd.after,
         c.seed = cmd.seed, c.private = cmd.private, c.consents = cmd.consents,
         c.temporary = cmd.temporary, c.replaced = cmd.replaced,
         c.opened = cmd.opened, IsFiniteSet(c.made),
         c.made = cmd.made \/ cmd.step = "clone",
         cmd' = Failed(c, "error")
  PROVE  CaseInv'
<1>1. \/ left \/ cmd.error \in Reported
      \/ DOMAIN server' \subseteq {Case, Baseline} \cup Aside
  <2>1. Working = {}
    BY DEF Working, CaseInv, StepOK, SubOK, Sealing, Observing, Attesting
  <2> QED  BY <2>1 DEF CaseInv, NothingElse
<1>2. cmd.step \notin {"session", "resume", "end"}
  BY DEF Sealing
<1> QED  BY <1>1, <1>2, FailingKeeps

\* A command whose step is replaced by the same step is that command.
LEMMA CommandIsItself ==
  ASSUME CaseInv PROVE DOMAIN cmd = CommandFields /\ IsFiniteSet(cmd.made)
  BY DEF CaseInv, Records

\* The databases after one was added.
LEMMA OneAdded ==
  ASSUME CaseInv, NEW n, NEW to, Exists(n), ~Exists(to), server' = With(to, CopyOf(n))
  PROVE  /\ Databases' /\ DOMAIN server' = DOMAIN server \cup {to}
         /\ \A m \in DOMAIN server : server'[m] = server[m]
         /\ DOMAIN server'[to] = DatabaseFields
         /\ server'[to].oid = fresh /\ server'[to].data = server[n].data
         /\ server'[to].open
<1>1. /\ DOMAIN CopyOf(n) = DatabaseFields /\ CopyOf(n).oid = fresh
      /\ CopyOf(n).data = server[n].data /\ CopyOf(n).open
  BY DEF CopyOf, CaseInv, Records, Databases, DatabaseFields, Exists
<1>2. /\ DOMAIN server' = DOMAIN server \cup {to} /\ server'[to] = CopyOf(n)
      /\ \A m \in DOMAIN server : server'[m] = server[m]
  BY DEF With, Exists
<1>3. IsFiniteSet(DOMAIN server')
  BY <1>2, FS_AddElement DEF CaseInv, Records, Databases
<1> QED  BY <1>1, <1>2, <1>3 DEF Databases, CaseInv, Records

\* The copy has the data of the case.
LEMMA CopyCaseKeeps ==
  ASSUME CaseInv, CopyCase PROVE CaseInv'
<1>1. /\ cmd.step = "copyCase" /\ cmd.sub = "" /\ UNCHANGED <<phrase, left>>
      /\ cmd.kind = "baseline" /\ cmd.error = "none"
      /\ DOMAIN cmd = CommandFields /\ IsFiniteSet(cmd.made)
  BY StepIsKnown, CommandIsItself
     DEF CopyCase, Quiet, At, ErrorSteps, Restoring, RunSteps, Replacing
<1>2. CASE server' = server /\ cmd' = Failed(cmd, "error")
  BY <1>1, <1>2, RefusedKeeps
<1>3. ASSUME Exists(Case), ~Exists(Baseline), server' = With(Baseline, CopyOf(Case))
      PROVE  /\ Databases' /\ DOMAIN server' = DOMAIN server \cup {Baseline}
             /\ server'[Case] = server[Case] /\ Exists(Case)' /\ Exists(Baseline)'
             /\ server'[Baseline].data = server[Case].data
  BY <1>3, OneAdded DEF Exists, Case, Baseline
<1>4. CASE /\ Exists(Case) /\ ~Exists(Baseline)
           /\ server' = With(Baseline, CopyOf(Case)) /\ cmd' = Failed(cmd, "error")
  BY <1>1, <1>3, <1>4, SealingFails DEF Sealing
<1>5. ASSUME Exists(Case), ~Exists(Baseline), server' = With(Baseline, CopyOf(Case)),
             cmd' = Done(cmd)
      PROVE  CaseInv'
  <2>1. Went(cmd', cmd, "unfence")
    BY <1>1, <1>5, DoneIs, BaselineOrder
  <2>2. /\ Forward(cmd', cmd, "unfence")
        /\ cmd'.want = cmd.want /\ cmd'.base = cmd.base /\ cmd'.after = cmd.after
        /\ cmd'.made = cmd.made /\ cmd'.replaced = cmd.replaced
    BY <1>1, <2>1 DEF Went, Same, Forward
  <2>3. IsIdentity(cmd'.want) /\ IsIdentity(cmd'.base) /\ IsIdentity(cmd'.after)
    BY <2>2 DEF CaseInv, Records
  <2>4. Consented'
    <3>1. cmd'.kind = "baseline" /\ cmd'.step = "unfence" /\ cmd'.consents = cmd.consents
      BY <1>1, <2>2 DEF Forward
    <3> QED  BY <1>1, <1>3, <1>5, <2>2, <3>1
                DEF CaseInv, Consented, Sealing, Exists, Copied
  <2> QED  BY <1>1, <1>3, <1>5, <2>2, <2>3, <2>4, SealingGoesOn DEF Sealing
<1> QED  BY <1>2, <1>4, <1>5 DEF CopyCase, Statement

\* The case is opened again (seal_and_reset_prove).
LEMMA UnfenceCaseKeeps ==
  ASSUME CaseInv, UnfenceCase PROVE CaseInv'
<1> DEFINE open == [server[Case] EXCEPT !.open = TRUE]
<1>1. /\ cmd.step = "unfence" /\ cmd.sub = "" /\ UNCHANGED <<phrase, left>>
      /\ cmd.kind = "baseline"
      /\ DOMAIN cmd = CommandFields /\ IsFiniteSet(cmd.made)
  BY StepIsKnown, CommandIsItself
     DEF UnfenceCase, Quiet, At, RunSteps, Restoring, Replacing
<1>2. CASE server' = server /\ cmd' = Failed(cmd, "error")
  BY <1>1, <1>2, RefusedKeeps
<1>3. ASSUME Exists(Case), server' = [server EXCEPT ![Case].open = TRUE]
      PROVE  /\ Databases' /\ DOMAIN server' = DOMAIN server
             /\ server'[Case].oid = server[Case].oid
             /\ server'[Case].marker = server[Case].marker
             /\ server'[Case].data = server[Case].data
             /\ \A m \in DOMAIN server : m # Case => server'[m] = server[m]
  <2>1. /\ DOMAIN open = DatabaseFields /\ open.oid = server[Case].oid
        /\ open.marker = server[Case].marker /\ open.data = server[Case].data
    BY <1>3 DEF CaseInv, Records, Databases, DatabaseFields, Exists
  <2>2. server' = [server EXCEPT ![Case] = open]
    BY <1>3
  <2> HIDE DEF open
  <2> QED  BY <1>3, <2>1, <2>2, OneAltered DEF Exists
<1>4. CASE /\ Exists(Case) /\ server' = [server EXCEPT ![Case].open = TRUE]
           /\ cmd' = Failed(cmd, "error")
  BY <1>1, <1>3, <1>4, SealingFails DEF Sealing
<1>5. ASSUME Exists(Case), server' = [server EXCEPT ![Case].open = TRUE],
             NEW step, Went(cmd', cmd, step),
             \/ cmd.error = "none" /\ step = "markBaseline"
             \/ step = "start"
      PROVE  CaseInv'
  <2>1. /\ Forward(cmd', cmd, step)
        /\ cmd'.want = cmd.want /\ cmd'.base = cmd.base /\ cmd'.after = cmd.after
        /\ cmd'.made = cmd.made /\ cmd'.replaced = cmd.replaced
    BY <1>1, <1>5 DEF Went, Same, Forward
  <2>2. IsIdentity(cmd'.want) /\ IsIdentity(cmd'.base) /\ IsIdentity(cmd'.after)
    BY <2>1 DEF CaseInv, Records
  <2>3. Consented'
    <3>1. cmd'.kind = "baseline" /\ cmd'.step = step /\ cmd'.consents = cmd.consents
      BY <1>1, <2>1 DEF Forward
    <3>2. CASE step = "start"
      BY <3>1, <3>2 DEF Consented, Sealing
    <3>3. CASE cmd.error = "none" /\ step = "markBaseline"
      <4>1. Copied'
        BY <1>1, <1>3, <1>5, <3>3
           DEF CaseInv, Consented, Copied, Exists, Case, Baseline
      <4> QED  BY <1>1, <1>3, <1>5, <2>1, <3>1, <3>3, <4>1
                  DEF CaseInv, Consented, Sealing, Exists
    <3> QED  BY <1>5, <3>2, <3>3
  <2> QED  BY <1>1, <1>3, <1>5, <2>1, <2>2, <2>3, SealingGoesOn DEF Sealing
<1>6. CASE /\ Exists(Case) /\ server' = [server EXCEPT ![Case].open = TRUE]
           /\ cmd' = IF cmd.error = "none" THEN Done(cmd) ELSE Enter(cmd, "start")
  <2>1. CASE cmd.error = "none"
    <3>1. Went(cmd', cmd, "markBaseline")
      BY <1>1, <1>6, <2>1, DoneIs, BaselineOrder
    <3> QED  BY <1>5, <1>6, <2>1, <3>1
  <2>2. CASE cmd.error # "none"
    <3>1. Went(cmd', cmd, "start")
      BY <1>1, <1>6, <2>2, EnterIs
    <3> QED  BY <1>5, <1>6, <3>1
  <2> QED  BY <2>1, <2>2
<1> QED  BY <1>2, <1>4, <1>6 DEF UnfenceCase, Alter, Statement

\* The new baseline gets its own marker (seal_and_reset_prove).
LEMMA MarkBaselineKeeps ==
  ASSUME CaseInv, MarkBaseline PROVE CaseInv'
<1> DEFINE marked == [server[Baseline] EXCEPT !.marker = fresh, !.kind = "baseline"]
           new == [server EXCEPT ![Baseline].marker = fresh,
                                 ![Baseline].kind = "baseline"]
           c == [cmd EXCEPT !.base.marker = fresh]
<1>1. /\ cmd.step = "markBaseline" /\ cmd.sub = "" /\ UNCHANGED <<phrase, left>>
      /\ cmd.kind = "baseline" /\ cmd.error = "none"
      /\ DOMAIN cmd = CommandFields /\ IsFiniteSet(cmd.made)
  BY StepIsKnown, CommandIsItself
     DEF MarkBaseline, Quiet, At, ErrorSteps, Restoring, RunSteps, Replacing
<1>2. CASE server' = server /\ cmd' = Failed(cmd, "error")
  BY <1>1, <1>2, RefusedKeeps
<1>3. ASSUME Exists(Baseline), server' = new
      PROVE  /\ Databases' /\ DOMAIN server' = DOMAIN server
             /\ server'[Baseline].data = server[Baseline].data
             /\ \A m \in DOMAIN server : m # Baseline => server'[m] = server[m]
  <2>1. DOMAIN marked = DatabaseFields /\ marked.data = server[Baseline].data
    BY <1>3 DEF CaseInv, Records, Databases, DatabaseFields, Exists
  <2>2. server' = [server EXCEPT ![Baseline] = marked]
    BY <1>3
  <2> HIDE DEF marked, new
  <2> QED  BY <1>3, <2>1, <2>2, OneAltered DEF Exists
<1>4. CASE Exists(Baseline) /\ server' = new /\ cmd' = Failed(cmd, "error")
  BY <1>1, <1>3, <1>4, SealingFails DEF Sealing
<1>5. ASSUME Exists(Baseline), server' = new, cmd' = Done(c)
      PROVE  CaseInv'
  <2>1. IsIdentity(cmd.base)
    BY DEF CaseInv, Records
  <2>2. /\ DOMAIN c = CommandFields /\ c.kind = cmd.kind /\ c.step = "markBaseline"
        /\ c.error = cmd.error /\ c.want = cmd.want /\ c.obs = cmd.obs
        /\ c.after = cmd.after /\ c.seed = cmd.seed /\ c.consents = cmd.consents
        /\ c.temporary = cmd.temporary /\ c.replaced = cmd.replaced
        /\ c.opened = cmd.opened /\ c.made = cmd.made
        /\ IsIdentity(c.base) /\ c.base.marker = fresh
    BY <1>1, <2>1 DEF CommandFields, IsIdentity
  <2> HIDE DEF c, new
  <2>3. Went(cmd', c, "plantProbe")
    BY <1>1, <1>5, <2>2, DoneIs, BaselineOrder
  <2>4. /\ Forward(cmd', cmd, "plantProbe")
        /\ cmd'.want = cmd.want /\ cmd'.base = c.base /\ cmd'.after = cmd.after
        /\ cmd'.made = cmd.made /\ cmd'.replaced = cmd.replaced
    BY <2>2, <2>3 DEF Went, Same, Forward
  <2>5. IsIdentity(cmd'.want) /\ IsIdentity(cmd'.base) /\ IsIdentity(cmd'.after)
    BY <2>2, <2>4 DEF CaseInv, Records
  <2>6. Consented'
    <3>1. cmd'.kind = "baseline" /\ cmd'.step = "plantProbe" /\ cmd'.consents = cmd.consents
      BY <1>1, <2>4 DEF Forward
    <3>2. cmd'.base.marker # Nothing
      BY <2>2, <2>4, FreshIsFresh DEF Nothing
    <3>3. Copied'
      BY <1>1, <1>3, <1>5
         DEF CaseInv, Consented, Sealing, Copied, Exists, Case, Baseline
    <3>4. Exists(Case) /\ server'[Case] = server[Case] /\ Exists(Case)'
      BY <1>1, <1>3, <1>5 DEF CaseInv, Consented, Sealing, Exists, Case, Baseline
    <3> QED  BY <1>1, <2>4, <3>1, <3>2, <3>3, <3>4 DEF CaseInv, Consented, Sealing
  <2> QED  BY <1>1, <1>3, <1>5, <2>4, <2>5, <2>6, SealingGoesOn DEF Sealing
<1> QED  BY <1>2, <1>4, <1>5 DEF MarkBaseline, Statement

\* The probe is put into the baseline (seal_and_reset_prove).
LEMMA PlantProbeKeeps ==
  ASSUME CaseInv, PlantProbe PROVE CaseInv'
<1> DEFINE planted == [server[Case] EXCEPT !.probe = TRUE]
           new == [server EXCEPT ![Case].probe = TRUE]
<1>1. /\ cmd.step = "plantProbe" /\ cmd.sub = "" /\ UNCHANGED <<phrase, left>>
      /\ cmd.kind = "baseline" /\ cmd.error = "none"
      /\ DOMAIN cmd = CommandFields /\ IsFiniteSet(cmd.made)
  BY StepIsKnown, CommandIsItself
     DEF PlantProbe, Quiet, At, ErrorSteps, Restoring, RunSteps, Replacing
<1>2. CASE server' = server /\ cmd' = Failed(cmd, "error")
  BY <1>1, <1>2, RefusedKeeps
<1>3. ASSUME Exists(Case), server' = new
      PROVE  /\ Databases' /\ DOMAIN server' = DOMAIN server
             /\ server'[Case].oid = server[Case].oid
             /\ server'[Case].marker = server[Case].marker
             /\ server'[Case].data = server[Case].data
             /\ \A m \in DOMAIN server : m # Case => server'[m] = server[m]
  <2>1. /\ DOMAIN planted = DatabaseFields /\ planted.oid = server[Case].oid
        /\ planted.marker = server[Case].marker /\ planted.data = server[Case].data
    BY <1>3 DEF CaseInv, Records, Databases, DatabaseFields, Exists
  <2>2. server' = [server EXCEPT ![Case] = planted]
    BY <1>3
  <2> HIDE DEF planted, new
  <2> QED  BY <1>3, <2>1, <2>2, OneAltered DEF Exists
<1>4. CASE Exists(Case) /\ server' = new /\ cmd' = Failed(cmd, "error")
  BY <1>1, <1>3, <1>4, SealingFails DEF Sealing
<1>5. ASSUME Exists(Case), server' = new, cmd' = Done(cmd)
      PROVE  CaseInv'
  <2> HIDE DEF new
  <2>1. Went(cmd', cmd, "seal")
    BY <1>1, <1>5, DoneIs, BaselineOrder
  <2>2. /\ Forward(cmd', cmd, "seal")
        /\ cmd'.want = cmd.want /\ cmd'.base = cmd.base /\ cmd'.after = cmd.after
        /\ cmd'.made = cmd.made /\ cmd'.replaced = cmd.replaced
    BY <1>1, <2>1 DEF Went, Same, Forward
  <2>3. IsIdentity(cmd'.want) /\ IsIdentity(cmd'.base) /\ IsIdentity(cmd'.after)
    BY <2>2 DEF CaseInv, Records
  <2>4. Consented'
    <3>1. cmd'.kind = "baseline" /\ cmd'.step = "seal" /\ cmd'.consents = cmd.consents
      BY <1>1, <2>2 DEF Forward
    <3>2. Copied'
      BY <1>1, <1>3, <1>5
         DEF CaseInv, Consented, Sealing, Copied, Exists, Case, Baseline
    <3> QED  BY <1>1, <1>3, <1>5, <2>2, <3>1, <3>2
                DEF CaseInv, Consented, Sealing, Exists
  <2> QED  BY <1>1, <1>3, <1>5, <2>2, <2>3, <2>4, SealingGoesOn DEF Sealing
<1> QED  BY <1>2, <1>4, <1>5 DEF PlantProbe, Alter, Statement

\* The seal is whole before the case is dropped.
LEMMA SealBaselineKeeps ==
  ASSUME CaseInv, SealBaseline PROVE CaseInv'
<1> DEFINE sealed == [server[Baseline] EXCEPT !.comment = cmd.base.marker,
                                              !.template = TRUE, !.open = FALSE]
           new == [server EXCEPT ![Baseline].comment = cmd.base.marker,
                                 ![Baseline].template = TRUE,
                                 ![Baseline].open = FALSE]
<1>1. /\ cmd.step = "seal" /\ cmd.sub = "" /\ UNCHANGED <<phrase, left>>
      /\ cmd.kind = "baseline" /\ cmd.error = "none"
      /\ DOMAIN cmd = CommandFields /\ IsFiniteSet(cmd.made)
  BY StepIsKnown, CommandIsItself
     DEF SealBaseline, Quiet, At, ErrorSteps, Restoring, RunSteps, Replacing
<1>2. CASE server' = server /\ cmd' = Failed(cmd, "error")
  BY <1>1, <1>2, RefusedKeeps
<1>3. ASSUME Exists(Baseline), server' = new
      PROVE  /\ Databases' /\ DOMAIN server' = DOMAIN server
             /\ server'[Baseline].data = server[Baseline].data
             /\ server'[Baseline].comment = cmd.base.marker
             /\ server'[Baseline].template /\ ~server'[Baseline].open
             /\ \A m \in DOMAIN server : m # Baseline => server'[m] = server[m]
  <2>1. /\ DOMAIN sealed = DatabaseFields /\ sealed.data = server[Baseline].data
        /\ sealed.comment = cmd.base.marker /\ sealed.template /\ ~sealed.open
    BY <1>3 DEF CaseInv, Records, Databases, DatabaseFields, Exists
  <2>2. server' = [server EXCEPT ![Baseline] = sealed]
    BY <1>3
  <2> HIDE DEF sealed, new
  <2> QED  BY <1>3, <2>1, <2>2, OneAltered DEF Exists
<1>4. CASE Exists(Baseline) /\ server' = new /\ cmd' = Failed(cmd, "error")
  BY <1>1, <1>3, <1>4, SealingFails DEF Sealing
<1>5. ASSUME Exists(Baseline), server' = new, cmd' = Done(cmd)
      PROVE  CaseInv'
  <2> HIDE DEF new
  <2>1. Went(cmd', cmd, "dropCase")
    BY <1>1, <1>5, DoneIs, BaselineOrder
  <2>2. /\ Forward(cmd', cmd, "dropCase")
        /\ cmd'.want = cmd.want /\ cmd'.base = cmd.base /\ cmd'.after = cmd.after
        /\ cmd'.made = cmd.made /\ cmd'.replaced = cmd.replaced
    BY <1>1, <2>1 DEF Went, Same, Forward
  <2>3. IsIdentity(cmd'.want) /\ IsIdentity(cmd'.base) /\ IsIdentity(cmd'.after)
    BY <2>2 DEF CaseInv, Records
  <2>4. Consented'
    <3>1. cmd'.kind = "baseline" /\ cmd'.step = "dropCase" /\ cmd'.consents = cmd.consents
      BY <1>1, <2>2 DEF Forward
    <3>2. cmd.base.marker # Nothing
      BY <1>1 DEF CaseInv, Consented
    <3>3. IsSealed'
      BY <1>3, <1>5, <3>2 DEF IsSealed, Exists
    <3>4. Copied'
      BY <1>1, <1>3, <1>5
         DEF CaseInv, Consented, Sealing, Copied, Exists, Case, Baseline
    <3>5. Exists(Case) /\ server'[Case] = server[Case] /\ Exists(Case)'
      BY <1>1, <1>3, <1>5 DEF CaseInv, Consented, Sealing, Exists, Case, Baseline
    <3> QED  BY <1>1, <2>2, <3>1, <3>2, <3>3, <3>4, <3>5
                DEF CaseInv, Consented, Sealing
  <2> QED  BY <1>1, <1>3, <1>5, <2>2, <2>3, <2>4, SealingGoesOn DEF Sealing
<1> QED  BY <1>2, <1>4, <1>5 DEF SealBaseline, Alter, Statement

\* The databases after one was dropped.
LEMMA OneDropped ==
  ASSUME CaseInv, NEW n, server' = Without(n)
  PROVE  /\ Databases' /\ DOMAIN server' = DOMAIN server \ {n}
         /\ \A m \in DOMAIN server' : server'[m] = server[m]
<1>1. /\ DOMAIN server' = DOMAIN server \ {n}
      /\ \A m \in DOMAIN server' : server'[m] = server[m]
  BY DEF Without
<1> QED  BY <1>1, FS_RemoveElement DEF CaseInv, Records, Databases

\* The original is dropped, with consent and after the seal (seal_and_reset_prove).
LEMMA DropCaseKeeps ==
  ASSUME CaseInv, DropCase PROVE CaseInv'
<1>1. /\ cmd.step = "dropCase" /\ cmd.sub = "" /\ UNCHANGED <<phrase, left>>
      /\ cmd.kind = "baseline" /\ cmd.error = "none"
      /\ DOMAIN cmd = CommandFields /\ IsFiniteSet(cmd.made)
  BY StepIsKnown, CommandIsItself
     DEF DropCase, Quiet, At, ErrorSteps, Restoring, RunSteps, Replacing
<1>2. CASE server' = server /\ cmd' = Failed(cmd, "error")
  BY <1>1, <1>2, RefusedKeeps
<1>3. ASSUME server' = Without(Case)
      PROVE  Databases' /\ DOMAIN server' \subseteq DOMAIN server
  BY <1>3, OneDropped
<1>4. CASE server' = Without(Case) /\ cmd' = Failed(cmd, "error")
  BY <1>1, <1>3, <1>4, SealingFails DEF Sealing
<1>5. CASE server' = Without(Case) /\ cmd' = Done(cmd)
  <2>1. Went(cmd', cmd, "clone")
    BY <1>1, <1>5, DoneIs, BaselineOrder
  <2>2. /\ Forward(cmd', cmd, "clone")
        /\ cmd'.want = cmd.want /\ cmd'.base = cmd.base /\ cmd'.after = cmd.after
        /\ cmd'.made = cmd.made /\ cmd'.replaced = cmd.replaced
    BY <1>1, <2>1 DEF Went, Same, Forward
  <2>3. IsIdentity(cmd'.want) /\ IsIdentity(cmd'.base) /\ IsIdentity(cmd'.after)
    BY <2>2 DEF CaseInv, Records
  <2>4. Consented'
    BY <1>1, <2>2 DEF Forward, Consented, Sealing
  <2> QED  BY <1>1, <1>3, <1>5, <2>2, <2>3, <2>4, SealingGoesOn DEF Sealing
<1> QED  BY <1>2, <1>4, <1>5 DEF DropCase, Alter, Statement

-----------------------------------------------------------------------------
\* The replacement has the data of the baseline: the seed, if the baseline still has
\* its identity.
LEMMA CloneBaselineKeeps ==
  ASSUME CaseInv, CloneBaseline PROVE CaseInv'
<1> DEFINE c == [cmd EXCEPT !.made = @ \cup {fresh}]
<1>1. /\ cmd.step = "clone" /\ cmd.sub = "" /\ UNCHANGED <<phrase, left>>
      /\ cmd.kind \in {"run", "baseline"} /\ cmd.error = "none"
      /\ DOMAIN cmd = CommandFields /\ IsFiniteSet(cmd.made)
  BY StepIsKnown, CommandIsItself
     DEF CloneBaseline, Quiet, At, ErrorSteps, Restoring
<1>2. /\ DOMAIN c = CommandFields /\ c.kind = cmd.kind /\ c.step = "clone"
      /\ c.error = cmd.error /\ c.want = cmd.want /\ c.base = cmd.base
      /\ c.obs = cmd.obs /\ c.after = cmd.after /\ c.uuid = cmd.uuid
      /\ c.seed = cmd.seed /\ c.private = cmd.private /\ c.consents = cmd.consents
      /\ c.temporary = cmd.temporary /\ c.replaced = cmd.replaced
      /\ c.opened = cmd.opened /\ c.made = cmd.made \cup {fresh}
      /\ IsFiniteSet(c.made)
  BY <1>1, FS_AddElement DEF CommandFields
<1> HIDE DEF c
<1>3. Case # Baseline /\ Case # Recovery
  BY DEF Case, Baseline, Recovery
<1>4. CASE server' = server /\ cmd' = Failed(c, "error")
  <2>1. /\ Databases' /\ UNCHANGED <<phrase, left>>
        /\ cmd.kind = "run" /\ Exists(Baseline)'
              => Exists(Baseline) /\ server'[Baseline] = server[Baseline]
        /\ \/ left \/ cmd.error \in Reported
           \/ DOMAIN server' \subseteq {Case, Baseline} \cup Aside
        /\ cmd.kind = "run" => (Recovery \in DOMAIN server' /\ Case \in DOMAIN server'
                                  => server'[Case].oid \in c.made)
    BY <1>1, <1>2, <1>4
       DEF CaseInv, Records, Databases, Exists, NothingElse, Working, Aside,
           OriginalIsAside
  <2> QED  BY <1>1, <1>2, <1>4, <2>1, FailingKeeps
<1>5. ASSUME Exists(Baseline), ~Exists(Case), server' = With(Case, CopyOf(Baseline))
      PROVE  /\ Databases' /\ DOMAIN server' = DOMAIN server \cup {Case}
             /\ \A m \in DOMAIN server : server'[m] = server[m]
             /\ server'[Case].oid = fresh /\ server'[Case].data = server[Baseline].data
             /\ Exists(Baseline)' /\ server'[Baseline] = server[Baseline] /\ Exists(Case)'
  BY <1>5, OneAdded DEF Exists
<1>6. CASE /\ Exists(Baseline) /\ ~Exists(Case)
           /\ server' = With(Case, CopyOf(Baseline)) /\ cmd' = Failed(c, "error")
  <2>1. /\ left \/ cmd.error \in Reported
           \/ DOMAIN server' \subseteq {Case, Baseline} \cup Aside
        /\ server'[Case].oid \in c.made
    BY <1>1, <1>2, <1>5, <1>6 DEF CaseInv, NothingElse, Working, Aside
  <2>2. /\ Databases'
        /\ Exists(Baseline)' => Exists(Baseline) /\ server'[Baseline] = server[Baseline]
        /\ cmd.step \notin {"session", "resume", "end"} /\ cmd.step # "copyCase"
    BY <1>1, <1>5, <1>6
  <2> QED  BY <1>1, <1>2, <1>6, <2>1, <2>2, FailingKeeps
<1>7. ASSUME Exists(Baseline), ~Exists(Case), server' = With(Case, CopyOf(Baseline)),
             cmd' = Done(c)
      PROVE  CaseInv'
  <2>1. Went(cmd', c, "mark")
    <3>1. Following(c.kind, c.step) = "mark"
      <4>1. Following("run", "clone") = "mark" /\ Following("baseline", "clone") = "mark"
        BY BaselineOrder, RunOrder
      <4>2. c.kind \in {"run", "baseline"} /\ c.step = "clone"
        BY <1>1, <1>2
      <4> QED  BY <4>1, <4>2
    <3> QED  BY <1>2, <1>7, <3>1, DoneIs
  <2>2. /\ Forward(cmd', cmd, "mark")
        /\ cmd'.want = cmd.want /\ cmd'.base = cmd.base /\ cmd'.after = cmd.after
        /\ cmd'.made = cmd.made \cup {fresh} /\ cmd'.replaced = cmd.replaced
        /\ cmd'.private = cmd.private /\ IsFiniteSet(cmd'.made)
    BY <1>2, <2>1 DEF Went, Same, Forward
  <2>3. IsIdentity(cmd'.want) /\ IsIdentity(cmd'.base) /\ IsIdentity(cmd'.after)
    BY <2>2 DEF CaseInv, Records
  <2>4. /\ cmd'.kind = cmd.kind /\ cmd'.step = "mark" /\ cmd'.sub = ""
        /\ cmd'.seed = cmd.seed /\ cmd'.error = "none"
    BY <1>1, <2>2 DEF Forward, SubOf, Observing, Attesting
  <2>5. CASE cmd.kind = "baseline"
    <3>1. Consented'
      BY <2>4, <2>5 DEF Consented, Sealing
    <3> QED  BY <1>1, <1>5, <1>7, <2>2, <2>3, <2>5, <3>1, SealingGoesOn
  <2>6. CASE cmd.kind = "run"
    <3>1. Is(cmd.base) => server[Baseline].data = cmd.seed
      BY <1>1, <2>6 DEF CaseInv, Attested, RunSteps, Replacing
    <3>2. Is(cmd.base)' = Is(cmd.base)
      BY <1>5, <1>7, <2>2 DEF Is, AsSealed
    <3>3. ReplacementIsSeed'
      BY <1>5, <1>7, <2>2, <2>4, <3>1, <3>2 DEF ReplacementIsSeed, SeedOr
    <3>4. OriginalIsAside'
      BY <1>5, <1>7, <2>2, <2>4 DEF OriginalIsAside
    <3>5. ReplacementIsWhole'
      BY <2>4 DEF ReplacementIsWhole, Replacing
    <3>6. cmd'.private # Nothing
      BY <1>1, <2>2, <2>6 DEF CaseInv, StepOK, Naming, Replacing
    <3>7. NothingElse'
      <4>1. Working \subseteq Working'
        BY <1>1, <2>2, <2>4, <2>6, <3>6 DEF Working, Recovery
      <4> QED  BY <1>1, <1>5, <1>7, <4>1 DEF CaseInv, NothingElse, Reported
    <3>8. "mark" \in Replacing /\ "mark" \notin Restoring /\ "clone" \in Replacing
      BY DEF Replacing, Restoring
    <3> QED  BY <1>1, <1>5, <1>7, <2>2, <2>3, <2>6, <3>3, <3>4, <3>5, <3>6, <3>7,
                <3>8, ResetGoesOn
  <2> QED  BY <1>1, <2>5, <2>6
<1> QED  BY <1>4, <1>6, <1>7 DEF CloneBaseline, Statement, c

\* The replacement gets its marker (replace_case_marker).
LEMMA MarkCaseKeeps ==
  ASSUME CaseInv, MarkCase PROVE CaseInv'
<1> DEFINE marked == [server[Case] EXCEPT !.marker = fresh, !.kind = "case"]
           new == [server EXCEPT ![Case].marker = fresh, ![Case].kind = "case"]
           c == [cmd EXCEPT !.uuid = fresh]
<1>1. /\ cmd.step = "mark" /\ cmd.sub = "" /\ UNCHANGED <<phrase, left>>
      /\ cmd.kind \in {"run", "baseline"} /\ cmd.error = "none"
      /\ DOMAIN cmd = CommandFields /\ IsFiniteSet(cmd.made)
  BY StepIsKnown, CommandIsItself DEF MarkCase, Quiet, At, ErrorSteps, Restoring
<1>2. CASE server' = server /\ cmd' = Failed(cmd, "error")
  BY <1>1, <1>2, RefusedKeeps
<1>3. ASSUME Exists(Case), server' = new
      PROVE  /\ Databases' /\ DOMAIN server' = DOMAIN server
             /\ server'[Case].oid = server[Case].oid
             /\ server'[Case].data = server[Case].data
             /\ \A m \in DOMAIN server : m # Case => server'[m] = server[m]
             /\ Exists(Baseline)' = Exists(Baseline)
             /\ Exists(Baseline) => server'[Baseline] = server[Baseline]
  <2>1. /\ DOMAIN marked = DatabaseFields /\ marked.oid = server[Case].oid
        /\ marked.data = server[Case].data
    BY <1>3 DEF CaseInv, Records, Databases, DatabaseFields, Exists
  <2>2. server' = [server EXCEPT ![Case] = marked]
    BY <1>3
  <2>3. Case # Baseline
    BY DEF Case, Baseline
  <2> HIDE DEF marked, new
  <2> QED  BY <1>3, <2>1, <2>2, <2>3, OneAltered DEF Exists
<1>4. CASE Exists(Case) /\ server' = new /\ cmd' = Failed(cmd, "error")
  <2>1. /\ left \/ cmd.error \in Reported
           \/ DOMAIN server' \subseteq {Case, Baseline} \cup Aside
        /\ cmd.kind = "run" => (Recovery \in DOMAIN server' => server'[Case].oid \in cmd.made)
    BY <1>1, <1>3, <1>4
       DEF CaseInv, NothingElse, Working, Aside, OriginalIsAside, Exists
  <2> HIDE DEF new
  <2>2. /\ Databases'
        /\ Exists(Baseline)' => Exists(Baseline) /\ server'[Baseline] = server[Baseline]
        /\ cmd.step \notin {"session", "resume", "end"} /\ cmd.step # "copyCase"
    BY <1>1, <1>3, <1>4
  <2> QED  BY <1>1, <1>4, <2>1, <2>2, FailingKeeps
<1>5. ASSUME Exists(Case), server' = new, cmd' = Done(c)
      PROVE  CaseInv'
  <2>1. /\ DOMAIN c = CommandFields /\ c.kind = cmd.kind /\ c.step = "mark"
        /\ c.error = cmd.error /\ c.want = cmd.want /\ c.base = cmd.base
        /\ c.obs = cmd.obs /\ c.after = cmd.after
        /\ c.seed = cmd.seed /\ c.private = cmd.private /\ c.consents = cmd.consents
        /\ c.temporary = cmd.temporary /\ c.replaced = cmd.replaced
        /\ c.opened = cmd.opened /\ c.made = cmd.made
    BY <1>1 DEF CommandFields
  <2> HIDE DEF c, new
  <2>2. Went(cmd', c, "observeNew")
    <3>1. /\ Following("run", "mark") = "observeNew"
          /\ Following("baseline", "mark") = "observeNew"
      BY BaselineOrder, RunOrder
    <3>2. Following(c.kind, c.step) = "observeNew"
      BY <1>1, <2>1, <3>1
    <3> QED  BY <1>5, <2>1, <3>2, DoneIs
  <2>3. /\ Forward(cmd', cmd, "observeNew")
        /\ cmd'.want = cmd.want /\ cmd'.base = cmd.base /\ cmd'.after = cmd.after
        /\ cmd'.made = cmd.made /\ cmd'.replaced = cmd.replaced
        /\ cmd'.private = cmd.private
    BY <2>1, <2>2 DEF Went, Same, Forward
  <2>4. IsIdentity(cmd'.want) /\ IsIdentity(cmd'.base) /\ IsIdentity(cmd'.after)
    BY <2>3 DEF CaseInv, Records
  <2>5. /\ cmd'.kind = cmd.kind /\ cmd'.step = "observeNew" /\ cmd'.sub = "catalog"
        /\ cmd'.seed = cmd.seed /\ cmd'.error = "none"
    BY <1>1, <2>3 DEF Forward, SubOf, Observing
  <2>6. CASE cmd.kind = "baseline"
    <3>1. Consented'
      BY <2>5, <2>6 DEF Consented, Sealing
    <3> QED  BY <1>1, <1>3, <1>5, <2>3, <2>4, <2>6, <3>1, SealingGoesOn
  <2>7. CASE cmd.kind = "run"
    <3>1. Is(cmd.base)' = Is(cmd.base)
      BY <1>3, <1>5, <2>3 DEF Is, AsSealed
    <3>2. ReplacementIsSeed'
      BY <1>1, <1>3, <1>5, <2>3, <2>5, <2>7, <3>1
         DEF CaseInv, ReplacementIsSeed, SeedOr, Exists
    <3>3. OriginalIsAside'
      BY <1>1, <1>3, <1>5, <2>3, <2>5, <2>7
         DEF CaseInv, OriginalIsAside, Exists, Recovery
    <3>4. ReplacementIsWhole'
      BY <2>5 DEF ReplacementIsWhole, Replacing
    <3>5. cmd'.private # Nothing
      BY <1>1, <2>3, <2>7 DEF CaseInv, StepOK, Naming, Replacing
    <3>6. NothingElse'
      <4>1. Working \subseteq Working'
        BY <1>1, <2>3, <2>5, <2>7, <3>5 DEF Working, Recovery
      <4> QED  BY <1>1, <1>3, <1>5, <4>1 DEF CaseInv, NothingElse, Reported
    <3>7. "mark" \in Replacing /\ "observeNew" \in Replacing /\ "observeNew" \notin Restoring
      BY DEF Replacing, Restoring
    <3> QED  BY <1>1, <1>3, <1>5, <2>3, <2>4, <2>7, <3>2, <3>3, <3>4, <3>5, <3>6,
                <3>7, ResetGoesOn
  <2> QED  BY <1>1, <2>6, <2>7
<1> QED  BY <1>2, <1>4, <1>5 DEF MarkCase, Statement

\* The databases after one got another name.
LEMMA OneRenamed ==
  ASSUME CaseInv, NEW n, NEW to, n # to, Exists(n), ~Exists(to), server' = Renamed(n, to)
  PROVE  /\ Databases' /\ DOMAIN server' = (DOMAIN server \ {n}) \cup {to}
         /\ server'[to] = server[n]
         /\ \A m \in DOMAIN server \ {n} : server'[m] = server[m]
<1>1. /\ DOMAIN server' = (DOMAIN server \ {n}) \cup {to}
      /\ \A m \in DOMAIN server' : server'[m] = server[IF m = to THEN n ELSE m]
  BY DEF Renamed
<1>2. IsFiniteSet(DOMAIN server')
  <2>1. IsFiniteSet(DOMAIN server \ {n})
    BY FS_RemoveElement DEF CaseInv, Records, Databases
  <2> QED  BY <1>1, <2>1, FS_AddElement
<1>3. \A m \in DOMAIN server \ {n} : server'[m] = server[m]
  BY <1>1 DEF Exists
<1>4. server'[to] = server[n]
  BY <1>1
<1>5. \A m \in DOMAIN server' : DOMAIN server'[m] = DatabaseFields
  BY <1>1, <1>3, <1>4 DEF CaseInv, Records, Databases, Exists
<1> QED  BY <1>1, <1>2, <1>3, <1>4, <1>5 DEF Databases

\* The original goes aside under a name that nothing had.
LEMMA RenameCaseKeeps ==
  ASSUME CaseInv, RenameCase PROVE CaseInv'
<1>1. /\ cmd.step = "rename" /\ cmd.sub = "" /\ UNCHANGED <<phrase, left>>
      /\ cmd.kind = "run" /\ cmd.error = "none"
      /\ DOMAIN cmd = CommandFields /\ IsFiniteSet(cmd.made)
  BY StepIsKnown, CommandIsItself DEF RenameCase, Quiet, At, ErrorSteps, Restoring,
     BaselineSteps, Sealing
<1>2. CASE server' = server /\ cmd' = Failed(cmd, "error")
  BY <1>1, <1>2, RefusedKeeps
<1>3. /\ Case # Baseline /\ Case # Recovery /\ Recovery # Baseline
  BY DEF Case, Baseline, Recovery
<1>4. ASSUME Exists(Case), ~Exists(Recovery), server' = Renamed(Case, Recovery)
      PROVE  /\ Databases' /\ DOMAIN server' = (DOMAIN server \ {Case}) \cup {Recovery}
             /\ Case \notin DOMAIN server'
             /\ Exists(Baseline)' = Exists(Baseline)
             /\ Exists(Baseline) => server'[Baseline] = server[Baseline]
  <2>1. /\ Databases' /\ DOMAIN server' = (DOMAIN server \ {Case}) \cup {Recovery}
        /\ \A m \in DOMAIN server \ {Case} : server'[m] = server[m]
    BY <1>3, <1>4, OneRenamed
  <2> QED  BY <1>3, <2>1 DEF Exists
<1>5. left \/ cmd.error \in Reported \/ DOMAIN server \subseteq {Case, Baseline}
  BY <1>1 DEF CaseInv, NothingElse, Working
<1>6. CASE /\ Exists(Case) /\ ~Exists(Recovery) /\ server' = Renamed(Case, Recovery)
           /\ cmd' = Failed(cmd, "error")
  <2>1. \/ left \/ cmd.error \in Reported
        \/ DOMAIN server' \subseteq {Case, Baseline} \cup Aside
    BY <1>1, <1>4, <1>5, <1>6 DEF Aside
  <2> QED  BY <1>1, <1>4, <1>6, <2>1, FailingKeeps
<1>7. ASSUME Exists(Case), ~Exists(Recovery), server' = Renamed(Case, Recovery),
             cmd' = Done(cmd)
      PROVE  CaseInv'
  <2>1. Went(cmd', cmd, "clone")
    BY <1>1, <1>7, DoneIs, RunOrder
  <2>2. /\ Forward(cmd', cmd, "clone")
        /\ cmd'.want = cmd.want /\ cmd'.base = cmd.base /\ cmd'.after = cmd.after
        /\ cmd'.made = cmd.made /\ cmd'.replaced = cmd.replaced
        /\ cmd'.private = cmd.private
    BY <1>1, <2>1 DEF Went, Same, Forward
  <2>3. IsIdentity(cmd'.want) /\ IsIdentity(cmd'.after)
    BY <2>2 DEF CaseInv, Records
  <2>4. /\ cmd'.kind = "run" /\ cmd'.step = "clone" /\ cmd'.sub = ""
    BY <1>1, <2>2 DEF Forward, SubOf, Observing, Attesting
  <2>5. cmd'.private # Nothing
    BY <1>1, <2>2 DEF CaseInv, StepOK, Naming, Replacing
  <2>6. NothingElse'
    <3>1. Recovery \in Working'
      BY <2>2, <2>4, <2>5 DEF Working, Recovery
    <3> QED  BY <1>1, <1>4, <1>5, <1>7, <3>1 DEF NothingElse, Reported
  <2>7. ReplacementIsSeed' /\ ReplacementIsWhole' /\ OriginalIsAside'
    BY <1>4, <1>7, <2>4
       DEF ReplacementIsSeed, ReplacementIsWhole, OriginalIsAside, Replacing, Exists
  <2>8. "rename" \in Replacing /\ "clone" \in Replacing /\ "clone" \notin Restoring
    BY DEF Replacing, Restoring
  <2> QED  BY <1>1, <1>4, <1>7, <2>2, <2>3, <2>5, <2>6, <2>7, <2>8, ResetGoesOn
<1> QED  BY <1>2, <1>6, <1>7 DEF RenameCase, Alter, Statement

\* The original is dropped: from now on the replacement is the case, and it has the
\* seed.
LEMMA CommitResetKeeps ==
  ASSUME CaseInv, CommitReset PROVE CaseInv'
<1> DEFINE c == [cmd EXCEPT !.want = cmd.after, !.replaced = TRUE,
                            !.after = NoIdentity, !.uuid = Nothing,
                            !.private = Nothing, !.made = {}]
<1>1. /\ cmd.step = "commit" /\ cmd.sub = "" /\ UNCHANGED <<phrase, left>>
      /\ cmd.kind = "run" /\ cmd.error = "none"
      /\ DOMAIN cmd = CommandFields /\ IsFiniteSet(cmd.made)
  BY StepIsKnown, CommandIsItself DEF CommitReset, Quiet, At, ErrorSteps, Restoring,
     BaselineSteps, Sealing
<1>2. CASE server' = server /\ cmd' = Failed(cmd, "error")
  BY <1>1, <1>2, RefusedKeeps
<1>3. /\ Case # Baseline /\ Case # Recovery /\ Recovery # Baseline
  BY DEF Case, Baseline, Recovery
<1>4. ASSUME server' = Without(Recovery)
      PROVE  /\ Databases' /\ DOMAIN server' = DOMAIN server \ {Recovery}
             /\ Exists(Baseline)' = Exists(Baseline) /\ Exists(Case)' = Exists(Case)
             /\ Exists(Baseline) => server'[Baseline] = server[Baseline]
             /\ Exists(Case) => server'[Case] = server[Case]
  <2> HIDE DEF Recovery
  <2> QED  BY <1>3, <1>4, OneDropped DEF Exists
<1>5. left \/ cmd.error \in Reported \/ DOMAIN server \subseteq {Case, Baseline, Recovery}
  BY <1>1 DEF CaseInv, NothingElse, Working
<1>6. CASE server' = Without(Recovery) /\ cmd' = Failed(cmd, "error")
  <2>1. \/ left \/ cmd.error \in Reported
        \/ DOMAIN server' \subseteq {Case, Baseline} \cup Aside
    BY <1>1, <1>4, <1>5, <1>6 DEF Aside
  <2>2. Recovery \notin DOMAIN server'
    BY <1>4, <1>6
  <2> QED  BY <1>1, <1>4, <1>6, <2>1, <2>2, FailingKeeps
<1>7. ASSUME server' = Without(Recovery), cmd' = Done(c)
      PROVE  CaseInv'
  <2>1. /\ DOMAIN c = CommandFields /\ c.kind = "run" /\ c.step = "commit"
        /\ c.error = "none" /\ c.want = cmd.after /\ c.base = cmd.base
        /\ c.obs = cmd.obs /\ c.after = NoIdentity
        /\ c.seed = cmd.seed /\ c.private = Nothing /\ c.consents = cmd.consents
        /\ c.temporary = cmd.temporary /\ c.replaced = TRUE
        /\ c.opened = cmd.opened /\ c.made = {}
    BY <1>1 DEF CommandFields
  <2> HIDE DEF c
  <2>2. Went(cmd', c, "start")
    BY <1>7, <2>1, DoneIs, RunOrder
  <2>3. /\ Forward(cmd', cmd, "start")
        /\ cmd'.want = cmd.after /\ cmd'.base = cmd.base /\ cmd'.after = NoIdentity
        /\ cmd'.made = {} /\ cmd'.replaced = TRUE /\ cmd'.private = Nothing
    BY <1>1, <2>1, <2>2 DEF Went, Same, Forward
  <2>4. IsIdentity(cmd'.want) /\ IsIdentity(cmd'.after) /\ IsFiniteSet(cmd'.made)
    BY <2>3, FS_EmptySet DEF CaseInv, Records, IsIdentity, NoIdentity
  <2>5. /\ cmd'.kind = "run" /\ cmd'.step = "start" /\ cmd'.sub = ""
        /\ cmd'.seed = cmd.seed /\ cmd'.opened = cmd.opened /\ cmd'.error = "none"
    BY <1>1, <2>3 DEF Forward, SubOf, Observing, Attesting
  <2>6. NothingElse'
    BY <1>1, <1>4, <1>5, <1>7 DEF NothingElse, Reported
  <2>7. ReplacementIsSeed' /\ OriginalIsAside'
    BY <2>5 DEF ReplacementIsSeed, OriginalIsAside
  <2>8. ReplacementIsWhole'
    <3>1. WholeAs(cmd.after)
      BY <1>1 DEF CaseInv, ReplacementIsWhole
    <3>2. WholeAs(cmd.want)'
      BY <1>4, <1>7, <2>3, <3>1 DEF WholeAs, Readable, Exists
    <3> QED  BY <2>3, <2>5, <3>2 DEF ReplacementIsWhole
  <2>9. Bound'
    <3>1. Exists(Case) /\ server[Case].data = cmd.seed
      BY <1>1 DEF CaseInv, ReplacementIsSeed, SeedOr
    <3>2. cmd.opened = {}
      BY <1>1 DEF CaseInv, Bound, AfterReset
    <3> QED  BY <1>4, <1>7, <2>3, <2>5, <3>1, <3>2
                DEF Bound, SessionsAreBound, AfterReset
  <2>10. "start" \notin Naming /\ "start" \notin Replacing \cup Restoring
         /\ "commit" \in Replacing
    BY DEF Naming, Replacing, Restoring
  <2> QED  BY <1>1, <1>4, <1>7, <2>3, <2>4, <2>6, <2>7, <2>8, <2>9, <2>10,
              ResetGoesOn
<1> QED  BY <1>2, <1>6, <1>7 DEF CommitReset, Alter, Statement

-----------------------------------------------------------------------------
\* What is restored after an error: the command knows what it knew.
LEMMA RestoreGoesOn ==
  ASSUME CaseInv, cmd.kind = "run", cmd.step \in Restoring,
         NEW step \in {"openOriginal", "renameBack", "observeRestored"},
         cmd' = Enter(cmd, step), step \in Naming => cmd.private # Nothing,
         UNCHANGED <<phrase, left>>, Databases',
         Exists(Baseline)' => Exists(Baseline) /\ server'[Baseline] = server[Baseline],
         \/ left \/ cmd.error \in Reported
         \/ DOMAIN server' \subseteq {Case, Baseline}
         \/ /\ DOMAIN server' \subseteq {Case, Baseline, Recovery}
            /\ cmd.private # Nothing /\ step \in {"openOriginal", "renameBack"}
  PROVE  CaseInv'
<1>1. DOMAIN cmd = CommandFields /\ cmd.error # "none"
  BY CommandIsItself DEF CaseInv, StepOK
<1>2. Went(cmd', cmd, step)
  BY <1>1, EnterIs
<1>3. /\ Forward(cmd', cmd, step)
      /\ cmd'.want = cmd.want /\ cmd'.base = cmd.base /\ cmd'.after = cmd.after
      /\ cmd'.made = cmd.made /\ cmd'.replaced = cmd.replaced
      /\ cmd'.private = cmd.private
  BY <1>1, <1>2 DEF Went, Same, Forward
<1>4. IsIdentity(cmd'.want) /\ IsIdentity(cmd'.after) /\ IsFiniteSet(cmd'.made)
  BY <1>3 DEF CaseInv, Records
<1>5. /\ cmd'.kind = "run" /\ cmd'.step = step /\ cmd'.error = cmd.error
      /\ cmd'.sub \in {"", "catalog"}
  BY <1>3 DEF Forward, Attesting, SubOf
<1>6. NothingElse'
  <2>1. CASE /\ DOMAIN server' \subseteq {Case, Baseline, Recovery}
             /\ cmd.private # Nothing /\ step \in {"openOriginal", "renameBack"}
    <3>1. Recovery \in Working'
      BY <1>3, <1>5, <2>1 DEF Working, Recovery
    <3> QED  BY <2>1, <3>1 DEF NothingElse
  <2> QED  BY <1>5, <2>1 DEF NothingElse
<1>7. ReplacementIsSeed' /\ ReplacementIsWhole' /\ OriginalIsAside'
  BY <1>5 DEF ReplacementIsSeed, ReplacementIsWhole, OriginalIsAside, Restoring
<1>8. step \notin Replacing /\ step \in Restoring
  BY DEF Replacing, Restoring
<1> QED  BY <1>1, <1>3, <1>4, <1>6, <1>7, <1>8, ResetGoesOn

\* A statement of the restoration that was carried out without the answer.
LEMMA RestoreFails ==
  ASSUME CaseInv, cmd.kind = "run", cmd.step \in Restoring \ {"observeRestored"},
         UNCHANGED <<phrase, left>>, Databases',
         Exists(Baseline)' => Exists(Baseline) /\ server'[Baseline] = server[Baseline],
         cmd' = Failed(cmd, "error")
  PROVE  CaseInv'
<1>1. cmd.step \notin Replacing \cup {"session", "resume", "end", "clone"}
  BY DEF Restoring, Replacing
<1> QED  BY <1>1, CommandIsItself, FailingKeeps

\* A failed reset drops what it put under the name of the case (restore_original_case).
LEMMA DropReplacementKeeps ==
  ASSUME CaseInv, DropReplacement PROVE CaseInv'
<1>1. /\ cmd.step = "dropReplacement" /\ cmd.sub = "" /\ UNCHANGED <<phrase, left>>
      /\ cmd.kind = "run" /\ cmd.private # Nothing
  BY StepIsKnown
     DEF DropReplacement, Quiet, At, BaselineSteps, Sealing, CaseInv, StepOK, Naming
<1>2. CASE server' = server /\ cmd' = Failed(cmd, "error")
  BY <1>1, <1>2, RefusedKeeps
<1>3. ASSUME server' = Without(Case)
      PROVE  /\ Databases' /\ DOMAIN server' \subseteq DOMAIN server
             /\ Exists(Baseline)' => Exists(Baseline) /\ server'[Baseline] = server[Baseline]
  BY <1>3, OneDropped DEF Exists
<1>4. left \/ cmd.error \in Reported \/ DOMAIN server \subseteq {Case, Baseline, Recovery}
  BY <1>1 DEF CaseInv, NothingElse, Working
<1>5. "dropReplacement" \in Restoring /\ "openOriginal" \in Restoring
  BY DEF Restoring
<1>6. CASE server' = Without(Case) /\ cmd' = Failed(cmd, "error")
  BY <1>1, <1>3, <1>5, <1>6, RestoreFails
<1>7. CASE server' = Without(Case) /\ cmd' = Enter(cmd, "openOriginal")
  BY <1>1, <1>3, <1>4, <1>5, <1>7, RestoreGoesOn
<1> QED  BY <1>2, <1>6, <1>7 DEF DropReplacement, Alter, Statement

\* A failed reset opens the original it had set aside (restore_original_case).
LEMMA OpenOriginalKeeps ==
  ASSUME CaseInv, OpenOriginal PROVE CaseInv'
<1> DEFINE open == [server[Original] EXCEPT !.open = TRUE]
           new == [server EXCEPT ![Original].open = TRUE]
<1>1. /\ cmd.step = "openOriginal" /\ cmd.sub = "" /\ UNCHANGED <<phrase, left>>
      /\ cmd.kind = "run"
  BY StepIsKnown DEF OpenOriginal, Quiet, At, BaselineSteps, Sealing
<1>2. CASE server' = server /\ cmd' = Failed(cmd, "error")
  BY <1>1, <1>2, RefusedKeeps
<1>3. Original # Baseline
  BY DEF Original, Case, Recovery, Baseline
<1>4. ASSUME Exists(Original), server' = new
      PROVE  /\ Databases' /\ DOMAIN server' = DOMAIN server
             /\ Exists(Baseline)' => Exists(Baseline) /\ server'[Baseline] = server[Baseline]
  <2>1. DOMAIN open = DatabaseFields
    BY <1>4 DEF CaseInv, Records, Databases, DatabaseFields, Exists
  <2>2. server' = [server EXCEPT ![Original] = open]
    BY <1>4
  <2> HIDE DEF open, new, Original
  <2> QED  BY <1>3, <1>4, <2>1, <2>2, OneAltered DEF Exists
<1>5. /\ left \/ cmd.error \in Reported \/ DOMAIN server \subseteq {Case, Baseline, Recovery}
      /\ cmd.private = Nothing
            => left \/ cmd.error \in Reported \/ DOMAIN server \subseteq {Case, Baseline}
  BY <1>1 DEF CaseInv, NothingElse, Working
<1>6. {"openOriginal", "renameBack", "observeRestored"} \subseteq Restoring
      /\ "observeRestored" \notin Naming
  BY DEF Restoring, Naming, Replacing
<1>7. CASE Exists(Original) /\ server' = new /\ cmd' = Failed(cmd, "error")
  BY <1>1, <1>4, <1>6, <1>7, RestoreFails
<1>8. ASSUME Exists(Original), server' = new,
             cmd' = Enter(cmd, IF Original = Case THEN "observeRestored" ELSE "renameBack")
      PROVE  CaseInv'
  <2>1. Original = Case <=> cmd.private = Nothing
    BY DEF Original, Case, Recovery
  <2> HIDE DEF new
  <2>2. CASE cmd.private = Nothing
    <3>1. cmd' = Enter(cmd, "observeRestored")
      BY <1>8, <2>1, <2>2
    <3> QED  BY <1>1, <1>4, <1>5, <1>6, <1>8, <2>2, <3>1, RestoreGoesOn
  <2>3. CASE cmd.private # Nothing
    <3>1. cmd' = Enter(cmd, "renameBack")
      BY <1>8, <2>1, <2>3
    <3> QED  BY <1>1, <1>4, <1>5, <1>6, <1>8, <2>3, <3>1, RestoreGoesOn
  <2> QED  BY <2>2, <2>3
<1> QED  BY <1>2, <1>7, <1>8 DEF OpenOriginal, Alter, Statement

\* A failed reset gives the original its name back (restore_original_case).
LEMMA RenameBackKeeps ==
  ASSUME CaseInv, RenameBack PROVE CaseInv'
<1>1. /\ cmd.step = "renameBack" /\ cmd.sub = "" /\ UNCHANGED <<phrase, left>>
      /\ cmd.kind = "run"
  BY StepIsKnown DEF RenameBack, Quiet, At, BaselineSteps, Sealing
<1>2. CASE server' = server /\ cmd' = Failed(cmd, "error")
  BY <1>1, <1>2, RefusedKeeps
<1>3. /\ Case # Baseline /\ Recovery # Case /\ Recovery # Baseline
  BY DEF Case, Baseline, Recovery
<1>4. ASSUME Exists(Recovery), ~Exists(Case), server' = Renamed(Recovery, Case)
      PROVE  /\ Databases' /\ DOMAIN server' = (DOMAIN server \ {Recovery}) \cup {Case}
             /\ Exists(Baseline)' => Exists(Baseline) /\ server'[Baseline] = server[Baseline]
  <2>1. /\ Databases' /\ DOMAIN server' = (DOMAIN server \ {Recovery}) \cup {Case}
        /\ \A m \in DOMAIN server \ {Recovery} : server'[m] = server[m]
    BY <1>3, <1>4, OneRenamed
  <2> QED  BY <1>3, <2>1 DEF Exists
<1>5. left \/ cmd.error \in Reported \/ DOMAIN server \subseteq {Case, Baseline, Recovery}
  BY <1>1 DEF CaseInv, NothingElse, Working
<1>6. {"renameBack", "observeRestored"} \subseteq Restoring /\ "observeRestored" \notin Naming
  BY DEF Restoring, Naming, Replacing
<1>7. CASE /\ Exists(Recovery) /\ ~Exists(Case) /\ server' = Renamed(Recovery, Case)
           /\ cmd' = Failed(cmd, "error")
  BY <1>1, <1>4, <1>6, <1>7, RestoreFails
<1>8. CASE /\ Exists(Recovery) /\ ~Exists(Case) /\ server' = Renamed(Recovery, Case)
           /\ cmd' = Enter(cmd, "observeRestored")
  <2>1. left \/ cmd.error \in Reported \/ DOMAIN server' \subseteq {Case, Baseline}
    BY <1>4, <1>5, <1>8
  <2> QED  BY <1>1, <1>4, <1>6, <1>8, <2>1, RestoreGoesOn
<1> QED  BY <1>2, <1>7, <1>8 DEF RenameBack, Alter, Statement

-----------------------------------------------------------------------------
\* The identities that the command remembers are not drawn again.
LEMMA NotDrawnAgain ==
  ASSUME CaseInv
  PROVE  /\ fresh # cmd.want.oid
         /\ \A i \in {cmd.base, cmd.obs} : fresh # i.oid /\ fresh # i.marker
<1>1. fresh \notin InUse
  BY FreshIsFresh
<1>2. /\ cmd.want.oid \in InUse
      /\ cmd.base.oid \in InUse /\ cmd.base.marker \in InUse
      /\ cmd.obs.oid \in InUse /\ cmd.obs.marker \in InUse
  BY DEF InUse, Ids
<1> QED  BY <1>1, <1>2

\* Somebody recreates the case: the oid differs from all that are remembered.
LEMMA RecreateKeeps ==
  ASSUME CaseInv, Recreate PROVE CaseInv'
<1>1. /\ UNCHANGED <<cmd, phrase, left>> /\ ~Trusting
  BY DEF Recreate, Outside
<1>2. PICK marker : server' = With(Case, [oid |-> fresh, marker |-> marker, kind |-> "case",
                                          comment |-> Nothing, template |-> FALSE,
                                          open |-> TRUE, probe |-> FALSE,
                                          data |-> "foreign"])
  BY DEF Recreate
<1>3. /\ DOMAIN server' = DOMAIN server \cup {Case}
      /\ DOMAIN server'[Case] = DatabaseFields /\ server'[Case].oid = fresh
      /\ \A m \in DOMAIN server \ {Case} : server'[m] = server[m]
  BY <1>2 DEF With, DatabaseFields
<1>4. Case # Baseline /\ Clone # Case /\ Recovery # Case
      /\ Clone' = Clone /\ Recovery' = Recovery
  BY <1>1 DEF Case, Baseline, Clone, Recovery
<1>5. /\ cmd.kind = "run" =>
           cmd.step \notin {"rename", "clone", "mark", "observeNew", "attestAfter", "commit",
                            "start"} \cup Restoring
      /\ cmd.kind = "baseline" =>
           cmd.step \notin Sealing /\ ~(cmd.step = "reobserve" /\ cmd.sub = "marker")
  BY <1>1 DEF Trusting, Replacing, Sealing
<1>6. fresh # cmd.want.oid
  BY NotDrawnAgain
<1>7. Records'
  <2>1. IsFiniteSet(DOMAIN server')
    BY <1>3, FS_AddElement DEF CaseInv, Records, Databases
  <2>2. Databases'
    BY <1>3, <2>1 DEF CaseInv, Records, Databases
  <2> QED  BY <1>1, <2>2 DEF CaseInv, Records, IsIdentity
<1>8. StepOK'
  BY <1>1 DEF CaseInv, StepOK, SubOK
<1>9. NothingElse'
  BY <1>1, <1>3, <1>4 DEF CaseInv, NothingElse, Working
<1>10. Attested'
  <2>1. /\ Exists(Baseline)' = Exists(Baseline) /\ Exists(Clone)' = Exists(Clone)
        /\ Exists(Baseline) => server'[Baseline] = server[Baseline]
        /\ Exists(Clone) => server'[Clone] = server[Clone]
    BY <1>3, <1>4 DEF Exists
  <2> HIDE DEF Clone
  <2>2. /\ (Is(cmd.base))' = Is(cmd.base) /\ (Is(cmd.obs))' = Is(cmd.obs)
        /\ Checked' = Checked
    BY <1>1, <2>1 DEF Is, AsSealed, Checked
  <2> QED  BY <1>1, <1>4, <2>1, <2>2 DEF CaseInv, Attested, Is, AsSealed
<1>11. ReplacementIsSeed'
  BY <1>1, <1>5 DEF ReplacementIsSeed
<1>12. ReplacementIsWhole'
  BY <1>1, <1>5 DEF CaseInv, ReplacementIsWhole, Restoring
<1>13. Bound'
  BY <1>1, <1>3, <1>6 DEF CaseInv, Bound, SessionsAreBound
<1>14. OriginalIsAside'
  BY <1>1, <1>3, <1>4, <1>5 DEF CaseInv, OriginalIsAside, Exists, Restoring
<1>15. Consented'
  BY <1>1, <1>5 DEF CaseInv, Consented, Sealing
<1> QED  BY <1>7, <1>8, <1>9, <1>10, <1>11, <1>12, <1>13, <1>14, <1>15 DEF CaseInv

\* Somebody changes the baseline: the identity that was attested is gone for good.
LEMMA SubstituteKeeps ==
  ASSUME CaseInv, Substitute PROVE CaseInv'
<1> DEFINE was == server[Baseline]
<1>1. /\ UNCHANGED <<cmd, phrase, left>> /\ Exists(Baseline)
      /\ Trusting => cmd.kind = "run"
  BY DEF Substitute, Outside
<1>2. PICK db \in {[was EXCEPT !.oid = fresh], [was EXCEPT !.marker = fresh],
                   [was EXCEPT !.comment = fresh],
                   [was EXCEPT !.marker = fresh, !.comment = fresh]} :
         server' = [server EXCEPT ![Baseline] = [db EXCEPT !.data = "foreign"]]
  BY DEF Substitute
<1> DEFINE new == [db EXCEPT !.data = "foreign"]
<1>3. /\ DOMAIN new = DatabaseFields
      /\ \/ new.oid = fresh
         \/ new.oid = was.oid /\ new.marker = fresh /\ new.comment = was.comment
         \/ new.comment = fresh
  BY <1>1 DEF CaseInv, Records, Databases, DatabaseFields, Exists
<1> HIDE DEF new
<1>4. /\ Databases' /\ DOMAIN server' = DOMAIN server /\ server'[Baseline] = new
      /\ \A m \in DOMAIN server : m # Baseline => server'[m] = server[m]
  BY <1>1, <1>2, <1>3, OneAltered DEF Exists, new
<1>5. Case # Baseline /\ Clone # Baseline /\ Recovery # Baseline
      /\ Clone' = Clone /\ Recovery' = Recovery
  BY <1>1 DEF Case, Baseline, Clone, Recovery
<1>6. /\ Exists(Case)' = Exists(Case) /\ Exists(Clone)' = Exists(Clone)
      /\ Exists(Recovery)' = Exists(Recovery) /\ Exists(Baseline)'
      /\ Exists(Case) => server'[Case] = server[Case]
      /\ Exists(Clone) => server'[Clone] = server[Clone]
  BY <1>1, <1>4, <1>5 DEF Exists
<1>7. \A i \in {cmd.base, cmd.obs} : fresh # i.oid /\ fresh # i.marker
  BY NotDrawnAgain
<1>8. ~(Is(cmd.base))' /\ ~(Is(cmd.obs))'
  BY <1>1, <1>3, <1>4, <1>7 DEF Is, AsSealed
<1>9. (AsSealed(cmd.base))' => AsSealed(cmd.base)
  BY <1>1, <1>3, <1>4, <1>7 DEF AsSealed, Exists
<1>10. Records' /\ StepOK'
  BY <1>1, <1>4 DEF CaseInv, Records, IsIdentity, StepOK, SubOK
<1>11. NothingElse'
  BY <1>1, <1>4, <1>5 DEF CaseInv, NothingElse, Working
<1>12. Attested'
  BY <1>1, <1>8 DEF Attested
<1>13. ReplacementIsSeed'
  <2> HIDE DEF Clone
  <2>1. Checked' = Checked
    BY <1>1 DEF Checked
  <2> QED  BY <1>1, <1>5, <1>6, <1>8, <1>9, <2>1
           DEF CaseInv, ReplacementIsSeed, SeedOr
<1>14. ReplacementIsWhole'
  BY <1>1, <1>6 DEF CaseInv, ReplacementIsWhole, WholeAs, Readable
<1>15. Bound' /\ OriginalIsAside'
  BY <1>1, <1>5, <1>6 DEF CaseInv, Bound, SessionsAreBound, OriginalIsAside
<1>16. Consented'
  <2>1. cmd.kind = "baseline" => cmd.step \notin Sealing
    BY <1>1 DEF Trusting, Sealing, Replacing
  <2> QED  BY <1>1, <1>6, <2>1 DEF CaseInv, Consented, Sealing
<1> QED  BY <1>10, <1>11, <1>12, <1>13, <1>14, <1>15, <1>16 DEF CaseInv

-----------------------------------------------------------------------------
\* The invariant holds of a server with a case, and maybe a baseline, and no command.
LEMMA CaseInvInit == ASSUME Init PROVE CaseInv
<1>1. /\ cmd = NoCommand /\ phrase = NoIdentity
      /\ DOMAIN server \in {{Case}, {Case, Baseline}}
      /\ \A n \in DOMAIN server : server[n] \in {CustomerCase, SealedBaseline}
  BY DEF Init
<1>2. /\ DOMAIN cmd = CommandFields /\ cmd.kind = "none" /\ cmd.step = "idle"
      /\ cmd.sub = "" /\ cmd.error = "none" /\ cmd.made = {} /\ cmd.opened = {}
      /\ cmd.replaced = FALSE /\ cmd.temporary = [name |-> Nothing, bad |-> FALSE]
      /\ cmd.want = NoIdentity /\ cmd.base = NoIdentity /\ cmd.obs = NoIdentity
      /\ cmd.after = NoIdentity
  BY <1>1 DEF NoCommand, CommandFields
<1>3. Records
  <2>1. IsFiniteSet({Case}) /\ IsFiniteSet({Case, Baseline})
    <3>1. IsFiniteSet({Case})  BY FS_Singleton
    <3>2. IsFiniteSet({Case} \cup {Baseline})  BY <3>1, FS_AddElement
    <3>3. {Case, Baseline} = {Case} \cup {Baseline}  OBVIOUS
    <3> QED  BY <3>1, <3>2, <3>3
  <2>2. Databases
    BY <1>1, <2>1 DEF Databases, CustomerCase, SealedBaseline, DatabaseFields
  <2>3. IsFiniteSet(cmd.made)
    BY <1>2, FS_EmptySet
  <2>4. DOMAIN cmd = CommandFields /\ DOMAIN cmd.temporary = {"name", "bad"}
    BY <1>2
  <2>5. \A i \in {phrase, cmd.want, cmd.base, cmd.obs, cmd.after} : i = NoIdentity
    BY <1>1, <1>2
  <2>6. IsIdentity(NoIdentity)
    BY DEF IsIdentity, NoIdentity
  <2> QED  BY <2>2, <2>3, <2>4, <2>5, <2>6 DEF Records
<1>4. StepOK
  BY <1>1, <1>2 DEF StepOK, SubOK, Observing, Attesting, Restoring
<1>5. NothingElse
  BY <1>1 DEF NothingElse
<1>6. /\ Attested /\ ReplacementIsSeed /\ OriginalIsAside /\ Consented
      /\ ReplacementIsWhole
  BY <1>2
     DEF Attested, ReplacementIsSeed, OriginalIsAside, Consented, ReplacementIsWhole
<1>7. Bound
  BY <1>2 DEF Bound, SessionsAreBound
<1> QED  BY <1>3, <1>4, <1>5, <1>6, <1>7 DEF CaseInv

\* Every step keeps the invariant.
LEMMA CaseInvStep == ASSUME CaseInv, [Next]_vars PROVE CaseInv'
<1>1. CASE Attest
  BY <1>1, ObserveCatalogKeeps, ObserveMarkerKeeps, ConnectKeeps,
     SealedCatalogKeeps, CreateCloneKeeps, InspectCloneKeeps, DropCloneKeeps,
     SweepCloneKeeps, SealedAgainKeeps
     DEF Attest
<1>2. CASE Seal
  BY <1>2, RequireBaselineAbsentKeeps, ChallengeKeeps, CopyCaseKeeps,
     UnfenceCaseKeeps, MarkBaselineKeeps, PlantProbeKeeps, SealBaselineKeeps,
     DropCaseKeeps
     DEF Seal
<1>3. CASE Reset
  BY <1>3, BeginResetKeeps, RequireRecoveryAbsentKeeps, RecheckCaseKeeps,
     RenameCaseKeeps, CommitResetKeeps, LookUpKeeps, DropReplacementKeeps,
     OpenOriginalKeeps, RenameBackKeeps
     DEF Reset
<1>4. CASE StopServices \/ StartServices \/ FenceCase \/ CloneBaseline \/ MarkCase
  BY <1>4, StopServicesKeeps, StartServicesKeeps, FenceCaseKeeps,
     CloneBaselineKeeps, MarkCaseKeeps
<1>5. CASE Begin \/ AwaitQuiescence \/ Resume \/ End \/ Crash
  BY <1>5, BeginKeeps, AwaitQuiescenceKeeps, ResumeKeeps, EndKeeps, CrashKeeps
<1>6. CASE Recreate \/ Substitute
  BY <1>6, RecreateKeeps, SubstituteKeeps
<1>7. CASE UNCHANGED vars
  <2>1. UNCHANGED <<server, cmd, phrase, left>>
    BY <1>7 DEF vars
  <2> QED  BY <2>1, UnchangedKeeps
<1> QED  BY <1>1, <1>2, <1>3, <1>4, <1>5, <1>6, <1>7 DEF Next, Command

\* The invariant holds in every state of every project.
THEOREM CaseInvHolds == Spec => []CaseInv
<1> QED  BY CaseInvInit, CaseInvStep, PTL DEF Spec

\* The sessions of the probe, of the quiescence check and of the snapshot read the
\* database that the reset made out of the attested baseline
\* (configured_database.rs:116-152), whatever others do to the names.
THEOREM SessionsStayBound == Spec => []SessionsAreBound
<1>1. CaseInv => SessionsAreBound
  BY DEF CaseInv, Bound
<1> QED  BY <1>1, CaseInvHolds, PTL

\* Nothing but the case and the baseline is left between commands, unless one was
\* killed or reported it (drop_database_exact, fail_case_reset).
THEOREM NothingIsLeftSilently == Spec => []LeftoversAreReported
<1>1. CaseInv => LeftoversAreReported
  <2> SUFFICES ASSUME CaseInv, cmd = NoCommand, ~left
               PROVE  DOMAIN server \subseteq {Case, Baseline}
    BY DEF LeftoversAreReported
  <2>1. Working = {} /\ cmd.error \notin Reported
    BY DEF Working, NoCommand, Reported
  <2> QED  BY <2>1 DEF CaseInv, NothingElse
<1> QED  BY <1>1, CaseInvHolds, PTL

-----------------------------------------------------------------------------
\* A name under which an oid was goes, or keeps another database.
LEMMA DroppedIsGone ==
  ASSUME NEW n \in DOMAIN server, server[n].oid \in Dropped
  PROVE  ~(n \in DOMAIN server' /\ server'[n].oid = server[n].oid)
  BY DEF Dropped, OidsOf

\* A rename keeps every oid.
LEMMA RenamedKeepsOids ==
  ASSUME CaseInv, NEW n, NEW to, n # to, Exists(n), ~Exists(to), server' = Renamed(n, to)
  PROVE  Dropped = {}
<1>1. /\ DOMAIN server' = (DOMAIN server \ {n}) \cup {to} /\ server'[to] = server[n]
      /\ \A m \in DOMAIN server \ {n} : server'[m] = server[m]
  BY OneRenamed
<1>2. ASSUME NEW m \in DOMAIN server PROVE server[m].oid \in OidsOf(server')
  <2>1. CASE m = n
    BY <1>1, <2>1 DEF OidsOf
  <2>2. CASE m # n
    BY <1>1, <2>2 DEF OidsOf
  <2> QED  BY <2>1, <2>2
<1> QED  BY <1>2 DEF Dropped, OidsOf

\* Only four statements drop a database.
LEMMA WhatDrops ==
  ASSUME CaseInv, outsiders \in Nat, [Next]_vars, ByCommand, NEW n \in DOMAIN server,
         server[n].oid \in Dropped
  PROVE  \/ n[1] = "attest"
         \/ DropCase /\ n = Case
         \/ CommitReset /\ n = Recovery /\ server[Recovery].oid = cmd.want.oid
         \/ DropReplacement /\ n = Case
<1>1. ~(n \in DOMAIN server' /\ server'[n].oid = server[n].oid)
  BY DroppedIsGone
<1>2. server' # server
  BY <1>1
<1>3. \A m : server' = Without(m) => n = m
  BY <1>1 DEF Without
<1>4. Clone[1] = "attest"
  BY DEF Clone
<1>5. CASE CreateClone
  <2>1. server' = With(Clone, CopyOf(Baseline))
    BY <1>2, <1>5 DEF CreateClone, Statement
  <2> QED  BY <1>1, <1>4, <2>1 DEF With
<1>6. CASE DropClone \/ SweepClone
  <2>1. server' = Without(Clone)
    BY <1>2, <1>6 DEF DropClone, SweepClone, Statement
  <2> QED  BY <1>3, <1>4, <2>1
<1>7. CASE DropCase
  BY <1>2, <1>3, <1>7 DEF DropCase, Alter, Statement
<1>8. CASE CommitReset
  BY <1>2, <1>3, <1>8 DEF CommitReset, Alter, Statement
<1>9. CASE DropReplacement
  BY <1>2, <1>3, <1>9 DEF DropReplacement, Alter, Statement
<1>10. CASE RenameCase
  <2>1. /\ Case # Recovery /\ Exists(Case) /\ ~Exists(Recovery)
        /\ server' = Renamed(Case, Recovery)
    BY <1>2, <1>10 DEF RenameCase, Alter, Statement, Case, Recovery
  <2>2. Dropped = {}
    BY <2>1, RenamedKeepsOids
  <2> QED  BY <2>2
<1>11. CASE RenameBack
  <2>1. /\ Case # Recovery /\ Exists(Recovery) /\ ~Exists(Case)
        /\ server' = Renamed(Recovery, Case)
    BY <1>2, <1>11 DEF RenameBack, Alter, Statement, Case, Recovery
  <2>2. Dropped = {}
    BY <2>1, RenamedKeepsOids
  <2> QED  BY <2>2
<1>12. CASE CopyCase \/ CloneBaseline
  <2>1. \/ ~Exists(Baseline) /\ server' = With(Baseline, CopyOf(Case))
        \/ ~Exists(Case) /\ server' = With(Case, CopyOf(Baseline))
    BY <1>2, <1>12 DEF CopyCase, CloneBaseline, Statement
  <2> QED  BY <1>1, <2>1 DEF With, Exists
<1>13. ASSUME NEW m, NEW db, db.oid = server[m].oid, server' = [server EXCEPT ![m] = db]
       PROVE  FALSE
  BY <1>1, <1>13
<1>14. CASE FenceCase \/ UnfenceCase \/ PlantProbe \/ MarkCase
  <2>1. Exists(Case)
    BY <1>2, <1>14
       DEF FenceCase, UnfenceCase, PlantProbe, MarkCase, Alter, Statement
  <2>2. PICK db \in {[server[Case] EXCEPT !.open = FALSE], [server[Case] EXCEPT !.open = TRUE],
                     [server[Case] EXCEPT !.probe = TRUE],
                     [server[Case] EXCEPT !.marker = fresh, !.kind = "case"]} :
           server' = [server EXCEPT ![Case] = db]
    BY <1>2, <1>14
       DEF FenceCase, UnfenceCase, PlantProbe, MarkCase, Alter, Statement
  <2>3. db.oid = server[Case].oid
    BY <2>1, <2>2 DEF CaseInv, Records, Databases, DatabaseFields, Exists
  <2> QED  BY <1>13, <2>2, <2>3
<1>15. CASE MarkBaseline \/ SealBaseline
  <2>1. Exists(Baseline)
    BY <1>2, <1>15 DEF MarkBaseline, SealBaseline, Alter, Statement
  <2>2. PICK db \in {[server[Baseline] EXCEPT !.marker = fresh, !.kind = "baseline"],
                     [server[Baseline] EXCEPT !.comment = cmd.base.marker,
                                              !.template = TRUE, !.open = FALSE]} :
           server' = [server EXCEPT ![Baseline] = db]
    BY <1>2, <1>15 DEF MarkBaseline, SealBaseline, Alter, Statement
  <2>3. db.oid = server[Baseline].oid
    BY <2>1, <2>2 DEF CaseInv, Records, Databases, DatabaseFields, Exists
  <2> QED  BY <1>13, <2>2, <2>3
<1>16. CASE OpenOriginal
  <2>1. Exists(Original)
        /\ server' = [server EXCEPT ![Original] = [server[Original] EXCEPT !.open = TRUE]]
    BY <1>2, <1>16 DEF OpenOriginal, Alter, Statement
  <2>2. [server[Original] EXCEPT !.open = TRUE].oid = server[Original].oid
    BY <2>1 DEF CaseInv, Records, Databases, DatabaseFields, Exists
  <2> QED  BY <1>13, <2>1, <2>2
<1>17. CASE Recreate \/ Substitute
  <2>1. outsiders' = outsiders + 1
    BY <1>17 DEF Recreate, Substitute, Outside
  <2> QED  BY <2>1 DEF ByCommand
<1>18. ~UNCHANGED server => Attest \/ Seal \/ Reset \/ FenceCase \/ CloneBaseline
                            \/ MarkCase \/ Recreate \/ Substitute
  BY DEF Next, Command, vars, Begin, StopServices, StartServices, AwaitQuiescence,
     Resume, End, Crash
<1>19. CASE Attest
  BY <1>2, <1>5, <1>6, <1>19
     DEF Attest, ObserveCatalog, ObserveMarker, Connect, SealedCatalog,
         InspectClone, SealedAgain, Query
<1>20. CASE Seal
  BY <1>2, <1>7, <1>12, <1>14, <1>15, <1>20
     DEF Seal, RequireBaselineAbsent, Challenge, Query
<1>21. CASE Reset
  BY <1>2, <1>8, <1>9, <1>10, <1>11, <1>16, <1>21
     DEF Reset, BeginReset, RequireRecoveryAbsent, RecheckCase, LookUp, Query
<1> QED  BY <1>2, <1>12, <1>14, <1>17, <1>18, <1>19, <1>20, <1>21

\* The changes by others are counted.
LEMMA OutsidersAreCounted ==
  ASSUME outsiders \in Nat, [Next]_vars PROVE outsiders' \in Nat
<1>1. CASE Attest
  BY <1>1
     DEF Attest, ObserveCatalog, ObserveMarker, Connect, SealedCatalog, CreateClone,
         InspectClone, DropClone, SweepClone, SealedAgain, Quiet, bounds
<1>2. CASE Seal
  BY <1>2
     DEF Seal, RequireBaselineAbsent, Challenge, CopyCase, UnfenceCase,
         MarkBaseline, PlantProbe, SealBaseline, DropCase, Quiet, bounds
<1>3. CASE Reset
  BY <1>3
     DEF Reset, BeginReset, RequireRecoveryAbsent, RecheckCase, RenameCase,
         CommitReset, LookUp, DropReplacement, OpenOriginal, RenameBack, Quiet,
         bounds
<1>4. CASE StopServices \/ StartServices \/ FenceCase \/ CloneBaseline \/ MarkCase
  BY <1>4
     DEF StopServices, StartServices, FenceCase, CloneBaseline, MarkCase, Quiet,
         bounds
<1>5. CASE Begin \/ AwaitQuiescence \/ Resume \/ End \/ Crash
  BY <1>5 DEF Begin, AwaitQuiescence, Resume, End, Crash, Quiet, bounds
<1>6. CASE Recreate \/ Substitute
  BY <1>6 DEF Recreate, Substitute, Outside
<1> QED  BY <1>1, <1>2, <1>3, <1>4, <1>5, <1>6 DEF Next, Command, vars, bounds

\* The same, in every state.
LEMMA Counted == Spec => [](outsiders \in Nat)
<1>1. Init => outsiders \in Nat
  BY DEF Init
<1>2. outsiders \in Nat /\ [Next]_vars => (outsiders \in Nat)'
  BY OutsidersAreCounted
<1> QED  BY <1>1, <1>2, PTL DEF Spec

\* `tiv baseline` drops nothing but its clones and the case whose identity the
\* operator repeated, after a sealed baseline has its data (baseline.rs:366-375).
THEOREM ConsentStaysExact == Spec => ConsentIsExact
<1> DEFINE exact == cmd.kind = "baseline" /\ ByCommand =>
                      \A n \in DOMAIN server : server[n].oid \in Dropped =>
                        \/ n[1] = "attest"
                        \/ /\ cmd.consents
                           /\ [oid |-> server[n].oid, marker |-> server[n].marker] = phrase
                           /\ IsSealed /\ server[Baseline].data = server[n].data
<1>1. ASSUME CaseInv, outsiders \in Nat, [Next]_vars PROVE [exact]_vars
  <2> SUFFICES ASSUME cmd.kind = "baseline", ByCommand, NEW n \in DOMAIN server,
                      server[n].oid \in Dropped, n[1] # "attest"
               PROVE  /\ cmd.consents
                      /\ [oid |-> server[n].oid, marker |-> server[n].marker] = phrase
                      /\ IsSealed /\ server[Baseline].data = server[n].data
    OBVIOUS
  <2>1. ~CommitReset /\ ~DropReplacement
    BY <1>1, StepIsKnown
       DEF CommitReset, DropReplacement, At, BaselineSteps, Sealing
  <2>2. DropCase /\ n = Case
    BY <1>1, <2>1, WhatDrops
  <2>3. cmd.step = "dropCase" /\ "dropCase" \in Sealing
    BY <2>2 DEF DropCase, At, Sealing
  <2>4. /\ cmd.consents /\ phrase = cmd.want /\ IsSealed /\ Copied
        /\ server[Case].oid = cmd.want.oid /\ server[Case].marker = cmd.want.marker
    BY <1>1, <2>3 DEF CaseInv, Consented
  <2>5. cmd.want = [oid |-> cmd.want.oid, marker |-> cmd.want.marker]
    <3>1. IsIdentity(cmd.want)
      BY <1>1 DEF CaseInv, Records
    <3> QED  BY <3>1 DEF IsIdentity
  <2> QED  BY <2>2, <2>4, <2>5 DEF Copied
<1> QED  BY <1>1, CaseInvHolds, Counted, PTL DEF Spec, ConsentIsExact

\* A run drops the original case only at the commit of a reset whose replacement is
\* marked and has the attested data; else it drops what it made itself
\* (reset_verified_case, restore_original_case).
THEOREM OriginalStays == Spec => OriginalSurvives
<1> DEFINE survives == cmd.kind = "run" /\ ByCommand =>
                         \A n \in DOMAIN server : server[n].oid \in Dropped =>
                           \/ n[1] = "attest" \/ server[n].oid \in cmd.made
                           \/ /\ server[n].oid = cmd.want.oid
                              /\ Readable(Case, "case") /\ server[Case].marker = cmd.uuid
                              /\ server[Case].data = cmd.seed
<1>1. ASSUME CaseInv, outsiders \in Nat, [Next]_vars PROVE [survives]_vars
  <2> SUFFICES ASSUME cmd.kind = "run", ByCommand, NEW n \in DOMAIN server,
                      server[n].oid \in Dropped, n[1] # "attest",
                      server[n].oid \notin cmd.made
               PROVE  /\ server[n].oid = cmd.want.oid
                      /\ Readable(Case, "case") /\ server[Case].marker = cmd.uuid
                      /\ server[Case].data = cmd.seed
    OBVIOUS
  <2>1. ~DropCase
    BY <1>1, StepIsKnown DEF DropCase, At, RunSteps, Replacing, Restoring
  <2>2. ~(DropReplacement /\ n = Case)
    BY <1>1 DEF DropReplacement, At, CaseInv, OriginalIsAside, Exists
  <2>3. CommitReset /\ n = Recovery /\ server[Recovery].oid = cmd.want.oid
    BY <1>1, <2>1, <2>2, WhatDrops
  <2>4. cmd.step = "commit"
    BY <2>3 DEF CommitReset, At
  <2>5. SeedOr(FALSE)
    BY <1>1, <2>4 DEF CaseInv, ReplacementIsSeed
  <2>6. WholeAs(cmd.after) /\ server[Case].marker = cmd.uuid
    BY <1>1, <2>4 DEF CaseInv, ReplacementIsWhole
  <2> QED  BY <2>3, <2>5, <2>6 DEF SeedOr, WholeAs
<1> QED  BY <1>1, CaseInvHolds, Counted, PTL DEF Spec, OriginalSurvives

\* After a reset began to replace the case, the services start only on the case that
\* the session means, open and with its marker (fail_case_reset).
THEOREM ServicesStartOnTheWhole == Spec => ServicesStartOnWhole
<1> DEFINE starts == cmd.kind = "run" /\ services = "down" /\ services' # "down"
                     /\ (cmd.replaced \/ cmd.made # {}) =>
                       /\ Readable(Case, "case")
                       /\ [oid |-> server[Case].oid, marker |-> server[Case].marker] = cmd.want
<1>1. ASSUME CaseInv, [Next]_vars PROVE [starts]_vars
  <2> SUFFICES ASSUME cmd.kind = "run", services' # services, cmd.replaced \/ cmd.made # {}
               PROVE  /\ Readable(Case, "case")
                      /\ [oid |-> server[Case].oid, marker |-> server[Case].marker] = cmd.want
    OBVIOUS
  <2>1. StopServices \/ StartServices
    <3>1. ~Attest
      BY DEF Attest, ObserveCatalog, ObserveMarker, Connect, SealedCatalog,
         CreateClone, InspectClone, DropClone, SweepClone, SealedAgain, Quiet
    <3>2. ~Seal
      BY DEF Seal, RequireBaselineAbsent, Challenge, CopyCase, UnfenceCase,
         MarkBaseline, PlantProbe, SealBaseline, DropCase, Quiet
    <3>3. ~Reset
      BY DEF Reset, BeginReset, RequireRecoveryAbsent, RecheckCase, RenameCase,
         CommitReset, LookUp, DropReplacement, OpenOriginal, RenameBack, Quiet
    <3>4. ~(FenceCase \/ CloneBaseline \/ MarkCase \/ Begin \/ AwaitQuiescence \/ Resume
            \/ End \/ Crash \/ Recreate \/ Substitute)
      BY DEF FenceCase, CloneBaseline, MarkCase, Begin, AwaitQuiescence, Resume,
         End, Crash, Recreate, Substitute, Outside, Quiet
    <3> QED  BY <1>1, <3>1, <3>2, <3>3, <3>4 DEF Next, Command, vars
  <2>2. cmd.step = "start"
    <3>1. cmd.step # "stop"
      BY <1>1
         DEF CaseInv, Bound, ReplacementIsWhole, AfterReset, Replacing, Restoring
    <3> QED  BY <2>1, <3>1 DEF StopServices, StartServices, At
  <2>3. WholeAs(cmd.want)
    BY <1>1, <2>2 DEF CaseInv, ReplacementIsWhole
  <2>4. cmd.want = [oid |-> cmd.want.oid, marker |-> cmd.want.marker]
    <3>1. IsIdentity(cmd.want)
      BY <1>1 DEF CaseInv, Records
    <3> QED  BY <3>1 DEF IsIdentity
  <2> QED  BY <2>3, <2>4 DEF WholeAs
<1> QED  BY <1>1, CaseInvHolds, PTL DEF Spec, ServicesStartOnWhole
=============================================================================
