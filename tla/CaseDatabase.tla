----------------------------- MODULE CaseDatabase ------------------------------
(***************************************************************************)
(* The disposable case database, its sealed baseline, and the commands     *)
(* that work on them (baseline.rs, postgres/safety.rs): `tiv baseline`,    *)
(* which seals the baseline once the operator repeated the challenge, and  *)
(* a run, which attests a session, resets the case from the baseline,      *)
(* opens verifier sessions on it and waits until it is quiescent.          *)
(*                                                                         *)
(* One command works at a time (the project lock serialises runs), but     *)
(* every SQL statement and docker call can be refused, or carried out and  *)
(* its answer lost; the command can be killed anywhere; and between its    *)
(* steps somebody else may recreate the case or change the baseline.  Not  *)
(* from the statement on that follows the last check by name: there the    *)
(* code trusts the name, and so does the model (Trusting).                 *)
(*                                                                         *)
(* Of a database's identity the oid and the marker vary; server, port,     *)
(* owner, project and roles are those of the configuration, and a command  *)
(* that finds others fails as one whose query is refused.                  *)
(***************************************************************************)
EXTENDS StableWindow, Sequences, FiniteSets

CONSTANTS
    CommandLimit,   \* commands begun,
    ResetLimit,     \* resets of one run, and
    OutsiderLimit   \* what others change

VARIABLES
    server,     \* the databases by name
    services,   \* application and workers: up, down, mixed
    cmd,        \* the command under way
    phrase,     \* the last challenge, as the operator copied it
    left,       \* history: a command was killed, or reported that it left
                \* something or could not bring things back
    commands, resets, outsiders

bounds == <<commands, resets, outsiders>>
vars == <<server, services, cmd, phrase, left, bounds, window>>

Case == <<"case", 0>>
Baseline == <<"baseline", 0>>
Recovery == <<"recovery", cmd.private>>
Clone == <<"attest", cmd.temporary.name>>

Nothing == 0
NoIdentity == [oid |-> Nothing, marker |-> Nothing]

Exists(n) == n \in DOMAIN server
With(n, db) ==
    [m \in DOMAIN server \cup {n} |-> IF m = n THEN db ELSE server[m]]
Without(n) == [m \in DOMAIN server \ {n} |-> server[m]]
Renamed(n, to) ==
    [m \in (DOMAIN server \ {n}) \cup {to} |-> server[IF m = to THEN n ELSE m]]
OidsOf(s) == {s[n].oid : n \in DOMAIN s}

\* The ids that somebody has or remembers.  An oid, UUID or random name that is
\* drawn is not among them; ids that all forgot may come again.
Ids(identity) == {identity.oid, identity.marker}
InUse == (UNION {Ids(server[n]) \cup {n[2], server[n].comment} : n \in DOMAIN server})
         \cup (UNION {Ids(i) : i \in {phrase, cmd.want, cmd.base, cmd.obs, cmd.after}})
         \cup {Nothing, cmd.uuid, cmd.private, cmd.temporary.name} \cup cmd.made
FirstAfter(i) == CHOOSE n \in (i + 1)..(i + 1 + Cardinality(InUse)) : n \notin InUse
fresh == FirstAfter(0)
another == FirstAfter(fresh)

\* CREATE DATABASE ... TEMPLATE: comment, seal and fence are not copied.
CopyOf(n) == [server[n] EXCEPT !.oid = fresh, !.comment = Nothing,
                               !.template = FALSE, !.open = TRUE]

NoCommand ==
    [kind |-> "none", step |-> "idle", sub |-> "", consents |-> FALSE,
     want |-> NoIdentity, base |-> NoIdentity, obs |-> NoIdentity,
     after |-> NoIdentity,
     uuid |-> Nothing, private |-> Nothing,
     temporary |-> [name |-> Nothing, bad |-> FALSE],
     seed |-> "none", made |-> {}, replaced |-> FALSE, opened |-> {},
     error |-> "none"]

\* The order of the steps; one that fails goes where Failed says.
Steps ==
    [baseline |-> <<"observe", "noBaseline", "challenge", "stop", "reobserve",
                    "noBaselineYet", "fence", "copyCase", "unfence",
                    "markBaseline", "plantProbe", "seal", "dropCase", "clone",
                    "mark", "observeNew", "attestAfter", "start", "end">>,
     run |-> <<"observe", "attest", "session", "stop", "reobserve", "reattest",
               "absent", "fence", "recheck", "rename", "clone", "mark",
               "observeNew", "attestAfter", "commit", "start", "bind",
               "bindOpen", "openProbe", "openQuiescence", "quiet",
               "openSnapshot", "resume">>]

Observing == {"observe", "reobserve", "observeNew", "observeRestored", "bind",
              "bindOpen", "openProbe", "openQuiescence", "openSnapshot"}
Opening == {"bindOpen", "openProbe", "openQuiescence", "openSnapshot"}
Attesting == {"attest", "reattest", "attestAfter"}
Restoring == {"lookup", "dropReplacement", "openOriginal", "renameBack",
              "observeRestored"}

Enter(c, step) ==
    [c EXCEPT !.step = step,
              !.sub = IF step \in Observing THEN "catalog"
                      ELSE IF step \in Attesting THEN "sealed" ELSE ""]

Following(kind, step) ==
    LET order == Steps[kind]
    IN  order[1 + CHOOSE i \in 1..Len(order) : order[i] = step]

Done(c) == Enter(c, Following(c.kind, c.step))

BeforeStop == {"observe", "noBaseline", "challenge", "attest"}
AfterStart == {"bind", "bindOpen", "openProbe", "openQuiescence", "quiet",
               "openSnapshot", "end"}
Replacing == {"fence", "recheck", "rename", "clone", "mark", "observeNew",
              "attestAfter", "commit"}

\* What the command knows goes with it.
Ending(error) == [NoCommand EXCEPT !.kind = cmd.kind, !.step = "end", !.error = error]

\* Mutant: services are started again even if the original is not back.
FailedRestoreStarts(c, error) ==
    LET e == IF c.error = "none" THEN error ELSE c.error
        to(step) == Enter([c EXCEPT !.error = e], step)
    IN  CASE c.step \in BeforeStop \cup AfterStart \cup {"start"} -> Ending(e)
          [] c.step \in Restoring -> Enter([c EXCEPT !.error = "recoveryFailed"], "start")
          [] c.kind = "run" /\ c.step \in Replacing -> to("lookup")
          [] c.kind = "baseline" /\ c.step = "copyCase" -> to("unfence")
          [] OTHER -> to("start")

\* fail_case_reset and the callers of both executions.  What cannot be restored
\* leaves the services down.
Failed(c, error) ==
    LET e == IF c.error = "none" THEN error ELSE c.error
        to(step) == Enter([c EXCEPT !.error = e], step)
    IN  CASE c.step \in BeforeStop \cup AfterStart -> Ending(e)
          [] c.step = "start" ->
                Ending(IF c.error = "none" THEN error ELSE "servicesFailed")
          [] c.step \in Restoring -> Ending("recoveryFailed")
          [] c.kind = "run" /\ c.step \in Replacing -> to("lookup")
          [] c.kind = "baseline" /\ c.step = "copyCase" -> to("unfence")
          [] OTHER -> to("start")

-----------------------------------------------------------------------------
At(step) == cmd.step = step /\ cmd.sub = ""

\* A query succeeds only if what it asks for holds, and may fail anyway.
Query(holds, done) ==
    /\ server' = server
    /\ \/ holds /\ cmd' = done
       \/ cmd' = Failed(cmd, "error")

\* A statement is carried out, carried out without the answer, or refused.
Statement(can, new, done, failed) ==
    \/ can /\ server' = new /\ cmd' = done
    \/ can /\ server' = new /\ cmd' = failed
    \/ server' = server /\ cmd' = failed

Alter(n, can, new, done) ==
    Statement(Exists(n) /\ can, new, done, Failed(cmd, "error"))

Quiet == UNCHANGED <<services, phrase, left, bounds, window>>

-----------------------------------------------------------------------------
(* observe_case_identity: the catalog from the maintenance database, then   *)
(* the marker from the case itself.                                         *)

\* Mutant: the oid is not compared.
AcceptsMarker(seen) ==
    CASE cmd.step = "observe" -> TRUE
      [] cmd.step = "observeNew" -> seen.marker = cmd.uuid
      [] OTHER -> seen.marker = cmd.want.marker

\* compare_identity, every field of it.
SameIdentity(seen) == seen = cmd.want

\* The replacement is another database, and has the marker given to it.
FreshlyReset(seen) == seen.oid # cmd.want.oid /\ seen.marker = cmd.uuid

\* What the step that observes asks of the identity.
Accepts(seen) ==
    CASE cmd.step = "observe" -> TRUE
      [] cmd.step = "observeNew" -> FreshlyReset(seen)
      [] OTHER -> SameIdentity(seen)

Observed(seen) ==
    CASE cmd.step = "observe" -> Done([cmd EXCEPT !.want = seen])
      [] cmd.step = "observeNew" -> Done([cmd EXCEPT !.after = seen])
      [] cmd.step = "observeRestored" -> Enter(cmd, "start")
      [] cmd.step \in Opening -> [cmd EXCEPT !.sub = "direct"]
      [] OTHER -> Done(cmd)

ObserveCatalog ==
    /\ cmd.sub = "catalog"
    /\ Query(Exists(Case),
             [cmd EXCEPT !.sub = "marker", !.obs.oid = server[Case].oid])
    /\ Quiet

\* A database that is fenced, that is no case, or that holds the probe of an
\* unfinished reset proof is refused.
Readable(n, kind) ==
    /\ Exists(n) /\ server[n].open
    /\ server[n].kind = kind /\ ~server[n].probe

ObserveMarker ==
    /\ cmd.sub = "marker"
    /\ LET seen == [oid |-> cmd.obs.oid, marker |-> server[Case].marker]
       IN  Query(Readable(Case, "case") /\ Accepts(seen), Observed(seen))
    /\ Quiet

\* Mutant: the session is used whatever it reached.
ReachedByName == Exists(Case) /\ server[Case].open

\* ConfiguredCaseDatabase::connect: the session is used only if it reached the
\* database whose identity was observed.
Reached == Exists(Case) /\ server[Case].open
           /\ server[Case].oid = cmd.want.oid

Connect ==
    /\ cmd.sub = "direct"
    /\ Query(Reached,
             Done([cmd EXCEPT !.opened =
                       @ \cup {[oid |-> server[Case].oid,
                                data |-> server[Case].data]}]))
    /\ Quiet

-----------------------------------------------------------------------------
(* observe_sealed_baseline_identity: the catalog, a disposable clone whose   *)
(* marker is read, and the catalog again.                                    *)

SealedIdentity ==
    [oid |-> server[Baseline].oid, marker |-> server[Baseline].comment]

IsSealed == /\ Exists(Baseline) /\ server[Baseline].template
            /\ ~server[Baseline].open
            /\ server[Baseline].comment # Nothing

SealedCatalog ==
    /\ cmd.sub = "sealed"
    /\ Query(IsSealed,
             [cmd EXCEPT !.sub = "clone", !.obs = SealedIdentity,
                         !.temporary = [name |-> fresh, bad |-> FALSE]])
    /\ Quiet

\* Mutant: a failure leaves what the statement may have created.
CreateCloneOnly ==
    /\ cmd.sub = "clone"
    /\ Statement(Exists(Baseline), With(Clone, CopyOf(Baseline)),
                 [cmd EXCEPT !.sub = "inspect"], Failed(cmd, "error"))
    /\ Quiet

\* create_database_from_template; a failure looks for what it may have left.
CreateClone ==
    /\ cmd.sub = "clone"
    /\ Statement(Exists(Baseline), With(Clone, CopyOf(Baseline)),
                 [cmd EXCEPT !.sub = "inspect"], [cmd EXCEPT !.sub = "sweep"])
    /\ Quiet

InspectClone ==
    /\ cmd.sub = "inspect"
    /\ server' = server
    /\ \/ /\ Readable(Clone, "baseline")
          /\ server[Clone].marker = cmd.obs.marker
          /\ cmd' = [cmd EXCEPT !.sub = "dropClone",
                                !.seed = IF cmd.step = "attest"
                                         THEN server[Clone].data ELSE @]
       \/ cmd' = [cmd EXCEPT !.sub = "dropClone", !.temporary.bad = TRUE]
    /\ Quiet

DropClone ==
    /\ cmd.sub = "dropClone"
    /\ Statement(Exists(Clone), Without(Clone),
                 IF cmd.temporary.bad THEN Failed(cmd, "error")
                 ELSE [cmd EXCEPT !.sub = "again"],
                 Failed(cmd, "temporaryLeft"))
    /\ Quiet

\* cleanup_temporary_database_if_present.
SweepClone ==
    /\ cmd.sub = "sweep"
    /\ Statement(TRUE, Without(Clone), Failed(cmd, "error"),
                 Failed(cmd, "temporaryLeft"))
    /\ Quiet

\* Mutant: a session knows it by the marker, too.
AcceptsBaselineMarker ==
    cmd.step = "attest" \/ cmd.obs.marker = cmd.base.marker

\* A session knows the baseline by its whole identity, after the reset too.
SameBaseline == cmd.obs = cmd.base

\* seal_and_reset_prove knows it by the marker it gave it.
AcceptsBaseline ==
    CASE cmd.step = "attest" -> TRUE
      [] cmd.kind = "baseline" -> cmd.obs.marker = cmd.base.marker
      [] OTHER -> SameBaseline

SealedAgain ==
    /\ cmd.sub = "again"
    /\ Query(IsSealed /\ SealedIdentity = cmd.obs /\ AcceptsBaseline,
             Done([cmd EXCEPT !.base = cmd.obs, !.obs = NoIdentity,
                              !.temporary = NoCommand.temporary]))
    /\ Quiet

-----------------------------------------------------------------------------
(* Services, common to both commands.                                        *)

\* A stop that fails may have stopped some of them; the error comes after one
\* attempt to start them again.
StopServices ==
    /\ At("stop")
    /\ \/ services' = "down" /\ cmd' = Done(cmd)
       \/ services' \in {services, "mixed", "down"}
          /\ cmd' = Failed(cmd, "error")
    /\ UNCHANGED <<server, phrase, left, bounds, window>>

\* After a reset the session continues; after an error the command ends.
StartServices ==
    /\ At("start")
    /\ \/ services' = "up"
          /\ cmd' = IF cmd.error = "none" THEN Done(cmd) ELSE Ending(cmd.error)
       \/ services' \in {services, "mixed", "up"}
          /\ cmd' = Failed(cmd, "error")
    /\ UNCHANGED <<server, phrase, left, bounds, window>>

-----------------------------------------------------------------------------
(* tiv baseline: run_configured_baseline and seal_and_reset_prove.           *)

RequireBaselineAbsent ==
    /\ At("noBaseline") \/ At("noBaselineYet")
    /\ Query(~Exists(Baseline), Done(cmd))
    /\ Quiet

\* Without consent the command reports its challenge; with it the phrase must
\* be the challenge of the identity observed now.
Challenge ==
    /\ At("challenge")
    /\ \/ ~cmd.consents /\ phrase' = cmd.want /\ cmd' = Ending(cmd.error)
       \/ cmd.consents /\ phrase = cmd.want /\ phrase' = phrase /\ cmd' = Done(cmd)
       \/ cmd.consents /\ phrase # cmd.want /\ phrase' = phrase
          /\ cmd' = Failed(cmd, "error")
    /\ UNCHANGED <<server, services, left, bounds, window>>

\* ALLOW_CONNECTIONS false, then the sessions of the verified oid are ended.
FenceCase ==
    /\ At("fence")
    /\ Alter(Case, TRUE, [server EXCEPT ![Case].open = FALSE], Done(cmd))
    /\ Quiet

CopyCase ==
    /\ At("copyCase")
    /\ Statement(Exists(Case) /\ ~Exists(Baseline),
                 With(Baseline, CopyOf(Case)), Done(cmd), Failed(cmd, "error"))
    /\ Quiet

\* Connectivity is restored whether or not the copy succeeded.
UnfenceCase ==
    /\ At("unfence")
    /\ Alter(Case, TRUE, [server EXCEPT ![Case].open = TRUE],
             IF cmd.error = "none" THEN Done(cmd) ELSE Enter(cmd, "start"))
    /\ Quiet

MarkBaseline ==
    /\ At("markBaseline")
    /\ Statement(Exists(Baseline) /\ server[Baseline].open,
                 [server EXCEPT ![Baseline].marker = fresh,
                                ![Baseline].kind = "baseline"],
                 Done([cmd EXCEPT !.base.marker = fresh]),
                 Failed(cmd, "error"))
    /\ Quiet

PlantProbe ==
    /\ At("plantProbe")
    /\ Alter(Case, server[Case].open, [server EXCEPT ![Case].probe = TRUE], Done(cmd))
    /\ Quiet

\* One batch: comment, template, no connections.
SealBaseline ==
    /\ At("seal")
    /\ Alter(Baseline, TRUE,
             [server EXCEPT ![Baseline].comment = cmd.base.marker,
                            ![Baseline].template = TRUE,
                            ![Baseline].open = FALSE],
             Done(cmd))
    /\ Quiet

DropCase ==
    /\ At("dropCase")
    /\ Alter(Case, TRUE, Without(Case), Done(cmd))
    /\ Quiet

\* CREATE DATABASE case TEMPLATE baseline, and in a reset its privileges.
CloneBaseline ==
    /\ At("clone")
    /\ Statement(Exists(Baseline) /\ ~Exists(Case),
                 With(Case, CopyOf(Baseline)),
                 Done([cmd EXCEPT !.made = @ \cup {fresh}]),
                 Failed([cmd EXCEPT !.made = @ \cup {fresh}], "error"))
    /\ Quiet

\* The replacement gets a marker of its own: replace_case_marker, and the same
\* statement in seal_and_reset_prove.
MarkCase ==
    /\ At("mark")
    /\ Statement(Exists(Case) /\ server[Case].open,
                 [server EXCEPT ![Case].marker = fresh, ![Case].kind = "case"],
                 Done([cmd EXCEPT !.uuid = fresh]), Failed(cmd, "error"))
    /\ Quiet

-----------------------------------------------------------------------------
(* A run: ConfiguredBaselineSession::reset_case and reset_verified_case.     *)

BeginReset ==
    /\ At("session") /\ resets < ResetLimit
    /\ resets' = resets + 1
    /\ cmd' = Done([cmd EXCEPT !.opened = {}, !.private = fresh, !.made = {},
                               !.replaced = FALSE])
    /\ UNCHANGED <<server, services, phrase, left, commands, outsiders, window>>

RequireRecoveryAbsent ==
    /\ At("absent")
    /\ Query(~Exists(Recovery), Done(cmd))
    /\ Quiet

\* require_database_identity, the last check by name.
RecheckCase ==
    /\ At("recheck")
    /\ Query(Exists(Case) /\ server[Case].oid = cmd.want.oid, Done(cmd))
    /\ Quiet

RenameCase ==
    /\ At("rename")
    /\ Alter(Case, ~Exists(Recovery),
             Renamed(Case, Recovery), Done(cmd))
    /\ Quiet

\* drop_database_exact of the original: the reset is committed.
CommitReset ==
    /\ At("commit")
    /\ Alter(Recovery, server[Recovery].oid = cmd.want.oid, Without(Recovery),
             Done([cmd EXCEPT !.want = cmd.after, !.replaced = TRUE,
                              !.after = NoIdentity, !.uuid = Nothing,
                              !.private = Nothing, !.made = {}]))
    /\ Quiet

\* restore_original_case reads both names and decides.
LookUp ==
    /\ At("lookup")
    /\ server' = server
    /\ LET original(n) == Exists(n) /\ server[n].oid = cmd.want.oid
       IN  \/ /\ original(Case) /\ ~Exists(Recovery)
              /\ cmd' = Enter([cmd EXCEPT !.private = Nothing], "openOriginal")
           \/ /\ original(Recovery) /\ ~original(Case)
              /\ cmd' = Enter(cmd, IF Exists(Case) THEN "dropReplacement"
                                   ELSE "openOriginal")
           \/ cmd' = Failed(cmd, "error")
    /\ Quiet

DropReplacement ==
    /\ At("dropReplacement")
    /\ Alter(Case, TRUE, Without(Case), Enter(cmd, "openOriginal"))
    /\ Quiet

\* Under the name it has: the private one, or the case's when it was only fenced.
Original == IF cmd.private = Nothing THEN Case ELSE Recovery

OpenOriginal ==
    /\ At("openOriginal")
    /\ Alter(Original, TRUE, [server EXCEPT ![Original].open = TRUE],
             Enter(cmd, IF Original = Case THEN "observeRestored"
                        ELSE "renameBack"))
    /\ Quiet

RenameBack ==
    /\ At("renameBack")
    /\ Alter(Recovery, ~Exists(Case),
             Renamed(Recovery, Case),
             Enter(cmd, "observeRestored"))
    /\ Quiet

\* The checkpoint's wait: a completion opens the snapshot, a timeout or an
\* error of an evaluation ends the case.
AwaitQuiescence ==
    /\ At("quiet")
    /\ \/ WaitStep /\ cmd' = cmd
       \/ wait = "stable" /\ cmd' = Done(cmd) /\ IdleNext
       \/ wait \in {"timeout", "failed"} /\ cmd' = Failed(cmd, "error") /\ IdleNext
    /\ UNCHANGED <<server, services, phrase, left, bounds>>

\* The next case, or the end of the run.
Resume ==
    /\ \/ At("resume") /\ cmd' = Enter(cmd, "session")
       \/ At("session") /\ cmd' = Ending(cmd.error)
    /\ server' = server
    /\ Quiet

-----------------------------------------------------------------------------
(* Commands come and go; others interfere.                                   *)

Begin ==
    /\ cmd = NoCommand /\ commands < CommandLimit
    /\ commands' = commands + 1
    /\ resets' = 0
    /\ \E kind \in {"baseline", "run"}, consents \in BOOLEAN :
          /\ consents => kind = "baseline" /\ phrase # NoIdentity
          /\ cmd' = Enter([NoCommand EXCEPT !.kind = kind,
                                            !.consents = consents], "observe")
    /\ UNCHANGED <<server, services, phrase, left, outsiders, window>>

End ==
    /\ At("end")
    /\ cmd' = NoCommand
    /\ left' = (left \/ cmd.error \in {"temporaryLeft", "recoveryFailed",
                                      "servicesFailed"})
    /\ UNCHANGED <<server, services, phrase, bounds, window>>

\* The command is killed.
Crash ==
    /\ cmd # NoCommand
    /\ cmd' = NoCommand
    /\ left' = TRUE
    /\ IdleNext
    /\ UNCHANGED <<server, services, phrase, bounds>>

\* From the last look at the oid behind the name to the end of the mutation: a
\* reset looks once more before it renames; the seal does not, and its last look
\* comes before the marker is read in another session.
Trusting ==
    \/ cmd.kind = "run" /\ cmd.step \in (Replacing \ {"fence", "recheck"})
                                        \cup Restoring \cup {"start"}
    \/ /\ cmd.kind = "baseline"
       /\ \/ cmd.step = "reobserve" /\ cmd.sub = "marker"
          \/ cmd.step \in Replacing \cup {"noBaselineYet", "copyCase", "unfence",
                                          "markBaseline", "plantProbe", "seal",
                                          "dropCase", "start"}

Outside ==
    /\ outsiders < OutsiderLimit
    /\ outsiders' = outsiders + 1
    /\ UNCHANGED <<services, cmd, phrase, left, commands, resets, window>>

\* Somebody drops the case and creates another, with the safety marker restored
\* from a dump or made anew.
Recreate ==
    /\ Outside /\ ~Trusting
    /\ \E marker \in {another} \cup {server[n].marker : n \in DOMAIN server \cap {Case}} :
          server' = With(Case, [oid |-> fresh, marker |-> marker, kind |-> "case",
                                comment |-> Nothing, template |-> FALSE,
                                open |-> TRUE, probe |-> FALSE,
                                data |-> "foreign"])

\* Somebody replaces the sealed baseline or what is in it; a replacement that
\* keeps oid, comment and marker cannot be told from the original.
Substitute ==
    /\ Outside /\ Exists(Baseline) /\ (Trusting => cmd.kind = "run")
    /\ LET was == server[Baseline]
       IN  \E db \in {[was EXCEPT !.oid = fresh],
                      [was EXCEPT !.marker = fresh],
                      [was EXCEPT !.comment = fresh],
                      [was EXCEPT !.marker = fresh, !.comment = fresh]} :
              server' = [server EXCEPT ![Baseline] = [db EXCEPT !.data = "foreign"]]

CustomerCase ==
    [oid |-> 1, marker |-> 2, kind |-> "case", comment |-> Nothing,
     template |-> FALSE, open |-> TRUE, probe |-> FALSE, data |-> "seed"]

SealedBaseline ==
    [oid |-> 3, marker |-> 4, kind |-> "baseline", comment |-> 4,
     template |-> TRUE, open |-> FALSE, probe |-> FALSE, data |-> "seed"]

\* A project before and after its baseline was sealed.
Init ==
    /\ server \in {[n \in {Case} |-> CustomerCase],
                   [n \in {Case, Baseline} |-> IF n = Case THEN CustomerCase
                                              ELSE SealedBaseline]}
    /\ services = "up" /\ cmd = NoCommand /\ phrase = NoIdentity
    /\ left = FALSE
    /\ commands = 0 /\ resets = 0 /\ outsiders = 0
    /\ Idle

Seal == \/ RequireBaselineAbsent \/ Challenge \/ CopyCase \/ UnfenceCase
        \/ MarkBaseline \/ PlantProbe \/ SealBaseline \/ DropCase

Attest == \/ ObserveCatalog \/ ObserveMarker \/ Connect \/ SealedCatalog
          \/ CreateClone \/ InspectClone \/ DropClone \/ SweepClone
          \/ SealedAgain

Reset == \/ BeginReset \/ RequireRecoveryAbsent \/ RecheckCase \/ RenameCase
         \/ CommitReset \/ LookUp \/ DropReplacement \/ OpenOriginal
         \/ RenameBack

Command == \/ Begin \/ Attest \/ Seal \/ Reset \/ StopServices \/ StartServices
           \/ FenceCase \/ CloneBaseline \/ MarkCase \/ AwaitQuiescence
           \/ Resume \/ End

Next == Command \/ Crash \/ Recreate \/ Substitute

Spec == Init /\ [][Next]_vars

-----------------------------------------------------------------------------
Dropped == OidsOf(server) \ OidsOf(server')
ByCommand == outsiders' = outsiders

\* `tiv baseline` drops one database besides its clones: the very case whose
\* identity the operator repeated, after the baseline that has its data was
\* sealed (safety.rs:357-393, baseline.rs:366-375, 742-808).
ConsentIsExact ==
    [][cmd.kind = "baseline" /\ ByCommand =>
        \A n \in DOMAIN server : server[n].oid \in Dropped =>
            \/ n[1] = "attest"
            \/ /\ cmd.consents
               /\ [oid |-> server[n].oid, marker |-> server[n].marker] = phrase
               /\ IsSealed /\ server[Baseline].data = server[n].data]_vars

\* A reset gives up the original case only for a marked replacement that has the
\* data of the baseline its session attested; anything else a run drops it made
\* itself.  So the original outlives every failure and every kill before that
\* (fail_case_reset, restore_original_case; docs/baseline.md:75-82).
OriginalSurvives ==
    [][cmd.kind = "run" /\ ByCommand =>
        \A n \in DOMAIN server : server[n].oid \in Dropped =>
            \/ n[1] = "attest" \/ server[n].oid \in cmd.made
            \/ /\ server[n].oid = cmd.want.oid
               /\ Readable(Case, "case") /\ server[Case].marker = cmd.uuid
               /\ server[Case].data = cmd.seed]_vars

\* A run that began to replace the case brings the services up again only on the
\* exact original or on the attested replacement, open for connections
\* (baseline.rs:196-202, docs/baseline.md:79-82).
ServicesStartOnWhole ==
    [][cmd.kind = "run" /\ services = "down" /\ services' # "down"
       /\ (cmd.replaced \/ cmd.made # {}) =>
            /\ Readable(Case, "case")
            /\ [oid |-> server[Case].oid, marker |-> server[Case].marker] = cmd.want]_vars

\* Probe, quiescence and snapshot of a case all read the database that its reset
\* made, out of the baseline the session attested, whatever others did to the
\* names meanwhile (baseline.rs:243-269, configured_database.rs:116-152).
SessionsAreBound ==
    \A s \in cmd.opened : s.oid = cmd.want.oid /\ s.data = cmd.seed

\* Unless a command was killed or one said that it left something, there are no
\* databases but the case and the baseline between commands
\* (create_database_from_template, drop_database_exact, fail_case_reset).
LeftoversAreReported ==
    cmd = NoCommand /\ ~left => DOMAIN server \subseteq {Case, Baseline}
=============================================================================
