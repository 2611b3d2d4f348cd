----------------------------- MODULE ArtifactStore -----------------------------
(***************************************************************************)
(* The directory of run artifacts (artifacts.rs) under several commands:   *)
(* campaigns and the runs derived from them (replay, shrink, minimized     *)
(* replay), which stage, finalize and publish an artifact, and cleanup     *)
(* (cleanup.rs), which removes one.  Each command is a process; the        *)
(* Compose-project lock (run_supervisor.rs) excludes those of one project, *)
(* and two configurations with different projects may name one artifact    *)
(* directory.                                                              *)
(*                                                                         *)
(* A command can end with an error or be killed at every step, which gives *)
(* its lock back and leaves its directories as they are, and the machine   *)
(* can lose power.  Of the file system it is assumed that a synchronised   *)
(* file keeps its name; a directory entry made, renamed or removed is only *)
(* kept for sure once the directory is synchronised.  Permissions, links,  *)
(* sizes and the bytes of the files are left out: a file is what its run   *)
(* wrote or is missing.                                                    *)
(***************************************************************************)
EXTENDS Naturals, FiniteSets

CONSTANTS
    Processes,      \* commands under way
    Projects,       \* Compose projects a command's configuration may name
    Runs,           \* run ids; a run id is drawn once
    Content,        \* files of a run besides its manifest and checksum index
    NoRun, Nobody,
    CommandLimit,   \* commands begun, and
    LossLimit       \* power losses

ASSUME NoRunAssumption == NoRun \notin Runs
ASSUME NobodyAssumption == Nobody \notin Processes /\ Nobody \notin Projects
ASSUME ContentAssumption ==
    /\ "compatibility" \in Content
    /\ "checksums" \notin Content /\ "manifest" \notin Content

VARIABLES
    name,       \* what the directory of a run is called: none, staging, final
    stable,     \* the names a power loss may leave it with
    files,      \* the files in it
    manifest,   \* what its manifest says
    lock,       \* the holder of a project's lock
    pc,         \* how far each command is
    job,        \* what it works on
    receipts,   \* runs reported removed
    published,  \* runs reported complete, with the path of their artifact
    removedBy,  \* history: the projects whose cleanups began to remove a run
    lateSource, \* history: runs that took the lock after their source was gone
    commands, losses

store == <<name, stable, files, manifest>>
history == <<removedBy, lateSource>>
bounds == <<commands, losses>>
vars == <<store, lock, pc, job, receipts, published, history, bounds>>

Files == Content \cup {"checksums", "manifest"}

\* valid_source_count: a campaign has no source, the others have one each.
SourceKind == [replay |-> "campaign", shrink |-> "replay",
               minimized_replay |-> "shrink"]

NoManifest == [kind |-> "none", complete |-> FALSE, source |-> NoRun,
               project |-> Nobody, required |-> {}]
Idle == [kind |-> "none", project |-> Nobody, run |-> NoRun, source |-> NoRun,
         scan |-> {}]

Init ==
    /\ name = [r \in Runs |-> "none"]
    /\ stable = [r \in Runs |-> {"none"}]
    /\ files = [r \in Runs |-> {}]
    /\ manifest = [r \in Runs |-> NoManifest]
    /\ lock = [p \in Projects |-> Nobody]
    /\ pc = [p \in Processes |-> "idle"]
    /\ job = [p \in Processes |-> Idle]
    /\ receipts = {} /\ published = {}
    /\ removedBy = [r \in Runs |-> {}]
    /\ lateSource = {}
    /\ commands = 0 /\ losses = 0

Goto(p, label) == pc' = [pc EXCEPT ![p] = label]
Advance(p, from, to) == pc[p] = from /\ Goto(p, to)

\* The command returns: its lock goes with it.
Return(p) ==
    /\ Goto(p, "idle")
    /\ job' = [job EXCEPT ![p] = Idle]
    /\ lock' = [project \in Projects |->
          IF lock[project] = p THEN Nobody ELSE lock[project]]

\* A directory entry of the base changes; the base is not synchronised yet.
Rename(r, to) ==
    /\ name' = [name EXCEPT ![r] = to]
    /\ stable' = [stable EXCEPT ![r] = @ \cup {to}]

\* sync_directory(base).
BaseSynced == stable' = [r \in Runs |-> {name[r]}]
-----------------------------------------------------------------------------
(* verify_complete_run_artifact and what it decodes.                        *)

\* A variant of Listed: the manifest's word is taken for the files it lists.
ListedByManifest(r) == "manifest" \in files[r]

\* collect_regular_files, whatever the manifest says.
Collected(r) == files[r]

\* The files found are the ones the manifest requires, with their digests, and
\* the two structural ones.
Listed(r) ==
    /\ {"manifest", "checksums", "compatibility"} \subseteq Collected(r)
    /\ Collected(r) = manifest[r].required \cup {"checksums", "manifest"}

\* common_complete_manifest_valid and v2_complete_provenance_valid.  A staging
\* directory does not bear the name its manifest has.
ManifestValid(r) ==
    /\ manifest[r].complete
    /\ name[r] = "final"
    /\ "compatibility" \in manifest[r].required
    /\ manifest[r].source = NoRun <=> manifest[r].kind = "campaign"

Verified(r) == Listed(r) /\ ManifestValid(r)

\* references_source: an identity has the digests of the manifest and the
\* checksum index, so it names one run.
References(r, source) == manifest[r].source = source
-----------------------------------------------------------------------------
(* Campaigns and derived runs.                                              *)

\* A variant of MayLock: the lock is advisory and nobody looks.
LocksAnyway(project) == TRUE
MayLock(project) == lock[project] = Nobody

\* ComposeProjectLock::try_acquire: a command that finds it held gives up.
TryAcquire(p, project) ==
    /\ MayLock(project)
    /\ lock' = [lock EXCEPT ![project] = p]

Begin(p, to, work) ==
    /\ Advance(p, "idle", to)
    /\ job' = [job EXCEPT ![p] = work]
    /\ commands < CommandLimit /\ commands' = commands + 1
    /\ UNCHANGED <<store, receipts, published, history, losses>>

StartCampaign(p, project) ==
    /\ Begin(p, "stage", [Idle EXCEPT !.kind = "campaign", !.project = project])
    /\ TryAcquire(p, project)

\* The source is verified and loaded before the lock is taken.
StartDerived(p, project, kind, source) ==
    /\ Verified(source)
    /\ manifest[source].kind = SourceKind[kind]
    /\ Begin(p, "load",
             [Idle EXCEPT !.kind = kind, !.project = project, !.source = source])
    /\ UNCHANGED lock

\* read_indexed_bytes of what the manifest verified before it lists: a file
\* removed in between fails the command.
LoadSource(p) ==
    /\ pc[p] = "load"
    /\ IF manifest[job[p].source].required \subseteq files[job[p].source]
       THEN Goto(p, "lock") /\ UNCHANGED <<lock, job>>
       ELSE Return(p)
    /\ UNCHANGED <<store, receipts, published, history, bounds>>

\* The lock after the source: a run that cannot have it is over.
LockDerived(p) ==
    /\ Advance(p, "lock", "stage")
    /\ TryAcquire(p, job[p].project)
    /\ UNCHANGED <<store, job, receipts, published, history, bounds>>

\* The compatibility recorded in the source, held in memory, names its project:
\* require_exact_match refuses to derive a run from another project's.
Compatible(p) ==
    job[p].kind # "campaign" => manifest[job[p].source].project = job[p].project

\* RunArtifactStaging::create under an id drawn for this run: the directory is
\* made and the base synchronised.  lateSource notes whether the source is still
\* whole now that the lock is held.
CreateStaging(p, r) ==
    /\ Advance(p, "stage", "write")
    /\ Compatible(p)
    /\ stable[r] = {"none"} /\ manifest[r] = NoManifest
    /\ name' = [name EXCEPT ![r] = "staging"]
    /\ stable' = [x \in Runs |-> {name'[x]}]
    /\ job' = [job EXCEPT ![p].run = r]
    /\ lateSource' = IF job[p].kind # "campaign" /\ ~Verified(job[p].source)
                     THEN lateSource \cup {r} ELSE lateSource
    /\ UNCHANGED <<files, manifest, lock, receipts, published, removedBy, bounds>>

\* write_bytes, with the file synchronised.
WriteFile(p, f) ==
    /\ pc[p] = "write"
    /\ f \notin files[job[p].run]
    /\ files' = [files EXCEPT ![job[p].run] = @ \cup {f}]
    /\ UNCHANGED <<name, stable, manifest, lock, pc, job, receipts, published,
                   history, bounds>>

\* What a complete run must have: its compatibility, its configuration and the
\* authorities its kind names.
HasRequired(r) == Content \subseteq files[r]

\* build_v2_artifact and what goes with it into the manifest of a run.
ManifestOf(p, complete) ==
    [kind |-> job[p].kind, complete |-> complete, source |-> job[p].source,
     project |-> job[p].project, required |-> Collected(job[p].run)]

\* finalize_complete and finalize_partial_v2: the files are listed and digested,
\* the index is written, and the manifest last.
WriteManifest(p, complete) ==
    LET r == job[p].run IN
    /\ Advance(p, "write", "publish")
    /\ complete => HasRequired(r)
    /\ manifest' = [manifest EXCEPT ![r] = ManifestOf(p, complete)]
    /\ files' = [files EXCEPT ![r] = @ \cup {"checksums", "manifest"}]
    /\ UNCHANGED <<name, stable, lock, job, receipts, published, history, bounds>>

\* The staging directory is synchronised and renamed.
Publish(p) ==
    /\ Advance(p, "publish", "published")
    /\ Rename(job[p].run, "final")
    /\ UNCHANGED <<files, manifest, lock, job, receipts, published, history, bounds>>

\* A variant of SyncPublished: the rename is reported as it is.
SyncNothing == UNCHANGED stable
SyncPublished == BaseSynced

\* The base is synchronised, and the run reports the path of its artifact.
ReportPublished(p) ==
    /\ pc[p] = "published"
    /\ SyncPublished
    /\ published' = IF manifest[job[p].run].complete THEN published \cup {job[p].run} ELSE published
    /\ Return(p)
    /\ UNCHANGED <<name, files, manifest, receipts, history, bounds>>
-----------------------------------------------------------------------------
(* cleanup_run_artifact.                                                    *)

StartCleanup(p, project, r) ==
    /\ Begin(p, "guard",
             [Idle EXCEPT !.kind = "cleanup", !.project = project, !.run = r])
    /\ TryAcquire(p, project)

\* A staging directory is refused.
RefuseStaging(p) ==
    /\ pc[p] = "guard"
    /\ IF name[job[p].run] = "staging" THEN Return(p)
                                       ELSE Goto(p, "stat") /\ UNCHANGED <<lock, job>>
    /\ UNCHANGED <<store, receipts, published, history, bounds>>

\* No directory is AlreadyAbsent, and one that does not verify is ineligible.
\* The entries of the base are read before the siblings are looked at.
VerifyTarget(p) ==
    /\ pc[p] = "stat"
    /\ IF Verified(job[p].run)
       THEN /\ Goto(p, "scan")
            /\ job' = [job EXCEPT ![p].scan =
                  {x \in Runs : name[x] = "final"} \ {job[p].run}]
            /\ UNCHANGED lock
       ELSE Return(p)
    /\ UNCHANGED <<store, receipts, published, history, bounds>>

Refers(x, r) == Verified(x) /\ References(x, r)

\* refuse_locally_referenced_source, one sibling: its entry may have gone, which
\* is an error; one that does not verify is passed over.
ScanSibling(p, x) ==
    /\ pc[p] = "scan" /\ x \in job[p].scan
    /\ IF name[x] = "none" \/ Refers(x, job[p].run)
       THEN Return(p)
       ELSE job' = [job EXCEPT ![p].scan = @ \ {x}] /\ UNCHANGED <<pc, lock>>
    /\ UNCHANGED <<store, receipts, published, history, bounds>>

\* same_directory_identity: no id is used twice, so another directory under the
\* name of the target is none.
StatAgain(p) ==
    /\ pc[p] = "scan" /\ job[p].scan = {}
    /\ IF name[job[p].run] = "final"
       THEN /\ Goto(p, "remove")
            /\ removedBy' = [removedBy EXCEPT ![job[p].run] =
                  @ \cup {job[p].project}]
            /\ UNCHANGED <<lock, job>>
       ELSE Return(p) /\ UNCHANGED removedBy
    /\ UNCHANGED <<store, receipts, published, lateSource, bounds>>

\* remove_dir_all: the files in the order the directory gives them.
RemoveFile(p, f) ==
    /\ pc[p] = "remove" /\ f \in files[job[p].run]
    /\ files' = [files EXCEPT ![job[p].run] = @ \ {f}]
    /\ UNCHANGED <<name, stable, manifest, lock, pc, job, receipts, published,
                   history, bounds>>

\* The empty directory goes; another cleanup may have removed it.
RemoveDirectory(p) ==
    /\ pc[p] = "remove" /\ files[job[p].run] = {}
    /\ IF name[job[p].run] = "final"
       THEN Rename(job[p].run, "none") /\ Goto(p, "removed") /\ UNCHANGED <<lock, job>>
       ELSE Return(p) /\ UNCHANGED <<name, stable>>
    /\ UNCHANGED <<files, manifest, receipts, published, history, bounds>>

\* A variant of SyncRemoved: the receipt does not wait for the disk.
SyncLater == UNCHANGED stable
SyncRemoved == BaseSynced

\* The base is synchronised and the target looked for once more.
ReportRemoved(p) ==
    /\ pc[p] = "removed"
    /\ SyncRemoved
    /\ receipts' = IF name[job[p].run] = "none"
                   THEN receipts \cup {job[p].run} ELSE receipts
    /\ Return(p)
    /\ UNCHANGED <<name, files, manifest, published, history, bounds>>
-----------------------------------------------------------------------------
\* An I/O error, a cancellation or a kill: the directories stay as they are.
Fail(p) ==
    /\ pc[p] # "idle"
    /\ Return(p)
    /\ UNCHANGED <<store, receipts, published, history, bounds>>

\* What a power loss may leave of a run's files: those of a removal that was not
\* synchronised may be back.
FilesAfterLoss(r, left) ==
    IF left = "none" THEN {{}}
    ELSE IF removedBy[r] = {} THEN {files[r]}
    ELSE {kept \in SUBSET (manifest[r].required \cup {"checksums", "manifest"}) :
             files[r] \subseteq kept}

PowerLoss ==
    /\ losses < LossLimit /\ losses' = losses + 1
    /\ name' \in [Runs -> {"none", "staging", "final"}]
    /\ \A r \in Runs : name'[r] \in stable[r]
    /\ files' \in [Runs -> SUBSET Files]
    /\ \A r \in Runs : files'[r] \in FilesAfterLoss(r, name'[r])
    /\ stable' = [r \in Runs |-> {name'[r]}]
    /\ pc' = [p \in Processes |-> "idle"]
    /\ job' = [p \in Processes |-> Idle]
    /\ lock' = [p \in Projects |-> Nobody]
    /\ UNCHANGED <<manifest, receipts, published, history, commands>>

Campaign(p) ==
    \/ \E project \in Projects : StartCampaign(p, project)
    \/ \E project \in Projects, kind \in DOMAIN SourceKind, r \in Runs :
          StartDerived(p, project, kind, r)
    \/ LoadSource(p)
    \/ LockDerived(p)
    \/ \E r \in Runs : CreateStaging(p, r)
    \/ \E f \in Content : WriteFile(p, f)
    \/ \E complete \in BOOLEAN : WriteManifest(p, complete)
    \/ Publish(p)
    \/ ReportPublished(p)

Cleanup(p) ==
    \/ \E project \in Projects, r \in Runs : StartCleanup(p, project, r)
    \/ RefuseStaging(p)
    \/ VerifyTarget(p)
    \/ \E x \in Runs : ScanSibling(p, x)
    \/ StatAgain(p)
    \/ \E f \in Files : RemoveFile(p, f)
    \/ RemoveDirectory(p)
    \/ ReportRemoved(p)

Next ==
    \/ \E p \in Processes : Campaign(p) \/ Cleanup(p) \/ Fail(p)
    \/ PowerLoss

Spec == Init /\ [][Next]_vars
-----------------------------------------------------------------------------
\* What the verifier accepts is what the run wrote before it was published as
\* complete: no partial run, no run half removed or half lost is taken for one.
AcceptedIsWhole ==
    \A r \in Runs : Verified(r) =>
        files[r] = Files /\ manifest[r].complete

\* An artifact reported as complete stays acceptable, whoever crashes and whenever
\* the power goes, until a cleanup has found it eligible.
PublishedSurvives ==
    \A r \in published : removedBy[r] = {} => Verified(r)

\* A source disappears under a complete descendant only if it had done so before
\* the descendant's run took the lock, which loads its source first; if a
\* configuration of another project removed it; or if the removal of the
\* descendant had begun as well, and a power loss brought its files back.
DescendantKeepsSource ==
    \A r \in Runs :
        LET source == manifest[r].source IN
        Verified(r) /\ removedBy[r] = {} /\ source # NoRun /\ ~Verified(source) =>
            \/ r \in lateSource
            \/ removedBy[source] \ {manifest[r].project} # {}

\* A run reported as removed stays removed, after a power loss too.
RemovedStaysRemoved ==
    \A r \in receipts : name[r] = "none"
=============================================================================
