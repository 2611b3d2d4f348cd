-------------------------- MODULE ArtifactStoreProofs --------------------------
(***************************************************************************)
(* Theorems about ArtifactStore, for every set of commands, projects, runs *)
(* and files and any number of commands and power losses: what is accepted *)
(* is whole, what is published survives, what is removed stays removed,    *)
(* and a source is kept while a run of its project descends from it.       *)
(***************************************************************************)
EXTENDS ArtifactStore, TLAPS

Names == {"none", "staging", "final"}
Kinds == {"none", "campaign", "replay", "shrink", "minimized_replay", "cleanup"}
Structural == {"checksums", "manifest"}

Owning == {"write", "publish", "published"}
Deriving == {"load", "lock", "stage"} \cup Owning
Cleaning == {"guard", "stat", "scan", "remove", "removed"}
Labels == {"idle"} \cup Deriving \cup Cleaning

Manifests == [kind : Kinds, complete : BOOLEAN, source : Runs \cup {NoRun},
              project : Projects \cup {Nobody}, required : SUBSET Files]
Jobs == [kind : Kinds, project : Projects \cup {Nobody}, run : Runs \cup {NoRun},
         source : Runs \cup {NoRun}, scan : SUBSET Runs]

TypeOK ==
    /\ name \in [Runs -> Names]
    /\ stable \in [Runs -> SUBSET Names]
    /\ files \in [Runs -> SUBSET Files]
    /\ manifest \in [Runs -> Manifests]
    /\ lock \in [Projects -> Processes \cup {Nobody}]
    /\ pc \in [Processes -> Labels]
    /\ job \in [Processes -> Jobs]
    /\ removedBy \in [Runs -> SUBSET Projects]
    /\ receipts \subseteq Runs /\ published \subseteq Runs

-----------------------------------------------------------------------------
(* The inductive invariant.                                                  *)

\* From the lock to the return a command holds the lock of its project.
HoldsLock(p) ==
    pc[p] \in Labels \ {"idle", "load", "lock"} =>
        job[p].project \in Projects /\ lock[job[p].project] = p

\* A campaign has no source and a derived run has one; a cleanup has a target,
\* which was complete once it has been verified, and which it is known to
\* remove once it does.
JobOK(p) ==
    /\ pc[p] \in Deriving =>
          /\ job[p].project \in Projects
          /\ job[p].kind \in Kinds \ {"none", "cleanup"}
          /\ job[p].source = NoRun <=> job[p].kind = "campaign"
    /\ pc[p] \in Cleaning => job[p].run \in Runs
    /\ pc[p] \in {"scan", "remove", "removed"} => manifest[job[p].run].complete
    /\ pc[p] \in {"remove", "removed"} => job[p].project \in removedBy[job[p].run]

\* The files of a run as its manifest has them.
Whole(r) == files[r] = manifest[r].required \cup Structural

\* The manifest of a run is the one its command wrote.
Bears(p, r) ==
    /\ manifest[r].kind = job[p].kind /\ manifest[r].source = job[p].source
    /\ manifest[r].project = job[p].project

\* How far a command is with the run it stages and publishes.
Owns(p) ==
    LET r == job[p].run IN
    /\ pc[p] \in Owning => r \in Runs
    /\ pc[p] \in {"write", "publish"} =>
          name[r] = "staging" /\ stable[r] = {"staging"} /\ removedBy[r] = {}
    /\ pc[p] = "write" => manifest[r] = NoManifest /\ files[r] \subseteq Content
    /\ pc[p] = "publish" => Bears(p, r) /\ Whole(r)
    /\ pc[p] = "published" => Bears(p, r)
    /\ pc[p] = "published" /\ removedBy[r] = {} => name[r] = "final"

\* No two commands work on one run.
OneOwner ==
    \A p, q \in Processes :
        pc[p] \in Owning /\ pc[q] \in Owning /\ job[p].run = job[q].run => p = q

\* What is known of a run whoever works on it.
RunOK(r) ==
    /\ name[r] \in stable[r]
    /\ manifest[r] = NoManifest /\ name[r] = "none" => files[r] = {}
    /\ manifest[r].complete =>
          /\ manifest[r].required = Content
          /\ manifest[r].source = NoRun <=> manifest[r].kind = "campaign"
    /\ removedBy[r] # {} => manifest[r].complete
    /\ "final" \in stable[r] => name[r] = "final" \/ removedBy[r] # {}
    /\ name[r] = "final" /\ removedBy[r] = {} => Whole(r)

\* A run that is verified, under a name a power loss cannot take.
Safe(r) == Verified(r) /\ stable[r] = {"final"}

PublishedOK(r) == r \in published /\ removedBy[r] = {} => Safe(r)

RemovedOK(r) ==
    r \in receipts => name[r] = "none" /\ stable[r] = {"none"} /\ manifest[r] # NoManifest

\* Why a source is still there, for a run that will be its descendant, ...
SourceKept(p) ==
    LET s == job[p].source IN
    /\ pc[p] = "write" /\ s # NoRun /\ job[p].run \notin lateSource
    /\ removedBy[s] \subseteq {job[p].project}
    => Safe(s)

\* ... and for one that is, or that has only to be renamed.
Descendant(r) ==
    /\ manifest[r].complete /\ manifest[r].source # NoRun
    /\ r \notin lateSource /\ removedBy[r] = {}

DescendantOK(r) ==
    /\ Descendant(r)
    /\ name[r] = "final" \/ \E p \in Processes : pc[p] = "publish" /\ job[p].run = r
    /\ removedBy[manifest[r].source] \subseteq {manifest[r].project}
    => Safe(manifest[r].source)

\* A cleanup of their project still has the descendant to look at, and does not
\* begin to remove its source.
ScanOK(c, r) ==
    /\ Descendant(r) /\ name[r] = "final"
    /\ manifest[r].source = job[c].run /\ manifest[r].project = job[c].project
    /\ r # job[c].run
    => /\ pc[c] = "scan" => r \in job[c].scan
       /\ pc[c] # "remove"

ProcessInv ==
    /\ \A p \in Processes : HoldsLock(p) /\ JobOK(p) /\ Owns(p) /\ SourceKept(p)
    /\ OneOwner
RunInv == \A r \in Runs : RunOK(r) /\ PublishedOK(r) /\ RemovedOK(r) /\ DescendantOK(r)
ScanInv == \A c \in Processes, r \in Runs : ScanOK(c, r)

IInv == TypeOK /\ ProcessInv /\ RunInv /\ ScanInv

-----------------------------------------------------------------------------
(* Facts about a state of the invariant.                                     *)

LEMMA Fields ==
    ASSUME TypeOK
    PROVE  /\ \A r \in Runs :
                 /\ name[r] \in Names /\ stable[r] \subseteq Names /\ files[r] \subseteq Files
                 /\ manifest[r] \in Manifests /\ manifest[r].complete \in BOOLEAN
                 /\ manifest[r].source \in Runs \cup {NoRun} /\ manifest[r].kind \in Kinds
                 /\ manifest[r].required \subseteq Files
                 /\ removedBy[r] \subseteq Projects
           /\ \A p \in Processes :
                 /\ pc[p] \in Labels /\ job[p] \in Jobs /\ job[p].kind \in Kinds
                 /\ job[p].run \in Runs \cup {NoRun} /\ job[p].source \in Runs \cup {NoRun}
                 /\ job[p].project \in Projects \cup {Nobody} /\ job[p].scan \subseteq Runs
<1>1. ASSUME NEW r \in Runs
      PROVE  /\ name[r] \in Names /\ stable[r] \subseteq Names /\ files[r] \subseteq Files
             /\ manifest[r] \in Manifests /\ removedBy[r] \subseteq Projects
  BY DEF TypeOK
<1>2. ASSUME NEW p \in Processes
      PROVE  pc[p] \in Labels /\ job[p] \in Jobs
  BY DEF TypeOK
<1> QED BY <1>1, <1>2 DEF Manifests, Jobs

\* An idle command works on nothing.
LEMMA IdleType == Idle \in Jobs /\ NoManifest \in Manifests
BY DEF Idle, Jobs, Kinds, NoManifest, Manifests

\* Two holders of the lock of one project are one command.
LEMMA OneHolder ==
    ASSUME ProcessInv, NEW p \in Processes, NEW q \in Processes,
           pc[p] \in Labels \ {"idle", "load", "lock"},
           pc[q] \in Labels \ {"idle", "load", "lock"},
           job[p].project = job[q].project
    PROVE  p = q
BY DEF ProcessInv, HoldsLock

\* A verified run is whole, and named by its final name.
LEMMA VerifiedIs ==
    ASSUME NEW r, Verified(r)
    PROVE  /\ name[r] = "final" /\ manifest[r].complete /\ Whole(r)
           /\ manifest[r] # NoManifest /\ files[r] # {}
BY DEF Verified, Listed, Collected, ManifestValid, Whole, Structural, NoManifest

\* A complete run that is whole under its final name verifies.
LEMMA WholeVerifies ==
    ASSUME NEW r, name[r] = "final", Whole(r), manifest[r].complete,
           manifest[r].required = Content,
           manifest[r].source = NoRun <=> manifest[r].kind = "campaign"
    PROVE  Verified(r)
BY ContentAssumption DEF Verified, Listed, Collected, ManifestValid, Whole, Structural

\* What a command returning leaves of the pcs, jobs and locks.
LEMMA ReturnFields ==
    ASSUME TypeOK, NEW p \in Processes, Return(p)
    PROVE  /\ pc' \in [Processes -> Labels] /\ job' \in [Processes -> Jobs]
           /\ lock' \in [Projects -> Processes \cup {Nobody}]
           /\ pc'[p] = "idle" /\ job'[p] = Idle
           /\ \A q \in Processes \ {p} : pc'[q] = pc[q] /\ job'[q] = job[q]
           /\ \A project \in Projects :
                 lock'[project] = IF lock[project] = p THEN Nobody ELSE lock[project]
BY IdleType DEF TypeOK, Return, Goto, Labels

LEMMA ReturnLocks ==
    ASSUME TypeOK, ProcessInv, NEW p \in Processes, Return(p), NEW q \in Processes
    PROVE  HoldsLock(q)'
<1>1. HoldsLock(q)
  BY DEF ProcessInv
<1>2. CASE q = p
  BY <1>2, ReturnFields DEF HoldsLock
<1>3. CASE q # p
  BY <1>1, <1>3, ReturnFields DEF HoldsLock
<1> QED BY <1>2, <1>3

\* A step of one command that changes no directory and begins no run.
LEMMA QuietStep ==
    ASSUME IInv, UNCHANGED <<store, receipts, published, history>>, NEW p \in Processes,
           pc' \in [Processes -> Labels], job' \in [Processes -> Jobs],
           lock' \in [Projects -> Processes \cup {Nobody}],
           \A q \in Processes \ {p} : pc'[q] = pc[q] /\ job'[q] = job[q],
           \A q \in Processes : HoldsLock(q)',
           pc'[p] \notin Owning, JobOK(p)', \A r \in Runs : ScanOK(p, r)'
    PROVE  IInv'
<1> USE DEF IInv, store, history
<1>1. TypeOK'
  BY DEF TypeOK
<1>2. \A r : Verified(r)' <=> Verified(r)
  BY DEF Verified, Listed, Collected, ManifestValid
<1>3. ASSUME NEW q \in Processes
      PROVE  JobOK(q)' /\ Owns(q)' /\ SourceKept(q)'
  <2>1. CASE q = p
    <3>1. Owns(p)' /\ SourceKept(p)'
      BY DEF Owns, SourceKept, Owning
    <3> QED BY <2>1, <3>1
  <2>2. CASE q # p
    <3>1. pc'[q] = pc[q] /\ job'[q] = job[q] /\ JobOK(q) /\ Owns(q) /\ SourceKept(q)
      BY <2>2 DEF ProcessInv
    <3>2. JobOK(q)'
      BY <3>1 DEF JobOK
    <3>3. Owns(q)'
      BY <3>1 DEF Owns, Bears, Whole
    <3>4. SourceKept(q)'
      BY <1>2, <3>1 DEF SourceKept, Safe
    <3> QED BY <3>2, <3>3, <3>4
  <2> QED BY <2>1, <2>2
<1>4. OneOwner'
  BY DEF ProcessInv, OneOwner
<1>5. ASSUME NEW r \in Runs
      PROVE  RunOK(r)' /\ PublishedOK(r)' /\ RemovedOK(r)' /\ DescendantOK(r)'
  <2>1. RunOK(r)' /\ PublishedOK(r)' /\ RemovedOK(r)'
    BY <1>2 DEF RunInv, RunOK, PublishedOK, RemovedOK, Safe, Whole
  <2>2. \A q \in Processes : pc'[q] = "publish" => pc[q] = "publish" /\ job'[q] = job[q]
    BY DEF Owning
  <2>3. DescendantOK(r)'
    BY <1>2, <2>2 DEF RunInv, DescendantOK, Descendant, Safe
  <2> QED BY <2>1, <2>3
<1>6. ASSUME NEW c \in Processes, NEW r \in Runs
      PROVE  ScanOK(c, r)'
  <2>1. CASE c = p
    BY <2>1
  <2>2. CASE c # p
    BY <2>2 DEF ScanInv, ScanOK, Descendant
  <2> QED BY <2>1, <2>2
<1>7. ProcessInv'
  BY <1>3, <1>4 DEF ProcessInv
<1> QED BY <1>1, <1>5, <1>6, <1>7 DEF RunInv, ScanInv

\* A command that ends as it stands.
LEMMA ReturnStep ==
    ASSUME IInv, UNCHANGED <<store, receipts, published, history>>, NEW p \in Processes,
           Return(p)
    PROVE  IInv'
<1>1. TypeOK /\ ProcessInv
  BY DEF IInv
<1>2. pc'[p] = "idle" /\ job'[p] = Idle
  BY <1>1, ReturnFields
<1>3. JobOK(p)' /\ pc'[p] \notin Owning /\ \A r \in Runs : ScanOK(p, r)'
  BY <1>2 DEF JobOK, ScanOK, Deriving, Cleaning, Owning
<1>4. \A q \in Processes : HoldsLock(q)'
  BY <1>1, ReturnLocks
<1> QED BY <1>1, <1>3, <1>4, ReturnFields, QuietStep

-----------------------------------------------------------------------------
(* Steps that change no directory.                                           *)

\* A command that takes a free lock holds it, and nobody loses one.
LEMMA LocksTaken ==
    ASSUME TypeOK, ProcessInv, NEW p \in Processes, NEW project \in Projects,
           TryAcquire(p, project), job'[p].project = project,
           \A q \in Processes \ {p} : pc'[q] = pc[q] /\ job'[q] = job[q]
    PROVE  /\ lock' \in [Projects -> Processes \cup {Nobody}]
           /\ \A q \in Processes : HoldsLock(q)'
<1>1. /\ lock' \in [Projects -> Processes \cup {Nobody}] /\ lock'[project] = p
      /\ \A other \in Projects : lock[other] # Nobody => lock'[other] = lock[other]
  BY DEF TypeOK, TryAcquire, MayLock
<1>2. ASSUME NEW q \in Processes
      PROVE  HoldsLock(q)'
  <2>1. HoldsLock(q) /\ q # Nobody
    BY NobodyAssumption DEF ProcessInv
  <2>2. CASE q = p
    BY <1>1, <2>2 DEF HoldsLock
  <2>3. CASE q # p
    BY <1>1, <2>1, <2>3 DEF HoldsLock
  <2> QED BY <2>2, <2>3
<1> QED BY <1>1, <1>2

\* What a command that begins knows.
LEMMA BeginFields ==
    ASSUME TypeOK, NEW p \in Processes, NEW to \in Labels, NEW work \in Jobs,
           Begin(p, to, work)
    PROVE  /\ pc' \in [Processes -> Labels] /\ job' \in [Processes -> Jobs]
           /\ pc'[p] = to /\ job'[p] = work /\ pc[p] = "idle"
           /\ \A q \in Processes \ {p} : pc'[q] = pc[q] /\ job'[q] = job[q]
           /\ UNCHANGED <<store, receipts, published, history>>
BY DEF TypeOK, Begin, Advance, Goto

LEMMA StartCampaignStep ==
    ASSUME IInv, NEW p \in Processes, NEW project \in Projects, StartCampaign(p, project)
    PROVE  IInv'
<1> DEFINE work == [Idle EXCEPT !.kind = "campaign", !.project = project]
<1>1. /\ work \in Jobs /\ work.kind = "campaign" /\ work.project = project
      /\ work.source = NoRun
  BY DEF Idle, Jobs, Kinds
<1> HIDE DEF work
<1>2. Begin(p, "stage", work) /\ TryAcquire(p, project)
  BY DEF StartCampaign, work
<1>3. TypeOK /\ ProcessInv /\ "stage" \in Labels
  BY DEF IInv, Labels, Deriving
<1>4. /\ pc' \in [Processes -> Labels] /\ job' \in [Processes -> Jobs]
      /\ pc'[p] = "stage" /\ job'[p] = work
      /\ \A q \in Processes \ {p} : pc'[q] = pc[q] /\ job'[q] = job[q]
      /\ UNCHANGED <<store, receipts, published, history>>
  BY <1>1, <1>2, <1>3, BeginFields
<1>5. JobOK(p)' /\ pc'[p] \notin Owning /\ \A r \in Runs : ScanOK(p, r)'
  BY <1>1, <1>4 DEF JobOK, ScanOK, Deriving, Cleaning, Owning, Kinds
<1> QED BY <1>1, <1>2, <1>3, <1>4, <1>5, LocksTaken, QuietStep

LEMMA StartCleanupStep ==
    ASSUME IInv, NEW p \in Processes, NEW project \in Projects, NEW r \in Runs,
           StartCleanup(p, project, r)
    PROVE  IInv'
<1> DEFINE work == [Idle EXCEPT !.kind = "cleanup", !.project = project, !.run = r]
<1>1. work \in Jobs /\ work.project = project /\ work.run = r
  BY DEF Idle, Jobs, Kinds
<1> HIDE DEF work
<1>2. Begin(p, "guard", work) /\ TryAcquire(p, project)
  BY DEF StartCleanup, work
<1>3. TypeOK /\ ProcessInv /\ "guard" \in Labels
  BY DEF IInv, Labels, Cleaning
<1>4. /\ pc' \in [Processes -> Labels] /\ job' \in [Processes -> Jobs]
      /\ pc'[p] = "guard" /\ job'[p] = work
      /\ \A q \in Processes \ {p} : pc'[q] = pc[q] /\ job'[q] = job[q]
      /\ UNCHANGED <<store, receipts, published, history>>
  BY <1>1, <1>2, <1>3, BeginFields
<1>5. JobOK(p)' /\ pc'[p] \notin Owning /\ \A x \in Runs : ScanOK(p, x)'
  BY <1>1, <1>4 DEF JobOK, ScanOK, Deriving, Cleaning, Owning
<1> QED BY <1>1, <1>2, <1>3, <1>4, <1>5, LocksTaken, QuietStep

LEMMA StartDerivedStep ==
    ASSUME IInv, NEW p \in Processes, NEW project \in Projects,
           NEW kind \in DOMAIN SourceKind, NEW source \in Runs,
           StartDerived(p, project, kind, source)
    PROVE  IInv'
<1> DEFINE work == [Idle EXCEPT !.kind = kind, !.project = project, !.source = source]
<1>0. kind \in Kinds \ {"none", "campaign", "cleanup"} /\ source # NoRun
  BY NoRunAssumption DEF SourceKind, Kinds
<1>1. /\ work \in Jobs /\ work.kind = kind /\ work.source = source
      /\ work.project = project
  BY <1>0 DEF Idle, Jobs
<1> HIDE DEF work
<1>2. Begin(p, "load", work) /\ UNCHANGED lock
  BY DEF StartDerived, work
<1>3. TypeOK /\ ProcessInv /\ "load" \in Labels
  BY DEF IInv, Labels, Deriving
<1>4. /\ pc' \in [Processes -> Labels] /\ job' \in [Processes -> Jobs]
      /\ pc'[p] = "load" /\ job'[p] = work
      /\ \A q \in Processes \ {p} : pc'[q] = pc[q] /\ job'[q] = job[q]
      /\ UNCHANGED <<store, receipts, published, history>>
  BY <1>1, <1>2, <1>3, BeginFields
<1>5. JobOK(p)' /\ pc'[p] \notin Owning /\ \A r \in Runs : ScanOK(p, r)'
  BY <1>0, <1>1, <1>4 DEF JobOK, ScanOK, Deriving, Cleaning, Owning
<1>6. lock' \in [Projects -> Processes \cup {Nobody}]
  BY <1>2, <1>3 DEF TypeOK
<1>7. ASSUME NEW q \in Processes
      PROVE  HoldsLock(q)'
  BY <1>2, <1>4 DEF HoldsLock, IInv, ProcessInv
<1> QED BY <1>4, <1>5, <1>6, <1>7, QuietStep

\* A command that goes on with the same job and lock.
LEMMA GotoStep ==
    ASSUME IInv, UNCHANGED <<store, receipts, published, history>>, NEW p \in Processes,
           NEW to \in Labels \ Owning, pc' = [pc EXCEPT ![p] = to], UNCHANGED lock,
           job' \in [Processes -> Jobs], job'[p].project = job[p].project,
           \A q \in Processes \ {p} : job'[q] = job[q],
           to \notin {"idle", "load", "lock"} => pc[p] \notin {"idle", "load", "lock"},
           JobOK(p)', \A r \in Runs : ScanOK(p, r)'
    PROVE  IInv'
<1>1. TypeOK /\ ProcessInv
  BY DEF IInv
<1>2. /\ pc' \in [Processes -> Labels] /\ pc'[p] = to
      /\ lock' \in [Projects -> Processes \cup {Nobody}]
      /\ \A q \in Processes \ {p} : pc'[q] = pc[q] /\ job'[q] = job[q]
  BY <1>1 DEF TypeOK
<1>3. ASSUME NEW q \in Processes
      PROVE  HoldsLock(q)'
  <2>1. HoldsLock(q) /\ pc[q] \in Labels
    BY <1>1 DEF ProcessInv, TypeOK
  <2>2. CASE q = p
    BY <1>2, <2>1, <2>2 DEF HoldsLock
  <2>3. CASE q # p
    BY <1>2, <2>1, <2>3 DEF HoldsLock
  <2> QED BY <2>2, <2>3
<1> QED BY <1>2, <1>3, QuietStep

LEMMA LoadSourceStep ==
    ASSUME IInv, NEW p \in Processes, LoadSource(p)
    PROVE  IInv'
<1>1. UNCHANGED <<store, receipts, published, history>> /\ pc[p] = "load"
  BY DEF LoadSource
<1>2. CASE Goto(p, "lock") /\ UNCHANGED <<lock, job>>
  <2>1. pc' = [pc EXCEPT ![p] = "lock"] /\ pc'[p] = "lock" /\ "lock" \in Labels \ Owning
    BY <1>2 DEF Goto, IInv, TypeOK, Labels, Deriving, Owning
  <2>2. JobOK(p)' /\ \A r \in Runs : ScanOK(p, r)'
    BY <1>1, <1>2, <2>1 DEF IInv, ProcessInv, JobOK, ScanOK, Deriving, Cleaning, store
  <2>3. job' \in [Processes -> Jobs] /\ job' = job
    BY <1>2 DEF IInv, TypeOK
  <2> QED BY <1>1, <1>2, <2>1, <2>2, <2>3, GotoStep
<1>3. CASE Return(p)
  BY <1>1, <1>3, ReturnStep
<1> QED BY <1>2, <1>3 DEF LoadSource

LEMMA LockDerivedStep ==
    ASSUME IInv, NEW p \in Processes, LockDerived(p)
    PROVE  IInv'
<1>1. /\ UNCHANGED <<store, receipts, published, history>> /\ job' = job
      /\ pc[p] = "lock" /\ pc' = [pc EXCEPT ![p] = "stage"]
      /\ TryAcquire(p, job[p].project)
  BY DEF LockDerived, Advance, Goto
<1>2. TypeOK /\ ProcessInv
  BY DEF IInv
<1>3. /\ pc' \in [Processes -> Labels] /\ pc'[p] = "stage" /\ job' \in [Processes -> Jobs]
      /\ \A q \in Processes \ {p} : pc'[q] = pc[q] /\ job'[q] = job[q]
  BY <1>1, <1>2 DEF TypeOK, Labels, Deriving
<1>4. JobOK(p)' /\ pc'[p] \notin Owning /\ \A r \in Runs : ScanOK(p, r)'
  BY <1>1, <1>2, <1>3 DEF ProcessInv, JobOK, ScanOK, Deriving, Cleaning, Owning
<1>5. job[p].project \in Projects
  BY <1>1, <1>2 DEF ProcessInv, JobOK, Deriving
<1> QED BY <1>1, <1>2, <1>3, <1>4, <1>5, LocksTaken, QuietStep

LEMMA RefuseStagingStep ==
    ASSUME IInv, NEW p \in Processes, RefuseStaging(p)
    PROVE  IInv'
<1>1. UNCHANGED <<store, receipts, published, history>> /\ pc[p] = "guard"
  BY DEF RefuseStaging
<1>2. CASE Goto(p, "stat") /\ UNCHANGED <<lock, job>>
  <2>1. pc' = [pc EXCEPT ![p] = "stat"] /\ pc'[p] = "stat" /\ "stat" \in Labels \ Owning
    BY <1>2 DEF Goto, IInv, TypeOK, Labels, Cleaning, Owning
  <2>2. JobOK(p)' /\ \A r \in Runs : ScanOK(p, r)'
    BY <1>1, <1>2, <2>1
       DEF IInv, ProcessInv, JobOK, ScanOK, Deriving, Cleaning, Owning, store
  <2>3. job' \in [Processes -> Jobs] /\ job' = job
    BY <1>2 DEF IInv, TypeOK
  <2> QED BY <1>1, <1>2, <2>1, <2>2, <2>3, GotoStep
<1>3. CASE Return(p)
  BY <1>1, <1>3, ReturnStep
<1> QED BY <1>2, <1>3 DEF RefuseStaging

\* The siblings to look at are those that have their final names now.
LEMMA VerifyTargetStep ==
    ASSUME IInv, NEW p \in Processes, VerifyTarget(p)
    PROVE  IInv'
<1> DEFINE moved == [job[p] EXCEPT
                        !.scan = {x \in Runs : name[x] = "final"} \ {job[p].run}]
<1>0. TypeOK /\ ProcessInv /\ job[p] \in Jobs
  BY DEF IInv, TypeOK
<1>1. UNCHANGED <<store, receipts, published, history>> /\ pc[p] = "stat"
  BY DEF VerifyTarget
<1>2. CASE /\ Verified(job[p].run) /\ Goto(p, "scan")
           /\ job' = [job EXCEPT ![p].scan = {x \in Runs : name[x] = "final"} \ {job[p].run}]
           /\ UNCHANGED lock
  <2>1. pc' = [pc EXCEPT ![p] = "scan"] /\ pc'[p] = "scan" /\ "scan" \in Labels \ Owning
    BY <1>0, <1>2 DEF Goto, TypeOK, Labels, Cleaning, Owning
  <2>2. /\ moved \in Jobs /\ moved.run = job[p].run /\ moved.project = job[p].project
        /\ moved.scan = {x \in Runs : name[x] = "final"} \ {job[p].run}
    BY <1>0 DEF Jobs
  <2>3. job' = [job EXCEPT ![p] = moved]
    BY <1>2
  <2> HIDE DEF moved
  <2>4. /\ job' \in [Processes -> Jobs] /\ job'[p] = moved
        /\ \A q \in Processes \ {p} : job'[q] = job[q]
    BY <1>0, <2>2, <2>3 DEF TypeOK
  <2>5. job[p].run \in Runs /\ manifest[job[p].run].complete
    BY <1>0, <1>1, <1>2, VerifiedIs DEF ProcessInv, JobOK, Cleaning
  <2>6. JobOK(p)'
    BY <1>1, <2>1, <2>2, <2>4, <2>5 DEF JobOK, Deriving, Cleaning, Owning, store
  <2>7. ASSUME NEW r \in Runs
        PROVE  ScanOK(p, r)'
    BY <1>1, <2>1, <2>2, <2>4 DEF ScanOK, store
  <2> QED BY <1>1, <1>2, <2>1, <2>2, <2>4, <2>6, <2>7, GotoStep
<1>3. CASE Return(p)
  BY <1>1, <1>3, ReturnStep
<1> QED BY <1>2, <1>3 DEF VerifyTarget

\* A descendant of the target ends the cleanup, and is not passed over.
LEMMA ScanSiblingStep ==
    ASSUME IInv, NEW p \in Processes, NEW x \in Runs, ScanSibling(p, x)
    PROVE  IInv'
<1> DEFINE moved == [job[p] EXCEPT !.scan = @ \ {x}]
<1>0. TypeOK /\ ProcessInv /\ job[p] \in Jobs
  BY DEF IInv, TypeOK
<1>1. UNCHANGED <<store, receipts, published, history>> /\ pc[p] = "scan"
  BY DEF ScanSibling
<1>2. CASE /\ ~Refers(x, job[p].run) /\ job' = [job EXCEPT ![p].scan = @ \ {x}]
           /\ UNCHANGED <<pc, lock>>
  <2>1. pc' = [pc EXCEPT ![p] = "scan"] /\ pc'[p] = "scan" /\ "scan" \in Labels \ Owning
    BY <1>0, <1>1, <1>2 DEF TypeOK, Labels, Cleaning, Owning
  <2>2. /\ moved \in Jobs /\ moved.run = job[p].run /\ moved.project = job[p].project
        /\ moved.scan = job[p].scan \ {x}
    BY <1>0 DEF Jobs
  <2>3. job' = [job EXCEPT ![p] = moved]
    BY <1>2
  <2> HIDE DEF moved
  <2>4. /\ job' \in [Processes -> Jobs] /\ job'[p] = moved
        /\ \A q \in Processes \ {p} : job'[q] = job[q]
    BY <1>0, <2>2, <2>3 DEF TypeOK
  <2>5. JobOK(p)'
    BY <1>0, <1>1, <2>1, <2>2, <2>4
       DEF ProcessInv, JobOK, Deriving, Cleaning, Owning, store
  <2>6. ASSUME NEW r \in Runs
        PROVE  ScanOK(p, r)'
    <3>1. SUFFICES ASSUME Descendant(r), name[r] = "final",
                          manifest[r].source = job[p].run,
                          manifest[r].project = job[p].project, r # job[p].run
                   PROVE  r \in job[p].scan \ {x}
      BY <1>1, <2>1, <2>2, <2>4 DEF ScanOK, Descendant, store, history
    <3>2. r \in job[p].scan
      BY <1>1, <3>1 DEF IInv, ScanInv, ScanOK
    <3>3. Verified(r)
      BY <3>1, WholeVerifies DEF Descendant, IInv, RunInv, RunOK
    <3> QED BY <1>2, <3>1, <3>2, <3>3 DEF Refers, References
  <2> QED BY <1>1, <1>2, <2>1, <2>2, <2>4, <2>5, <2>6, GotoStep
<1>3. CASE Return(p)
  BY <1>1, <1>3, ReturnStep
<1> QED BY <1>2, <1>3 DEF ScanSibling

LEMMA FailStep ==
    ASSUME IInv, NEW p \in Processes, Fail(p)
    PROVE  IInv'
BY ReturnStep DEF Fail

-----------------------------------------------------------------------------
(* The steps of a run.                                                       *)

\* The run is another than all that a command works on or that has a manifest.
LEMMA CreateStagingStep ==
    ASSUME IInv, NEW p \in Processes, NEW r \in Runs, CreateStaging(p, r)
    PROVE  IInv'
<1> DEFINE moved == [job[p] EXCEPT !.run = r]
<1>0. /\ TypeOK /\ ProcessInv /\ RunInv /\ ScanInv /\ job[p] \in Jobs
  BY DEF IInv, TypeOK
<1>1. /\ pc[p] = "stage" /\ pc' = [pc EXCEPT ![p] = "write"]
      /\ stable[r] = {"none"} /\ manifest[r] = NoManifest
      /\ name' = [name EXCEPT ![r] = "staging"]
      /\ stable' = [x \in Runs |-> {name'[x]}]
      /\ job' = [job EXCEPT ![p].run = r]
      /\ lateSource' = IF job[p].kind # "campaign" /\ ~Verified(job[p].source)
                       THEN lateSource \cup {r} ELSE lateSource
      /\ UNCHANGED <<files, manifest, lock, receipts, published, removedBy>>
  BY DEF CreateStaging, Advance, Goto
<1>2. /\ moved \in Jobs /\ moved.run = r /\ moved.kind = job[p].kind
      /\ moved.project = job[p].project /\ moved.source = job[p].source
  BY <1>0 DEF Jobs
<1>3. job' = [job EXCEPT ![p] = moved]
  BY <1>1
<1> HIDE DEF moved
<1>4. /\ job' \in [Processes -> Jobs] /\ job'[p] = moved
      /\ pc' \in [Processes -> Labels] /\ pc'[p] = "write"
      /\ \A q \in Processes \ {p} : pc'[q] = pc[q] /\ job'[q] = job[q]
  BY <1>0, <1>1, <1>2, <1>3 DEF TypeOK, Labels, Deriving, Owning
<1>5. /\ name[r] = "none" /\ files[r] = {} /\ removedBy[r] = {}
      /\ ~manifest[r].complete /\ manifest[r].source = NoRun /\ manifest[r].kind = "none"
  BY <1>0, <1>1 DEF RunInv, RunOK, NoManifest
<1>6. /\ name' \in [Runs -> Names] /\ name'[r] = "staging" /\ stable'[r] = {"staging"}
      /\ stable' \in [Runs -> SUBSET Names]
      /\ \A x \in Runs \ {r} : name'[x] = name[x] /\ stable'[x] = {name[x]}
  BY <1>0, <1>1 DEF TypeOK, Names
<1>7. TypeOK'
  BY <1>0, <1>1, <1>4, <1>6 DEF TypeOK
<1>8. \A x \in Runs : Verified(x)' <=> Verified(x)
  <2>1. \A x \in Runs : name'[x] = "final" <=> name[x] = "final"
    BY <1>5, <1>6
  <2> QED BY <1>1, <2>1 DEF Verified, Listed, Collected, ManifestValid
<1>9. \A x \in Runs : Safe(x) => Safe(x)'
  <2>1. ASSUME NEW x \in Runs, Safe(x)
        PROVE  Safe(x)'
    <3>1. name[x] = "final" /\ x # r
      BY <1>5, <2>1, VerifiedIs DEF Safe
    <3> QED BY <1>6, <1>8, <2>1, <3>1 DEF Safe
  <2> QED BY <2>1
<1>10. \A q \in Processes : pc[q] \in Owning => job[q].run # r
  <2>1. \A q \in Processes : pc[q] \in Owning /\ job[q].run = r =>
            pc[q] \in {"publish", "published"} /\ job[q].kind = "none"
    BY <1>0, <1>1, <1>5 DEF ProcessInv, Owns, Bears, Owning
  <2> QED BY <1>0, <2>1 DEF ProcessInv, JobOK, Deriving
<1>11. ASSUME NEW q \in Processes
       PROVE  HoldsLock(q)' /\ JobOK(q)' /\ Owns(q)' /\ SourceKept(q)'
  <2>1. CASE q = p
    <3>1. HoldsLock(p)' /\ JobOK(p)' /\ Owns(p)'
      BY <1>0, <1>1, <1>2, <1>4, <1>5, <1>6
         DEF ProcessInv, HoldsLock, JobOK, Owns, Deriving, Cleaning, Owning, Labels
    <3>2. SourceKept(p)'
      <4>1. SUFFICES ASSUME job[p].source # NoRun, r \notin lateSource'
                     PROVE  Safe(job[p].source)'
        BY <1>2, <1>4 DEF SourceKept
      <4>2. job[p].kind # "campaign" /\ job[p].source \in Runs
        BY <1>0, <1>1, <4>1, Fields DEF ProcessInv, JobOK, Deriving
      <4>3. Verified(job[p].source)
        BY <1>1, <4>1, <4>2
      <4>4. name[job[p].source] = "final" /\ job[p].source # r
        BY <1>5, <4>3, VerifiedIs
      <4> QED BY <1>2, <1>4, <1>6, <1>8, <4>2, <4>3, <4>4 DEF Safe
    <3> QED BY <2>1, <3>1, <3>2
  <2>2. CASE q # p
    <3>0. /\ pc'[q] = pc[q] /\ job'[q] = job[q] /\ pc[q] \in Labels
          /\ HoldsLock(q) /\ JobOK(q) /\ Owns(q) /\ SourceKept(q)
      BY <1>0, <1>4, <2>2 DEF ProcessInv, TypeOK
    <3>1. HoldsLock(q)' /\ JobOK(q)'
      BY <1>1, <3>0 DEF HoldsLock, JobOK
    <3>2. Owns(q)'
      <4>1. pc[q] \in Owning => job[q].run \in Runs \ {r}
        BY <1>10, <3>0 DEF Owns
      <4> QED BY <1>1, <1>6, <3>0, <4>1 DEF Owns, Bears, Whole, Owning
    <3>3. SourceKept(q)'
      <4>1. SUFFICES ASSUME pc[q] = "write", job[q].source # NoRun,
                            job[q].run \notin lateSource',
                            removedBy[job[q].source] \subseteq {job[q].project}
                     PROVE  Safe(job[q].source)'
        BY <1>1, <3>0 DEF SourceKept
      <4>2. job[q].run \notin lateSource /\ job[q].source \in Runs
        BY <1>0, <1>1, <4>1, Fields
      <4> QED BY <1>9, <3>0, <4>1, <4>2 DEF SourceKept
    <3> QED BY <3>1, <3>2, <3>3
  <2> QED BY <2>1, <2>2
<1>12. OneOwner'
  <2>1. ASSUME NEW q \in Processes, NEW s \in Processes, pc'[q] \in Owning, pc'[s] \in Owning,
               job'[q].run = job'[s].run
        PROVE  q = s
    <3>1. CASE q # p /\ s # p
      BY <1>0, <1>4, <2>1, <3>1 DEF ProcessInv, OneOwner
    <3>2. CASE q = p \/ s = p
      BY <1>2, <1>4, <1>10, <2>1, <3>2
    <3> QED BY <3>1, <3>2
  <2> QED BY <2>1 DEF OneOwner
<1>13. ASSUME NEW x \in Runs
       PROVE  RunOK(x)' /\ PublishedOK(x)' /\ RemovedOK(x)' /\ DescendantOK(x)'
  <2>0. RunOK(x) /\ PublishedOK(x) /\ RemovedOK(x) /\ DescendantOK(x)
    BY <1>0 DEF RunInv
  <2>1. RunOK(x)'
    <3>1. CASE x = r
      BY <1>1, <1>5, <1>6, <3>1 DEF RunOK
    <3>2. CASE x # r
      BY <1>1, <1>6, <2>0, <3>2 DEF RunOK, Whole
    <3> QED BY <3>1, <3>2
  <2>2. PublishedOK(x)'
    BY <1>1, <1>9, <2>0 DEF PublishedOK
  <2>3. RemovedOK(x)'
    BY <1>1, <1>6, <2>0 DEF RemovedOK
  <2>4. DescendantOK(x)'
    <3>1. SUFFICES ASSUME Descendant(x)',
                          \/ name'[x] = "final"
                          \/ \E q \in Processes : pc'[q] = "publish" /\ job'[q].run = x,
                          removedBy[manifest[x].source] \subseteq {manifest[x].project}
                   PROVE  Safe(manifest[x].source)'
      BY <1>1 DEF DescendantOK
    <3>2. Descendant(x) /\ x # r /\ manifest[x].source \in Runs
      BY <1>0, <1>1, <1>5, <3>1, Fields DEF Descendant
    <3>3. name[x] = "final" \/ \E q \in Processes : pc[q] = "publish" /\ job[q].run = x
      BY <1>4, <1>6, <3>1, <3>2
    <3> QED BY <1>1, <1>9, <2>0, <3>1, <3>2, <3>3 DEF DescendantOK
  <2> QED BY <2>1, <2>2, <2>3, <2>4
<1>14. ASSUME NEW c \in Processes, NEW x \in Runs
       PROVE  ScanOK(c, x)'
  <2>1. CASE c = p
    BY <1>4, <2>1 DEF ScanOK
  <2>2. CASE c # p
    <3>1. Descendant(x)' /\ name'[x] = "final" => Descendant(x) /\ name[x] = "final"
      BY <1>1, <1>5, <1>6 DEF Descendant
    <3> QED BY <1>0, <1>1, <1>4, <2>2, <3>1 DEF ScanInv, ScanOK
  <2> QED BY <2>1, <2>2
<1>15. ProcessInv'
  BY <1>11, <1>12 DEF ProcessInv
<1> QED BY <1>7, <1>13, <1>14, <1>15 DEF IInv, RunInv, ScanInv

\* The predicates of a process whose step is another's, and of a run that is
\* not touched: they only ask what is known of their own run and source.
LEMMA Untouched ==
    ASSUME IInv, NEW r \in Runs,
           \A x \in Runs \ {r} :
              /\ name'[x] = name[x] /\ stable'[x] = stable[x] /\ files'[x] = files[x]
              /\ manifest'[x] = manifest[x],
           UNCHANGED <<receipts, published, removedBy>>
    PROVE  /\ \A x \in Runs \ {r} : Verified(x)' <=> Verified(x)
           /\ \A x \in Runs \ {r} : Safe(x)' <=> Safe(x)
           /\ \A x \in Runs \ {r} : RunOK(x)' /\ PublishedOK(x)' /\ RemovedOK(x)'
<1>1. ASSUME NEW x \in Runs \ {r}
      PROVE  /\ Verified(x)' <=> Verified(x)
             /\ Safe(x)' <=> Safe(x)
             /\ RunOK(x)' /\ PublishedOK(x)' /\ RemovedOK(x)'
  <2>1. Verified(x)' <=> Verified(x)
    BY DEF Verified, Listed, Collected, ManifestValid
  <2>2. Safe(x)' <=> Safe(x)
    BY <2>1 DEF Safe
  <2>3. RunOK(x) /\ PublishedOK(x) /\ RemovedOK(x)
    BY DEF IInv, RunInv
  <2>4. RunOK(x)' /\ PublishedOK(x)' /\ RemovedOK(x)'
    BY <2>2, <2>3 DEF RunOK, Whole, PublishedOK, RemovedOK
  <2> QED BY <2>1, <2>2, <2>4
<1> QED BY <1>1

LEMMA WriteFileStep ==
    ASSUME IInv, NEW p \in Processes, NEW f \in Content, WriteFile(p, f)
    PROVE  IInv'
<1> DEFINE r == job[p].run
<1>0. TypeOK /\ ProcessInv /\ RunInv /\ ScanInv
  BY DEF IInv
<1>1. /\ pc[p] = "write" /\ files' = [files EXCEPT ![r] = @ \cup {f}]
      /\ UNCHANGED <<name, stable, manifest, lock, pc, job, receipts, published, removedBy,
                     lateSource>>
  BY DEF WriteFile, history
<1>2. /\ r \in Runs /\ name[r] = "staging" /\ stable[r] = {"staging"} /\ removedBy[r] = {}
      /\ manifest[r] = NoManifest /\ files[r] \subseteq Content
  BY <1>0, <1>1 DEF ProcessInv, Owns, Owning
<1> HIDE DEF r
<1>3. /\ files'[r] = files[r] \cup {f} /\ files' \in [Runs -> SUBSET Files]
      /\ \A x \in Runs \ {r} : files'[x] = files[x]
  BY <1>0, <1>1, <1>2 DEF TypeOK, Files
<1>4. TypeOK'
  BY <1>0, <1>1, <1>3 DEF TypeOK
<1>5. \A x \in Runs : Safe(x) => x # r
  BY <1>2, VerifiedIs DEF Safe
<1>6. \A x \in Runs : Safe(x) => Safe(x)'
  BY <1>1, <1>2, <1>3, <1>5, Untouched
<1>7. ASSUME NEW q \in Processes
      PROVE  HoldsLock(q)' /\ JobOK(q)' /\ Owns(q)' /\ SourceKept(q)'
  <2>0. HoldsLock(q) /\ JobOK(q) /\ Owns(q) /\ SourceKept(q)
    BY <1>0 DEF ProcessInv
  <2>1. HoldsLock(q)' /\ JobOK(q)'
    BY <1>1, <2>0 DEF HoldsLock, JobOK
  <2>2. Owns(q)'
    <3>1. CASE pc[q] \in Owning /\ job[q].run = r
      <4>1. q = p
        BY <1>0, <1>1, <3>1 DEF ProcessInv, OneOwner, Owning, r
      <4> QED BY <1>1, <1>2, <1>3, <2>0, <4>1 DEF Owns, r
    <3>2. CASE ~(pc[q] \in Owning /\ job[q].run = r)
      BY <1>1, <1>3, <2>0, <3>2 DEF Owns, Owning, Bears, Whole
    <3> QED BY <3>1, <3>2
  <2>3. SourceKept(q)'
    <3>1. job[q].source \in Runs \cup {NoRun}
      BY <1>0, Fields
    <3> QED BY <1>1, <1>6, <2>0, <3>1 DEF SourceKept
  <2> QED BY <2>1, <2>2, <2>3
<1>8. OneOwner'
  BY <1>0, <1>1 DEF ProcessInv, OneOwner
<1>9. ASSUME NEW x \in Runs
      PROVE  RunOK(x)' /\ PublishedOK(x)' /\ RemovedOK(x)' /\ DescendantOK(x)'
  <2>1. CASE x = r
    BY <1>0, <1>1, <1>2, <1>3, <1>5, <2>1
       DEF RunInv, RunOK, PublishedOK, RemovedOK, DescendantOK, Descendant, NoManifest
  <2>2. CASE x # r
    <3>1. RunOK(x)' /\ PublishedOK(x)' /\ RemovedOK(x)'
      BY <1>1, <1>2, <1>3, <2>2, Untouched
    <3>2. DescendantOK(x)'
      <4>1. manifest[x].source \in Runs \cup {NoRun}
        BY <1>0, Fields
      <4> QED BY <1>0, <1>1, <1>6, <4>1 DEF RunInv, DescendantOK, Descendant
    <3> QED BY <3>1, <3>2
  <2> QED BY <2>1, <2>2
<1>10. ScanInv'
  BY <1>0, <1>1 DEF ScanInv, ScanOK, Descendant
<1>11. ProcessInv'
  BY <1>7, <1>8 DEF ProcessInv
<1> QED BY <1>4, <1>9, <1>10, <1>11 DEF IInv, RunInv

\* The manifest is written last, and of the files that are there.
LEMMA WriteManifestStep ==
    ASSUME IInv, NEW p \in Processes, NEW complete \in BOOLEAN, WriteManifest(p, complete)
    PROVE  IInv'
<1>0. TypeOK /\ ProcessInv /\ RunInv /\ ScanInv
  BY DEF IInv
<1>a. pc[p] = "write" /\ job[p].run \in Runs
  BY <1>0 DEF WriteManifest, Advance, ProcessInv, Owns, Owning
<1>b. PICK r \in Runs, made \in {ManifestOf(p, complete)} : r = job[p].run
  BY <1>a
<1>1. /\ pc[p] = "write" /\ pc' = [pc EXCEPT ![p] = "publish"]
      /\ complete => HasRequired(r)
      /\ manifest' = [manifest EXCEPT ![r] = made]
      /\ files' = [files EXCEPT ![r] = @ \cup Structural]
      /\ UNCHANGED <<name, stable, lock, job, receipts, published, removedBy, lateSource>>
  BY <1>b DEF WriteManifest, Advance, Goto, history, Structural
<1>2. /\ r \in Runs /\ name[r] = "staging" /\ stable[r] = {"staging"} /\ removedBy[r] = {}
      /\ manifest[r] = NoManifest /\ files[r] \subseteq Content
      /\ ~manifest[r].complete
  <2>1. Owns(p) /\ NoManifest.complete = FALSE
    BY <1>0 DEF ProcessInv, NoManifest
  <2>2. /\ name[r] = "staging" /\ stable[r] = {"staging"} /\ removedBy[r] = {}
        /\ manifest[r] = NoManifest /\ files[r] \subseteq Content
    BY <1>1, <1>b, <2>1 DEF Owns
  <2> QED BY <2>1, <2>2
<1>3. /\ made.kind = job[p].kind /\ made.source = job[p].source
      /\ made.project = job[p].project /\ made.required = files[r]
      /\ made.complete = complete /\ made \in Manifests
  <2>1. /\ job[p].kind \in Kinds /\ job[p].source \in Runs \cup {NoRun}
        /\ job[p].project \in Projects \cup {Nobody} /\ files[r] \subseteq Files
    BY <1>0, <1>2, Fields
  <2> QED BY <1>b, <2>1 DEF ManifestOf, Collected, Manifests
<1>4. /\ files'[r] = files[r] \cup Structural /\ files' \in [Runs -> SUBSET Files]
      /\ manifest'[r] = made /\ manifest' \in [Runs -> Manifests]
      /\ pc' \in [Processes -> Labels] /\ pc'[p] = "publish"
      /\ \A q \in Processes \ {p} : pc'[q] = pc[q]
      /\ \A x \in Runs \ {r} : files'[x] = files[x] /\ manifest'[x] = manifest[x]
  BY <1>0, <1>1, <1>2, <1>3 DEF TypeOK, Files, Structural, Labels, Deriving, Owning
<1>5. TypeOK'
  BY <1>0, <1>1, <1>4 DEF TypeOK
<1>6. \A x \in Runs : Safe(x) => x # r
  BY <1>2, VerifiedIs DEF Safe
<1>7. \A x \in Runs : Safe(x) => Safe(x)'
  BY <1>1, <1>2, <1>4, <1>6, Untouched
<1>8. complete => files[r] = Content
  BY <1>1, <1>2 DEF HasRequired
<1>9. made.source = NoRun <=> made.kind = "campaign"
  BY <1>0, <1>1, <1>3 DEF ProcessInv, JobOK, Deriving, Owning
<1>10. \A q \in Processes : pc[q] \in Owning /\ job[q].run = r => q = p
  BY <1>0, <1>1, <1>b DEF ProcessInv, OneOwner, Owning
<1>11. ASSUME NEW q \in Processes
       PROVE  HoldsLock(q)' /\ JobOK(q)' /\ Owns(q)' /\ SourceKept(q)'
  <2>0. HoldsLock(q) /\ JobOK(q) /\ Owns(q) /\ SourceKept(q)
    BY <1>0 DEF ProcessInv
  <2>1. CASE q = p
    BY <1>0, <1>1, <1>2, <1>3, <1>4, <1>b, <2>0, <2>1
       DEF HoldsLock, JobOK, Owns, SourceKept, Bears, Whole, Deriving, Cleaning, Owning,
           Labels
  <2>2. CASE q # p
    <3>1. HoldsLock(q)'
      BY <1>1, <1>4, <2>0, <2>2 DEF HoldsLock
    <3>2. JobOK(q)'
      BY <1>1, <1>2, <1>4, <2>0, <2>2 DEF JobOK, Cleaning
    <3>3. Owns(q)'
      <4>1. pc[q] \in Owning => job[q].run \in Runs \ {r}
        BY <1>10, <2>0, <2>2 DEF Owns
      <4> QED BY <1>1, <1>4, <2>0, <2>2, <4>1 DEF Owns, Bears, Whole, Owning
    <3>4. SourceKept(q)'
      <4>1. job[q].source \in Runs \cup {NoRun}
        BY <1>0, Fields
      <4> QED BY <1>1, <1>4, <1>7, <2>0, <2>2, <4>1 DEF SourceKept
    <3> QED BY <3>1, <3>2, <3>3, <3>4
  <2> QED BY <2>1, <2>2
<1>12. OneOwner'
  BY <1>0, <1>1, <1>4 DEF ProcessInv, OneOwner, Owning
<1>13. ASSUME NEW x \in Runs
       PROVE  RunOK(x)' /\ PublishedOK(x)' /\ RemovedOK(x)' /\ DescendantOK(x)'
  <2>1. CASE x = r
    <3>1. RunOK(r)'
      <4>1. made # NoManifest
        BY <1>0, <1>1, <1>3 DEF ProcessInv, JobOK, Deriving, Owning, NoManifest
      <4> QED BY <1>0, <1>1, <1>2, <1>3, <1>4, <1>8, <1>9, <4>1 DEF RunInv, RunOK
    <3>2. PublishedOK(r)' /\ RemovedOK(r)'
      BY <1>0, <1>1, <1>2, <1>6 DEF RunInv, PublishedOK, RemovedOK
    <3>3. DescendantOK(r)'
      <4>1. SUFFICES ASSUME made.source # NoRun, r \notin lateSource,
                            removedBy[made.source] \subseteq {made.project}
                     PROVE  Safe(made.source)'
        BY <1>1, <1>4 DEF DescendantOK, Descendant
      <4>2. Safe(job[p].source)
        BY <1>0, <1>1, <1>3, <1>b, <4>1 DEF ProcessInv, SourceKept
      <4>3. job[p].source \in Runs
        BY <1>0, <1>3, <4>1, Fields
      <4>4. PICK s \in Runs : s = job[p].source
        BY <4>3
      <4>5. Safe(s)'
        BY <1>7, <4>2, <4>4
      <4>6. job'[p] = job[p] /\ manifest'[r].source = s
        BY <1>1, <1>3, <1>4, <4>4
      <4> QED BY <4>5, <4>6, <1>3, <1>4
    <3> QED BY <2>1, <3>1, <3>2, <3>3
  <2>2. CASE x # r
    <3>1. RunOK(x)' /\ PublishedOK(x)' /\ RemovedOK(x)'
      BY <1>1, <1>2, <1>4, <2>2, Untouched
    <3>2. DescendantOK(x)'
      <4>1. manifest[x].source \in Runs \cup {NoRun}
        BY <1>0, Fields
      <4>2. \A q \in Processes : pc'[q] = "publish" /\ job[q].run = x => pc[q] = "publish"
        BY <1>4, <1>b, <2>2
      <4> QED BY <1>0, <1>1, <1>4, <1>7, <2>2, <4>1, <4>2 DEF RunInv, DescendantOK, Descendant
    <3> QED BY <3>1, <3>2
  <2> QED BY <2>1, <2>2
<1>14. ASSUME NEW c \in Processes, NEW x \in Runs
       PROVE  ScanOK(c, x)'
  <2>1. CASE x = r
    BY <1>1, <1>2, <2>1 DEF ScanOK
  <2>2. CASE x # r
    BY <1>0, <1>1, <1>4, <2>2 DEF ScanInv, ScanOK, Descendant
  <2> QED BY <2>1, <2>2
<1>15. ProcessInv'
  BY <1>11, <1>12 DEF ProcessInv
<1> QED BY <1>5, <1>13, <1>14, <1>15 DEF IInv, RunInv, ScanInv

\* A descendant takes its final name while nobody of its project cleans up.
LEMMA PublishStep ==
    ASSUME IInv, NEW p \in Processes, Publish(p)
    PROVE  IInv'
<1>0. TypeOK /\ ProcessInv /\ RunInv /\ ScanInv
  BY DEF IInv
<1>a. pc[p] = "publish" /\ job[p].run \in Runs
  BY <1>0 DEF Publish, Advance, ProcessInv, Owns, Owning
<1>b. PICK r \in Runs : r = job[p].run
  BY <1>a
<1>1. /\ pc[p] = "publish" /\ pc' = [pc EXCEPT ![p] = "published"]
      /\ name' = [name EXCEPT ![r] = "final"]
      /\ stable' = [stable EXCEPT ![r] = @ \cup {"final"}]
      /\ UNCHANGED <<files, manifest, lock, job, receipts, published, removedBy, lateSource>>
  BY <1>b DEF Publish, Advance, Goto, history, Rename
<1>2. /\ name[r] = "staging" /\ stable[r] = {"staging"} /\ removedBy[r] = {}
      /\ Bears(p, r) /\ Whole(r)
  <2>1. Owns(p)
    BY <1>0 DEF ProcessInv
  <2> QED BY <1>1, <1>b, <2>1 DEF Owns
<1>3. /\ name' \in [Runs -> Names] /\ name'[r] = "final"
      /\ stable' \in [Runs -> SUBSET Names] /\ stable'[r] = {"staging", "final"}
      /\ pc' \in [Processes -> Labels] /\ pc'[p] = "published"
      /\ \A q \in Processes \ {p} : pc'[q] = pc[q]
      /\ \A x \in Runs \ {r} : name'[x] = name[x] /\ stable'[x] = stable[x]
  BY <1>0, <1>1, <1>2 DEF TypeOK, Names, Labels, Deriving, Owning
<1>4. TypeOK'
  BY <1>0, <1>1, <1>3 DEF TypeOK
<1>5. \A x \in Runs : Safe(x) => x # r
  BY <1>2, VerifiedIs DEF Safe
<1>6. \A x \in Runs : Safe(x) => Safe(x)'
  BY <1>1, <1>2, <1>3, <1>5, Untouched
<1>7. \A q \in Processes : pc[q] \in Owning /\ job[q].run = r => q = p
  BY <1>0, <1>1, <1>b DEF ProcessInv, OneOwner, Owning
<1>8. ASSUME NEW q \in Processes
      PROVE  HoldsLock(q)' /\ JobOK(q)' /\ Owns(q)' /\ SourceKept(q)'
  <2>0. HoldsLock(q) /\ JobOK(q) /\ Owns(q) /\ SourceKept(q)
    BY <1>0 DEF ProcessInv
  <2>1. CASE q = p
    BY <1>1, <1>2, <1>3, <1>b, <2>0, <2>1
       DEF HoldsLock, JobOK, Owns, SourceKept, Bears, Deriving, Cleaning, Owning, Labels
  <2>2. CASE q # p
    <3>1. HoldsLock(q)' /\ JobOK(q)'
      BY <1>1, <1>3, <2>0, <2>2 DEF HoldsLock, JobOK
    <3>2. Owns(q)'
      <4>1. pc[q] \in Owning => job[q].run \in Runs \ {r}
        BY <1>7, <2>0, <2>2 DEF Owns
      <4> QED BY <1>1, <1>3, <2>0, <2>2, <4>1 DEF Owns, Bears, Whole, Owning
    <3>3. SourceKept(q)'
      <4>1. job[q].source \in Runs \cup {NoRun}
        BY <1>0, Fields
      <4> QED BY <1>1, <1>3, <1>6, <2>0, <2>2, <4>1 DEF SourceKept
    <3> QED BY <3>1, <3>2, <3>3
  <2> QED BY <2>1, <2>2
<1>9. OneOwner'
  BY <1>0, <1>1, <1>3 DEF ProcessInv, OneOwner, Owning
<1>10. ASSUME NEW x \in Runs
       PROVE  RunOK(x)' /\ PublishedOK(x)' /\ RemovedOK(x)' /\ DescendantOK(x)'
  <2>1. RunOK(x)' /\ PublishedOK(x)' /\ RemovedOK(x)'
    <3>1. CASE x = r
      <4>1. RunOK(r)'
        BY <1>0, <1>1, <1>2, <1>3 DEF RunInv, RunOK, Whole
      <4>2. PublishedOK(r)' /\ RemovedOK(r)'
        BY <1>0, <1>1, <1>2, <1>5 DEF RunInv, PublishedOK, RemovedOK
      <4> QED BY <3>1, <4>1, <4>2
    <3>2. CASE x # r
      BY <1>1, <1>2, <1>3, <3>2, Untouched
    <3> QED BY <3>1, <3>2
  <2>2. DescendantOK(x)'
    <3>1. manifest[x].source \in Runs \cup {NoRun}
      BY <1>0, Fields
    <3>2. \A q \in Processes : pc'[q] = "publish" => pc[q] = "publish"
      BY <1>3
    <3>3. name'[x] = "final" =>
            name[x] = "final" \/ \E q \in Processes : pc[q] = "publish" /\ job[q].run = x
      BY <1>1, <1>3, <1>b
    <3> QED BY <1>0, <1>1, <1>6, <3>1, <3>2, <3>3 DEF RunInv, DescendantOK, Descendant
  <2> QED BY <2>1, <2>2
<1>11. ASSUME NEW c \in Processes, NEW x \in Runs
       PROVE  ScanOK(c, x)'
  <2>1. pc'[c] \in {"scan", "remove"} => c # p /\ pc[c] = pc'[c]
    BY <1>3
  <2>2. CASE x = r
    <3>1. ASSUME manifest[r].project = job[c].project, pc[c] \in {"scan", "remove"}
          PROVE  c = p
      <4>1. job[c].project = job[p].project
        BY <1>2, <3>1 DEF Bears
      <4>2. /\ pc[c] \in Labels \ {"idle", "load", "lock"}
            /\ pc[p] \in Labels \ {"idle", "load", "lock"}
        BY <1>1, <3>1 DEF Labels, Deriving, Cleaning, Owning
      <4> QED BY <1>0, <4>1, <4>2, OneHolder
    <3> QED BY <1>1, <2>1, <2>2, <3>1 DEF ScanOK
  <2>3. CASE x # r
    BY <1>0, <1>1, <1>3, <2>1, <2>3 DEF ScanInv, ScanOK, Descendant
  <2> QED BY <2>2, <2>3
<1>12. ProcessInv'
  BY <1>8, <1>9 DEF ProcessInv
<1> QED BY <1>4, <1>10, <1>11, <1>12 DEF IInv, RunInv, ScanInv

-----------------------------------------------------------------------------
(* The reports, which synchronise the base.                                  *)

\* What was safe stays so, and what was known of a run whose name is kept.
LEMMA SyncReturn ==
    ASSUME IInv, NEW p \in Processes, Return(p), BaseSynced,
           UNCHANGED <<name, files, manifest, history>>,
           receipts' \subseteq Runs, published' \subseteq Runs,
           \A x \in Runs : PublishedOK(x)' /\ RemovedOK(x)'
    PROVE  IInv'
<1>0. TypeOK /\ ProcessInv /\ RunInv /\ ScanInv
  BY DEF IInv
<1>1. /\ stable' = [r \in Runs |-> {name[r]}]
      /\ UNCHANGED <<name, files, manifest, removedBy, lateSource>>
  BY DEF BaseSynced, history
<1>2. /\ pc' \in [Processes -> Labels] /\ job' \in [Processes -> Jobs]
      /\ lock' \in [Projects -> Processes \cup {Nobody}]
      /\ pc'[p] = "idle" /\ job'[p] = Idle
      /\ \A q \in Processes \ {p} : pc'[q] = pc[q] /\ job'[q] = job[q]
  BY <1>0, ReturnFields
<1>3. stable' \in [Runs -> SUBSET Names] /\ \A x \in Runs : stable'[x] = {name[x]}
  BY <1>0, <1>1 DEF TypeOK
<1>4. TypeOK'
  BY <1>0, <1>1, <1>2, <1>3 DEF TypeOK
<1>5. \A x \in Runs : Safe(x) => Safe(x)'
  <2>1. ASSUME NEW x \in Runs, Safe(x)
        PROVE  Safe(x)'
    <3>1. Verified(x) /\ name[x] = "final"
      BY <2>1, VerifiedIs DEF Safe
    <3>2. Verified(x)'
      BY <1>1, <3>1 DEF Verified, Listed, Collected, ManifestValid
    <3> QED BY <1>1, <1>3, <3>1, <3>2 DEF Safe
  <2> QED BY <2>1
<1>6. ASSUME NEW q \in Processes
      PROVE  HoldsLock(q)' /\ JobOK(q)' /\ Owns(q)' /\ SourceKept(q)'
  <2>1. HoldsLock(q)'
    BY <1>0, ReturnLocks
  <2>2. CASE q = p
    <3>1. JobOK(p)' /\ Owns(p)' /\ SourceKept(p)'
      BY <1>2 DEF JobOK, Owns, SourceKept, Deriving, Cleaning, Owning
    <3> QED BY <2>1, <2>2, <3>1
  <2>3. CASE q # p
    <3>0. /\ JobOK(q) /\ Owns(q) /\ SourceKept(q) /\ pc'[q] = pc[q] /\ job'[q] = job[q]
      BY <1>0, <1>2, <2>3 DEF ProcessInv
    <3>1. JobOK(q)'
      BY <1>1, <3>0 DEF JobOK
    <3>2. Owns(q)'
      BY <1>1, <1>3, <3>0 DEF Owns, Bears, Whole, Owning
    <3>3. SourceKept(q)'
      <4>1. job[q].source \in Runs \cup {NoRun}
        BY <1>0, Fields
      <4> QED BY <1>1, <1>5, <3>0, <4>1 DEF SourceKept
    <3> QED BY <2>1, <3>1, <3>2, <3>3
  <2> QED BY <2>2, <2>3
<1>7. OneOwner'
  BY <1>0, <1>2 DEF ProcessInv, OneOwner, Owning
<1>8. ASSUME NEW x \in Runs
      PROVE  RunOK(x)' /\ DescendantOK(x)'
  <2>1. RunOK(x)'
    BY <1>0, <1>1, <1>3 DEF RunInv, RunOK, Whole
  <2>2. DescendantOK(x)'
    <3>1. manifest[x].source \in Runs \cup {NoRun}
      BY <1>0, Fields
    <3>2. \A q \in Processes : pc'[q] = "publish" => pc[q] = "publish" /\ job'[q] = job[q]
      BY <1>2
    <3> QED BY <1>0, <1>1, <1>5, <3>1, <3>2 DEF RunInv, DescendantOK, Descendant
  <2> QED BY <2>1, <2>2
<1>9. ASSUME NEW c \in Processes, NEW x \in Runs
      PROVE  ScanOK(c, x)'
  <2>1. CASE c = p
    BY <1>2, <2>1 DEF ScanOK
  <2>2. CASE c # p
    BY <1>0, <1>1, <1>2, <2>2 DEF ScanInv, ScanOK, Descendant
  <2> QED BY <2>1, <2>2
<1>10. ProcessInv'
  BY <1>6, <1>7 DEF ProcessInv
<1> QED BY <1>4, <1>8, <1>9, <1>10 DEF IInv, RunInv, ScanInv

\* A run whose entries are synchronised keeps being safe and being removed.
LEMMA SyncKeeps ==
    ASSUME IInv, BaseSynced, UNCHANGED <<name, files, manifest, removedBy>>, NEW x \in Runs
    PROVE  /\ Verified(x) => Safe(x)'
           /\ x \in receipts =>
                 name'[x] = "none" /\ stable'[x] = {"none"} /\ manifest'[x] # NoManifest
<1>1. stable'[x] = {name[x]} /\ Verified(x)' <=> Verified(x)
  BY DEF BaseSynced, Verified, Listed, Collected, ManifestValid
<1>2. Verified(x) => Safe(x)'
  BY <1>1, VerifiedIs DEF Safe, BaseSynced
<1> QED BY <1>1, <1>2 DEF IInv, RunInv, RemovedOK, BaseSynced

LEMMA ReportPublishedStep ==
    ASSUME IInv, NEW p \in Processes, ReportPublished(p)
    PROVE  IInv'
<1>0. TypeOK /\ ProcessInv /\ RunInv
  BY DEF IInv
<1>1. /\ pc[p] = "published" /\ BaseSynced /\ Return(p)
      /\ published' = IF manifest[job[p].run].complete
                      THEN published \cup {job[p].run} ELSE published
      /\ UNCHANGED <<name, files, manifest, receipts, history>> /\ removedBy' = removedBy
  BY DEF ReportPublished, SyncPublished, history
<1>2. PICK r \in Runs : r = job[p].run
  BY <1>0, <1>1 DEF ProcessInv, Owns, Owning
<1>3. manifest[r].complete /\ removedBy[r] = {} => Verified(r)
  <2>1. removedBy[r] = {} => name[r] = "final"
    BY <1>0, <1>1, <1>2 DEF ProcessInv, Owns
  <2> QED BY <1>0, <2>1, WholeVerifies DEF RunInv, RunOK
<1>4. ASSUME NEW x \in Runs
      PROVE  PublishedOK(x)' /\ RemovedOK(x)'
  <2>1. x \in published' /\ removedBy[x] = {} => Verified(x)
    BY <1>0, <1>1, <1>2, <1>3 DEF RunInv, PublishedOK, Safe
  <2> QED BY <1>1, <2>1, SyncKeeps DEF PublishedOK, RemovedOK
<1>5. receipts' \subseteq Runs /\ published' \subseteq Runs
  BY <1>0, <1>1, <1>2 DEF TypeOK
<1> QED BY <1>1, <1>4, <1>5, SyncReturn

LEMMA ReportRemovedStep ==
    ASSUME IInv, NEW p \in Processes, ReportRemoved(p)
    PROVE  IInv'
<1>0. TypeOK /\ ProcessInv /\ RunInv
  BY DEF IInv
<1>1. /\ pc[p] = "removed" /\ BaseSynced /\ Return(p)
      /\ receipts' = IF name[job[p].run] = "none"
                     THEN receipts \cup {job[p].run} ELSE receipts
      /\ UNCHANGED <<name, files, manifest, published, history>> /\ removedBy' = removedBy
  BY DEF ReportRemoved, SyncRemoved, history
<1>2. PICK r \in Runs : r = job[p].run
  BY <1>0, <1>1 DEF ProcessInv, JobOK, Cleaning
<1>3. manifest[r] # NoManifest
  BY <1>0, <1>1, <1>2 DEF ProcessInv, JobOK, NoManifest
<1>4. ASSUME NEW x \in Runs
      PROVE  PublishedOK(x)' /\ RemovedOK(x)'
  <2>1. PublishedOK(x)'
    BY <1>0, <1>1, SyncKeeps DEF RunInv, PublishedOK, Safe
  <2>2. x \in receipts' => x \in receipts \/ (x = r /\ name[r] = "none")
    BY <1>1, <1>2
  <2>3. name[r] = "none" => stable'[r] = {"none"}
    BY <1>1 DEF BaseSynced
  <2>4. RemovedOK(x)'
    BY <1>1, <1>3, <2>2, <2>3, SyncKeeps DEF RemovedOK
  <2> QED BY <2>1, <2>4
<1>5. receipts' \subseteq Runs /\ published' \subseteq Runs
  BY <1>0, <1>1, <1>2 DEF TypeOK
<1> QED BY <1>1, <1>4, <1>5, SyncReturn

-----------------------------------------------------------------------------
(* The steps of a cleanup and the power loss.                                *)

\* A removal begins when every descendant has been looked at.
LEMMA StatAgainStep ==
    ASSUME IInv, NEW p \in Processes, StatAgain(p)
    PROVE  IInv'
<1>0. TypeOK /\ ProcessInv /\ RunInv /\ ScanInv
  BY DEF IInv
<1>a. /\ pc[p] = "scan" /\ job[p].scan = {}
      /\ UNCHANGED <<store, receipts, published, lateSource>>
      /\ UNCHANGED <<name, stable, files, manifest>>
  BY DEF StatAgain, store
<1>b. PICK r \in Runs : r = job[p].run
  BY <1>0, <1>a DEF ProcessInv, JobOK, Cleaning
<1>c. CASE Return(p) /\ UNCHANGED removedBy
  BY <1>a, <1>c, ReturnStep DEF history
<1>d. CASE /\ name[r] = "final" /\ Goto(p, "remove") /\ UNCHANGED <<lock, job>>
           /\ removedBy' = [removedBy EXCEPT ![r] = @ \cup {job[p].project}]
  <2>1. /\ name[r] = "final" /\ UNCHANGED <<lock, job>> /\ job[p].project \in Projects
        /\ pc' \in [Processes -> Labels] /\ pc'[p] = "remove"
        /\ \A q \in Processes \ {p} : pc'[q] = pc[q]
        /\ removedBy'[r] = removedBy[r] \cup {job[p].project}
        /\ \A x \in Runs \ {r} : removedBy'[x] = removedBy[x]
    BY <1>0, <1>a, <1>d
       DEF Goto, TypeOK, Labels, Deriving, Cleaning, Owning, ProcessInv, HoldsLock
  <2>2. removedBy' \in [Runs -> SUBSET Projects]
    BY <1>0, <1>d, <2>1 DEF TypeOK
  <2>3. TypeOK'
    BY <1>0, <1>a, <2>1, <2>2 DEF TypeOK
  <2>4. \A x \in Runs : removedBy[x] \subseteq removedBy'[x]
    BY <2>1
  <2>5. \A x : Safe(x) => Safe(x)'
    BY <1>a DEF Safe, Verified, Listed, Collected, ManifestValid
  <2>6. ASSUME NEW q \in Processes
        PROVE  HoldsLock(q)' /\ JobOK(q)' /\ Owns(q)' /\ SourceKept(q)'
    <3>0. HoldsLock(q) /\ JobOK(q) /\ Owns(q) /\ SourceKept(q)
      BY <1>0 DEF ProcessInv
    <3>1. CASE q = p
      <4>1. HoldsLock(p)'
        BY <1>a, <2>1, <3>0, <3>1 DEF HoldsLock, Labels, Deriving, Cleaning, Owning
      <4>2. JobOK(p)'
        <5>1. manifest[r].complete
          BY <1>a, <1>b, <3>0, <3>1 DEF JobOK
        <5> QED BY <1>a, <1>b, <2>1, <5>1 DEF JobOK, Deriving, Owning
      <4>3. Owns(p)' /\ SourceKept(p)'
        BY <2>1 DEF Owns, SourceKept, Owning
      <4> QED BY <3>1, <4>1, <4>2, <4>3
    <3>2. CASE q # p
      <4>1. HoldsLock(q)'
        BY <1>a, <2>1, <3>0, <3>2 DEF HoldsLock
      <4>2. JobOK(q)'
        BY <1>a, <2>1, <2>4, <3>0, <3>2 DEF JobOK, Cleaning
      <4>3. Owns(q)'
        <5>1. pc[q] \in {"write", "publish"} => job[q].run \in Runs \ {r}
          BY <2>1, <3>0 DEF Owns, Owning
        <5>2. pc[q] \in Owning => job[q].run \in Runs
          BY <3>0 DEF Owns
        <5>3. pc[q] = "published" /\ removedBy'[job[q].run] = {} => removedBy[job[q].run] = {}
          BY <2>4, <5>2 DEF Owning
        <5> QED BY <1>a, <2>1, <3>0, <3>2, <5>1, <5>2, <5>3 DEF Owns, Bears, Whole, Owning
      <4>4. SourceKept(q)'
        <5>1. SUFFICES ASSUME pc[q] = "write", job[q].source # NoRun,
                              job[q].run \notin lateSource,
                              removedBy'[job[q].source] \subseteq {job[q].project}
                       PROVE  Safe(job[q].source)'
          BY <1>a, <2>1, <3>2 DEF SourceKept
        <5>2. job[q].source \in Runs
          BY <1>0, <5>1, Fields
        <5>3. Safe(job[q].source)
          BY <2>4, <3>0, <5>1, <5>2 DEF SourceKept
        <5> QED BY <2>1, <2>5, <5>3
      <4> QED BY <4>1, <4>2, <4>3, <4>4
    <3> QED BY <3>1, <3>2
  <2>7. OneOwner'
    BY <1>0, <2>1 DEF ProcessInv, OneOwner, Owning
  <2>8. ASSUME NEW x \in Runs
        PROVE  RunOK(x)' /\ PublishedOK(x)' /\ RemovedOK(x)' /\ DescendantOK(x)'
    <3>0. RunOK(x) /\ PublishedOK(x) /\ RemovedOK(x) /\ DescendantOK(x)
      BY <1>0 DEF RunInv
    <3>1. RunOK(x)'
      <4>1. manifest[r].complete
        BY <1>0, <1>a, <1>b DEF ProcessInv, JobOK
      <4>2. removedBy'[x] = {} => removedBy[x] = {}
        BY <2>4
      <4>3. removedBy[x] # {} => removedBy'[x] # {}
        BY <2>4
      <4>4. removedBy'[x] # {} => manifest[x].complete
        BY <2>1, <3>0, <4>1 DEF RunOK
      <4> QED BY <1>a, <3>0, <4>2, <4>3, <4>4 DEF RunOK, Whole
    <3>2. PublishedOK(x)' /\ RemovedOK(x)'
      BY <1>a, <2>4, <2>5, <3>0 DEF PublishedOK, RemovedOK
    <3>3. DescendantOK(x)'
      <4>1. manifest[x].source \in Runs \cup {NoRun}
        BY <1>0, Fields
      <4>2. \A q \in Processes : pc'[q] = "publish" => pc[q] = "publish"
        BY <2>1
      <4> QED BY <1>a, <2>1, <2>4, <2>5, <3>0, <4>1, <4>2 DEF DescendantOK, Descendant
    <3> QED BY <3>1, <3>2, <3>3
  <2>9. ASSUME NEW c \in Processes, NEW x \in Runs
        PROVE  ScanOK(c, x)'
    <3>0. ScanOK(c, x) /\ (Descendant(x)' => Descendant(x))
      BY <1>0, <1>a, <2>4 DEF ScanInv, Descendant
    <3>1. CASE c = p
      BY <1>a, <2>1, <3>0, <3>1 DEF ScanOK
    <3>2. CASE c # p
      BY <1>a, <2>1, <3>0, <3>2 DEF ScanOK
    <3> QED BY <3>1, <3>2
  <2>10. ProcessInv'
    BY <2>6, <2>7 DEF ProcessInv
  <2> QED BY <2>3, <2>8, <2>9, <2>10 DEF IInv, RunInv, ScanInv
<1> QED BY <1>b, <1>c, <1>d DEF StatAgain

\* What is removed is the source of no run of its project.
LEMMA RemovalIsFree ==
    ASSUME IInv, NEW p \in Processes, pc[p] = "remove", NEW r \in Runs, r = job[p].run
    PROVE  /\ manifest[r].complete /\ job[p].project \in removedBy[r]
           /\ \A q \in Processes :
                 /\ pc[q] \in {"write", "publish"} => job[q].run # r
                 /\ pc[q] \in {"write", "publish"} /\ removedBy[r] \subseteq {job[q].project} =>
                       job[q].source # r
           /\ \A x \in Runs :
                 Descendant(x) /\ name[x] = "final" /\ manifest[x].source = r =>
                    ~(removedBy[r] \subseteq {manifest[x].project})
<1>0. TypeOK /\ ProcessInv /\ ScanInv
  BY DEF IInv
<1>1. manifest[r].complete /\ job[p].project \in removedBy[r]
  BY <1>0 DEF ProcessInv, JobOK
<1>2. ASSUME NEW q \in Processes, pc[q] \in {"write", "publish"}
      PROVE  /\ job[q].run # r
             /\ removedBy[r] \subseteq {job[q].project} => job[q].source # r
  <2>1. job[q].run # r
    BY <1>0, <1>1, <1>2 DEF ProcessInv, Owns
  <2>2. job[q].project # job[p].project
    <3>1. /\ pc[q] \in Labels \ {"idle", "load", "lock"}
          /\ pc[p] \in Labels \ {"idle", "load", "lock"}
      BY <1>2 DEF Labels, Deriving, Cleaning, Owning
    <3> QED BY <1>0, <1>2, <3>1, OneHolder
  <2> QED BY <1>1, <2>1, <2>2
<1>3. ASSUME NEW x \in Runs, Descendant(x), name[x] = "final", manifest[x].source = r
      PROVE  ~(removedBy[r] \subseteq {manifest[x].project})
  <2>1. x # r
    BY <1>1, <1>3 DEF Descendant
  <2> QED BY <1>0, <1>1, <1>3, <2>1 DEF ScanInv, ScanOK
<1> QED BY <1>1, <1>2, <1>3

LEMMA RemoveFileStep ==
    ASSUME IInv, NEW p \in Processes, NEW f \in Files, RemoveFile(p, f)
    PROVE  IInv'
<1>0. TypeOK /\ ProcessInv /\ RunInv /\ ScanInv
  BY DEF IInv
<1>a. pc[p] = "remove" /\ job[p].run \in Runs
  BY <1>0 DEF RemoveFile, ProcessInv, JobOK, Cleaning
<1>b. PICK r \in Runs : r = job[p].run
  BY <1>a
<1>1. /\ files' = [files EXCEPT ![r] = @ \ {f}]
      /\ UNCHANGED <<name, stable, manifest, lock, pc, job, receipts, published, removedBy,
                     lateSource>>
  BY <1>b DEF RemoveFile, history
<1>2. /\ files'[r] = files[r] \ {f} /\ files' \in [Runs -> SUBSET Files]
      /\ \A x \in Runs \ {r} : files'[x] = files[x]
  BY <1>0, <1>1 DEF TypeOK
<1>3. /\ manifest[r].complete /\ removedBy[r] # {}
      /\ \A q \in Processes :
            /\ pc[q] \in {"write", "publish"} => job[q].run # r
            /\ pc[q] \in {"write", "publish"} /\ removedBy[r] \subseteq {job[q].project} =>
                  job[q].source # r
      /\ \A x \in Runs :
            Descendant(x) /\ name[x] = "final" /\ manifest[x].source = r =>
               ~(removedBy[r] \subseteq {manifest[x].project})
  BY <1>a, <1>b, RemovalIsFree
<1>4. TypeOK'
  BY <1>0, <1>1, <1>2 DEF TypeOK
<1>5. \A x \in Runs \ {r} : Safe(x) => Safe(x)'
  BY <1>1, <1>2, Untouched
<1>6. ASSUME NEW q \in Processes
      PROVE  HoldsLock(q)' /\ JobOK(q)' /\ Owns(q)' /\ SourceKept(q)'
  <2>0. HoldsLock(q) /\ JobOK(q) /\ Owns(q) /\ SourceKept(q)
    BY <1>0 DEF ProcessInv
  <2>1. HoldsLock(q)' /\ JobOK(q)'
    BY <1>1, <2>0 DEF HoldsLock, JobOK
  <2>2. Owns(q)'
    BY <1>1, <1>2, <1>3, <2>0 DEF Owns, Owning, Bears, Whole
  <2>3. SourceKept(q)'
    <3>1. SUFFICES ASSUME pc[q] = "write", job[q].source # NoRun,
                          job[q].run \notin lateSource,
                          removedBy[job[q].source] \subseteq {job[q].project}
                   PROVE  Safe(job[q].source)'
      BY <1>1 DEF SourceKept
    <3>2. job[q].source \in Runs \ {r}
      BY <1>0, <1>3, <3>1, Fields
    <3> QED BY <1>1, <1>5, <2>0, <3>1, <3>2 DEF SourceKept
  <2> QED BY <2>1, <2>2, <2>3
<1>7. OneOwner'
  BY <1>0, <1>1 DEF ProcessInv, OneOwner
<1>8. ASSUME NEW x \in Runs
      PROVE  RunOK(x)' /\ PublishedOK(x)' /\ RemovedOK(x)' /\ DescendantOK(x)'
  <2>1. RunOK(x)' /\ PublishedOK(x)' /\ RemovedOK(x)'
    <3>1. CASE x = r
      BY <1>0, <1>1, <1>2, <1>3, <3>1 DEF RunInv, RunOK, PublishedOK, RemovedOK, NoManifest
    <3>2. CASE x # r
      BY <1>1, <1>2, <3>2, Untouched
    <3> QED BY <3>1, <3>2
  <2>2. DescendantOK(x)'
    <3>1. SUFFICES ASSUME Descendant(x),
                          \/ name[x] = "final"
                          \/ \E q \in Processes : pc[q] = "publish" /\ job[q].run = x,
                          removedBy[manifest[x].source] \subseteq {manifest[x].project}
                   PROVE  Safe(manifest[x].source)'
      BY <1>1 DEF DescendantOK, Descendant
    <3>2. ASSUME NEW q \in Processes, pc[q] = "publish", job[q].run = x
          PROVE  manifest[x].source # r
      <4>1. manifest[x].source = job[q].source /\ manifest[x].project = job[q].project
        BY <1>0, <3>2 DEF ProcessInv, Owns, Bears
      <4> QED BY <1>3, <3>1, <3>2, <4>1
    <3>3. manifest[x].source \in Runs \ {r}
      <4>1. manifest[x].source \in Runs
        BY <1>0, <3>1, Fields DEF Descendant
      <4> QED BY <1>3, <3>1, <3>2, <4>1
    <3>4. Safe(manifest[x].source)
      BY <1>0, <3>1 DEF RunInv, DescendantOK
    <3> QED BY <1>1, <1>5, <3>3, <3>4
  <2> QED BY <2>1, <2>2
<1>9. ScanInv'
  BY <1>0, <1>1 DEF ScanInv, ScanOK, Descendant
<1>10. ProcessInv'
  BY <1>6, <1>7 DEF ProcessInv
<1> QED BY <1>4, <1>8, <1>9, <1>10 DEF IInv, RunInv

LEMMA RemoveDirectoryStep ==
    ASSUME IInv, NEW p \in Processes, RemoveDirectory(p)
    PROVE  IInv'
<1>0. TypeOK /\ ProcessInv /\ RunInv /\ ScanInv
  BY DEF IInv
<1>a. /\ pc[p] = "remove" /\ UNCHANGED <<files, manifest, receipts, published, history>>
      /\ UNCHANGED <<removedBy, lateSource>>
  BY DEF RemoveDirectory, history
<1>b. PICK r \in Runs : r = job[p].run
  BY <1>0, <1>a DEF ProcessInv, JobOK, Cleaning
<1>c. files[r] = {}
  BY <1>b DEF RemoveDirectory
<1>d. CASE Return(p) /\ UNCHANGED <<name, stable>>
  BY <1>a, <1>d, ReturnStep DEF store
<1>e. CASE name[r] = "final" /\ Rename(r, "none") /\ Goto(p, "removed") /\ UNCHANGED <<lock, job>>
  <2>1. /\ name[r] = "final" /\ UNCHANGED <<lock, job>>
        /\ name' \in [Runs -> Names] /\ name'[r] = "none"
        /\ stable' \in [Runs -> SUBSET Names] /\ stable'[r] = stable[r] \cup {"none"}
        /\ pc' \in [Processes -> Labels] /\ pc'[p] = "removed"
        /\ \A q \in Processes \ {p} : pc'[q] = pc[q]
        /\ \A x \in Runs \ {r} : name'[x] = name[x] /\ stable'[x] = stable[x]
    BY <1>0, <1>e DEF Goto, Rename, TypeOK, Names, Labels, Cleaning
  <2>2. /\ manifest[r].complete /\ removedBy[r] # {}
        /\ job[p].project \in removedBy[r]
        /\ \A q \in Processes : pc[q] \in {"write", "publish"} => job[q].run # r
    BY <1>a, <1>b, RemovalIsFree
  <2>3. TypeOK'
    BY <1>0, <1>a, <2>1 DEF TypeOK
  <2>4. \A x \in Runs : Safe(x) => x # r
    BY <1>c, VerifiedIs DEF Safe
  <2>5. \A x \in Runs : Safe(x) => Safe(x)'
    BY <1>a, <2>1, <2>4, Untouched
  <2>6. ASSUME NEW q \in Processes
        PROVE  HoldsLock(q)' /\ JobOK(q)' /\ Owns(q)' /\ SourceKept(q)'
    <3>0. HoldsLock(q) /\ JobOK(q) /\ Owns(q) /\ SourceKept(q)
      BY <1>0 DEF ProcessInv
    <3>1. CASE q = p
      BY <1>a, <1>b, <2>1, <2>2, <3>0, <3>1
         DEF HoldsLock, JobOK, Owns, SourceKept, Deriving, Cleaning, Owning, Labels
    <3>2. CASE q # p
      <4>1. HoldsLock(q)' /\ JobOK(q)'
        BY <1>a, <2>1, <3>0, <3>2 DEF HoldsLock, JobOK
      <4>2. Owns(q)'
        BY <1>a, <2>1, <2>2, <3>0, <3>2 DEF Owns, Bears, Whole, Owning
      <4>3. SourceKept(q)'
        <5>1. job[q].source \in Runs \cup {NoRun}
          BY <1>0, Fields
        <5> QED BY <1>a, <2>1, <2>5, <3>0, <3>2, <5>1 DEF SourceKept
      <4> QED BY <4>1, <4>2, <4>3
    <3> QED BY <3>1, <3>2
  <2>7. OneOwner'
    BY <1>0, <2>1 DEF ProcessInv, OneOwner, Owning
  <2>8. ASSUME NEW x \in Runs
        PROVE  RunOK(x)' /\ PublishedOK(x)' /\ RemovedOK(x)' /\ DescendantOK(x)'
    <3>1. RunOK(x)' /\ PublishedOK(x)' /\ RemovedOK(x)'
      <4>1. CASE x = r
        BY <1>0, <1>a, <1>c, <2>1, <2>2, <4>1
           DEF RunInv, RunOK, PublishedOK, RemovedOK
      <4>2. CASE x # r
        BY <1>a, <2>1, <4>2, Untouched
      <4> QED BY <4>1, <4>2
    <3>2. DescendantOK(x)'
      <4>1. manifest[x].source \in Runs \cup {NoRun}
        BY <1>0, Fields
      <4>2. \A q \in Processes : pc'[q] = "publish" => pc[q] = "publish"
        BY <2>1
      <4>3. name'[x] = "final" => name[x] = "final"
        BY <2>1
      <4> QED BY <1>0, <1>a, <2>1, <2>5, <4>1, <4>2, <4>3
              DEF RunInv, DescendantOK, Descendant
    <3> QED BY <3>1, <3>2
  <2>9. ASSUME NEW c \in Processes, NEW x \in Runs
        PROVE  ScanOK(c, x)'
    <3>1. name'[x] = "final" => name[x] = "final"
      BY <2>1
    <3>2. pc'[c] \in {"scan", "remove"} => pc[c] = pc'[c]
      BY <2>1
    <3> QED BY <1>0, <1>a, <2>1, <3>1, <3>2 DEF ScanInv, ScanOK, Descendant
  <2>10. ProcessInv'
    BY <2>6, <2>7 DEF ProcessInv
  <2> QED BY <2>3, <2>8, <2>9, <2>10 DEF IInv, RunInv, ScanInv
<1> QED BY <1>a, <1>b, <1>d, <1>e DEF RemoveDirectory

\* What is synchronised is left by the power loss, and nobody goes on.
LEMMA PowerLossStep ==
    ASSUME IInv, PowerLoss
    PROVE  IInv'
<1>0. TypeOK /\ ProcessInv /\ RunInv
  BY DEF IInv
<1>1. /\ UNCHANGED <<manifest, receipts, published, removedBy, lateSource>>
      /\ \A x \in Runs : name'[x] \in stable[x] /\ stable'[x] = {name'[x]}
      /\ \A x \in Runs : files'[x] \in FilesAfterLoss(x, name'[x])
      /\ name' \in [Runs -> Names] /\ files' \in [Runs -> SUBSET Files]
      /\ stable' = [r \in Runs |-> {name'[r]}]
      /\ pc' = [p \in Processes |-> "idle"]
      /\ job' = [p \in Processes |-> Idle]
      /\ lock' = [p \in Projects |-> Nobody]
  BY DEF PowerLoss, history, Names
<1>2. TypeOK'
  <2>1. job' \in [Processes -> Jobs] /\ pc' \in [Processes -> Labels]
    BY <1>1, IdleType DEF Labels
  <2>2. stable' \in [Runs -> SUBSET Names] /\ lock' \in [Projects -> Processes \cup {Nobody}]
    BY <1>1
  <2> QED BY <1>0, <1>1, <2>1, <2>2 DEF TypeOK
<1>3. ASSUME NEW x \in Runs, name'[x] = "final", Whole(x)
      PROVE  files'[x] = files[x]
  BY <1>1, <1>3 DEF FilesAfterLoss, Whole, Structural
<1>4. ASSUME NEW x \in Runs, Safe(x)
      PROVE  Safe(x)'
  <2>1. Verified(x) /\ stable[x] = {"final"} /\ name[x] = "final" /\ Whole(x)
    BY <1>4, VerifiedIs DEF Safe
  <2>2. name'[x] = "final" /\ stable'[x] = {"final"} /\ files'[x] = files[x]
    BY <1>1, <1>3, <2>1
  <2> QED BY <1>1, <2>1, <2>2 DEF Safe, Verified, Listed, Collected, ManifestValid
<1>5. ASSUME NEW q \in Processes
      PROVE  HoldsLock(q)' /\ JobOK(q)' /\ Owns(q)' /\ SourceKept(q)'
  <2>1. pc'[q] = "idle"
    BY <1>1
  <2> QED BY <2>1 DEF HoldsLock, JobOK, Owns, SourceKept, Deriving, Cleaning, Owning
<1>6. OneOwner'
  BY <1>1 DEF OneOwner, Owning
<1>7. ASSUME NEW x \in Runs
      PROVE  RunOK(x)' /\ PublishedOK(x)' /\ RemovedOK(x)' /\ DescendantOK(x)'
  <2>0. RunOK(x) /\ PublishedOK(x) /\ RemovedOK(x) /\ DescendantOK(x)
    BY <1>0 DEF RunInv
  <2>1. name'[x] = "final" /\ removedBy[x] = {} => name[x] = "final" /\ Whole(x)
    BY <1>1, <2>0 DEF RunOK
  <2>2. name'[x] = "none" => files'[x] = {}
    BY <1>1 DEF FilesAfterLoss
  <2>3. RunOK(x)'
    BY <1>1, <1>3, <2>0, <2>1, <2>2 DEF RunOK, Whole
  <2>4. PublishedOK(x)' /\ RemovedOK(x)'
    BY <1>1, <1>4, <2>0 DEF PublishedOK, RemovedOK
  <2>5. DescendantOK(x)'
    <3>1. \A q \in Processes : pc'[q] # "publish"
      BY <1>1
    <3>2. manifest[x].source \in Runs \cup {NoRun}
      BY <1>0, Fields
    <3> QED BY <1>1, <1>4, <2>0, <2>1, <3>1, <3>2 DEF DescendantOK, Descendant
  <2> QED BY <2>3, <2>4, <2>5
<1>8. ScanInv'
  BY <1>1 DEF ScanInv, ScanOK
<1>9. ProcessInv'
  BY <1>5, <1>6 DEF ProcessInv
<1> QED BY <1>2, <1>7, <1>8, <1>9 DEF IInv, RunInv

-----------------------------------------------------------------------------
(* The invariant, and what follows from it.                                  *)

LEMMA InitInv == Init => IInv
<1> SUFFICES ASSUME Init PROVE IInv
  OBVIOUS
<1>1. TypeOK
  BY IdleType DEF Init, TypeOK, Names, Labels
<1>2. ProcessInv
  BY DEF Init, ProcessInv, HoldsLock, JobOK, Owns, SourceKept, OneOwner,
         Deriving, Cleaning, Owning
<1>3. ASSUME NEW r \in Runs
      PROVE  RunOK(r) /\ PublishedOK(r) /\ RemovedOK(r) /\ DescendantOK(r)
  BY DEF Init, RunOK, PublishedOK, RemovedOK, DescendantOK, Descendant, NoManifest
<1>4. ScanInv
  BY DEF Init, ScanInv, ScanOK
<1> QED BY <1>1, <1>2, <1>3, <1>4 DEF IInv, RunInv

LEMMA NextInv == IInv /\ [Next]_vars => IInv'
<1> SUFFICES ASSUME IInv, [Next]_vars PROVE IInv'
  OBVIOUS
<1>1. ASSUME NEW p \in Processes, Campaign(p)
      PROVE  IInv'
  BY <1>1, StartCampaignStep, StartDerivedStep, LoadSourceStep, LockDerivedStep,
     CreateStagingStep, WriteFileStep, WriteManifestStep, PublishStep, ReportPublishedStep
     DEF Campaign
<1>2. ASSUME NEW p \in Processes, Cleanup(p)
      PROVE  IInv'
  BY <1>2, StartCleanupStep, RefuseStagingStep, VerifyTargetStep, ScanSiblingStep,
     StatAgainStep, RemoveFileStep, RemoveDirectoryStep, ReportRemovedStep DEF Cleanup
<1>3. CASE UNCHANGED vars
  <2>1. UNCHANGED <<name, stable, files, manifest, lock, pc, job, receipts, published,
                    removedBy, lateSource>>
    BY <1>3 DEF vars, store, history
  <2>2. TypeOK'
    BY <2>1 DEF IInv, TypeOK
  <2>3. \A x : Safe(x)' <=> Safe(x)
    BY <2>1 DEF Safe, Verified, Listed, Collected, ManifestValid
  <2>4. ProcessInv'
    BY <2>1, <2>3 DEF IInv, ProcessInv, HoldsLock, JobOK, Owns, SourceKept, OneOwner,
                      Bears, Whole
  <2>5. RunInv'
    BY <2>1, <2>3 DEF IInv, RunInv, RunOK, PublishedOK, RemovedOK, DescendantOK,
                      Descendant, Whole
  <2>6. ScanInv'
    BY <2>1 DEF IInv, ScanInv, ScanOK, Descendant
  <2> QED BY <2>2, <2>4, <2>5, <2>6 DEF IInv
<1> QED BY <1>1, <1>2, <1>3, FailStep, PowerLossStep DEF Next

\* Each state of the store satisfies the inductive invariant: commands own what
\* they write, published runs are whole, and removals leave no descendant.
THEOREM StoreInvariant == Spec => []IInv
BY InitInv, NextInv, PTL DEF Spec

\* What verify_complete_run_artifact accepts is all that the run wrote before it
\* was published as complete, however many commands fail, clean up or are cut
\* short by a power loss.
THEOREM AcceptsOnlyWhole == Spec => []AcceptedIsWhole
<1>1. IInv => AcceptedIsWhole
  <2> SUFFICES ASSUME IInv, NEW r \in Runs, Verified(r)
               PROVE  files[r] = Files /\ manifest[r].complete
    BY DEF AcceptedIsWhole
  <2>1. manifest[r].complete /\ Whole(r)
    BY VerifiedIs
  <2>2. manifest[r].required = Content
    BY <2>1 DEF IInv, RunInv, RunOK
  <2> QED BY <2>1, <2>2 DEF Whole, Structural, Files
<1> QED BY <1>1, StoreInvariant, PTL

\* An artifact whose path has been reported as complete is accepted until a
\* cleanup that found it eligible begins to remove it: the rename was
\* synchronised before the report, and its files before the rename.
THEOREM PublishedRunsSurvive == Spec => []PublishedSurvives
<1>1. IInv => PublishedSurvives
  <2> SUFFICES ASSUME IInv, NEW r \in published, removedBy[r] = {}
               PROVE  Verified(r)
    BY DEF PublishedSurvives
  <2> QED BY DEF IInv, TypeOK, RunInv, PublishedOK, Safe
<1> QED BY <1>1, StoreInvariant, PTL

\* While a complete run is accepted its source is too, unless it was gone when
\* the run took its lock or a configuration of another project removed it: the
\* project lock and the look at every sibling leave no other way.
THEOREM DescendantsKeepSources == Spec => []DescendantKeepsSource
<1>1. IInv => DescendantKeepsSource
  <2> SUFFICES ASSUME IInv, NEW r \in Runs, Verified(r), removedBy[r] = {},
                      manifest[r].source # NoRun, r \notin lateSource,
                      removedBy[manifest[r].source] \ {manifest[r].project} = {}
               PROVE  Verified(manifest[r].source)
    BY DEF DescendantKeepsSource
  <2>1. name[r] = "final" /\ Descendant(r)
    BY VerifiedIs DEF Descendant
  <2>2. removedBy[manifest[r].source] \subseteq {manifest[r].project}
    OBVIOUS
  <2> QED BY <2>1, <2>2 DEF IInv, RunInv, DescendantOK, Safe
<1> QED BY <1>1, StoreInvariant, PTL

\* A run reported as removed is gone for good: its id is never used again, and
\* the power loss that could bring it back finds the base synchronised.
THEOREM RemovedRunsStayRemoved == Spec => []RemovedStaysRemoved
<1>1. IInv => RemovedStaysRemoved
  <2> SUFFICES ASSUME IInv, NEW r \in receipts PROVE name[r] = "none"
    BY DEF RemovedStaysRemoved
  <2> QED BY DEF IInv, TypeOK, RunInv, RemovedOK
<1> QED BY <1>1, StoreInvariant, PTL
=============================================================================
