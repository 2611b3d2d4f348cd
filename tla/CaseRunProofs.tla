---------------------------- MODULE CaseRunProofs ------------------------------
(***************************************************************************)
(* Proofs about CaseRun and its journals, for every plan, every suite and  *)
(* any number of cases.                                                    *)
(***************************************************************************)
EXTENDS CaseRun, FiniteSetTheorems, TLAPS

Active == {"idle", "writing", "syncing"}
Awaits == {"awaitIntent", "awaitObservation", "awaitOutcome"}
Running == {"begin", "effect", "observe", "docker"} \cup Awaits
Phases == {"start", "attest", "next", "reset", "exec", "recover", "settle",
           "snapshot", "finalize", "rename", "syncBase"} \cup Over
\* Before the first case, or after a case that is to be followed by another.
Between == {"start", "attest", "next", "reset"}
After == {"recover", "settle", "snapshot"}
Ends == {"finalize", "rename", "syncBase", "ended"}
-----------------------------------------------------------------------------
(* The journal.                                                             *)

Bytes == Records \cup {Torn}

JournalTypeOK ==
    /\ files \in [Cases -> Seq(Bytes) \cup {Absent}]
    /\ synced \in [Cases -> Nat]
    /\ journaled \in Cases
    /\ writer \in Active \cup {"none", "opening", "done", "failed"}
    /\ request \in Records \cup {NoRequest}
    /\ sender \in BOOLEAN
    /\ reply \in {"none", "waiting", "ok", "refused", "ioError"}
    /\ recordCount \in Nat
    /\ sequences \in [Producers -> Nat]

\* What is synchronised is in the file, and whole.
SyncedInFile ==
    \A c \in Cases :
        /\ files[c] = Absent => synced[c] = 0
        /\ files[c] # Absent =>
              /\ synced[c] <= Len(files[c])
              /\ \A i \in 1 .. synced[c] : files[c][i] \in Records

\* What is written beyond it is the record in the writer's hand.
WriterFile ==
    /\ writer \in Active =>
          /\ files[journaled] # Absent
          /\ Len(files[journaled]) =
                synced[journaled] + (IF writer = "syncing" THEN 1 ELSE 0)
    /\ writer = "syncing" => files[journaled][Len(files[journaled])] = request
    /\ writer \in {"writing", "syncing"} => request # NoRequest
    /\ writer = "opening" => files[journaled] = Absent
    /\ writer \notin Active => request = NoRequest

ControlCount(log) ==
    IF log = <<>> THEN 0
    ELSE IF Open(log) THEN 2 * Current(log) - 1 ELSE 2 * Current(log)

Observations(log) == Cardinality(Observed(log))

\* The writer's counters are those of the log.
CountersOf(log) ==
    /\ recordCount = Len(log)
    /\ sequences["orchestrator"] = ControlCount(log)
    /\ sequences["fixture"] = Observations(log)

WriterCounts ==
    /\ writer \in Active => CountersOf(Durable(journaled))
    /\ writer = "opening" => CountersOf(<<>>)

\* Whoever sent it, and whether or not he still waits.
Fits(record, log) == Follows(record, log) /\ Len(log) < MaxRecords
RequestFits == request # NoRequest => Fits(request, Durable(journaled))

JournalInv == JournalTypeOK /\ SyncedInFile /\ WriterFile /\ WriterCounts /\ RequestFits
              /\ reply # "refused"
-----------------------------------------------------------------------------
(* The case.                                                                *)

FuturePlaces == Running \cup {"gone", "fixture", "opening", "finish"}
Futures == [place : FuturePlaces, action : 0 .. ActionCount + 1,
            error : Errors \cup {"none"}]
Adapters == [healthy : BOOLEAN, quiesced : BOOLEAN, checkpoint : BOOLEAN, sequence : Nat]

RunTypeOK ==
    /\ phase \in Phases
    /\ caseNo \in 1 .. CaseCount + 1
    /\ cancelled \in BOOLEAN
    /\ exec \in Futures /\ adapter \in Adapters
    /\ outcome \in {"none", "ok", "timedOut", "cancelled"} \cup Errors
    /\ recovery \in {"none", "inspect", "start", "health", "ok", "failed"}
    /\ daemon \in SUBSET {"kill", "start"}
    /\ appUp \in BOOLEAN /\ lateKill \in BOOLEAN
    /\ cause \in {"none", "interrupted"} \cup Errors
    /\ started \in SUBSET (Cases \X Actions)

\* The future exists during the execution, and the caller of the journal with it.
Places ==
    /\ phase \in Phases \ {"exec", "crashed"} => exec.place = "gone"
    /\ phase = "exec" =>
          /\ exec.place # "gone" /\ caseNo \in Cases
          /\ exec.action \in 1 .. ActionCount + 1
          /\ exec.place \in Running \ {"begin"} => exec.action \in Actions
          /\ exec.place # "finish" => exec.error = "none"
    /\ phase \in {"reset"} \cup After => caseNo \in Cases

\* Where the log of the case is when the future is at a place.
Closed(log, k) ==
    /\ log # <<>> => log[Len(log)].kind = "outcome"
    /\ Current(log) = k
    /\ Len(log) <= 3 * k
    /\ k > 0 => log[Len(log)] = OutcomeOf(k)

OpenAt(log, k, more) ==
    /\ Open(log) /\ Current(log) = k
    /\ Len(log) <= 3 * (k - 1) + 1 + more

AtPlace(log, k) ==
    LET observed(n) == Observations(log) = n
        done == adapter.sequence
    IN
    /\ exec.place = "begin" => Closed(log, k - 1) /\ observed(done)
    /\ exec.place = "awaitIntent" /\ reply # "ok" =>
          /\ Closed(log, k - 1) /\ observed(done)
          /\ reply = "waiting" => request = Intent(k)
    /\ exec.place = "awaitIntent" /\ reply = "ok" =>
          OpenAt(log, k, 0) /\ observed(done) /\ log[Len(log)] = Intent(k)
    /\ exec.place \in {"effect", "observe", "docker"} =>
          OpenAt(log, k, 0) /\ observed(done)
    /\ exec.place = "awaitObservation" /\ reply # "ok" =>
          /\ OpenAt(log, k, 0) /\ observed(done)
          /\ reply = "waiting" => request = Observation(k, done + 1)
    /\ exec.place = "awaitObservation" /\ reply = "ok" =>
          OpenAt(log, k, 1) /\ observed(done + 1)
    /\ exec.place = "awaitOutcome" /\ reply # "ok" =>
          /\ OpenAt(log, k, 1) /\ observed(done)
          /\ reply = "waiting" => request = OutcomeOf(k)
    /\ exec.place = "awaitOutcome" /\ reply = "ok" =>
          Closed(log, k) /\ observed(done)
    /\ exec.place = "finish" /\ exec.error = "none" => Closed(log, ActionCount)

\* The writer the future finds.
AtWriter ==
    /\ exec.place = "fixture" => writer \in {"none", "done"}
    /\ exec.place = "opening" => writer = "opening" /\ journaled = caseNo
    /\ exec.place \in {"fixture", "opening"} =>
          exec.action = 1 /\ adapter = FreshAdapter /\ files[caseNo] = Absent
    /\ exec.place \in Running => sender
    /\ exec.place \in Running \cup {"finish"} =>
          journaled = caseNo /\ files[caseNo] # Absent
    /\ exec.place \in Running \ Awaits => writer = "idle" /\ request = NoRequest
    /\ exec.place \in Awaits =>
          \/ reply = "waiting" /\ writer \in Active /\ request # NoRequest
          \/ reply = "ok" /\ writer = "idle" /\ request = NoRequest
          \/ reply = "ioError" /\ writer = "failed" /\ request = NoRequest
    /\ exec.place = "finish" =>
          /\ request = NoRequest /\ writer \in {"idle", "done", "failed"}
          /\ exec.error = "none" =>
                /\ exec.action = ActionCount + 1
                /\ writer = "done" => synced[caseNo] = Len(files[caseNo])

\* The actions whose effect the future has begun.
AtStarted ==
    /\ exec.place \in {"effect", "observe", "docker", "awaitObservation", "awaitOutcome"}
          => <<caseNo, exec.action>> \in started
    /\ exec.place = "begin" /\ exec.action > 1
          => <<caseNo, exec.action - 1>> \in started
    /\ exec.place = "finish" /\ exec.error = "none"
          => <<caseNo, ActionCount>> \in started

ExecInv ==
    phase = "exec" =>
        AtWriter /\ AtPlace(Durable(caseNo), exec.action) /\ AtStarted
-----------------------------------------------------------------------------
(* The campaign.                                                            *)

CaseDone(c) ==
    /\ files[c] # Absent /\ synced[c] = Len(files[c])
    /\ Closed(Durable(c), ActionCount)
    /\ <<c, ActionCount>> \in started

CasesDone ==
    /\ \A c \in Cases : c < caseNo => CaseDone(c)
    /\ \A c \in Cases : c > caseNo => files[c] = Absent
    /\ phase \in Between => \A c \in Cases : c >= caseNo => files[c] = Absent
    /\ phase \in After /\ outcome = "ok" => CaseDone(caseNo) /\ writer = "done"
    /\ journaled # caseNo => writer \in {"none", "done"}
    /\ phase \in Between => writer \in {"none", "done"}
    /\ phase \in Ends /\ cause = "none" =>
          caseNo = CaseCount + 1 /\ writer \in {"none", "done"}

CauseInv ==
    /\ phase \in Between => outcome \in {"none", "ok"}
    /\ phase = "exec" => outcome = "none"
    /\ phase \in After => outcome # "none"
    /\ phase = "settle" => recovery \in {"ok", "failed"}
    /\ phase = "snapshot" => outcome = "ok" /\ recovery = "ok"
    /\ phase \in Between \cup After \cup {"exec"} => cause = "none"
    /\ outcome = "cancelled" => cancelled
    /\ CauseIsFirst

Published ==
    /\ artifact = "complete" =>
          /\ phase \in {"syncBase", "ended", "crashed"}
          /\ cause = "none" /\ caseNo = CaseCount + 1
    /\ phase \in {"rename", "syncBase", "ended"} \cup {"crashed"} /\ cause = "none"
       /\ (artifact = "complete" \/ phase \in {"rename", "syncBase"}) => manifest = files
    /\ phase \in {"crashed", "ended"} /\ artifact = "complete" =>
          writer \in {"none", "done"}

SessionPlaces == {"none", "connected", "attested", "permitted", "projected",
                  "evaluating", "done", "failed"}
Sessions == [place : SessionPlaces, next : 0 .. Len(Suite)]

SnapshotTypeOK ==
    /\ session \in Sessions
    /\ shown \in Databases /\ outcomes \in Databases
    /\ results \in Seq(Databases) /\ moments \in Seq(Databases)
    /\ verdict \in {"held", "violated"}

\* The session exists during the evaluation, and has reported nothing before it
\* has a snapshot.
Prepared ==
    /\ phase \notin {"snapshot", "crashed"} => session.place = "none"
    /\ phase \notin Ends \cup {"crashed"} /\ session.place \notin {"evaluating", "done", "failed"}
          => Len(moments) = Len(results) /\ outcomes = {}

\* What is found so far is what the snapshot has, invariant after invariant.
Evaluated ==
    /\ session.place \in {"evaluating", "done"} =>
          Len(moments) = Len(results) + 1 /\ moments[Len(moments)] = shown
    /\ session.place = "evaluating" =>
          /\ session.next \in 1 .. Len(Suite)
          /\ outcomes = shown \cap {Suite[i] : i \in 1 .. session.next - 1}
    /\ session.place = "done" => outcomes = shown

\* And what is reported is what the snapshot of the case had.
Told ==
    /\ caseNo = Len(results) + 1
    /\ Len(moments) >= Len(results)
    /\ \A c \in DOMAIN results : results[c] = moments[c]
    /\ verdict = "violated" <=> Violating # {}

SnapshotInv == SnapshotTypeOK /\ Prepared /\ Evaluated /\ Told
-----------------------------------------------------------------------------
(* The application.                                                         *)

\* Between the kill and the restart the future knows that it is down.
Down ==
    \/ /\ exec.place \in {"begin", "awaitIntent", "effect"}
       /\ exec.action > 1 /\ Plan[exec.action - 1] = "kill"
    \/ /\ exec.place \in {"observe", "awaitObservation", "awaitOutcome"}
       /\ Plan[exec.action] = "kill"

\* What the daemon still has, by the place of the future.
AtDaemon ==
    /\ exec.place \notin {"docker", "finish"} => daemon = {} /\ (appUp <=> ~ Down)
    /\ exec.place = "docker" =>
          /\ Plan[exec.action] \in {"kill", "restart"}
          /\ daemon \subseteq {CommandOf(Plan[exec.action])}
    /\ exec.place = "finish" =>
          /\ JournalTellsApplication
          /\ daemon # {} =>
                /\ exec.error # "none" /\ Durable(caseNo) # <<>>
                /\ LastDurable(caseNo).kind # "outcome"
                /\ Plan[LastDurable(caseNo).action] \in {"kill", "restart"}

\* What it has when there is no future.
AtRecovery ==
    /\ phase \in Between => daemon = {}
    /\ phase \in After /\ outcome = "ok" =>
          daemon \subseteq {"start"} /\ (recovery \in {"inspect", "health", "ok"} => daemon = {})
    /\ phase = "recover" => recovery \in {"inspect", "start", "health"}
    /\ (phase \in {"exec", "crashed"} => phase = "crashed" /\ exec.place = "gone")
          /\ ~ lateKill => "kill" \notin daemon

AppInv == (phase = "exec" => AtDaemon) /\ AtRecovery /\ AppLeftRunning

IInv == JournalInv /\ RunTypeOK /\ Places /\ JournalFirst /\ ExecInv /\ CasesDone
        /\ CauseInv /\ Published /\ SnapshotInv /\ AppInv
-----------------------------------------------------------------------------
(* Logs.                                                                    *)

\* A record adds to the observations of a log what it is: one or none.
LEMMA ObservedOfAppend ==
  ASSUME NEW log \in Seq(Records), NEW record \in Records
  PROVE  /\ IsFiniteSet(Observed(log))
         /\ Observations(log) \in Nat
         /\ Observations(Append(log, record)) =
               Observations(log) + (IF IsControl(record) THEN 0 ELSE 1)
  <1>1. IsFiniteSet(1 .. Len(log)) /\ Observed(log) \subseteq 1 .. Len(log)
    BY FS_Interval DEF Observed
  <1>2. IsFiniteSet(Observed(log)) /\ Observations(log) \in Nat
    BY <1>1, FS_Subset, FS_CardinalityType DEF Observations
  <1>3. Observed(Append(log, record)) =
           Observed(log) \cup (IF IsControl(record) THEN {} ELSE {Len(log) + 1})
    <2>1. /\ DOMAIN Append(log, record) = 1 .. Len(log) + 1
          /\ DOMAIN log = 1 .. Len(log) /\ Len(log) \in Nat
          /\ \A i \in 1 .. Len(log) : Append(log, record)[i] = log[i]
          /\ Append(log, record)[Len(log) + 1] = record
      OBVIOUS
    <2> QED  BY <2>1 DEF Observed
  <1>4. Len(log) + 1 \notin Observed(log)
    BY <1>1
  <1>5. CASE IsControl(record)
    BY <1>2, <1>3, <1>5 DEF Observations
  <1>6. CASE ~ IsControl(record)
    BY <1>2, <1>3, <1>4, <1>6, FS_AddElement DEF Observations
  <1> QED  BY <1>2, <1>5, <1>6

\* And each observation is one of the log's records.
LEMMA ObservationsAreRecords ==
  ASSUME NEW log \in Seq(Records)
  PROVE  Observations(log) \in Nat /\ Observations(log) <= Len(log)
  <1>1. Len(log) \in Nat /\ Observed(log) \subseteq 1 .. Len(log)
    BY DEF Observed
  <1>2. IsFiniteSet(1 .. Len(log)) /\ Cardinality(1 .. Len(log)) = Len(log)
    <2>1. Len(log) \in Int /\ 1 \in Int
      BY <1>1
    <2>2. 1 > Len(log) => Len(log) = 0
      BY <1>1
    <2>3. Cardinality(1 .. Len(log)) = IF 1 > Len(log) THEN 0 ELSE Len(log) - 1 + 1
      BY <2>1, FS_Interval
    <2> QED  BY <1>1, <2>1, <2>2, <2>3, FS_Interval
  <1> QED  BY <1>1, <1>2, FS_Subset, FS_CardinalityType DEF Observations

\* The empty log has none.
LEMMA ObservedOfEmpty == Observations(<<>>) = 0
  BY FS_EmptySet DEF Observations, Observed

\* What is on stable storage of a journal is a log of whole records.
LEMMA DurableIsLog ==
  ASSUME JournalTypeOK, SyncedInFile, NEW c \in Cases
  PROVE  Durable(c) \in Seq(Records) /\ Len(Durable(c)) = synced[c]
  <1>1. synced[c] \in Nat  BY DEF JournalTypeOK
  <1>2. CASE files[c] = Absent
    BY <1>1, <1>2 DEF SyncedInFile, Durable
  <1>3. CASE files[c] # Absent
    <2>1. files[c] \in Seq(Bytes) /\ synced[c] <= Len(files[c])
      BY <1>3 DEF JournalTypeOK, SyncedInFile
    <2>2. \A i \in 1 .. synced[c] : files[c][i] \in Records
      BY <1>3 DEF SyncedInFile
    <2>3. Durable(c) = [i \in 1 .. synced[c] |-> files[c][i]]
      BY <1>1, <1>3, <2>1 DEF Durable
    <2> QED  BY <1>1, <2>2, <2>3
  <1> QED  BY <1>2, <1>3
-----------------------------------------------------------------------------
(* The writer.                                                              *)

\* What a step of the campaign does to the journals, if anything: what the
\* caller and the environment do, and what the writer does.
CallerStep ==
    \/ \E c \in Cases : files[c] = Absent /\ request = NoRequest /\ BeginCreate(c)
    \/ \E waits \in BOOLEAN : FileOpened(waits)
    \/ FileNotOpened
    \/ \E record \in Records :
          writer = "idle" /\ Fits(record, Durable(journaled)) /\ Send(record)
    \/ CloseChannel
    \/ LoseUnsynced
    \/ UNCHANGED journalVars

JournalStep == CallerStep \/ WriterStep

\* The bytes of a file up to the end of what is synchronised, one more, and a
\* file that is no longer than that.
LEMMA DurableIsPrefix ==
  ASSUME NEW file \in Seq(Bytes), NEW n \in Nat, n <= Len(file)
  PROVE  /\ SubSeq(file, 1, n) = [i \in 1 .. n |-> file[i]]
         /\ SubSeq(file, 1, n) \in Seq(Bytes) /\ Len(SubSeq(file, 1, n)) = n
         /\ n < Len(file) =>
               SubSeq(file, 1, n + 1) = Append(SubSeq(file, 1, n), file[n + 1])
         /\ \A byte \in Bytes : SubSeq(Append(file, byte), 1, n) = SubSeq(file, 1, n)
         /\ \A m \in n .. Len(file) :
               SubSeq(SubSeq(file, 1, m), 1, n) = SubSeq(file, 1, n)
  OBVIOUS

\* A record is on stable storage with the end of its synchronisation, and with
\* nothing else.
LEMMA SyncAppends ==
  ASSUME JournalInv, Sync
  PROVE  /\ request \in Records /\ Fits(request, Durable(journaled))
         /\ \A c \in Cases :
               Durable(c)' = IF c = journaled THEN Append(Durable(c), request)
                             ELSE Durable(c)
  <1>1. /\ writer = "syncing" /\ files' = files /\ journaled \in Cases
        /\ synced' = [synced EXCEPT ![journaled] = Len(files[journaled])]
        /\ synced \in [Cases -> Nat]
    BY DEF Sync, JournalInv, JournalTypeOK
  <1>2. /\ files[journaled] # Absent
        /\ Len(files[journaled]) = synced[journaled] + 1
        /\ files[journaled][Len(files[journaled])] = request
        /\ request # NoRequest
    BY <1>1 DEF JournalInv, WriterFile, Active
  <1>3. request \in Records /\ Fits(request, Durable(journaled))
    BY <1>2 DEF JournalInv, JournalTypeOK, RequestFits
  <1>4. files[journaled] \in Seq(Bytes)
    BY <1>1, <1>2 DEF JournalInv, JournalTypeOK
  <1>5. Durable(journaled) = SubSeq(files[journaled], 1, synced[journaled])
    BY <1>2 DEF Durable
  <1>6. SubSeq(files[journaled], 1, synced[journaled] + 1) =
           Append(Durable(journaled), request)
    <2> DEFINE n == synced[journaled]
    <2>1. n \in Nat /\ n < Len(files[journaled])
      BY <1>1, <1>2
    <2>2. SubSeq(files[journaled], 1, n + 1) =
             Append(SubSeq(files[journaled], 1, n), files[journaled][n + 1])
      <3> HIDE DEF n
      <3> QED  BY <1>4, <2>1, DurableIsPrefix
    <2> QED  BY <1>2, <1>5, <2>2
  <1>7. ASSUME NEW c \in Cases
        PROVE  Durable(c)' = IF c = journaled THEN Append(Durable(c), request)
                             ELSE Durable(c)
    <2>1. CASE c = journaled
      BY <1>1, <1>2, <1>6, <2>1 DEF Durable
    <2>2. CASE c # journaled
      BY <1>1, <2>2 DEF Durable
    <2> QED  BY <2>1, <2>2
  <1> QED  BY <1>3, <1>7

\* Nothing else that is done to a journal shows in what is on stable storage.
LEMMA OnlySyncAppends ==
  ASSUME JournalInv, JournalStep, ~ Sync
  PROVE  \A c \in Cases : Durable(c)' = Durable(c)
  <1> SUFFICES ASSUME NEW c \in Cases PROVE Durable(c)' = Durable(c)
    OBVIOUS
  <1>0. /\ files \in [Cases -> Seq(Bytes) \cup {Absent}] /\ synced \in [Cases -> Nat]
        /\ journaled \in Cases /\ Torn \in Bytes /\ Records \subseteq Bytes
        /\ request \in Records \cup {NoRequest}
    BY DEF JournalInv, JournalTypeOK, Bytes
  <1>a. files[c] = Absent => synced[c] = 0
    BY DEF JournalInv, SyncedInFile
  <1>b. files[c] # Absent => files[c] \in Seq(Bytes) /\ synced[c] <= Len(files[c])
    BY <1>0 DEF JournalInv, SyncedInFile
  <1>1. CASE UNCHANGED <<files, synced>>
    BY <1>1 DEF Durable
  <1>2. ASSUME NEW waits \in BOOLEAN, FileOpened(waits) PROVE Durable(c)' = Durable(c)
    <2>1. files[journaled] = Absent /\ synced[journaled] = 0
      BY <1>2 DEF FileOpened, JournalInv, WriterFile, SyncedInFile, JournalTypeOK
    <2>2. <<>> # Absent
      <3>1. <<>> \in Seq(Bytes)  OBVIOUS
      <3> QED  BY <3>1, JournalAssumption DEF Bytes
    <2>3. SubSeq(<<>>, 1, 0) = <<>>
      OBVIOUS
    <2> QED  BY <1>0, <1>2, <2>1, <2>2, <2>3 DEF FileOpened, Durable
  <1>3. ASSUME NEW byte \in Bytes, synced' = synced, writer = "writing",
               files' = [files EXCEPT ![journaled] = Append(@, byte)]
        PROVE  Durable(c)' = Durable(c)
    <2>1. files[journaled] \in Seq(Bytes)
      BY <1>0, <1>3 DEF JournalInv, WriterFile, Active
    <2>2. Append(files[journaled], byte) \in Seq(Bytes)
      BY <1>3, <2>1
    <2>3. Append(files[journaled], byte) # Absent /\ files[journaled] # Absent
      BY <2>1, <2>2, JournalAssumption DEF Bytes
    <2>4. CASE c = journaled
      <3>1. synced[c] \in Nat /\ synced[c] <= Len(files[c])
        BY <1>0, <1>b, <2>3, <2>4
      <3>2. SubSeq(Append(files[c], byte), 1, synced[c]) = SubSeq(files[c], 1, synced[c])
        BY <2>1, <2>4, <3>1, DurableIsPrefix
      <3> QED  BY <1>0, <1>3, <2>3, <2>4, <3>2 DEF Durable
    <2>5. CASE c # journaled
      BY <1>0, <1>3, <2>5 DEF Durable
    <2> QED  BY <2>4, <2>5
  <1>4. CASE WriterStep
    <2>1. CASE TakeRequest \/ Sync  BY <1>1, <2>1 DEF TakeRequest
    <2>2. CASE Write
      BY <1>0, <1>3, <2>2 DEF Write, JournalInv, WriterFile
    <2>3. CASE WriteFails  BY <1>0, <1>1, <1>3, <2>3 DEF WriteFails
    <2>4. CASE FinalSync
      <3>1. writer = "idle" /\ files' = files
        BY <2>4 DEF FinalSync
      <3>2. Len(files[journaled]) = synced[journaled]
        BY <1>0, <3>1 DEF JournalInv, WriterFile, Active
      <3>3. synced' = synced
        BY <1>0, <2>4, <3>2 DEF FinalSync
      <3> QED  BY <1>1, <3>1, <3>3
    <2> QED  BY <1>4, <2>1, <2>2, <2>3, <2>4 DEF WriterStep
  <1>5. CASE LoseUnsynced
    <2>1. PICK kept \in synced[journaled] ..
                    (IF files[journaled] = Absent THEN 0 ELSE Len(files[journaled])) :
             files' = [d \in Cases |->
                         IF files[d] = Absent THEN Absent
                         ELSE SubSeq(files[d], 1, IF d = journaled THEN kept
                                                  ELSE synced[d])]
      BY <1>5 DEF LoseUnsynced
    <2>2. synced' = synced
      BY <1>5 DEF LoseUnsynced
    <2>3. CASE files[c] = Absent
      BY <2>1, <2>2, <2>3 DEF Durable
    <2>4. CASE files[c] # Absent
      <3> DEFINE m == IF c = journaled THEN kept ELSE synced[c]
      <3>1. files[c] \in Seq(Bytes) /\ synced[c] <= Len(files[c]) /\ synced[c] \in Nat
        BY <1>0, <1>b, <2>4
      <3>2. m \in synced[c] .. Len(files[c])
        BY <2>1, <2>4, <3>1
      <3>3. files'[c] = SubSeq(files[c], 1, m)
        BY <2>1, <2>4
      <3>4. m \in Nat /\ m <= Len(files[c])
        BY <3>1, <3>2
      <3>5. SubSeq(files[c], 1, m) \in Seq(Bytes)
        BY <3>1, <3>4, DurableIsPrefix
      <3>6. files'[c] # Absent
        BY <3>3, <3>5, JournalAssumption DEF Bytes
      <3>7. SubSeq(SubSeq(files[c], 1, m), 1, synced[c]) = SubSeq(files[c], 1, synced[c])
        BY <3>1, <3>2, DurableIsPrefix
      <3> QED  BY <2>2, <2>4, <3>3, <3>6, <3>7 DEF Durable
    <2> QED  BY <2>3, <2>4
  <1> QED
    BY <1>1, <1>2, <1>4, <1>5
       DEF JournalStep, CallerStep, BeginCreate, FileNotOpened, Send, CloseChannel, journalVars

\* So nothing the caller or the environment does shows in it.
LEMMA CallersAddNothing ==
  ASSUME JournalInv, CallerStep
  PROVE  \A c \in Cases : Durable(c)' = Durable(c)
  <1>1. ~ Sync
    BY DEF CallerStep, Sync, BeginCreate, FileOpened, FileNotOpened, Send, CloseChannel,
           LoseUnsynced, journalVars
  <1> QED  BY <1>1, OnlySyncAppends DEF JournalStep
\* The end of a log to which a record has been added is that record.
LEMMA EndOfAppend ==
  ASSUME NEW log \in Seq(Records), NEW record \in Records
  PROVE  /\ Append(log, record) \in Seq(Records)
         /\ Append(log, record) # <<>>
         /\ Len(Append(log, record)) = Len(log) + 1
         /\ Append(log, record)[Len(log) + 1] = record
         /\ Current(Append(log, record)) = record.action
         /\ Open(Append(log, record)) <=> record.kind # "outcome"
         /\ \A i \in 1 .. Len(log) : Append(log, record)[i] = log[i]
  BY DEF Current, Open

\* A record that follows a log has the sequence the writer expects of its
\* producer, and moves the count of that producer up to it.
LEMMA FollowingCounts ==
  ASSUME NEW log \in Seq(Records), NEW record \in Records, Follows(record, log)
  PROVE  /\ Current(log) \in Nat /\ ControlCount(log) \in Nat
         /\ record.sequence = IF IsControl(record) THEN ControlCount(log) + 1
                              ELSE Observations(log) + 1
         /\ ControlCount(Append(log, record)) =
               IF IsControl(record) THEN record.sequence ELSE ControlCount(log)
         /\ Observations(Append(log, record)) =
               IF IsControl(record) THEN Observations(log) ELSE record.sequence
  <1>1. Current(log) \in Nat /\ (Open(log) => Current(log) \in Actions)
    <2>1. CASE log = <<>>
      BY <2>1 DEF Current, Open
    <2>2. CASE log # <<>>
      <3>1. log[Len(log)] \in Records
        BY <2>2
      <3> QED  BY <2>2, <3>1, ActionCountAssumption DEF Current, Records, Actions
    <2> QED  BY <2>1, <2>2
  <1>2. ControlCount(log) \in Nat
    BY <1>1, ActionCountAssumption DEF ControlCount, Actions
  <1>3. record.action \in Nat /\ record.sequence \in Nat
    BY ActionCountAssumption DEF Records, Actions
  <1>4. /\ Observations(log) \in Nat
        /\ Observations(Append(log, record)) =
              Observations(log) + (IF IsControl(record) THEN 0 ELSE 1)
    BY ObservedOfAppend
  <1>5. ControlCount(Append(log, record)) =
           IF record.kind = "outcome" THEN 2 * record.action ELSE 2 * record.action - 1
    BY EndOfAppend DEF ControlCount
  <1>6. CASE record.kind = "intent"
    <2>1. ~ Open(log) /\ record.action = Current(log) + 1
          /\ record.sequence = 2 * record.action - 1 /\ IsControl(record)
      BY <1>6 DEF Follows, IsControl
    <2>2. ControlCount(log) = 2 * Current(log)
      BY <2>1 DEF ControlCount, Current
    <2> QED  BY <1>1, <1>2, <1>3, <1>4, <1>5, <1>6, <2>1, <2>2
  <1>7. CASE record.kind = "outcome"
    <2>1. Open(log) /\ record.action = Current(log)
          /\ record.sequence = 2 * record.action /\ IsControl(record)
      BY <1>7 DEF Follows, IsControl
    <2>2. ControlCount(log) = 2 * Current(log) - 1
      BY <2>1 DEF ControlCount, Open
    <2> QED  BY <1>1, <1>2, <1>3, <1>4, <1>5, <1>7, <2>1, <2>2
  <1>8. CASE record.kind = "observation"
    <2>1. Open(log) /\ record.action = Current(log)
          /\ record.sequence = Observations(log) + 1 /\ ~ IsControl(record)
      BY <1>8 DEF Follows, IsControl, Observations
    <2>2. ControlCount(log) = 2 * Current(log) - 1
      BY <2>1 DEF ControlCount, Open
    <2> QED  BY <1>1, <1>2, <1>3, <1>4, <1>5, <1>8, <2>1, <2>2
  <1> QED  BY <1>6, <1>7, <1>8 DEF Follows

\* The counters of the writer follow the log.
LEMMA CountsKept == ASSUME JournalInv, JournalStep PROVE WriterCounts'
  <1>0. /\ journaled \in Cases /\ request \in Records \cup {NoRequest}
        /\ sequences \in [Producers -> Nat] /\ recordCount \in Nat
        /\ ActionCount \in Nat
    BY ActionCountAssumption DEF JournalInv, JournalTypeOK
  <1>a. \A c \in Cases : Durable(c) \in Seq(Records)
    BY DurableIsLog DEF JournalInv
  <1>1. CASE Sync
    <2> DEFINE log == Durable(journaled)
    <2>1. /\ request \in Records /\ Follows(request, log) /\ log \in Seq(Records)
          /\ journaled' = journaled /\ writer' = "idle"
      BY <1>0, <1>a, <1>1, SyncAppends DEF Fits, Sync
    <2>2. Durable(journaled)' = Append(log, request)
      BY <1>0, <1>1, SyncAppends DEF Sync
    <2>3. CountersOf(log)
      BY <1>1 DEF JournalInv, WriterCounts, Sync, Active
    <2>4. /\ recordCount' = recordCount + 1
          /\ sequences' = [sequences EXCEPT ![ProducerOf(request)] = request.sequence]
      BY <1>1 DEF Sync, Acknowledge
    <2>5. Len(Append(log, request)) = Len(log) + 1
      BY <2>1, EndOfAppend
    <2>6. CASE IsControl(request)
      <3>1. /\ sequences'["orchestrator"] = request.sequence
            /\ sequences'["fixture"] = sequences["fixture"]
        BY <1>0, <2>4, <2>6 DEF ProducerOf, Producers
      <3>2. /\ ControlCount(Append(log, request)) = request.sequence
            /\ Observations(Append(log, request)) = Observations(log)
        BY <2>1, <2>6, FollowingCounts
      <3> QED
        BY <2>1, <2>2, <2>3, <2>4, <2>5, <3>1, <3>2 DEF WriterCounts, CountersOf, Active
    <2>7. CASE ~ IsControl(request)
      <3>1. /\ sequences'["fixture"] = request.sequence
            /\ sequences'["orchestrator"] = sequences["orchestrator"]
        BY <1>0, <2>4, <2>7 DEF ProducerOf, Producers
      <3>2. /\ ControlCount(Append(log, request)) = ControlCount(log)
            /\ Observations(Append(log, request)) = request.sequence
        BY <2>1, <2>7, FollowingCounts
      <3> QED
        BY <2>1, <2>2, <2>3, <2>4, <2>5, <3>1, <3>2 DEF WriterCounts, CountersOf, Active
    <2> QED  BY <2>6, <2>7
  <1>2. ASSUME NEW c \in Cases, BeginCreate(c) PROVE WriterCounts'
    <2>1. ControlCount(<<>>) = 0 /\ Observations(<<>>) = 0 /\ Len(<<>>) = 0
      BY ObservedOfEmpty DEF ControlCount
    <2> QED  BY <1>2, <2>1 DEF BeginCreate, WriterCounts, CountersOf, Producers, Active
  <1>3. ASSUME NEW waits \in BOOLEAN, FileOpened(waits) PROVE WriterCounts'
    <2>1. CountersOf(<<>>) /\ journaled' = journaled /\ recordCount' = recordCount
          /\ sequences' = sequences /\ writer' \in {"idle", "none"}
      BY <1>3 DEF FileOpened, JournalInv, WriterCounts
    <2>2. Durable(journaled)' = <<>>
      <3>1. files'[journaled] = <<>> /\ synced' = synced /\ synced[journaled] = 0
        BY <1>3, <1>0
           DEF FileOpened, JournalInv, JournalTypeOK, WriterFile, SyncedInFile
      <3> QED  BY <1>3, <3>1 DEF Durable, FileOpened
    <2> QED  BY <2>1, <2>2 DEF WriterCounts, CountersOf
  <1>4. CASE /\ UNCHANGED <<journaled, recordCount, sequences>>
             /\ writer' \in Active => writer \in Active
             /\ writer' = "opening" => writer = "opening"
             /\ ~ Sync
    <2>1. Durable(journaled)' = Durable(journaled)
      BY <1>0, <1>4, OnlySyncAppends
    <2> QED  BY <1>4, <2>1 DEF JournalInv, WriterCounts, CountersOf
  <1>5. CASE ~ Sync /\ (FileNotOpened \/ CloseChannel \/ WriterStep \/ LoseUnsynced
                        \/ UNCHANGED journalVars)
    BY <1>4, <1>5
       DEF FileNotOpened, CloseChannel, WriterStep, TakeRequest, Write, WriteFails,
           FinalSync, LoseUnsynced, journalVars, Active
  <1>6. ASSUME NEW record \in Records, Send(record), ~ Sync PROVE WriterCounts'
    BY <1>4, <1>6 DEF Send
  <1> QED  BY <1>1, <1>2, <1>3, <1>5, <1>6 DEF JournalStep, CallerStep

\* The types and the files: what the writer adds to a file is the record in
\* its hand, and what it counts as synchronised is there.
LEMMA FilesKept ==
  ASSUME JournalInv, JournalStep
  PROVE  JournalTypeOK' /\ SyncedInFile' /\ WriterFile'
  <1>0. /\ files \in [Cases -> Seq(Bytes) \cup {Absent}] /\ synced \in [Cases -> Nat]
        /\ journaled \in Cases /\ Torn \in Bytes /\ Records \subseteq Bytes
        /\ request \in Records \cup {NoRequest}
        /\ Absent \notin Seq(Bytes) /\ NoRequest \notin Records /\ Torn \notin Records
    BY JournalAssumption DEF JournalInv, JournalTypeOK, Bytes
  <1>a. JournalTypeOK /\ SyncedInFile /\ WriterFile
    BY DEF JournalInv
  <1>1. ASSUME NEW c \in Cases, files[c] = Absent, request = NoRequest, BeginCreate(c)
        PROVE  JournalTypeOK' /\ SyncedInFile' /\ WriterFile'
    BY <1>a, <1>1
       DEF BeginCreate, JournalTypeOK, SyncedInFile, WriterFile, Producers, Active
  <1>2. ASSUME NEW waits \in BOOLEAN, FileOpened(waits)
        PROVE  JournalTypeOK' /\ SyncedInFile' /\ WriterFile'
    <2>1. /\ writer = "opening" /\ files' = [files EXCEPT ![journaled] = <<>>]
          /\ writer' \in {"idle", "none"} /\ sender' = waits
          /\ UNCHANGED <<synced, journaled, request, reply, recordCount, sequences>>
      BY <1>2 DEF FileOpened
    <2>2. files[journaled] = Absent /\ synced[journaled] = 0 /\ request = NoRequest
      BY <1>a, <2>1 DEF WriterFile, SyncedInFile, JournalTypeOK, Active
    <2>3. <<>> \in Seq(Bytes) /\ Len(<<>>) = 0 /\ <<>> # Absent
      <3>1. <<>> \in Seq(Bytes) /\ Len(<<>>) = 0  OBVIOUS
      <3> QED  BY <1>0, <3>1
    <2>4. JournalTypeOK'
      BY <1>a, <2>1, <2>3 DEF JournalTypeOK, Active
    <2>5. SyncedInFile'
      BY <1>0, <1>a, <2>1, <2>2, <2>3 DEF SyncedInFile
    <2>6. WriterFile'
      BY <1>0, <2>1, <2>2, <2>3 DEF WriterFile, Active
    <2> QED  BY <2>4, <2>5, <2>6
  <1>3. CASE FileNotOpened \/ CloseChannel \/ TakeRequest \/ UNCHANGED journalVars
    <2>1. UNCHANGED <<files, synced, journaled, recordCount, sequences>>
      BY <1>3 DEF FileNotOpened, CloseChannel, TakeRequest, journalVars
    <2>2. SyncedInFile'
      BY <1>a, <2>1 DEF SyncedInFile
    <2>3. JournalTypeOK'
      BY <1>a, <1>3, <2>1
         DEF FileNotOpened, CloseChannel, TakeRequest, Answer, journalVars,
             JournalTypeOK, Active
    <2>4. WriterFile'
      BY <1>a, <1>3
         DEF FileNotOpened, CloseChannel, TakeRequest, journalVars, WriterFile, Active
    <2> QED  BY <2>2, <2>3, <2>4
  <1>4. ASSUME NEW record \in Records, writer = "idle", Send(record)
        PROVE  JournalTypeOK' /\ SyncedInFile' /\ WriterFile'
    BY <1>a, <1>4 DEF Send, JournalTypeOK, SyncedInFile, WriterFile, Active
  <1>5. ASSUME NEW byte \in Bytes, writer = "writing", synced' = synced,
               files' = [files EXCEPT ![journaled] = Append(@, byte)]
        PROVE  /\ files' \in [Cases -> Seq(Bytes) \cup {Absent}] /\ SyncedInFile'
               /\ files'[journaled] # Absent
               /\ Len(files'[journaled]) = synced[journaled] + 1
               /\ files'[journaled][Len(files'[journaled])] = byte
    <2> DEFINE file == files[journaled]
    <2>1. file \in Seq(Bytes) /\ file # Absent /\ Len(file) = synced[journaled]
      BY <1>0, <1>a, <1>5 DEF WriterFile, Active
    <2>2. Append(file, byte) \in Seq(Bytes) /\ Append(file, byte) # Absent
      <3>1. Append(file, byte) \in Seq(Bytes)
        <4> HIDE DEF file
        <4> QED  BY <2>1
      <3> QED  BY <1>0, <3>1
    <2>3. /\ Len(Append(file, byte)) = Len(file) + 1
          /\ Append(file, byte)[Len(file) + 1] = byte
          /\ \A i \in 1 .. Len(file) : Append(file, byte)[i] = file[i]
      BY <2>1
    <2>4. files'[journaled] = Append(file, byte)
      BY <1>0, <1>5
    <2>5. SyncedInFile'
      <3> SUFFICES ASSUME NEW c \in Cases
                   PROVE  /\ files'[c] = Absent => synced[c] = 0
                          /\ files'[c] # Absent =>
                                /\ synced[c] <= Len(files'[c])
                                /\ \A i \in 1 .. synced[c] : files'[c][i] \in Records
        BY <1>5 DEF SyncedInFile
      <3>1. CASE c = journaled
        <4>1. synced[c] \in Nat /\ synced[c] = Len(file)
              /\ \A i \in 1 .. synced[c] : file[i] \in Records
          BY <1>0, <1>a, <2>1, <3>1 DEF SyncedInFile
        <4>2. files'[c] = Append(file, byte)
          BY <2>4, <3>1
        <4> HIDE DEF file
        <4> QED  BY <2>2, <2>3, <4>1, <4>2
      <3>2. CASE c # journaled
        BY <1>0, <1>a, <1>5, <3>2 DEF SyncedInFile
      <3> QED  BY <3>1, <3>2
    <2> QED  BY <1>0, <1>5, <2>1, <2>2, <2>3, <2>4, <2>5
  <1>6. CASE Write
    <2>1. /\ writer = "writing" /\ writer' = "syncing"
          /\ files' = [files EXCEPT ![journaled] = Append(@, request)]
          /\ UNCHANGED <<synced, journaled, request, sender, reply, recordCount, sequences>>
      BY <1>6 DEF Write
    <2>2. request \in Bytes /\ request # NoRequest
      BY <1>0, <1>a, <2>1 DEF WriterFile
    <2>3. /\ files' \in [Cases -> Seq(Bytes) \cup {Absent}] /\ SyncedInFile'
          /\ files'[journaled] # Absent
          /\ Len(files'[journaled]) = synced[journaled] + 1
          /\ files'[journaled][Len(files'[journaled])] = request
      BY <1>5, <2>1, <2>2
    <2>4. JournalTypeOK'
      BY <1>a, <2>1, <2>3 DEF JournalTypeOK, Active
    <2>5. WriterFile'
      BY <2>1, <2>2, <2>3 DEF WriterFile, Active
    <2> QED  BY <2>3, <2>4, <2>5
  <1>7. CASE Sync
    <2>1. /\ writer = "syncing" /\ files' = files /\ journaled' = journaled
          /\ synced' = [synced EXCEPT ![journaled] = Len(files[journaled])]
          /\ writer' = "idle" /\ request' = NoRequest /\ sender' = sender
          /\ reply' \in {reply, "ok"}
          /\ recordCount' = recordCount + 1
          /\ sequences' = [sequences EXCEPT ![ProducerOf(request)] = request.sequence]
      BY <1>7 DEF Sync, Acknowledge, Answer
    <2>2. /\ files[journaled] # Absent /\ files[journaled] \in Seq(Bytes)
          /\ Len(files[journaled]) = synced[journaled] + 1
          /\ files[journaled][Len(files[journaled])] = request
          /\ request \in Records
      BY <1>0, <1>a, <2>1 DEF WriterFile, Active
    <2>3. SyncedInFile'
      <3> SUFFICES ASSUME NEW c \in Cases
                   PROVE  /\ files[c] = Absent => synced'[c] = 0
                          /\ files[c] # Absent =>
                                /\ synced'[c] <= Len(files[c])
                                /\ \A i \in 1 .. synced'[c] : files[c][i] \in Records
        BY <2>1 DEF SyncedInFile
      <3>1. CASE c = journaled
        <4>1. \A i \in 1 .. synced[c] : files[c][i] \in Records
          BY <1>a, <2>2, <3>1 DEF SyncedInFile
        <4> QED  BY <1>0, <2>1, <2>2, <3>1, <4>1
      <3>2. CASE c # journaled
        BY <1>0, <1>a, <2>1, <3>2 DEF SyncedInFile
      <3> QED  BY <3>1, <3>2
    <2>4. request.sequence \in Nat
      BY <2>2 DEF Records
    <2>5. JournalTypeOK'
      <3>1. synced' \in [Cases -> Nat]
        BY <1>0, <2>1, <2>2
      <3>2. sequences' \in [Producers -> Nat]
        BY <1>a, <2>1, <2>4 DEF JournalTypeOK
      <3> QED  BY <1>a, <2>1, <3>1, <3>2 DEF JournalTypeOK, Active
    <2>6. WriterFile'
      BY <1>0, <2>1, <2>2 DEF WriterFile, Active
    <2> QED  BY <2>3, <2>5, <2>6
  <1>8. CASE WriteFails
    <2>1. /\ writer' = "failed" /\ request' = NoRequest /\ reply' \in {reply, "ioError"}
          /\ UNCHANGED <<synced, journaled, sender, recordCount, sequences>>
      BY <1>8 DEF WriteFails, Answer
    <2>2. files' \in [Cases -> Seq(Bytes) \cup {Absent}] /\ SyncedInFile'
      <3>1. CASE files' = files
        BY <1>0, <1>a, <2>1, <3>1 DEF SyncedInFile
      <3>2. CASE files' # files
        BY <1>0, <1>5, <1>8, <3>2 DEF WriteFails
      <3> QED  BY <3>1, <3>2
    <2>3. JournalTypeOK'
      BY <1>a, <2>1, <2>2 DEF JournalTypeOK, Active
    <2> QED  BY <2>1, <2>2, <2>3 DEF WriterFile, Active
  <1>9. CASE FinalSync
    <2>1. /\ writer = "idle" /\ request = NoRequest /\ writer' \in {"done", "failed"}
          /\ UNCHANGED <<files, journaled, request, sender, reply, recordCount, sequences>>
      BY <1>9 DEF FinalSync
    <2>2. synced' = synced
      <3>1. Len(files[journaled]) = synced[journaled]
        BY <1>0, <1>a, <2>1 DEF WriterFile, Active
      <3> QED  BY <1>0, <1>9, <3>1 DEF FinalSync
    <2> QED
      BY <1>a, <2>1, <2>2 DEF JournalTypeOK, SyncedInFile, WriterFile, Active
  <1>10. CASE LoseUnsynced
    <2>1. PICK kept \in synced[journaled] ..
                    (IF files[journaled] = Absent THEN 0 ELSE Len(files[journaled])) :
             files' = [d \in Cases |->
                         IF files[d] = Absent THEN Absent
                         ELSE SubSeq(files[d], 1, IF d = journaled THEN kept
                                                  ELSE synced[d])]
      BY <1>10 DEF LoseUnsynced
    <2>2. /\ writer' = "none" /\ request' = NoRequest /\ sender' = FALSE
          /\ reply' = "none" /\ UNCHANGED <<synced, journaled, recordCount, sequences>>
      BY <1>10 DEF LoseUnsynced
    <2>3. ASSUME NEW c \in Cases
          PROVE  /\ files'[c] \in Seq(Bytes) \cup {Absent}
                 /\ files'[c] = Absent => synced[c] = 0
                 /\ files'[c] # Absent =>
                       /\ synced[c] <= Len(files'[c])
                       /\ \A i \in 1 .. synced[c] : files'[c][i] \in Records
      <3>1. CASE files[c] = Absent
        BY <1>a, <2>1, <3>1 DEF SyncedInFile
      <3>2. CASE files[c] # Absent
        <4> DEFINE m == IF c = journaled THEN kept ELSE synced[c]
        <4>1. files[c] \in Seq(Bytes) /\ synced[c] <= Len(files[c]) /\ synced[c] \in Nat
          BY <1>0, <1>a, <3>2 DEF SyncedInFile
        <4>2. m \in Nat /\ synced[c] <= m /\ m <= Len(files[c])
          BY <2>1, <3>2, <4>1
        <4>3. files'[c] = SubSeq(files[c], 1, m)
          BY <2>1, <3>2
        <4>4. /\ SubSeq(files[c], 1, m) \in Seq(Bytes)
              /\ Len(SubSeq(files[c], 1, m)) = m
              /\ \A i \in 1 .. m : SubSeq(files[c], 1, m)[i] = files[c][i]
          <5> HIDE DEF m
          <5> QED  BY <4>1, <4>2, DurableIsPrefix
        <4>5. \A i \in 1 .. synced[c] : files[c][i] \in Records
          BY <1>a, <3>2 DEF SyncedInFile
        <4> HIDE DEF m
        <4>6. files'[c] \in Seq(Bytes) /\ files'[c] # Absent /\ Len(files'[c]) = m
          BY <1>0, <4>3, <4>4
        <4>7. \A i \in 1 .. synced[c] : i \in 1 .. m
          BY <4>1, <4>2
        <4>8. \A i \in 1 .. synced[c] : files'[c][i] \in Records
          BY <4>3, <4>4, <4>5, <4>7
        <4> QED  BY <4>2, <4>6, <4>8
      <3> QED  BY <3>1, <3>2
    <2>4. files' \in [Cases -> Seq(Bytes) \cup {Absent}]
      BY <2>1, <2>3
    <2>5. SyncedInFile'
      BY <2>2, <2>3 DEF SyncedInFile
    <2>6. JournalTypeOK'
      BY <1>a, <2>2, <2>4 DEF JournalTypeOK
    <2> QED  BY <2>2, <2>5, <2>6 DEF WriterFile, Active
  <1> QED
    BY <1>1, <1>2, <1>3, <1>4, <1>6, <1>7, <1>8, <1>9, <1>10
       DEF JournalStep, CallerStep, WriterStep

\* A request is a record that follows the log as long as it is with the writer,
\* and the writer accepts it.
LEMMA RequestsKept ==
  ASSUME JournalInv, JournalStep
  PROVE  RequestFits' /\ reply' # "refused"
  <1>0. /\ journaled \in Cases /\ request \in Records \cup {NoRequest}
        /\ NoRequest \notin Records /\ reply # "refused"
    BY JournalAssumption DEF JournalInv, JournalTypeOK
  <1>1. CASE Sync
    BY <1>0, <1>1 DEF Sync, Acknowledge, Answer, RequestFits
  <1>2. CASE ~ Sync /\ TakeRequest
    <2>1. writer = "idle" /\ request \in Records
      BY <1>0, <1>2 DEF TakeRequest
    <2> DEFINE log == Durable(journaled)
    <2>2. log \in Seq(Records) /\ Fits(request, log) /\ CountersOf(log)
      BY <1>0, <2>1, DurableIsLog
         DEF JournalInv, RequestFits, WriterCounts, Active
    <2>3. Acceptable(request)
      <3>1. recordCount = Len(log) /\ Len(log) < MaxRecords /\ Len(log) \in Nat
        BY <2>2 DEF CountersOf, Fits
      <3>2. request.sequence = IF IsControl(request) THEN ControlCount(log) + 1
                               ELSE Observations(log) + 1
        BY <2>1, <2>2, FollowingCounts DEF Fits
      <3>3. MaxRecords \in Nat
        BY ActionCountAssumption DEF MaxRecords
      <3> QED
        BY <2>2, <3>1, <3>2, <3>3 DEF Acceptable, ExpectedSequence, ProducerOf, CountersOf
    <2>4. UNCHANGED <<request, reply, journaled>> /\ Durable(journaled)' = log
      BY <1>0, <1>2, <2>3, OnlySyncAppends DEF TakeRequest, JournalStep, WriterStep
    <2> QED  BY <1>0, <2>2, <2>4 DEF RequestFits, Fits
  <1>3. ASSUME NEW record \in Records, Fits(record, Durable(journaled)), Send(record),
               ~ Sync
        PROVE  RequestFits' /\ reply' # "refused"
    <2>1. Durable(journaled)' = Durable(journaled) /\ request' = record
          /\ journaled' = journaled /\ reply' = "waiting"
      BY <1>0, <1>3, OnlySyncAppends DEF Send
    <2> QED  BY <1>3, <2>1 DEF RequestFits, Fits
  <1>4. CASE request' = NoRequest /\ reply' # "refused"
    BY <1>4 DEF RequestFits
  <1>5. CASE ~ Sync /\ UNCHANGED <<request, journaled>> /\ reply' # "refused"
    <2>1. Durable(journaled)' = Durable(journaled)
      BY <1>0, <1>5, OnlySyncAppends
    <2> QED  BY <1>5, <2>1 DEF JournalInv, RequestFits, Fits
  <1>6. CASE ~ Sync /\ (FileNotOpened \/ CloseChannel \/ Write \/ WriteFails \/ FinalSync
                        \/ LoseUnsynced \/ UNCHANGED journalVars)
    BY <1>0, <1>4, <1>5, <1>6
       DEF FileNotOpened, CloseChannel, Write, WriteFails, FinalSync, LoseUnsynced,
           journalVars, Answer
  <1>7. ASSUME NEW waits \in BOOLEAN, FileOpened(waits), ~ Sync
        PROVE  RequestFits' /\ reply' # "refused"
    BY <1>0, <1>5, <1>7 DEF FileOpened
  <1>8. ASSUME NEW c \in Cases, request = NoRequest, BeginCreate(c)
        PROVE  RequestFits' /\ reply' # "refused"
    BY <1>0, <1>8, <1>4 DEF BeginCreate
  <1> QED
    BY <1>1, <1>2, <1>3, <1>6, <1>7, <1>8 DEF JournalStep, CallerStep, WriterStep

\* The journals and their writer, whatever step is taken.
LEMMA JournalKept == ASSUME JournalInv, JournalStep PROVE JournalInv'
  BY FilesKept, CountsKept, RequestsKept DEF JournalInv
-----------------------------------------------------------------------------
(* The future of a case.                                                    *)

\* The records of an action.
LEMMA CaseRecords ==
  ASSUME NEW k \in Actions, NEW n \in Nat
  PROVE  Intent(k) \in Records /\ OutcomeOf(k) \in Records
         /\ Observation(k, n + 1) \in Records
  BY ActionCountAssumption
     DEF Intent, OutcomeOf, Observation, Records, Kinds, Actions, ControlSequence

\* The record that the future sends at a place follows the log it finds there:
\* the sequences computed from the action's index, and those the adapter
\* counts, are the ones the journal expects (ControlSequence, adapter.sequence).
LEMMA RecordsFollow ==
  ASSUME NEW log \in Seq(Records), NEW k \in Actions
  PROVE  /\ Closed(log, k - 1) => Fits(Intent(k), log)
         /\ \A more \in {0, 1} : OpenAt(log, k, more) => Fits(OutcomeOf(k), log)
         /\ OpenAt(log, k, 0) => Fits(Observation(k, Observations(log) + 1), log)
  <1>1. k \in Nat \ {0} /\ k <= ActionCount /\ ActionCount \in Nat /\ Len(log) \in Nat
    BY ActionCountAssumption DEF Actions
  <1>2. ASSUME Closed(log, k - 1) PROVE Fits(Intent(k), log)
    <2>1. ~ Open(log) /\ Current(log) = k - 1 /\ Len(log) <= 3 * (k - 1)
      BY <1>2 DEF Closed, Open
    <2> QED
      BY <1>1, <2>1 DEF Fits, Follows, Intent, ControlSequence, MaxRecords
  <1>3. ASSUME NEW more \in {0, 1}, OpenAt(log, k, more) PROVE Fits(OutcomeOf(k), log)
    BY <1>1, <1>3 DEF OpenAt, Fits, Follows, OutcomeOf, ControlSequence, MaxRecords
  <1>4. ASSUME OpenAt(log, k, 0)
        PROVE  Fits(Observation(k, Observations(log) + 1), log)
    BY <1>1, <1>4 DEF OpenAt, Fits, Follows, Observation, Observations, MaxRecords
  <1> QED  BY <1>2, <1>3, <1>4

\* And what the log is once the record is on stable storage.
LEMMA RecordsArrive ==
  ASSUME NEW log \in Seq(Records), NEW k \in Actions
  PROVE  /\ Closed(log, k - 1) =>
               LET arrived == Append(log, Intent(k)) IN
               /\ OpenAt(arrived, k, 0) /\ arrived[Len(arrived)] = Intent(k)
               /\ Observations(arrived) = Observations(log)
         /\ OpenAt(log, k, 0) =>
               LET arrived == Append(log, Observation(k, Observations(log) + 1)) IN
               OpenAt(arrived, k, 1) /\ Observations(arrived) = Observations(log) + 1
         /\ OpenAt(log, k, 1) =>
               LET arrived == Append(log, OutcomeOf(k)) IN
               Closed(arrived, k) /\ Observations(arrived) = Observations(log)
  <1>1. /\ k \in Nat \ {0} /\ k <= ActionCount /\ ActionCount \in Nat /\ Len(log) \in Nat
        /\ Observations(log) \in Nat
    <2>1. Intent(k) \in Records
      BY CaseRecords
    <2> QED  BY <2>1, ActionCountAssumption, ObservedOfAppend DEF Actions
  <1>2. Intent(k) \in Records /\ OutcomeOf(k) \in Records
        /\ Observation(k, Observations(log) + 1) \in Records
    BY <1>1, CaseRecords
  <1>3. ASSUME Closed(log, k - 1)
        PROVE  LET arrived == Append(log, Intent(k)) IN
               /\ OpenAt(arrived, k, 0) /\ arrived[Len(arrived)] = Intent(k)
               /\ Observations(arrived) = Observations(log)
    <2> DEFINE arrived == Append(log, Intent(k))
    <2>1. /\ Len(arrived) = Len(log) + 1 /\ arrived[Len(log) + 1] = Intent(k)
          /\ Current(arrived) = k /\ Open(arrived)
      BY <1>2, EndOfAppend DEF Intent
    <2>2. Observations(arrived) = Observations(log)
      BY <1>1, <1>2, ObservedOfAppend DEF IsControl, Intent
    <2> HIDE DEF arrived
    <2> QED  BY <1>1, <1>3, <2>1, <2>2 DEF OpenAt, Closed, arrived
  <1>4. ASSUME OpenAt(log, k, 0)
        PROVE  LET arrived == Append(log, Observation(k, Observations(log) + 1)) IN
               OpenAt(arrived, k, 1) /\ Observations(arrived) = Observations(log) + 1
    <2> DEFINE arrived == Append(log, Observation(k, Observations(log) + 1))
    <2>1. /\ Len(arrived) = Len(log) + 1
          /\ Current(arrived) = k /\ Open(arrived)
      BY <1>2, EndOfAppend DEF Observation
    <2>2. Observations(arrived) = Observations(log) + 1
      BY <1>1, <1>2, ObservedOfAppend DEF IsControl, Observation
    <2> HIDE DEF arrived
    <2> QED  BY <1>1, <1>4, <2>1, <2>2 DEF OpenAt, arrived
  <1>5. ASSUME OpenAt(log, k, 1)
        PROVE  LET arrived == Append(log, OutcomeOf(k)) IN
               Closed(arrived, k) /\ Observations(arrived) = Observations(log)
    <2> DEFINE arrived == Append(log, OutcomeOf(k))
    <2>1. /\ Len(arrived) = Len(log) + 1 /\ arrived[Len(log) + 1] = OutcomeOf(k)
          /\ Current(arrived) = k
      BY <1>2, EndOfAppend DEF OutcomeOf
    <2>2. Observations(arrived) = Observations(log)
      BY <1>1, <1>2, ObservedOfAppend DEF IsControl, OutcomeOf
    <2>3. OutcomeOf(k).kind = "outcome"
      BY DEF OutcomeOf
    <2> HIDE DEF arrived
    <2> QED  BY <1>1, <1>5, <2>1, <2>2, <2>3 DEF OpenAt, Closed, arrived
  <1> QED  BY <1>3, <1>4, <1>5

\* Where the future is polled: its action, the log and the writer it finds.
LEMMA Polls ==
  ASSUME IInv, NEW place, Polled(place)
  PROVE  /\ phase = "exec" /\ exec.place = place /\ caseNo \in Cases
         /\ AtWriter /\ AtPlace(Durable(caseNo), exec.action) /\ AtStarted
         /\ Durable(caseNo) \in Seq(Records)
         /\ adapter.sequence \in Nat
         /\ place \in Running \ {"begin"} => exec.action \in Actions
         /\ place \in Running => journaled = caseNo
  <1>1. phase = "exec" /\ exec.place = place
    BY DEF Polled
  <1>2. caseNo \in Cases /\ (place \in Running \ {"begin"} => exec.action \in Actions)
    BY <1>1 DEF IInv, Places
  <1>3. AtWriter /\ AtPlace(Durable(caseNo), exec.action) /\ AtStarted
    BY <1>1 DEF IInv, ExecInv
  <1>4. Durable(caseNo) \in Seq(Records)
    BY <1>2, DurableIsLog DEF IInv, JournalInv
  <1>5. adapter.sequence \in Nat
    BY DEF IInv, RunTypeOK, Adapters
  <1>6. place \in Running => journaled = caseNo
    BY <1>1, <1>3 DEF AtWriter
  <1> QED  BY <1>1, <1>2, <1>3, <1>4, <1>5, <1>6

\* The future sends the outcome of an action from these places.
LEMMA OutcomesFollow ==
  ASSUME IInv, NEW place \in {"effect", "docker", "awaitObservation"}, Polled(place),
         place = "awaitObservation" => Acknowledged, RecordOutcome
  PROVE  CallerStep
  <1>1. exec.action \in Actions /\ Durable(journaled) \in Seq(Records)
    BY Polls DEF Running, Awaits
  <1>2. \E more \in {0, 1} : OpenAt(Durable(journaled), exec.action, more)
    BY Polls DEF AtPlace, Running, Awaits, Acknowledged
  <1>3. Fits(OutcomeOf(exec.action), Durable(journaled))
    BY <1>1, <1>2, RecordsFollow
  <1>4. writer = "idle"
    BY Polls DEF AtWriter, Running, Awaits, Acknowledged
  <1>5. OutcomeOf(exec.action) \in Records
    BY <1>1, CaseRecords
  <1> QED  BY <1>3, <1>4, <1>5 DEF RecordOutcome, CallerStep

\* Every step of the future leaves the writer alone but for a fitting request.
LEMMA ExecutorCalls == ASSUME IInv, ExecutorStep PROVE CallerStep
  <1>1. CASE ResetFixture
    <2>1. caseNo \in Cases /\ files[caseNo] = Absent /\ writer \in {"none", "done"}
      BY <1>1, Polls DEF ResetFixture, AtWriter
    <2>2. request = NoRequest
      BY <2>1 DEF IInv, JournalInv, WriterFile, Active
    <2> QED  BY <1>1, <2>1, <2>2 DEF ResetFixture, CallerStep
  <1>2. CASE JournalCreated \/ JournalNotCreated
    BY <1>2 DEF JournalCreated, JournalNotCreated, CallerStep
  <1>3. CASE BeginAction
    <2>1. CASE exec.action \in Actions
      <3>1. Polled("begin") /\ Send(Intent(exec.action))
        BY <1>3, <2>1 DEF BeginAction
      <3>2. /\ Durable(journaled) \in Seq(Records) /\ writer = "idle"
            /\ Closed(Durable(journaled), exec.action - 1)
        BY <3>1, Polls DEF AtWriter, AtPlace, Running, Awaits
      <3> QED  BY <2>1, <3>1, <3>2, RecordsFollow, CaseRecords DEF CallerStep
    <2>2. CASE exec.action \notin Actions
      BY <1>3, <2>2 DEF BeginAction, FinishWith, CallerStep
    <2> QED  BY <2>1, <2>2
  <1>4. CASE AppendFails \/ EffectFails \/ DockerFails
    BY <1>4 DEF AppendFails, EffectFails, DockerFails, FinishWith, CallerStep
  <1>5. CASE HttpAnswered
    BY <1>5, OutcomesFollow DEF HttpAnswered, Performing, CallerStep
  <1>6. CASE RecordObservation
    <2>1. Polled("observe") /\ Send(Observation(exec.action, adapter.sequence + 1))
      BY <1>6 DEF RecordObservation
    <2>2. /\ exec.action \in Actions /\ Durable(journaled) \in Seq(Records)
          /\ writer = "idle" /\ OpenAt(Durable(journaled), exec.action, 0)
          /\ Observations(Durable(journaled)) = adapter.sequence
          /\ adapter.sequence \in Nat
      BY <2>1, Polls DEF AtWriter, AtPlace, Running, Awaits
    <2> QED  BY <2>1, <2>2, RecordsFollow, CaseRecords DEF CallerStep
  <1>7. CASE ObservationAppended
    BY <1>7, OutcomesFollow DEF ObservationAppended
  <1>8. CASE DockerAnswered
    BY <1>8, OutcomesFollow DEF DockerAnswered, CallerStep
  <1>9. CASE ReachBoundary
    BY <1>9, OutcomesFollow DEF ReachBoundary, Performing
  <1>10. CASE IntentAppended \/ IssueDocker \/ OutcomeAppended \/ JournalFinished
    BY <1>10
       DEF IntentAppended, IssueDocker, OutcomeAppended, JournalFinished, CallerStep
  <1> QED
    BY <1>1, <1>2, <1>3, <1>4, <1>5, <1>6, <1>7, <1>8, <1>9, <1>10 DEF ExecutorStep

\* So does every other step of the campaign, but the writer's own.
LEMMA CampaignCalls == ASSUME IInv, [Next]_vars, ~ Writer PROVE CallerStep
  <1>1. CASE SupervisorStep
    BY <1>1
       DEF SupervisorStep, StartRun, Attest, NextCase, ResetCase, TimedOut, CancelledCase,
           Drop, InspectApplication, ApplicationStarted, ApplicationHealthy,
           RecoveryFails, SettleCase, Evaluate, SnapshotCase, WriteManifest, Publish,
           SyncBase, recoveryFrame, CallerStep
  <1>2. CASE AbandonedOpen \/ Cancel \/ Docker \/ Crash
    BY <1>2 DEF AbandonedOpen, Cancel, Docker, Crash, CallerStep
  <1>3. CASE UNCHANGED vars
    BY <1>3 DEF vars, CallerStep
  <1> QED  BY <1>1, <1>2, <1>3, ExecutorCalls DEF Next

\* Writer ahead or not, whatever the step, the journals stay in order.
LEMMA JournalInvKept ==
  ASSUME IInv, [Next]_vars
  PROVE  JournalInv' /\ JournalStep
  <1>1. JournalStep
    BY CampaignCalls DEF Writer, JournalStep
  <1> QED  BY <1>1, JournalKept DEF IInv

\* A future at another place, at its end, or at the next action.
LEMMA FutureMoves ==
  ASSUME NEW future \in Futures, NEW place \in FuturePlaces,
         NEW moved, moved = [future EXCEPT !.place = place]
  PROVE  /\ moved \in Futures /\ moved.place = place
         /\ moved.action = future.action /\ moved.error = future.error
  BY DEF Futures

\* A future that is left ends at "finish" with its error.
LEMMA FutureEnds ==
  ASSUME NEW future \in Futures, NEW error \in Errors \cup {"none"}
  PROVE  LET ended == [future EXCEPT !.place = "finish", !.error = error] IN
         /\ ended \in Futures /\ ended.place = "finish"
         /\ ended.action = future.action /\ ended.error = error
  <1>1. "finish" \in FuturePlaces
    BY DEF FuturePlaces
  <1> QED  BY <1>1 DEF Futures

\* A future whose outcome is acknowledged proceeds to the next action.
LEMMA FutureProceeds ==
  ASSUME NEW future \in Futures, future.action \in Actions,
         NEW moved, moved = [future EXCEPT !.place = "begin", !.action = @ + 1]
  PROVE  /\ moved \in Futures /\ moved.place = "begin"
         /\ moved.action = future.action + 1 /\ moved.error = future.error
  <1>1. "begin" \in FuturePlaces
    BY DEF FuturePlaces, Running
  <1>2. future.action + 1 \in 0 .. ActionCount + 1
    BY ActionCountAssumption DEF Actions
  <1> QED  BY <1>1, <1>2 DEF Futures

\* The future that there is not.
LEMMA FutureIsOver ==
  Idle \in Futures /\ Idle.place = "gone"
  BY ActionCountAssumption DEF Idle, Futures, FuturePlaces

\* A step of the future goes to another place, begins the next action, or ends
\* with or without an error.
LEMMA ExecutorMoves ==
  ASSUME IInv, ExecutorStep
  PROVE  /\ exec' \in Futures /\ phase = "exec" /\ caseNo' = caseNo
         /\ \/ phase' = "recover" /\ exec' = Idle
            \/ /\ phase' = "exec" /\ exec'.place # "gone"
               /\ exec'.action \in 1 .. ActionCount + 1
               /\ exec'.place \in Running \ {"begin"} => exec'.action \in Actions
               /\ exec'.place # "finish" => exec'.error = "none"
  <1>1. /\ exec \in Futures /\ ActionCount \in Nat
        /\ phase = "exec" =>
              /\ exec.place # "gone" /\ exec.action \in 1 .. ActionCount + 1
              /\ exec.place \in Running \ {"begin"} => exec.action \in Actions
              /\ exec.place # "finish" => exec.error = "none"
    BY ActionCountAssumption DEF IInv, RunTypeOK, Places
  <1> USE DEF Polled, GoTo, runVars
  <1>2. ASSUME phase = "exec", exec.place # "finish", phase' = "exec", caseNo' = caseNo,
               NEW place \in {"opening", "begin"}, exec' = [exec EXCEPT !.place = place],
               place = "begin" => exec.place = "opening"
        PROVE  /\ exec' \in Futures /\ exec'.place # "gone"
               /\ exec'.action \in 1 .. ActionCount + 1
               /\ exec'.place \notin Running \ {"begin"} /\ exec'.error = "none"
    <2>1. place \in FuturePlaces /\ place # "gone" /\ place \notin Running \ {"begin"}
      BY DEF FuturePlaces, Running, Awaits
    <2> QED  BY <1>1, <1>2, <2>1, FutureMoves
  <1>3. ASSUME phase = "exec", exec.place # "finish", NEW place \in Running \ {"begin"},
               exec' = [exec EXCEPT !.place = place], exec.action \in Actions
        PROVE  /\ exec' \in Futures /\ exec'.place = place /\ place # "gone"
               /\ place # "finish" /\ exec'.action \in Actions
               /\ exec'.action \in 1 .. ActionCount + 1 /\ exec'.error = "none"
    <2>1. place \in FuturePlaces /\ place # "gone" /\ place # "finish"
      BY <1>3 DEF FuturePlaces, Running, Awaits
    <2>2. exec.action \in 1 .. ActionCount + 1
      BY <1>1, <1>3 DEF Actions
    <2> QED  BY <1>1, <1>3, <2>1, <2>2, FutureMoves
  <1>4. ASSUME phase = "exec", NEW error \in Errors \cup {"none"}, FinishWith(error)
        PROVE  /\ exec' \in Futures /\ exec'.place = "finish"
               /\ exec'.action \in 1 .. ActionCount + 1
               /\ "finish" \notin Running
    <2>1. exec' = [exec EXCEPT !.place = "finish", !.error = error]
      BY <1>4 DEF FinishWith
    <2>2. "finish" \notin Running
      BY DEF Running, Awaits
    <2>3. /\ exec' \in Futures /\ exec'.place = "finish"
          /\ exec'.action = exec.action
      <3> DEFINE over == [exec EXCEPT !.place = "finish", !.error = error]
      <3>1. over \in Futures /\ over.place = "finish" /\ over.action = exec.action
        <4>1. exec \in Futures /\ error \in Errors \cup {"none"}
          BY <1>1, <1>4
        <4> QED  BY <4>1, FutureEnds
      <3> HIDE DEF over
      <3>2. exec' = over  BY <2>1 DEF over
      <3> QED  BY <3>1, <3>2
    <2> QED  BY <1>1, <1>4, <2>2, <2>3
  <1>5. CASE ResetFixture
    BY <1>2, <1>5, FutureIsOver DEF ResetFixture, Supervised
  <1>6. CASE JournalCreated
    BY <1>2, <1>6 DEF JournalCreated, executorFrame
  <1>7. CASE JournalNotCreated
    BY <1>7, FutureIsOver DEF JournalNotCreated, Supervised
  <1>8. CASE BeginAction
    <2>1. CASE exec.action \in Actions
      BY <1>3, <1>8, <2>1 DEF BeginAction, executorFrame, Running, Awaits
    <2>2. CASE exec.action \notin Actions
      BY <1>4, <1>8, <2>2 DEF BeginAction, executorFrame
    <2> QED  BY <2>1, <2>2
  <1>9. CASE IntentAppended
    BY <1>1, <1>3, <1>9 DEF IntentAppended, Running, Awaits
  <1>10. CASE AppendFails \/ EffectFails \/ DockerFails
    <2>1. PICK error \in Errors : FinishWith(error) /\ phase = "exec" /\ phase' = "exec"
                                  /\ caseNo' = caseNo
      BY <1>10
         DEF AppendFails, EffectFails, DockerFails, Failures, executorFrame, Errors
    <2> QED  BY <1>4, <2>1
  <1>11. CASE HttpAnswered
    BY <1>1, <1>3, <1>11
       DEF HttpAnswered, Performing, RecordOutcome, executorFrame, Running, Awaits
  <1>12. CASE RecordObservation
    BY <1>1, <1>3, <1>12 DEF RecordObservation, executorFrame, Running, Awaits
  <1>13. CASE ObservationAppended
    BY <1>1, <1>3, <1>13 DEF ObservationAppended, RecordOutcome, Running, Awaits
  <1>14. CASE IssueDocker
    BY <1>1, <1>3, <1>14 DEF IssueDocker, Performing, Running, Awaits
  <1>15. CASE DockerAnswered
    BY <1>1, <1>3, <1>15 DEF DockerAnswered, RecordOutcome, Running, Awaits
  <1>16. CASE ReachBoundary
    BY <1>1, <1>3, <1>16 DEF ReachBoundary, Performing, RecordOutcome, Running, Awaits
  <1>17. CASE OutcomeAppended
    <2>1. /\ phase = "exec" /\ exec.place = "awaitOutcome" /\ phase' = "exec"
          /\ exec' = [exec EXCEPT !.place = "begin", !.action = @ + 1]
          /\ caseNo' = caseNo
      BY <1>17 DEF OutcomeAppended
    <2>2. exec.action \in Actions /\ exec.action + 1 \in 1 .. ActionCount + 1
      BY <1>1, <2>1 DEF Running, Awaits, Actions
    <2>3. exec.error = "none"
      BY <1>1, <2>1
    <2> QED  BY <1>1, <2>1, <2>2, <2>3, FutureProceeds
  <1>18. CASE JournalFinished
    BY <1>18, FutureIsOver DEF JournalFinished, Supervised
  <1> QED
    BY <1>5, <1>6, <1>7, <1>8, <1>9, <1>10, <1>11, <1>12, <1>13, <1>14, <1>15, <1>16,
       <1>17, <1>18 DEF ExecutorStep

\* What a step of the future does to the rest of the case.
LEMMA ExecutorTyped ==
  ASSUME IInv, ExecutorStep
  PROVE  /\ adapter' \in Adapters
         /\ outcome' \in {"none", "ok", "timedOut", "cancelled"} \cup Errors
         /\ recovery' \in {recovery, "inspect"} /\ daemon' \in SUBSET {"kill", "start"}
         /\ lateKill' \in BOOLEAN /\ started' \in SUBSET (Cases \X Actions)
         /\ UNCHANGED <<caseNo, cancelled, verdict, results, cause, artifact, manifest,
                        appUp, evaluationVars>>
  <1>1. /\ adapter \in Adapters /\ daemon \in SUBSET {"kill", "start"}
        /\ outcome \in {"none", "ok", "timedOut", "cancelled"} \cup Errors
        /\ lateKill \in BOOLEAN /\ started \in SUBSET (Cases \X Actions)
    BY DEF IInv, RunTypeOK
  <1>2. /\ phase = "exec" => caseNo \in Cases
        /\ phase = "exec" /\ exec.place = "awaitIntent" => exec.action \in Actions
        /\ phase = "exec" => exec.error \in Errors \cup {"none"}
    BY DEF IInv, RunTypeOK, Places, Running, Awaits, Futures
  <1> USE DEF runVars, processVars, stackVars, executorFrame
  <1>3. CASE ResetFixture \/ JournalNotCreated
    <2>1. lateKill' = lateKill \/ lateKill' = ("kill" \in daemon)
      BY <1>3 DEF ResetFixture, JournalNotCreated, Supervised
    <2>2. lateKill' \in BOOLEAN
      <3>1. CASE lateKill' = lateKill  BY <1>1, <3>1
      <3>2. CASE lateKill' = ("kill" \in daemon)  BY <3>2
      <3> QED  BY <2>1, <3>1, <3>2
    <2>3. outcome' = outcome \/ outcome' = "infrastructure"
      BY <1>3 DEF ResetFixture, JournalNotCreated, Supervised
    <2>4. /\ recovery' \in {recovery, "inspect"}
          /\ UNCHANGED <<caseNo, cancelled, verdict, results, cause, artifact, manifest,
                         adapter, started, daemon, appUp, evaluationVars>>
      BY <1>3 DEF ResetFixture, JournalNotCreated, Supervised
    <2> QED  BY <1>1, <2>2, <2>3, <2>4 DEF Errors
  <1>4. CASE JournalCreated \/ BeginAction \/ AppendFails \/ HttpAnswered \/ EffectFails
             \/ RecordObservation \/ DockerFails \/ OutcomeAppended
    BY <1>1, <1>4
       DEF JournalCreated, BeginAction, AppendFails, HttpAnswered, EffectFails,
           RecordObservation, DockerFails, OutcomeAppended
  <1>5. CASE IntentAppended
    BY <1>1, <1>2, <1>5 DEF IntentAppended, Polled
  <1>6. CASE ObservationAppended
    <2>1. /\ adapter' = [adapter EXCEPT !.sequence = @ + 1,
                          !.healthy = @ /\ Plan[exec.action] # "kill"]
          /\ UNCHANGED <<runVars, outcome, started, processVars>>
      BY <1>6 DEF ObservationAppended
    <2>2. /\ adapter.sequence + 1 \in Nat
          /\ (adapter.healthy /\ Plan[exec.action] # "kill") \in BOOLEAN
      BY <1>1 DEF Adapters
    <2>3. adapter' \in Adapters
      BY <1>1, <2>1, <2>2 DEF Adapters
    <2> QED  BY <1>1, <2>1, <2>3
  <1>7. CASE IssueDocker
    BY <1>1, <1>7 DEF IssueDocker, CommandOf
  <1>8. CASE DockerAnswered
    BY <1>1, <1>8 DEF DockerAnswered, Adapters
  <1>9. CASE ReachBoundary
    BY <1>1, <1>9 DEF ReachBoundary, Adapters
  <1>10. CASE JournalFinished
    BY <1>1, <1>2, <1>10 DEF JournalFinished, Supervised, Polled, Errors
  <1> QED
    BY <1>3, <1>4, <1>5, <1>6, <1>7, <1>8, <1>9, <1>10 DEF ExecutorStep

\* Every step of the supervisor keeps the types and the place of the future.
LEMMA SupervisorTyped ==
  ASSUME IInv, SupervisorStep
  PROVE  RunTypeOK' /\ Places'
  <1>0. RunTypeOK /\ Places /\ ActionCount \in Nat /\ CaseCount \in Nat \ {0}
        /\ (phase \in After => outcome # "none")
    BY ActionCountAssumption, JournalAssumption DEF IInv, CauseInv
  <1> USE <1>0 DEF RunTypeOK, Places, Phases, Over, Errors, Cases,
          runVars, caseVars, processVars, stackVars, evaluationVars, Fail, After
  <1>1. CASE StartRun  BY <1>1 DEF StartRun
  <1>2. CASE Attest  BY <1>2 DEF Attest
  <1>3. CASE NextCase  BY <1>3 DEF NextCase
  <1>4. CASE ResetCase
    <2>1. CASE Fail("infrastructure") /\ UNCHANGED <<exec, adapter, outcome>>
      BY <1>4, <2>1 DEF ResetCase
    <2>2. CASE ~ Fail("infrastructure")
      <3> DEFINE future == [place |-> "fixture", action |-> 1, error |-> "none"]
      <3>1. /\ phase = "reset" /\ phase' = "exec" /\ exec' = future
            /\ adapter' = FreshAdapter /\ outcome' = "none" /\ UNCHANGED cause
        BY <1>4, <2>2 DEF ResetCase
      <3>2. FreshAdapter \in Adapters
        BY DEF FreshAdapter, Adapters
      <3>3. future \in Futures
        <4>1. "fixture" \in FuturePlaces /\ 1 \in 0 .. ActionCount + 1
          BY DEF FuturePlaces
        <4> QED  BY <4>1 DEF Futures
      <3>4. future.place = "fixture" /\ future.action = 1 /\ future.error = "none"
        OBVIOUS
      <3>5. "fixture" \notin Running \ {"begin"}
        BY DEF Running, Awaits
      <3> HIDE DEF future
      <3> QED  BY <1>4, <3>1, <3>2, <3>3, <3>4, <3>5 DEF ResetCase
    <2> QED  BY <1>4, <2>1, <2>2 DEF ResetCase
  <1>5. CASE TimedOut \/ CancelledCase
    <2>1. /\ phase = "exec" /\ phase' = "recover" /\ exec' = Idle
          /\ outcome' \in {"timedOut", "cancelled"} /\ recovery' = "inspect"
          /\ lateKill' = ("kill" \in daemon)
          /\ UNCHANGED <<caseNo, cancelled, verdict, results, cause, artifact, manifest,
                         adapter, started, daemon, appUp>>
      BY <1>5 DEF TimedOut, CancelledCase, Drop, Supervised
    <2>2. lateKill' \in BOOLEAN
      BY <2>1
    <2> QED  BY <2>1, <2>2, FutureIsOver
  <1>6. CASE InspectApplication
    <2>1. /\ phase = "recover" /\ recovery' \in {"health", "start"}
          /\ daemon' = daemon \/ daemon' = daemon \cup {"start"}
          /\ UNCHANGED recoveryFrame
      BY <1>6 DEF InspectApplication
    <2> QED  BY <2>1 DEF recoveryFrame
  <1>7. CASE ApplicationStarted  BY <1>7 DEF ApplicationStarted, recoveryFrame
  <1>8. CASE ApplicationHealthy  BY <1>8 DEF ApplicationHealthy
  <1>9. CASE RecoveryFails  BY <1>9 DEF RecoveryFails
  <1>10. CASE SettleCase  BY <1>10 DEF SettleCase, Settlement, ClassOf
  <1>11. CASE Evaluate  BY <1>11 DEF Evaluate
  <1>12. CASE SnapshotCase  BY <1>12 DEF SnapshotCase
  <1>13. CASE WriteManifest  BY <1>13 DEF WriteManifest
  <1>14. CASE Publish  BY <1>14 DEF Publish
  <1>15. CASE SyncBase  BY <1>15 DEF SyncBase
  <1> QED
    BY <1>1, <1>2, <1>3, <1>4, <1>5, <1>6, <1>7, <1>8, <1>9, <1>10, <1>11, <1>12,
       <1>13, <1>14, <1>15 DEF SupervisorStep

\* The types of the campaign, and when there is a future.
LEMMA RunTyped ==
  ASSUME IInv, [Next]_vars
  PROVE  RunTypeOK' /\ Places'
  <1>0. RunTypeOK /\ Places
    BY DEF IInv
  <1>1. CASE ExecutorStep
    <2>1. /\ exec' \in Futures /\ phase = "exec" /\ caseNo' = caseNo
          /\ \/ phase' = "recover" /\ exec' = Idle
             \/ /\ phase' = "exec" /\ exec'.place # "gone"
                /\ exec'.action \in 1 .. ActionCount + 1
                /\ exec'.place \in Running \ {"begin"} => exec'.action \in Actions
                /\ exec'.place # "finish" => exec'.error = "none"
      BY <1>1, ExecutorMoves
    <2>2. Places'
      BY <1>0, <2>1, FutureIsOver DEF Places, After
    <2>3. phase' \in Phases
      BY <2>1 DEF Phases
    <2> QED  BY <1>0, <1>1, <2>1, <2>2, <2>3, ExecutorTyped DEF RunTypeOK
  <1>2. CASE Writer \/ AbandonedOpen
    BY <1>0, <1>2
       DEF Writer, AbandonedOpen, runVars, caseVars, processVars, stackVars, RunTypeOK,
           Places
  <1>3. CASE Cancel
    BY <1>0, <1>3
       DEF Cancel, caseVars, processVars, stackVars, RunTypeOK, Places
  <1>4. CASE Docker
    <2>1. PICK command \in daemon :
             /\ daemon' = daemon \ {command}
             /\ appUp' = (command = "start") \/ appUp' = appUp
      BY <1>4 DEF Docker
    <2>2. appUp' \in BOOLEAN /\ daemon' \in SUBSET {"kill", "start"}
      BY <1>0, <2>1 DEF RunTypeOK
    <2> QED
      BY <1>0, <1>4, <2>2
         DEF Docker, runVars, caseVars, RunTypeOK, Places
  <1>5. CASE Crash
    BY <1>0, <1>5
       DEF Crash, caseVars, processVars, stackVars, RunTypeOK, Places, After, Phases, Over
  <1>6. CASE UNCHANGED vars
    BY <1>0, <1>6
       DEF vars, runVars, caseVars, processVars, stackVars, RunTypeOK, Places
  <1> QED  BY <1>1, <1>2, <1>3, <1>4, <1>5, <1>6, SupervisorTyped DEF Next

\* The future after a step that keeps it: at another place, or at its end.
LEMMA AfterMove ==
  ASSUME exec \in Futures, NEW place \in FuturePlaces, GoTo(place)
  PROVE  exec'.place = place /\ exec'.action = exec.action /\ exec'.error = exec.error
  BY FutureMoves DEF GoTo

\* The future after it has left run_actions: the channel is closed.
LEMMA AfterFinish ==
  ASSUME exec \in Futures, NEW error \in Errors \cup {"none"}, FinishWith(error)
  PROVE  /\ exec'.place = "finish" /\ exec'.action = exec.action /\ exec'.error = error
         /\ sender' = FALSE /\ reply' = "none"
         /\ UNCHANGED <<files, synced, journaled, writer, request>>
  BY FutureEnds DEF FinishWith, CloseChannel

\* The future asks for a record and waits: what it finds there afterwards.
LEMMA WaitsForRecord ==
  ASSUME IInv, phase = "exec", phase' = "exec", exec.place \in Running, writer = "idle",
         NEW place \in Awaits, GoTo(place),
         NEW record \in Records, Send(record), UNCHANGED caseNo
  PROVE  AtWriter' /\ exec'.place = place /\ exec'.action = exec.action
         /\ reply' = "waiting" /\ request' = record
  <1>1. place \in FuturePlaces /\ place \in Running
    BY DEF FuturePlaces, Running
  <1>2. exec'.place = place /\ exec'.action = exec.action
    BY <1>1, AfterMove DEF IInv, RunTypeOK
  <1>3. AtWriter
    BY DEF IInv, ExecInv
  <1>4. record # NoRequest
    BY JournalAssumption
  <1>5. /\ request' = record /\ reply' = "waiting"
        /\ UNCHANGED <<files, synced, journaled, writer, sender>>
    BY DEF Send
  <1>6. /\ journaled = caseNo /\ files[caseNo] # Absent /\ sender
        /\ place \notin {"fixture", "opening", "finish"}
    BY <1>3 DEF AtWriter, Awaits, Running
  <1> QED
    BY <1>1, <1>2, <1>4, <1>5, <1>6 DEF AtWriter, Active

\* The future asks for the outcome of the action it is in.
LEMMA WaitsForOutcome ==
  ASSUME IInv, phase = "exec", phase' = "exec", exec.place \in Running \ {"begin"},
         writer = "idle", RecordOutcome, UNCHANGED caseNo,
         OpenAt(Durable(caseNo), exec.action, 1),
         Observations(Durable(caseNo)) = adapter'.sequence,
         <<caseNo, exec.action>> \in started, UNCHANGED started
  PROVE  AtWriter' /\ AtPlace(Durable(caseNo), exec.action)' /\ AtStarted'
  <1>1. exec.action \in Actions /\ caseNo \in Cases
    BY DEF IInv, Places
  <1>2. /\ OutcomeOf(exec.action) \in Records /\ Send(OutcomeOf(exec.action))
        /\ GoTo("awaitOutcome") /\ "awaitOutcome" \in Awaits
    BY <1>1, CaseRecords DEF RecordOutcome, Awaits
  <1>3. /\ AtWriter' /\ exec'.place = "awaitOutcome" /\ exec'.action = exec.action
        /\ reply' = "waiting" /\ request' = OutcomeOf(exec.action)
    BY <1>2, WaitsForRecord
  <1>4. Durable(caseNo)' = Durable(caseNo)
    BY <1>2 DEF Send, Durable
  <1> QED  BY <1>3, <1>4 DEF AtPlace, AtStarted

\* The future is over with an error, or has had all actions.
LEMMA Finishes ==
  ASSUME IInv, phase = "exec", NEW error \in Errors \cup {"none"}, FinishWith(error),
         exec.place \in Running, request = NoRequest, UNCHANGED <<caseNo, started>>,
         error = "none" => /\ exec.action = ActionCount + 1
                           /\ Closed(Durable(caseNo), ActionCount)
                           /\ <<caseNo, ActionCount>> \in started
                           /\ writer = "idle"
  PROVE  AtWriter' /\ AtPlace(Durable(caseNo), exec.action)' /\ AtStarted'
  <1>1. /\ exec'.place = "finish" /\ exec'.action = exec.action /\ exec'.error = error
        /\ UNCHANGED <<files, synced, journaled, writer, request>>
    BY AfterFinish DEF IInv, RunTypeOK
  <1>2. AtWriter
    BY DEF IInv, ExecInv
  <1>3. journaled = caseNo /\ files[caseNo] # Absent /\ writer \in {"idle", "failed"}
    BY <1>2 DEF AtWriter, Running
  <1>4. Durable(caseNo)' = Durable(caseNo)
    BY <1>1 DEF Durable
  <1>5. "finish" \notin Running /\ "finish" \notin Awaits
    BY DEF Running, Awaits
  <1>6. AtWriter'
    BY <1>1, <1>3, <1>5 DEF AtWriter
  <1> QED  BY <1>1, <1>4, <1>6 DEF AtPlace, AtStarted

\* Each step of the future leaves it at a place whose log and writer are as
\* the place expects.
LEMMA ExecutorKeepsPlace ==
  ASSUME IInv, ExecutorStep, phase' = "exec"
  PROVE  AtWriter' /\ AtPlace(Durable(caseNo), exec.action)' /\ AtStarted'
  <1>0. /\ phase = "exec" /\ caseNo' = caseNo /\ exec \in Futures /\ caseNo \in Cases
        /\ adapter.sequence \in Nat
        /\ exec.place \in Running \ {"begin"} => exec.action \in Actions
        /\ exec.action \in 1 .. ActionCount + 1 /\ ActionCount \in Nat
    BY ExecutorMoves, ActionCountAssumption DEF IInv, RunTypeOK, Places, Adapters
  <1>a. AtWriter /\ AtPlace(Durable(caseNo), exec.action) /\ AtStarted
    BY <1>0 DEF IInv, ExecInv
  <1>b. Durable(caseNo)' = Durable(caseNo)
    BY <1>0, ExecutorCalls, CallersAddNothing DEF IInv
  <1>c. Durable(caseNo) \in Seq(Records)
    BY <1>0, DurableIsLog DEF IInv, JournalInv
  <1>d. OpenAt(Durable(caseNo), exec.action, 0) => OpenAt(Durable(caseNo), exec.action, 1)
    BY <1>0, <1>c DEF OpenAt
  <1>e. \A place \in FuturePlaces : GoTo(place) =>
           exec'.place = place /\ exec'.action = exec.action /\ exec'.error = exec.error
    BY <1>0, AfterMove
  <1> USE DEF Polled, runVars, executorFrame
  <1>1. CASE ResetFixture
    <2>1. /\ exec.place = "fixture" /\ GoTo("opening") /\ BeginCreate(caseNo)
          /\ UNCHANGED <<caseNo, adapter, started>>
      BY <1>0, <1>1 DEF ResetFixture, Supervised
    <2>2. exec'.place = "opening" /\ exec'.action = exec.action
      BY <1>e, <2>1 DEF FuturePlaces
    <2> QED
      BY <1>a, <2>1, <2>2
         DEF BeginCreate, AtWriter, AtPlace, AtStarted, Running, Awaits
  <1>2. CASE JournalCreated
    <2>1. /\ exec.place = "opening" /\ GoTo("begin") /\ FileOpened(TRUE)
          /\ UNCHANGED <<caseNo, adapter, started>>
      BY <1>2 DEF JournalCreated
    <2>2. exec'.place = "begin" /\ exec'.action = 1
      BY <1>a, <1>e, <2>1 DEF FuturePlaces, Running, AtWriter
    <2>3. /\ journaled = caseNo /\ files[caseNo] = Absent /\ adapter.sequence = 0
      BY <1>a, <2>1 DEF AtWriter, FreshAdapter
    <2>4. request = NoRequest
      BY <2>1 DEF FileOpened, IInv, JournalInv, WriterFile, Active
    <2>5. files'[caseNo] # Absent
      <3>1. <<>> \in Seq(Bytes)  OBVIOUS
      <3>2. <<>> # Absent  BY <3>1, JournalAssumption DEF Bytes
      <3>3. files \in [Cases -> Seq(Bytes) \cup {Absent}]
        BY DEF IInv, JournalInv, JournalTypeOK
      <3> QED  BY <1>0, <2>1, <2>3, <3>2, <3>3 DEF FileOpened
    <2>6. AtWriter'
      BY <2>1, <2>2, <2>3, <2>4, <2>5 DEF FileOpened, AtWriter, Running, Awaits
    <2>7. Durable(caseNo) = <<>>
      BY <2>3 DEF Durable
    <2>8. AtPlace(Durable(caseNo), exec.action)'
      BY <1>b, <2>1, <2>2, <2>3, <2>7, ObservedOfEmpty DEF AtPlace, Closed, Current
    <2> QED  BY <2>2, <2>6, <2>8 DEF AtStarted
  <1>3. CASE BeginAction
    <2>0. /\ exec.place = "begin" /\ writer = "idle" /\ request = NoRequest
          /\ Closed(Durable(caseNo), exec.action - 1)
          /\ Observations(Durable(caseNo)) = adapter.sequence
          /\ UNCHANGED <<caseNo, adapter, started>>
      BY <1>3, <1>a DEF BeginAction, AtWriter, AtPlace, Running, Awaits
    <2>1. CASE exec.action \in Actions
      <3>1. /\ Send(Intent(exec.action)) /\ GoTo("awaitIntent")
            /\ Intent(exec.action) \in Records /\ "awaitIntent" \in Awaits
        BY <1>3, <2>1, CaseRecords DEF BeginAction, Awaits
      <3>2. /\ AtWriter' /\ exec'.place = "awaitIntent" /\ exec'.action = exec.action
            /\ reply' = "waiting" /\ request' = Intent(exec.action)
        BY <1>0, <2>0, <3>1, WaitsForRecord DEF Running
      <3> QED  BY <1>b, <2>0, <3>2 DEF AtPlace, AtStarted
    <2>2. CASE exec.action \notin Actions
      <3>1. exec.action = ActionCount + 1 /\ exec.action - 1 = ActionCount
            /\ exec.action > 1
        BY <1>0, <2>2, PlanAssumption DEF Actions
      <3>2. <<caseNo, ActionCount>> \in started
        BY <1>a, <2>0, <3>1 DEF AtStarted
      <3>3. FinishWith("none")
        BY <1>3, <2>2 DEF BeginAction
      <3> QED  BY <1>0, <2>0, <3>1, <3>2, <3>3, Finishes DEF Running
    <2> QED  BY <2>1, <2>2
  <1>4. CASE IntentAppended
    <2>1. /\ exec.place = "awaitIntent" /\ reply = "ok" /\ GoTo("effect")
          /\ started' = started \cup {<<caseNo, exec.action>>}
          /\ UNCHANGED <<journalVars, caseNo, adapter>>
      BY <1>4 DEF IntentAppended, MayBegin, Acknowledged
    <2>2. exec'.place = "effect" /\ exec'.action = exec.action
      BY <1>e, <2>1 DEF FuturePlaces, Running
    <2>3. AtWriter'
      BY <1>a, <2>1, <2>2 DEF AtWriter, Running, Awaits, journalVars
    <2>4. AtPlace(Durable(caseNo), exec.action)'
      BY <1>a, <1>b, <2>1, <2>2 DEF AtPlace
    <2> QED  BY <2>1, <2>2, <2>3, <2>4 DEF AtStarted
  <1>5. CASE AppendFails \/ EffectFails \/ DockerFails
    <2>1. PICK error \in Errors : FinishWith(error)
      BY <1>5 DEF AppendFails, EffectFails, DockerFails, Failures, Errors
    <2>2. /\ exec.place \in Running /\ UNCHANGED <<caseNo, started>>
          /\ exec.place \in Awaits => reply # "waiting" /\ reply # "ok"
          /\ exec.place \in Awaits \/ exec.place \in {"effect", "docker"}
      BY <1>5 DEF AppendFails, EffectFails, DockerFails, Running, Awaits
    <2>3. request = NoRequest
      BY <1>a, <2>2 DEF AtWriter, Running, Awaits
    <2>4. error # "none"
      BY <2>1 DEF Errors
    <2> QED  BY <1>0, <2>1, <2>2, <2>3, <2>4, Finishes
  <1>6. ASSUME exec.place \in {"effect", "docker"}, GoTo("observe"),
               UNCHANGED <<journalVars, caseNo, adapter, started>>
        PROVE  AtWriter' /\ AtPlace(Durable(caseNo), exec.action)' /\ AtStarted'
    <2>1. exec'.place = "observe" /\ exec'.action = exec.action
      BY <1>e, <1>6 DEF FuturePlaces, Running
    <2>2. AtWriter'
      BY <1>a, <1>6, <2>1 DEF AtWriter, Running, Awaits, journalVars
    <2>3. AtPlace(Durable(caseNo), exec.action)'
      BY <1>a, <1>b, <1>6, <2>1 DEF AtPlace
    <2> QED  BY <1>a, <1>6, <2>1, <2>2, <2>3 DEF AtStarted
  <1>7. ASSUME exec.place \in {"effect", "docker"}, RecordOutcome,
               UNCHANGED <<caseNo, started>>, adapter'.sequence = adapter.sequence
        PROVE  AtWriter' /\ AtPlace(Durable(caseNo), exec.action)' /\ AtStarted'
    <2>1. /\ writer = "idle" /\ <<caseNo, exec.action>> \in started
          /\ OpenAt(Durable(caseNo), exec.action, 1)
          /\ Observations(Durable(caseNo)) = adapter'.sequence
          /\ exec.place \in Running \ {"begin"}
      BY <1>a, <1>d, <1>7 DEF AtWriter, AtPlace, AtStarted, Running, Awaits
    <2> QED  BY <1>0, <1>7, <2>1, WaitsForOutcome
  <1>8. CASE HttpAnswered
    BY <1>6, <1>7, <1>8 DEF HttpAnswered, Performing
  <1>9. CASE RecordObservation
    <2> DEFINE record == Observation(exec.action, adapter.sequence + 1)
    <2>1. /\ exec.place = "observe" /\ Send(record) /\ GoTo("awaitObservation")
          /\ UNCHANGED <<caseNo, adapter, started>> /\ "awaitObservation" \in Awaits
      BY <1>9 DEF RecordObservation, Awaits
    <2>2. record \in Records
      BY <1>0, <2>1, CaseRecords DEF Running
    <2>3. writer = "idle" /\ exec.place \in Running
      BY <1>a, <2>1 DEF AtWriter, Running, Awaits
    <2>4. /\ AtWriter' /\ exec'.place = "awaitObservation"
          /\ exec'.action = exec.action /\ reply' = "waiting" /\ request' = record
      <3> HIDE DEF record
      <3> QED  BY <1>0, <2>1, <2>2, <2>3, WaitsForRecord
    <2> QED  BY <1>a, <1>b, <2>1, <2>4 DEF AtPlace, AtStarted
  <1>10. CASE ObservationAppended
    <2>1. /\ exec.place = "awaitObservation" /\ reply = "ok" /\ RecordOutcome
          /\ adapter' = [adapter EXCEPT !.sequence = @ + 1,
                            !.healthy = @ /\ Plan[exec.action] # "kill"]
          /\ UNCHANGED <<caseNo, started>>
      BY <1>10 DEF ObservationAppended, Acknowledged
    <2>2. adapter'.sequence = adapter.sequence + 1
      BY <2>1 DEF IInv, RunTypeOK, Adapters
    <2>3. /\ writer = "idle" /\ <<caseNo, exec.action>> \in started
          /\ OpenAt(Durable(caseNo), exec.action, 1)
          /\ Observations(Durable(caseNo)) = adapter'.sequence
          /\ exec.place \in Running \ {"begin"}
      BY <1>a, <2>1, <2>2 DEF AtWriter, AtPlace, AtStarted, Running, Awaits
    <2> QED  BY <1>0, <2>1, <2>3, WaitsForOutcome
  <1>11. CASE IssueDocker
    <2>1. /\ exec.place = "effect" /\ GoTo("docker")
          /\ UNCHANGED <<journalVars, caseNo, adapter, started>>
      BY <1>11 DEF IssueDocker, Performing
    <2>2. exec'.place = "docker" /\ exec'.action = exec.action
      BY <1>e, <2>1 DEF FuturePlaces, Running
    <2>3. AtWriter'
      BY <1>a, <2>1, <2>2 DEF AtWriter, Running, Awaits, journalVars
    <2>4. AtPlace(Durable(caseNo), exec.action)'
      BY <1>a, <1>b, <2>1, <2>2 DEF AtPlace
    <2> QED  BY <1>a, <2>1, <2>2, <2>3, <2>4 DEF AtStarted
  <1>12. CASE DockerAnswered
    <2>1. /\ exec.place = "docker" /\ UNCHANGED <<caseNo, started>>
          /\ \/ /\ adapter' = [adapter EXCEPT !.healthy = (Plan[exec.action] = "restart")]
                /\ RecordOutcome
             \/ GoTo("observe") /\ UNCHANGED <<journalVars, adapter>>
      BY <1>12 DEF DockerAnswered
    <2>2. adapter'.sequence = adapter.sequence
      BY <2>1 DEF IInv, RunTypeOK, Adapters
    <2> QED  BY <1>6, <1>7, <2>1, <2>2
  <1>13. CASE ReachBoundary
    <2>1. /\ exec.place = "effect" /\ UNCHANGED <<caseNo, started>> /\ RecordOutcome
          /\ adapter' = [adapter EXCEPT !.quiesced = (Plan[exec.action] = "wait"),
                                        !.checkpoint = (Plan[exec.action] = "check")]
      BY <1>13 DEF ReachBoundary, Performing
    <2>2. adapter'.sequence = adapter.sequence
      BY <2>1 DEF IInv, RunTypeOK, Adapters
    <2> QED  BY <1>7, <2>1, <2>2
  <1>14. CASE OutcomeAppended
    <2>1. /\ exec.place = "awaitOutcome" /\ reply = "ok"
          /\ exec' = [exec EXCEPT !.place = "begin", !.action = @ + 1]
          /\ UNCHANGED <<journalVars, caseNo, adapter, started>>
      BY <1>14 DEF OutcomeAppended, Acknowledged
    <2>2. exec.action \in Actions
      BY <1>0, <2>1 DEF Running, Awaits
    <2>3. exec'.place = "begin" /\ exec'.action = exec.action + 1
      BY <1>0, <2>1, <2>2, FutureProceeds
    <2>4. exec'.action - 1 = exec.action
      BY <1>0, <2>3
    <2>5. AtWriter'
      BY <1>a, <2>1, <2>3 DEF AtWriter, Running, Awaits, journalVars
    <2>6. AtPlace(Durable(caseNo), exec.action)'
      BY <1>a, <1>b, <2>1, <2>3, <2>4 DEF AtPlace
    <2> QED  BY <1>a, <2>1, <2>3, <2>4, <2>5, <2>6 DEF AtStarted
  <1>15. CASE JournalNotCreated \/ JournalFinished
    BY <1>15 DEF JournalNotCreated, JournalFinished, Supervised
  <1> QED
    BY <1>1, <1>2, <1>3, <1>4, <1>5, <1>8, <1>9, <1>10, <1>11, <1>12, <1>13, <1>14,
       <1>15 DEF ExecutorStep

\* A journal file that exists is never taken away, and only an open makes one.
LEMMA FilesStay ==
  ASSUME JournalInv, JournalStep
  PROVE  /\ \A c \in Cases : files[c] # Absent => files'[c] # Absent
         /\ \A c \in Cases : files[c] = Absent /\ ~ (c = journaled /\ writer = "opening")
               => files'[c] = Absent
  <1>0. /\ files \in [Cases -> Seq(Bytes) \cup {Absent}] /\ synced \in [Cases -> Nat]
        /\ journaled \in Cases /\ Torn \in Bytes /\ Records \subseteq Bytes
        /\ request \in Records \cup {NoRequest} /\ Absent \notin Seq(Bytes)
    BY JournalAssumption DEF JournalInv, JournalTypeOK, Bytes
  <1> SUFFICES ASSUME NEW c \in Cases
               PROVE  /\ files[c] # Absent => files'[c] # Absent
                      /\ files[c] = Absent /\ ~ (c = journaled /\ writer = "opening")
                         => files'[c] = Absent
    OBVIOUS
  <1>1. CASE files' = files
    BY <1>1
  <1>2. ASSUME NEW waits, FileOpened(waits)
        PROVE  /\ files[c] # Absent => files'[c] # Absent
               /\ files[c] = Absent /\ ~ (c = journaled /\ writer = "opening")
                         => files'[c] = Absent
    <2>1. <<>> \in Seq(Bytes)  OBVIOUS
    <2> QED  BY <1>0, <1>2, <2>1 DEF FileOpened
  <1>3. ASSUME NEW byte \in Bytes, writer = "writing",
               files' = [files EXCEPT ![journaled] = Append(@, byte)]
        PROVE  /\ files[c] # Absent => files'[c] # Absent
               /\ files[c] = Absent /\ ~ (c = journaled /\ writer = "opening")
                         => files'[c] = Absent
    <2>1. files[journaled] \in Seq(Bytes)
      BY <1>0, <1>3 DEF JournalInv, WriterFile, Active
    <2>2. Append(files[journaled], byte) \in Seq(Bytes)
      BY <2>1
    <2> QED  BY <1>0, <1>3, <2>1, <2>2
  <1>4. CASE Write
    <2>1. request \in Bytes
      BY <1>0, <1>4 DEF Write, JournalInv, WriterFile
    <2> QED  BY <1>3, <1>4, <2>1 DEF Write
  <1>5. CASE WriteFails
    BY <1>0, <1>1, <1>3, <1>5 DEF WriteFails
  <1>6. CASE LoseUnsynced
    <2>1. PICK kept \in synced[journaled] ..
                    (IF files[journaled] = Absent THEN 0 ELSE Len(files[journaled])) :
             files' = [d \in Cases |->
                         IF files[d] = Absent THEN Absent
                         ELSE SubSeq(files[d], 1, IF d = journaled THEN kept
                                                  ELSE synced[d])]
      BY <1>6 DEF LoseUnsynced
    <2>2. CASE files[c] = Absent
      BY <2>1, <2>2
    <2>3. CASE files[c] # Absent
      <3> DEFINE m == IF c = journaled THEN kept ELSE synced[c]
      <3>1. files[c] \in Seq(Bytes) /\ synced[c] <= Len(files[c]) /\ synced[c] \in Nat
        BY <1>0, <2>3 DEF JournalInv, SyncedInFile
      <3>2. m \in Nat /\ m <= Len(files[c])
        BY <2>1, <2>3, <3>1
      <3>3. files'[c] = SubSeq(files[c], 1, m)
        BY <2>1, <2>3
      <3>4. SubSeq(files[c], 1, m) \in Seq(Bytes)
        BY <3>1, <3>2, DurableIsPrefix
      <3> QED  BY <1>0, <2>3, <3>3, <3>4
    <2> QED  BY <2>2, <2>3
  <1> QED
    BY <1>1, <1>2, <1>4, <1>5, <1>6
       DEF JournalStep, CallerStep, WriterStep, BeginCreate, FileNotOpened, Send,
           CloseChannel, TakeRequest, Sync, FinalSync, journalVars

\* What the writer does while the future is there.
LEMMA WriterKeepsPlace ==
  ASSUME IInv, phase = "exec", WriterStep,
         UNCHANGED <<phase, caseNo, exec, adapter, started>>
  PROVE  AtWriter' /\ AtPlace(Durable(caseNo), exec.action)' /\ AtStarted'
  <1>0. /\ AtWriter /\ AtPlace(Durable(caseNo), exec.action) /\ AtStarted
        /\ caseNo \in Cases /\ JournalInv
        /\ exec.place \in Running \ {"begin"} => exec.action \in Actions
    BY DEF IInv, ExecInv, Places
  <1>a. AtStarted'
    BY <1>0 DEF AtStarted
  <1>b. /\ files[caseNo] # Absent => files'[caseNo] # Absent
        /\ journaled' = journaled /\ sender' = sender
        /\ reply' # "refused"
    BY <1>0, FilesStay, RequestsKept
       DEF JournalStep, WriterStep, TakeRequest, Write, Sync, WriteFails, FinalSync
  <1>c. ASSUME ~ Sync PROVE Durable(caseNo)' = Durable(caseNo)
    BY <1>0, <1>c, OnlySyncAppends DEF JournalStep
  <1>1. ASSUME request # NoRequest
        PROVE  exec.place \in Awaits /\ reply = "waiting" /\ writer \in Active
    <2>1. writer \in Active
      BY <1>0, <1>1 DEF JournalInv, WriterFile
    <2>2. exec.place \in FuturePlaces /\ exec.place # "gone"
      BY DEF IInv, RunTypeOK, Futures, Places
    <2> QED
      BY <1>0, <1>1, <2>1, <2>2 DEF AtWriter, FuturePlaces, Running, Awaits, Active
  <1>2. CASE TakeRequest
    <2>1. exec.place \in Awaits /\ reply = "waiting" /\ writer = "idle"
      BY <1>1, <1>2 DEF TakeRequest
    <2>2. writer' = "writing" /\ UNCHANGED <<request, reply, files, synced>>
      BY <1>2, <1>b, <2>1 DEF TakeRequest, Answer
    <2>3. AtWriter'
      BY <1>0, <1>b, <2>1, <2>2 DEF AtWriter, Awaits, Running, Active
    <2>4. ~ Sync
      BY <2>1 DEF Sync
    <2>5. AtPlace(Durable(caseNo), exec.action)'
      BY <1>0, <1>c, <2>2, <2>4 DEF AtPlace
    <2> QED  BY <1>a, <2>3, <2>5
  <1>3. CASE Write
    <2>1. exec.place \in Awaits /\ reply = "waiting"
      BY <1>0, <1>1, <1>3 DEF Write, JournalInv, WriterFile
    <2>2. writer = "writing" /\ writer' = "syncing" /\ UNCHANGED <<request, reply, synced>>
      BY <1>3 DEF Write
    <2>3. AtWriter'
      BY <1>0, <1>b, <2>1, <2>2 DEF AtWriter, Awaits, Running, Active
    <2>4. ~ Sync
      BY <2>2 DEF Sync
    <2>5. AtPlace(Durable(caseNo), exec.action)'
      BY <1>0, <1>c, <2>2, <2>4 DEF AtPlace
    <2> QED  BY <1>a, <2>3, <2>5
  <1>4. CASE WriteFails
    <2>1. exec.place \in Awaits /\ reply = "waiting"
      BY <1>0, <1>1, <1>4 DEF WriteFails, JournalInv, WriterFile
    <2>2. /\ writer \in {"writing", "syncing"} /\ writer' = "failed"
          /\ request' = NoRequest /\ reply' = "ioError" /\ UNCHANGED synced
      BY <1>4, <2>1 DEF WriteFails, Answer
    <2>3. AtWriter'
      BY <1>0, <1>b, <2>1, <2>2 DEF AtWriter, Awaits, Running, Active
    <2>4. ~ Sync
      BY <2>2 DEF Sync
    <2>5. AtPlace(Durable(caseNo), exec.action)'
      BY <1>0, <1>c, <2>1, <2>2, <2>4 DEF AtPlace
    <2> QED  BY <1>a, <2>3, <2>5
  <1>5. CASE FinalSync
    <2>1. /\ writer = "idle" /\ request = NoRequest /\ ~ sender
          /\ writer' \in {"done", "failed"} /\ UNCHANGED <<files, request, reply>>
          /\ writer' = "done" => synced' = [synced EXCEPT ![journaled] = Len(files[journaled])]
      BY <1>5 DEF FinalSync
    <2>2. exec.place = "finish"
      <3>1. exec.place \in FuturePlaces /\ exec.place # "gone"
        BY DEF IInv, RunTypeOK, Futures, Places
      <3> QED  BY <1>0, <2>1, <3>1 DEF AtWriter, FuturePlaces
    <2>3. synced \in [Cases -> Nat] /\ journaled = caseNo
      BY <1>0, <2>2 DEF JournalInv, JournalTypeOK, AtWriter
    <2>4. writer' = "done" => synced'[caseNo] = Len(files'[caseNo])
      BY <1>0, <2>1, <2>3
    <2>5. AtWriter'
      BY <1>0, <1>b, <2>1, <2>2, <2>4 DEF AtWriter, Awaits, Running
    <2>6. ~ Sync
      BY <2>1 DEF Sync
    <2>7. AtPlace(Durable(caseNo), exec.action)'
      BY <1>0, <1>c, <2>1, <2>6 DEF AtPlace
    <2> QED  BY <1>a, <2>5, <2>7
  <1>6. CASE Sync
    <2>1. exec.place \in Awaits /\ reply = "waiting" /\ writer = "syncing"
      BY <1>0, <1>1, <1>6 DEF Sync, JournalInv, WriterFile
    <2>2. /\ writer' = "idle" /\ request' = NoRequest /\ reply' = "ok"
      BY <1>6, <2>1 DEF Sync, Acknowledge, Answer
    <2>3. journaled = caseNo /\ exec.action \in Actions
          /\ Durable(caseNo) \in Seq(Records)
      BY <1>0, <2>1, DurableIsLog DEF AtWriter, JournalInv, Running, Awaits
    <2>4. Durable(caseNo)' = Append(Durable(caseNo), request)
      BY <1>0, <1>6, <2>3, SyncAppends
    <2>5. AtWriter'
      BY <1>0, <1>b, <2>1, <2>2 DEF AtWriter, Awaits, Running
    <2> DEFINE log == Durable(caseNo)
               k == exec.action
    <2>6. CASE exec.place = "awaitIntent"
      <3>1. /\ request = Intent(k) /\ Closed(log, k - 1)
            /\ Observations(log) = adapter.sequence
        BY <1>0, <2>1, <2>6 DEF AtPlace
      <3>2. LET arrived == Append(log, Intent(k)) IN
            /\ OpenAt(arrived, k, 0) /\ arrived[Len(arrived)] = Intent(k)
            /\ Observations(arrived) = Observations(log)
        BY <2>3, <3>1, RecordsArrive
      <3> QED  BY <1>a, <2>2, <2>4, <2>5, <2>6, <3>1, <3>2 DEF AtPlace
    <2>7. CASE exec.place = "awaitObservation"
      <3>1. /\ request = Observation(k, Observations(log) + 1) /\ OpenAt(log, k, 0)
            /\ Observations(log) = adapter.sequence
        BY <1>0, <2>1, <2>7 DEF AtPlace
      <3>2. LET arrived == Append(log, Observation(k, Observations(log) + 1)) IN
            OpenAt(arrived, k, 1) /\ Observations(arrived) = Observations(log) + 1
        BY <2>3, <3>1, RecordsArrive
      <3> QED  BY <1>a, <2>2, <2>4, <2>5, <2>7, <3>1, <3>2 DEF AtPlace
    <2>8. CASE exec.place = "awaitOutcome"
      <3>1. /\ request = OutcomeOf(k) /\ OpenAt(log, k, 1)
            /\ Observations(log) = adapter.sequence
        BY <1>0, <2>1, <2>8 DEF AtPlace
      <3>2. LET arrived == Append(log, OutcomeOf(k)) IN
            Closed(arrived, k) /\ Observations(arrived) = Observations(log)
        BY <2>3, <3>1, RecordsArrive
      <3> QED  BY <1>a, <2>2, <2>4, <2>5, <2>8, <3>1, <3>2 DEF AtPlace
    <2> QED  BY <2>1, <2>6, <2>7, <2>8 DEF Awaits
  <1> QED  BY <1>2, <1>3, <1>4, <1>5, <1>6 DEF WriterStep

\* The place of the future, its log, its writer, and what it has begun.
LEMMA ExecKept == ASSUME IInv, [Next]_vars PROVE ExecInv'
  <1>1. CASE ExecutorStep
    BY <1>1, ExecutorKeepsPlace DEF ExecInv
  <1>2. CASE Writer
    BY <1>2, WriterKeepsPlace DEF Writer, ExecInv, runVars, caseVars
  <1>3. CASE SupervisorStep /\ ~ ResetCase
    <2>1. phase' # "exec"
      <3> USE DEF Fail, Supervised, recoveryFrame, runVars, caseVars
      <3> QED
        BY <1>3
           DEF SupervisorStep, StartRun, Attest, NextCase, TimedOut, CancelledCase, Drop,
               InspectApplication, ApplicationStarted, ApplicationHealthy, RecoveryFails,
               SettleCase, Evaluate, SnapshotCase, WriteManifest, Publish, SyncBase
    <2> QED  BY <2>1 DEF ExecInv
  <1>4. CASE ResetCase
    <2> SUFFICES ASSUME phase' = "exec" PROVE ExecInv'
      BY DEF ExecInv
    <2>1. /\ phase = "reset" /\ UNCHANGED <<journalVars, caseNo, started>>
          /\ exec' = [place |-> "fixture", action |-> 1, error |-> "none"]
          /\ adapter' = FreshAdapter
      BY <1>4 DEF ResetCase, Fail
    <2>2. /\ caseNo \in Cases /\ files[caseNo] = Absent /\ writer \in {"none", "done"}
      <3>1. caseNo \in Cases /\ caseNo >= caseNo
        BY <2>1 DEF IInv, Places, Cases
      <3> QED  BY <2>1, <3>1 DEF IInv, CasesDone, Between
    <2>3. exec'.place = "fixture" /\ exec'.action = 1
      BY <2>1
    <2> QED
      BY <2>1, <2>2, <2>3
         DEF ExecInv, AtWriter, AtPlace, AtStarted, Running, Awaits, journalVars
  <1>5. CASE AbandonedOpen \/ Crash
    BY <1>5 DEF AbandonedOpen, Crash, runVars, ExecInv
  <1>6. CASE Cancel \/ Docker \/ UNCHANGED vars
    <2>1. UNCHANGED <<journalVars, phase, caseNo, exec, adapter, started>>
      BY <1>6 DEF Cancel, Docker, vars, runVars, caseVars
    <2>2. UNCHANGED <<files, synced, journaled, writer, request, sender, reply>>
      BY <2>1 DEF journalVars
    <2>3. Durable(caseNo)' = Durable(caseNo)
      BY <2>1, <2>2 DEF Durable
    <2> QED
      BY <2>1, <2>2, <2>3 DEF IInv, ExecInv, AtWriter, AtPlace, AtStarted
  <1> QED  BY <1>1, <1>2, <1>3, <1>4, <1>5, <1>6 DEF Next
-----------------------------------------------------------------------------
(* Write ahead.                                                             *)

\* What is on stable storage stays there.
LEMMA DurableStays ==
  ASSUME JournalInv, JournalStep, NEW c \in Cases, NEW i \in 1 .. Len(Durable(c))
  PROVE  i \in 1 .. Len(Durable(c)') /\ Durable(c)'[i] = Durable(c)[i]
  <1>1. Durable(c) \in Seq(Records)
    BY DurableIsLog DEF JournalInv
  <1>2. CASE Sync
    <2>1. request \in Records
          /\ (Durable(c)' = Append(Durable(c), request) \/ Durable(c)' = Durable(c))
      BY <1>2, SyncAppends
    <2> QED  BY <1>1, <2>1, EndOfAppend
  <1>3. CASE ~ Sync
    BY <1>1, <1>3, OnlySyncAppends
  <1> QED  BY <1>2, <1>3

\* Only an acknowledged intent begins an effect.
LEMMA OnlyIntentsBegin ==
  ASSUME IInv, [Next]_vars, ~ IntentAppended
  PROVE  started' = started
  <1> USE DEF caseVars, processVars, stackVars, executorFrame, Supervised
  <1>1. CASE ExecutorStep
    BY <1>1
       DEF ExecutorStep, ResetFixture, JournalCreated, JournalNotCreated, BeginAction,
           AppendFails, HttpAnswered, EffectFails, RecordObservation,
           ObservationAppended, IssueDocker, DockerAnswered, DockerFails, ReachBoundary,
           OutcomeAppended, JournalFinished
  <1>2. CASE SupervisorStep
    BY <1>2
       DEF SupervisorStep, StartRun, Attest, NextCase, ResetCase, TimedOut, CancelledCase,
           Drop, InspectApplication, ApplicationStarted, ApplicationHealthy,
           RecoveryFails, SettleCase, Evaluate, SnapshotCase, WriteManifest, Publish,
           SyncBase, recoveryFrame
  <1>3. CASE Writer \/ AbandonedOpen \/ Cancel \/ Docker \/ Crash \/ UNCHANGED vars
    BY <1>3 DEF Writer, AbandonedOpen, Cancel, Docker, Crash, vars
  <1> QED  BY <1>1, <1>2, <1>3 DEF Next

\* Each step keeps the intents of what has begun: they stay where they are, and
\* what begins finds its intent acknowledged.
LEMMA IntentsStay == ASSUME IInv, [Next]_vars PROVE JournalFirst'
  <1>0. JournalStep /\ JournalInv /\ JournalFirst
    BY JournalInvKept DEF IInv
  <1> SUFFICES ASSUME NEW c \in Cases, NEW k \in Actions, <<c, k>> \in started'
               PROVE  \E i \in 1 .. Len(Durable(c)') :
                         Durable(c)'[i].kind = "intent" /\ Durable(c)'[i].action = k
    BY DEF JournalFirst
  <1>1. CASE <<c, k>> \in started
    <2>1. PICK i \in 1 .. Len(Durable(c)) :
             Durable(c)[i].kind = "intent" /\ Durable(c)[i].action = k
      BY <1>0, <1>1 DEF JournalFirst
    <2>2. i \in 1 .. Len(Durable(c)') /\ Durable(c)'[i] = Durable(c)[i]
      BY <1>0, DurableStays
    <2> QED  BY <2>1, <2>2
  <1>2. CASE <<c, k>> \notin started
    <2>1. IntentAppended
      BY <1>2, OnlyIntentsBegin
    <2>2. /\ Polled("awaitIntent") /\ reply = "ok" /\ UNCHANGED journalVars
          /\ started' = started \cup {<<caseNo, exec.action>>}
      BY <2>1 DEF IntentAppended, MayBegin, Acknowledged
    <2>3. c = caseNo /\ k = exec.action
      BY <1>2, <2>2
    <2> DEFINE log == Durable(c)
    <2>4. log \in Seq(Records) /\ log # <<>> /\ log[Len(log)] = Intent(k)
      BY <2>2, <2>3, Polls DEF AtPlace, OpenAt, Open
    <2>5. Durable(c)' = log
      BY <2>2 DEF Durable, journalVars
    <2>6. Len(log) \in 1 .. Len(log)
      BY <2>4
    <2>7. Intent(k).kind = "intent" /\ Intent(k).action = k
      BY DEF Intent
    <2> HIDE DEF log
    <2> QED  BY <2>4, <2>5, <2>6, <2>7
  <1> QED  BY <1>1, <1>2
-----------------------------------------------------------------------------
(* The class of a failure.                                                  *)

\* The first cause is kept, whatever follows.
LEMMA CauseKept == ASSUME IInv, [Next]_vars PROVE CauseInv'
  <1>0. CauseInv /\ RunTypeOK
    BY DEF IInv
  <1>1. CASE ExecutorStep
    <2>1. /\ phase = "exec" /\ phase' \in {"exec", "recover"}
          /\ UNCHANGED <<cause, cancelled>>
      BY <1>1, ExecutorMoves, ExecutorTyped
    <2>2. phase' = "exec" => outcome' = outcome
      BY <1>1
         DEF ExecutorStep, ResetFixture, JournalCreated, JournalNotCreated, BeginAction,
             IntentAppended, AppendFails, HttpAnswered, EffectFails, RecordObservation,
             ObservationAppended, IssueDocker, DockerAnswered, DockerFails, ReachBoundary,
             OutcomeAppended, JournalFinished, Supervised, executorFrame
    <2>3. phase' = "recover" => outcome' \in {"ok"} \cup Errors
      <3>1. CASE ResetFixture \/ JournalNotCreated
        BY <2>1, <3>1 DEF ResetFixture, JournalNotCreated, Supervised, Errors
      <3>2. CASE JournalFinished
        <4>1. exec.error \in Errors \cup {"none"}
          BY <1>0 DEF RunTypeOK, Futures
        <4> QED  BY <3>2, <4>1 DEF JournalFinished, Supervised, Errors
      <3>3. CASE ~ (ResetFixture \/ JournalNotCreated \/ JournalFinished)
        BY <1>1, <2>1, <3>3
           DEF ExecutorStep, JournalCreated, BeginAction,
               IntentAppended, AppendFails, HttpAnswered, EffectFails, RecordObservation,
               ObservationAppended, IssueDocker, DockerAnswered, DockerFails, ReachBoundary,
               OutcomeAppended, executorFrame, runVars
      <3> QED  BY <3>1, <3>2, <3>3
    <2> QED
      BY <1>0, <2>1, <2>2, <2>3 DEF CauseInv, CauseIsFirst, Between, After, Errors
  <1>2. CASE SupervisorStep
    <2> USE <1>0 DEF CauseInv, CauseIsFirst, Between, After, Errors, RunTypeOK, Fail,
            runVars, caseVars, processVars, stackVars
    <2>1. CASE StartRun  BY <2>1 DEF StartRun
    <2>2. CASE Attest  BY <2>2 DEF Attest
    <2>3. CASE NextCase  BY <2>3 DEF NextCase
    <2>4. CASE ResetCase  BY <2>4 DEF ResetCase
    <2>5. CASE TimedOut  BY <2>5 DEF TimedOut, Drop, Supervised
    <2>6. CASE CancelledCase  BY <2>6 DEF CancelledCase, Drop, Supervised
    <2>7. CASE InspectApplication  BY <2>7 DEF InspectApplication, recoveryFrame
    <2>8. CASE ApplicationStarted  BY <2>8 DEF ApplicationStarted, recoveryFrame
    <2>9. CASE ApplicationHealthy  BY <2>9 DEF ApplicationHealthy
    <2>10. CASE RecoveryFails  BY <2>10 DEF RecoveryFails
    <2>11. CASE SettleCase
      <3>1. PICK closed \in BOOLEAN :
               IF Settlement(closed) = "none"
                 THEN phase' = "snapshot" /\ UNCHANGED cause
                 ELSE Fail(Settlement(closed))
        BY <2>11 DEF SettleCase
      <3>2. phase = "settle" /\ UNCHANGED <<outcome, recovery, cancelled>>
            /\ outcome # "none"
        BY <2>11 DEF SettleCase
      <3>3. CASE outcome = "ok"
        BY <3>1, <3>2, <3>3 DEF Settlement
      <3>4. CASE outcome # "ok"
        BY <3>1, <3>2, <3>4 DEF Settlement, ClassOf
      <3> QED  BY <3>3, <3>4
    <2>12. CASE Evaluate  BY <2>12 DEF Evaluate
    <2>13. CASE SnapshotCase  BY <2>13 DEF SnapshotCase
    <2>14. CASE WriteManifest  BY <2>14 DEF WriteManifest
    <2>15. CASE Publish  BY <2>15 DEF Publish
    <2>16. CASE SyncBase  BY <2>16 DEF SyncBase
    <2> QED
      BY <1>2, <2>1, <2>2, <2>3, <2>4, <2>5, <2>6, <2>7, <2>8, <2>9, <2>10, <2>11, <2>12,
         <2>13, <2>14, <2>15, <2>16 DEF SupervisorStep
  <1>3. CASE Crash
    BY <1>0, <1>3
       DEF Crash, CauseInv, CauseIsFirst, Between, After, caseVars, processVars, stackVars
  <1>4. CASE Cancel
    BY <1>0, <1>4
       DEF Cancel, CauseInv, CauseIsFirst, caseVars, processVars, stackVars
  <1>5. CASE Writer \/ AbandonedOpen \/ Docker \/ UNCHANGED vars
    BY <1>0, <1>5
       DEF Writer, AbandonedOpen, Docker, vars, CauseInv, CauseIsFirst, runVars, caseVars,
           processVars, stackVars
  <1> QED  BY <1>1, <1>2, <1>3, <1>4, <1>5 DEF Next
-----------------------------------------------------------------------------
(* The cases that are done.                                                 *)

\* A journal that is whole and has no writer is not touched any more, and
\* survives a crash.
LEMMA WholeFilesStay ==
  ASSUME JournalInv, JournalStep, NEW c \in Cases,
         c = journaled => writer \in {"none", "done"},
         files[c] # Absent, synced[c] = Len(files[c])
  PROVE  files'[c] = files[c] /\ synced'[c] = synced[c]
  <1>0. /\ files \in [Cases -> Seq(Bytes) \cup {Absent}] /\ synced \in [Cases -> Nat]
        /\ journaled \in Cases
    BY DEF JournalInv, JournalTypeOK
  <1>1. CASE WriterStep
    BY <1>0, <1>1 DEF WriterStep, TakeRequest, Write, Sync, WriteFails, FinalSync
  <1>2. CASE LoseUnsynced
    <2>1. PICK kept \in synced[journaled] ..
                    (IF files[journaled] = Absent THEN 0 ELSE Len(files[journaled])) :
             files' = [d \in Cases |->
                         IF files[d] = Absent THEN Absent
                         ELSE SubSeq(files[d], 1, IF d = journaled THEN kept
                                                  ELSE synced[d])]
      BY <1>2 DEF LoseUnsynced
    <2>2. files[c] \in Seq(Bytes) /\ Len(files[c]) \in Nat
      BY <1>0
    <2>3. files'[c] = SubSeq(files[c], 1, Len(files[c]))
      BY <2>1, <2>2
    <2>4. SubSeq(files[c], 1, Len(files[c])) = files[c]
      BY <2>2
    <2> QED  BY <1>2, <2>3, <2>4 DEF LoseUnsynced
  <1>3. ASSUME NEW waits, FileOpened(waits) PROVE files'[c] = files[c] /\ synced'[c] = synced[c]
    BY <1>0, <1>3 DEF FileOpened
  <1> QED
    BY <1>1, <1>2, <1>3
       DEF JournalStep, CallerStep, BeginCreate, FileNotOpened, Send, CloseChannel,
           journalVars

\* The journal of a case that is done is not touched any more.
LEMMA DoneStays ==
  ASSUME IInv, [Next]_vars, NEW c \in Cases,
         c = journaled => writer \in {"none", "done"}, CaseDone(c)
  PROVE  CaseDone(c)' /\ files'[c] = files[c]
  <1>1. files'[c] = files[c] /\ synced'[c] = synced[c]
    BY JournalInvKept, WholeFilesStay DEF IInv, CaseDone
  <1>2. started \subseteq started'
    <2>1. CASE IntentAppended  BY <2>1 DEF IntentAppended
    <2>2. CASE ~ IntentAppended  BY <2>2, OnlyIntentsBegin
    <2> QED  BY <2>1, <2>2
  <1>3. Durable(c)' = Durable(c)
    BY <1>1 DEF Durable
  <1> QED  BY <1>1, <1>2, <1>3 DEF CaseDone

\* A writer that is not there, or is done, is followed by none but the next
\* case's.
LEMMA WriterStays ==
  ASSUME IInv, [Next]_vars, writer \in {"none", "done"}, ~ ResetFixture
  PROVE  writer' \in {"none", "done"} /\ (phase' # "crashed" => writer' = writer)
  <1>1. CASE ExecutorStep
    BY <1>1
       DEF ExecutorStep, JournalCreated, JournalNotCreated, BeginAction,
           IntentAppended, AppendFails, HttpAnswered, EffectFails, RecordObservation,
           ObservationAppended, IssueDocker, DockerAnswered, DockerFails, ReachBoundary,
           OutcomeAppended, JournalFinished, RecordOutcome, FinishWith, Send,
           CloseChannel, FileOpened, FileNotOpened, journalVars
  <1>2. CASE SupervisorStep
    BY <1>2
       DEF SupervisorStep, StartRun, Attest, NextCase, ResetCase, TimedOut, CancelledCase,
           Drop, InspectApplication, ApplicationStarted, ApplicationHealthy,
           RecoveryFails, SettleCase, Evaluate, SnapshotCase, WriteManifest, Publish,
           SyncBase, recoveryFrame, CloseChannel, journalVars
  <1>3. CASE Writer
    BY <1>3 DEF Writer, WriterStep, TakeRequest, Write, Sync, WriteFails, FinalSync
  <1>4. CASE AbandonedOpen \/ Cancel \/ Docker \/ Crash \/ UNCHANGED vars
    BY <1>4
       DEF AbandonedOpen, Cancel, Docker, Crash, vars, FileOpened, FileNotOpened,
           LoseUnsynced, journalVars
  <1> QED  BY <1>1, <1>2, <1>3, <1>4 DEF Next

\* Only the evaluation of a case leads to the next one.
LEMMA CaseNoStays ==
  ASSUME IInv, [Next]_vars, ~ SnapshotCase
  PROVE  caseNo' = caseNo
  <1>1. CASE ExecutorStep
    BY <1>1, ExecutorMoves
  <1>2. CASE SupervisorStep
    BY <1>2
       DEF SupervisorStep, StartRun, Attest, NextCase, ResetCase, TimedOut, CancelledCase,
           Drop, InspectApplication, ApplicationStarted, ApplicationHealthy,
           RecoveryFails, SettleCase, Evaluate, SnapshotCase, WriteManifest, Publish,
           SyncBase, recoveryFrame, runVars
  <1>3. CASE Writer \/ AbandonedOpen \/ Cancel \/ Docker \/ Crash \/ UNCHANGED vars
    BY <1>3 DEF Writer, AbandonedOpen, Cancel, Docker, Crash, vars, runVars
  <1> QED  BY <1>1, <1>2, <1>3 DEF Next

\* How a campaign comes to a phase between the cases, after one, or at its end.
LEMMA PhaseSteps ==
  ASSUME IInv, [Next]_vars
  PROVE  /\ phase' \in Between => phase \in Between \/ SnapshotCase
         /\ phase' \in After =>
               \/ phase \in After /\ outcome' = outcome
               \/ phase = "exec" /\ (outcome' = "ok" => JournalFinished)
         /\ phase' \in Ends /\ cause' = "none" =>
               \/ phase \in Ends /\ cause = "none"
               \/ phase = "next" /\ caseNo \notin Cases
         /\ phase' \in {"rename", "syncBase", "ended"} => phase \in Ends
  <1>1. CASE ExecutorStep
    <2>1. phase = "exec" /\ phase' \in {"exec", "recover"}
      BY <1>1, ExecutorMoves
    <2>2. phase' = "recover" /\ outcome' = "ok" => JournalFinished
      BY <1>1, <2>1
         DEF ExecutorStep, ResetFixture, JournalCreated, JournalNotCreated, BeginAction,
             IntentAppended, AppendFails, HttpAnswered, EffectFails, RecordObservation,
             ObservationAppended, IssueDocker, DockerAnswered, DockerFails, ReachBoundary,
             OutcomeAppended, Supervised, executorFrame, runVars
    <2> QED  BY <2>1, <2>2 DEF Between, After, Ends
  <1>2. CASE SupervisorStep
    <2> USE DEF Between, After, Ends, Fail, runVars, caseVars
    <2>1. CASE SettleCase
      <3>1. phase = "settle" /\ phase' \in {"snapshot", "finalize"} /\ outcome' = outcome
        BY <2>1 DEF SettleCase
      <3>2. phase' = "finalize" => cause' # "none"
        BY <2>1 DEF SettleCase
      <3> QED  BY <3>1, <3>2
    <2>2. CASE TimedOut \/ CancelledCase
      BY <2>2 DEF TimedOut, CancelledCase, Drop, Supervised
    <2>3. CASE StartRun \/ Attest \/ NextCase \/ ResetCase
      BY <2>3 DEF StartRun, Attest, NextCase, ResetCase
    <2>4. CASE InspectApplication \/ ApplicationStarted \/ ApplicationHealthy
               \/ RecoveryFails \/ Evaluate
      BY <2>4
         DEF InspectApplication, ApplicationStarted, ApplicationHealthy,
             RecoveryFails, Evaluate, recoveryFrame
    <2>5. CASE SnapshotCase
      BY <2>5 DEF SnapshotCase
    <2>6. CASE WriteManifest \/ Publish \/ SyncBase
      BY <2>6 DEF WriteManifest, Publish, SyncBase
    <2> QED
      BY <1>2, <2>1, <2>2, <2>3, <2>4, <2>5, <2>6 DEF SupervisorStep
  <1>3. CASE Crash
    BY <1>3 DEF Crash, Between, After, Ends
  <1>4. CASE Writer \/ AbandonedOpen \/ Cancel \/ Docker \/ UNCHANGED vars
    BY <1>4
       DEF Writer, AbandonedOpen, Cancel, Docker, vars, runVars, caseVars, Ends
  <1> QED  BY <1>1, <1>2, <1>3, <1>4 DEF Next

\* The journals of the cases that have succeeded are whole, those of the cases to
\* come are not there, and the writer has gone with its case.
LEMMA CasesKept == ASSUME IInv, [Next]_vars PROVE CasesDone'
  <1>0. /\ CasesDone /\ JournalInv /\ JournalStep /\ RunTypeOK /\ CauseInv /\ Places
        /\ caseNo \in 1 .. CaseCount + 1 /\ CaseCount \in Nat
    BY JournalInvKept, JournalAssumption DEF IInv, RunTypeOK
  <1>a. SnapshotCase =>
           /\ phase = "snapshot" /\ UNCHANGED journalVars
           /\ caseNo \in Cases /\ CaseDone(caseNo) /\ writer = "done"
           /\ \/ phase' = "next" /\ caseNo' = caseNo + 1
              \/ phase' = "finalize" /\ caseNo' = caseNo /\ cause' # "none"
    <2> SUFFICES ASSUME SnapshotCase
                 PROVE  /\ phase = "snapshot" /\ UNCHANGED journalVars
                        /\ caseNo \in Cases /\ CaseDone(caseNo) /\ writer = "done"
                        /\ \/ phase' = "next" /\ caseNo' = caseNo + 1
                           \/ phase' = "finalize" /\ caseNo' = caseNo /\ cause' # "none"
      OBVIOUS
    <2>1. phase = "snapshot"
      BY DEF SnapshotCase
    <2>2. outcome = "ok" /\ caseNo \in Cases
      BY <1>0, <2>1 DEF CauseInv, Places, After
    <2>3. CaseDone(caseNo) /\ writer = "done"
      BY <1>0, <2>1, <2>2 DEF CasesDone, After
    <2> QED  BY <2>1, <2>2, <2>3 DEF SnapshotCase, Fail
  <1>b. ResetFixture => phase = "exec" /\ phase' \in {"exec", "recover"}
                        /\ UNCHANGED <<caseNo, cause>>
                        /\ (journaled' = caseNo \/ UNCHANGED journalVars)
    BY DEF ResetFixture, Polled, Supervised, BeginCreate
  <1>c. ASSUME NEW c \in Cases, files[c] = Absent,
               c = journaled => writer # "opening"
        PROVE  files'[c] = Absent
    BY <1>0, <1>c, FilesStay
  <1>1. \A c \in Cases : c < caseNo' => CaseDone(c)'
    <2> SUFFICES ASSUME NEW c \in Cases, c < caseNo' PROVE CaseDone(c)'
      OBVIOUS
    <2>1. CASE c < caseNo
      <3>1. CaseDone(c) /\ (c = journaled => writer \in {"none", "done"})
        BY <1>0, <2>1 DEF CasesDone, Cases
      <3> QED  BY <3>1, DoneStays
    <2>2. CASE ~ (c < caseNo)
      <3>1. SnapshotCase /\ c = caseNo
        <4>1. SnapshotCase  BY <2>2, CaseNoStays
        <4> QED  BY <1>0, <1>a, <2>2, <4>1 DEF Cases
      <3> QED  BY <1>a, <3>1, DoneStays
    <2> QED  BY <2>1, <2>2
  <1>2. \A c \in Cases : c > caseNo' => files'[c] = Absent
    <2> SUFFICES ASSUME NEW c \in Cases, c > caseNo' PROVE files'[c] = Absent
      OBVIOUS
    <2>1. c > caseNo /\ c # caseNo
      BY <1>0, <1>a, CaseNoStays DEF Cases
    <2> QED  BY <1>0, <1>c, <2>1 DEF CasesDone
  <1>3. phase' \in Between => \A c \in Cases : c >= caseNo' => files'[c] = Absent
    <2> SUFFICES ASSUME phase' \in Between, NEW c \in Cases, c >= caseNo'
                 PROVE  files'[c] = Absent
      OBVIOUS
    <2>1. CASE SnapshotCase
      <3>1. c > caseNo /\ UNCHANGED files
        BY <1>0, <1>a, <2>1 DEF Between, Cases, journalVars
      <3> QED  BY <1>0, <3>1 DEF CasesDone
    <2>2. CASE ~ SnapshotCase
      <3>1. phase \in Between /\ caseNo' = caseNo
        BY <2>2, PhaseSteps, CaseNoStays
      <3>2. files[c] = Absent /\ writer \in {"none", "done"}
        BY <1>0, <3>1 DEF CasesDone
      <3> QED  BY <1>c, <3>2
    <2> QED  BY <2>1, <2>2
  <1>4. phase' \in After /\ outcome' = "ok" => CaseDone(caseNo)' /\ writer' = "done"
    <2> SUFFICES ASSUME phase' \in After, outcome' = "ok"
                 PROVE  CaseDone(caseNo)' /\ writer' = "done"
      OBVIOUS
    <2>0. caseNo' = caseNo /\ phase' # "crashed" /\ ~ SnapshotCase
      BY <1>a, CaseNoStays DEF After
    <2>1. CASE phase \in After /\ outcome' = outcome
      <3>1. CaseDone(caseNo) /\ writer = "done" /\ caseNo \in Cases
        BY <1>0, <2>1 DEF CasesDone, Places
      <3>2. CaseDone(caseNo)'
        BY <2>0, <3>1, DoneStays
      <3>3. ~ ResetFixture
        BY <1>b, <2>1 DEF After
      <3> QED  BY <2>0, <3>1, <3>2, <3>3, WriterStays
    <2>2. CASE phase = "exec" /\ JournalFinished
      <3>1. /\ exec.place = "finish" /\ UNCHANGED journalVars /\ caseNo \in Cases
            /\ UNCHANGED started
            /\ AtWriter /\ AtPlace(Durable(caseNo), exec.action) /\ AtStarted
        BY <2>2, Polls DEF JournalFinished
      <3>2. exec.error = "none" /\ writer = "done"
        <4>1. exec.error \in Errors \cup {"none"}
          BY <1>0 DEF RunTypeOK, Futures
        <4>2. PICK materialised \in BOOLEAN :
                 outcome' = CASE exec.error # "none" -> exec.error
                              [] writer = "failed" \/ ~ materialised \/ ~ adapter.checkpoint
                                   -> "infrastructure"
                              [] OTHER -> "ok"
          BY <2>2 DEF JournalFinished, Supervised
        <4>3. exec.error = "none"
          BY <4>1, <4>2 DEF Errors
        <4> QED  BY <2>2, <4>2, <4>3 DEF JournalFinished
      <3>3. CaseDone(caseNo)
        BY <3>1, <3>2 DEF AtWriter, AtPlace, AtStarted, CaseDone
      <3>4. UNCHANGED <<files, synced, writer, started>>
        BY <3>1 DEF journalVars
      <3>5. Durable(caseNo)' = Durable(caseNo)
        BY <2>0, <3>4 DEF Durable
      <3> QED  BY <2>0, <3>2, <3>3, <3>4, <3>5 DEF CaseDone
    <2> QED  BY <2>1, <2>2, PhaseSteps
  <1>5. journaled' # caseNo' => writer' \in {"none", "done"}
    <2> SUFFICES ASSUME journaled' # caseNo' PROVE writer' \in {"none", "done"}
      OBVIOUS
    <2>1. CASE SnapshotCase
      BY <1>a, <2>1 DEF journalVars
    <2>2. CASE ResetFixture
      BY <1>0, <1>b, <2>2 DEF journalVars, CasesDone
    <2>3. CASE ~ SnapshotCase /\ ~ ResetFixture
      <3>1. caseNo' = caseNo
        BY <2>3, CaseNoStays
      <3>2. journaled' = journaled
        <4>1. CASE ExecutorStep
          BY <2>3, <4>1
             DEF ExecutorStep, JournalCreated, JournalNotCreated, BeginAction,
                 IntentAppended, AppendFails, HttpAnswered, EffectFails, RecordObservation,
                 ObservationAppended, IssueDocker, DockerAnswered, DockerFails,
                 ReachBoundary, OutcomeAppended, JournalFinished, RecordOutcome,
                 FinishWith, Send, CloseChannel, FileOpened, FileNotOpened, journalVars
        <4>2. CASE SupervisorStep
          BY <4>2
             DEF SupervisorStep, StartRun, Attest, NextCase, ResetCase, TimedOut,
                 CancelledCase, Drop, InspectApplication, ApplicationStarted,
                 ApplicationHealthy, RecoveryFails, SettleCase, Evaluate, SnapshotCase,
                 WriteManifest, Publish, SyncBase, recoveryFrame, CloseChannel, journalVars
        <4>3. CASE Writer \/ AbandonedOpen \/ Cancel \/ Docker \/ Crash \/ UNCHANGED vars
          BY <4>3
             DEF Writer, WriterStep, TakeRequest, Write, Sync, WriteFails, FinalSync,
                 AbandonedOpen, Cancel, Docker, Crash, vars, FileOpened, FileNotOpened,
                 LoseUnsynced, journalVars
        <4> QED  BY <4>1, <4>2, <4>3 DEF Next
      <3>3. writer \in {"none", "done"}
        BY <1>0, <3>1, <3>2 DEF CasesDone
      <3> QED  BY <2>3, <3>3, WriterStays
    <2> QED  BY <2>1, <2>2, <2>3
  <1>6. phase' \in Between => writer' \in {"none", "done"}
    <2>1. CASE SnapshotCase
      BY <1>a, <2>1 DEF journalVars
    <2>2. CASE ~ SnapshotCase /\ phase' \in Between
      <3>1. phase \in Between
        BY <2>2, PhaseSteps
      <3>2. ~ ResetFixture
        BY <1>b, <3>1 DEF Between
      <3> QED  BY <1>0, <3>1, <3>2, WriterStays DEF CasesDone
    <2> QED  BY <2>1, <2>2
  <1>7. phase' \in Ends /\ cause' = "none" =>
           caseNo' = CaseCount + 1 /\ writer' \in {"none", "done"}
    <2> SUFFICES ASSUME phase' \in Ends, cause' = "none"
                 PROVE  caseNo' = CaseCount + 1 /\ writer' \in {"none", "done"}
      OBVIOUS
    <2>1. caseNo' = caseNo /\ ~ ResetFixture
      BY <1>a, <1>b, CaseNoStays DEF Ends
    <2>2. CASE phase \in Ends /\ cause = "none"
      BY <1>0, <2>1, <2>2, WriterStays DEF CasesDone
    <2>3. CASE phase = "next" /\ caseNo \notin Cases
      <3>1. caseNo = CaseCount + 1 /\ writer \in {"none", "done"}
        BY <1>0, <2>3 DEF CasesDone, Between, Cases
      <3> QED  BY <2>1, <3>1, WriterStays
    <2> QED  BY <2>2, <2>3, PhaseSteps
  <1> QED  BY <1>1, <1>2, <1>3, <1>4, <1>5, <1>6, <1>7 DEF CasesDone
-----------------------------------------------------------------------------
(* The artifact.                                                            *)

\* Only the rename makes an artifact complete, and only a crash takes it back.
LEMMA ArtifactSteps ==
  ASSUME IInv, [Next]_vars
  PROVE  /\ \/ artifact' = artifact
            \/ artifact' = "staging"
            \/ Publish /\ artifact' = Status
         /\ manifest' = manifest \/ WriteManifest
         /\ phase' = "rename" => phase = "rename" \/ (WriteManifest /\ manifest' = files)
         /\ phase' = "syncBase" => phase = "syncBase" \/ Publish
  <1>1. CASE ExecutorStep
    BY <1>1, ExecutorMoves, ExecutorTyped
  <1>2. CASE SupervisorStep
    <2>1. CASE WriteManifest  BY <2>1 DEF WriteManifest
    <2>2. CASE Publish  BY <2>2 DEF Publish
    <2>3. CASE SettleCase
      BY <2>3 DEF SettleCase, Fail
    <2>4. CASE StartRun \/ Attest \/ NextCase \/ ResetCase
      BY <2>4 DEF StartRun, Attest, NextCase, ResetCase, Fail
    <2>5. CASE TimedOut \/ CancelledCase \/ InspectApplication \/ ApplicationStarted
               \/ ApplicationHealthy \/ RecoveryFails
      BY <2>5
         DEF TimedOut, CancelledCase, Drop, Supervised, InspectApplication,
             ApplicationStarted, ApplicationHealthy, RecoveryFails, recoveryFrame, runVars
    <2>6. CASE Evaluate \/ SnapshotCase \/ SyncBase
      BY <2>6 DEF Evaluate, SnapshotCase, SyncBase, Fail, runVars
    <2> QED
      BY <1>2, <2>1, <2>2, <2>3, <2>4, <2>5, <2>6 DEF SupervisorStep
  <1>3. CASE Crash
    BY <1>3 DEF Crash
  <1>4. CASE Writer \/ AbandonedOpen \/ Cancel \/ Docker \/ UNCHANGED vars
    BY <1>4 DEF Writer, AbandonedOpen, Cancel, Docker, vars, runVars
  <1> QED  BY <1>1, <1>2, <1>3, <1>4 DEF Next

\* The files are those in the manifest of a complete artifact.
LEMMA PublishedKept == ASSUME IInv, [Next]_vars PROVE Published'
  <1>0. /\ Published /\ CasesDone /\ CauseInv /\ RunTypeOK /\ JournalInv
        /\ caseNo \in 1 .. CaseCount + 1 /\ CaseCount \in Nat
    BY JournalAssumption DEF IInv, RunTypeOK
  <1>a. \* All is done once nothing can fail any more.
        ASSUME caseNo = CaseCount + 1, writer \in {"none", "done"} PROVE files' = files
    <2>1. \A c \in Cases : files'[c] = files[c]
      BY <1>0, <1>a, DoneStays DEF CasesDone, Cases
    <2>2. files \in [Cases -> Seq(Bytes) \cup {Absent}]
          /\ files' \in [Cases -> Seq(Bytes) \cup {Absent}]
      BY <1>0, JournalInvKept DEF JournalInv, JournalTypeOK
    <2> QED  BY <2>1, <2>2
  <1>b. cause' # cause => phase \in {"attest", "next", "reset", "settle", "snapshot"}
    <2>1. CASE ExecutorStep  BY <2>1, ExecutorTyped
    <2>2. CASE SupervisorStep
      BY <2>2
         DEF SupervisorStep, StartRun, Attest, NextCase, ResetCase, TimedOut,
             CancelledCase, Drop, InspectApplication, ApplicationStarted,
             ApplicationHealthy, RecoveryFails, SettleCase, Evaluate, SnapshotCase,
             WriteManifest, Publish, SyncBase, recoveryFrame, runVars
    <2>3. CASE Writer \/ AbandonedOpen \/ Cancel \/ Docker \/ Crash \/ UNCHANGED vars
      BY <2>3 DEF Writer, AbandonedOpen, Cancel, Docker, Crash, vars, runVars
    <2> QED  BY <2>1, <2>2, <2>3 DEF Next
  <1>1. ASSUME artifact' = "complete"
        PROVE  /\ phase' \in {"syncBase", "ended", "crashed"}
               /\ cause' = "none" /\ caseNo' = CaseCount + 1
               /\ manifest' = files' /\ writer' \in {"none", "done"}
    <2>1. CASE Publish
      <3>1. /\ phase = "rename" /\ phase' = "syncBase" /\ cause = "none"
            /\ UNCHANGED <<journalVars, cause, caseNo, manifest>>
        BY <1>1, <2>1 DEF Publish, Status
      <3>2. caseNo = CaseCount + 1 /\ writer \in {"none", "done"} /\ manifest = files
        BY <1>0, <3>1 DEF CasesDone, Published, Ends
      <3> QED  BY <3>1, <3>2 DEF journalVars
    <2>2. CASE artifact = "complete"
      <3>1. /\ phase \in {"syncBase", "ended", "crashed"}
            /\ cause = "none" /\ caseNo = CaseCount + 1 /\ manifest = files
            /\ writer \in {"none", "done"}
        BY <1>0, <2>2 DEF Published, CasesDone, Ends
      <3>2. cause' = cause /\ caseNo' = caseNo /\ manifest' = manifest
            /\ ~ ResetFixture
        BY <1>b, <3>1, CaseNoStays, ArtifactSteps
           DEF SnapshotCase, WriteManifest, ResetFixture, Polled
      <3>3. phase' \in {"syncBase", "ended", "crashed"}
        <4>1. CASE ExecutorStep  BY <3>1, <4>1, ExecutorMoves
        <4>2. CASE SupervisorStep
          BY <3>1, <4>2
             DEF SupervisorStep, StartRun, Attest, NextCase, ResetCase, TimedOut,
                 CancelledCase, Drop, InspectApplication, ApplicationStarted,
                 ApplicationHealthy, RecoveryFails, SettleCase, Evaluate, SnapshotCase,
                 WriteManifest, Publish, SyncBase
        <4>3. CASE Writer \/ AbandonedOpen \/ Cancel \/ Docker \/ Crash \/ UNCHANGED vars
          BY <3>1, <4>3 DEF Writer, AbandonedOpen, Cancel, Docker, Crash, vars, runVars
        <4> QED  BY <4>1, <4>2, <4>3 DEF Next
      <3> QED  BY <1>a, <3>1, <3>2, <3>3, WriterStays
    <2> QED  BY <1>1, <2>1, <2>2, ArtifactSteps
  <1>2. ASSUME phase' \in {"rename", "syncBase"}, cause' = "none" PROVE manifest' = files'
    <2>1. phase \in Ends /\ cause = "none"
      <3>1. phase \in Ends  BY <1>2, PhaseSteps
      <3> QED  BY <1>b, <1>2, <3>1 DEF Ends
    <2>2. caseNo = CaseCount + 1 /\ writer \in {"none", "done"}
      BY <1>0, <2>1 DEF CasesDone
    <2>3. files' = files
      BY <1>a, <2>2
    <2>4. CASE WriteManifest
      BY <1>2, <2>3, <2>4 DEF WriteManifest
    <2>5. CASE ~ WriteManifest
      <3>1. manifest' = manifest /\ phase \in {"rename", "syncBase"}
        BY <1>2, <2>5, ArtifactSteps DEF Publish
      <3> QED  BY <1>0, <2>1, <2>3, <3>1 DEF Published
    <2> QED  BY <2>4, <2>5
  <1> QED  BY <1>1, <1>2 DEF Published
-----------------------------------------------------------------------------
(* The evaluation.                                                          *)

\* A step of the evaluation keeps the report in line with the snapshot.
LEMMA EvaluationKept == ASSUME IInv, Evaluate PROVE SnapshotInv'
  <1>0. /\ SnapshotTypeOK /\ Prepared /\ Evaluated /\ Told /\ phase = "snapshot"
        /\ UNCHANGED <<phase, caseNo, results, verdict>>
        /\ Suite \in Seq(Range(Suite)) /\ Len(Suite) \in Nat \ {0}
        /\ Range(Suite) = {Suite[i] : i \in 1 .. Len(Suite)}
    <2>1. Suite \in Seq(Range(Suite)) /\ Len(Suite) \in Nat \ {0}
      BY SuiteAssumption
    <2>2. Range(Suite) = {Suite[i] : i \in 1 .. Len(Suite)}
      BY <2>1 DEF Range
    <2> QED  BY <2>1, <2>2 DEF IInv, SnapshotInv, Evaluate, runVars
  <1>a. /\ results \in Seq(Databases) /\ moments \in Seq(Databases)
        /\ Len(results) \in Nat /\ Len(moments) \in Nat
    BY <1>0 DEF SnapshotTypeOK
  <1>b. \A place \in SessionPlaces : At(place) \in Sessions /\ At(place).place = place
    BY <1>0 DEF At, Sessions
  <1>1. CASE SnapshotPrepared /\ UNCHANGED moments
    <2>1. /\ session'.place \in {"connected", "attested", "permitted", "projected"}
          /\ session' \in Sessions
          /\ session.place \notin {"evaluating", "done", "failed"}
          /\ UNCHANGED <<shown, outcomes>>
      BY <1>1, <1>b
         DEF SnapshotPrepared, OpenSnapshot, AttestRole, ValidatePermit, LoadProjection,
             SessionPlaces
    <2>2. Len(moments) = Len(results) /\ outcomes = {}
      BY <1>0, <2>1 DEF Prepared, Ends
    <2>3. Told'
      BY <1>0, <1>1 DEF Told, Violating
    <2> QED
      BY <1>0, <1>1, <2>1, <2>2, <2>3 DEF SnapshotInv, SnapshotTypeOK, Prepared, Evaluated
  <1>2. CASE BeginSnapshot /\ moments' = Append(moments, shown')
    <2>1. /\ session.place = "projected" /\ shown' \in Databases
          /\ session' = [place |-> "evaluating", next |-> 1] /\ outcomes' = outcomes
      BY <1>2 DEF BeginSnapshot
    <2>2. Len(moments) = Len(results) /\ outcomes = {}
      BY <1>0, <2>1 DEF Prepared, Ends
    <2>3. session' \in Sessions /\ session'.place = "evaluating" /\ session'.next = 1
      BY <1>0, <2>1 DEF Sessions, SessionPlaces
    <2>4. /\ moments' \in Seq(Databases) /\ Len(moments') = Len(results) + 1
          /\ moments'[Len(moments')] = shown'
          /\ \A c \in 1 .. Len(moments) : moments'[c] = moments[c]
      BY <1>2, <1>a, <2>1, <2>2
    <2>5. DOMAIN results = 1 .. Len(results)
      BY <1>a
    <2>6. Told'
      <3>1. \A c \in DOMAIN results : results[c] = moments'[c]
        BY <1>0, <2>2, <2>4, <2>5 DEF Told
      <3>2. Len(moments') >= Len(results)
        BY <1>a, <2>4
      <3>3. caseNo = Len(results) + 1 /\ (verdict = "violated" <=> Violating # {})
        BY <1>0 DEF Told
      <3> QED  BY <1>0, <3>1, <3>2, <3>3 DEF Told, Violating
    <2>7. Evaluated'
      BY <1>0, <2>1, <2>2, <2>3, <2>4 DEF Evaluated
    <2> QED
      BY <1>0, <2>1, <2>2, <2>3, <2>4, <2>6, <2>7 DEF SnapshotInv, SnapshotTypeOK, Prepared
  <1>3. CASE EvaluateInvariant /\ UNCHANGED moments
    <2>1. /\ session.place = "evaluating" /\ shown' = shown
          /\ outcomes' = outcomes \cup ({Suite[session.next]} \cap shown)
          /\ session' = IF session.next < Len(Suite)
                          THEN [session EXCEPT !.next = @ + 1] ELSE At("done")
      BY <1>3 DEF EvaluateInvariant, Visible
    <2>2. /\ session.next \in 1 .. Len(Suite)
          /\ outcomes = shown \cap {Suite[i] : i \in 1 .. session.next - 1}
          /\ Len(moments) = Len(results) + 1 /\ moments[Len(moments)] = shown
          /\ shown \subseteq Range(Suite)
      BY <1>0, <2>1 DEF Evaluated, SnapshotTypeOK, Databases
    <2>3. outcomes' = shown \cap {Suite[i] : i \in 1 .. session.next}
      <3>1. 1 .. session.next = (1 .. session.next - 1) \cup {session.next}
        BY <1>0, <2>2
      <3> QED  BY <2>1, <2>2, <3>1
    <2>4. /\ session' \in Sessions /\ session'.place \in {"evaluating", "done"}
          /\ session'.place = "evaluating" =>
                session.next < Len(Suite) /\ session'.next = session.next + 1
          /\ session'.place = "done" => session.next = Len(Suite)
      <3>1. CASE session.next < Len(Suite)
        <4>1. session' = [session EXCEPT !.next = @ + 1] /\ session \in Sessions
          BY <1>0, <2>1, <3>1 DEF SnapshotTypeOK
        <4>2. session.next + 1 \in 0 .. Len(Suite)
          <5>1. Len(Suite) \in Nat
            BY <1>0
          <5> QED  BY <2>2, <3>1, <5>1
        <4>3. session' \in Sessions /\ session'.place = "evaluating"
              /\ session'.next = session.next + 1
          BY <2>1, <4>1, <4>2 DEF Sessions
        <4> QED  BY <3>1, <4>3
      <3>2. CASE ~ (session.next < Len(Suite))
        <4>1. session' = At("done") /\ session.next = Len(Suite)
          BY <1>0, <2>1, <2>2, <3>2
        <4> QED  BY <1>b, <4>1 DEF SessionPlaces
      <3> QED  BY <3>1, <3>2
    <2>5. Evaluated'
      <3>1. CASE session'.place = "evaluating"
        <4>1. /\ session'.next \in 1 .. Len(Suite) /\ session'.next - 1 = session.next
          <5>1. session.next \in 1 .. Len(Suite) /\ session.next < Len(Suite)
                /\ session'.next = session.next + 1 /\ Len(Suite) \in Nat
            BY <1>0, <2>2, <2>4, <3>1
          <5> QED  BY <5>1
        <4> QED  BY <1>0, <1>3, <2>1, <2>2, <2>3, <3>1, <4>1 DEF Evaluated
      <3>2. CASE session'.place = "done"
        BY <1>0, <1>3, <2>1, <2>2, <2>3, <2>4, <3>2 DEF Evaluated
      <3> QED  BY <2>4, <3>1, <3>2
    <2>6. outcomes' \in Databases
      BY <2>2, <2>3 DEF Databases
    <2>7. Told'
      BY <1>0, <1>3 DEF Told, Violating
    <2> QED
      BY <1>0, <1>3, <2>1, <2>4, <2>5, <2>6, <2>7 DEF SnapshotInv, SnapshotTypeOK, Prepared
  <1>4. CASE EvaluationFails /\ UNCHANGED moments
    <2>1. session' = At("failed") /\ shown' = {} /\ outcomes' = {}
      BY <1>4 DEF EvaluationFails
    <2>2. session' \in Sessions /\ session'.place = "failed"
      BY <1>b, <2>1 DEF SessionPlaces
    <2>3. Told'
      BY <1>0, <1>4 DEF Told, Violating
    <2> QED
      BY <1>0, <1>4, <2>1, <2>2, <2>3
         DEF SnapshotInv, SnapshotTypeOK, Prepared, Evaluated, Databases
  <1> QED  BY <1>1, <1>2, <1>3, <1>4 DEF Evaluate

\* The report of a case is what the case's snapshot had, and it is all there is
\* to the verdict.
LEMMA ReportKept == ASSUME IInv, SnapshotCase PROVE SnapshotInv'
  <1>0. /\ SnapshotTypeOK /\ Prepared /\ Evaluated /\ Told /\ phase = "snapshot"
        /\ session' = At("none") /\ shown' = {} /\ outcomes' = {} /\ moments' = moments
    BY DEF IInv, SnapshotInv, SnapshotCase, LeaveSession
  <1>a. /\ results \in Seq(Databases) /\ moments \in Seq(Databases) /\ outcomes \in Databases
        /\ Len(results) \in Nat /\ Len(moments) \in Nat
    BY <1>0 DEF SnapshotTypeOK
  <1>b. session' \in Sessions /\ session'.place = "none"
    BY <1>0, SuiteAssumption DEF At, Sessions, SessionPlaces
  <1>1. CASE Fail("infrastructure") /\ UNCHANGED <<results, verdict, caseNo>>
    <2>1. Told'
      BY <1>0, <1>1 DEF Told, Violating
    <2> QED
      BY <1>0, <1>1, <1>b, <2>1
         DEF Fail, SnapshotInv, SnapshotTypeOK, Prepared, Evaluated, Databases, Ends
  <1>2. CASE /\ Reported
             /\ results' = Append(results, outcomes)
             /\ verdict' = IF outcomes # {} THEN "violated" ELSE verdict
             /\ caseNo' = caseNo + 1 /\ phase' = "next"
    <2>1. /\ outcomes = shown /\ Len(moments) = Len(results) + 1
          /\ moments[Len(moments)] = shown
      BY <1>0, <1>2 DEF Reported, Evaluated
    <2>2. /\ results' \in Seq(Databases) /\ Len(results') = Len(results) + 1
          /\ results'[Len(results) + 1] = outcomes
          /\ \A c \in 1 .. Len(results) : results'[c] = results[c]
          /\ DOMAIN results = 1 .. Len(results) /\ DOMAIN results' = 1 .. Len(results) + 1
      BY <1>2, <1>a
    <2>3. Violating' # {} <=> Violating # {} \/ outcomes # {}
      BY <1>a, <2>2 DEF Violating
    <2>4. Told'
      <3>1. \A c \in DOMAIN results' : results'[c] = moments'[c]
        BY <1>0, <1>a, <2>1, <2>2 DEF Told
      <3>2. verdict' = "violated" <=> Violating' # {}
        BY <1>0, <1>2, <2>3 DEF Told
      <3> QED  BY <1>0, <1>2, <1>a, <2>1, <2>2, <3>1, <3>2 DEF Told
    <2>5. SnapshotTypeOK'
      BY <1>0, <1>2, <1>b, <2>2 DEF SnapshotTypeOK, Databases
    <2> QED
      BY <1>0, <1>2, <1>a, <1>b, <2>1, <2>2, <2>4, <2>5 DEF SnapshotInv, Prepared, Evaluated
  <1> QED  BY <1>1, <1>2 DEF SnapshotCase

\* Nobody but the evaluation and the report touches what they are about.
LEMMA SnapshotKept == ASSUME IInv, [Next]_vars PROVE SnapshotInv'
  <1>0. SnapshotTypeOK /\ Prepared /\ Evaluated /\ Told
    BY DEF IInv, SnapshotInv
  <1>1. ASSUME UNCHANGED <<snapshotVars, moments, results, verdict, caseNo>>,
               phase' \notin {"snapshot", "crashed"} => phase \notin {"snapshot", "crashed"},
               phase' \notin Ends \cup {"crashed"} => phase \notin Ends \cup {"crashed"}
        PROVE  SnapshotInv'
    BY <1>0, <1>1
       DEF SnapshotInv, SnapshotTypeOK, Prepared, Evaluated, Told, Violating, snapshotVars
  <1>2. CASE ExecutorStep
    <2>1. phase = "exec" /\ UNCHANGED <<snapshotVars, moments, results, verdict, caseNo>>
      BY <1>2, ExecutorMoves, ExecutorTyped DEF evaluationVars
    <2> QED  BY <1>1, <2>1 DEF Ends
  <1>3. CASE Evaluate  BY <1>3, EvaluationKept
  <1>4. CASE SnapshotCase  BY <1>4, ReportKept
  <1>5. CASE SupervisorStep /\ ~ Evaluate /\ ~ SnapshotCase
    <2> USE DEF processVars, evaluationVars, Fail, Ends, recoveryFrame, runVars
    <2>1. CASE StartRun  BY <1>1, <2>1 DEF StartRun
    <2>2. CASE Attest  BY <1>1, <2>2 DEF Attest
    <2>3. CASE NextCase  BY <1>1, <2>3 DEF NextCase
    <2>4. CASE ResetCase  BY <1>1, <2>4 DEF ResetCase
    <2>5. CASE TimedOut \/ CancelledCase
      BY <1>1, <2>5 DEF TimedOut, CancelledCase, Drop, Supervised
    <2>6. CASE InspectApplication  BY <1>1, <2>6 DEF InspectApplication
    <2>7. CASE ApplicationStarted  BY <1>1, <2>7 DEF ApplicationStarted
    <2>8. CASE ApplicationHealthy  BY <1>1, <2>8 DEF ApplicationHealthy
    <2>9. CASE RecoveryFails  BY <1>1, <2>9 DEF RecoveryFails
    <2>10. CASE SettleCase
      <3>1. phase = "settle" /\ UNCHANGED <<processVars, results, verdict, caseNo>>
        BY <2>10 DEF SettleCase
      <3> QED  BY <1>1, <3>1
    <2>11. CASE WriteManifest  BY <1>1, <2>11 DEF WriteManifest
    <2>12. CASE Publish  BY <1>1, <2>12 DEF Publish
    <2>13. CASE SyncBase  BY <1>1, <2>13 DEF SyncBase
    <2> QED
      BY <1>5, <2>1, <2>2, <2>3, <2>4, <2>5, <2>6, <2>7, <2>8, <2>9, <2>10, <2>11, <2>12,
         <2>13 DEF SupervisorStep
  <1>6. CASE Crash
    BY <1>1, <1>6 DEF Crash, processVars, evaluationVars
  <1>7. CASE Writer \/ AbandonedOpen \/ Cancel \/ Docker \/ UNCHANGED vars
    BY <1>1, <1>7
       DEF Writer, AbandonedOpen, Cancel, Docker, vars, runVars, processVars, evaluationVars
  <1> QED  BY <1>2, <1>3, <1>4, <1>5, <1>6, <1>7 DEF Next
-----------------------------------------------------------------------------
(* The application.                                                         *)

\* The plan's kills are followed by a restart, and nothing else is.
LEMMA PlanOrder ==
  ASSUME NEW k \in Actions
  PROVE  /\ k > 1 => k - 1 \in Actions /\ (Plan[k - 1] = "kill" <=> Plan[k] = "restart")
         /\ Plan[k] \in ActionKinds
  <1>1. /\ Plan \in Seq(ActionKinds) /\ Len(Plan) = ActionCount
        /\ ActionCount \in Nat /\ k \in 1 .. ActionCount
    BY PlanAssumption, ActionCountAssumption DEF Actions
  <1>2. Plan[k] \in ActionKinds
    BY <1>1
  <1>3. ASSUME k > 1
        PROVE  k - 1 \in Actions /\ (Plan[k - 1] = "kill" <=> Plan[k] = "restart")
    <2>1. k - 1 \in Actions /\ (k - 1) + 1 = k
      BY <1>1, <1>3 DEF Actions
    <2>2. Plan[k - 1] = "kill" <=> (k - 1) + 1 \in Actions /\ Plan[(k - 1) + 1] = "restart"
      BY <2>1, PlanAssumption
    <2> QED  BY <2>1, <2>2
  <1> QED  BY <1>2, <1>3

\* The last record on stable storage, at a place whose log is closed or open.
LEMMA LastOfClosed ==
  ASSUME NEW log \in Seq(Records), NEW k \in Nat, Closed(log, k), log # <<>>
  PROVE  k > 0 /\ log[Len(log)] = OutcomeOf(k)
  <1>1. log[Len(log)] \in Records /\ log[Len(log)].action = k
    BY DEF Closed, Current
  <1> QED  BY <1>1, ActionCountAssumption DEF Closed, Records, Actions

\* The same for a log that is open: the action its last record is of.
LEMMA LastOfOpen ==
  ASSUME NEW log, NEW k, NEW more, OpenAt(log, k, more)
  PROVE  log # <<>> /\ log[Len(log)].kind # "outcome" /\ log[Len(log)].action = k
  BY DEF OpenAt, Open, Current

\* The record on stable storage tells, at each place, what the future knows.
LEMMA JournalTells == ASSUME IInv PROVE JournalTellsApplication
  <1> SUFFICES ASSUME phase = "exec", Durable(caseNo) # <<>> PROVE JournalTellsApplication
    BY DEF JournalTellsApplication
  <1> DEFINE log == Durable(caseNo)
             k == exec.action
             last == log[Len(log)]
  <1>0. /\ AtWriter /\ AtPlace(log, k) /\ AtDaemon /\ caseNo \in Cases
        /\ log \in Seq(Records) /\ log # <<>> /\ appUp \in BOOLEAN
        /\ exec.place \in FuturePlaces \ {"gone"} /\ k \in 1 .. ActionCount + 1
        /\ exec.place \in Running \ {"begin"} => k \in Actions
        /\ ActionCount \in Nat
    BY DurableIsLog, ActionCountAssumption
       DEF IInv, ExecInv, Places, AppInv, JournalInv, RunTypeOK, Futures
  <1>a. LastDurable(caseNo) = last
    BY DEF LastDurable
  <1>1. CASE exec.place = "finish"
    BY <1>0, <1>1 DEF AtDaemon
  <1>2. CASE exec.place \in {"fixture", "opening"}
    BY <1>0, <1>2 DEF AtWriter, Durable
  <1>3. ASSUME Closed(log, k - 1), exec.place \in {"begin", "awaitIntent"}
        PROVE  JournalTellsApplication
    <2>1. k > 1 /\ last = OutcomeOf(k - 1) /\ k - 1 \in Nat
      BY <1>0, <1>3, LastOfClosed
    <2>2. last.kind = "outcome" /\ last.action = k - 1
      BY <2>1 DEF OutcomeOf
    <2>3. appUp <=> Plan[k - 1] # "kill"
      BY <1>0, <1>3, <2>1 DEF AtDaemon, Down
    <2> QED  BY <1>a, <2>2, <2>3 DEF JournalTellsApplication
  <1>4. ASSUME Closed(log, k), k \in Actions, exec.place = "awaitOutcome"
        PROVE  JournalTellsApplication
    <2>1. last = OutcomeOf(k)
      BY <1>0, <1>4, LastOfClosed DEF Actions
    <2>2. last.kind = "outcome" /\ last.action = k
      BY <2>1 DEF OutcomeOf
    <2>3. appUp <=> Plan[k] # "kill"
      BY <1>0, <1>4 DEF AtDaemon, Down
    <2> QED  BY <1>a, <2>2, <2>3 DEF JournalTellsApplication
  <1>5. ASSUME NEW more \in {0, 1}, OpenAt(log, k, more), k \in Actions,
               exec.place \in Running \ {"begin"}
        PROVE  JournalTellsApplication
    <2>1. last.kind # "outcome" /\ last.action = k
      BY <1>5, LastOfOpen
    <2>2. ASSUME Plan[k] \notin {"kill", "restart"} PROVE appUp
      <3>1. exec.place \notin {"docker", "finish"}
        BY <1>0, <1>5, <2>2 DEF AtDaemon, Running, Awaits
      <3>2. k > 1 => Plan[k - 1] # "kill"
        BY <1>5, <2>2, PlanOrder
      <3>3. ~ Down
        BY <2>2, <3>2 DEF Down
      <3> QED  BY <1>0, <3>1, <3>3 DEF AtDaemon
    <2> QED  BY <1>a, <2>1, <2>2 DEF JournalTellsApplication
  <1>6. CASE exec.place = "begin"
    BY <1>0, <1>3, <1>6 DEF AtPlace
  <1>7. CASE exec.place = "awaitIntent"
    BY <1>0, <1>3, <1>5, <1>7 DEF AtPlace, Running, Awaits
  <1>8. CASE exec.place \in {"effect", "observe", "docker"}
    BY <1>0, <1>5, <1>8 DEF AtPlace, Running, Awaits
  <1>9. CASE exec.place = "awaitObservation"
    BY <1>0, <1>5, <1>9 DEF AtPlace, Running, Awaits
  <1>10. CASE exec.place = "awaitOutcome"
    BY <1>0, <1>4, <1>5, <1>10 DEF AtPlace, Running, Awaits
  <1> QED
    BY <1>0, <1>1, <1>2, <1>6, <1>7, <1>8, <1>9, <1>10 DEF FuturePlaces, Running, Awaits

\* A future that ends leaves the application and the journal as they are.
LEMMA FinishTells ==
  ASSUME IInv, phase = "exec", phase' = "exec", NEW error \in Errors \cup {"none"},
         FinishWith(error), UNCHANGED <<caseNo, appUp, daemon>>,
         \/ daemon = {}
         \/ error # "none" /\ exec.place = "docker"
  PROVE  AtDaemon'
  <1>1. /\ exec'.place = "finish" /\ exec'.error = error
        /\ UNCHANGED <<files, synced, journaled, writer, request>>
    BY AfterFinish DEF IInv, RunTypeOK
  <1>2. Durable(caseNo)' = Durable(caseNo)
    BY <1>1 DEF Durable
  <1>3. LastDurable(caseNo)' = LastDurable(caseNo)
    BY <1>2 DEF LastDurable
  <1>4. JournalTellsApplication'
    BY <1>2, <1>3, JournalTells DEF JournalTellsApplication
  <1>5. daemon # {} =>
           /\ error # "none" /\ Durable(caseNo) # <<>>
           /\ LastDurable(caseNo).kind # "outcome"
           /\ Plan[LastDurable(caseNo).action] \in {"kill", "restart"}
    <2> SUFFICES ASSUME daemon # {}
                 PROVE  /\ error # "none" /\ Durable(caseNo) # <<>>
                        /\ LastDurable(caseNo).kind # "outcome"
                        /\ Plan[LastDurable(caseNo).action] \in {"kill", "restart"}
      OBVIOUS
    <2>1. error # "none" /\ exec.place = "docker"
      OBVIOUS
    <2>2. /\ OpenAt(Durable(caseNo), exec.action, 0)
          /\ Plan[exec.action] \in {"kill", "restart"}
      BY <2>1 DEF IInv, ExecInv, AtPlace, AppInv, AtDaemon
    <2> QED  BY <2>1, <2>2, LastOfOpen DEF LastDurable
  <1> QED  BY <1>1, <1>2, <1>3, <1>4, <1>5 DEF AtDaemon
\* What the future knows of the application after a step of its own.
LEMMA ExecutorKnowsDaemon == ASSUME IInv, ExecutorStep, phase' = "exec" PROVE AtDaemon'
  <1> DEFINE k == exec.action
  <1>0. /\ phase = "exec" /\ caseNo' = caseNo /\ exec \in Futures /\ AtWriter /\ AtDaemon
        /\ appUp \in BOOLEAN /\ appUp' = appUp /\ daemon \in SUBSET {"kill", "start"}
        /\ k \in 1 .. ActionCount + 1 /\ ActionCount \in Nat
        /\ exec.place \in Running \ {"begin"} => k \in Actions
        /\ exec.place \notin {"docker", "finish"} => daemon = {} /\ (appUp <=> ~ Down)
    BY ExecutorMoves, ExecutorTyped, ActionCountAssumption
       DEF IInv, RunTypeOK, Places, ExecInv, AppInv, AtDaemon
  <1>a. \A place \in FuturePlaces : GoTo(place) => exec'.place = place /\ exec'.action = k
    BY <1>0, AfterMove
  <1>b. {"opening", "begin", "effect", "docker", "observe"} \cup Awaits \subseteq FuturePlaces
    BY DEF FuturePlaces, Running
  <1> USE DEF executorFrame, processVars, stackVars
  <1>1. CASE ResetFixture
    <2>1. GoTo("opening") /\ exec.place = "fixture" /\ daemon' = daemon
      BY <1>0, <1>1 DEF ResetFixture, Supervised, Polled
    <2>2. exec'.place = "opening"  BY <1>a, <1>b, <2>1
    <2>3. appUp  BY <1>0, <2>1 DEF Down
    <2> QED  BY <1>0, <2>1, <2>2, <2>3 DEF AtDaemon, Down
  <1>2. CASE JournalCreated
    <2>1. GoTo("begin") /\ exec.place = "opening" /\ daemon' = daemon /\ k = 1
      BY <1>0, <1>2 DEF JournalCreated, Polled, AtWriter
    <2>2. exec'.place = "begin" /\ exec'.action = 1  BY <1>a, <1>b, <2>1
    <2>3. appUp  BY <1>0, <2>1 DEF Down
    <2> QED  BY <1>0, <2>1, <2>2, <2>3 DEF AtDaemon, Down
  <1>3. \* A step between two places at which the future knows the same.
        ASSUME NEW place \in FuturePlaces, GoTo(place), daemon' = daemon,
               \/ exec.place = "begin" /\ place = "awaitIntent"
               \/ exec.place = "awaitIntent" /\ place = "effect"
               \/ exec.place = "observe" /\ place = "awaitObservation"
               \/ exec.place = "awaitObservation" /\ place = "awaitOutcome"
        PROVE  AtDaemon'
    <2>1. exec'.place = place /\ exec'.action = k  BY <1>a, <1>3
    <2>2. Down' <=> Down  BY <1>3, <2>1 DEF Down
    <2> QED  BY <1>0, <1>3, <2>1, <2>2 DEF AtDaemon
  <1>4. \* An effect in an application that runs and is not touched.
        ASSUME NEW place \in {"observe", "awaitOutcome"}, GoTo(place), daemon' = daemon,
               exec.place = "effect", Plan[k] # "kill", Plan[k] # "restart"
        PROVE  AtDaemon'
    <2>1. exec'.place = place /\ exec'.action = k
      BY <1>a, <1>b, <1>4 DEF Awaits
    <2>2. k \in Actions
      BY <1>0, <1>4 DEF Running
    <2>3. k > 1 => Plan[k - 1] # "kill"
      BY <1>4, <2>2, PlanOrder
    <2>4. ~ Down /\ ~ Down'
      BY <1>4, <2>1, <2>3 DEF Down
    <2> QED  BY <1>0, <1>4, <2>1, <2>4 DEF AtDaemon
  <1>5. CASE BeginAction
    <2>1. exec.place = "begin" /\ daemon' = daemon  BY <1>5 DEF BeginAction, Polled
    <2>2. CASE k \in Actions
      <3>1. GoTo("awaitIntent")  BY <1>5, <2>2 DEF BeginAction
      <3> QED  BY <1>3, <1>b, <2>1, <3>1 DEF Awaits
    <2>3. CASE k \notin Actions
      <3>1. FinishWith("none")  BY <1>5, <2>3 DEF BeginAction
      <3> QED  BY <1>0, <2>1, <3>1, FinishTells
    <2> QED  BY <2>2, <2>3
  <1>6. CASE IntentAppended
    BY <1>3, <1>6, <1>b DEF IntentAppended, Polled
  <1>7. CASE RecordObservation
    BY <1>3, <1>7, <1>b DEF RecordObservation, Polled, Awaits
  <1>8. CASE ObservationAppended
    BY <1>3, <1>8, <1>b DEF ObservationAppended, Polled, Awaits, RecordOutcome
  <1>9. CASE AppendFails \/ EffectFails \/ DockerFails
    <2>1. PICK error \in Errors : FinishWith(error)
      BY <1>9 DEF AppendFails, EffectFails, DockerFails, Failures, Errors
    <2>2. error # "none" /\ UNCHANGED daemon /\ exec.place \in Awaits \cup {"effect", "docker"}
      BY <1>9, <2>1 DEF Errors, AppendFails, EffectFails, DockerFails, Polled, Awaits
    <2>3. daemon = {} \/ exec.place = "docker"
      BY <1>0, <2>2 DEF Awaits
    <2> QED  BY <1>0, <2>1, <2>2, <2>3, FinishTells
  <1>10. CASE HttpAnswered
    BY <1>4, <1>10 DEF HttpAnswered, Performing, Polled, RecordOutcome
  <1>11. CASE ReachBoundary
    BY <1>4, <1>11 DEF ReachBoundary, Performing, Polled, RecordOutcome
  <1>12. CASE IssueDocker
    <2>1. /\ exec.place = "effect" /\ GoTo("docker") /\ Plan[k] \in {"kill", "restart"}
          /\ daemon' = daemon \cup {CommandOf(Plan[k])}
      BY <1>12 DEF IssueDocker, Performing, Polled
    <2>2. exec'.place = "docker" /\ exec'.action = k  BY <1>a, <1>b, <2>1
    <2> QED  BY <1>0, <2>1, <2>2 DEF AtDaemon
  <1>13. CASE DockerAnswered
    <2>1. /\ exec.place = "docker" /\ Settled(Plan[k]) /\ daemon' = daemon
          /\ \/ GoTo("awaitOutcome")
             \/ Plan[k] = "kill" /\ GoTo("observe")
      BY <1>13 DEF DockerAnswered, Polled, RecordOutcome
    <2>2. Plan[k] \in {"kill", "restart"} /\ daemon \subseteq {CommandOf(Plan[k])}
      BY <1>0, <2>1 DEF AtDaemon
    <2>3. daemon = {} /\ (appUp <=> Plan[k] # "kill")
      BY <2>1, <2>2 DEF Settled, ApplicationAttested, InspectedRunning
    <2>4. exec'.place \in {"observe", "awaitOutcome"} /\ exec'.action = k
      BY <1>a, <1>b, <2>1 DEF Awaits
    <2>5. Down' <=> Plan[k] = "kill"
      BY <2>4 DEF Down
    <2> QED  BY <1>0, <2>1, <2>3, <2>4, <2>5 DEF AtDaemon
  <1>14. CASE OutcomeAppended
    <2>1. /\ exec.place = "awaitOutcome" /\ daemon' = daemon
          /\ exec' = [exec EXCEPT !.place = "begin", !.action = @ + 1]
      BY <1>14 DEF OutcomeAppended, Polled
    <2>2. k \in Actions  BY <1>0, <2>1 DEF Running, Awaits
    <2>3. exec'.place = "begin" /\ exec'.action = k + 1
      BY <1>0, <2>1, <2>2, FutureProceeds
    <2>4. exec'.action > 1 /\ exec'.action - 1 = k
      BY <1>0, <2>3
    <2>5. Down' <=> Down
      BY <2>1, <2>3, <2>4 DEF Down
    <2> QED  BY <1>0, <2>1, <2>3, <2>5 DEF AtDaemon
  <1>15. CASE JournalNotCreated \/ JournalFinished
    BY <1>15 DEF JournalNotCreated, JournalFinished, Supervised
  <1> QED
    BY <1>1, <1>2, <1>5, <1>6, <1>7, <1>8, <1>9, <1>10, <1>11, <1>12, <1>13, <1>14, <1>15
       DEF ExecutorStep

\* And after a step of anybody else.
LEMMA DaemonKnown == ASSUME IInv, [Next]_vars, phase' = "exec" PROVE AtDaemon'
  <1>0. /\ appUp \in BOOLEAN /\ caseNo \in 1 .. CaseCount + 1
        /\ phase = "exec" => AtWriter /\ AtDaemon /\ caseNo \in Cases
    BY DEF IInv, RunTypeOK, ExecInv, AppInv, Places
  <1>1. CASE ExecutorStep  BY <1>1, ExecutorKnowsDaemon
  <1>2. CASE SupervisorStep
    <2>1. ResetCase
      BY <1>2
         DEF SupervisorStep, StartRun, Attest, NextCase, TimedOut, CancelledCase, Drop,
             Supervised, InspectApplication, ApplicationStarted, ApplicationHealthy,
             RecoveryFails, SettleCase, Evaluate, SnapshotCase, WriteManifest, Publish,
             SyncBase, recoveryFrame, runVars, Fail
    <2>2. /\ phase = "reset" /\ appUp /\ UNCHANGED <<daemon, appUp>>
          /\ exec' = [place |-> "fixture", action |-> 1, error |-> "none"]
      BY <2>1 DEF ResetCase, ApplicationAttested, Fail, processVars, stackVars
    <2>3. daemon = {}
      BY <2>2 DEF IInv, AppInv, AtRecovery, Between
    <2> QED  BY <2>2, <2>3 DEF AtDaemon, Down
  <1>3. ASSUME phase = "exec", UNCHANGED <<exec, caseNo, appUp>>,
               daemon' = daemon \/ (daemon' \subseteq daemon /\ exec.place = "docker"),
               Durable(caseNo)' = Durable(caseNo)
        PROVE  AtDaemon'
    <2>1. LastDurable(caseNo)' = LastDurable(caseNo)
      BY <1>3 DEF LastDurable
    <2> QED
      BY <1>0, <1>3, <2>1 DEF AtDaemon, Down, JournalTellsApplication
  <1>4. CASE Writer
    <2>1. phase = "exec" /\ WriterStep /\ UNCHANGED <<exec, caseNo, appUp, daemon>>
      BY <1>4 DEF Writer, runVars, caseVars, processVars, stackVars
    <2>2. CASE exec.place # "finish"
      <3>1. UNCHANGED Plan  OBVIOUS
      <3> QED  BY <1>0, <2>1, <2>2 DEF AtDaemon, Down
    <2>3. CASE exec.place = "finish"
      <3>1. writer # "syncing"
        BY <1>0, <2>1, <2>3 DEF AtWriter
      <3>2. JournalInv /\ JournalStep /\ ~ Sync
        BY <3>1, JournalInvKept DEF IInv, Sync
      <3>3. Durable(caseNo)' = Durable(caseNo)
        BY <1>0, <2>1, <3>2, OnlySyncAppends
      <3> QED  BY <1>3, <2>1, <3>3
    <2> QED  BY <2>2, <2>3
  <1>5. CASE Cancel \/ UNCHANGED vars
    <2>1. phase = "exec" /\ UNCHANGED <<exec, caseNo, appUp, daemon, files, synced>>
      BY <1>5
         DEF Cancel, vars, runVars, caseVars, processVars, stackVars, journalVars
    <2> QED  BY <1>3, <2>1 DEF Durable
  <1>6. CASE Docker
    <2>1. /\ phase = "exec" /\ UNCHANGED <<exec, caseNo, files, synced>>
          /\ daemon # {} /\ daemon' \subseteq daemon
      BY <1>6 DEF Docker, runVars, caseVars, journalVars
    <2>2. Durable(caseNo)' = Durable(caseNo)
      BY <2>1 DEF Durable
    <2>3. LastDurable(caseNo)' = LastDurable(caseNo)
      BY <2>1, <2>2 DEF LastDurable
    <2>4. exec.place \in {"docker", "finish"}
      BY <1>0, <2>1 DEF AtDaemon
    <2> QED
      BY <1>0, <2>1, <2>2, <2>3, <2>4 DEF AtDaemon, JournalTellsApplication
  <1>7. CASE AbandonedOpen \/ Crash
    BY <1>7 DEF AbandonedOpen, Crash, runVars
  <1> QED  BY <1>1, <1>2, <1>4, <1>5, <1>6, <1>7 DEF Next

\* What the daemon still has once there is no future.
LEMMA RecoveryKnown == ASSUME IInv, [Next]_vars PROVE AtRecovery'
  <1>0. /\ AtRecovery /\ daemon \in SUBSET {"kill", "start"}
        /\ phase = "exec" => AtDaemon /\ exec.place # "gone"
        /\ phase \in Phases \ {"exec", "crashed"} => exec.place = "gone"
        /\ phase \in Phases
        /\ phase = "snapshot" => outcome = "ok" /\ recovery = "ok"
        /\ phase \in After => outcome # "none"
    BY DEF IInv, AppInv, RunTypeOK, Places, CauseInv
  <1>1. \* The recovery begins with what the daemon has.
        ASSUME phase = "exec", Supervised(outcome'), daemon' = daemon,
               outcome' = "ok" => daemon = {}
        PROVE  AtRecovery'
    BY <1>1 DEF Supervised, AtRecovery, Between, After
  <1>2. \* Nothing is sent to the daemon.
        ASSUME daemon' \subseteq daemon, UNCHANGED <<recovery, lateKill>>,
               phase' \in Between => phase \in Between,
               phase' \in After => phase \in After /\ outcome' = outcome,
               phase' = "recover" => phase = "recover",
               phase = "exec" => phase' \in {"exec", "crashed"} /\ exec' = exec,
               phase' # "exec" => exec' = exec, phase = "crashed" => phase' = "crashed"
        PROVE  AtRecovery'
    <2>1. /\ phase' \in Between => daemon' = {}
          /\ phase' \in After /\ outcome' = "ok" =>
                /\ daemon' \subseteq {"start"}
                /\ recovery' \in {"inspect", "health", "ok"} => daemon' = {}
          /\ phase' = "recover" => recovery' \in {"inspect", "start", "health"}
      BY <1>0, <1>2 DEF AtRecovery
    <2>2. ASSUME phase' \in {"exec", "crashed"} => phase' = "crashed" /\ exec'.place = "gone",
                 ~ lateKill'
          PROVE  "kill" \notin daemon'
      <3>1. phase \in {"exec", "crashed"} => phase = "crashed" /\ exec.place = "gone"
        BY <1>0, <1>2, <2>2
      <3> QED  BY <1>0, <1>2, <2>2, <3>1 DEF AtRecovery
    <2> QED  BY <2>1, <2>2 DEF AtRecovery
  <1> USE DEF processVars, stackVars, executorFrame, runVars
  <1>3. CASE ExecutorStep
    <2>1. CASE phase' = "exec"
      <3>1. exec'.place # "gone"
        BY <1>3, <2>1, ExecutorMoves
      <3> QED  BY <2>1, <3>1 DEF AtRecovery, Between, After
    <2>2. CASE phase' # "exec"
      <3>1. ResetFixture \/ JournalNotCreated \/ JournalFinished
        <4>1. phase' # phase
          BY <1>3, <2>2, ExecutorMoves
        <4>2. ~ (JournalCreated \/ BeginAction \/ AppendFails \/ HttpAnswered \/ EffectFails
                 \/ RecordObservation \/ DockerFails)
          BY <4>1
             DEF JournalCreated, BeginAction, AppendFails, HttpAnswered, EffectFails,
                 RecordObservation, DockerFails
        <4>3. ~ (IntentAppended \/ ObservationAppended \/ IssueDocker \/ DockerAnswered
                 \/ ReachBoundary \/ OutcomeAppended)
          BY <4>1
             DEF IntentAppended, ObservationAppended, IssueDocker, DockerAnswered,
                 ReachBoundary, OutcomeAppended
        <4> QED  BY <1>3, <4>2, <4>3 DEF ExecutorStep
      <3>2. CASE ResetFixture \/ JournalNotCreated
        BY <1>1, <2>2, <3>2
           DEF ResetFixture, JournalNotCreated, Polled, Supervised
      <3>3. CASE JournalFinished
        <4>1. /\ phase = "exec" /\ exec.place = "finish" /\ Supervised(outcome')
              /\ daemon' = daemon
          BY <3>3 DEF JournalFinished, Polled, Supervised
        <4>2. exec.error \in Errors \cup {"none"}
          BY DEF IInv, RunTypeOK, Futures
        <4>3. outcome' = "ok" => exec.error = "none"
          BY <3>3, <4>2 DEF JournalFinished, Supervised, Errors
        <4>4. outcome' = "ok" => daemon = {}
          BY <1>0, <4>1, <4>3 DEF AtDaemon
        <4> QED  BY <1>1, <4>1, <4>4
      <3> QED  BY <3>1, <3>2, <3>3
    <2> QED  BY <2>1, <2>2
  <1>4. CASE TimedOut \/ CancelledCase
    BY <1>1, <1>4 DEF TimedOut, CancelledCase, Drop, Supervised
  <1>5. CASE InspectApplication
    <2>1. /\ phase = "recover" /\ recovery = "inspect" /\ UNCHANGED <<phase, outcome, exec>>
          /\ UNCHANGED lateKill
          /\ \/ recovery' = "health" /\ daemon' = daemon
             \/ recovery' = "start" /\ daemon' = daemon \cup {"start"}
      BY <1>5 DEF InspectApplication, recoveryFrame, caseVars
    <2> QED  BY <1>0, <2>1 DEF AtRecovery, Between, After
  <1>6. CASE ApplicationStarted
    <2>1. /\ phase = "recover" /\ UNCHANGED <<phase, outcome, exec, daemon, lateKill>>
          /\ recovery' = "health" /\ "start" \notin daemon
      BY <1>6 DEF ApplicationStarted, recoveryFrame, caseVars
    <2> QED  BY <1>0, <2>1 DEF AtRecovery, Between, After
  <1>7. CASE ApplicationHealthy \/ RecoveryFails
    <2>1. /\ phase = "recover" /\ phase' = "settle"
          /\ UNCHANGED <<outcome, exec, daemon, lateKill>>
          /\ recovery' = "failed" \/ (recovery' = "ok" /\ recovery = "health")
      BY <1>7 DEF ApplicationHealthy, RecoveryFails, caseVars
    <2> QED  BY <1>0, <2>1 DEF AtRecovery, Between, After
  <1>8. CASE SnapshotCase
    <2>1. /\ phase = "snapshot" /\ phase' \in {"finalize", "next"}
          /\ UNCHANGED <<recovery, daemon, lateKill, exec>>
      BY <1>8 DEF SnapshotCase, Fail, caseVars
    <2>2. daemon = {}
      BY <1>0, <2>1 DEF AtRecovery, After
    <2> QED  BY <1>0, <2>1, <2>2 DEF AtRecovery, Between, After
  <1>9. CASE ResetCase
    <2>1. /\ phase = "reset" /\ UNCHANGED <<recovery, daemon, lateKill>>
          /\ \/ phase' = "finalize" /\ exec' = exec
             \/ phase' = "exec" /\ exec'.place # "gone"
      BY <1>9 DEF ResetCase, Fail
    <2> QED  BY <1>0, <2>1 DEF AtRecovery, Between, After
  <1>10. CASE StartRun \/ Attest \/ NextCase
    <2>1. /\ phase \in Between
          /\ phase' \in Between \/ phase' \in {"refused", "finalize"}
          /\ UNCHANGED <<recovery, daemon, lateKill, exec, outcome>>
      BY <1>10 DEF StartRun, Attest, NextCase, Fail, Between, caseVars
    <2> QED  BY <1>2, <2>1 DEF Between, After
  <1>11. CASE SettleCase
    <2>1. phase = "settle" /\ phase' \in {"snapshot", "finalize"}
      BY <1>11 DEF SettleCase, Fail
    <2>2. UNCHANGED <<recovery, daemon, lateKill, exec, outcome>>
      BY <1>11 DEF SettleCase, caseVars
    <2> QED  BY <1>2, <2>1, <2>2 DEF Between, After
  <1>12. CASE Evaluate \/ WriteManifest \/ Publish \/ SyncBase
    <2>1. /\ \/ phase = "snapshot" /\ phase' = "snapshot"
             \/ phase' \in Ends /\ phase \in Ends
          /\ UNCHANGED <<recovery, daemon, lateKill, exec, outcome>>
      BY <1>12 DEF Evaluate, WriteManifest, Publish, SyncBase, Ends, caseVars
    <2> QED  BY <1>2, <2>1 DEF Between, After, Ends
  <1>13. CASE Crash
    <2>1. phase' = "crashed" /\ UNCHANGED <<recovery, daemon, lateKill, exec, outcome>>
      BY <1>13 DEF Crash, caseVars
    <2> QED  BY <1>2, <2>1 DEF Between, After
  <1>14. CASE Writer \/ AbandonedOpen \/ Cancel \/ Docker \/ UNCHANGED vars
    <2>1. /\ UNCHANGED <<phase, recovery, lateKill, exec, outcome>>
          /\ daemon' \subseteq daemon
      BY <1>14 DEF Writer, AbandonedOpen, Cancel, Docker, vars, caseVars
    <2> QED  BY <1>2, <2>1
  <1> QED
    BY <1>3, <1>4, <1>5, <1>6, <1>7, <1>8, <1>9, <1>10, <1>11, <1>12, <1>13, <1>14
       DEF Next, SupervisorStep

\* A case whose recovery succeeded leaves the application running.
LEMMA RunningKept == ASSUME IInv, [Next]_vars PROVE AppLeftRunning'
  <1>0. /\ AtRecovery /\ AppLeftRunning /\ daemon \in SUBSET {"kill", "start"}
        /\ appUp \in BOOLEAN
        /\ phase \in Phases
        /\ phase = "exec" => exec.place # "gone"
        /\ phase \in Phases \ {"exec", "crashed"} => exec.place = "gone"
    BY DEF IInv, AppInv, RunTypeOK, Places
  <1> SUFFICES ASSUME phase' \notin {"exec", "recover"}, recovery' = "ok", ~ lateKill',
                      phase' = "crashed" => exec'.place = "gone"
               PROVE  appUp'
    BY DEF AppLeftRunning
  <1> USE DEF processVars, stackVars, executorFrame, runVars
  <1>1. CASE ExecutorStep
    BY <1>1, ExecutorMoves
  <1>2. CASE ApplicationHealthy
    BY <1>2 DEF ApplicationHealthy, ApplicationAttested
  <1>3. ASSUME UNCHANGED <<recovery, lateKill, appUp>>,
               phase \notin {"exec", "recover"},
               phase = "crashed" => phase' = "crashed" /\ exec' = exec
        PROVE  appUp'
    BY <1>0, <1>3 DEF AppLeftRunning
  <1>4. CASE SupervisorStep /\ ~ ApplicationHealthy
    <2>1. CASE StartRun \/ Attest \/ NextCase \/ ResetCase
      BY <1>3, <2>1 DEF StartRun, Attest, NextCase, ResetCase
    <2>2. CASE TimedOut \/ CancelledCase \/ InspectApplication \/ ApplicationStarted
               \/ RecoveryFails
      BY <2>2
         DEF TimedOut, CancelledCase, Drop, Supervised, InspectApplication,
             ApplicationStarted, RecoveryFails, recoveryFrame
    <2>3. CASE SettleCase
      <3>1. phase = "settle" /\ UNCHANGED <<recovery, lateKill, appUp>>
        BY <2>3 DEF SettleCase
      <3> QED  BY <1>3, <3>1
    <2>4. CASE Evaluate \/ SnapshotCase
      BY <1>3, <2>4 DEF Evaluate, SnapshotCase
    <2>5. CASE WriteManifest \/ Publish \/ SyncBase
      BY <1>3, <2>5 DEF WriteManifest, Publish, SyncBase
    <2> QED
      BY <1>4, <2>1, <2>2, <2>3, <2>4, <2>5 DEF SupervisorStep
  <1>5. CASE Crash
    <2>1. phase \notin Over /\ UNCHANGED <<exec, recovery, lateKill, appUp>>
          /\ phase' = "crashed"
      BY <1>5 DEF Crash, caseVars
    <2>2. phase # "exec"
      BY <1>0, <2>1
    <2>3. phase # "recover"
      BY <1>0, <2>1 DEF AtRecovery
    <2> QED  BY <1>3, <2>1, <2>2, <2>3 DEF Over
  <1>6. CASE Docker
    <2>1. UNCHANGED <<phase, exec, recovery, lateKill>>
      BY <1>6 DEF Docker, caseVars
    <2>2. appUp
      BY <1>0, <2>1 DEF AppLeftRunning
    <2>3. "kill" \notin daemon
      BY <1>0, <2>1 DEF AtRecovery
    <2>4. PICK command \in daemon : appUp' = (command = "start") \/ appUp' = appUp
      BY <1>6 DEF Docker
    <2>5. command = "start"
      BY <1>0, <2>3, <2>4
    <2> QED  BY <2>2, <2>4, <2>5
  <1>7. CASE Writer \/ AbandonedOpen \/ Cancel \/ UNCHANGED vars
    <2>1. UNCHANGED <<phase, exec, recovery, lateKill, appUp>>
      BY <1>7 DEF Writer, AbandonedOpen, Cancel, vars, caseVars
    <2> QED  BY <1>0, <2>1 DEF AppLeftRunning
  <1> QED  BY <1>1, <1>2, <1>4, <1>5, <1>6, <1>7 DEF Next

\* The invariant of the application.
LEMMA AppKept == ASSUME IInv, [Next]_vars PROVE AppInv'
  BY DaemonKnown, RecoveryKnown, RunningKept DEF AppInv
-----------------------------------------------------------------------------
(* The theorems.                                                            *)

\* The campaign begins with no journal, no case and the application running.
LEMMA InitInv == Init => IInv
  <1> SUFFICES ASSUME Init PROVE IInv
    OBVIOUS
  <1> USE DEF Init, JournalInit, SnapshotInit
  <1>0. /\ CaseCount \in Nat /\ CaseCount >= 1 /\ ActionCount \in Nat /\ ActionCount >= 2
        /\ 1 \in Cases
    BY JournalAssumption, PlanAssumption, ActionCountAssumption DEF Cases
  <1>a. \A c \in Cases : files[c] = Absent /\ Durable(c) = <<>>
    BY DEF Durable
  <1>1. JournalInv
    <2>1. JournalTypeOK
      BY <1>0 DEF JournalTypeOK
    <2> QED
      BY <1>0, <1>a, <2>1
         DEF JournalInv, SyncedInFile, WriterFile, WriterCounts, RequestFits, Active
  <1>2. RunTypeOK
    <2>1. exec \in Futures
      BY FutureIsOver
    <2>2. adapter \in Adapters
      BY DEF Adapters, FreshAdapter
    <2>3. phase \in Phases /\ caseNo \in 1 .. CaseCount + 1
      BY <1>0 DEF Phases
    <2> QED  BY <2>1, <2>2, <2>3 DEF RunTypeOK
  <1>3. Places /\ JournalFirst /\ ExecInv
    BY FutureIsOver DEF Places, JournalFirst, ExecInv, After
  <1>4. CasesDone
    BY <1>0, <1>a DEF CasesDone, Between, After, Ends, Cases
  <1>5. CauseInv /\ Published
    BY DEF CauseInv, CauseIsFirst, Published, Between, After
  <1>6. SnapshotInv
    <2>1. Len(Suite) \in Nat /\ At("none") \in Sessions /\ At("none").place = "none"
      BY SuiteAssumption DEF At, Sessions, SessionPlaces
    <2>2. <<>> \in Seq(Databases)
      OBVIOUS
    <2>3. {} \in Databases
      BY DEF Databases
    <2>4. Violating = {}
      BY DEF Violating
    <2>5. Told
      BY <2>4 DEF Told
    <2> QED
      BY <2>1, <2>2, <2>3, <2>5 DEF SnapshotInv, SnapshotTypeOK, Prepared, Evaluated
  <1>7. AppInv
    BY DEF AppInv, AtRecovery, AppLeftRunning, Between, After
  <1> QED  BY <1>1, <1>2, <1>3, <1>4, <1>5, <1>6, <1>7 DEF IInv

\* The invariant holds of every campaign: what the journals hold, where the
\* future of the case is, what the daemon still has, what is in the artifact.
THEOREM CampaignInvariant == Spec => []IInv
  <1>1. IInv /\ [Next]_vars => IInv'
    <2> SUFFICES ASSUME IInv, [Next]_vars PROVE IInv'
      OBVIOUS
    <2> QED
      BY JournalInvKept, RunTyped, IntentsStay, ExecKept, CasesKept, CauseKept,
         PublishedKept, SnapshotKept, AppKept
         DEF IInv
  <1> QED  BY <1>1, InitInv, PTL DEF Spec

\* No action touches application, fixture or container unless its intent is on
\* stable storage (execute_case_actions).
THEOREM IntentsComeFirst == Spec => []JournalFirst
  <1>1. IInv => JournalFirst
    BY DEF IInv
  <1> QED  BY <1>1, CampaignInvariant, PTL

\* The writer never refuses a record of a case: the sequences the executor
\* computes are those it counts, and no case has more records than its limit
\* (observation_sequence, JournalLimits, run_writer).
THEOREM RecordsAreAccepted == Spec => []NeverRefused
  <1>1. IInv => NeverRefused
    BY DEF IInv, JournalInv, NeverRefused
  <1> QED  BY <1>1, CampaignInvariant, PTL

\* The records of JournalLog are those of the journal, and follow in the same order.
LEMMA SameRecords ==
  ASSUME NEW c
  PROVE  /\ Log(c)!Kinds = Kinds /\ Log(c)!Actions = Actions
         /\ \A record, records : Log(c)!Follows(record, records) <=> Follows(record, records)
  <1>1. Log(c)!Kinds = Kinds /\ Log(c)!Actions = Actions
    BY DEF Log!Kinds, Kinds, Log!Actions, Actions
  <1> SUFFICES ASSUME NEW record, NEW records
               PROVE  Log(c)!Follows(record, records) <=> Follows(record, records)
    BY <1>1
  <1>2. Log(c)!Observed(records) = Observed(records)
    BY DEF Log!Observed, Observed, Log!IsControl, IsControl
  <1>3. /\ Log(c)!Open(records) <=> Open(records)
        /\ Log(c)!Current(records) = Current(records)
    BY DEF Log!Open, Open, Log!Current, Current
  <1>4. Log(c)!Cardinality(Observed(records)) = Cardinality(Observed(records))
    BY Zenon DEF Log!Cardinality, Cardinality
  <1> QED  BY <1>2, <1>3, <1>4 DEF Log!Follows, Follows

\* A step of the campaign adds nothing to a journal on stable storage, or a
\* record that may follow.
LEMMA JournalsGrow ==
  ASSUME IInv, [Next]_vars, NEW c \in Cases
  PROVE  UNCHANGED Durable(c) \/ Log(c)!Next
  <1>0. JournalInv /\ JournalStep
    BY JournalInvKept DEF IInv
  <1>1. CASE Sync /\ c = journaled
    <2>1. /\ request \in Records /\ Follows(request, Durable(c))
          /\ Durable(c)' = Append(Durable(c), request)
      BY <1>0, <1>1, SyncAppends DEF Fits
    <2>2. Durable(c) \in Seq(Records)
      BY <1>0, DurableIsLog DEF JournalInv
    <2>3. request.action \in 1 .. ActionCount /\ ActionCount \in Nat
      BY <2>1, ActionCountAssumption DEF Records, Actions
    <2>4. /\ Observations(Durable(c)) \in Nat
          /\ Observations(Durable(c)) <= Len(Durable(c))
      BY <2>2, ObservationsAreRecords
    <2>5. request.sequence \in 1 .. 2 * ActionCount + Len(Durable(c)) + 1
      <3>1. Len(Durable(c)) \in Nat
        BY <2>2
      <3> QED  BY <2>1, <2>3, <2>4, <3>1 DEF Follows, Observations
    <2>6. request \in [kind : Kinds, action : Actions,
                       sequence : 1 .. 2 * ActionCount + Len(Durable(c)) + 1]
      BY <2>1, <2>5 DEF Records
    <2> QED  BY <2>1, <2>6, SameRecords DEF Log!Next
  <1>2. CASE Sync /\ c # journaled
    BY <1>0, <1>2, SyncAppends
  <1>3. CASE ~ Sync
    BY <1>0, <1>3, OnlySyncAppends
  <1> QED  BY <1>1, <1>2, <1>3

\* Each case's journal on stable storage is at any time a log as JournalLog
\* describes it: the campaign implements it, for every case at once.
THEOREM JournalsAreLogs == Spec => DurableLogs
  <1>1. Init => \A c \in Cases : Log(c)!Init
    BY DEF Init, JournalInit, Durable, Log!Init
  <1>2. IInv /\ [Next]_vars
           => [\A c \in Cases : UNCHANGED Durable(c) \/ Log(c)!Next]_journalVars
    BY JournalsGrow
  <1> QED  BY <1>1, <1>2, CampaignInvariant, PTL DEF Spec, DurableLogs

\* A complete artifact has every case: its verdict, which is what one snapshot
\* of the database showed, and its journal, whole and as the manifest has it.
THEOREM CompleteArtifacts == Spec => []CompleteIsWhole
  <1>1. IInv => CompleteIsWhole
    <2> SUFFICES ASSUME IInv PROVE CompleteIsWhole
      OBVIOUS
    <2>1. /\ Told /\ JournalInv
          /\ \A c \in Cases : c < caseNo => CaseDone(c)
      BY DEF IInv, SnapshotInv, CasesDone
    <2>2. ASSUME artifact = "complete", NEW c \in Cases
          PROVE  /\ files[c] = manifest[c] /\ Durable(c) = manifest[c]
                 /\ LastDurable(c) = OutcomeOf(ActionCount)
                 /\ <<c, ActionCount>> \in started
      <3>1. caseNo = CaseCount + 1 /\ manifest = files
        BY <2>2 DEF IInv, Published
      <3>2. CaseDone(c)
        BY <2>1, <2>2, <3>1, JournalAssumption DEF Cases
      <3>3. /\ files[c] \in Seq(Bytes) /\ synced[c] = Len(files[c])
            /\ Durable(c) = SubSeq(files[c], 1, synced[c])
        BY <2>1, <2>2, <3>2 DEF CaseDone, JournalInv, JournalTypeOK, Durable
      <3>4. Durable(c) = files[c]
        BY <3>3
      <3>5. LastDurable(c) = OutcomeOf(ActionCount)
        BY <3>2, ActionCountAssumption DEF CaseDone, Closed, LastDurable
      <3> QED  BY <3>1, <3>2, <3>4, <3>5 DEF CaseDone
    <2>3. artifact = "complete" => Len(results) = CaseCount
      <3>1. Len(results) \in Nat
        BY DEF IInv, SnapshotInv, SnapshotTypeOK
      <3> QED  BY <2>1, <3>1, JournalAssumption DEF Told, IInv, Published
    <2> QED  BY <2>1, <2>2, <2>3 DEF CompleteIsWhole, Told
  <1> QED  BY <1>1, CampaignInvariant, PTL

\* The last record on stable storage tells whether the application runs.
THEOREM JournalIsTrue == Spec => []JournalTellsApplication
  <1>1. IInv => JournalTellsApplication
    BY JournalTells
  <1> QED  BY <1>1, CampaignInvariant, PTL

\* A case whose recovery succeeded leaves the application running, unless the
\* daemon still had a kill when the case was given up.
THEOREM RecoveryRestores == Spec => []AppLeftRunning
  <1>1. IInv => AppLeftRunning
    BY DEF IInv, AppInv
  <1> QED  BY <1>1, CampaignInvariant, PTL

\* The class a campaign ends with is that of the first thing that went wrong.
THEOREM FirstCauseWins == Spec => []CauseIsFirst
  <1>1. IInv => CauseIsFirst
    BY DEF IInv, CauseInv
  <1> QED  BY <1>1, CampaignInvariant, PTL
=============================================================================
