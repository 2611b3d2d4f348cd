-------------------------------- MODULE Journal --------------------------------
(***************************************************************************)
(* The observation journals of one run: ObservationJournal and its single  *)
(* writer task (crates/tiv-runtime/src/journal.rs).  Each case has a file; *)
(* one writer exists at a time.  append() sends a request through a        *)
(* channel and waits for the reply, and its callers take turns, so at most *)
(* one request is in the channel or with the writer.                       *)
(*                                                                         *)
(* The writer is a task of its own: dropping the caller closes the channel *)
(* and forgets the JoinHandle, and the writer goes on by itself with the   *)
(* request it has, if any.                                                 *)
(***************************************************************************)
EXTENDS JournalRecords

CONSTANTS CaseCount,      \* the cases of the campaign
          Absent,         \* a journal file that does not exist
          Torn,           \* the bytes of a record written in part
          NoRequest

Cases == 1 .. CaseCount

ASSUME JournalAssumption ==
    /\ CaseCount \in Nat \ {0}
    /\ Absent \notin Seq(Records \cup {Torn})
    /\ Torn \notin Records /\ NoRequest \notin Records

VARIABLES files,          \* the records in each file, written or synchronised
          synced,         \* how many of them are on stable storage
          journaled,      \* the case whose journal the writer has
          writer,         \* state of the writer task
          request,        \* the AppendRequest in the channel or in hand
          sender,         \* whether the channel is still open
          reply,          \* the answer the caller of append() waits for
          recordCount,    \* run_writer's record_count
          sequences       \* run_writer's producer_sequences

journalVars == <<files, synced, journaled, writer, request, sender, reply,
                 recordCount, sequences>>

Producers == {"orchestrator", "fixture"}
ProducerOf(record) == IF IsControl(record) THEN "orchestrator" ELSE "fixture"
\* JournalLimits of a case: four records for each of its actions.
MaxRecords == 4 * ActionCount

Durable(c) == IF files[c] = Absent THEN <<>> ELSE SubSeq(files[c], 1, synced[c])

JournalInit ==
    /\ files = [c \in Cases |-> Absent]
    /\ synced = [c \in Cases |-> 0]
    /\ journaled = 1
    /\ writer = "none"
    /\ request = NoRequest
    /\ sender = FALSE
    /\ reply = "none"
    /\ recordCount = 0
    /\ sequences = [p \in Producers |-> 0]

\* The promise, of the journal of each case.
Log(c) == INSTANCE JournalLog WITH log <- Durable(c)

(***************************************************************************)
(* The side of the caller.                                                 *)
(***************************************************************************)

\* ObservationJournal::create begins to open the file.
BeginCreate(c) ==
    /\ journaled' = c
    /\ writer' = "opening"
    /\ recordCount' = 0
    /\ sequences' = [p \in Producers |-> 0]
    /\ UNCHANGED <<files, synced, request, sender, reply>>

\* The open is done by a thread of the runtime.  The writer is started only
\* if the caller is still there to start it.
FileOpened(callerWaits) ==
    /\ writer = "opening"
    /\ files' = [files EXCEPT ![journaled] = <<>>]
    /\ writer' = IF callerWaits THEN "idle" ELSE "none"
    /\ sender' = callerWaits
    /\ UNCHANGED <<synced, journaled, request, reply, recordCount, sequences>>

FileNotOpened ==
    /\ writer = "opening"
    /\ writer' = "none"
    /\ UNCHANGED <<files, synced, journaled, request, sender, reply,
                   recordCount, sequences>>

\* append(): the caller sends a record and waits.
Send(record) ==
    /\ request' = record
    /\ reply' = "waiting"
    /\ UNCHANGED <<files, synced, journaled, writer, sender, recordCount,
                   sequences>>

\* finish() and a drop of the caller both close the channel.
CloseChannel ==
    /\ sender' = FALSE
    /\ reply' = "none"
    /\ UNCHANGED <<files, synced, journaled, writer, request, recordCount,
                   sequences>>

(***************************************************************************)
(* The writer task.                                                        *)
(***************************************************************************)

ExpectedSequence(p) == sequences[p] + 1

Acceptable(record) ==
    /\ recordCount # MaxRecords
    /\ record.sequence = ExpectedSequence(ProducerOf(record))

\* An answer reaches the caller only if it still waits.
Answer(value) == IF reply = "waiting" THEN value ELSE reply

TakeRequest ==
    /\ writer = "idle" /\ request # NoRequest
    /\ IF Acceptable(request)
         THEN writer' = "writing" /\ UNCHANGED <<request, reply>>
         ELSE /\ request' = NoRequest
              /\ reply' = Answer("refused")
              /\ UNCHANGED writer
    /\ UNCHANGED <<files, synced, journaled, sender, recordCount, sequences>>

\* What the writer does when write_durable has come to an end.
Acknowledge ==
    /\ recordCount' = recordCount + 1
    /\ sequences' = [sequences EXCEPT ![ProducerOf(request)] = request.sequence]
    /\ request' = NoRequest
    /\ reply' = Answer("ok")

\* write_durable: the bytes first, then the synchronisation.
Write ==
    /\ writer = "writing"
    /\ files' = [files EXCEPT ![journaled] = Append(@, request)]
    /\ writer' = "syncing"
    /\ UNCHANGED <<synced, journaled, request, sender, reply, recordCount,
                   sequences>>

Sync ==
    /\ writer = "syncing"
    /\ synced' = [synced EXCEPT ![journaled] = Len(files[journaled])]
    /\ writer' = "idle"
    /\ Acknowledge
    /\ UNCHANGED <<files, journaled, sender>>

\* Variant: the writer goes on after a record it could not write.
WriteFailsAndGoesOn ==
    /\ writer \in {"writing", "syncing"}
    /\ writer' = "idle"
    /\ request' = NoRequest
    /\ reply' = Answer("ioError")
    /\ writer = "writing" /\ files' = [files EXCEPT ![journaled] = Append(@, Torn)]
    /\ UNCHANGED <<synced, journaled, sender, recordCount, sequences>>

\* An error of either ends the writer; the bytes may be there in part.
WriteFails ==
    /\ writer \in {"writing", "syncing"}
    /\ writer' = "failed"
    /\ request' = NoRequest
    /\ reply' = Answer("ioError")
    /\ \/ UNCHANGED files
       \/ /\ writer = "writing"
          /\ files' = [files EXCEPT ![journaled] = Append(@, Torn)]
    /\ UNCHANGED <<synced, journaled, sender, recordCount, sequences>>

\* The channel is closed and drained: the file is synchronised for good.
FinalSync ==
    /\ writer = "idle" /\ request = NoRequest /\ ~ sender
    /\ \/ /\ writer' = "done"
          /\ synced' = [synced EXCEPT ![journaled] = Len(files[journaled])]
       \/ /\ writer' = "failed"
          /\ UNCHANGED synced
    /\ UNCHANGED <<files, journaled, request, sender, reply, recordCount,
                   sequences>>

WriterStep == TakeRequest \/ Write \/ Sync \/ WriteFails \/ FinalSync

\* A crash of the machine keeps what is synchronised and any part of what
\* is only written.
LoseUnsynced ==
    /\ \E kept \in synced[journaled] ..
                  (IF files[journaled] = Absent THEN 0 ELSE Len(files[journaled])) :
         files' = [c \in Cases |->
                     IF files[c] = Absent THEN Absent
                     ELSE SubSeq(files[c], 1, IF c = journaled THEN kept
                                              ELSE synced[c])]
    /\ writer' = "none"
    /\ request' = NoRequest
    /\ sender' = FALSE
    /\ reply' = "none"
    /\ UNCHANGED <<synced, journaled, recordCount, sequences>>

===============================================================================
