-------------------------------- MODULE Snapshot --------------------------------
(***************************************************************************)
(* The evaluation of the invariants after a case: a session of its own, a  *)
(* role attested twice, the objects of the provider in a temporary table,  *)
(* and the witness queries one after another in one read-only transaction  *)
(* (crates/tiv-runtime/src/postgres/snapshot.rs, configured_database.rs).  *)
(*                                                                         *)
(* The case is quiescent, which is what samples have shown: the            *)
(* application, the fixture and anybody else can still write.  A state of  *)
(* the database is the set of invariants that have witnesses in it.        *)
(***************************************************************************)
EXTENDS Naturals, Sequences, Functions

CONSTANT Suite            \* the invariants in the order of evaluation

\* InvariantSuite::new admits each supported invariant once.
ASSUME SuiteAssumption ==
    Suite \in Seq(Range(Suite)) /\ Len(Suite) >= 1 /\ IsInjective(Suite)

VARIABLES session,        \* PostgresSession: how far the evaluation is
          shown,          \* the database the transaction has its snapshot of
          outcomes        \* SnapshotReport so far: the invariants violated

snapshotVars == <<session, shown, outcomes>>

Databases == SUBSET Range(Suite)

At(place) == [place |-> place, next |-> 0]

SnapshotInit == session = At("none") /\ shown = {} /\ outcomes = {}

\* ConfiguredCaseDatabase::connect: the identity is observed again, then the
\* session must be one of the administrator on that database.
OpenSnapshot ==
    /\ session.place = "none"
    /\ session' = At("connected")
    /\ UNCHANGED <<shown, outcomes>>

\* attest_invariant_role: the permit is bound to the session it was made in.
AttestRole ==
    /\ session.place = "connected"
    /\ session' = At("attested")
    /\ UNCHANGED <<shown, outcomes>>

\* validate_role_permit: attested once more, in the same session.
ValidatePermit ==
    /\ session.place = "attested"
    /\ session' = At("permitted")
    /\ UNCHANGED <<shown, outcomes>>

\* The objects the fixture had at the checkpoint, readable by the role.
LoadProjection ==
    /\ session.place = "permitted"
    /\ session' = At("projected")
    /\ UNCHANGED <<shown, outcomes>>

\* The transaction has its snapshot from its first statement on; timeouts and
\* role are set in it.
BeginSnapshot ==
    /\ session.place = "projected"
    /\ shown' \in Databases
    /\ session' = [place |-> "evaluating", next |-> 1]
    /\ UNCHANGED outcomes

\* Variant: every statement with a snapshot of its own.
ReadCommitted(seen, current) == current

\* REPEATABLE READ
Visible(seen, current) == seen

\* execute_invariant: violated if the query has a witness in what it sees.
EvaluateInvariant ==
    /\ session.place = "evaluating"
    /\ \E current \in Databases :
         outcomes' = outcomes \cup ({Suite[session.next]} \cap Visible(shown, current))
    /\ session' = IF session.next < Len(Suite)
                    THEN [session EXCEPT !.next = @ + 1] ELSE At("done")
    /\ UNCHANGED shown

\* A statement fails or is cut off, the role is not what it has to be, or the
\* witnesses exceed a limit: there is no report, whatever was found before.
\* The transaction, if there is one, is rolled back.
EvaluationFails ==
    /\ session.place \notin {"none", "done", "failed"}
    /\ session' = At("failed") /\ shown' = {} /\ outcomes' = {}

SnapshotPrepared == OpenSnapshot \/ AttestRole \/ ValidatePermit \/ LoadProjection

\* The transaction was rolled back and the session closed; an error of either,
\* like one of the connection, takes the report away.
Reported == session.place = "done"

LeaveSession ==
    /\ session.place \in {"none", "done", "failed"}
    /\ session' = At("none") /\ shown' = {} /\ outcomes' = {}

================================================================================
