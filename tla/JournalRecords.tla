---------------------------- MODULE JournalRecords ----------------------------
(***************************************************************************)
(* The records of a case journal (crates/tiv-runtime/src/journal.rs) and   *)
(* the order in which they may follow each other.  All producers but the   *)
(* orchestrator number their records the same way: one, "fixture", stands  *)
(* for the fixture, the driver and the SQL probe.                          *)
(***************************************************************************)
EXTENDS Naturals, Sequences, FiniteSets

CONSTANT ActionCount      \* the actions of the case

ASSUME ActionCountAssumption == ActionCount \in Nat \ {0}

Actions == 1 .. ActionCount
Kinds == {"intent", "observation", "outcome"}
Records == [kind : Kinds, action : Actions, sequence : Nat]

\* The records of the orchestrator; the others are the fixture's.
IsControl(record) == record.kind # "observation"
Observed(records) == {i \in DOMAIN records : ~ IsControl(records[i])}

\* The action a sequence of records is in, and the one it would go on to.
Current(records) == IF records = <<>> THEN 0 ELSE records[Len(records)].action
Open(records) == records # <<>> /\ records[Len(records)].kind # "outcome"

Follows(record, records) ==
    \/ /\ record.kind = "intent" /\ ~ Open(records)
       /\ record.action = Current(records) + 1
       /\ record.sequence = 2 * record.action - 1
    \/ /\ record.kind = "observation" /\ Open(records)
       /\ record.action = Current(records)
       /\ record.sequence = Cardinality(Observed(records)) + 1
    \/ /\ record.kind = "outcome" /\ Open(records)
       /\ record.action = Current(records)
       /\ record.sequence = 2 * record.action

===============================================================================
