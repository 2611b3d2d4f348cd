------------------------------ MODULE JournalLog ------------------------------
(***************************************************************************)
(* What the journal of a case promises to whoever reads it after a crash:  *)
(* at any time the records on stable storage tell, action after action,    *)
(* the intent, what was observed during the effect, and the outcome, and   *)
(* each producer's sequence has no gap.  A new action is never announced   *)
(* before the outcome of the last one is recorded.                         *)
(***************************************************************************)
EXTENDS JournalRecords

VARIABLE log              \* the records on stable storage, oldest first

Init == log = <<>>
Next == \E record \in [kind : Kinds, action : Actions,
                       sequence : 1 .. 2 * ActionCount + Len(log) + 1] :
          /\ Follows(record, log)
          /\ log' = Append(log, record)
Spec == Init /\ [][Next]_log

===============================================================================
