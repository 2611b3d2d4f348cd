------------------------------ MODULE Preflight -------------------------------
(***************************************************************************)
(* What the runtime demands of a list of actions before it touches the     *)
(* stack (preflight_reference_actions of reference_case.rs): a kill must   *)
(* come right after an action whose effect its cut point is made for.      *)
(***************************************************************************)
EXTENDS Planner

BusinessRequest == {"DriveCheckout", "RetryBusinessRequest"}
Delivery == {"DeliverWebhook", "DuplicateWebhook"}

\* A variant of CutBy: only the first request can be cut.
CutByFirstRequest(cutPoint, a) == a.kind \in Delivery \cup {"DriveCheckout"}

(* The *_cut_point_actions functions: the action a kill must come right after. *)

ClientRequestCut(a) ==
    a.kind \in BusinessRequest /\ TerminalOutcome(a.script) = "CommitThenDelay"

ClientResponseCut(a) ==
    a.kind \in BusinessRequest /\ TerminalOutcome(a.script) # "CommitThenDelay"

WebhookRequestCut(a) == a.kind \in Delivery
WebhookResponseCut(a) == a.kind \in Delivery

SqlProbeCut(a) == a.kind = "DriveCheckout" /\ TerminalOutcome(a.script) = "Normal"

CutBy(cutPoint, a) ==
    CASE cutPoint = "ClientRequestForwarded" -> ClientRequestCut(a)
      [] cutPoint = "ClientResponseObserved" -> ClientResponseCut(a)
      [] cutPoint = "WebhookRequestForwarded" -> WebhookRequestCut(a)
      [] cutPoint = "WebhookResponseObserved" -> WebhookResponseCut(a)
      [] cutPoint = "SqlProbe" -> SqlProbeCut(a)

Preflight(before, a) ==
    a.kind = "KillApplication" => CutBy(a.cutPoint, before)

NoAction == [kind |-> "None"]
=============================================================================
