----------------------------- MODULE PollPrompt -----------------------------
(***************************************************************************)
(* The behaviours of PollEngine without the one deadlock that its calls    *)
(* can run into (MCPollDeadlock), so that what else could stop a call or a *)
(* poll for ever can be checked.                                           *)
(***************************************************************************)
EXTENDS PollEngine

\* Unregister does not empty a group whose goroutine is inside tick.
EmptiedAtRest == \A p \in Callers :
    proc[p].at = "wait" => group[proc[p].group].pc \in {"select", "exit"}

PromptSpec == Init /\ [][Next /\ EmptiedAtRest']_vars /\ Fairness
=============================================================================
