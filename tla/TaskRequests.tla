--------------------------- MODULE TaskRequests ---------------------------
(***************************************************************************)
(* What send_task promises an agent that waits for an answer: the request  *)
(* is decided once, by an answer to this request, by its timeout or by an  *)
(* error, and it is decided.  `outcome' holds the request an answer is for *)
(* or one of the words.                                                    *)
(***************************************************************************)
CONSTANT Requests

VARIABLE outcome

Init == outcome = [r \in Requests |-> "unsent"]

Ask(r) ==
  /\ outcome[r] = "unsent"
  /\ outcome' = [outcome EXCEPT ![r] = "waiting"]

Decide(r) ==
  /\ outcome[r] \in {"unsent", "waiting"}
  /\ \E o \in {"timeout", "error", r} : outcome' = [outcome EXCEPT ![r] = o]

Next == \E r \in Requests : Ask(r) \/ Decide(r)

Safety == Init /\ [][Next]_outcome

Spec == Safety /\ \A r \in Requests : WF_outcome(outcome[r] = "waiting" /\ Decide(r))
=============================================================================
