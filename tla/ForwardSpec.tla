---------------------------- MODULE ForwardSpec ----------------------------
(***************************************************************************)
(* What Engine::forward_upstream promises its callers, whatever transport, *)
(* retry or fallback it uses: each call returns once, with the upstream's  *)
(* answer to the query it was given or with an error.                      *)
(***************************************************************************)
CONSTANT Req      \* concurrent calls

VARIABLE result   \* result[r]: "none" while r's call runs, then r (its own answer) or "err"

Init == result = [r \in Req |-> "none"]

\* Call r returns its own answer or an error, once.
Return(r) ==
    /\ result[r] = "none"
    /\ \E v \in {r, "err"} : result' = [result EXCEPT ![r] = v]

Next == \E r \in Req : Return(r)

\* A running call is bound to return.
Spec == Init /\ [][Next]_result /\ \A r \in Req : WF_result(Return(r))
=============================================================================
