----------------------------- MODULE AtMostOne -----------------------------
(***************************************************************************)
(* What an at-most-one theory promises the solver it is attached to: it    *)
(* makes a variable false only when another one is true, it reports a      *)
(* conflict only when two are true, and it lets propagation end only when  *)
(* nothing is left to say.                                                 *)
(***************************************************************************)
CONSTANT Vars

VARIABLES value,    \* "undef", "true" or "false" for each variable
          verdict   \* "open", "settled" or "conflict"

TwoTrue == \E u, v \in Vars : u # v /\ value[u] = "true" /\ value[v] = "true"
Complete == \A u, v \in Vars : u # v /\ value[u] = "true" => value[v] = "false"

Init == value \in [Vars -> {"undef", "true", "false"}] /\ verdict = "open"

\* The solver assigns a variable, or takes one back.
Give(v, b) ==
    /\ verdict # "conflict"
    /\ value[v] = "undef" /\ value' = [value EXCEPT ![v] = b] /\ verdict' = "open"
TakeBack(v) ==
    /\ value[v] # "undef" /\ value' = [value EXCEPT ![v] = "undef"]
    /\ verdict' = "open"

Imply(v) ==
    /\ value[v] = "undef" /\ value' = [value EXCEPT ![v] = "false"]
    /\ \E u \in Vars \ {v} : value[u] = "true"
    /\ verdict' = "open"

\* Propagation begins anew, ends, or ends in a conflict.
Reopen == verdict' = "open" /\ UNCHANGED value
Settle == Complete /\ verdict' = "settled" /\ UNCHANGED value
Refute == TwoTrue /\ verdict' = "conflict" /\ UNCHANGED value

Next ==
    \/ \E v \in Vars : Give(v, "true") \/ Give(v, "false") \/ TakeBack(v) \/ Imply(v)
    \/ Reopen \/ Settle \/ Refute

Spec == Init /\ [][Next]_<<value, verdict>>
=============================================================================
