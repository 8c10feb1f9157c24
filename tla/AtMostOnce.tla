----------------------------- MODULE AtMostOnce -----------------------------
(***************************************************************************)
(* What a remote call promises to the task that makes it: the method runs   *)
(* at most once, possibly after the caller has given up; the call ends once, *)
(* and what it ends with is true of what the other side did.                *)
(***************************************************************************)

CONSTANT Calls    \* the calls, each made once

VARIABLES
  work,           \* what has become of the method on the other side
  outcome         \* what the caller knows

Init ==
  /\ work = [i \in Calls |-> "none"]
  /\ outcome = [i \in Calls |-> "none"]

Ask(i) ==
  /\ outcome[i] = "none"
  /\ outcome' = [outcome EXCEPT ![i] = "waiting"]
  /\ UNCHANGED work

(* The other side refuses the method, or runs it to its end.               *)
Work(i) ==
  /\ outcome[i] # "none"
  /\ \/ /\ work[i] = "none"
        /\ work' \in {[work EXCEPT ![i] = w] : w \in {"runs", "returned", "refused"}}
     \/ /\ work[i] = "runs"
        /\ work' \in {[work EXCEPT ![i] = w] : w \in {"returned", "raised"}}
  /\ UNCHANGED outcome

(* Some calls are lost, before they have reached the other side or there.   *)
Lose(lost) ==
  /\ \A i \in lost : outcome[i] # "none" /\ work[i] \in {"none", "runs"}
  /\ work' = [i \in Calls |-> IF i \in lost THEN "gone" ELSE work[i]]
  /\ UNCHANGED outcome

(* The work that an outcome tells the caller of.                           *)
TrueOf(o) ==
  CASE o = "value" -> {"returned"}
    [] o = "fault" -> {"returned", "raised", "refused"}
    [] o = "error" -> {"refused"}
    [] o = "gaveUp" -> {"none", "runs", "returned", "raised", "refused", "gone"}

Answer(i) ==
  /\ outcome[i] = "waiting"
  /\ \E o \in {"value", "fault", "error", "gaveUp"} :
       /\ work[i] \in TrueOf(o)
       /\ outcome' = [outcome EXCEPT ![i] = o]
  /\ UNCHANGED work

Next ==
  \/ \E i \in Calls : Ask(i) \/ Work(i) \/ Answer(i)
  \/ \E lost \in SUBSET Calls : Lose(lost)

Spec == Init /\ [][Next]_<<work, outcome>>
=============================================================================
