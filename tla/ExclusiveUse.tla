---------------------------- MODULE ExclusiveUse ----------------------------
(***************************************************************************)
(* What the device classes of pyobs promise about a piece of hardware,     *)
(* with everything else left out: the tasks of a module process use it one *)
(* after the other.  The asyncio tasks of the detailed modules implement   *)
(* this specification; each of them names the tasks that are using its     *)
(* device in the refinement mapping of its INSTANCE.                       *)
(***************************************************************************)

CONSTANT User    \* the tasks that may use the device

VARIABLE using   \* the tasks that are using it now

Init == using = {}

Begin(u) == using = {} /\ using' = {u}

End(u) == using = {u} /\ using' = {}

Next == \E u \in User : Begin(u) \/ End(u)

Spec == Init /\ [][Next]_using
=============================================================================
