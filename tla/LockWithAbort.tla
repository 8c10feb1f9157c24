---------------------------- MODULE LockWithAbort ----------------------------
(***************************************************************************)
(* pyobs.utils.threads.LockWithAbort: the context manager with which the   *)
(* motion handlers of a device take turns.  It guards an asyncio.Lock and   *)
(* an asyncio.Event.  A handler first tries the lock for one second; if it *)
(* does not get it, it sets the event, which asks the holder to give up,    *)
(* and tries again for ten seconds; if that fails too it raises            *)
(* DeviceBusyError.  Whoever gets the lock clears the event.               *)
(*                                                                         *)
(* The waiting line of asyncio.Lock is first come, first served.  It is     *)
(* kept as ahead[t], the tasks that t has to wait for.  The passing of the  *)
(* one and the ten seconds is an action of its own, enabled at any moment   *)
(* of the wait.                                                             *)
(***************************************************************************)

CONSTANT Task        \* the asyncio tasks that run handlers of one device

VARIABLES
  stage,             \* stage[t]: where task t is in __aenter__ / __aexit__
  ahead,             \* ahead[t]: the tasks in front of t in the lock's waiting line
  asked              \* the tasks that have set the abort event since it was last cleared

lockVars == <<stage, ahead, asked>>

(* The asyncio.Event that asks the holder to stop.                         *)
abortSet == asked # {}

Waiting == {t \in Task : stage[t] \in {"first", "second"}}

Holders == {t \in Task : stage[t] = "in"}

LockTypeOK ==
  /\ stage \in [Task -> {"out", "first", "second", "in"}]
  /\ ahead \in [Task -> SUBSET Task]
  /\ asked \subseteq Task

LockInit ==
  /\ stage = [t \in Task |-> "out"]
  /\ ahead = [t \in Task |-> {}]
  /\ asked = {}

(* t is no longer in anybody's way, nor in the line itself.                *)
LeaveLine(t) == ahead' = [u \in Task |-> IF u = t THEN {} ELSE ahead[u] \ {t}]

-----------------------------------------------------------------------------

(* async with LockWithAbort(...): a free lock that nobody waits for is     *)
(* taken at once ...                                                       *)
Take(t) ==
  /\ stage[t] = "out"
  /\ Holders = {} /\ Waiting = {}
  /\ stage' = [stage EXCEPT ![t] = "in"]
  /\ asked' = {}
  /\ UNCHANGED ahead

(* ... otherwise t joins the end of the line.                              *)
Join(t) ==
  /\ stage[t] = "out"
  /\ Holders # {} \/ Waiting # {}
  /\ stage' = [stage EXCEPT ![t] = "first"]
  /\ ahead' = [ahead EXCEPT ![t] = Waiting]
  /\ UNCHANGED asked

(* The lock is free and t is at the head of the line.                      *)
Grant(t) ==
  /\ t \in Waiting
  /\ Holders = {}
  /\ ahead[t] = {}
  /\ stage' = [stage EXCEPT ![t] = "in"]
  /\ LeaveLine(t)
  /\ asked' = {}

(* Wrong on purpose: t keeps its place in front of the tasks behind it.    *)
FirstTimeoutInPlace(t) ==
  /\ stage[t] = "first"
  /\ Holders # {} \/ Waiting # {t}
  /\ asked' = asked \cup {t}
  /\ stage' = [stage EXCEPT ![t] = "second"]
  /\ ahead' = [ahead EXCEPT ![t] = Waiting \ {t}]

(* One second has passed: t asks the holder to abort and goes back to the  *)
(* end of the line.  With the lock free and nobody else waiting the second *)
(* try succeeds on the spot, which is what Grant(t) does.                  *)
FirstTimeout(t) ==
  /\ stage[t] = "first"
  /\ Holders # {} \/ Waiting # {t}
  /\ asked' = asked \cup {t}
  /\ stage' = [stage EXCEPT ![t] = "second"]
  /\ ahead' = [u \in Task |-> IF u = t THEN Waiting \ {t} ELSE ahead[u] \ {t}]

(* Ten more seconds have passed: DeviceBusyError.  __aenter__ has raised,  *)
(* so __aexit__ is not run and the event stays as it is.  If t \in asked    *)
(* nobody has taken the lock since t set the event: one and the same task  *)
(* has kept it through the ten seconds.                                    *)
SecondTimeout(t) ==
  /\ stage[t] = "second"
  /\ stage' = [stage EXCEPT ![t] = "out"]
  /\ LeaveLine(t)
  /\ UNCHANGED asked

(* __aexit__: the block has ended, normally or by an exception.            *)
Exit(t) ==
  /\ stage[t] = "in"
  /\ stage' = [stage EXCEPT ![t] = "out"]
  /\ UNCHANGED <<ahead, asked>>

Acquire(t) == Take(t) \/ Grant(t)

LockStep(t) ==
  Join(t) \/ Acquire(t) \/ FirstTimeout(t) \/ SecondTimeout(t) \/ Exit(t)

LockSpec == LockInit /\ [][\E t \in Task : LockStep(t)]_lockVars

-----------------------------------------------------------------------------

(* The lock is held by one task at most, and the waiting line is a line:   *)
(* exactly the waiting tasks stand in it, of any two of them one is in     *)
(* front of the other, and being in front is transitive.                   *)
MutualExclusion == \A t, u \in Holders : t = u

LineIsOrdered ==
  /\ \A t \in Task : t \notin ahead[t] /\ ahead[t] \subseteq Waiting
  /\ \A t \in Task \ Waiting : ahead[t] = {}
  /\ \A t, u \in Waiting : t # u => (t \in ahead[u] <=> u \notin ahead[t])
  /\ \A t, u \in Task : t \in ahead[u] => ahead[t] \subseteq ahead[u]
=============================================================================
