----------------------------- MODULE LockProofs -----------------------------
(***************************************************************************)
(* Theorems about LockWithAbort, for any set of tasks.  They are stated of *)
(* LockSpec, and the lemmas about one step are cited where the lock is      *)
(* part of a device.                                                       *)
(***************************************************************************)
EXTENDS LockWithAbort, TLAPS

(* Every step of the lock keeps its variables in their types.              *)
LEMMA LockTypeStep ==
  ASSUME LockTypeOK, NEW t \in Task, LockStep(t)
  PROVE  LockTypeOK'
<1> USE DEF LockTypeOK
<1>1. CASE Join(t)
  BY <1>1 DEF Join, Waiting
<1>2. CASE Take(t)
  BY <1>2 DEF Take
<1>3. CASE Grant(t)
  BY <1>3 DEF Grant, LeaveLine, Waiting
<1>4. CASE FirstTimeout(t)
  BY <1>4 DEF FirstTimeout, Waiting
<1>5. CASE SecondTimeout(t)
  BY <1>5 DEF SecondTimeout, LeaveLine
<1>6. CASE Exit(t)
  BY <1>6 DEF Exit
<1>7. QED
  BY <1>1, <1>2, <1>3, <1>4, <1>5, <1>6 DEF LockStep, Acquire

(* The lock never has two holders: it is taken only when it is free.       *)
LEMMA MutualExclusionStep ==
  ASSUME LockTypeOK, MutualExclusion, NEW t \in Task, LockStep(t)
  PROVE  MutualExclusion'
<1> USE DEF LockTypeOK, MutualExclusion, Holders
<1>1. CASE Join(t)
  BY <1>1 DEF Join
<1>2. CASE Take(t)
  BY <1>2 DEF Take
<1>3. CASE Grant(t)
  BY <1>3 DEF Grant
<1>4. CASE FirstTimeout(t)
  BY <1>4 DEF FirstTimeout
<1>5. CASE SecondTimeout(t)
  BY <1>5 DEF SecondTimeout
<1>6. CASE Exit(t)
  BY <1>6 DEF Exit
<1>7. QED
  BY <1>1, <1>2, <1>3, <1>4, <1>5, <1>6 DEF LockStep, Acquire

(* Whoever joins goes to the end of the line, whoever leaves it closes the *)
(* gap, and one who has waited a second in vain moves to the end.          *)
LEMMA LineStep ==
  ASSUME LockTypeOK, LineIsOrdered, NEW t \in Task, LockStep(t)
  PROVE  LineIsOrdered'
<1>0. /\ Waiting \subseteq Task
      /\ \A u \in Task : ahead[u] \subseteq Waiting /\ u \notin ahead[u]
      /\ \A u \in Task \ Waiting : ahead[u] = {}
      /\ \A u, v \in Waiting : u # v => (u \in ahead[v] <=> v \notin ahead[u])
      /\ \A u, v \in Task : u \in ahead[v] => ahead[u] \subseteq ahead[v]
  BY DEF LineIsOrdered, Waiting
<1>1. CASE Join(t)
  <2>1. /\ Waiting' = Waiting \cup {t}
        /\ t \notin Waiting
        /\ \A u \in Task : u # t => ahead'[u] = ahead[u]
        /\ ahead'[t] = Waiting
    BY <1>1 DEF Join, Waiting, LockTypeOK
  <2>2. QED
    BY <1>0, <2>1 DEF LineIsOrdered
<1>2. CASE Take(t)
  <2>1. Waiting' = Waiting /\ ahead' = ahead
    BY <1>2 DEF Take, Waiting, LockTypeOK
  <2>2. QED
    BY <1>0, <2>1 DEF LineIsOrdered
<1>3. ASSUME t \in Waiting, LeaveLine(t), Waiting' = Waiting \ {t}
      PROVE  LineIsOrdered'
  <2>1. /\ \A u \in Task : u # t => ahead'[u] = ahead[u] \ {t}
        /\ ahead'[t] = {}
    BY <1>3 DEF LeaveLine
  <2>2. QED
    BY <1>0, <1>3, <2>1 DEF LineIsOrdered
<1>4. CASE Grant(t)
  <2>1. t \in Waiting /\ LeaveLine(t) /\ Waiting' = Waiting \ {t}
    BY <1>4 DEF Grant, Waiting, LockTypeOK
  <2>2. QED
    BY <1>3, <2>1
<1>5. CASE FirstTimeout(t)
  <2>1. /\ Waiting' = Waiting
        /\ t \in Waiting
        /\ \A u \in Task : u # t => ahead'[u] = ahead[u] \ {t}
        /\ ahead'[t] = Waiting \ {t}
    BY <1>5 DEF FirstTimeout, Waiting, LockTypeOK
  <2>2. QED
    BY <1>0, <2>1 DEF LineIsOrdered
<1>6. CASE SecondTimeout(t)
  <2>1. t \in Waiting /\ LeaveLine(t) /\ Waiting' = Waiting \ {t}
    BY <1>6 DEF SecondTimeout, Waiting, LockTypeOK
  <2>2. QED
    BY <1>3, <2>1
<1>7. CASE Exit(t)
  <2>1. Waiting' = Waiting /\ ahead' = ahead
    BY <1>7 DEF Exit, Waiting, LockTypeOK
  <2>2. QED
    BY <1>0, <2>1 DEF LineIsOrdered
<1>8. QED
  BY <1>1, <1>2, <1>4, <1>5, <1>6, <1>7 DEF LockStep, Acquire

-----------------------------------------------------------------------------

LockInv == LockTypeOK /\ MutualExclusion /\ LineIsOrdered

LEMMA LockInitInv ==
  ASSUME LockInit
  PROVE  LockInv
BY DEF LockInit, LockInv, LockTypeOK, MutualExclusion, LineIsOrdered, Holders, Waiting

(* What one step of some task preserves, in the form the devices use.      *)
LEMMA LockInvStep ==
  ASSUME LockInv, NEW t \in Task, LockStep(t)
  PROVE  LockInv'
BY LockTypeStep, MutualExclusionStep, LineStep DEF LockInv

LEMMA LockInvStutter ==
  ASSUME LockInv, UNCHANGED lockVars
  PROVE  LockInv'
BY DEF LockInv, lockVars, LockTypeOK, MutualExclusion, LineIsOrdered, Holders, Waiting

(* A LockWithAbort on its own, used by any number of tasks in any order,   *)
(* has one holder at most and its waiting line stays a line.               *)
THEOREM LockSafety == LockSpec => [](MutualExclusion /\ LineIsOrdered)
<1>1. LockInit => LockInv
  BY LockInitInv
<1>2. LockInv /\ [\E t \in Task : LockStep(t)]_lockVars => LockInv'
  BY LockInvStep, LockInvStutter
<1>3. LockInv => MutualExclusion /\ LineIsOrdered
  BY DEF LockInv
<1>4. QED
  BY <1>1, <1>2, <1>3, PTL DEF LockSpec

-----------------------------------------------------------------------------

(* The line is first come, first served: as long as a task has not timed   *)
(* out itself nobody gets in front of it, nobody in front of it is passed  *)
(* over, whoever is served has nobody in front of it, and a newcomer does   *)
(* not get the lock past tasks that wait.                                  *)
ServedInOrder ==
  /\ \A t \in Waiting :
       /\ stage'[t] = stage[t] => ahead'[t] \subseteq ahead[t]
       /\ \A u \in ahead[t] : \/ u \in ahead'[t]
                              \/ stage'[u] # stage[u]
                              \/ stage'[t] # stage[t]
       /\ stage'[t] = "in" => ahead[t] = {}
  /\ \A t \in Task : stage[t] = "out" /\ stage'[t] = "in" => Waiting = {}

NobodyIsOvertaken == [][ServedInOrder]_lockVars

LEMMA StepServesInOrder ==
  ASSUME LockTypeOK, LineIsOrdered, NEW t \in Task, LockStep(t)
  PROVE  ServedInOrder
<1> USE DEF LockTypeOK, ServedInOrder, Waiting
<1>1. CASE Join(t)
  BY <1>1 DEF Join
<1>2. CASE Take(t)
  BY <1>2 DEF Take
<1>3. CASE Grant(t)
  BY <1>3 DEF Grant, LeaveLine
<1>4. CASE FirstTimeout(t)
  BY <1>4 DEF FirstTimeout
<1>5. CASE SecondTimeout(t)
  BY <1>5 DEF SecondTimeout, LeaveLine
<1>6. CASE Exit(t)
  BY <1>6 DEF Exit
<1>7. QED
  BY <1>1, <1>2, <1>3, <1>4, <1>5, <1>6 DEF LockStep, Acquire

(* Handlers that wait for the lock are served in the order in which they   *)
(* came, up to the timeout that sends one to the end of the line.          *)
THEOREM LockServesInOrder == LockSpec => NobodyIsOvertaken
<1>1. LockInit => LockInv
  BY LockInitInv
<1>2. LockInv /\ [\E t \in Task : LockStep(t)]_lockVars => LockInv'
  BY LockInvStep, LockInvStutter
<1>3. LockInv /\ [\E t \in Task : LockStep(t)]_lockVars => [ServedInOrder]_lockVars
  BY StepServesInOrder DEF LockInv
<1>4. QED
  BY <1>1, <1>2, <1>3, PTL DEF LockSpec, NobodyIsOvertaken

-----------------------------------------------------------------------------

(* The holders of the lock use what it protects one after the other.       *)
Turns == INSTANCE ExclusiveUse WITH User <- Task, using <- Holders

(* A step of the lock leaves the holder alone, or is a task's taking the   *)
(* free lock, or the holder's giving it back.                              *)
LEMMA StepOnHolders ==
  ASSUME LockTypeOK, MutualExclusion, NEW t \in Task, LockStep(t)
  PROVE  [Turns!Next]_Holders
<1> USE DEF LockTypeOK, Holders
<1>1. CASE Take(t) \/ Grant(t)
  <2>1. Holders = {} /\ Holders' = {t}
    BY <1>1 DEF Take, Grant
  <2>2. QED
    BY <2>1 DEF Turns!Next, Turns!Begin
<1>2. CASE Exit(t)
  <2>1. Holders = {t} /\ Holders' = {}
    BY <1>2 DEF Exit, MutualExclusion
  <2>2. QED
    BY <2>1 DEF Turns!Next, Turns!End
<1>3. CASE Join(t) \/ FirstTimeout(t) \/ SecondTimeout(t)
  <2>1. UNCHANGED Holders
    BY <1>3 DEF Join, FirstTimeout, SecondTimeout
  <2>2. QED
    BY <2>1
<1>4. QED
  BY <1>1, <1>2, <1>3 DEF LockStep, Acquire

(* LockWithAbort implements exclusive use, however its timeouts fall.      *)
THEOREM LockImplementsExclusiveUse == LockSpec => Turns!Spec
<1>1. LockInit => LockInv /\ Turns!Init
  BY LockInitInv DEF LockInit, Holders, Turns!Init
<1>2. LockInv /\ [\E t \in Task : LockStep(t)]_lockVars => LockInv'
  BY LockInvStep, LockInvStutter
<1>3. LockInv /\ [\E t \in Task : LockStep(t)]_lockVars => [Turns!Next]_Holders
  <2>1. UNCHANGED lockVars => UNCHANGED Holders
    BY DEF lockVars, Holders
  <2>2. QED
    BY <2>1, StepOnHolders DEF LockInv
<1>4. QED
  BY <1>1, <1>2, <1>3, PTL DEF LockSpec, Turns!Spec
=============================================================================
