----------------------------- MODULE RoofProofs -----------------------------
(***************************************************************************)
(* Theorems about Roof, for any number of clients, any opening height and  *)
(* any number of calls and faults.                                         *)
(***************************************************************************)
EXTENDS Roof, LockProofs

(* The tasks inside the block are those that hold the lock, and one that    *)
(* waits for the lock is at the await of the lock.                         *)
LockAgrees ==
  \A t \in Task :
    /\ stage[t] = "in" <=> InBlock(t)
    /\ stage[t] \in {"first", "second"} => pc[t] = "locking"

(* From the moment a handler has set the status of its motion to the end   *)
(* of the motion the status says that the roof is moving.                  *)
MoverIsVisible ==
  \A t \in Task : pc[t] \in {"starting", "moving"} => status \in {"initializing", "parking", "aborting"}

(* Without faults, whoever has set the event that asks the holder to stop  *)
(* is waiting behind it, and only an aborted park says parked too early:   *)
(* the event that aborted it is then still set.                            *)
AbortIsOnItsWay ==
  faults = 0 =>
    /\ \A t \in asked : stage[t] = "second"
    /\ \A t \in Task : pc[t] = "aborting" => abortSet
    /\ status = "parked" /\ ~IsClosed => abortSet

(* A motion that has ended has reached its target, or was asked to abort:   *)
(* nobody clears the event before the handler has returned.                *)
EndsAtTarget ==
  \A t \in Task :
    /\ pc[t] = "aborting" \/ (pc[t] \in {"finishing", "opened"} /\ op[t] # "stop_motion")
         => position = Target(t) \/ abortSet
    /\ pc[t] = "opened" => op[t] = "init"

RoofInv ==
  /\ TypeOK /\ LockInv /\ LockAgrees /\ MoverIsVisible /\ AbortIsOnItsWay
  /\ EndsAtTarget

-----------------------------------------------------------------------------

LEMMA RoofInit ==
  ASSUME Init
  PROVE  RoofInv
<1>1. LockInv
  BY LockInitInv DEF Init
<1>2. TypeOK
  <2>1. alarm \in BOOLEAN
    BY ZenonT(10) DEF Init
  <2>2. QED
    BY <1>1, <2>1, RoofAssumption
    DEF Init, TypeOK, LockInv, Statuses, Awaits, Publishing, Handlers
<1>3. LockAgrees /\ MoverIsVisible /\ AbortIsOnItsWay /\ EndsAtTarget
  BY DEF Init, LockInit, LockAgrees, MoverIsVisible, AbortIsOnItsWay, EndsAtTarget, InBlock, IsClosed,
    abortSet
<1>4. QED
  BY <1>1, <1>2, <1>3 DEF RoofInv

(* What a step does to the lock is a step of the lock, or nothing.         *)
LEMMA StepUsesLock ==
  ASSUME [Next]_vars
  PROVE  [\E t \in Task : LockStep(t)]_lockVars
<1>1. ASSUME NEW t \in Task, Call(t) \/ Progress(t) \/ GiveUp(t) \/ PublishFails(t)
      PROVE  LockStep(t) \/ UNCHANGED lockVars
  BY <1>1
  DEF Progress, Call, StopAnnounced, RequestLock, GetLock, Started, MoveStep,
      MoveAborted, SetFinalStatus, SendOpened, Return, GiveUp, PublishFails, LockStep
<1>2. CASE SetBadWeather \/ WeatherCheck \/ SkyChanges
  BY <1>2 DEF SetBadWeather, WeatherCheck, SkyChanges
<1>3. CASE UNCHANGED vars
  BY <1>3 DEF vars
<1>4. QED
  BY <1>1, <1>2, <1>3 DEF Next

LEMMA StepOnLock ==
  ASSUME RoofInv, [Next]_vars
  PROVE  LockInv'
BY StepUsesLock, LockInvStep, LockInvStutter DEF RoofInv

(* At most one task is in the block.                                       *)
LEMMA InBlockAlone ==
  ASSUME RoofInv, NEW t \in Task, NEW u \in Task, InBlock(t), InBlock(u)
  PROVE  t = u
BY DEF RoofInv, LockInv, MutualExclusion, Holders, LockAgrees

(* A step preserves the invariant.                                         *)
LEMMA RoofStep ==
  ASSUME RoofInv, [Next]_vars
  PROVE  RoofInv'
<1> USE RoofAssumption
    DEF RoofInv, TypeOK, LockTypeOK, LockAgrees, MoverIsVisible, AbortIsOnItsWay, EndsAtTarget,
        Target, InBlock, Statuses, Awaits, Publishing, Handlers, IsClosed, IsOpen, Goto, Finish, abortSet
<1>0. LockInv'
  BY StepOnLock
<1>1. LockTypeOK'
  BY <1>0 DEF LockInv
<1>2. ASSUME NEW t \in Task, Call(t)
      PROVE  RoofInv'
  <2>1. CASE BeginInit(t)
    BY <1>0, <1>1, <1>2, <2>1 DEF Call, BeginInit, lockVars, weatherVars
  <2>2. CASE BeginPark(t)
    BY <1>0, <1>1, <1>2, <2>2 DEF Call, BeginPark, lockVars, weatherVars
  <2>3. CASE BeginStop(t)
    BY <1>0, <1>1, <1>2, <2>3 DEF Call, BeginStop, ChangeStatus, lockVars, weatherVars
  <2>4. QED
    BY <1>2, <2>1, <2>2, <2>3 DEF Call
<1>3. ASSUME NEW t \in Task, StopAnnounced(t)
      PROVE  RoofInv'
  BY <1>0, <1>1, <1>3 DEF StopAnnounced, lockVars, weatherVars
<1>4. ASSUME NEW t \in Task, RequestLock(t)
      PROVE  RoofInv'
  <2>1. CASE Join(t)
    BY <1>0, <1>1, <1>4, <2>1 DEF RequestLock, Join, deviceVars, weatherVars
  <2>2. CASE FirstTimeout(t)
    BY <1>0, <1>1, <1>4, <2>2 DEF RequestLock, FirstTimeout, deviceVars, weatherVars
  <2>3. QED
    BY <1>4, <2>1, <2>2 DEF RequestLock
<1>5. ASSUME NEW t \in Task, GetLock(t)
      PROVE  RoofInv'
  <2>1. /\ \A u \in Task : ~InBlock(u)
        /\ stage' = [stage EXCEPT ![t] = "in"]
        /\ asked' = {}
    BY <1>5 DEF GetLock, Acquire, Take, Grant, Holders
  <2>2. CASE op[t] = "init" /\ ChangeStatus(t, "initializing", "starting", "moving")
    BY <1>0, <1>1, <1>5, <2>1, <2>2 DEF GetLock, ChangeStatus, weatherVars
  <2>3. CASE op[t] = "park" /\ ChangeStatus(t, "parking", "starting", "starting")
    BY <1>0, <1>1, <1>5, <2>1, <2>3 DEF GetLock, ChangeStatus, weatherVars
  <2>4. CASE op[t] = "stop_motion" /\ ChangeStatus(t, "idle", "finishing", "finishing")
    BY <1>0, <1>1, <1>5, <2>1, <2>4 DEF GetLock, ChangeStatus, weatherVars
  <2>5. QED
    BY <1>5, <2>2, <2>3, <2>4 DEF GetLock
<1>6. ASSUME NEW t \in Task, Started(t)
      PROVE  RoofInv'
  BY <1>0, <1>1, <1>6 DEF Started, lockVars, weatherVars
<1>7. ASSUME NEW t \in Task, MoveStep(t)
      PROVE  RoofInv'
  <2>1. \A u \in Task : u # t => ~InBlock(u)
    BY <1>7, InBlockAlone DEF MoveStep
  <2>2. EndsAtTarget'
    BY <1>7, <2>1 DEF MoveStep, lockVars
  <2>3. position' \in 0..Top
    BY <1>7 DEF MoveStep
  <2>4. QED
    BY <1>0, <1>1, <1>7, <2>2, <2>3 DEF MoveStep, lockVars, weatherVars
<1>8. ASSUME NEW t \in Task, MoveAborted(t)
      PROVE  RoofInv'
  <2>1. asked # {} /\ asked' = asked /\ stage' = stage
    BY <1>8 DEF MoveAborted, lockVars
  <2>2. AbortIsOnItsWay'
    BY <1>8, <2>1 DEF MoveAborted, ChangeStatus
  <2>3. TypeOK'
    BY <1>1, <1>8 DEF MoveAborted, ChangeStatus, weatherVars
  <2>4. MoverIsVisible'
    BY <1>8, InBlockAlone DEF MoveAborted, ChangeStatus
  <2>5. LockAgrees'
    BY <1>8 DEF MoveAborted, ChangeStatus, lockVars
  <2>6. EndsAtTarget'
    BY <1>8, <2>1 DEF MoveAborted, ChangeStatus
  <2>7. QED
    BY <1>0, <2>2, <2>3, <2>4, <2>5, <2>6
<1>9. ASSUME NEW t \in Task, SetFinalStatus(t)
      PROVE  RoofInv'
  <2>0. \A u \in Task : u # t => pc[u] \notin {"starting", "moving"}
    BY <1>9, InBlockAlone DEF SetFinalStatus
  <2>e. EndsAtTarget'
    BY <1>9 DEF SetFinalStatus, ChangeStatus, lockVars
  <2>1. CASE op[t] = "init"
    BY <1>0, <1>1, <1>9, <2>0, <2>e, <2>1 DEF SetFinalStatus, ChangeStatus, lockVars, weatherVars
  <2>2. CASE op[t] # "init"
    <3>1. position = 0 \/ (faults = 0 => abortSet)
      BY <1>9, <2>2 DEF SetFinalStatus
    <3>2. QED
      BY <1>0, <1>1, <1>9, <2>0, <2>e, <2>2, <3>1
      DEF SetFinalStatus, ChangeStatus, lockVars, weatherVars
  <2>3. QED
    BY <2>1, <2>2
<1>10. ASSUME NEW t \in Task, SendOpened(t)
       PROVE  RoofInv'
  BY <1>0, <1>1, <1>10 DEF SendOpened, lockVars, weatherVars
<1>11. ASSUME NEW t \in Task, Return(t)
       PROVE  RoofInv'
  BY <1>0, <1>1, <1>11 DEF Return, Exit, weatherVars
<1>12. ASSUME NEW t \in Task, GiveUp(t)
       PROVE  RoofInv'
  BY <1>0, <1>1, <1>12 DEF GiveUp, SecondTimeout, weatherVars
<1>13. ASSUME NEW t \in Task, PublishFails(t)
       PROVE  RoofInv'
  BY <1>0, <1>1, <1>13 DEF PublishFails, Exit, lockVars, weatherVars
<1>14. CASE SetBadWeather
  <2>1. alarm' \in BOOLEAN
    BY <1>14, ZenonT(10) DEF SetBadWeather
  <2>2. QED
    BY <1>0, <1>1, <1>14, <2>1 DEF SetBadWeather, BeginPark, lockVars
<1>15. CASE WeatherCheck
  BY <1>0, <1>1, <1>15 DEF WeatherCheck, lockVars, deviceVars
<1>16. CASE SkyChanges
  BY <1>0, <1>1, <1>16 DEF SkyChanges, lockVars, deviceVars
<1>17. CASE UNCHANGED vars
  BY <1>0, <1>1, <1>17 DEF vars, lockVars, deviceVars, weatherVars
<1>18. QED
  BY <1>2, <1>3, <1>4, <1>5, <1>6, <1>7, <1>8, <1>9, <1>10, <1>11, <1>12, <1>13, <1>14, <1>15,
     <1>16, <1>17 DEF Next, Progress

-----------------------------------------------------------------------------

THEOREM RoofInvariant == Spec => []RoofInv
<1>1. QED
  BY RoofInit, RoofStep, PTL DEF Spec

(* The types of the roof's state.                                          *)
THEOREM RoofTypes == Spec => []TypeOK
<1>1. QED
  BY RoofInvariant, PTL DEF RoofInv

(* The line of the handlers that wait for the roof stays a line.           *)
THEOREM RoofLineIsOrdered == Spec => []LineIsOrdered
<1>1. QED
  BY RoofInvariant, PTL DEF RoofInv, LockInv

(* While the roof moves its status says so, for any number of callers.     *)
THEOREM MotionAlwaysVisible == Spec => []MotionIsVisible
<1>1. RoofInv => MotionIsVisible
  BY DEF RoofInv, MoverIsVisible, MotionIsVisible
<1>2. QED
  BY <1>1, RoofInvariant, PTL

(* Without faults, a roof at rest that says parked is closed: the only      *)
(* other case needs the abort event set, and so a task waiting behind it.  *)
THEOREM ParkedRoofIsClosed == Spec => []ParkedAtRestIsClosed
<1>1. ASSUME RoofInv
      PROVE  ParkedAtRestIsClosed
  <2>1. SUFFICES ASSUME AtRest, status = "parked", faults = 0, ~IsClosed
                 PROVE  FALSE
    BY DEF ParkedAtRestIsClosed
  <2>2. PICK t \in Task : stage[t] = "second"
    BY <1>1, <2>1 DEF RoofInv, AbortIsOnItsWay, TypeOK, LockTypeOK, abortSet
  <2>3. pc[t] = "locking"
    BY <1>1, <2>2 DEF RoofInv, LockAgrees
  <2>4. QED
    BY <2>1, <2>3 DEF AtRest
<1>2. QED
  BY <1>1, RoofInvariant, PTL

(* RoofOpenedEvent is sent for an open roof or for one whose opening was    *)
(* aborted: the event that asked for the abort is still set then.  This is *)
(* how far what OpenedEventMeansOpen says of the program holds.            *)
OpenedOrAborted == \A t \in Task : pc[t] = "opened" => IsOpen \/ abortSet

THEOREM RoofHasOpenedUnlessAborted == Spec => []OpenedOrAborted
<1>1. RoofInv => OpenedOrAborted
  BY DEF RoofInv, EndsAtTarget, Target, OpenedOrAborted, IsOpen
<1>2. QED
  BY <1>1, RoofInvariant, PTL

-----------------------------------------------------------------------------

(* The task that the status of a moving roof speaks of: the one that has   *)
(* set it and is still at its motion, or a stop on its way to the lock,    *)
(* which gives up only if the event it has set is consumed by another one. *)
Accounts(t) ==
  \/ status = "parking" /\ pc[t] \in {"starting", "moving"} /\ op[t] = "park"
  \/ status = "initializing" /\ pc[t] \in {"starting", "moving"} /\ op[t] = "init"
  \/ /\ status = "aborting" /\ op[t] = "stop_motion"
     /\ pc[t] = "stopping" \/ (pc[t] = "locking" /\ (stage[t] = "second" => t \in asked))

(* Without faults, a status that is not final has somebody to replace it.  *)
MotionHasTask ==
  faults = 0 => status \in {"idle", "parked"} \/ \E t \in Task : Accounts(t)

(* What the faults count does not come back.                               *)
LEMMA FaultsOnlyGrow ==
  ASSUME TypeOK, [Next]_vars
  PROVE  faults' = 0 => faults = 0
<1>1. faults \in Nat
  BY RoofAssumption DEF TypeOK
<1>2. ASSUME NEW t \in Task,
             \/ Call(t) \/ StopAnnounced(t) \/ RequestLock(t) \/ GetLock(t) \/ Started(t) \/ MoveStep(t)
             \/ MoveAborted(t) \/ SetFinalStatus(t) \/ SendOpened(t) \/ Return(t)
      PROVE  faults' = faults
  BY <1>2 DEF Call, StopAnnounced, RequestLock, GetLock, Started, MoveStep, MoveAborted,
    SetFinalStatus, SendOpened, Return
<1>3. ASSUME NEW t \in Task, GiveUp(t) \/ PublishFails(t)
      PROVE  faults' = faults \/ faults' = faults + 1
  BY <1>3 DEF GiveUp, PublishFails
<1>4. CASE SetBadWeather \/ WeatherCheck \/ SkyChanges \/ UNCHANGED vars
  BY <1>4 DEF SetBadWeather, WeatherCheck, SkyChanges, vars
<1>5. QED
  BY <1>1, <1>2, <1>3, <1>4 DEF Next, Progress

LEMMA MotionHasTaskStep ==
  ASSUME RoofInv, MotionHasTask, [Next]_vars
  PROVE  MotionHasTask'
<1> USE RoofAssumption
    DEF RoofInv, TypeOK, LockTypeOK, LockAgrees, Accounts, InBlock, Goto, Finish
<1>1. SUFFICES ASSUME faults' = 0, faults = 0
               PROVE  status' \in {"idle", "parked"} \/ \E t \in Task : Accounts(t)'
  BY FaultsOnlyGrow DEF MotionHasTask
<1>2. ASSUME NEW t \in Task, Call(t)
      PROVE  status' \in {"idle", "parked"} \/ \E u \in Task : Accounts(u)'
  <2>1. CASE BeginInit(t) \/ BeginPark(t)
    <3>1. \A u \in Task : Accounts(u) => Accounts(u)'
      BY <1>2, <2>1 DEF Call, BeginInit, BeginPark, lockVars
    <3>2. QED
      BY <1>1, <1>2, <2>1, <3>1 DEF MotionHasTask, Call, BeginInit, BeginPark
  <2>2. CASE BeginStop(t)
    <3>1. Accounts(t)'
      BY <1>2, <2>2 DEF Call, BeginStop, ChangeStatus, lockVars
    <3>2. QED
      BY <3>1
  <2>3. QED
    BY <1>2, <2>1, <2>2 DEF Call
<1>3. ASSUME NEW t \in Task, GetLock(t)
      PROVE  status' = "idle" \/ Accounts(t)'
  BY <1>3 DEF GetLock, ChangeStatus
<1>4. ASSUME NEW t \in Task, MoveAborted(t) \/ SetFinalStatus(t)
      PROVE  status' \in {"idle", "parked"}
  BY <1>4 DEF MoveAborted, SetFinalStatus, ChangeStatus
<1>5. ASSUME NEW t \in Task, PublishFails(t)
      PROVE  FALSE
  BY <1>1, <1>5 DEF PublishFails
<1>6. ASSUME \/ \E t \in Task : \/ StopAnnounced(t) \/ RequestLock(t) \/ Started(t) \/ MoveStep(t)
                                \/ SendOpened(t) \/ Return(t) \/ GiveUp(t)
             \/ SetBadWeather \/ WeatherCheck \/ SkyChanges \/ UNCHANGED vars
      PROVE  status' \in {"idle", "parked"} \/ \E u \in Task : Accounts(u)'
  <2>1. status' = status
    BY <1>6 DEF StopAnnounced, RequestLock, Started, MoveStep, SendOpened, Return, GiveUp,
      SetBadWeather, BeginPark, WeatherCheck, SkyChanges, deviceVars, vars
  <2>2. ASSUME NEW u \in Task, Accounts(u)
        PROVE  Accounts(u)'
    <3>1. ASSUME NEW t \in Task, StopAnnounced(t) \/ Started(t) \/ MoveStep(t) \/ SendOpened(t)
          PROVE  Accounts(u)'
      BY <2>2, <3>1 DEF StopAnnounced, Started, MoveStep, SendOpened, lockVars
    <3>2. ASSUME NEW t \in Task, RequestLock(t)
          PROVE  Accounts(u)'
      BY <2>2, <3>2 DEF RequestLock, Join, FirstTimeout, deviceVars
    <3>3. ASSUME NEW t \in Task, Return(t)
          PROVE  Accounts(u)'
      BY <2>2, <3>3 DEF Return, Exit
    <3>4. ASSUME NEW t \in Task, GiveUp(t)
          PROVE  Accounts(u)'
      <4>1. t \notin asked /\ stage[t] = "second" /\ pc[t] = "locking"
        BY <1>1, <3>4 DEF GiveUp, SecondTimeout
      <4>2. u # t
        BY <2>2, <4>1
      <4>3. QED
        BY <2>2, <3>4, <4>2 DEF GiveUp, SecondTimeout
    <3>5. CASE SetBadWeather
      BY <2>2, <3>5 DEF SetBadWeather, BeginPark, lockVars
    <3>6. CASE WeatherCheck \/ SkyChanges \/ UNCHANGED vars
      BY <2>2, <3>6 DEF WeatherCheck, SkyChanges, vars, lockVars, deviceVars
    <3>7. QED
      BY <1>6, <3>1, <3>2, <3>3, <3>4, <3>5, <3>6
  <2>3. QED
    BY <1>1, <2>1, <2>2 DEF MotionHasTask
<1>7. QED
  BY <1>2, <1>3, <1>4, <1>5, <1>6 DEF Next, Progress

(* Unless a publish failed or got stuck, a roof at rest says idle or       *)
(* parked, and parked only if it is closed: an order of the weather that   *)
(* finds it open is then never refused for its status (SetBadWeather).     *)
RestingRoofHeedsWeather ==
  AtRest /\ faults = 0 =>
    /\ status \in {"idle", "parked"}
    /\ ~IsClosed => status \notin {"parked", "parking"}

THEOREM RoofAtRestIsReady == Spec => []RestingRoofHeedsWeather
<1>1. Init => MotionHasTask
  BY DEF Init, MotionHasTask
<1>2. RoofInv /\ MotionHasTask /\ [Next]_vars => MotionHasTask'
  BY MotionHasTaskStep
<1>3. MotionHasTask /\ ParkedAtRestIsClosed => RestingRoofHeedsWeather
  BY DEF MotionHasTask, Accounts, AtRest, RestingRoofHeedsWeather, ParkedAtRestIsClosed
<1>4. QED
  BY <1>1, <1>2, <1>3, RoofInvariant, ParkedRoofIsClosed, PTL DEF Spec

-----------------------------------------------------------------------------

(* What init, park, stop_motion and the weather do to the lock is what     *)
(* LockWithAbort does: the roof implements it, and inherits its theorems.  *)
THEOREM RoofUsesLock == Spec => LockSpec
<1>1. Init => LockInit
  BY DEF Init
<1>2. [Next]_vars => [\E t \in Task : LockStep(t)]_lockVars
  BY StepUsesLock
<1>3. QED
  BY <1>1, <1>2, PTL DEF Spec, LockSpec

(* The handlers of the roof, that of the weather among them, get the lock  *)
(* in the order in which they asked for it.                                *)
THEOREM RoofServesInOrder == Spec => NobodyIsOvertaken
<1>1. QED
  BY RoofUsesLock, LockServesInOrder, PTL

-----------------------------------------------------------------------------

InTheBlock == {t \in Task : InBlock(t)}

(* A step of the roof leaves the block alone, or is one task's entering an *)
(* empty block, or the only task's leaving it.                             *)
LEMMA StepOnBlock ==
  ASSUME RoofInv, [Next]_vars
  PROVE  [Motion!Next]_InTheBlock
<1> DEFINE Enters(t) == InTheBlock = {} /\ InTheBlock' = {t}
           Leaves(t) == InTheBlock = {t} /\ InTheBlock' = {}
<1> USE DEF RoofInv, TypeOK, LockTypeOK, LockAgrees, InTheBlock, InBlock, Goto, Finish
<1>1. ASSUME NEW t \in Task, GetLock(t)
      PROVE  Enters(t)
  BY <1>1 DEF GetLock, Acquire, Take, Grant, Holders, ChangeStatus
<1>2. ASSUME NEW t \in Task, Return(t)
      PROVE  Leaves(t)
  BY <1>2, InBlockAlone DEF Return
<1>3. ASSUME NEW t \in Task, PublishFails(t)
      PROVE  Leaves(t) \/ UNCHANGED InTheBlock
  BY <1>3, InBlockAlone DEF PublishFails, Publishing
<1>4. ASSUME NEW t \in Task,
             \/ Call(t) \/ StopAnnounced(t) \/ RequestLock(t) \/ Started(t) \/ MoveStep(t)
             \/ MoveAborted(t) \/ SetFinalStatus(t) \/ SendOpened(t) \/ GiveUp(t)
      PROVE  UNCHANGED InTheBlock
  BY <1>4 DEF Call, BeginInit, BeginPark, BeginStop, StopAnnounced, RequestLock, Started, MoveStep,
    MoveAborted, SetFinalStatus, SendOpened, GiveUp, ChangeStatus, deviceVars
<1>5. CASE SetBadWeather
  BY <1>5, RoofAssumption DEF SetBadWeather, BeginPark
<1>6. CASE WeatherCheck \/ SkyChanges \/ UNCHANGED vars
  BY <1>6 DEF WeatherCheck, SkyChanges, vars, deviceVars
<1>7. QED
  BY <1>1, <1>2, <1>3, <1>4, <1>5, <1>6 DEF Next, Progress, Motion!Next, Motion!Begin, Motion!End

(* The roof implements exclusive use of its motor.                         *)
THEOREM RoofImplementsExclusiveUse == Spec => OneMotionAtATime
<1>1. Init => Motion!Init
  BY DEF Init, InBlock, Motion!Init
<1>2. RoofInv /\ [Next]_vars => [Motion!Next]_InTheBlock
  BY StepOnBlock
<1>3. QED
  BY <1>1, <1>2, RoofInvariant, PTL DEF Spec, OneMotionAtATime, Motion!Spec, InTheBlock
=============================================================================
