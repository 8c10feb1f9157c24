-------------------------------- MODULE Roof --------------------------------
(***************************************************************************)
(* A roof that closes in bad weather: DummyRoof (init, park, stop_motion    *)
(* and the stepwise _move_roof) on top of BaseRoof, MotionStatusMixin and   *)
(* WeatherAwareMixin, all sharing one LockWithAbort.  Of the weather only   *)
(* what reaches the roof is kept here: orders to park, which come again    *)
(* and again while it is bad.                                              *)
(*                                                                         *)
(* A task is an asyncio task that runs a handler: one for every client that *)
(* may have a call outstanding, and Weather, the task in which              *)
(* WeatherAwareMixin parks the roof.  pc[t] names the await at which t is   *)
(* suspended; an action takes it from there to its next await.             *)
(***************************************************************************)
EXTENDS Naturals, LockWithAbort

CONSTANTS
  Weather,           \* the task of WeatherAwareMixin
  Top,               \* _ROOF_OPEN_PERCENTAGE, the roof is closed at 0
  MaxCalls,          \* bound: calls by clients in a behaviour
  MaxFaults          \* bound: publishes that fail or take ten seconds

ASSUME RoofAssumption ==
  /\ Weather \in Task
  /\ Top \in Nat \ {0}
  /\ MaxCalls \in Nat /\ MaxFaults \in Nat

VARIABLES
  status,            \* MotionStatusMixin.__motion_status
  position,          \* DummyRoof._open_percentage
  pc, op,            \* where each task is, and the handler it runs
  sky,               \* the weather, "good" or "bad"
  alarm,             \* a task for __set_bad_weather has been created
  calls, faults      \* what the bounds count

deviceVars  == <<status, position, pc, op>>
weatherVars == <<sky, alarm>>
vars == <<lockVars, deviceVars, weatherVars, calls, faults>>

Clients == Task \ {Weather}

Handlers == {"init", "park", "stop_motion"}   \* "none" between two calls

Statuses == {"parked", "initializing", "idle", "parking", "aborting"}

(* The awaits a handler can be suspended at.  Publishing awaits the answer  *)
(* of the server.                                                          *)
Publishing == {"stopping", "starting", "aborting", "finishing", "opened"}

Awaits == {"none", "locking", "moving"} \cup Publishing

TypeOK ==
  /\ LockTypeOK
  /\ status \in Statuses
  /\ position \in 0..Top
  /\ pc \in [Task -> Awaits]
  /\ op \in [Task -> Handlers \cup {"none"}]
  /\ sky \in {"good", "bad"} /\ alarm \in BOOLEAN
  /\ calls \in 0..MaxCalls /\ faults \in 0..MaxFaults

(* DummyRoof.open: the roof starts closed and parked.                       *)
Init ==
  /\ LockInit
  /\ status = "parked" /\ position = 0
  /\ pc = [t \in Task |-> "none"] /\ op = [t \in Task |-> "none"]
  /\ sky \in {"good", "bad"} /\ alarm = FALSE
  /\ calls = 0 /\ faults = 0

IsOpen   == position = Top
IsClosed == position = 0

Goto(t, await) == pc' = [pc EXCEPT ![t] = await]

(* The handler returns or raises.                                          *)
Finish(t) == Goto(t, "none") /\ op' = [op EXCEPT ![t] = "none"]

(* _change_motion_status: the status is set at once, and published only if *)
(* it is new; then task t goes on to the await `next`.                      *)
ChangeStatus(t, s, publishing, next) ==
  /\ status' = s
  /\ Goto(t, IF status = s THEN next ELSE publishing)

(* The target of the motion that t has started.                            *)
Target(t) == IF op[t] = "init" THEN Top ELSE 0

-----------------------------------------------------------------------------

(* The first part of a handler, up to its first await.  init and park      *)
(* return at once if there is nothing to move; a stop announces itself     *)
(* before it tries to get the lock.                                        *)
BeginInit(t) ==
  /\ ~IsOpen
  /\ op' = [op EXCEPT ![t] = "init"]
  /\ Goto(t, "locking")
  /\ UNCHANGED status

BeginPark(t) ==
  /\ ~IsClosed
  /\ op' = [op EXCEPT ![t] = "park"]
  /\ Goto(t, "locking")
  /\ UNCHANGED status

BeginStopIdle(t) ==   \* wrong on purpose: stopped before it has the lock
  /\ op' = [op EXCEPT ![t] = "stop_motion"]
  /\ ChangeStatus(t, "idle", "stopping", "locking")

BeginStop(t) ==
  /\ op' = [op EXCEPT ![t] = "stop_motion"]
  /\ ChangeStatus(t, "aborting", "stopping", "locking")

(* A client calls a handler through Module.execute.                        *)
Call(t) ==
  /\ t \in Clients
  /\ pc[t] = "none"
  /\ calls < MaxCalls
  /\ calls' = calls + 1
  /\ BeginInit(t) \/ BeginPark(t) \/ BeginStop(t)
  /\ UNCHANGED <<lockVars, position, weatherVars, faults>>

(* stop_motion has published the status ABORTING.                          *)
StopAnnounced(t) ==
  /\ pc[t] = "stopping"
  /\ Goto(t, "locking")
  /\ UNCHANGED <<lockVars, status, position, op, weatherVars, calls, faults>>

(* async with LockWithAbort: t asks for the lock, or goes on waiting.      *)
RequestLock(t) ==
  /\ pc[t] = "locking"
  /\ Join(t) \/ FirstTimeout(t)
  /\ UNCHANGED <<deviceVars, weatherVars, calls, faults>>

(* Wrong on purpose: the second timeout is shorter than a turn of the      *)
(* holder's loop.                                                          *)
GiveUpEarly(t) ==
  /\ pc[t] = "locking"
  /\ SecondTimeout(t)
  /\ Finish(t)
  /\ UNCHANGED <<status, position, weatherVars, calls, faults>>

(* Wrong on purpose: the handler goes on without the lock.                 *)
GiveUpIgnored(t) ==
  /\ pc[t] = "locking"
  /\ SecondTimeout(t)
  /\ Goto(t, "starting")
  /\ UNCHANGED <<status, position, op, weatherVars, calls, faults>>

(* Ten seconds after asking the holder to stop: DeviceBusyError, which the  *)
(* handler passes on.  The holder looks at the event every 0.1 s, so if it *)
(* is still the one that t has asked it is stuck in a publish, which is a  *)
(* fault; otherwise others were served meanwhile, whoever sets the event.  *)
GiveUp(t) ==
  /\ pc[t] = "locking"
  /\ SecondTimeout(t)
  /\ \/ t \notin asked /\ UNCHANGED faults
     \/ t \in asked /\ faults < MaxFaults /\ faults' = faults + 1
  /\ Finish(t)
  /\ UNCHANGED <<status, position, weatherVars, calls>>

(* t gets the lock and sets the status of its motion.                      *)
GetLock(t) ==
  /\ pc[t] = "locking"
  /\ Acquire(t)
  /\ \/ op[t] = "init" /\ ChangeStatus(t, "initializing", "starting", "moving")
     \/ op[t] = "park" /\ ChangeStatus(t, "parking", "starting", "starting")
     \/ op[t] = "stop_motion" /\ ChangeStatus(t, "idle", "finishing", "finishing")
  /\ UNCHANGED <<position, op, weatherVars, calls, faults>>

(* The new status is published, by park RoofClosingEvent is sent as well;  *)
(* then the roof moves.                                                    *)
Started(t) ==
  /\ pc[t] = "starting"
  /\ Goto(t, "moving")
  /\ UNCHANGED <<lockVars, status, position, op, weatherVars, calls, faults>>

(* Wrong on purpose: steps without comparing with the target.              *)
MoveStepUnchecked(t) ==
  /\ pc[t] = "moving"
  /\ ~abortSet
  /\ position' = IF op[t] = "init" THEN position + 1 ELSE position - 1
  /\ UNCHANGED <<lockVars, status, pc, op, weatherVars, calls, faults>>

(* One turn of the loop of _move_roof: a step towards the target.          *)
MoveStep(t) ==
  /\ pc[t] = "moving"
  /\ position # Target(t)
  /\ ~abortSet
  /\ position' = IF Target(t) > position THEN position + 1 ELSE position - 1
  /\ UNCHANGED <<lockVars, status, pc, op, weatherVars, calls, faults>>

(* The loop finds the abort event set, and leaves.                         *)
MoveAborted(t) ==
  /\ pc[t] = "moving"
  /\ position # Target(t)
  /\ abortSet
  /\ ChangeStatus(t, "idle", "aborting", "aborting")
  /\ UNCHANGED <<lockVars, position, op, weatherVars, calls, faults>>

(* _move_roof returns, having reached the target or having been aborted:   *)
(* the handlers do not ask which, and set their final status.              *)
SetFinalStatus(t) ==
  /\ \/ pc[t] = "moving" /\ position = Target(t)
     \/ pc[t] = "aborting"
  /\ IF op[t] = "init"
     THEN ChangeStatus(t, "idle", "finishing", "opened")
     ELSE ChangeStatus(t, "parked", "finishing", "finishing")
  /\ UNCHANGED <<lockVars, position, op, weatherVars, calls, faults>>

(* init sends RoofOpenedEvent once its final status is published.          *)
SendOpened(t) ==
  /\ pc[t] = "finishing" /\ op[t] = "init"
  /\ Goto(t, "opened")
  /\ UNCHANGED <<lockVars, status, position, op, weatherVars, calls, faults>>

(* Wrong on purpose: returns with the lock still held.                     *)
ReturnLocked(t) ==
  /\ \/ pc[t] = "opened"
     \/ pc[t] = "finishing" /\ op[t] # "init"
  /\ Finish(t)
  /\ UNCHANGED <<lockVars, status, position, weatherVars, calls, faults>>

(* The last await of a handler has returned: it releases the lock.         *)
Return(t) ==
  /\ \/ pc[t] = "opened"
     \/ pc[t] = "finishing" /\ op[t] # "init"
  /\ Exit(t)
  /\ Finish(t)
  /\ UNCHANGED <<status, position, weatherVars, calls, faults>>

(* Publishing raises after its last attempt.  The exception ends the       *)
(* handler; the lock is released if it was held, the status stays.         *)
PublishFails(t) ==
  /\ pc[t] \in Publishing
  /\ faults < MaxFaults /\ faults' = faults + 1
  /\ IF stage[t] = "in" THEN Exit(t) ELSE UNCHANGED lockVars
  /\ Finish(t)
  /\ UNCHANGED <<status, position, weatherVars, calls>>

-----------------------------------------------------------------------------

(* __set_bad_weather in the task created for it.  If an earlier one still  *)
(* holds __weatheraware_lock (it is in park) this one returns.             *)
SetBadWeather ==
  /\ alarm
  /\ alarm' = FALSE
  /\ IF pc[Weather] = "none" /\ status \notin {"parked", "parking"} /\ ~IsClosed
     THEN BeginPark(Weather)
     ELSE UNCHANGED <<status, pc, op>>
  /\ UNCHANGED <<lockVars, position, sky, calls, faults>>

(* Wrong on purpose: only the event orders to park, not the check.         *)
WeatherCheckIdle == UNCHANGED vars

(* The outcome of __weather_check, every ten seconds: in bad weather a task *)
(* that parks; in good weather there may be one too, when the weather       *)
(* module could not be reached for the third time or an event comes late.  *)
(* A round that fails before the third time changes nothing.               *)
WeatherCheck ==
  /\ alarm' \in {TRUE, alarm \/ sky = "bad"}
  /\ UNCHANGED <<lockVars, deviceVars, sky, calls, faults>>

(* The weather changes; __on_bad_weather gets the event or it is lost.     *)
SkyChanges ==
  /\ sky' = IF sky = "good" THEN "bad" ELSE "good"
  /\ alarm' \in {alarm, alarm \/ sky' = "bad"}
  /\ UNCHANGED <<lockVars, deviceVars, calls, faults>>

-----------------------------------------------------------------------------

(* What a handler does on its own once it has been called.                 *)
Progress(t) ==
  \/ StopAnnounced(t) \/ RequestLock(t) \/ GetLock(t) \/ Started(t)
  \/ MoveStep(t) \/ MoveAborted(t) \/ SetFinalStatus(t) \/ SendOpened(t) \/ Return(t)

Next ==
  \/ \E t \in Task : Call(t) \/ Progress(t) \/ GiveUp(t) \/ PublishFails(t)
  \/ SetBadWeather \/ WeatherCheck \/ SkyChanges

Spec == Init /\ [][Next]_vars

(* asyncio resumes a task whose await has ended, the lock is granted in    *)
(* order, and the check of the weather comes round every ten seconds: it   *)
(* has to find the bad weather, never to fail in the good one.             *)
Fairness ==
  /\ \A t \in Task : WF_vars(Progress(t))
  /\ WF_vars(SetBadWeather)
  /\ WF_vars(sky = "bad" /\ WeatherCheck)

FairSpec == Spec /\ Fairness

-----------------------------------------------------------------------------

(* Task t is inside the block that the lock protects.                      *)
InBlock(t) == pc[t] \in {"starting", "moving", "aborting", "finishing", "opened"}

AtRest == \A t \in Task : pc[t] = "none"

(* Two motions never overlap, however calls, timeouts of the lock, aborts  *)
(* and failing publishes interleave: a task comes into the block of        *)
(* LockWithAbort only after the previous one has left it.                  *)
Motion == INSTANCE ExclusiveUse WITH User <- Task, using <- {t \in Task : InBlock(t)}

OneMotionAtATime == Motion!Spec

(* While the roof is moving its status says so: a second handler, which    *)
(* sets ABORTING before it has the lock, never makes it look idle or       *)
(* parked.                                                                 *)
MotionIsVisible ==
  (\E t \in Task : pc[t] = "moving" /\ position # Target(t))
    => status \in {"initializing", "parking", "aborting"}

(* An aborted park still sets PARKED (SetFinalStatus), with the roof       *)
(* somewhere in between.  The handler that has aborted it is in line for   *)
(* the lock and replaces the status, so that a roof at rest that says      *)
(* parked is closed, unless a publish failed or got stuck.                 *)
ParkedAtRestIsClosed ==
  AtRest /\ status = "parked" /\ faults = 0 => IsClosed

(* WeatherAwareMixin: once the weather stays bad the roof gets closed and   *)
(* stays closed, whatever the clients have called before, weather events   *)
(* get lost and checks fail; a publish that fails or gets stuck is         *)
(* excluded (it can leave PARKING or PARKED behind on an open roof).       *)
BadWeatherClosesRoof == <>[](sky = "bad" /\ faults = 0) => <>[]IsClosed

(* Once no more calls come the roof comes to rest: a handler that waits for *)
(* the lock gets it or gives up, one that has it finishes its motion or is  *)
(* aborted, and the weather task does not park for ever.                   *)
CallsReturn == []<>AtRest

(* RoofOpenedEvent is "to be sent when the roof has finished opening": a   *)
(* task that sends it has opened the roof.  init also sends it after its   *)
(* motion has been aborted.                                                *)
OpenedEventMeansOpen == \A t \in Task : pc[t] = "opened" => IsOpen
=============================================================================
