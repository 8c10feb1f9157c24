------------------------------ MODULE Telescope ------------------------------
(***************************************************************************)
(* A telescope that parks in bad weather: the handlers of BaseTelescope     *)
(* (move_radec, move_altaz, track_body and track_orbital_elements with the  *)
(* refresh of the tracking) on the simulated mount of _DummyTelescopeBase  *)
(* (park, stop_motion, init, set_filter and the background task that moves  *)
(* it), with MotionStatusMixin, WaitForMotionMixin and WeatherAwareMixin.  *)
(*                                                                         *)
(* A task is an asyncio task: one for every client that may have a call    *)
(* outstanding, Weather, in which WeatherAwareMixin parks, and Refresh, in  *)
(* which the tracking of a body is kept up.  pc[t] names the await at which *)
(* t is suspended.  Coordinates are left out: the mount has a destination  *)
(* or none.  Of the motion interfaces with a status of their own the       *)
(* telescope and the filter wheel are kept.                                *)
(***************************************************************************)
EXTENDS Naturals, LockWithAbort

CONSTANTS
  Weather,           \* the task of WeatherAwareMixin
  Refresh,           \* the background task _track_refresh
  Asks,              \* Asks[t]: the handlers that client t calls
  MaxCalls,          \* bound: calls by clients in a behaviour
  MaxFaults          \* bound: publishes and waits that fail or take ten seconds

Moves == {"move_radec", "move_altaz", "track"}

Handlers == Moves \cup {"park", "stop_motion", "init", "set_filter", "tick"}

ASSUME TelescopeAssumption ==
  /\ Weather \in Task /\ Refresh \in Task /\ Weather # Refresh
  /\ Asks \in [Task -> SUBSET Handlers]
  /\ MaxCalls \in Nat /\ MaxFaults \in Nat

VARIABLES
  status,            \* MotionStatusMixin.__motion_status
  single,            \* MotionStatusMixin.__motion_status_single
  dest,              \* _dest_coords is not None
  simStatus,         \* _sim_status, what the simulator thinks it does
  arriving,          \* _move_task has arrived and publishes the status
  lost,              \* _position is None
  tracked,           \* _tracked_body or _tracked_elements is set
  pc, op,            \* where each task is, and the handler it runs
  calls, faults      \* what the bounds count

statusVars == <<status, single>>
mountVars  == <<dest, simStatus, arriving, lost>>
taskVars   == <<pc, op>>
bounds     == <<calls, faults>>
vars == <<lockVars, statusVars, mountVars, tracked, taskVars, bounds>>

Clients == Task \ {Weather, Refresh}

Statuses == {"idle", "initializing", "slewing", "tracking", "positioned",
             "parking", "parked", "aborting"}

Interfaces == {"ITelescope", "IFilters"}

(* The awaits inside the block of the lock, and those outside it.          *)
InBlockAwaits == {"announcing", "starting", "slewing", "dome", "parking", "refreshing",
                  "finishing"}

OutsideAwaits == {"querying", "stopping", "locking", "initializing", "turning"}

(* The awaits that can fail or get stuck: the server does not answer a      *)
(* publish, or the dome cannot be reached or does not arrive in time.      *)
Failing == {"announcing", "starting", "slewing", "dome", "parking", "refreshing", "finishing",
            "stopping", "initializing", "turning"}

TypeOK ==
  /\ LockTypeOK
  /\ status \in Statuses
  /\ single \in [Interfaces -> Statuses]
  /\ simStatus \in {"idle", "slewing", "tracking"}
  /\ dest \in BOOLEAN /\ arriving \in BOOLEAN /\ lost \in BOOLEAN /\ tracked \in BOOLEAN
  /\ pc \in [Task -> InBlockAwaits \cup OutsideAwaits \cup {"none"}]
  /\ op \in [Task -> Handlers \cup {"none"}]
  /\ calls \in 0..MaxCalls /\ faults \in 0..MaxFaults

(* open has set the status IDLE.                                           *)
Init ==
  /\ LockInit
  /\ status = "idle" /\ single = [i \in Interfaces |-> "idle"]
  /\ dest = FALSE /\ simStatus = "idle" /\ arriving = FALSE /\ lost = FALSE
  /\ tracked = FALSE
  /\ pc = [t \in Task |-> "none"] /\ op = [t \in Task |-> "none"]
  /\ calls = 0 /\ faults = 0

-----------------------------------------------------------------------------

Goto(t, await) == pc' = [pc EXCEPT ![t] = await]

Finish(t) == Goto(t, "none") /\ op' = [op EXCEPT ![t] = "none"]

(* _change_motion_status of the device: a new status is given to all       *)
(* interfaces; if the combined status happens to be the same already, the   *)
(* interfaces keep what they have.                                         *)
SetStatus(s) ==
  /\ status' = s
  /\ single' = IF status = s THEN single ELSE [i \in Interfaces |-> s]

(* ... then task t publishes it, which is an await only if it is new.      *)
ChangeStatus(t, s, publishing, next) ==
  /\ SetStatus(s)
  /\ Goto(t, IF status = s THEN next ELSE publishing)

(* Wrong on purpose: nothing is known if no state wins.                    *)
CombineUnknown(s) ==
  LET Shows(x) == \E i \in Interfaces : s[i] = x
  IN  IF Shows("initializing") THEN "initializing"
      ELSE IF Shows("parking") THEN "parking"
      ELSE IF Shows("slewing") THEN "slewing"
      ELSE "unknown"

(* _combine_motion_status: some states of an interface win, the others do  *)
(* not show unless they are those of the first interface.                  *)
Combine(s) ==
  LET Shows(x) == \E i \in Interfaces : s[i] = x
  IN  IF Shows("initializing") THEN "initializing"
      ELSE IF Shows("parking") THEN "parking"
      ELSE IF Shows("slewing") THEN "slewing"
      ELSE s["ITelescope"]

(* _change_motion_status of the filter wheel alone.                        *)
SetFilterStatus(s) ==
  /\ single' = [single EXCEPT !["IFilters"] = s]
  /\ status' = IF single["IFilters"] = s THEN status ELSE Combine(single')

(* move_radec and move_altaz return at once in these.                      *)
DoesNotMove == status \in {"initializing", "parking", "parked"}

-----------------------------------------------------------------------------

(* The first part of a handler, up to its first await.                     *)
BeginMove(t) ==
  /\ ~DoesNotMove
  /\ \E o \in {"move_radec", "move_altaz"} \cap Asks[t] : op' = [op EXCEPT ![t] = o]
  /\ Goto(t, "locking")
  /\ UNCHANGED <<statusVars, dest>>

(* track_body asks for the coordinates of the body first.                  *)
BeginTrack(t) ==
  /\ op' = [op EXCEPT ![t] = "track"]
  /\ Goto(t, "querying")
  /\ UNCHANGED <<statusVars, dest>>

BeginPark(t) ==
  /\ op' = [op EXCEPT ![t] = "park"]
  /\ Goto(t, "locking")
  /\ UNCHANGED <<statusVars, dest>>

(* A stop announces itself before it asks for the lock.                    *)
BeginStop(t) ==
  /\ op' = [op EXCEPT ![t] = "stop_motion"]
  /\ ChangeStatus(t, "aborting", "stopping", "locking")
  /\ UNCHANGED dest

(* init and set_filter never ask for the lock.                             *)
BeginInit(t) ==
  /\ op' = [op EXCEPT ![t] = "init"]
  /\ SetStatus("initializing")
  /\ Goto(t, "initializing")
  /\ UNCHANGED dest

BeginFilter(t) ==
  /\ op' = [op EXCEPT ![t] = "set_filter"]
  /\ SetFilterStatus("slewing")
  /\ Goto(t, "turning")
  /\ UNCHANGED dest

(* A client calls a handler through Module.execute.                        *)
Call(t) ==
  /\ t \in Clients
  /\ pc[t] = "none"
  /\ calls < MaxCalls
  /\ calls' = calls + 1
  /\ BeginMove(t) \/ BeginTrack(t) \/ BeginPark(t) \/ BeginStop(t) \/ BeginInit(t) \/ BeginFilter(t)
  /\ op'[t] \in Asks[t]
  /\ UNCHANGED <<lockVars, simStatus, arriving, lost, tracked, faults>>

StopAnnounced(t) ==
  /\ pc[t] = "stopping"
  /\ Goto(t, "locking")
  /\ UNCHANGED <<lockVars, statusVars, mountVars, tracked, op, bounds>>

(* async with LockWithAbort: t asks for the lock, or goes on waiting.      *)
RequestLock(t) ==
  /\ pc[t] = "locking"
  /\ Join(t) \/ FirstTimeout(t)
  /\ UNCHANGED <<statusVars, mountVars, tracked, taskVars, bounds>>

(* Wrong on purpose: the handler goes on without the lock.                 *)
GiveUpIgnored(t) ==
  /\ pc[t] = "locking"
  /\ SecondTimeout(t)
  /\ Goto(t, "starting")
  /\ UNCHANGED <<statusVars, mountVars, tracked, op, bounds>>

(* Ten seconds after asking the holder to stop: DeviceBusyError.  A holder  *)
(* looks at the event every second, or is done in five: if it is still the *)
(* one that t has asked it is stuck in a publish or a query, a fault;      *)
(* otherwise others were served meanwhile, whoever sets the event.         *)
GiveUp(t) ==
  /\ pc[t] = "locking"
  /\ SecondTimeout(t)
  /\ \/ t \notin asked /\ UNCHANGED faults
     \/ t \in asked /\ faults < MaxFaults /\ faults' = faults + 1
  /\ Finish(t)
  /\ UNCHANGED <<statusVars, mountVars, tracked, calls>>

(* t gets the lock; the first thing it does in the block.                  *)
GetLock(t) ==
  /\ pc[t] = "locking"
  /\ Acquire(t)
  /\ \/ /\ op[t] \in {"move_radec", "track"}
        /\ ChangeStatus(t, "slewing", "starting", "starting")
        /\ UNCHANGED dest
     \/ /\ op[t] = "move_altaz"
        /\ Goto(t, "announcing")
        /\ UNCHANGED <<statusVars, dest>>
     \/ /\ op[t] = "park"
        /\ ChangeStatus(t, "parking", "starting", "starting")
        /\ UNCHANGED dest
     \/ /\ op[t] = "stop_motion"
        /\ dest' = FALSE
        /\ ChangeStatus(t, "idle", "finishing", "finishing")
     \/ /\ op[t] = "tick"
        /\ Goto(t, IF tracked THEN "refreshing" ELSE "finishing")
        /\ UNCHANGED <<statusVars, dest>>
  /\ UNCHANGED <<simStatus, arriving, lost, tracked, op, bounds>>

-----------------------------------------------------------------------------
(* The block of move_radec and move_altaz, which track_body calls too.     *)

(* move_altaz sends its event before it sets the status.                   *)
Announced(t) ==
  /\ pc[t] = "announcing"
  /\ ChangeStatus(t, "slewing", "starting", "starting")
  /\ UNCHANGED <<lockVars, mountVars, tracked, op, bounds>>

(* _move_radec of the simulator: a destination, and the status SLEWING if   *)
(* the simulator is not slewing already; then it polls the simulator.      *)
Depart(t) ==
  /\ dest' = TRUE
  /\ simStatus' = "slewing"
  /\ IF simStatus = "slewing" THEN UNCHANGED statusVars ELSE SetStatus("slewing")
  /\ Goto(t, "slewing")

(* The status, the event and the tracking mode are published, one await    *)
(* here; a move ends the tracking of a body.                               *)
Slew(t) ==
  /\ pc[t] = "starting" /\ op[t] \in Moves
  /\ ~lost
  /\ tracked' = FALSE
  /\ Depart(t)
  /\ UNCHANGED <<lockVars, arriving, lost, op, bounds>>

(* Without a position the simulator raises.                                *)
SlewRaises(t) ==
  /\ pc[t] = "starting" /\ op[t] \in Moves
  /\ lost
  /\ tracked' = FALSE
  /\ Exit(t)
  /\ Finish(t)
  /\ UNCHANGED <<statusVars, mountVars, bounds>>

(* Wrong on purpose: the loop does not look at the abort event.            *)
SlewEndsUnaborted(t) ==
  /\ pc[t] = "slewing"
  /\ simStatus # "slewing"
  /\ Goto(t, IF op[t] = "tick" THEN "finishing" ELSE "dome")
  /\ UNCHANGED <<lockVars, statusVars, mountVars, tracked, op, bounds>>

(* Wrong on purpose: the loop waits for the published status.              *)
SlewEndsByStatus(t) ==
  /\ pc[t] = "slewing"
  /\ status = "tracking" \/ abortSet
  /\ Goto(t, IF op[t] = "tick" THEN "finishing" ELSE "dome")
  /\ UNCHANGED <<lockVars, statusVars, mountVars, tracked, op, bounds>>

(* The loop ends when the simulator has arrived or the event is set; then  *)
(* a move waits for the dome.                                              *)
SlewEnds(t) ==
  /\ pc[t] = "slewing"
  /\ simStatus # "slewing" \/ abortSet
  /\ Goto(t, IF op[t] = "tick" THEN "finishing" ELSE "dome")
  /\ UNCHANGED <<lockVars, statusVars, mountVars, tracked, op, bounds>>

(* The dome has arrived, or the event is set: a move does not ask which,   *)
(* and sets the status of a telescope that has reached its target.         *)
DomeFollowed(t) ==
  /\ pc[t] = "dome"
  /\ ChangeStatus(t, IF op[t] = "move_altaz" THEN "positioned" ELSE "tracking",
                  "finishing", "finishing")
  /\ UNCHANGED <<lockVars, mountVars, tracked, op, bounds>>

-----------------------------------------------------------------------------
(* The blocks of park and of the refresh, and how the handlers end.        *)

(* Wrong on purpose: the mount keeps its destination.                      *)
ParkStartsKeeping(t) ==
  /\ pc[t] = "starting" /\ op[t] = "park"
  /\ Goto(t, "parking")
  /\ UNCHANGED <<lockVars, statusVars, mountVars, tracked, op, bounds>>

(* PARKING is published: the mount stops, then five seconds.               *)
ParkStarts(t) ==
  /\ pc[t] = "starting" /\ op[t] = "park"
  /\ dest' = FALSE
  /\ Goto(t, "parking")
  /\ UNCHANGED <<lockVars, statusVars, simStatus, arriving, lost, tracked, op, bounds>>

ParkDone(t) ==
  /\ pc[t] = "parking"
  /\ ChangeStatus(t, "parked", "finishing", "finishing")
  /\ UNCHANGED <<lockVars, mountVars, tracked, op, bounds>>

(* A tick has asked for the position and rate of the body and has set the  *)
(* rate, or the error was logged.  The tick of Refresh may then find that   *)
(* it is time to put the telescope back on the body: it slews like a move,  *)
(* whatever the status is, unless a native tracking mode is used.          *)
TickDispatched(t) ==
  /\ pc[t] = "refreshing"
  /\ \/ Goto(t, "finishing") /\ UNCHANGED <<statusVars, dest, simStatus>>
     \/ t = Refresh /\ ~lost /\ Depart(t)
  /\ UNCHANGED <<lockVars, arriving, lost, tracked, op, bounds>>

(* The last await in the block has returned.                               *)
Return(t) ==
  /\ pc[t] = "finishing" /\ op[t] # "track"
  /\ Exit(t)
  /\ Finish(t)
  /\ UNCHANGED <<statusVars, mountVars, tracked, bounds>>

(* track_body when the move has returned: the body is the tracked one, and  *)
(* a first tick asks for the lock that has just been released.             *)
TrackMoved(t) ==
  /\ pc[t] = "finishing" /\ op[t] = "track"
  /\ Exit(t)
  /\ tracked' = TRUE
  /\ op' = [op EXCEPT ![t] = "tick"]
  /\ Goto(t, "locking")
  /\ UNCHANGED <<statusVars, mountVars, bounds>>

(* The body is resolved and move_radec goes for the lock, or the body is    *)
(* not found ...                                                           *)
BodyResolved(t) ==
  /\ pc[t] = "querying"
  /\ \/ ~DoesNotMove /\ Goto(t, "locking") /\ UNCHANGED op
     \/ Finish(t)
  /\ UNCHANGED <<lockVars, statusVars, mountVars, tracked, bounds>>

(* ... or move_radec returns without having moved: the body is tracked     *)
(* from now on all the same, at once if the lock is free.                  *)
TrackUnmoved(t) ==
  /\ pc[t] = "querying"
  /\ DoesNotMove
  /\ tracked' = TRUE
  /\ IF Holders = {}
     THEN Goto(t, "locking") /\ op' = [op EXCEPT ![t] = "tick"]
     ELSE Finish(t)
  /\ UNCHANGED <<lockVars, statusVars, mountVars, bounds>>

(* init after its five seconds, set_filter after its three; the status is   *)
(* the last thing that they publish.                                       *)
InitDone(t) ==
  /\ pc[t] = "initializing"
  /\ SetStatus("idle")
  /\ Finish(t)
  /\ UNCHANGED <<lockVars, mountVars, tracked, bounds>>

FilterDone(t) ==
  /\ pc[t] = "turning"
  /\ SetFilterStatus("positioned")
  /\ Finish(t)
  /\ UNCHANGED <<lockVars, mountVars, tracked, bounds>>

(* A publish or the wait for the dome raises.  The exception ends the      *)
(* handler and leaves the status and the destination as they are; a tick    *)
(* catches it.                                                             *)
AwaitFails(t) ==
  /\ pc[t] \in Failing
  /\ faults < MaxFaults /\ faults' = faults + 1
  /\ IF stage[t] = "in" THEN Exit(t) ELSE UNCHANGED lockVars
  /\ Finish(t)
  /\ UNCHANGED <<statusVars, mountVars, tracked, calls>>

-----------------------------------------------------------------------------
(* The simulator, the weather and the refresh.                             *)

(* _move_task finds the destination reached: TRACKING.  If that is new it   *)
(* has to be published before the simulator goes on.                       *)
SimReaches ==
  /\ dest /\ ~arriving /\ ~lost
  /\ simStatus' = "tracking"
  /\ SetStatus("tracking")
  /\ IF status = "tracking"
     THEN dest' = FALSE /\ UNCHANGED arriving
     ELSE arriving' = TRUE /\ UNCHANGED dest
  /\ UNCHANGED <<lockVars, lost, tracked, taskVars, bounds>>

(* The position becomes what the destination is by now, which is nothing   *)
(* if a park or a stop came in between.                                    *)
SimArrives ==
  /\ arriving
  /\ arriving' = FALSE
  /\ lost' = ~dest
  /\ dest' = FALSE
  /\ UNCHANGED <<lockVars, statusVars, simStatus, tracked, taskVars, bounds>>

(* __weather_check in bad weather, or when the weather module could not be  *)
(* reached for the third time: unless an earlier one is still at it, a      *)
(* task that parks a telescope which is not parked.  The weather is not     *)
(* modelled, only its orders.                                              *)
WeatherParks ==
  /\ pc[Weather] = "none"
  /\ status \notin {"parked", "parking"}
  /\ BeginPark(Weather)
  /\ UNCHANGED <<lockVars, mountVars, tracked, bounds>>

(* A turn of _track_refresh: it leaves a telescope alone whose lock is     *)
(* held, and else asks for it.                                             *)
RefreshTick ==
  /\ pc[Refresh] = "none"
  /\ tracked
  /\ Holders = {}
  /\ op' = [op EXCEPT ![Refresh] = "tick"]
  /\ Goto(Refresh, "locking")
  /\ UNCHANGED <<lockVars, statusVars, mountVars, tracked, bounds>>

-----------------------------------------------------------------------------

(* What a handler does on its own once it has been called.                 *)
Progress(t) ==
  \/ StopAnnounced(t) \/ RequestLock(t) \/ GetLock(t)
  \/ Announced(t) \/ Slew(t) \/ SlewRaises(t)
  \/ SlewEnds(t) \/ DomeFollowed(t)
  \/ ParkStarts(t) \/ ParkDone(t) \/ TickDispatched(t)
  \/ Return(t) \/ TrackMoved(t) \/ BodyResolved(t) \/ TrackUnmoved(t)
  \/ InitDone(t) \/ FilterDone(t)

Simulator == SimReaches \/ SimArrives

Next ==
  \/ \E t \in Task : Call(t) \/ Progress(t) \/ GiveUp(t) \/ AwaitFails(t)
  \/ Simulator \/ WeatherParks \/ RefreshTick

Spec == Init /\ [][Next]_vars

(* asyncio resumes a task whose await has ended, the simulator turns every  *)
(* second, and the dome follows.  The lock is granted to the head of the   *)
(* line as soon as it is free: the timers of a waiter do not run out again  *)
(* and again at just that moment.                                          *)
Fairness ==
  /\ \A t \in Task : WF_vars(Progress(t)) /\ WF_vars(t \notin asked /\ GiveUp(t))
  /\ WF_vars(Simulator)
  /\ SF_vars(GetLock(Weather))

FairSpec == Spec /\ Fairness

-----------------------------------------------------------------------------

InBlock(t) == pc[t] \in InBlockAwaits

AtRest == \A t \in Task : pc[t] = "none"

(* Two motions never overlap, however calls, aborts, the parking of the    *)
(* weather and the refresh of the tracking interleave.                     *)
Motion == INSTANCE ExclusiveUse WITH User <- Task, using <- {t \in Task : InBlock(t)}

OneMotionAtATime == Motion!Spec

(* A telescope that no handler is working on and that says parked stands   *)
(* still, if it follows no body and nothing has failed: no motion that was  *)
(* aborted, overtaken or hidden by the filter wheel leaves a destination   *)
(* behind it.                                                              *)
ParkedAtRestIsStill ==
  AtRest /\ status = "parked" /\ ~tracked /\ faults = 0 => ~dest

(* As long as the weather keeps ordering to park, the telescope is parked   *)
(* and still again and again, whatever the clients call, and however often  *)
(* the refresh of a tracked body moves it away.  Faults are excluded, and   *)
(* so is a simulator that has lost its position.                           *)
BadWeatherParks ==
  WF_vars(WeatherParks) /\ <>[](faults = 0 /\ ~lost)
    => []<>(status = "parked" /\ ~dest)

(* The simulator has arrived at the destination of the move before, and    *)
(* taken that of this one for it: task t waits for an arrival that does not *)
(* come.                                                                   *)
Overtaken(t) == pc[t] = "slewing" /\ simStatus = "slewing" /\ ~dest

(* Every call comes to an end: one that waits for the lock gets it or gives *)
(* up, one that slews arrives or is aborted, unless it has been overtaken  *)
(* by the arrival of its predecessor.                                      *)
CallsEnd == \A t \in Task : []<>(pc[t] = "none" \/ Overtaken(t))

(* "Do nothing, if initializing, parking or parked": no move starts on a    *)
(* telescope that has been parked.  The handlers ask before they wait for   *)
(* the lock.                                                               *)
MoveSparesParked ==
  [][\A t \in Task : GetLock(t) /\ op[t] \in Moves => status # "parked"]_vars
=============================================================================
