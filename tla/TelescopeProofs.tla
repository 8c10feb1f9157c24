--------------------------- MODULE TelescopeProofs ---------------------------
(***************************************************************************)
(* Theorems about Telescope, for any number of clients and whatever they    *)
(* call, and any number of calls and faults.                               *)
(***************************************************************************)
EXTENDS Telescope, LockProofs

(* The tasks inside the block are those that hold the lock, and one that    *)
(* waits for the lock is at the await of the lock.                         *)
LockAgrees ==
  \A t \in Task :
    /\ stage[t] = "in" <=> InBlock(t)
    /\ stage[t] \in {"first", "second"} => pc[t] = "locking"

(* The status of the telescope is what its interfaces add up to.           *)
StatusAgrees == Combine(single) = status

(* t has taken the destination from the mount and has not returned yet.    *)
Stops(t) == pc[t] = "parking" \/ (pc[t] = "finishing" /\ op[t] \in {"park", "stop_motion"})

(* A mount that is being parked or stopped has no destination, nor has one  *)
(* that does not know where it is.                                         *)
ParkingIsStill ==
  /\ \A t \in Task : Stops(t) => ~dest
  /\ lost => ~dest

(* The awaits of the block that belong to some of the handlers only.       *)
OpAgrees ==
  \A t \in Task :
    /\ pc[t] = "slewing" => op[t] \in Moves \cup {"tick"}
    /\ pc[t] = "dome" => op[t] \in Moves
    /\ pc[t] = "refreshing" => op[t] = "tick"

(* The refresh puts the telescope back on a body only if there is one.     *)
TickHasBody == \A t \in Task : pc[t] = "refreshing" => tracked

Moving(t) == op[t] \in Moves /\ pc[t] \in {"slewing", "dome"}

(* A parked mount that has a destination is on its way in a move, which is  *)
(* going to replace the status when it ends.                               *)
ParkedMoves ==
  faults = 0 /\ dest /\ ~tracked /\ single["ITelescope"] = "parked" => \E t \in Task : Moving(t)

TelescopeInv ==
  /\ TypeOK /\ LockInv /\ LockAgrees
  /\ StatusAgrees /\ ParkingIsStill /\ OpAgrees /\ TickHasBody /\ ParkedMoves

-----------------------------------------------------------------------------

LEMMA TelescopeInit ==
  ASSUME Init
  PROVE  TelescopeInv
<1>1. LockInv
  BY LockInitInv DEF Init
<1>2. TypeOK
  <2>1. dest \in BOOLEAN /\ arriving \in BOOLEAN /\ lost \in BOOLEAN /\ tracked \in BOOLEAN
    BY ZenonT(10) DEF Init
  <2>2. status \in Statuses /\ single \in [Interfaces -> Statuses]
    BY DEF Init, Statuses, Interfaces
  <2>3. QED
    BY <1>1, <2>1, <2>2, TelescopeAssumption
    DEF Init, LockInv, TypeOK, InBlockAwaits, OutsideAwaits, Handlers
<1>3. LockAgrees /\ ParkingIsStill /\ OpAgrees /\ TickHasBody /\ ParkedMoves
  BY DEF Init, LockInit, LockAgrees, ParkingIsStill, Stops, OpAgrees, TickHasBody, ParkedMoves,
    InBlock, InBlockAwaits
<1>4. StatusAgrees
  BY DEF Init, StatusAgrees, Combine, Interfaces
<1>5. QED
  BY <1>1, <1>2, <1>3, <1>4 DEF TelescopeInv

(* What a step does to the lock is a step of the lock, or nothing.         *)
LEMMA StepUsesLock ==
  ASSUME [Next]_vars
  PROVE  [\E t \in Task : LockStep(t)]_lockVars
<1>1. ASSUME NEW t \in Task, Call(t) \/ Progress(t) \/ GiveUp(t) \/ AwaitFails(t)
      PROVE  LockStep(t) \/ UNCHANGED lockVars
  BY <1>1
  DEF Progress, Call, StopAnnounced, RequestLock, GetLock, Announced, Slew, SlewRaises, SlewEnds,
      DomeFollowed, ParkStarts, ParkDone, TickDispatched, Return, TrackMoved, BodyResolved,
      TrackUnmoved, InitDone, FilterDone, GiveUp, AwaitFails, LockStep
<1>2. CASE Simulator \/ WeatherParks \/ RefreshTick
  BY <1>2 DEF Simulator, SimReaches, SimArrives, WeatherParks, RefreshTick
<1>3. CASE UNCHANGED vars
  BY <1>3 DEF vars
<1>4. QED
  BY <1>1, <1>2, <1>3 DEF Next

LEMMA StepOnLock ==
  ASSUME TelescopeInv, [Next]_vars
  PROVE  LockInv'
BY StepUsesLock, LockInvStep, LockInvStutter DEF TelescopeInv

(* At most one task is in the block.                                       *)
LEMMA InBlockAlone ==
  ASSUME TelescopeInv, NEW t \in Task, NEW u \in Task, InBlock(t), InBlock(u)
  PROVE  t = u
BY DEF TelescopeInv, LockInv, MutualExclusion, Holders, LockAgrees

(* A new status of the device is the status of all its interfaces, or the  *)
(* first interface has it already.                                         *)
LEMMA SetStatusShows ==
  ASSUME TypeOK, StatusAgrees, NEW s \in Statuses, SetStatus(s)
  PROVE  /\ status' \in Statuses /\ single' \in [Interfaces -> Statuses]
         /\ StatusAgrees'
         /\ s \in {"tracking", "positioned", "parked", "idle", "aborting"} => single'["ITelescope"] = s
         /\ s # "parked" /\ single'["ITelescope"] = "parked" => single["ITelescope"] = "parked"
<1>1. CASE status = s
  BY <1>1 DEF SetStatus, TypeOK, StatusAgrees, Combine, Interfaces
<1>2. CASE status # s
  BY <1>2 DEF SetStatus, TypeOK, StatusAgrees, Combine, Interfaces
<1>3. QED
  BY <1>1, <1>2

(* The filter wheel changes the combined status, not that of the mount.    *)
LEMMA SetFilterStatusShows ==
  ASSUME TypeOK, StatusAgrees, NEW s \in Statuses, SetFilterStatus(s)
  PROVE  /\ status' \in Statuses /\ single' \in [Interfaces -> Statuses]
         /\ StatusAgrees'
         /\ single'["ITelescope"] = single["ITelescope"]
<1>1. single' \in [Interfaces -> Statuses] /\ single'["ITelescope"] = single["ITelescope"]
  BY DEF SetFilterStatus, TypeOK, Interfaces
<1>2. CASE single["IFilters"] = s
  <2>1. single' = single /\ status' = status
    BY <1>2 DEF SetFilterStatus, TypeOK, Interfaces
  <2>2. QED
    BY <1>1, <2>1 DEF TypeOK, StatusAgrees
<1>3. CASE single["IFilters"] # s
  <2>1. status' = Combine(single')
    BY <1>3 DEF SetFilterStatus
  <2>2. status' \in Statuses
    BY <1>1, <2>1 DEF Combine, Statuses, Interfaces
  <2>3. QED
    BY <1>1, <2>1, <2>2 DEF StatusAgrees
<1>4. QED
  BY <1>2, <1>3

-----------------------------------------------------------------------------
(* A step preserves the invariant: the steps outside the block first.      *)
LEMMA TelescopeStep ==
  ASSUME TelescopeInv, [Next]_vars
  PROVE  TelescopeInv'
<1> USE TelescopeAssumption
    DEF TelescopeInv, TypeOK, LockTypeOK, LockAgrees, ParkingIsStill, Stops, OpAgrees, TickHasBody,
        ParkedMoves, Moving, InBlock, InBlockAwaits, OutsideAwaits, Handlers, Moves, Goto, Finish
<1>0. LockInv'
  BY StepOnLock
<1>t. LockTypeOK'
  BY <1>0 DEF LockInv
<1>s. /\ \A s \in Statuses : SetStatus(s) =>
           /\ status' \in Statuses /\ single' \in [Interfaces -> Statuses]
           /\ StatusAgrees'
           /\ s \in {"tracking", "positioned", "parked", "idle", "aborting"} => single'["ITelescope"] = s
           /\ s # "parked" /\ single'["ITelescope"] = "parked" => single["ITelescope"] = "parked"
      /\ \A s \in Statuses : SetFilterStatus(s) =>
           /\ status' \in Statuses /\ single' \in [Interfaces -> Statuses]
           /\ StatusAgrees'
           /\ single'["ITelescope"] = single["ITelescope"]
  BY SetStatusShows, SetFilterStatusShows
<1>n. UNCHANGED statusVars =>
           /\ status' \in Statuses /\ single' \in [Interfaces -> Statuses]
           /\ StatusAgrees'
           /\ single'["ITelescope"] = single["ITelescope"]
  BY DEF statusVars, StatusAgrees
<1>v. {"idle", "initializing", "slewing", "tracking", "positioned", "parking", "parked", "aborting"}
        = Statuses
  BY DEF Statuses
<1>1. ASSUME NEW t \in Task, Call(t)
      PROVE  TelescopeInv'
  <2>1. CASE BeginMove(t)
    BY <1>0, <1>t, <1>n, <1>1, <2>1 DEF Call, BeginMove, lockVars
  <2>2. CASE BeginTrack(t) \/ BeginPark(t)
    BY <1>0, <1>t, <1>n, <1>1, <2>2 DEF Call, BeginTrack, BeginPark, lockVars
  <2>3. CASE BeginStop(t)
    BY <1>0, <1>t, <1>s, <1>v, <1>1, <2>3 DEF Call, BeginStop, ChangeStatus, lockVars
  <2>4. CASE BeginInit(t)
    BY <1>0, <1>t, <1>s, <1>v, <1>1, <2>4 DEF Call, BeginInit, lockVars
  <2>5. CASE BeginFilter(t)
    BY <1>0, <1>t, <1>s, <1>v, <1>1, <2>5 DEF Call, BeginFilter, lockVars
  <2>6. QED
    BY <1>1, <2>1, <2>2, <2>3, <2>4, <2>5 DEF Call
<1>2. ASSUME NEW t \in Task, StopAnnounced(t)
      PROVE  TelescopeInv'
  BY <1>0, <1>t, <1>n, <1>2 DEF StopAnnounced, lockVars, mountVars, bounds
<1>3. ASSUME NEW t \in Task, RequestLock(t)
      PROVE  TelescopeInv'
  <2>1. CASE Join(t)
    BY <1>0, <1>t, <1>n, <1>3, <2>1 DEF RequestLock, Join, mountVars, taskVars, bounds
  <2>2. CASE FirstTimeout(t)
    BY <1>0, <1>t, <1>n, <1>3, <2>2 DEF RequestLock, FirstTimeout, mountVars, taskVars, bounds
  <2>3. QED
    BY <1>3, <2>1, <2>2 DEF RequestLock
<1>4. ASSUME NEW t \in Task, GiveUp(t)
      PROVE  TelescopeInv'
  BY <1>0, <1>t, <1>n, <1>4 DEF GiveUp, SecondTimeout, mountVars
<1>5. ASSUME NEW t \in Task, GetLock(t)
      PROVE  TelescopeInv'
  <2>1. /\ \A u \in Task : ~InBlock(u)
        /\ stage' = [stage EXCEPT ![t] = "in"]
    BY <1>5 DEF GetLock, Acquire, Take, Grant, Holders
  <2>2. CASE op[t] \in {"move_radec", "track"} /\ ChangeStatus(t, "slewing", "starting", "starting") /\ UNCHANGED dest
    BY <1>0, <1>t, <1>s, <1>v, <1>5, <2>1, <2>2 DEF GetLock, ChangeStatus, bounds
  <2>3. CASE op[t] = "move_altaz" /\ Goto(t, "announcing") /\ UNCHANGED <<statusVars, dest>>
    BY <1>0, <1>t, <1>n, <1>5, <2>1, <2>3 DEF GetLock, bounds
  <2>4. CASE op[t] = "park" /\ ChangeStatus(t, "parking", "starting", "starting") /\ UNCHANGED dest
    BY <1>0, <1>t, <1>s, <1>v, <1>5, <2>1, <2>4 DEF GetLock, ChangeStatus, bounds
  <2>5. CASE op[t] = "stop_motion" /\ dest' = FALSE /\ ChangeStatus(t, "idle", "finishing", "finishing")
    <3>1. dest' \in BOOLEAN /\ ~dest'
      BY <2>5, ZenonT(10)
    <3>2. TypeOK' /\ LockAgrees' /\ StatusAgrees'
      BY <1>0, <1>t, <1>s, <1>v, <1>5, <2>1, <2>5, <3>1 DEF GetLock, ChangeStatus, bounds
    <3>3. ParkingIsStill' /\ OpAgrees' /\ TickHasBody' /\ ParkedMoves'
      BY <1>5, <2>1, <2>5, <3>1 DEF GetLock, ChangeStatus
    <3>4. QED
      BY <1>0, <3>2, <3>3
  <2>6. CASE op[t] = "tick" /\ Goto(t, IF tracked THEN "refreshing" ELSE "finishing") /\ UNCHANGED <<statusVars, dest>>
    BY <1>0, <1>t, <1>n, <1>5, <2>1, <2>6 DEF GetLock, bounds
  <2>7. QED
    BY <1>5, <2>2, <2>3, <2>4, <2>5, <2>6 DEF GetLock
<1>6. ASSUME NEW t \in Task, Announced(t)
      PROVE  TelescopeInv'
  BY <1>0, <1>t, <1>s, <1>v, <1>6 DEF Announced, ChangeStatus, lockVars, mountVars, bounds
<1>7. ASSUME NEW t \in Task, Slew(t)
      PROVE  TelescopeInv'
  <2>1. \A u \in Task : u # t => ~InBlock(u)
    BY <1>7, InBlockAlone DEF Slew
  <2>2. /\ status' \in Statuses /\ single' \in [Interfaces -> Statuses] /\ StatusAgrees'
    BY <1>s, <1>v, <1>n, <1>7 DEF Slew, Depart
  <2>3. dest' /\ ~tracked' /\ dest' \in BOOLEAN /\ tracked' \in BOOLEAN
    BY <1>7, ZenonT(10) DEF Slew, Depart
  <2>4. TypeOK' /\ LockAgrees'
    BY <1>0, <1>t, <1>7, <2>2, <2>3 DEF Slew, Depart, lockVars, bounds
  <2>5. ParkingIsStill' /\ OpAgrees' /\ TickHasBody' /\ ParkedMoves'
    BY <1>7, <2>1, <2>3 DEF Slew, Depart
  <2>6. QED
    BY <1>0, <2>2, <2>4, <2>5
<1>8. ASSUME NEW t \in Task, SlewRaises(t)
      PROVE  TelescopeInv'
  <2>1. \A u \in Task : u # t => ~InBlock(u)
    BY <1>8, InBlockAlone DEF SlewRaises
  <2>2. ~tracked' /\ tracked' \in BOOLEAN /\ ~dest
    BY <1>8, ZenonT(10) DEF SlewRaises
  <2>3. TypeOK' /\ LockAgrees' /\ StatusAgrees'
    BY <1>0, <1>t, <1>n, <1>8, <2>2 DEF SlewRaises, Exit, mountVars, bounds
  <2>4. ParkingIsStill' /\ OpAgrees' /\ TickHasBody' /\ ParkedMoves'
    BY <1>8, <2>1, <2>2 DEF SlewRaises, mountVars
  <2>5. QED
    BY <1>0, <2>3, <2>4
<1>9. ASSUME NEW t \in Task, SlewEnds(t)
      PROVE  TelescopeInv'
  BY <1>0, <1>t, <1>n, <1>9 DEF SlewEnds, lockVars, mountVars, bounds
<1>10. ASSUME NEW t \in Task, DomeFollowed(t)
       PROVE  TelescopeInv'
  <2>1. single'["ITelescope"] \in {"tracking", "positioned"}
    BY <1>s, <1>v, <1>10 DEF DomeFollowed, ChangeStatus
  <2>2. QED
    BY <1>0, <1>t, <1>s, <1>v, <1>10, <2>1 DEF DomeFollowed, ChangeStatus, lockVars, mountVars, bounds
<1>11. ASSUME NEW t \in Task, ParkStarts(t)
       PROVE  TelescopeInv'
  <2>1. dest' \in BOOLEAN /\ ~dest'
    BY <1>11, ZenonT(10) DEF ParkStarts
  <2>2. TypeOK' /\ LockAgrees' /\ StatusAgrees'
    BY <1>0, <1>t, <1>n, <1>11, <2>1 DEF ParkStarts, lockVars, bounds
  <2>3. ParkingIsStill' /\ OpAgrees' /\ TickHasBody' /\ ParkedMoves'
    BY <1>11, <2>1 DEF ParkStarts
  <2>4. QED
    BY <1>0, <2>2, <2>3
<1>12. ASSUME NEW t \in Task, ParkDone(t)
       PROVE  TelescopeInv'
  BY <1>0, <1>t, <1>s, <1>v, <1>12 DEF ParkDone, ChangeStatus, lockVars, mountVars, bounds
<1>13. ASSUME NEW t \in Task, TickDispatched(t)
       PROVE  TelescopeInv'
  <2>1. \A u \in Task : u # t => ~InBlock(u)
    BY <1>13, InBlockAlone DEF TickDispatched
  <2>2. CASE Goto(t, "finishing") /\ UNCHANGED <<statusVars, dest, simStatus>>
    BY <1>0, <1>t, <1>n, <1>13, <2>1, <2>2 DEF TickDispatched, lockVars, bounds
  <2>3. CASE t = Refresh /\ ~lost /\ Depart(t)
    <3>1. /\ status' \in Statuses /\ single' \in [Interfaces -> Statuses] /\ StatusAgrees'
      BY <1>s, <1>v, <1>n, <2>3 DEF Depart
    <3>2. QED
      BY <1>0, <1>t, <1>13, <2>1, <2>3, <3>1 DEF TickDispatched, Depart, lockVars, bounds
  <2>4. QED
    BY <1>13, <2>2, <2>3 DEF TickDispatched
<1>14. ASSUME NEW t \in Task, Return(t)
       PROVE  TelescopeInv'
  BY <1>0, <1>t, <1>n, <1>14 DEF Return, Exit, mountVars, bounds
<1>15. ASSUME NEW t \in Task, TrackMoved(t)
       PROVE  TelescopeInv'
  BY <1>0, <1>t, <1>n, <1>15 DEF TrackMoved, Exit, mountVars, bounds
<1>16. ASSUME NEW t \in Task, BodyResolved(t)
       PROVE  TelescopeInv'
  BY <1>0, <1>t, <1>n, <1>16 DEF BodyResolved, lockVars, mountVars, bounds
<1>17. ASSUME NEW t \in Task, TrackUnmoved(t)
       PROVE  TelescopeInv'
  BY <1>0, <1>t, <1>n, <1>17 DEF TrackUnmoved, lockVars, mountVars, bounds
<1>18. ASSUME NEW t \in Task, InitDone(t)
       PROVE  TelescopeInv'
  BY <1>0, <1>t, <1>s, <1>v, <1>18 DEF InitDone, lockVars, mountVars, bounds
<1>19. ASSUME NEW t \in Task, FilterDone(t)
       PROVE  TelescopeInv'
  BY <1>0, <1>t, <1>s, <1>v, <1>19 DEF FilterDone, lockVars, mountVars, bounds
<1>20. ASSUME NEW t \in Task, AwaitFails(t)
       PROVE  TelescopeInv'
  BY <1>0, <1>t, <1>n, <1>20 DEF AwaitFails, Failing, Exit, lockVars, mountVars
<1>21. CASE SimReaches
  BY <1>0, <1>t, <1>s, <1>v, <1>21 DEF SimReaches, lockVars, taskVars, bounds
<1>22. CASE SimArrives
  BY <1>0, <1>t, <1>n, <1>22 DEF SimArrives, lockVars, taskVars, bounds
<1>23. CASE WeatherParks
  BY <1>0, <1>t, <1>n, <1>23 DEF WeatherParks, BeginPark, lockVars, mountVars, bounds
<1>24. CASE RefreshTick
  BY <1>0, <1>t, <1>n, <1>24 DEF RefreshTick, lockVars, mountVars, bounds
<1>25. CASE UNCHANGED vars
  BY <1>0, <1>t, <1>n, <1>25 DEF vars, lockVars, mountVars, taskVars, bounds
<1>26. QED
  BY <1>1, <1>2, <1>3, <1>4, <1>5, <1>6, <1>7, <1>8, <1>9, <1>10, <1>11, <1>12, <1>13, <1>14, <1>15,
     <1>16, <1>17, <1>18, <1>19, <1>20, <1>21, <1>22, <1>23, <1>24, <1>25 DEF Next, Progress, Simulator

-----------------------------------------------------------------------------

THEOREM TelescopeInvariant == Spec => []TelescopeInv
<1>1. QED
  BY TelescopeInit, TelescopeStep, PTL DEF Spec

(* The types of the telescope's state.                                     *)
THEOREM TelescopeTypes == Spec => []TypeOK
<1>1. QED
  BY TelescopeInvariant, PTL DEF TelescopeInv

(* A telescope at rest that says parked stands still, for any number of     *)
(* callers: a destination would belong to a move that has not ended yet.   *)
THEOREM ParkedTelescopeIsStill == Spec => []ParkedAtRestIsStill
<1>1. ASSUME TelescopeInv
      PROVE  ParkedAtRestIsStill
  <2>1. SUFFICES ASSUME AtRest, status = "parked", ~tracked, faults = 0, dest
                 PROVE  FALSE
    BY DEF ParkedAtRestIsStill
  <2>2. single["ITelescope"] = "parked"
    BY <1>1, <2>1 DEF TelescopeInv, StatusAgrees, Combine
  <2>3. PICK t \in Task : Moving(t)
    BY <1>1, <2>1, <2>2 DEF TelescopeInv, ParkedMoves
  <2>4. QED
    BY <2>1, <2>3 DEF AtRest, Moving
<1>2. QED
  BY <1>1, TelescopeInvariant, PTL

-----------------------------------------------------------------------------

(* The motion status that the telescope shows is at any time the one that  *)
(* the statuses of its interfaces add up to: device-wide changes, which go *)
(* to all of them, and those of the filter wheel never drift apart.        *)
THEOREM CombinedStatusAgrees == Spec => []StatusAgrees
<1>1. QED
  BY TelescopeInvariant, PTL DEF TelescopeInv

(* From the moment at which park or stop_motion has taken the destination  *)
(* from the mount to its return nobody gives it another one, neither a     *)
(* move nor the refresh of a tracked body.                                 *)
THEOREM StoppedMountStandsStill == Spec => []ParkingIsStill
<1>1. QED
  BY TelescopeInvariant, PTL DEF TelescopeInv

-----------------------------------------------------------------------------

Shown(x) == \E i \in Interfaces : single[i] = x

Parker(t) == op[t] = "park" /\ pc[t] \in {"starting", "parking"}

Initializer(t) == op[t] = "init" /\ pc[t] = "initializing"

(* Without faults, an interface that parks or initializes has a task that  *)
(* does it and will set another status for all of them.                    *)
ShownHasTask ==
  faults = 0 =>
    /\ Shown("parking") => \E t \in Task : Parker(t)
    /\ Shown("initializing") => \E t \in Task : Initializer(t)

(* What the ways to set a status leave of the two.  A device-wide status    *)
(* that is not new leaves the interfaces alone, which agree with it.       *)
LEMMA StatusReplacesShown ==
  ASSUME TypeOK, StatusAgrees
  PROVE  /\ \A s \in Statuses \ {"parking", "initializing"} :
              SetStatus(s) => ~Shown("parking")' /\ ~Shown("initializing")'
         /\ SetStatus("parking") => ~Shown("initializing")'
         /\ SetStatus("initializing") => (Shown("parking")' => Shown("parking"))
         /\ \A s \in Statuses \ {"parking", "initializing"} :
              SetFilterStatus(s) => /\ Shown("parking")' => Shown("parking")
                                    /\ Shown("initializing")' => Shown("initializing")
<1> USE DEF TypeOK, Shown
<1>1. ASSUME NEW s \in Statuses \ {"parking", "initializing"}, SetStatus(s)
      PROVE  ~Shown("parking")' /\ ~Shown("initializing")'
  <2>1. CASE status = s
    BY <1>1, <2>1 DEF SetStatus, StatusAgrees, Combine
  <2>2. CASE status # s
    BY <1>1, <2>2 DEF SetStatus
  <2>3. QED
    BY <2>1, <2>2
<1>2. ASSUME SetStatus("parking")
      PROVE  ~Shown("initializing")'
  <2>1. CASE status = "parking"
    BY <1>2, <2>1 DEF SetStatus, StatusAgrees, Combine
  <2>2. CASE status # "parking"
    BY <1>2, <2>2 DEF SetStatus
  <2>3. QED
    BY <2>1, <2>2
<1>3. ASSUME SetStatus("initializing")
      PROVE  Shown("parking")' => Shown("parking")
  <2>1. CASE status = "initializing"
    BY <1>3, <2>1 DEF SetStatus
  <2>2. CASE status # "initializing"
    BY <1>3, <2>2 DEF SetStatus
  <2>3. QED
    BY <2>1, <2>2
<1>4. ASSUME NEW s \in Statuses \ {"parking", "initializing"}, SetFilterStatus(s)
      PROVE  /\ Shown("parking")' => Shown("parking")
             /\ Shown("initializing")' => Shown("initializing")
  BY <1>4 DEF SetFilterStatus
<1>5. QED
  BY <1>1, <1>2, <1>3, <1>4

(* What the faults count does not come back.                               *)
LEMMA FaultsOnlyGrow ==
  ASSUME TypeOK, [Next]_vars
  PROVE  faults' = 0 => faults = 0
<1>1. faults \in Nat
  BY TelescopeAssumption DEF TypeOK
<1>2. ASSUME NEW t \in Task, Call(t) \/ Progress(t)
      PROVE  faults' = faults
  BY <1>2 DEF Call, Progress, StopAnnounced, RequestLock, GetLock, Announced, Slew, SlewRaises, SlewEnds,
    DomeFollowed, ParkStarts, ParkDone, TickDispatched, Return, TrackMoved, BodyResolved,
    TrackUnmoved, InitDone, FilterDone, bounds
<1>3. ASSUME NEW t \in Task, GiveUp(t) \/ AwaitFails(t)
      PROVE  faults' = faults \/ faults' = faults + 1
  BY <1>3 DEF GiveUp, AwaitFails
<1>4. CASE Simulator \/ WeatherParks \/ RefreshTick \/ UNCHANGED vars
  BY <1>4 DEF Simulator, SimReaches, SimArrives, WeatherParks, RefreshTick, vars, bounds
<1>5. QED
  BY <1>1, <1>2, <1>3, <1>4 DEF Next

LEMMA ShownHasTaskStep ==
  ASSUME TelescopeInv, ShownHasTask, [Next]_vars
  PROVE  ShownHasTask'
<1> DEFINE Had == /\ Shown("parking") => \E u \in Task : Parker(u)
                  /\ Shown("initializing") => \E u \in Task : Initializer(u)
           Kept == \A u \in Task : (Parker(u) => Parker(u)') /\ (Initializer(u) => Initializer(u)')
           Less == /\ Shown("parking")' => Shown("parking")
                   /\ Shown("initializing")' => Shown("initializing")
           None == ~Shown("parking")' /\ ~Shown("initializing")'
<1> USE TelescopeAssumption DEF Parker, Initializer, Goto, Finish, Moves, Handlers
<1>1. SUFFICES ASSUME faults' = 0, faults = 0, Had
               PROVE  Had'
  BY FaultsOnlyGrow DEF ShownHasTask, TelescopeInv
<1>2. pc \in [Task -> InBlockAwaits \cup OutsideAwaits \cup {"none"}] /\ op \in [Task -> Handlers \cup {"none"}]
  BY DEF TelescopeInv, TypeOK
<1>s. /\ \A s \in {"slewing", "idle", "aborting", "tracking", "positioned", "parked"} : SetStatus(s) => None
      /\ SetStatus("parking") => ~Shown("initializing")'
      /\ SetStatus("initializing") => (Shown("parking")' => Shown("parking"))
      /\ \A s \in {"slewing", "positioned"} : SetFilterStatus(s) => Less
      /\ UNCHANGED statusVars => Less
  BY StatusReplacesShown DEF TelescopeInv, Statuses, statusVars, Shown
<1> HIDE DEF Less, None
<1>k. (Less \/ None) /\ Kept => Had'
  BY <1>1 DEF Less, None
<1>n. None => Had'
  BY DEF None
<1>3. ASSUME NEW t \in Task, Call(t)
      PROVE  Had'
  <2>1. CASE BeginMove(t) \/ BeginTrack(t) \/ BeginPark(t)
    <3>1. Kept
      BY <1>2, <1>3, <2>1 DEF Call, BeginMove, BeginTrack, BeginPark
    <3>2. Less
      BY <1>s, <2>1 DEF BeginMove, BeginTrack, BeginPark
    <3>3. QED
      BY <1>k, <3>1, <3>2
  <2>2. CASE BeginStop(t)
    BY <1>s, <1>n, <2>2 DEF BeginStop, ChangeStatus
  <2>3. CASE BeginInit(t)
    <3>1. Kept /\ Initializer(t)'
      BY <1>2, <1>3, <2>3 DEF Call, BeginInit
    <3>2. Shown("parking")' => Shown("parking")
      BY <1>s, <2>3 DEF BeginInit
    <3>3. QED
      BY <1>1, <3>1, <3>2
  <2>4. CASE BeginFilter(t)
    <3>1. Kept
      BY <1>2, <1>3, <2>4 DEF Call, BeginFilter
    <3>2. Less
      BY <1>s, <2>4 DEF BeginFilter
    <3>3. QED
      BY <1>k, <3>1, <3>2
  <2>5. QED
    BY <1>3, <2>1, <2>2, <2>3, <2>4 DEF Call
<1>4. ASSUME NEW t \in Task, GetLock(t)
      PROVE  Had'
  <2>1. CASE \E s \in {"slewing", "idle"} : SetStatus(s)
    BY <1>s, <1>n, <2>1
  <2>2. CASE UNCHANGED statusVars
    <3>1. Kept
      BY <1>2, <1>4 DEF GetLock, ChangeStatus
    <3>2. QED
      BY <1>s, <1>k, <2>2, <3>1
  <2>3. CASE op[t] = "park" /\ ChangeStatus(t, "parking", "starting", "starting")
    <3>1. Parker(t)'
      BY <1>2, <1>4, <2>3 DEF GetLock, ChangeStatus
    <3>2. QED
      BY <1>s, <2>3, <3>1 DEF ChangeStatus
  <2>4. QED
    BY <1>4, <2>1, <2>2, <2>3 DEF GetLock, ChangeStatus
<1>5. ASSUME NEW t \in Task, Announced(t) \/ DomeFollowed(t) \/ ParkDone(t) \/ InitDone(t)
      PROVE  Had'
  BY <1>s, <1>n, <1>5 DEF Announced, DomeFollowed, ParkDone, InitDone, ChangeStatus
<1>6. ASSUME NEW t \in Task, Slew(t) \/ TickDispatched(t)
      PROVE  Had'
  <2>1. Kept
    BY <1>2, <1>6 DEF Slew, TickDispatched, Depart
  <2>2. Less \/ None
    BY <1>s, <1>6 DEF Slew, TickDispatched, Depart
  <2>3. QED
    BY <1>k, <2>1, <2>2
<1>7. ASSUME NEW t \in Task, FilterDone(t)
      PROVE  Had'
  <2>1. Kept
    BY <1>2, <1>7 DEF FilterDone
  <2>2. QED
    BY <1>s, <1>k, <1>7, <2>1 DEF FilterDone
<1>8. ASSUME NEW t \in Task,
             \/ StopAnnounced(t) \/ RequestLock(t) \/ SlewRaises(t) \/ SlewEnds(t) \/ ParkStarts(t)
             \/ Return(t) \/ TrackMoved(t) \/ BodyResolved(t) \/ TrackUnmoved(t) \/ GiveUp(t)
      PROVE  Had'
  <2>1. Kept
    BY <1>2, <1>8 DEF StopAnnounced, RequestLock, SlewRaises, SlewEnds, ParkStarts, Return, TrackMoved,
      BodyResolved, TrackUnmoved, GiveUp, taskVars
  <2>2. UNCHANGED statusVars
    BY <1>8 DEF StopAnnounced, RequestLock, SlewRaises, SlewEnds, ParkStarts, Return, TrackMoved,
      BodyResolved, TrackUnmoved, GiveUp
  <2>3. QED
    BY <1>s, <1>k, <2>1, <2>2
<1>9. ASSUME NEW t \in Task, AwaitFails(t)
      PROVE  FALSE
  BY <1>1, <1>9 DEF AwaitFails
<1>10. CASE SimReaches
  <2>1. Kept
    BY <1>10 DEF SimReaches, taskVars
  <2>2. QED
    BY <1>s, <1>k, <1>10, <2>1 DEF SimReaches
<1>11. CASE SimArrives \/ WeatherParks \/ RefreshTick \/ UNCHANGED vars
  <2>1. Kept
    BY <1>2, <1>11 DEF SimArrives, WeatherParks, BeginPark, RefreshTick, taskVars, vars
  <2>2. UNCHANGED statusVars
    BY <1>11 DEF SimArrives, WeatherParks, BeginPark, RefreshTick, vars
  <2>3. QED
    BY <1>s, <1>k, <2>1, <2>2
<1>12. QED
  BY <1>3, <1>4, <1>5, <1>6, <1>7, <1>8, <1>9, <1>10, <1>11 DEF Next, Progress, Simulator

(* Unless something failed or got stuck, a telescope at rest does not say  *)
(* that it parks or initializes, whatever has overlapped before: an order  *)
(* of the weather and a move are then refused by a parked telescope only.  *)
RestingTelescopeListens == AtRest /\ faults = 0 => status \notin {"parking", "initializing"}

THEOREM TelescopeAtRestListens == Spec => []RestingTelescopeListens
<1>1. Init => ShownHasTask
  BY DEF Init, ShownHasTask, Shown
<1>2. TelescopeInv /\ ShownHasTask /\ [Next]_vars => ShownHasTask'
  BY ShownHasTaskStep
<1>3. TelescopeInv /\ ShownHasTask => RestingTelescopeListens
  <2>1. ASSUME TelescopeInv, status \in {"parking", "initializing"}
        PROVE  Shown(status)
    BY <2>1 DEF TelescopeInv, StatusAgrees, Combine, Shown, Interfaces
  <2>2. QED
    BY <2>1 DEF ShownHasTask, Parker, Initializer, AtRest, RestingTelescopeListens
<1>4. QED
  BY <1>1, <1>2, <1>3, TelescopeInvariant, PTL DEF Spec

-----------------------------------------------------------------------------

(* What the handlers, the weather and the refresh do to the lock is what   *)
(* LockWithAbort does: the telescope implements it.                        *)
THEOREM TelescopeUsesLock == Spec => LockSpec
<1>1. Init => LockInit
  BY DEF Init
<1>2. [Next]_vars => [\E t \in Task : LockStep(t)]_lockVars
  BY StepUsesLock
<1>3. QED
  BY <1>1, <1>2, PTL DEF Spec, LockSpec

(* The line of the handlers that wait for the telescope stays a line, and  *)
(* they are served in the order in which they came.                        *)
THEOREM TelescopeServesInOrder == Spec => []LineIsOrdered /\ NobodyIsOvertaken
<1>1. QED
  BY TelescopeUsesLock, LockServesInOrder, LockSafety, PTL

(* The mount gets a destination only from the task that holds the lock, in *)
(* a move or in the refresh of a body that is tracked at that moment: a     *)
(* body that a move has made the telescope forget is not returned to.      *)
DestinationHasOwner ==
  ~dest /\ dest' =>
    \E t \in Task : /\ stage[t] = "in"
                    /\ \/ op[t] \in Moves /\ ~lost
                       \/ t = Refresh /\ pc[t] = "refreshing" /\ tracked

LEMMA StepOnDestination ==
  ASSUME TelescopeInv, [Next]_vars
  PROVE  DestinationHasOwner
<1> USE DEF DestinationHasOwner
<1>1. ASSUME NEW t \in Task, Slew(t)
      PROVE  DestinationHasOwner
  BY <1>1 DEF Slew, TelescopeInv, LockAgrees, InBlock, InBlockAwaits
<1>2. ASSUME NEW t \in Task, TickDispatched(t)
      PROVE  DestinationHasOwner
  BY <1>2 DEF TickDispatched, TelescopeInv, LockAgrees, InBlock, InBlockAwaits, TickHasBody
<1>3. ASSUME NEW t \in Task,
             \/ Call(t) \/ StopAnnounced(t) \/ RequestLock(t) \/ GetLock(t) \/ GiveUp(t) \/ AwaitFails(t)
             \/ Announced(t) \/ SlewRaises(t) \/ SlewEnds(t) \/ DomeFollowed(t) \/ ParkStarts(t)
             \/ ParkDone(t) \/ Return(t) \/ TrackMoved(t) \/ BodyResolved(t) \/ TrackUnmoved(t)
             \/ InitDone(t) \/ FilterDone(t)
      PROVE  dest' => dest
  BY <1>3 DEF Call, BeginMove, BeginTrack, BeginPark, BeginStop, BeginInit, BeginFilter, StopAnnounced,
    RequestLock, GetLock, GiveUp, AwaitFails, Announced, SlewRaises, SlewEnds, DomeFollowed, ParkStarts,
    ParkDone, Return, TrackMoved, BodyResolved, TrackUnmoved, InitDone, FilterDone, mountVars
<1>4. CASE Simulator \/ WeatherParks \/ RefreshTick \/ UNCHANGED vars
  BY <1>4 DEF Simulator, SimReaches, SimArrives, WeatherParks, RefreshTick, mountVars, vars
<1>5. QED
  BY <1>1, <1>2, <1>3, <1>4 DEF Next, Progress

THEOREM MountMovesForItsOwner == Spec => [][DestinationHasOwner]_vars
<1>1. TelescopeInv /\ [Next]_vars => DestinationHasOwner
  BY StepOnDestination
<1>2. QED
  BY <1>1, TelescopeInvariant, PTL DEF Spec

-----------------------------------------------------------------------------

InTheBlock == {t \in Task : InBlock(t)}

(* A step of the telescope leaves the block alone, or is one task's         *)
(* entering an empty block, or the only task's leaving it.                 *)
LEMMA StepOnBlock ==
  ASSUME TelescopeInv, [Next]_vars
  PROVE  [Motion!Next]_InTheBlock
<1> DEFINE Enters(t) == InTheBlock = {} /\ InTheBlock' = {t}
           Leaves(t) == InTheBlock = {t} /\ InTheBlock' = {}
<1> USE DEF TelescopeInv, TypeOK, LockTypeOK, LockAgrees, InTheBlock, InBlock, InBlockAwaits, Goto, Finish
<1>1. ASSUME NEW t \in Task, GetLock(t)
      PROVE  Enters(t)
  BY <1>1 DEF GetLock, Acquire, Take, Grant, Holders, ChangeStatus
<1>2. ASSUME NEW t \in Task, Return(t) \/ TrackMoved(t) \/ SlewRaises(t)
      PROVE  Leaves(t)
  BY <1>2, InBlockAlone DEF Return, TrackMoved, SlewRaises
<1>3. ASSUME NEW t \in Task, AwaitFails(t)
      PROVE  Leaves(t) \/ UNCHANGED InTheBlock
  BY <1>3, InBlockAlone DEF AwaitFails, Failing
<1>4. ASSUME NEW t \in Task,
             \/ Call(t) \/ StopAnnounced(t) \/ RequestLock(t) \/ GiveUp(t)
             \/ BodyResolved(t) \/ TrackUnmoved(t) \/ InitDone(t) \/ FilterDone(t)
      PROVE  UNCHANGED InTheBlock
  BY <1>4 DEF Call, BeginMove, BeginTrack, BeginPark, BeginStop, BeginInit, BeginFilter, ChangeStatus,
    StopAnnounced, RequestLock, GiveUp, BodyResolved, TrackUnmoved, InitDone, FilterDone, taskVars
<1>5. ASSUME NEW t \in Task,
             \/ Announced(t) \/ Slew(t) \/ SlewEnds(t) \/ DomeFollowed(t)
             \/ ParkStarts(t) \/ ParkDone(t) \/ TickDispatched(t)
      PROVE  UNCHANGED InTheBlock
  BY <1>5 DEF Announced, Slew, Depart, SlewEnds, DomeFollowed, ParkStarts, ParkDone, TickDispatched,
    ChangeStatus
<1>6. CASE WeatherParks \/ RefreshTick
  BY <1>6, TelescopeAssumption DEF WeatherParks, BeginPark, RefreshTick
<1>7. CASE Simulator \/ UNCHANGED vars
  BY <1>7 DEF Simulator, SimReaches, SimArrives, vars, taskVars
<1>8. QED
  BY <1>1, <1>2, <1>3, <1>4, <1>5, <1>6, <1>7 DEF Next, Progress, Motion!Next, Motion!Begin, Motion!End

(* The telescope implements exclusive use of its mount.                    *)
THEOREM TelescopeImplementsExclusiveUse == Spec => OneMotionAtATime
<1>1. Init => Motion!Init
  BY DEF Init, InBlock, InBlockAwaits, Motion!Init
<1>2. TelescopeInv /\ [Next]_vars => [Motion!Next]_InTheBlock
  BY StepOnBlock
<1>3. QED
  BY <1>1, <1>2, TelescopeInvariant, PTL DEF Spec, OneMotionAtATime, Motion!Spec, InTheBlock
=============================================================================
