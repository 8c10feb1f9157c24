-------------------------- MODULE MastermindProofs --------------------------
(***************************************************************************)
(* Theorems about Mastermind, for any number of observations.  The          *)
(* argument: the loop's own view of the observation it holds agrees with    *)
(* the server's once a request was answered, and every change on the server *)
(* that a download may have missed moves the marker.                       *)
(***************************************************************************)
EXTENDS Mastermind, TLAPS

(* What the loop knows of its observation at each await.                   *)
StateFollowsLoop ==
  /\ pc \in {"checking", "announcing"} => state = "pending"
  /\ pc \in {"starting", "running", "finishing"} => state = "in_progress"
  /\ pc = "ending" => state \in {"completed", "failed"}

(* The object in the copy is the one that the loop changes.                *)
LinkedAgrees == linked => held # None /\ cache[held] = state

InProgressIsHeld ==
  \A o \in Observations :
    schedule[o] = "in_progress" => o = held /\ pc \in {"running", "finishing", "ending"}

AnswerIsFresh == poll = "answered" /\ ~moved => ShowsPending(answer)

LoopInv == TypeOK /\ StateFollowsLoop /\ LinkedAgrees

MastermindInv == LoopInv /\ (~failed => InProgressIsHeld /\ AnswerIsFresh) /\ CacheIsFresh

-----------------------------------------------------------------------------

LEMMA MastermindInit ==
  ASSUME Init
  PROVE  MastermindInv
<1>1. TypeOK
  <2>1. moved \in BOOLEAN /\ running \in BOOLEAN /\ linked \in BOOLEAN /\ failed \in BOOLEAN
    BY ZenonT(10) DEF Init
  <2>2. QED
    BY <2>1, MastermindAssumption DEF Init, TypeOK, Contents, Nothing, Absent
<1>2. QED
  BY <1>1 DEF Init, MastermindInv, LoopInv, StateFollowsLoop, LinkedAgrees, InProgressIsHeld,
    AnswerIsFresh, CacheIsFresh, ShowsPending, Pending, Nothing, Absent

(* The flags stay flags.                                                   *)
LEMMA FlagsStep ==
  ASSUME TypeOK, [Next]_vars
  PROVE  moved' \in BOOLEAN /\ running' \in BOOLEAN /\ linked' \in BOOLEAN /\ failed' \in BOOLEAN
<1> DEFINE Kept ==
      /\ moved' = FALSE \/ moved' = TRUE \/ moved' = moved
      /\ running' = FALSE \/ running' = TRUE \/ running' = running
      /\ linked' = FALSE \/ linked' = TRUE \/ linked' = linked
      /\ failed' = FALSE \/ failed' = TRUE \/ failed' = failed
<1> USE DEF serverVars, archiveVars, loopVars, Store, BeIdle
<1>1. ASSUME Scheduling \/ PollMarker \/ ServerAnswers \/ PollFails
      PROVE  Kept
  BY <1>1 DEF Scheduling, AddObservation, CancelObservation, WindowBegins, WindowEnds, MarkExpired,
    PollMarker, ServerAnswers, PollFails
<1>2. ASSUME PollApplies
      PROVE  Kept
  <2>1. linked' = linked \/ linked' = FALSE
    BY <1>2 DEF PollApplies, TypeOK
  <2>2. QED
    BY <1>2, <2>1 DEF PollApplies
<1>3. ASSUME (\E o \in Observations : TakeObservation(o)) \/ LoopStep
      PROVE  Kept
  BY <1>3 DEF TakeObservation, LoopStep, CannotRun, CanRun, StartAnnounced, StartStored,
    TaskFails, TaskSucceeds, EndAnnounced, EndStored, FailureAnnounced
<1>4. ASSUME StartStop
      PROVE  Kept
  <2>1. running' = FALSE \/ running' = TRUE
    BY <1>4 DEF StartStop, TypeOK
  <2>2. QED
    BY <1>4, <2>1 DEF StartStop
<1>5. ASSUME LoopFails \/ Restart
      PROVE  Kept
  BY <1>5 DEF LoopFails, Restart
<1>6. ASSUME UNCHANGED vars
      PROVE  Kept
  BY <1>6 DEF vars
<1>7. Kept
  BY <1>1, <1>2, <1>3, <1>4, <1>5, <1>6 DEF Next, Polling
<1>8. QED
  BY <1>7, ZenonT(20) DEF TypeOK

(* What the loop holds, and how it relates to the archive's copy.          *)
LEMMA LoopInvStep ==
  ASSUME LoopInv, [Next]_vars
  PROVE  LoopInv'
<1> DEFINE Kept ==
      /\ schedule' \in Contents(States)
      /\ window' \in [Observations -> {"future", "due", "over"}]
      /\ poll' \in {"asleep", "asking", "answered"}
      /\ answer' \in Contents({"pending", "in_progress"})
      /\ cache' \in Contents({"pending", "in_progress", "completed", "failed"})
      /\ pc' \in {"idle"} \cup Awaits
      /\ held' \in Observations \cup {None}
      /\ (pc' = "idle") = (held' = None)
      /\ state' \in {"pending", "in_progress", "completed", "failed"}
      /\ faults' \in 0..MaxFaults
      /\ StateFollowsLoop' /\ LinkedAgrees'
<1> USE MastermindAssumption
    DEF LoopInv, TypeOK, Contents, States, Awaits, Absent, Nothing, StateFollowsLoop, LinkedAgrees,
        serverVars, archiveVars, loopVars, Store, BeIdle, Goto, SetState
<1>1. ASSUME NEW o \in Observations,
             \/ AddObservation(o) \/ CancelObservation(o)
             \/ WindowBegins(o) \/ WindowEnds(o) \/ MarkExpired(o)
      PROVE  Kept
  BY <1>1 DEF AddObservation, CancelObservation, WindowBegins, WindowEnds, MarkExpired
<1>2. ASSUME PollMarker \/ ServerAnswers \/ PollFails
      PROVE  Kept
  BY <1>2 DEF PollMarker, ServerAnswers, PollFails
<1>3. ASSUME PollApplies
      PROVE  Kept
  BY <1>3 DEF PollApplies
<1>4. ASSUME NEW o \in Observations, TakeObservation(o)
      PROVE  Kept
  BY <1>4 DEF TakeObservation
<1>5. ASSUME CannotRun \/ CanRun \/ StartAnnounced \/ StartStored
      PROVE  Kept
  BY <1>5 DEF CannotRun, CanRun, StartAnnounced, StartStored
<1>6. ASSUME TaskFails \/ TaskSucceeds \/ EndAnnounced \/ EndStored \/ FailureAnnounced
      PROVE  Kept
  BY <1>6 DEF TaskFails, TaskSucceeds, EndAnnounced, EndStored, FailureAnnounced
<1>7. ASSUME StartStop
      PROVE  Kept
  BY <1>7 DEF StartStop
<1>8. ASSUME LoopFails
      PROVE  Kept
  BY <1>8 DEF LoopFails
<1>9. ASSUME Restart
      PROVE  Kept
  BY <1>9 DEF Restart
<1>10. ASSUME UNCHANGED vars
      PROVE  Kept
  BY <1>10 DEF vars
<1>11. Kept
  BY <1>1, <1>2, <1>3, <1>4, <1>5, <1>6, <1>7, <1>8, <1>9, <1>10 DEF Next, Scheduling, Polling, LoopStep
<1>12. QED
  BY <1>11, FlagsStep DEF LoopInv, TypeOK

(* A failure of the loop is remembered.                                    *)
LEMMA FailedStays ==
  ASSUME [Next]_vars, failed
  PROVE  failed'
<1> USE DEF loopVars, archiveVars, serverVars
<1>1. ASSUME Scheduling \/ Polling \/ PollFails
      PROVE  failed'
  BY <1>1 DEF Scheduling, AddObservation, CancelObservation, WindowBegins, WindowEnds, MarkExpired, Polling,
    PollMarker, ServerAnswers, PollApplies, PollFails
<1>2. ASSUME (\E o \in Observations : TakeObservation(o)) \/ LoopStep
      PROVE  failed'
  BY <1>2 DEF TakeObservation, LoopStep, CannotRun, CanRun, StartAnnounced, StartStored,
    TaskFails, TaskSucceeds, EndAnnounced, EndStored, FailureAnnounced
<1>3. ASSUME StartStop \/ LoopFails \/ Restart \/ UNCHANGED vars
      PROVE  failed'
  BY <1>3 DEF StartStop, LoopFails, Restart, vars
<1>4. QED
  BY <1>1, <1>2, <1>3 DEF Next

(* As long as the loop has not failed only the held observation is in      *)
(* progress, and what the archive knows is up to date or the marker says   *)
(* that it is not.                                                         *)
LEMMA FreshInvStep ==
  ASSUME MastermindInv, [Next]_vars, ~failed'
  PROVE  InProgressIsHeld' /\ AnswerIsFresh' /\ CacheIsFresh'
<1> DEFINE Kept == InProgressIsHeld' /\ AnswerIsFresh' /\ CacheIsFresh'
<1>0. ~failed
  BY FailedStays
<1> USE <1>0, MastermindAssumption
    DEF MastermindInv, LoopInv, TypeOK, Contents, Absent, StateFollowsLoop, LinkedAgrees,
        InProgressIsHeld, AnswerIsFresh, CacheIsFresh, ShowsPending, Pending,
        serverVars, archiveVars, loopVars, Store, BeIdle, Goto, SetState
<1>1. ASSUME NEW o \in Observations,
             \/ AddObservation(o) \/ CancelObservation(o)
             \/ WindowBegins(o) \/ WindowEnds(o) \/ MarkExpired(o)
      PROVE  Kept
  BY <1>1 DEF AddObservation, CancelObservation, WindowBegins, WindowEnds, MarkExpired
<1>2. ASSUME PollMarker \/ ServerAnswers \/ PollFails
      PROVE  Kept
  BY <1>2 DEF PollMarker, ServerAnswers, PollFails
<1>3. ASSUME PollApplies
      PROVE  Kept
  BY <1>3 DEF PollApplies
<1>4. ASSUME NEW o \in Observations, TakeObservation(o)
      PROVE  Kept
  BY <1>4 DEF TakeObservation
<1>5. ASSUME CannotRun \/ CanRun \/ StartAnnounced \/ StartStored
      PROVE  Kept
  BY <1>5 DEF CannotRun, CanRun, StartAnnounced, StartStored
<1>6. ASSUME TaskFails \/ TaskSucceeds \/ EndAnnounced \/ EndStored \/ FailureAnnounced
      PROVE  Kept
  BY <1>6 DEF TaskFails, TaskSucceeds, EndAnnounced, EndStored, FailureAnnounced
<1>7. ASSUME StartStop
      PROVE  Kept
  BY <1>7 DEF StartStop
<1>8. ASSUME UNCHANGED vars
      PROVE  Kept
  BY <1>8 DEF vars
<1>9. ~LoopFails /\ ~Restart
  BY ZenonT(20) DEF LoopFails, Restart
<1>10. QED
  BY <1>1, <1>2, <1>3, <1>4, <1>5, <1>6, <1>7, <1>8, <1>9 DEF Next, Scheduling, Polling, LoopStep

(* The inductive invariant of Mastermind.                                  *)
THEOREM MastermindInvariant == Spec => []MastermindInv
<1>1. MastermindInv /\ [Next]_vars => MastermindInv'
  <2> SUFFICES ASSUME MastermindInv, [Next]_vars
               PROVE  MastermindInv'
    OBVIOUS
  <2>1. LoopInv'
    BY LoopInvStep DEF MastermindInv
  <2>2. ~failed' => InProgressIsHeld' /\ AnswerIsFresh' /\ CacheIsFresh'
    BY FreshInvStep
  <2>3. failed' => CacheIsFresh'
    BY DEF CacheIsFresh
  <2>4. QED
    BY <2>1, <2>2, <2>3 DEF MastermindInv
<1>2. QED
  BY <1>1, MastermindInit, PTL DEF Spec

(* Types: what the loop holds, and what schedule and copy may contain.     *)
THEOREM MastermindTypes == Spec => []TypeOK
<1>1. MastermindInv => TypeOK
  BY DEF MastermindInv, LoopInv
<1>2. QED
  BY <1>1, MastermindInvariant, PTL

(* The poller never goes to sleep with a wrong picture of what is pending.  *)
THEOREM SleepingCacheIsFresh == Spec => []CacheIsFresh
<1>1. MastermindInv => CacheIsFresh
  BY DEF MastermindInv
<1>2. QED
  BY <1>1, MastermindInvariant, PTL

(* What is in progress for the server is what the loop has started and not  *)
(* yet ended: the two agree at every await, as long as no request of the    *)
(* loop has failed and the module has not been restarted.  (The safety half *)
(* of StartedEnds: an observation in progress has somebody to end it.)      *)
ProgressIsTheLoops ==
  ~failed => InProgress = IF pc \in {"running", "finishing", "ending"} THEN {held} ELSE {}

(* The loop only ever holds, and the archive only ever shows, what is in    *)
(* the schedule; and once the start of an observation has been stored it is *)
(* in progress there until its end is stored: neither the scheduler nor the *)
(* end of its window takes it away.                                        *)
ScheduleInv ==
  /\ \A o \in Observations :
       cache[o] # Absent \/ answer[o] # Absent \/ o = held => schedule[o] # Absent
  /\ pc \in {"running", "finishing", "ending"} => schedule[held] = "in_progress"

(* What may become of an observation.  It may be started from any state,    *)
(* because the copy may be stale: also when it has just expired or been     *)
(* canceled, or has ended before.  But only the loop that holds it starts   *)
(* it or ends it, and nothing in progress is canceled or expires.           *)
ObservationLives ==
  \A o \in Observations : schedule'[o] # schedule[o] =>
    \/ schedule[o] = Absent /\ schedule'[o] = "pending"
    \/ schedule[o] = "pending" /\ schedule'[o] \in {"canceled", "window_expired"}
    \/ o = held /\ schedule[o] # Absent /\ schedule'[o] = "in_progress"
    \/ o = held /\ schedule[o] = "in_progress" /\ schedule'[o] \in {"completed", "failed"}

(* With no download due, what the loop takes is pending for the server, too. *)
TakesPending ==
  \A o \in Observations :
    ~failed /\ poll = "asleep" /\ ~moved /\ held # o /\ held' = o => schedule[o] = "pending"

LEMMA ScheduleStep ==
  ASSUME LoopInv, ScheduleInv, [Next]_vars
  PROVE  ScheduleInv' /\ ObservationLives
<1> DEFINE Kept == ScheduleInv' /\ ObservationLives
<1> USE MastermindAssumption
    DEF LoopInv, TypeOK, Contents, Awaits, Absent, Nothing, StateFollowsLoop, LinkedAgrees,
        ScheduleInv, ObservationLives,
        serverVars, archiveVars, loopVars, Store, BeIdle, Goto, SetState
<1>1. ASSUME NEW o \in Observations,
             \/ AddObservation(o) \/ CancelObservation(o)
             \/ WindowBegins(o) \/ WindowEnds(o) \/ MarkExpired(o)
      PROVE  Kept
  BY <1>1 DEF AddObservation, CancelObservation, WindowBegins, WindowEnds, MarkExpired
<1>2. ASSUME PollMarker \/ ServerAnswers \/ PollApplies \/ PollFails
      PROVE  Kept
  BY <1>2 DEF PollMarker, ServerAnswers, PollApplies, PollFails
<1>3. ASSUME NEW o \in Observations, TakeObservation(o)
      PROVE  Kept
  BY <1>3 DEF TakeObservation
<1>4. ASSUME CannotRun \/ CanRun \/ StartAnnounced \/ StartStored
      PROVE  Kept
  BY <1>4 DEF CannotRun, CanRun, StartAnnounced, StartStored
<1>5. ASSUME TaskFails \/ TaskSucceeds \/ EndAnnounced \/ EndStored \/ FailureAnnounced
      PROVE  Kept
  BY <1>5 DEF TaskFails, TaskSucceeds, EndAnnounced, EndStored, FailureAnnounced
<1>6. ASSUME LoopFails
      PROVE  Kept
  BY <1>6 DEF LoopFails
<1>7. ASSUME Restart
      PROVE  Kept
  BY <1>7 DEF Restart
<1>8. ASSUME StartStop \/ UNCHANGED vars
      PROVE  Kept
  BY <1>8 DEF StartStop, vars
<1>9. QED
  BY <1>1, <1>2, <1>3, <1>4, <1>5, <1>6, <1>7, <1>8 DEF Next, Scheduling, Polling, LoopStep

LEMMA ScheduleInvariant == Spec => []ScheduleInv
<1>1. Init => ScheduleInv
  BY MastermindAssumption DEF Init, ScheduleInv, Nothing
<1>2. MastermindInv /\ ScheduleInv /\ [Next]_vars => ScheduleInv'
  BY ScheduleStep DEF MastermindInv
<1>3. QED
  BY <1>1, <1>2, MastermindInvariant, PTL DEF Spec

(* For the server exactly that observation is in progress which the loop    *)
(* runs: no start without an end to come, and none ends unannounced.        *)
THEOREM ProgressBelongsToTheLoop == Spec => []ProgressIsTheLoops
<1>1. MastermindInv /\ ScheduleInv => ProgressIsTheLoops
  BY DEF MastermindInv, LoopInv, TypeOK, InProgressIsHeld, ScheduleInv, ProgressIsTheLoops,
    InProgress, Awaits
<1>2. QED
  BY <1>1, MastermindInvariant, ScheduleInvariant, PTL

(* The life of an observation, through any mixture of stale copies, failed  *)
(* requests of the loop and restarts of the module.                        *)
THEOREM ObservationsLiveOrderly == Spec => [][ObservationLives]_vars
<1>1. MastermindInv /\ ScheduleInv /\ [Next]_vars => [ObservationLives]_vars
  BY ScheduleStep DEF MastermindInv
<1>2. QED
  BY <1>1, MastermindInvariant, ScheduleInvariant, PTL DEF Spec

(* A poll that sleeps and a marker that has not moved are enough to take     *)
(* nothing that has been canceled, has expired or has been run before.     *)
THEOREM QuietArchiveOffersPending == Spec => [][TakesPending]_vars
<1>1. MastermindInv /\ [Next]_vars => [TakesPending]_vars
  <2> SUFFICES ASSUME MastermindInv, Next, NEW o \in Observations, ~failed,
                      poll = "asleep", ~moved, held # o, held' = o
               PROVE  schedule[o] = "pending"
    BY DEF TakesPending
  <2>1. TakeObservation(o)
    BY MastermindAssumption
    DEF Next, Scheduling, Polling, LoopStep, AddObservation, CancelObservation, WindowBegins,
        WindowEnds, MarkExpired, PollMarker, ServerAnswers, PollApplies, PollFails, TakeObservation, CannotRun,
        CanRun, StartAnnounced, StartStored, TaskFails, TaskSucceeds, EndAnnounced, EndStored,
        FailureAnnounced, StartStop, LoopFails, Restart, BeIdle, loopVars, archiveVars
  <2>2. QED
    BY <2>1 DEF TakeObservation, MastermindInv, CacheIsFresh, ShowsPending, Pending
<1>2. QED
  BY <1>1, MastermindInvariant, PTL DEF Spec

-----------------------------------------------------------------------------

Using == IF failed THEN {} ELSE InProgress

(* Only StartStored puts an observation in progress, and none is then.     *)
LEMMA StepOnTelescope ==
  ASSUME MastermindInv, [Next]_vars
  PROVE  \/ UNCHANGED Using
         \/ \E o \in Observations : Using = {} /\ Using' = {o}
         \/ \E o \in Observations : Using = {o} /\ Using' = {}
<1>1. CASE failed'
  <2>1. Using' = {}
    BY <1>1 DEF Using
  <2>2. Using = {} \/ \E o \in Observations : Using = {o}
    BY DEF Using, MastermindInv, InProgressIsHeld, InProgress
  <2>3. QED
    BY <2>1, <2>2
<1>2. CASE ~failed'
  <2>0. ~failed
    BY <1>2, FailedStays
  <2>1. Using = InProgress /\ Using' = InProgress'
    BY <1>2, <2>0 DEF Using
  <2> USE <2>0, MastermindAssumption
      DEF MastermindInv, LoopInv, TypeOK, Contents, Absent, StateFollowsLoop, InProgressIsHeld,
          InProgress, serverVars, archiveVars, loopVars, Store, Goto, Awaits
  <2>2. ASSUME NEW o \in Observations,
               \/ AddObservation(o) \/ CancelObservation(o) \/ WindowBegins(o)
               \/ WindowEnds(o) \/ MarkExpired(o) \/ TakeObservation(o)
        PROVE  UNCHANGED InProgress
    BY <2>2 DEF AddObservation, CancelObservation, WindowBegins, WindowEnds, MarkExpired, TakeObservation
  <2>3. ASSUME PollMarker \/ ServerAnswers \/ PollApplies \/ PollFails \/ StartStop
        PROVE  UNCHANGED InProgress
    BY <2>3 DEF PollMarker, ServerAnswers, PollApplies, PollFails, StartStop
  <2>4. ASSUME \/ CannotRun \/ CanRun \/ StartAnnounced \/ TaskFails
               \/ TaskSucceeds \/ EndAnnounced \/ FailureAnnounced
        PROVE  UNCHANGED InProgress
    BY <2>4 DEF CannotRun, CanRun, StartAnnounced, TaskFails, TaskSucceeds, EndAnnounced, FailureAnnounced
  <2>5. ASSUME StartStored
        PROVE  held \in Observations /\ InProgress = {} /\ InProgress' = {held}
    BY <2>5 DEF StartStored
  <2>6. ASSUME EndStored
        PROVE  /\ held \in Observations /\ InProgress' = {}
               /\ InProgress = {held} \/ InProgress = {}
    BY <2>6 DEF EndStored
  <2>7. ASSUME UNCHANGED vars
        PROVE  UNCHANGED InProgress
    BY <2>7 DEF vars
  <2>8. ~LoopFails /\ ~Restart
    BY <1>2, ZenonT(20) DEF LoopFails, Restart
  <2>9. QED
    BY <2>1, <2>2, <2>3, <2>4, <2>5, <2>6, <2>7, <2>8 DEF Next, Scheduling, Polling, LoopStep
<1>3. QED
  BY <1>1, <1>2

(* The schedule implements exclusive use of the telescope: one observation *)
(* in progress at a time, as long as the loop is not cut off.              *)
THEOREM MastermindImplementsExclusiveUse == Spec => OneObservationAtATime
<1>1. Init => Telescope!Init
  BY DEF Init, InProgress, Nothing, Absent, Telescope!Init
<1>2. MastermindInv /\ [Next]_vars => [Telescope!Next]_Using
  BY StepOnTelescope DEF Using, Telescope!Next, Telescope!Begin, Telescope!End
<1>3. QED
  BY <1>1, <1>2, MastermindInvariant, PTL DEF Spec, OneObservationAtATime, Telescope!Spec, Using
=============================================================================
