----------------------------- MODULE Mastermind -----------------------------
(***************************************************************************)
(* The robotic system at work: Mastermind runs the observations of a        *)
(* schedule that is kept by a server.  Its BackendObservationArchive holds  *)
(* a copy of what is still to do; a background task downloads it again when *)
(* the server's marker of the last change has moved.  Mastermind takes an   *)
(* observation from the copy, changes the state of that very object and     *)
(* sends it to the server (PUT), before the task runs and after it.         *)
(*                                                                         *)
(* The scheduler adds observations and cancels those that lie in the        *)
(* future.  An exception outside of the task ends Mastermind's loop, which  *)
(* BackgroundTask starts again; the whole module may be restarted, too.     *)
(***************************************************************************)
EXTENDS Naturals

CONSTANTS
  Observations,      \* the observations that the scheduler may add
  None,              \* no observation
  MaxFaults          \* bound: failures in a behaviour

ASSUME MastermindAssumption == None \notin Observations /\ MaxFaults \in Nat

VARIABLES
  schedule,          \* the server: the state of every observation
  window,            \* where an observation's window lies: future, due or over
  moved,             \* the server's marker is beyond _last_marker
  poll, answer,      \* where the poll of the archive is, and what was downloaded
  cache,             \* _observations, the archive's copy
  running,           \* _running
  pc,                \* where Mastermind's loop is
  held, state,       \* the observation that it has taken, and its state
  linked,            \* that object is the one in the archive's copy
  failed, faults     \* history: the loop was restarted; what the bound counts

serverVars  == <<schedule, window>>
archiveVars == <<moved, poll, answer, cache>>
loopVars    == <<pc, held, state, linked>>
vars == <<serverVars, archiveVars, loopVars, running, failed, faults>>

States == {"pending", "in_progress", "completed", "failed", "canceled", "window_expired"}

Absent == "absent"   \* not in the schedule, not in the copy

(* Where the loop can be suspended.                                        *)
Awaits == {"checking", "announcing", "starting", "running", "finishing", "ending", "failing"}

Contents(s) == [Observations -> s \cup {Absent}]

Nothing == [o \in Observations |-> Absent]

TypeOK ==
  /\ schedule \in Contents(States)
  /\ window \in [Observations -> {"future", "due", "over"}]
  /\ moved \in BOOLEAN
  /\ poll \in {"asleep", "asking", "answered"}
  /\ answer \in Contents({"pending", "in_progress"})
  /\ cache \in Contents({"pending", "in_progress", "completed", "failed"})
  /\ running \in BOOLEAN
  /\ pc \in {"idle"} \cup Awaits
  /\ held \in Observations \cup {None}
  /\ (pc = "idle") = (held = None)
  /\ state \in {"pending", "in_progress", "completed", "failed"}
  /\ linked \in BOOLEAN /\ failed \in BOOLEAN
  /\ faults \in 0..MaxFaults

(* open: the loop runs, nothing has been downloaded yet.                   *)
Init ==
  /\ schedule = Nothing
  /\ window = [o \in Observations |-> "future"]
  /\ moved = TRUE /\ poll = "asleep"
  /\ answer = Nothing /\ cache = Nothing
  /\ running = TRUE
  /\ pc = "idle" /\ held = None /\ state = "pending" /\ linked = FALSE
  /\ failed = FALSE /\ faults = 0

-----------------------------------------------------------------------------

(* The server changes the state of o; every change moves the marker.       *)
Store(o, s) ==
  /\ schedule' = [schedule EXCEPT ![o] = s]
  /\ moved' = TRUE

(* add_observations, called by the scheduler.                              *)
AddObservation(o) ==
  /\ schedule[o] = Absent /\ window[o] = "future"
  /\ Store(o, "pending")
  /\ UNCHANGED <<window, poll, answer, cache, loopVars, running, failed, faults>>

(* clear_schedule: the scheduler starts anew some time ahead of now.       *)
CancelObservation(o) ==
  /\ schedule[o] = "pending" /\ window[o] = "future"
  /\ Store(o, "canceled")
  /\ UNCHANGED <<window, poll, answer, cache, loopVars, running, failed, faults>>

WindowBegins(o) ==
  /\ window[o] = "future"
  /\ window' = [window EXCEPT ![o] = "due"]
  /\ UNCHANGED <<schedule, archiveVars, loopVars, running, failed, faults>>

WindowEnds(o) ==
  /\ window[o] = "due"
  /\ window' = [window EXCEPT ![o] = "over"]
  /\ UNCHANGED <<schedule, archiveVars, loopVars, running, failed, faults>>

(* mark_window_expired: some time after its window the server drops what   *)
(* is still pending.                                                       *)
MarkExpired(o) ==
  /\ schedule[o] = "pending" /\ window[o] = "over"
  /\ Store(o, "window_expired")
  /\ UNCHANGED <<window, poll, answer, cache, loopVars, running, failed, faults>>

-----------------------------------------------------------------------------

(* _poll: the marker has moved.                                            *)
PollMarker ==
  /\ poll = "asleep" /\ moved
  /\ poll' = "asking" /\ moved' = FALSE
  /\ UNCHANGED <<serverVars, answer, cache, loopVars, running, failed, faults>>

(* The server answers: the observations that are pending or in progress,    *)
(* without those that end before the time of the question (end_after), the *)
(* pending ones whose window is over and those in progress that take       *)
(* longer than expected.                                                   *)
ServerAnswers ==
  /\ poll = "asking"
  /\ poll' = "answered"
  /\ \E ended \in SUBSET {o \in Observations : schedule[o] = "in_progress" \/ window[o] = "over"} :
       answer' = [o \in Observations |->
         IF schedule[o] \in {"pending", "in_progress"} /\ o \notin ended THEN schedule[o] ELSE Absent]
  /\ UNCHANGED <<serverVars, moved, cache, loopVars, running, failed, faults>>

(* Wrong on purpose: remembers the marker of now, not that of the question. *)
PollAppliesLate ==
  /\ poll = "answered"
  /\ poll' = "asleep" /\ moved' = FALSE
  /\ cache' = answer /\ answer' = Nothing
  /\ linked' = (linked /\ cache = answer)
  /\ UNCHANGED <<serverVars, pc, held, state, running, failed, faults>>

(* _update replaces the copy by new objects if there is any difference.    *)
PollApplies ==
  /\ poll = "answered"
  /\ poll' = "asleep"
  /\ cache' = answer /\ answer' = Nothing
  /\ linked' = (linked /\ cache = answer)
  /\ UNCHANGED <<serverVars, moved, pc, held, state, running, failed, faults>>

PollFailsForgotten ==   \* wrong on purpose: remembers the marker all the same
  /\ poll # "asleep"
  /\ faults < MaxFaults /\ faults' = faults + 1
  /\ poll' = "asleep" /\ answer' = Nothing
  /\ UNCHANGED <<serverVars, moved, cache, loopVars, running, failed>>

(* The request raises: _last_marker is not updated.                        *)
PollFails ==
  /\ poll # "asleep"
  /\ faults < MaxFaults /\ faults' = faults + 1
  /\ poll' = "asleep" /\ answer' = Nothing /\ moved' = TRUE
  /\ UNCHANGED <<serverVars, cache, loopVars, running, failed>>

-----------------------------------------------------------------------------

Goto(await) == pc' = await

BeIdleHolding == Goto("idle") /\ UNCHANGED <<held, state, linked>>   \* wrong on purpose

(* The loop begins its next turn, and lets go of the object that it held.  *)
BeIdle == Goto("idle") /\ held' = None /\ state' = "pending" /\ linked' = FALSE

(* The state of the object is set, also in the copy if it is still there.  *)
SetState(s) ==
  /\ state' = s
  /\ cache' = IF linked THEN [cache EXCEPT ![held] = s] ELSE cache

(* get_next_observation.                                                   *)
TakeObservation(o) ==
  /\ pc = "idle" /\ running
  /\ cache[o] = "pending" /\ window[o] = "due"
  /\ Goto("checking")
  /\ held' = o /\ state' = "pending" /\ linked' = TRUE
  /\ UNCHANGED <<serverVars, archiveVars, running, failed, faults>>

(* can_run says no, or it is too late to start.                            *)
CannotRun ==
  /\ pc = "checking"
  /\ BeIdle
  /\ UNCHANGED <<serverVars, archiveVars, running, failed, faults>>

(* The task is remembered and numbered, TaskStartedEvent is sent ...       *)
CanRun ==
  /\ pc = "checking"
  /\ Goto("announcing")
  /\ UNCHANGED <<serverVars, archiveVars, held, state, linked, running, failed, faults>>

StartAnnounced ==
  /\ pc = "announcing"
  /\ SetState("in_progress")
  /\ Goto("starting")
  /\ UNCHANGED <<serverVars, moved, poll, answer, held, linked, running, failed, faults>>

(* ... and the server gets the new state.                                  *)
StartStored ==
  /\ pc = "starting"
  /\ Store(held, state)
  /\ Goto("running")
  /\ UNCHANGED <<window, poll, answer, cache, held, state, linked, running, failed, faults>>

(* Wrong on purpose: a failure of the task is not stored.                  *)
TaskFailsUnstored ==
  /\ pc = "running"
  /\ SetState("failed")
  /\ Goto("failing")
  /\ UNCHANGED <<serverVars, moved, poll, answer, held, linked, running, failed, faults>>

(* run_task raises, whatever the exception.                                *)
TaskFails ==
  /\ pc = "running"
  /\ SetState("failed")
  /\ Goto("ending")
  /\ UNCHANGED <<serverVars, moved, poll, answer, held, linked, running, failed, faults>>

TaskSucceeds ==
  /\ pc = "running"
  /\ Goto("finishing")
  /\ UNCHANGED <<serverVars, archiveVars, held, state, linked, running, failed, faults>>

EndAnnouncedUnset ==   \* wrong on purpose: sends the state that the server knows
  /\ pc = "finishing"
  /\ Goto("ending")
  /\ UNCHANGED <<serverVars, archiveVars, held, state, linked, running, failed, faults>>

(* TaskFinishedEvent has been sent.                                        *)
EndAnnounced ==
  /\ pc = "finishing"
  /\ SetState("completed")
  /\ Goto("ending")
  /\ UNCHANGED <<serverVars, moved, poll, answer, held, linked, running, failed, faults>>

(* The server gets the final state; a failure is announced after that.     *)
EndStored ==
  /\ pc = "ending"
  /\ Store(held, state)
  /\ IF state = "failed" THEN Goto("failing") /\ UNCHANGED <<held, state, linked>> ELSE BeIdle
  /\ UNCHANGED <<window, poll, answer, cache, running, failed, faults>>

FailureAnnounced ==
  /\ pc = "failing"
  /\ BeIdle
  /\ UNCHANGED <<serverVars, archiveVars, running, failed, faults>>

-----------------------------------------------------------------------------

(* start and stop: a task that runs is not touched.                        *)
StartStop ==
  /\ running' = ~running
  /\ UNCHANGED <<serverVars, archiveVars, loopVars, failed, faults>>

(* A request or an event raises after its last attempt, where the loop does *)
(* not expect it; the request may have reached the server.  BackgroundTask  *)
(* starts the loop again.                                                  *)
LoopFails ==
  /\ pc \notin {"idle", "running"}
  /\ faults < MaxFaults /\ faults' = faults + 1
  /\ failed' = TRUE
  /\ \/ UNCHANGED <<schedule, moved>>
     \/ pc \in {"starting", "ending"} /\ Store(held, state)
  /\ BeIdle
  /\ UNCHANGED <<window, poll, answer, cache, running>>

(* The module ends and is started again: its copy is lost.                 *)
Restart ==
  /\ faults < MaxFaults /\ faults' = faults + 1
  /\ failed' = TRUE
  /\ moved' = TRUE /\ poll' = "asleep"
  /\ cache' = Nothing /\ answer' = Nothing
  /\ running' = TRUE
  /\ BeIdle
  /\ UNCHANGED serverVars

-----------------------------------------------------------------------------

Scheduling ==
  \E o \in Observations :
    \/ AddObservation(o) \/ CancelObservation(o)
    \/ WindowBegins(o) \/ WindowEnds(o) \/ MarkExpired(o)

Polling == PollMarker \/ ServerAnswers \/ PollApplies

LoopStep ==
  \/ CannotRun \/ CanRun \/ StartAnnounced \/ StartStored
  \/ TaskFails \/ TaskSucceeds \/ EndAnnounced \/ EndStored \/ FailureAnnounced

Next ==
  \/ Scheduling \/ Polling \/ PollFails
  \/ \E o \in Observations : TakeObservation(o)
  \/ LoopStep \/ StartStop \/ LoopFails \/ Restart

Spec == Init /\ [][Next]_vars

(* The archive polls every five seconds; requests are answered or fail, and *)
(* tasks end.  Nothing obliges the loop to find an observation.            *)
FairSpec == Spec /\ WF_vars(Polling) /\ WF_vars(LoopStep)

-----------------------------------------------------------------------------

Pending(contents) == {o \in Observations : contents[o] = "pending"}

(* What a copy shows as pending is pending, and it lacks nothing pending   *)
(* that could still be taken.                                              *)
ShowsPending(contents) ==
  /\ Pending(contents) \subseteq Pending(schedule)
  /\ \A o \in Pending(schedule) \ Pending(contents) : window[o] = "over"

(* The observations that are in progress for the server.  After a failure  *)
(* of the loop or a restart nobody is left to end the one from before.     *)
InProgress == {o \in Observations : schedule[o] = "in_progress"}

(* The poller never goes to sleep with a wrong picture: unless the marker   *)
(* tells it to ask again, what its copy says is pending is what the server *)
(* says, except for the one that Mastermind is about to start and for what *)
(* has run out and waits to be marked.  A request to start that fails      *)
(* breaks this: see `failed`.                                              *)
CacheIsFresh ==
  ~failed /\ poll = "asleep" /\ ~moved /\ pc # "starting" => ShowsPending(cache)

(* For the server at most one observation is in progress at any time, and   *)
(* a new one only starts after the state of the previous one was stored,   *)
(* whether its task succeeded or not.                                      *)
Telescope == INSTANCE ExclusiveUse
  WITH User <- Observations, using <- IF failed THEN {} ELSE InProgress

OneObservationAtATime == Telescope!Spec

(* The copy catches up: once nothing changes any more it shows what is      *)
(* pending, also after polls that failed in between.                       *)
CacheCatchesUp == <>[](failed \/ ShowsPending(cache))

(* What was started ends: the server gets to know about it.                *)
StartedEnds ==
  \A o \in Observations : schedule[o] = "in_progress" ~> failed \/ schedule[o] # "in_progress"
=============================================================================
