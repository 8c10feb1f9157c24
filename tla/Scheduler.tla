----------------------------- MODULE Scheduler ------------------------------
(***************************************************************************)
(* Scheduler with its BackendTaskArchive and a planner.  The archive polls  *)
(* the server's tasks and calls _update_schedule when they have changed;    *)
(* that, run() and the events set _need_update.  A worker looks at it every *)
(* second: it clears the schedule on the server from some time on, has a    *)
(* plan made, submits its first observation at once and the others when    *)
(* the plan is complete, unless something has been requested meanwhile.    *)
(*                                                                         *)
(* Time is a number of slots; an observation takes one or several and may   *)
(* be under way, or still be ahead, when the next round starts.  The        *)
(* planner is free: its observations may overlap, as those of tasks without *)
(* merits may; only the same one is not planned twice.  Of the server it is *)
(* assumed that it serves a request while the client waits for the answer,  *)
(* or never, and that it does not move what it has been given.             *)
(* Scheduler.stop is left out: the worker does not look at _running.       *)
(***************************************************************************)
EXTENDS Naturals, FiniteSets

CONSTANTS
  Task,
  Horizon,           \* bound: the last slot that there is
  EveryUpdate,       \* trigger_on_every_update
  Tries,             \* stop_after_attempt of http_request_with_retries
  MaxPlan,           \* bound: observations in a plan
  MaxRequests,       \* bound: run() and events in a behaviour
  MaxChanges,        \* bound: changes of tasks on the server
  MaxFaults          \* bound: failures, repeated requests and restarts

ASSUME SchedulerAssumption ==
  /\ Horizon \in Nat \ {0}
  /\ EveryUpdate \in BOOLEAN
  /\ Tries \in Nat \ {0} /\ MaxPlan \in Nat
  /\ MaxRequests \in Nat /\ MaxChanges \in Nat /\ MaxFaults \in Nat

VARIABLES
  tasks,             \* the server: the tasks to be scheduled
  moved,             \* its marker is beyond _last_marker
  schedule,          \* the server: observations that are not over
  now,               \* the slot that has begun last
  poll, answer,      \* where the poll of the archive is, and what it got
  known,             \* _tasks of the archive, and of Scheduler
  updated,           \* _initial_update_done
  need,              \* _need_update
  from,              \* _schedule_start
  pc,                \* where _schedule_worker is
  start,             \* where the plan starts
  input, plan,       \* what it is made from, and what has been planned
  try,               \* the attempt at the request that it waits for
  requested,         \* history: requested since the worker began
  ignored,           \* history: an update has left or made need FALSE since
  failed,            \* history: the worker's last round ended in an exception
  requests, changes, faults   \* what the bounds count

serverVars  == <<tasks, moved, schedule, now>>
archiveVars == <<poll, answer, known, updated>>
workerVars  == <<pc, start, input, plan, try, failed>>
counters    == <<requests, changes, faults>>
vars == <<serverVars, archiveVars, need, from, workerVars, requested, ignored, counters>>

(* An observation of a task from its first to its last slot.  History: the  *)
(* start of the round that planned it, and which attempt at which request  *)
(* of the round submitted it.  Submitted twice it is two observations.     *)
Observation ==
  {o \in [first : 1..Horizon, last : 1..Horizon, task : Task,
          since : 1..Horizon, post : {1, 2}, try : 1..Tries] : o.first <= o.last}

(* An observation as attempt n submits it, and as the worker asked for it. *)
Attempt(o, n) == [o EXCEPT !.try = n]
Asked(o) == Attempt(o, 1)

Awaits == {"clearing", "planning", "submitting", "completing"}

TypeOK ==
  /\ tasks \subseteq Task /\ moved \in BOOLEAN
  /\ schedule \subseteq Observation
  /\ now \in 0..Horizon
  /\ poll \in {"asleep", "asking", "answered"}
  /\ answer \subseteq Task /\ known \subseteq Task
  /\ updated \in BOOLEAN /\ need \in BOOLEAN
  /\ from \in 0..Horizon
  /\ pc \in {"sleeping"} \cup Awaits
  /\ start \in 1..(Horizon + 1)
  /\ input \subseteq Task /\ plan \subseteq Observation /\ try \in 1..Tries
  /\ requested \in BOOLEAN /\ ignored \in BOOLEAN /\ failed \in BOOLEAN
  /\ requests \in 0..MaxRequests /\ changes \in 0..MaxChanges /\ faults \in 0..MaxFaults

Init ==
  /\ tasks \in SUBSET Task /\ moved = TRUE
  /\ schedule = {} /\ now = 0
  /\ poll = "asleep" /\ answer = {} /\ known = {} /\ updated = FALSE
  /\ need = FALSE /\ from = 0
  /\ pc = "sleeping" /\ start = 1 /\ input = {} /\ plan = {} /\ try = 1
  /\ requested = FALSE /\ ignored = FALSE /\ failed = FALSE
  /\ requests = 0 /\ changes = 0 /\ faults = 0

-----------------------------------------------------------------------------

(* Somebody adds, removes or edits a task; this moves the marker.          *)
ChangeTasks ==
  /\ changes < MaxChanges /\ changes' = changes + 1
  /\ moved' = TRUE
  /\ \E t \in Task : tasks' \in {tasks, tasks \cup {t}, tasks \ {t}}
  /\ UNCHANGED <<schedule, now, archiveVars, need, from, workerVars, requested, ignored, requests, faults>>

(* A slot begins; what has ended before is no longer on the schedule.      *)
Tick ==
  /\ now < Horizon /\ now' = now + 1
  /\ schedule' = {o \in schedule : o.last >= now'}
  /\ UNCHANGED <<tasks, moved, archiveVars, need, from, workerVars, requested, ignored, counters>>

-----------------------------------------------------------------------------

(* _poll: the marker has moved.                                            *)
PollMarker ==
  /\ poll = "asleep" /\ moved
  /\ poll' = "asking" /\ moved' = FALSE
  /\ UNCHANGED <<tasks, schedule, now, answer, known, updated, need, from, workerVars, requested, ignored, counters>>

ServerAnswers ==
  /\ poll = "asking"
  /\ poll' = "answered" /\ answer' = tasks
  /\ UNCHANGED <<serverVars, known, updated, need, from, workerVars, requested, ignored, counters>>

(* The copy of the schedule in which _update_schedule looks for a task that *)
(* has been removed.  Scheduler has turned its download off.               *)
CopiedSchedule == {}

(* Whether an update asks for a new plan.  That a single removed task is   *)
(* the one started last makes no difference as long as a removal counts    *)
(* for tasks in the copied schedule only.                                  *)
Wanted(removed, added) ==
  /\ EveryUpdate \/ removed # {} \/ added # {}
  /\ removed = {} \/ removed \cap CopiedSchedule # {}

(* _update_schedule, without suspending: the archives answer from copies.  *)
UpdateSchedule ==
  /\ known' = answer /\ updated' = TRUE
  /\ need' = Wanted(known \ answer, answer \ known)
  /\ ignored' = (ignored \/ ~need')

(* _update: equal sets of tasks may still differ in what they contain.     *)
PollApplies ==
  /\ poll = "answered"
  /\ poll' = "asleep" /\ answer' = {}
  /\ \/ UpdateSchedule
     \/ answer = known /\ UNCHANGED <<known, updated, need, ignored>>
  /\ UNCHANGED <<serverVars, from, workerVars, requested, counters>>

PollFailsForgotten ==   \* wrong on purpose: remembers the marker all the same
  /\ poll # "asleep"
  /\ faults < MaxFaults /\ faults' = faults + 1
  /\ poll' = "asleep" /\ answer' = {}
  /\ UNCHANGED <<serverVars, known, updated, need, from, workerVars, requested, ignored, requests, changes>>

(* The request raises: _last_marker is not updated.                        *)
PollFails ==
  /\ poll # "asleep"
  /\ faults < MaxFaults /\ faults' = faults + 1
  /\ poll' = "asleep" /\ answer' = {} /\ moved' = TRUE
  /\ UNCHANGED <<tasks, schedule, now, known, updated, need, from, workerVars, requested, ignored, requests, changes>>

-----------------------------------------------------------------------------

Request ==
  /\ requests < MaxRequests /\ requests' = requests + 1
  /\ need' = TRUE /\ requested' = TRUE
  /\ UNCHANGED <<serverVars, archiveVars, workerVars, ignored, changes, faults>>

Run == Request /\ UNCHANGED from

(* A task has started or finished, or the weather will be good: plan from  *)
(* now or from the announced time on.                                      *)
OnEvent == Request /\ from' \in now..Horizon

-----------------------------------------------------------------------------

First == {o \in plan : o.post = 1}
Rest  == {o \in plan : o.post = 2}

(* What cancel_observations may leave: all that starts earlier, and of what *)
(* has begun the observations that are in progress.                        *)
Remains ==
  {s \in SUBSET schedule : \A o \in schedule :
     IF o.first < start THEN o \in s ELSE o \in s => o.first <= now}

(* The schedule when observations have been added to it.                   *)
Added(observations) == schedule \cup {Attempt(o, try) : o \in observations}

(* Wrong on purpose: submits the whole plan in the end, the first           *)
(* observation once more.                                                  *)
EffectsWhole ==
  CASE pc = "clearing"   -> Remains
    [] pc = "submitting" -> {Added(First)}
    [] pc = "completing" -> {Added({[o EXCEPT !.post = 2] : o \in plan})}
    [] OTHER             -> {schedule}

(* The schedule after the request that the worker is waiting for:          *)
(* clear_schedule, or add_observations with the first or the other ones.   *)
Effects ==
  CASE pc = "clearing"   -> Remains
    [] pc = "submitting" -> {Added(First)}
    [] pc = "completing" -> {Added(Rest)}
    [] OTHER             -> {schedule}

BeginFromPast ==   \* wrong on purpose: does not look at the time
  /\ need' = FALSE
  /\ start' = from
  /\ pc' = "clearing" /\ plan' = {} /\ input' = {} /\ try' = 1
  /\ requested' = FALSE /\ ignored' = FALSE /\ failed' = FALSE
  /\ UNCHANGED <<serverVars, archiveVars, from, counters>>

BeginKeepsNeed ==   \* wrong on purpose: does not reset the request
  /\ start' = IF from > now THEN from ELSE now + 1
  /\ pc' = "clearing" /\ plan' = {} /\ input' = {} /\ try' = 1
  /\ requested' = FALSE /\ ignored' = FALSE /\ failed' = FALSE
  /\ UNCHANGED <<serverVars, archiveVars, need, from, counters>>

(* The worker begins a round: it plans from _schedule_start on, but not     *)
(* before the safety time is over.  It finds no current observation in the *)
(* copied schedule that would tell it otherwise.                           *)
Begin ==
  /\ need' = FALSE
  /\ start' = IF from > now THEN from ELSE now + 1
  /\ pc' = "clearing" /\ plan' = {} /\ input' = {} /\ try' = 1
  /\ requested' = FALSE /\ ignored' = FALSE /\ failed' = FALSE
  /\ UNCHANGED <<serverVars, archiveVars, from, counters>>

BeginRound == pc = "sleeping" /\ need /\ updated /\ Begin

(* The answer of the server lets the worker go on to `next`.               *)
Answered(await, next) ==
  /\ pc = await /\ pc' = next
  /\ schedule' \in Effects /\ try' = 1
  /\ UNCHANGED <<tasks, moved, now, archiveVars, from, start, failed, ignored, counters>>

(* The planner is given the tasks of this moment.                          *)
Cleared == Answered("clearing", "planning") /\ input' = known /\ UNCHANGED <<need, plan, requested>>

(* The planner yields an observation.  The first one is submitted.         *)
Yield ==
  /\ pc = "planning" /\ ~need /\ Cardinality(plan) < MaxPlan
  /\ \E t \in input, f, l \in start..Horizon :
       /\ f <= l
       /\ \A o \in plan : <<o.task, o.first, o.last>> # <<t, f, l>>
       /\ plan' = plan \cup {[first |-> f, last |-> l, task |-> t, since |-> start,
                             post |-> IF plan = {} THEN 1 ELSE 2, try |-> 1]}
  /\ pc' = IF plan = {} THEN "submitting" ELSE "planning"
  /\ UNCHANGED <<serverVars, archiveVars, need, from, start, input, try, requested, ignored, failed, counters>>

FirstSubmitted == Answered("submitting", "planning") /\ UNCHANGED <<need, input, plan, requested>>

(* The planner yields or ends, and an update was requested meanwhile: the  *)
(* next round begins without a pause.                                      *)
Interrupted == pc = "planning" /\ need /\ Begin

PlanEndsUnchecked ==   \* wrong on purpose: checks for requests in the loop only
  /\ pc = "planning" /\ pc' = "completing"
  /\ UNCHANGED <<serverVars, archiveVars, need, from, start, input, plan, try, requested, ignored, failed, counters>>

(* The planner ends.                                                       *)
PlanEnds ==
  /\ pc = "planning" /\ ~need
  /\ pc' = "completing"
  /\ UNCHANGED <<serverVars, archiveVars, need, from, start, input, plan, try, requested, ignored, failed, counters>>

RestSubmittedResets ==   \* wrong on purpose: resets the request when it is done
  /\ Answered("completing", "sleeping")
  /\ need' = FALSE /\ requested' = FALSE
  /\ UNCHANGED <<input, plan>>

RestSubmitted == Answered("completing", "sleeping") /\ UNCHANGED <<need, input, plan, requested>>

(* http_request_with_retries: an attempt fails, be it that its answer came  *)
(* too late or not at all, and is repeated.  The server may have served it.*)
RequestRepeated ==
  /\ pc \in {"clearing", "submitting", "completing"}
  /\ try < Tries /\ try' = try + 1
  /\ faults < MaxFaults /\ faults' = faults + 1
  /\ schedule' \in {schedule} \cup Effects
  /\ UNCHANGED <<tasks, moved, now, archiveVars, need, from, pc, start, input, plan, failed, requested, ignored, requests, changes>>

(* An exception from the planner, or from the last attempt at a request,   *)
(* which the server may have served or not.  It is logged; what was        *)
(* requested is forgotten.                                                 *)
RoundFails ==
  /\ pc # "sleeping" /\ pc' = "sleeping"
  /\ faults < MaxFaults /\ faults' = faults + 1
  /\ schedule' \in {schedule} \cup Effects /\ try' = 1
  /\ failed' = TRUE
  /\ UNCHANGED <<tasks, moved, now, archiveVars, need, from, start, input, plan, requested, ignored, requests, changes>>

(* The module ends and is started again.                                   *)
Restart ==
  /\ faults < MaxFaults /\ faults' = faults + 1
  /\ schedule' \in {schedule} \cup Effects
  /\ moved' = TRUE /\ poll' = "asleep" /\ answer' = {} /\ known' = {} /\ updated' = FALSE
  /\ need' = FALSE /\ from' = now
  /\ pc' = "sleeping" /\ start' = 1 /\ input' = {} /\ plan' = {} /\ try' = 1
  /\ requested' = FALSE /\ ignored' = FALSE /\ failed' = FALSE
  /\ UNCHANGED <<tasks, now, requests, changes>>

-----------------------------------------------------------------------------

Polling == PollMarker \/ ServerAnswers \/ PollApplies

WorkerStep ==
  \/ BeginRound \/ Cleared \/ Yield \/ FirstSubmitted
  \/ Interrupted \/ PlanEnds \/ RestSubmitted

Next ==
  \/ ChangeTasks \/ Tick \/ Polling \/ PollFails \/ Run \/ OnEvent
  \/ WorkerStep \/ RequestRepeated \/ RoundFails \/ Restart

Spec == Init /\ [][Next]_vars

(* The archive polls every five seconds, the worker looks every second; a  *)
(* request is answered or fails, and a plan comes to its end.              *)
FairSpec == Spec /\ WF_vars(Polling) /\ WF_vars(WorkerStep)

-----------------------------------------------------------------------------

(* What is still to come of the time that the last round plans.            *)
InRange(o) == o.first > now /\ o.first >= start
Ahead(observations) == {o \in {Asked(p) : p \in observations} : InRange(o)}

(* Whether the last round has cleared the schedule: a round that fails or   *)
(* is restarted while it does so has planned nothing.                      *)
HasCleared == pc # "clearing" /\ (pc = "sleeping" => plan # {})

(* Rounds that are given up half submitted, fail half submitted and start   *)
(* at different times do not get into each other's way.  Of two            *)
(* observations to come from two rounds, the one of the round that starts   *)
(* earlier begins before the other round's start: this is the only way in   *)
(* which plans may overlap.  And of the time from its start on the last     *)
(* round owns everything: each observation to come is one of its plan, and  *)
(* was submitted by the request meant for it, doubled at most where that    *)
(* request has been repeated.                                              *)
PlansOwnTheirTime ==
  /\ \A o, p \in schedule :
       o.first > now /\ p.first > now /\ o.first >= p.since => o.since >= p.since
  /\ HasCleared => Ahead(schedule) \subseteq plan

(* When the worker has nothing to do its last plan is the schedule and was *)
(* made from the tasks that the archive knows, with every request served:  *)
(* unless its last round failed (it is not repeated), or an update decided *)
(* that nothing needs to be planned.                                       *)
PlanIsCurrent ==
  pc = "sleeping" /\ updated /\ ~need /\ ~failed /\ ~ignored =>
    input = known /\ ~requested /\ Ahead(schedule) = Ahead(plan)

(* A plan that was outdated before it was complete is not submitted:       *)
(* neither when a request came while it was made nor when tasks were added.*)
OutdatedPlanIsGivenUp ==
  [][pc # "completing" /\ pc' = "completing" => ignored \/ (input = known /\ ~requested)]_vars

(* Requests that interrupt the planner do not keep it from ever finishing: *)
(* once they stop, the worker comes to rest.                               *)
ComesToRest == []<>(~updated \/ (pc = "sleeping" /\ ~need))

(* The archive's copy of the tasks catches up with the server.             *)
TasksCatchUp == <>[](known = tasks)

(* run() is to "trigger a re-schedule": its request stays until the worker  *)
(* begins a round.  An update of the tasks that finds nothing new resets   *)
(* it.                                                                     *)
RequestIsKept == requested => need
=============================================================================
