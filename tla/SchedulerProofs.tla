-------------------------- MODULE SchedulerProofs ---------------------------
(***************************************************************************)
(* Theorems about Scheduler, for any tasks, any horizon and any bounds.     *)
(* The argument has two parts.  What is still to come on the schedule from  *)
(* the start of the last round on is of its plan, and what it leaves of     *)
(* earlier rounds begins before that.  And a worker whose plan or whose     *)
(* input is out of date still has its need to plan, or an update has taken *)
(* it away.                                                                *)
(***************************************************************************)
EXTENDS Scheduler, TLAPS

(* A round plans from its start on, and what is on the schedule begins not  *)
(* before the round that planned it.                                       *)
PlanIsOrderly ==
  /\ \A o \in plan : o.first >= start /\ o.since = start /\ o.try = 1
  /\ \A o \in schedule : o.first >= o.since

(* How far the plan of a round is: nothing, only the first observation, and *)
(* the first has been submitted unless it has begun.                       *)
PlanIsSubmitted ==
  /\ pc = "clearing" => plan = {}
  /\ pc = "submitting" => Rest = {}
  /\ pc \in {"planning", "completing"} => Ahead(First) \subseteq Ahead(schedule)

ScheduleInv == TypeOK /\ PlansOwnTheirTime /\ PlanIsOrderly /\ PlanIsSubmitted

(* A request or a change of the known tasks is not forgotten, unless by an *)
(* update.                                                                 *)
NeedIsKept ==
  /\ requested => need \/ ignored
  /\ pc \in {"planning", "submitting", "completing"} => input = known \/ need \/ ignored

SchedulerInv == ScheduleInv /\ NeedIsKept /\ PlanIsCurrent

-----------------------------------------------------------------------------

LEMMA SchedulerInit ==
  ASSUME Init
  PROVE  SchedulerInv
<1>1. /\ moved \in BOOLEAN /\ updated \in BOOLEAN /\ need \in BOOLEAN
      /\ requested \in BOOLEAN /\ ignored \in BOOLEAN /\ failed \in BOOLEAN
  BY ZenonT(10) DEF Init
<1>2. TypeOK
  BY <1>1, SchedulerAssumption DEF Init, TypeOK
<1>3. QED
  BY <1>2 DEF Init, SchedulerInv, ScheduleInv, PlansOwnTheirTime, PlanIsOrderly, PlanIsSubmitted,
    HasCleared, NeedIsKept, PlanIsCurrent, Ahead, Rest, First

(* The flags stay flags.                                                   *)
LEMMA FlagsStep ==
  ASSUME TypeOK, [Next]_vars
  PROVE  /\ moved' \in BOOLEAN /\ updated' \in BOOLEAN /\ need' \in BOOLEAN
         /\ requested' \in BOOLEAN /\ ignored' \in BOOLEAN /\ failed' \in BOOLEAN
<1> DEFINE Kept ==
      /\ moved' = FALSE \/ moved' = TRUE \/ moved' = moved
      /\ updated' = FALSE \/ updated' = TRUE \/ updated' = updated
      /\ need' = FALSE \/ need' = TRUE \/ need' = need
      /\ requested' = FALSE \/ requested' = TRUE \/ requested' = requested
      /\ ignored' = FALSE \/ ignored' = TRUE \/ ignored' = ignored
      /\ failed' = FALSE \/ failed' = TRUE \/ failed' = failed
<1> USE DEF serverVars, archiveVars, workerVars, counters
<1>1. ASSUME ChangeTasks \/ Tick \/ PollMarker \/ ServerAnswers \/ PollFails
      PROVE  Kept
  BY <1>1 DEF ChangeTasks, Tick, PollMarker, ServerAnswers, PollFails
<1>2. ASSUME PollApplies
      PROVE  Kept
  <2>1. CASE UpdateSchedule
    <3>1. need' = TRUE \/ need' = FALSE
      BY <2>1 DEF UpdateSchedule, Wanted
    <3>2. ignored' = TRUE \/ ignored' = FALSE
      BY <2>1 DEF UpdateSchedule
    <3>3. QED
      BY <1>2, <2>1, <3>1, <3>2 DEF PollApplies, UpdateSchedule
  <2>2. CASE UNCHANGED <<known, updated, need, ignored>>
    BY <1>2, <2>2 DEF PollApplies
  <2>3. QED
    BY <1>2, <2>1, <2>2 DEF PollApplies
<1>3. ASSUME Run \/ OnEvent
      PROVE  Kept
  BY <1>3 DEF Run, OnEvent, Request
<1>4. ASSUME WorkerStep
      PROVE  Kept
  BY <1>4 DEF WorkerStep, BeginRound, Interrupted, Begin, Cleared, Yield, FirstSubmitted, PlanEnds,
    RestSubmitted, Answered
<1>5. ASSUME RequestRepeated \/ RoundFails \/ Restart
      PROVE  Kept
  BY <1>5 DEF RequestRepeated, RoundFails, Restart
<1>6. ASSUME UNCHANGED vars
      PROVE  Kept
  BY <1>6 DEF vars
<1>7. Kept
  BY <1>1, <1>2, <1>3, <1>4, <1>5, <1>6 DEF Next, Polling
<1>8. QED
  BY <1>7, ZenonT(20) DEF TypeOK

(* Attempts at the same observation differ in nothing else.                *)
LEMMA AttemptIsSame ==
  ASSUME NEW o \in Observation, NEW n \in 1..Tries
  PROVE  /\ Attempt(o, n) \in Observation /\ Asked(o) \in Observation
         /\ Asked(Attempt(o, n)) = Asked(o) /\ Asked(Asked(o)) = Asked(o)
         /\ o.try = 1 => Asked(o) = o
         /\ Attempt(o, n).first = o.first /\ Attempt(o, n).since = o.since
         /\ Attempt(o, n).task = o.task
         /\ Asked(o).first = o.first /\ Asked(o).since = o.since /\ Asked(o).task = o.task
<1> DEFINE Fields == [first : 1..Horizon, last : 1..Horizon, task : Task,
                      since : 1..Horizon, post : {1, 2}, try : 1..Tries]
<1>1. o \in Fields /\ o.first <= o.last /\ 1 \in 1..Tries
  BY SchedulerAssumption DEF Observation
<1>2. ASSUME NEW m \in 1..Tries
      PROVE  /\ Attempt(o, m) \in Fields
             /\ Attempt(o, m).first = o.first /\ Attempt(o, m).last = o.last
             /\ Attempt(o, m).task = o.task /\ Attempt(o, m).since = o.since
             /\ Attempt(Attempt(o, m), 1) = Attempt(o, 1)
  BY <1>1 DEF Attempt
<1>3. o.try = 1 => Attempt(o, 1) = o
  BY <1>1 DEF Attempt
<1>4. \A m \in 1..Tries : Attempt(o, m) \in Observation
  BY <1>1, <1>2 DEF Observation
<1>5. QED
  BY <1>1, <1>2, <1>3, <1>4 DEF Asked

LEMMA ObservationFields ==
  ASSUME NEW o \in Observation
  PROVE  o.first \in Nat /\ o.last \in Nat /\ o.since \in Nat /\ o.first <= o.last /\ o.post \in {1, 2}
  BY SchedulerAssumption DEF Observation

(* What is still to come, element by element.                              *)
LEMMA AheadMembers ==
  ASSUME NEW S \in SUBSET Observation
  PROVE  /\ \A o \in S : InRange(o) => Asked(o) \in Ahead(S)
         /\ \A o \in Ahead(S) : \E p \in S : o = Asked(p) /\ InRange(p)
<1>1. \A o \in S : InRange(Asked(o)) <=> InRange(o)
  BY AttemptIsSame, SchedulerAssumption DEF InRange
<1>2. QED
  BY <1>1 DEF Ahead

(* What a request that adds observations of the plan makes of the schedule. *)
LEMMA AddedIsOrderly ==
  ASSUME ScheduleInv, pc \in {"submitting", "completing"}, NEW S \in SUBSET plan
  PROVE  /\ Added(S) \subseteq Observation
         /\ \A o \in Added(S) : o.first >= o.since
         /\ \A o, p \in Added(S) :
              o.first > now /\ p.first > now /\ o.first >= p.since => o.since >= p.since
         /\ \A o \in Added(S) : InRange(o) => Asked(o) \in plan
         /\ \A o \in Added(S) \ schedule :
              Asked(o) \in plan /\ o.first >= start /\ Asked(o).task = o.task
         /\ Ahead(schedule) \cup Ahead(S) \subseteq Ahead(Added(S))
<1>0. TypeOK /\ now \in Nat /\ start \in Nat /\ try \in 1..Tries
  BY SchedulerAssumption DEF ScheduleInv, TypeOK
<1>1. S \subseteq Observation /\ schedule \subseteq Observation
  BY <1>0 DEF TypeOK
<1>2. \A o \in Added(S) \ schedule : \E p \in S : o = Attempt(p, try)
  BY DEF Added
<1>3. \A o \in Added(S) \ schedule :
        /\ o \in Observation /\ Asked(o) \in plan /\ Asked(o).task = o.task
        /\ o.first >= start /\ o.since = start
  <2> SUFFICES ASSUME NEW p \in S
               PROVE  LET o == Attempt(p, try) IN
                        /\ o \in Observation /\ Asked(o) \in plan /\ Asked(o).task = o.task
                        /\ o.first >= start /\ o.since = start
    BY <1>2
  <2>1. p \in plan /\ p \in Observation /\ p.first >= start /\ p.since = start /\ p.try = 1
    BY <1>1 DEF ScheduleInv, PlanIsOrderly
  <2>2. QED
    BY <1>0, <2>1, AttemptIsSame
<1>4. Added(S) \subseteq Observation
  BY <1>1, <1>3
<1>5. \A o \in schedule : InRange(o) => Asked(o) \in plan /\ o.since = start
  <2> SUFFICES ASSUME NEW o \in schedule, InRange(o)
               PROVE  Asked(o) \in plan /\ o.since = start
    OBVIOUS
  <2>1. Asked(o) \in plan
    BY <1>1, AheadMembers DEF ScheduleInv, PlansOwnTheirTime, HasCleared
  <2>2. Asked(o).since = o.since
    BY <1>1, AttemptIsSame, SchedulerAssumption
  <2>3. QED
    BY <2>1, <2>2 DEF ScheduleInv, PlanIsOrderly
<1>6. \A o \in Added(S) : o.first >= o.since
  BY <1>0, <1>3, <1>4, ObservationFields DEF ScheduleInv, PlanIsOrderly
<1>7. \A o \in Added(S) : InRange(o) => Asked(o) \in plan /\ o.since = start
  BY <1>3, <1>5
<1>8. \A o, p \in Added(S) :
        o.first > now /\ p.first > now /\ o.first >= p.since => o.since >= p.since
  <2> SUFFICES ASSUME NEW o \in Added(S), NEW p \in Added(S),
                      o.first > now, p.first > now, o.first >= p.since
               PROVE  o.since >= p.since
    OBVIOUS
  <2>0. o.first \in Nat /\ p.first \in Nat /\ o.since \in Nat /\ p.since \in Nat
    BY <1>4, ObservationFields
  <2>1. CASE InRange(o) /\ InRange(p)
    BY <1>7, <2>0, <2>1
  <2>2. CASE InRange(o) /\ ~InRange(p)
    <3>1. p.since <= p.first /\ p.first < start /\ o.since = start
      BY <1>0, <1>6, <1>7, <2>0, <2>2 DEF InRange
    <3>2. QED
      BY <1>0, <2>0, <3>1
  <2>3. CASE ~InRange(o) /\ InRange(p)
    <3>1. p.since = start /\ o.first < start
      BY <1>0, <1>7, <2>0, <2>3 DEF InRange
    <3>2. QED
      BY <1>0, <2>0, <3>1
  <2>4. CASE ~InRange(o) /\ ~InRange(p)
    <3>1. o.first < start /\ p.first < start
      BY <1>0, <2>0, <2>4 DEF InRange
    <3>2. o \in schedule /\ p \in schedule
      BY <1>0, <1>3, <2>0, <3>1
    <3>3. QED
      BY <3>2 DEF ScheduleInv, PlansOwnTheirTime
  <2>5. QED
    BY <2>1, <2>2, <2>3, <2>4
<1>9. Ahead(schedule) \cup Ahead(S) \subseteq Ahead(Added(S))
  <2>1. \A p \in S : Asked(Attempt(p, try)) = Asked(p) /\ Attempt(p, try) \in Added(S)
    BY <1>0, <1>1, AttemptIsSame DEF Added
  <2>2. schedule \subseteq Added(S)
    BY DEF Added
  <2>3. QED
    BY <2>1, <2>2 DEF Ahead
<1>10. QED
  BY <1>3, <1>4, <1>6, <1>7, <1>8, <1>9

(* Whatever the request under way is, the schedule keeps its order.        *)
LEMMA EffectsAreOrderly ==
  ASSUME ScheduleInv, NEW s \in Effects
  PROVE  /\ s \subseteq Observation
         /\ \A o \in s : o.first >= o.since
         /\ \A o, p \in s : o.first > now /\ p.first > now /\ o.first >= p.since => o.since >= p.since
         /\ pc = "clearing" => Ahead(s) = {}
         /\ pc # "clearing" => (Ahead(schedule) \subseteq plan => Ahead(s) \subseteq plan)
         /\ pc # "clearing" => Ahead(schedule) \subseteq Ahead(s)
         /\ pc = "submitting" => Ahead(First) \subseteq Ahead(s)
         /\ pc = "completing" => Ahead(Rest) \subseteq Ahead(s)
         /\ \A o \in schedule \ s : pc = "clearing" /\ o.first >= start
         /\ \A o \in s \ schedule :
              /\ pc \in {"submitting", "completing"}
              /\ Asked(o) \in plan /\ o.first >= start /\ Asked(o).task = o.task
<1>0. TypeOK /\ schedule \subseteq Observation /\ now \in Nat /\ start \in Nat
  BY SchedulerAssumption DEF ScheduleInv, TypeOK
<1>1. CASE pc = "clearing"
  <2>1. s \subseteq schedule /\ \A o \in schedule : IF o.first < start THEN o \in s ELSE o \in s => o.first <= now
    BY <1>1 DEF Effects, Remains
  <2>2. \A o \in s : ~InRange(o)
    BY <1>0, <2>1, ObservationFields DEF InRange
  <2>3. Ahead(s) = {}
    BY <1>0, <2>1, <2>2, AheadMembers
  <2>4. \A o \in schedule \ s : o.first >= start
    BY <1>0, <2>1, ObservationFields
  <2>5. QED
    BY <1>0, <1>1, <2>1, <2>3, <2>4 DEF ScheduleInv, PlansOwnTheirTime, PlanIsOrderly
<1>2. ASSUME NEW S \in SUBSET plan, pc \in {"submitting", "completing"}, s = Added(S)
      PROVE  /\ s \subseteq Observation
             /\ \A o \in s : o.first >= o.since
             /\ \A o, p \in s : o.first > now /\ p.first > now /\ o.first >= p.since => o.since >= p.since
             /\ Ahead(s) \subseteq plan
             /\ Ahead(schedule) \subseteq Ahead(s) /\ Ahead(S) \subseteq Ahead(s)
             /\ schedule \subseteq s
             /\ \A o \in s \ schedule : Asked(o) \in plan /\ o.first >= start /\ Asked(o).task = o.task
  <2>1. s \subseteq Observation /\ \A o \in s : InRange(o) => Asked(o) \in plan
    BY <1>2, AddedIsOrderly
  <2>2. Ahead(s) \subseteq plan
    BY <2>1, AheadMembers
  <2>3. schedule \subseteq s
    BY <1>2 DEF Added
  <2>4. QED
    BY <1>2, <2>1, <2>2, <2>3, AddedIsOrderly
<1>3. CASE pc = "submitting"
  <2>1. s = Added(First) /\ First \in SUBSET plan
    BY <1>3 DEF Effects, First
  <2>2. QED
    BY <1>2, <1>3, <2>1
<1>4. CASE pc = "completing"
  <2>1. s = Added(Rest) /\ Rest \in SUBSET plan
    BY <1>4 DEF Effects, Rest
  <2>2. QED
    BY <1>2, <1>4, <2>1
<1>5. CASE pc \in {"sleeping", "planning"}
  <2>1. s = schedule
    BY <1>5 DEF Effects
  <2>2. QED
    BY <1>0, <1>5, <2>1 DEF ScheduleInv, PlansOwnTheirTime, PlanIsOrderly
<1>6. QED
  BY <1>0, <1>1, <1>3, <1>4, <1>5 DEF TypeOK, Awaits

(* As a slot begins, what is to come is what was and starts later.          *)
LEMMA TickKeepsAhead ==
  ASSUME TypeOK, Tick
  PROVE  /\ Ahead(schedule)' = {o \in Ahead(schedule) : o.first > now'}
         /\ Ahead(plan)' = {o \in Ahead(plan) : o.first > now'}
         /\ Ahead(First)' = {o \in Ahead(First) : o.first > now'}
<1>0. /\ now \in Nat /\ now' = now + 1 /\ UNCHANGED <<start, plan>>
      /\ schedule' = {o \in schedule : o.last >= now'}
      /\ schedule \subseteq Observation /\ plan \subseteq Observation
  BY SchedulerAssumption DEF TypeOK, Tick, workerVars
<1>1. \A o \in Observation :
        /\ Asked(o) \in Observation /\ Asked(o).first = o.first
        /\ InRange(o)' <=> (InRange(o) /\ o.first > now')
        /\ o.first > now' => o.last >= now'
  BY <1>0, AttemptIsSame, ObservationFields, SchedulerAssumption DEF InRange
<1>2. Ahead(schedule)' = {o \in Ahead(schedule) : o.first > now'}
  <2>1. \A o \in schedule : Asked(o).first > now' => o \in schedule'
    BY <1>0, <1>1
  <2>2. schedule' \subseteq schedule
    BY <1>0
  <2>3. QED
    BY <1>0, <1>1, <2>1, <2>2 DEF Ahead
<1>3. First' = First /\ First \subseteq plan
  BY <1>0 DEF First
<1>4. \A S \in SUBSET plan :
        {o \in {Asked(p) : p \in S} : InRange(o)'} = {o \in {Asked(p) : p \in S} : InRange(o) /\ o.first > now'}
  BY <1>0, <1>1
<1>5. QED
  BY <1>0, <1>2, <1>3, <1>4 DEF Ahead

(* A request of the worker has been served: what is ahead on the schedule.  *)
LEMMA ServedSchedule ==
  ASSUME ScheduleInv, schedule' \in Effects, UNCHANGED <<now, start, plan>>
  PROVE  /\ schedule' \subseteq Observation
         /\ \A o \in schedule' : o.first >= o.since
         /\ \A o, p \in schedule' :
              o.first > now /\ p.first > now /\ o.first >= p.since => o.since >= p.since
         /\ pc = "clearing" => Ahead(schedule)' = {}
         /\ HasCleared => Ahead(schedule)' \subseteq plan
         /\ pc # "clearing" => Ahead(schedule) \subseteq Ahead(schedule)'
         /\ pc = "submitting" => Ahead(First) \subseteq Ahead(schedule)'
         /\ pc = "completing" => Ahead(Rest) \subseteq Ahead(schedule)'
<1>1. PICK s \in Effects : schedule' = s
  OBVIOUS
<1>2. Ahead(schedule)' = Ahead(s)
  BY <1>1 DEF Ahead, InRange
<1>3. HasCleared => Ahead(schedule) \subseteq plan /\ pc # "clearing"
  BY DEF ScheduleInv, PlansOwnTheirTime, HasCleared
<1>4. QED
  BY <1>1, <1>2, <1>3, EffectsAreOrderly

(* Nothing happens to the schedule, the round and the time.                *)
LEMMA ScheduleInvStutter ==
  ASSUME ScheduleInv, UNCHANGED <<schedule, now, pc, start, plan>>
  PROVE  PlansOwnTheirTime' /\ PlanIsOrderly' /\ PlanIsSubmitted'
BY DEF ScheduleInv, PlansOwnTheirTime, HasCleared, PlanIsOrderly, PlanIsSubmitted, Ahead, InRange,
  First, Rest

LEMMA ScheduleInvStep ==
  ASSUME ScheduleInv, [Next]_vars
  PROVE  ScheduleInv'
<1> DEFINE Typed ==
      /\ tasks' \subseteq Task /\ schedule' \subseteq Observation
      /\ now' \in 0..Horizon
      /\ poll' \in {"asleep", "asking", "answered"}
      /\ answer' \subseteq Task /\ known' \subseteq Task
      /\ from' \in 0..Horizon
      /\ pc' \in {"sleeping"} \cup Awaits
      /\ start' \in 1..(Horizon + 1)
      /\ input' \subseteq Task /\ plan' \subseteq Observation /\ try' \in 1..Tries
      /\ requests' \in 0..MaxRequests /\ changes' \in 0..MaxChanges /\ faults' \in 0..MaxFaults
<1> DEFINE Ordered == PlansOwnTheirTime' /\ PlanIsOrderly' /\ PlanIsSubmitted'
<1> DEFINE Kept == Typed /\ Ordered
<1>0. TypeOK /\ schedule \subseteq Observation /\ plan \subseteq Observation
  BY DEF ScheduleInv, TypeOK
<1> USE SchedulerAssumption DEF serverVars, archiveVars, workerVars, counters
<1>1. ASSUME ChangeTasks \/ PollMarker \/ ServerAnswers \/ PollFails
      PROVE  Kept
  <2>1. Typed
    BY <1>0, <1>1 DEF TypeOK, ChangeTasks, PollMarker, ServerAnswers, PollFails
  <2>2. UNCHANGED <<schedule, now, pc, start, plan>>
    BY <1>1 DEF ChangeTasks, PollMarker, ServerAnswers, PollFails
  <2>3. QED
    BY <2>1, <2>2, ScheduleInvStutter
<1>2. ASSUME Tick
      PROVE  Kept
  <2>1. /\ now' = now + 1 /\ now \in Nat /\ schedule' \subseteq schedule
        /\ UNCHANGED <<pc, start, plan>>
    BY <1>0, <1>2 DEF Tick, TypeOK
  <2>2. Typed
    BY <1>0, <1>2 DEF TypeOK, Tick
  <2>3. \A o \in schedule : o.first > now' => o.first > now
    BY <1>0, <2>1, ObservationFields
  <2>4. PlansOwnTheirTime'
    BY <1>0, <1>2, <2>1, <2>3, TickKeepsAhead DEF ScheduleInv, PlansOwnTheirTime, HasCleared
  <2>5. PlanIsOrderly'
    BY <2>1 DEF ScheduleInv, PlanIsOrderly
  <2>6. PlanIsSubmitted'
    BY <1>0, <1>2, <2>1, TickKeepsAhead DEF ScheduleInv, PlanIsSubmitted, Rest
  <2>7. QED
    BY <2>2, <2>4, <2>5, <2>6
<1>3. ASSUME PollApplies
      PROVE  Kept
  <2>1. Typed
    BY <1>0, <1>3 DEF TypeOK, PollApplies, UpdateSchedule
  <2>2. UNCHANGED <<schedule, now, pc, start, plan>>
    BY <1>3 DEF PollApplies
  <2>3. QED
    BY <2>1, <2>2, ScheduleInvStutter
<1>4. ASSUME Run \/ OnEvent
      PROVE  Kept
  <2>1. Typed
    BY <1>0, <1>4 DEF TypeOK, Run, OnEvent, Request
  <2>2. UNCHANGED <<schedule, now, pc, start, plan>>
    BY <1>4 DEF Run, OnEvent, Request
  <2>3. QED
    BY <2>1, <2>2, ScheduleInvStutter
<1>5. ASSUME BeginRound \/ Interrupted
      PROVE  Kept
  <2>1. Begin
    BY <1>5 DEF BeginRound, Interrupted
  <2>2. Typed
    BY <1>0, <2>1 DEF TypeOK, Awaits, Begin
  <2>3. pc' = "clearing" /\ plan' = {} /\ UNCHANGED <<schedule, now>>
    BY <2>1 DEF Begin
  <2>4. Ordered
    BY <2>3 DEF ScheduleInv, PlansOwnTheirTime, HasCleared, PlanIsOrderly, PlanIsSubmitted
  <2>5. QED
    BY <2>2, <2>4
<1>6. ASSUME Cleared
      PROVE  Kept
  <2>1. /\ schedule' \in Effects /\ pc = "clearing" /\ pc' = "planning" /\ plan = {} /\ plan' = {}
        /\ UNCHANGED <<now, start, plan>>
    BY <1>6 DEF Cleared, Answered, ScheduleInv, PlanIsSubmitted
  <2>2. Typed
    BY <1>0, <1>6, <2>1, ServedSchedule DEF TypeOK, Awaits, Cleared, Answered
  <2>3. Ahead(schedule)' = {} /\ Ahead(First)' = {}
    <3>1. First' = {}
      BY <2>1 DEF First
    <3>2. Ahead(First)' = {}
      BY <3>1 DEF Ahead
    <3>3. QED
      BY <2>1, <3>2, ServedSchedule
  <2>4. Ordered
    BY <2>1, <2>3, ServedSchedule DEF PlansOwnTheirTime, PlanIsOrderly, PlanIsSubmitted
  <2>5. QED
    BY <2>2, <2>4
<1>7. ASSUME Yield
      PROVE  Kept
  <2>1. PICK t \in input, f, l \in start..Horizon :
          /\ f <= l
          /\ plan' = plan \cup {[first |-> f, last |-> l, task |-> t, since |-> start,
                                post |-> IF plan = {} THEN 1 ELSE 2, try |-> 1]}
    BY <1>7 DEF Yield
  <2> DEFINE new == [first |-> f, last |-> l, task |-> t, since |-> start,
                     post |-> IF plan = {} THEN 1 ELSE 2, try |-> 1]
  <2>2. /\ new \in Observation /\ new.first >= start /\ new.since = start /\ new.try = 1
        /\ new.post = IF plan = {} THEN 1 ELSE 2
    BY <1>0, <2>1 DEF TypeOK, Observation
  <2>3. plan' = plan \cup {new}
    BY <2>1
  <2> HIDE DEF new
  <2>4. /\ pc = "planning" /\ pc' = IF plan = {} THEN "submitting" ELSE "planning"
        /\ UNCHANGED <<schedule, now, start>>
    BY <1>7 DEF Yield
  <2>5. Typed
    BY <1>0, <1>7, <2>2, <2>3, <2>4 DEF TypeOK, Awaits, Yield
  <2>6. Ahead(schedule)' = Ahead(schedule)
    BY <2>4 DEF Ahead, InRange
  <2>7. PlansOwnTheirTime'
    BY <2>3, <2>4, <2>6 DEF ScheduleInv, PlansOwnTheirTime, HasCleared
  <2>8. PlanIsOrderly'
    BY <2>2, <2>3, <2>4 DEF ScheduleInv, PlanIsOrderly
  <2>9. CASE plan = {}
    <3>1. Rest' = {}
      BY <2>2, <2>3, <2>9 DEF Rest
    <3>2. QED
      BY <2>4, <2>5, <2>7, <2>8, <2>9, <3>1 DEF PlanIsSubmitted
  <2>10. CASE plan # {}
    <3>1. First' = First
      BY <2>2, <2>3, <2>10 DEF First
    <3>2. Ahead(First)' = Ahead(First)
      BY <2>4, <3>1 DEF Ahead, InRange
    <3>3. QED
      BY <2>4, <2>5, <2>6, <2>7, <2>8, <2>10, <3>2 DEF ScheduleInv, PlanIsSubmitted
  <2>11. QED
    BY <2>9, <2>10
<1>8. ASSUME FirstSubmitted \/ RestSubmitted \/ RequestRepeated
      PROVE  Kept
  <2>1. /\ schedule' \in Effects \/ (schedule' = schedule /\ pc' = pc)
        /\ UNCHANGED <<now, start, plan>>
        /\ pc' \in {pc, "sleeping"} \/ (pc = "submitting" /\ pc' = "planning")
    BY <1>8 DEF FirstSubmitted, RestSubmitted, RequestRepeated, Answered
  <2>2. schedule' \subseteq Observation
    BY <1>0, <2>1, ServedSchedule
  <2>3. Typed
    BY <1>0, <1>8, <2>2 DEF TypeOK, Awaits, FirstSubmitted, RestSubmitted, RequestRepeated, Answered
  <2>4. CASE schedule' = schedule /\ pc' = pc
    BY <2>1, <2>3, <2>4, ScheduleInvStutter
  <2>5. CASE schedule' \in Effects
    <3>1. Ahead(First)' = Ahead(First) /\ Rest' = Rest /\ First' = First
      BY <2>1 DEF Ahead, InRange, First, Rest
    <3>2. PlansOwnTheirTime'
      <4>1. HasCleared' => HasCleared
        BY <1>8, <2>1 DEF HasCleared, FirstSubmitted, RestSubmitted, RequestRepeated, Answered
      <4>2. QED
        BY <2>1, <2>5, <4>1, ServedSchedule DEF PlansOwnTheirTime
    <3>3. PlanIsOrderly'
      BY <2>1, <2>5, ServedSchedule DEF ScheduleInv, PlanIsOrderly
    <3>4. PlanIsSubmitted'
      BY <2>1, <2>5, <3>1, ServedSchedule DEF ScheduleInv, PlanIsSubmitted
    <3>5. QED
      BY <2>3, <3>2, <3>3, <3>4
  <2>6. QED
    BY <2>1, <2>4, <2>5
<1>9. ASSUME PlanEnds
      PROVE  Kept
  <2>1. Typed
    BY <1>0, <1>9 DEF TypeOK, Awaits, PlanEnds
  <2>2. UNCHANGED <<schedule, now, start, plan>> /\ pc = "planning" /\ pc' = "completing"
    BY <1>9 DEF PlanEnds
  <2>3. Ordered
    BY <2>2 DEF ScheduleInv, PlansOwnTheirTime, HasCleared, PlanIsOrderly, PlanIsSubmitted, Ahead,
      InRange, First, Rest
  <2>4. QED
    BY <2>1, <2>3
<1>10. ASSUME RoundFails
      PROVE  Kept
  <2>1. /\ schedule' \in Effects \/ schedule' = schedule
        /\ UNCHANGED <<now, start, plan>> /\ pc' = "sleeping" /\ pc # "sleeping"
    BY <1>10 DEF RoundFails
  <2>2. schedule' \subseteq Observation
    BY <1>0, <2>1, ServedSchedule
  <2>3. Typed
    BY <1>0, <1>10, <2>2 DEF TypeOK, Awaits, RoundFails
  <2>4. HasCleared' => HasCleared
    BY <2>1 DEF HasCleared, ScheduleInv, PlanIsSubmitted
  <2>5. PlansOwnTheirTime'
    <3>1. CASE schedule' = schedule
      BY <2>1, <2>4, <3>1 DEF ScheduleInv, PlansOwnTheirTime, Ahead, InRange
    <3>2. CASE schedule' \in Effects
      BY <2>1, <2>4, <3>2, ServedSchedule DEF PlansOwnTheirTime
    <3>3. QED
      BY <2>1, <3>1, <3>2
  <2>6. PlanIsOrderly'
    BY <2>1, ServedSchedule DEF ScheduleInv, PlanIsOrderly
  <2>7. PlanIsSubmitted'
    BY <2>1 DEF PlanIsSubmitted
  <2>8. QED
    BY <2>3, <2>5, <2>6, <2>7
<1>11. ASSUME Restart
      PROVE  Kept
  <2>1. /\ schedule' \in Effects \/ schedule' = schedule
        /\ UNCHANGED now /\ pc' = "sleeping" /\ plan' = {}
    BY <1>11 DEF Restart
  <2>2. /\ schedule' \subseteq Observation
        /\ \A o \in schedule' : o.first >= o.since
        /\ \A o, p \in schedule' :
             o.first > now /\ p.first > now /\ o.first >= p.since => o.since >= p.since
    BY <1>0, <2>1, EffectsAreOrderly DEF ScheduleInv, PlansOwnTheirTime, PlanIsOrderly
  <2>3. Typed
    BY <1>0, <1>11, <2>2 DEF TypeOK, Awaits, Restart
  <2>4. Ordered
    BY <2>1, <2>2 DEF PlansOwnTheirTime, HasCleared, PlanIsOrderly, PlanIsSubmitted
  <2>5. QED
    BY <2>3, <2>4
<1>12. ASSUME UNCHANGED vars
      PROVE  Kept
  <2>1. Typed
    BY <1>0, <1>12 DEF TypeOK, vars
  <2>2. UNCHANGED <<schedule, now, pc, start, plan>>
    BY <1>12 DEF vars
  <2>3. QED
    BY <2>1, <2>2, ScheduleInvStutter
<1>13. Kept
  BY <1>1, <1>2, <1>3, <1>4, <1>5, <1>6, <1>7, <1>8, <1>9, <1>10, <1>11, <1>12
  DEF Next, Polling, WorkerStep
<1>14. QED
  BY <1>0, <1>13, FlagsStep DEF ScheduleInv, TypeOK

(* An update that leaves nothing to plan is remembered as such.            *)
LEMMA UpdateIsRemembered ==
  ASSUME TypeOK, PollApplies
  PROVE  /\ UNCHANGED <<serverVars, pc, start, input, plan, failed, requested>>
         /\ need' \/ ignored' \/ UNCHANGED <<known, updated, need, ignored>>
<1>1. CASE UpdateSchedule
  <2>1. need' \/ ignored'
    BY <1>1 DEF UpdateSchedule
  <2>2. QED
    BY <2>1 DEF PollApplies, workerVars
<1>2. CASE UNCHANGED <<known, updated, need, ignored>>
  BY <1>2 DEF PollApplies, workerVars
<1>3. QED
  BY <1>1, <1>2 DEF PollApplies

LEMMA NeedStep ==
  ASSUME SchedulerInv, [Next]_vars
  PROVE  NeedIsKept'
<1>0. TypeOK
  BY DEF SchedulerInv, ScheduleInv
<1> USE DEF SchedulerInv, NeedIsKept, serverVars, archiveVars, workerVars, counters
<1>1. ASSUME ChangeTasks \/ Tick \/ PollMarker \/ ServerAnswers \/ PollFails
      PROVE  NeedIsKept'
  BY <1>1 DEF ChangeTasks, Tick, PollMarker, ServerAnswers, PollFails
<1>2. ASSUME PollApplies
      PROVE  NeedIsKept'
  BY <1>0, <1>2, UpdateIsRemembered
<1>3. ASSUME Run \/ OnEvent
      PROVE  NeedIsKept'
  BY <1>3 DEF Run, OnEvent, Request
<1>4. ASSUME BeginRound \/ Interrupted
      PROVE  NeedIsKept'
  BY <1>4 DEF BeginRound, Interrupted, Begin
<1>5. ASSUME Cleared \/ Yield \/ FirstSubmitted
      PROVE  NeedIsKept'
  BY <1>5 DEF Cleared, Yield, FirstSubmitted, Answered
<1>6. ASSUME PlanEnds \/ RestSubmitted \/ RequestRepeated \/ RoundFails
      PROVE  NeedIsKept'
  BY <1>6 DEF PlanEnds, RestSubmitted, RequestRepeated, RoundFails, Answered
<1>7. ASSUME Restart
      PROVE  NeedIsKept'
  BY <1>7 DEF Restart
<1>8. ASSUME UNCHANGED vars
      PROVE  NeedIsKept'
  BY <1>8 DEF vars
<1>9. QED
  BY <1>1, <1>2, <1>3, <1>4, <1>5, <1>6, <1>7, <1>8 DEF Next, Polling, WorkerStep

(* The plan has been submitted: what is to come on the schedule is its.     *)
LEMMA SubmittedPlanIsSchedule ==
  ASSUME ScheduleInv, RestSubmitted
  PROVE  Ahead(schedule)' = Ahead(plan)'
<1>1. /\ pc = "completing" /\ schedule' \in Effects /\ UNCHANGED <<now, start, plan>>
      /\ plan \subseteq Observation /\ HasCleared
  BY DEF RestSubmitted, Answered, ScheduleInv, TypeOK, HasCleared
<1>2. Ahead(plan)' = Ahead(plan) /\ plan = First \cup Rest
  BY <1>1, ObservationFields DEF Ahead, InRange, First, Rest
<1>3. Ahead(First) \cup Ahead(Rest) \subseteq Ahead(schedule)'
  BY <1>1, ServedSchedule DEF ScheduleInv, PlanIsSubmitted
<1>4. Ahead(plan) \subseteq Ahead(schedule)'
  BY <1>2, <1>3 DEF Ahead
<1>5. Ahead(schedule)' \subseteq plan
  BY <1>1, ServedSchedule
<1>6. \A o \in plan : Asked(o) = o
  BY <1>1, AttemptIsSame, SchedulerAssumption DEF ScheduleInv, PlanIsOrderly
<1>7. \A o \in Ahead(schedule)' : InRange(o)
  BY <1>1 DEF Ahead, InRange
<1>8. Ahead(schedule)' \subseteq Ahead(plan)
  BY <1>5, <1>6, <1>7 DEF Ahead
<1>9. QED
  BY <1>2, <1>4, <1>8

LEMMA CurrentStep ==
  ASSUME SchedulerInv, [Next]_vars
  PROVE  PlanIsCurrent'
<1>0. TypeOK /\ ScheduleInv
  BY DEF SchedulerInv, ScheduleInv
<1>1. ASSUME ChangeTasks \/ PollMarker \/ ServerAnswers \/ PollFails
      PROVE  PlanIsCurrent'
  BY <1>1 DEF ChangeTasks, PollMarker, ServerAnswers, PollFails, SchedulerInv, PlanIsCurrent, Ahead, InRange,
    serverVars, archiveVars, workerVars, counters
<1>2. ASSUME Tick
      PROVE  PlanIsCurrent'
  <2>1. UNCHANGED <<start, plan, pc, input, known, requested, updated, need, failed, ignored>>
    BY <1>2 DEF Tick, archiveVars, workerVars
  <2>2. Ahead(schedule) = Ahead(plan) => Ahead(schedule)' = Ahead(plan)'
    BY <1>0, <1>2, TickKeepsAhead
  <2>3. QED
    BY <2>1, <2>2 DEF SchedulerInv, PlanIsCurrent
<1>3. ASSUME PollApplies
      PROVE  PlanIsCurrent'
  BY <1>0, <1>3, UpdateIsRemembered DEF SchedulerInv, PlanIsCurrent, Ahead, InRange, serverVars
<1>4. ASSUME Run \/ OnEvent
      PROVE  PlanIsCurrent'
  BY <1>4 DEF Run, OnEvent, Request, PlanIsCurrent
<1>5. ASSUME RestSubmitted
      PROVE  PlanIsCurrent'
  <2>2. UNCHANGED <<input, known, requested, need, ignored>> /\ pc = "completing"
    BY <1>5 DEF RestSubmitted, Answered, archiveVars
  <2>3. Ahead(schedule)' = Ahead(plan)'
    BY <1>0, <1>5, SubmittedPlanIsSchedule
  <2>4. ~need /\ ~ignored => input = known /\ ~requested
    BY <2>2 DEF SchedulerInv, NeedIsKept
  <2>5. QED
    BY <2>2, <2>3, <2>4 DEF PlanIsCurrent
<1>6. ASSUME BeginRound \/ Interrupted \/ Cleared \/ Yield \/ FirstSubmitted \/ PlanEnds \/ RequestRepeated
      PROVE  PlanIsCurrent'
  <2>1. pc' # "sleeping"
    BY <1>6 DEF RequestRepeated, BeginRound, Interrupted, Begin, Cleared, Yield, FirstSubmitted, PlanEnds, Answered
  <2>2. QED
    BY <2>1 DEF PlanIsCurrent
<1>7. ASSUME RoundFails \/ Restart
      PROVE  PlanIsCurrent'
  BY <1>7 DEF RoundFails, Restart, PlanIsCurrent
<1>8. ASSUME UNCHANGED vars
      PROVE  PlanIsCurrent'
  BY <1>8 DEF vars, SchedulerInv, PlanIsCurrent, Ahead, InRange, serverVars, archiveVars, workerVars
<1>9. QED
  BY <1>1, <1>2, <1>3, <1>4, <1>5, <1>6, <1>7, <1>8 DEF Next, Polling, WorkerStep

(* The inductive invariant of Scheduler.                                   *)
THEOREM SchedulerInvariant == Spec => []SchedulerInv
<1>1. SchedulerInv /\ [Next]_vars => SchedulerInv'
  BY ScheduleInvStep, NeedStep, CurrentStep DEF SchedulerInv
<1>2. QED
  BY <1>1, SchedulerInit, PTL DEF Spec

(* Types: a round starts after the present slot, observations lie within   *)
(* the horizon.                                                            *)
THEOREM SchedulerTypes == Spec => []TypeOK
<1>1. SchedulerInv => TypeOK
  BY DEF SchedulerInv, ScheduleInv
<1>2. QED
  BY <1>1, SchedulerInvariant, PTL

(* However rounds are interrupted, repeated in part, fail or end with the   *)
(* module: of two rounds' observations to come, those of the later start    *)
(* are the only ones from that start on, and what the last round finds      *)
(* ahead from its own start is its plan and nothing else.                  *)
THEOREM RoundsOwnTheirTime == Spec => []PlansOwnTheirTime
<1>1. SchedulerInv => PlansOwnTheirTime
  BY DEF SchedulerInv, ScheduleInv
<1>2. QED
  BY <1>1, SchedulerInvariant, PTL

(* At rest the schedule is a plan made from the known tasks.               *)
THEOREM RestingPlanIsCurrent == Spec => []PlanIsCurrent
<1>1. SchedulerInv => PlanIsCurrent
  BY DEF SchedulerInv
<1>2. QED
  BY <1>1, SchedulerInvariant, PTL

(* Only PlanEnds goes on to submit the rest of a plan.                     *)
LEMMA OnlyPlanEnds ==
  ASSUME [Next]_vars, pc # "completing", pc' = "completing"
  PROVE  PlanEnds
<1>1. ~UNCHANGED pc
  OBVIOUS
<1>2. ~(ChangeTasks \/ Tick \/ Polling \/ PollFails \/ Run \/ OnEvent \/ UNCHANGED vars)
  BY <1>1 DEF ChangeTasks, Tick, Polling, PollMarker, ServerAnswers, PollApplies, PollFails,
    Run, OnEvent, Request, workerVars, vars
<1>3. ~(BeginRound \/ Interrupted \/ Cleared \/ Yield \/ FirstSubmitted \/ RestSubmitted)
  BY DEF BeginRound, Interrupted, Begin, Cleared, Yield, FirstSubmitted, RestSubmitted, Answered
<1>4. ~(RequestRepeated \/ RoundFails \/ Restart)
  BY DEF RequestRepeated, RoundFails, Restart
<1>5. QED
  BY <1>2, <1>3, <1>4 DEF Next, WorkerStep

(* A plan that became outdated while it was made is not submitted further. *)
THEOREM OutdatedPlansAreGivenUp == Spec => OutdatedPlanIsGivenUp
<1> DEFINE GivenUp == pc # "completing" /\ pc' = "completing" => ignored \/ (input = known /\ ~requested)
<1>1. SchedulerInv /\ [Next]_vars => [GivenUp]_vars
  <2> SUFFICES ASSUME SchedulerInv, [Next]_vars, pc # "completing", pc' = "completing"
               PROVE  ignored \/ (input = known /\ ~requested)
    OBVIOUS
  <2>1. pc = "planning" /\ ~need
    BY OnlyPlanEnds DEF PlanEnds
  <2>2. QED
    BY <2>1 DEF SchedulerInv, NeedIsKept
<1>2. QED
  BY <1>1, SchedulerInvariant, PTL DEF Spec, OutdatedPlanIsGivenUp

-----------------------------------------------------------------------------
(* What plans are made from, and what rounds do to the schedule.           *)

(* The archive does not go to sleep with wrong tasks: unless the marker     *)
(* tells it to ask again, its copy is what the server has.                 *)
KnownIsFresh ==
  ~moved => /\ poll = "asleep" => known = tasks
            /\ poll = "answered" => answer = tasks

(* The planner plans no task that it has not been given.                   *)
PlansItsInput == \A o \in plan : o.task \in input

(* When the archive has nothing to download and the worker nothing to do,   *)
(* the schedule serves the server's tasks of this moment: the last plan was *)
(* made from them, all of it is on the schedule, and nothing else lies      *)
(* ahead there; in particular no task that has been removed.               *)
QuietPlanServesServer ==
  /\ poll = "asleep" /\ ~moved /\ updated
  /\ pc = "sleeping" /\ ~need /\ ~failed /\ ~ignored
  => /\ input = tasks /\ Ahead(schedule) = Ahead(plan)
     /\ \A o \in Ahead(schedule) : o.task \in tasks

(* What is on the schedule stays there until it is over, unless a round     *)
(* clears it that starts no later; and what comes there belongs to the plan *)
(* of a round that has nothing of other rounds ahead from its start on,     *)
(* also if a request is repeated, the round fails or the module ends.      *)
RoundsKeepToTheirPart ==
  /\ \A o \in schedule \ schedule' :
       o.last < now' \/ (pc = "clearing" /\ o.first >= start)
  /\ \A o \in schedule' \ schedule :
       /\ pc \in {"submitting", "completing"}
       /\ Asked(o) \in plan /\ o.first >= start /\ o.task \in input
       /\ Ahead(schedule) \subseteq plan

LEMMA FreshStep ==
  ASSUME SchedulerInv, KnownIsFresh, PlansItsInput, [Next]_vars
  PROVE  KnownIsFresh' /\ PlansItsInput'
<1> DEFINE Kept == KnownIsFresh' /\ PlansItsInput'
<1> USE DEF KnownIsFresh, PlansItsInput, serverVars, archiveVars, workerVars, counters
<1>1. ASSUME ChangeTasks \/ Tick \/ PollMarker \/ ServerAnswers \/ PollFails
      PROVE  Kept
  BY <1>1 DEF ChangeTasks, Tick, PollMarker, ServerAnswers, PollFails
<1>2. ASSUME PollApplies
      PROVE  Kept
  BY <1>2 DEF PollApplies, UpdateSchedule
<1>3. ASSUME Run \/ OnEvent
      PROVE  Kept
  BY <1>3 DEF Run, OnEvent, Request
<1>4. ASSUME BeginRound \/ Interrupted
      PROVE  Kept
  BY <1>4 DEF BeginRound, Interrupted, Begin
<1>5. ASSUME Yield
      PROVE  Kept
  <2>1. PICK t \in input, f, l \in start..Horizon :
          plan' = plan \cup {[first |-> f, last |-> l, task |-> t, since |-> start,
                             post |-> IF plan = {} THEN 1 ELSE 2, try |-> 1]}
    BY <1>5 DEF Yield
  <2>2. PlansItsInput'
    BY <1>5, <2>1 DEF Yield
  <2>3. KnownIsFresh'
    BY <1>5 DEF Yield
  <2>4. QED
    BY <2>2, <2>3
<1>6. ASSUME FirstSubmitted \/ PlanEnds \/ RestSubmitted
      PROVE  Kept
  BY <1>6 DEF FirstSubmitted, PlanEnds, RestSubmitted, Answered
<1>7. ASSUME RequestRepeated \/ RoundFails \/ Restart
      PROVE  Kept
  BY <1>7 DEF RequestRepeated, RoundFails, Restart
<1>8. ASSUME UNCHANGED vars
      PROVE  Kept
  BY <1>8 DEF vars
<1>9. ASSUME Cleared
      PROVE  Kept
  BY <1>9 DEF SchedulerInv, ScheduleInv, PlanIsSubmitted, Cleared, Answered
<1>10. QED
  BY <1>1, <1>2, <1>3, <1>4, <1>5, <1>6, <1>7, <1>8, <1>9 DEF Next, Polling, WorkerStep

LEMMA FreshInvariant == Spec => [](KnownIsFresh /\ PlansItsInput)
<1>1. Init => KnownIsFresh /\ PlansItsInput
  BY DEF Init, KnownIsFresh, PlansItsInput
<1>2. SchedulerInv /\ KnownIsFresh /\ PlansItsInput /\ [Next]_vars
        => KnownIsFresh' /\ PlansItsInput'
  BY FreshStep
<1>3. QED
  BY <1>1, <1>2, SchedulerInvariant, PTL DEF Spec

(* The safety half of TasksCatchUp: who has nothing to download is up to    *)
(* date, however changes, answers and failed polls are mixed.              *)
THEOREM SleepingArchiveIsFresh == Spec => []KnownIsFresh
<1>1. KnownIsFresh /\ PlansItsInput => KnownIsFresh
  OBVIOUS
<1>2. QED
  BY <1>1, FreshInvariant, PTL

(* From the server's tasks through the archive, the worker and the planner  *)
(* to the server's schedule: nothing is out of date when all are quiet.     *)
THEOREM QuietScheduleServesTasks == Spec => []QuietPlanServesServer
<1>1. SchedulerInv /\ KnownIsFresh /\ PlansItsInput => QuietPlanServesServer
  <2> SUFFICES ASSUME SchedulerInv, KnownIsFresh, PlansItsInput,
                      poll = "asleep", ~moved, updated,
                      pc = "sleeping", ~need, ~failed, ~ignored
               PROVE  /\ input = tasks /\ Ahead(schedule) = Ahead(plan)
                      /\ \A o \in Ahead(schedule) : o.task \in tasks
    BY DEF QuietPlanServesServer
  <2>1. input = known /\ known = tasks /\ Ahead(schedule) = Ahead(plan)
    BY DEF SchedulerInv, PlanIsCurrent, KnownIsFresh
  <2>2. \A o \in Ahead(plan) : o.task \in input
    <3>1. plan \subseteq Observation /\ 1 \in 1..Tries
      BY SchedulerAssumption DEF SchedulerInv, ScheduleInv, TypeOK
    <3>2. \A o \in plan : Asked(o).task = o.task
      BY <3>1, AttemptIsSame
    <3>3. QED
      BY <3>2 DEF PlansItsInput, Ahead
  <2>3. QED
    BY <2>1, <2>2
<1>2. QED
  BY <1>1, SchedulerInvariant, FreshInvariant, PTL

LEMMA RoundsStep ==
  ASSUME SchedulerInv, PlansItsInput, [Next]_vars
  PROVE  RoundsKeepToTheirPart
<1>1. \/ UNCHANGED schedule \/ schedule' \in Effects
      \/ schedule' = {o \in schedule : o.last >= now'} /\ now' = now + 1
  BY DEF Next, Polling, WorkerStep, ChangeTasks, Tick, PollMarker, ServerAnswers, PollApplies,
    PollFails, Run, OnEvent, Request, BeginRound, Interrupted, Begin, Cleared, Yield,
    FirstSubmitted, PlanEnds, RestSubmitted, Answered, RequestRepeated, RoundFails, Restart,
    serverVars, vars
<1>2. CASE schedule' = {o \in schedule : o.last >= now'} /\ now' = now + 1
  <2>1. now \in Nat /\ schedule \subseteq Observation
    BY SchedulerAssumption DEF SchedulerInv, ScheduleInv, TypeOK
  <2>2. QED
    BY <1>2, <2>1, ObservationFields DEF RoundsKeepToTheirPart
<1>3. CASE schedule' \in Effects
  <2>1. /\ ScheduleInv
        /\ pc \in {"submitting", "completing"} => Ahead(schedule) \subseteq plan
    BY DEF SchedulerInv, ScheduleInv, PlansOwnTheirTime, HasCleared
  <2>2. \A o \in schedule' \ schedule : o.task \in input
    BY <1>3, <2>1, EffectsAreOrderly DEF PlansItsInput
  <2>3. QED
    BY <1>3, <2>1, <2>2, EffectsAreOrderly DEF RoundsKeepToTheirPart
<1>4. QED
  BY <1>1, <1>2, <1>3 DEF RoundsKeepToTheirPart

(* No round cancels what begins before its start, or submits anything while *)
(* an observation of another round is ahead from its start on.             *)
THEOREM RoundsAreContained == Spec => [][RoundsKeepToTheirPart]_vars
<1>1. SchedulerInv /\ KnownIsFresh /\ PlansItsInput /\ [Next]_vars
        => [RoundsKeepToTheirPart]_vars
  BY RoundsStep
<1>2. QED
  BY <1>1, SchedulerInvariant, FreshInvariant, PTL DEF Spec
=============================================================================
