------------------------------- MODULE Camera -------------------------------
(***************************************************************************)
(* A camera: BaseCamera's grab_data, grab_sequence, abort_sequence and      *)
(* abort, with the exposure of DummyCamera.  There is no lock: the handlers *)
(* keep out of each other's way by looking at _camera_status and            *)
(* _sequence_count_left, which is sound as long as a task is not suspended  *)
(* between a look and the assignment that follows.                         *)
(*                                                                         *)
(* Whether it is suspended depends on the backend.  The methods of LocalComm *)
(* are coroutines that never give up the event loop; those of XmppComm wait *)
(* for an answer of the server.  `running` is the task that goes on after  *)
(* such an await without anybody else having had a turn.  pc[t] names the   *)
(* await that task t has come to.                                          *)
(***************************************************************************)
EXTENDS Integers, FiniteSets

CONSTANTS
  Clients,           \* tasks that run a call, or the BadWeatherEvent handler
  Runs,              \* tasks that grab_sequence can create for _run_sequence
  None,              \* no task
  MaxCount,          \* bound: images in a sequence
  MaxCalls,          \* bound: calls in a behaviour
  MaxFaults          \* bound: failures in a behaviour

Task == Clients \cup Runs

ASSUME CameraAssumption ==
  /\ None \notin Task
  /\ Clients \cap Runs = {} /\ IsFiniteSet(Runs)
  /\ MaxCount \in Nat \ {0} /\ MaxCalls \in Nat /\ MaxFaults \in Nat

VARIABLES
  comm,              \* the backend of the module, "local" or "xmpp"
  running,           \* the task that has not been suspended, or None
  pc, change,        \* where a task is, and what a change of status is made for
  status,            \* _camera_status
  exposure,          \* _exposure is not None
  exposeAbort,       \* the event expose_abort
  hwExposing,        \* DummyCamera._exposing
  countLeft,         \* _sequence_count_left
  shown,             \* the count_left of the last DataSequenceState published
  delayAbort,        \* the event _sequence_delay_abort
  aborted,           \* history: abort has been called, and no grab since then
  calls, faults      \* what the bounds count

control  == <<running, pc, change>>
detector == <<status, exposure, exposeAbort, hwExposing>>
sequence == <<countLeft, shown, delayAbort>>
vars == <<comm, control, detector, sequence, aborted, calls, faults>>

(* The calls of _change_exposure_status: grab_data makes the first and the  *)
(* last one, after a success or a failure, and _expose those in between.   *)
StatusAfter(c) ==
  CASE c = "begin" -> "exposing"
    [] c = "readout" -> "readout"
    [] c \in {"aborted", "done", "failed"} -> "idle"

Changes == {"begin", "readout", "aborted", "done", "failed"}

(* What _change_exposure_status, request_fits_headers, grab_sequence and    *)
(* _run_sequence await of the backend.                                     *)
CommAwaits == {"event", "state", "headers", "count", "left", "final"}

(* What always suspends a task: timers, executors, files, a new task.      *)
OtherAwaits == {"exposing", "reading", "saving", "created", "delay", "waiting"}

TypeOK ==
  /\ comm \in {"local", "xmpp"}
  /\ running \in Task \cup {None}
  /\ pc \in [Task -> CommAwaits \cup OtherAwaits \cup {"none"}]
  /\ change \in [Task -> Changes]
  /\ status \in {"idle", "exposing", "readout"}
  /\ exposure \in BOOLEAN /\ exposeAbort \in BOOLEAN /\ hwExposing \in BOOLEAN
  /\ countLeft \in Int /\ countLeft <= MaxCount
  /\ shown \in Int /\ shown <= MaxCount
  /\ delayAbort \in BOOLEAN /\ aborted \in BOOLEAN
  /\ calls \in 0..MaxCalls /\ faults \in 0..MaxFaults

Init ==
  /\ comm \in {"local", "xmpp"}
  /\ running = None
  /\ pc = [t \in Task |-> "none"]
  /\ change = [t \in Task |-> "done"]
  /\ status = "idle"
  /\ exposure = FALSE /\ exposeAbort = FALSE /\ hwExposing = TRUE
  /\ countLeft = 0 /\ shown = 0
  /\ delayAbort = FALSE /\ aborted = FALSE
  /\ calls = 0 /\ faults = 0

-----------------------------------------------------------------------------

(* Task t goes on to the await a; LocalComm does not suspend it there.      *)
Await(t, a) ==
  /\ pc' = [pc EXCEPT ![t] = a]
  /\ running' = IF comm = "local" /\ a \in CommAwaits THEN t ELSE None

(* t is at the await a, and it is its turn.                                *)
Resumes(t, a) == pc[t] = a /\ running \in {None, t}

Finish(t) == Await(t, "none")

(* _change_exposure_status up to its first await.  The event goes out       *)
(* before the status is set, and only if the status is a new one.          *)
ChangeStatus(t, c) ==
  /\ change' = [change EXCEPT ![t] = c]
  /\ Await(t, IF status = StatusAfter(c) THEN "state" ELSE "event")

EndRunSilently(r) ==   \* wrong on purpose: does not publish that it is over
  /\ countLeft' = 0
  /\ Await(r, "final")
  /\ UNCHANGED shown

(* The `finally` of _run_sequence.                                         *)
EndRun(r) ==
  /\ countLeft' = 0
  /\ shown' = 0
  /\ Await(r, "final")

(* grab_data raises: a client gets the exception, a sequence ends.         *)
Raise(t) ==
  \/ t \in Clients /\ Finish(t) /\ UNCHANGED <<countLeft, shown>>
  \/ t \in Runs /\ EndRun(t)

(* grab_data returns: a sequence counts the image and says how many are    *)
(* left.  abort_sequence may have set the counter to 0 in the meantime.    *)
ImageTaken(t) ==
  \/ t \in Clients /\ Finish(t) /\ UNCHANGED <<countLeft, shown>>
  \/ /\ t \in Runs
     /\ countLeft' = countLeft - 1
     /\ shown' = countLeft - 1
     /\ Await(t, "left")

MoreToTakeUnsigned == countLeft # 0   \* wrong on purpose

MoreToTake == countLeft > 0

-----------------------------------------------------------------------------

(* grab_data up to its first await.                                        *)
BeginGrabUnchecked(t) == ChangeStatus(t, "begin")   \* wrong on purpose

BeginGrab(t) == status = "idle" /\ ChangeStatus(t, "begin")

(* A client calls a handler; Module.execute runs it.                       *)
Call(t) ==
  /\ t \in Clients
  /\ pc[t] = "none" /\ running = None
  /\ calls < MaxCalls
  /\ calls' = calls + 1

CallGrab(t) ==
  /\ Call(t)
  /\ BeginGrab(t)
  /\ aborted' = FALSE
  /\ UNCHANGED <<comm, detector, sequence, faults>>

CallSequenceAdds(t) ==   \* wrong on purpose: adds to a sequence that is running
  /\ Call(t)
  /\ status = "idle"
  /\ \E count \in 1..MaxCount : countLeft' = countLeft + count /\ shown' = count
  /\ Await(t, "count")
  /\ aborted' = FALSE
  /\ UNCHANGED <<comm, change, detector, delayAbort, faults>>

(* grab_sequence sets the counter before it awaits.                        *)
CallSequence(t) ==
  /\ Call(t)
  /\ ~MoreToTake /\ status = "idle"
  /\ \E count \in 1..MaxCount : countLeft' = count /\ shown' = count
  /\ Await(t, "count")
  /\ aborted' = FALSE
  /\ UNCHANGED <<comm, change, detector, delayAbort, faults>>

CallAbortSequence(t) ==
  /\ Call(t)
  /\ countLeft' = 0 /\ delayAbort' = TRUE
  /\ UNCHANGED <<comm, control, detector, shown, aborted, faults>>

(* abort, also called by _abort_weather: it returns once the camera is no   *)
(* longer exposing.                                                        *)
CallAbort(t) ==
  /\ Call(t)
  /\ exposeAbort' = TRUE /\ hwExposing' = FALSE
  /\ countLeft' = 0 /\ delayAbort' = TRUE
  /\ Await(t, IF status = "exposing" THEN "waiting" ELSE "none")
  /\ aborted' = TRUE
  /\ UNCHANGED <<comm, change, status, exposure, shown, faults>>

AbortReturnsInReadout(t) ==   \* wrong on purpose: waits for one status only
  /\ Resumes(t, "waiting")
  /\ status = "readout"
  /\ Finish(t)
  /\ UNCHANGED <<comm, change, detector, sequence, aborted, calls, faults>>

AbortReturns(t) ==
  /\ Resumes(t, "waiting")
  /\ status # "exposing"
  /\ Finish(t)
  /\ UNCHANGED <<comm, change, detector, sequence, aborted, calls, faults>>

-----------------------------------------------------------------------------

SetStatusIdle(t) ==   \* wrong on purpose: idle as soon as the shutter has closed
  /\ Resumes(t, "event")
  /\ status' = IF change[t] = "readout" THEN "idle" ELSE StatusAfter(change[t])
  /\ Await(t, "state")
  /\ UNCHANGED <<comm, change, exposure, exposeAbort, hwExposing, sequence, aborted, calls, faults>>

(* _change_exposure_status: the event is sent, the status is set ...       *)
SetStatus(t) ==
  /\ Resumes(t, "event")
  /\ status' = StatusAfter(change[t])
  /\ Await(t, "state")
  /\ UNCHANGED <<comm, change, exposure, exposeAbort, hwExposing, sequence, aborted, calls, faults>>

(* ... and published.  Then the caller goes on: to the FITS headers before *)
(* the exposure, to the readout, ...                                       *)
StatusPublished(t) ==
  /\ Resumes(t, "state")
  /\ \/ change[t] = "begin" /\ Await(t, "headers")
     \/ change[t] = "readout" /\ Await(t, "reading")
  /\ UNCHANGED <<comm, change, detector, sequence, aborted, calls, faults>>

(* ... to AbortedError, which __expose and grab_data pass on, ...          *)
AbortedRaised(t) ==
  /\ Resumes(t, "state") /\ change[t] = "aborted"
  /\ exposure' = FALSE
  /\ ChangeStatus(t, "failed")
  /\ UNCHANGED <<comm, status, exposeAbort, hwExposing, sequence, aborted, calls, faults>>

(* ... or out of grab_data.                                                *)
GrabReturns(t) ==
  /\ Resumes(t, "state")
  /\ \/ change[t] = "done" /\ ImageTaken(t)
     \/ change[t] = "failed" /\ Raise(t)
  /\ UNCHANGED <<comm, change, detector, delayAbort, aborted, calls, faults>>

(* __expose resets the event and starts the exposure.                      *)
StartExposure(t) ==
  /\ Resumes(t, "headers")
  /\ exposeAbort' = FALSE /\ exposure' = TRUE /\ hwExposing' = TRUE
  /\ Await(t, "exposing")
  /\ UNCHANGED <<comm, change, status, sequence, aborted, calls, faults>>

(* DummyCamera._expose sleeps ten times and looks before each sleep whether *)
(* it shall stop, not after the last one: the exposure may also end.       *)
ExposureAborted(t) ==
  /\ Resumes(t, "exposing")
  /\ exposeAbort \/ ~hwExposing
  /\ hwExposing' = FALSE
  /\ ChangeStatus(t, "aborted")
  /\ UNCHANGED <<comm, status, exposure, exposeAbort, sequence, aborted, calls, faults>>

ExposureEnds(t) ==
  /\ Resumes(t, "exposing")
  /\ hwExposing' = FALSE
  /\ ChangeStatus(t, "readout")
  /\ UNCHANGED <<comm, status, exposure, exposeAbort, sequence, aborted, calls, faults>>

ReadOut(t) ==
  /\ Resumes(t, "reading")
  /\ Await(t, "saving")
  /\ UNCHANGED <<comm, change, detector, sequence, aborted, calls, faults>>

(* The headers are added, the image is written and NewImageEvent is sent.  *)
Saved(t) ==
  /\ Resumes(t, "saving")
  /\ exposure' = FALSE
  /\ ChangeStatus(t, "done")
  /\ UNCHANGED <<comm, status, exposeAbort, hwExposing, sequence, aborted, calls, faults>>

-----------------------------------------------------------------------------

(* grab_sequence has published its count and creates the task.             *)
CreateRun(t, r) ==
  /\ Resumes(t, "count") /\ t \in Clients
  /\ pc[r] = "none"
  /\ pc' = [pc EXCEPT ![t] = "none", ![r] = "created"]
  /\ running' = None
  /\ UNCHANGED <<comm, change, detector, sequence, aborted, calls, faults>>

(* _run_sequence starts, or its delay is over or has been cut short.  A     *)
(* delay of zero is one that is over at once.                              *)
RunTurn(r) ==
  /\ Resumes(r, "created") \/ Resumes(r, "delay")
  /\ IF MoreToTake /\ status = "idle"
     THEN BeginGrab(r) /\ UNCHANGED <<countLeft, shown>>
     ELSE EndRun(r) /\ UNCHANGED change
  /\ UNCHANGED <<comm, detector, delayAbort, aborted, calls, faults>>

RunCounted(r) ==
  /\ Resumes(r, "left")
  /\ IF MoreToTake
     THEN delayAbort' = FALSE /\ Await(r, "delay") /\ UNCHANGED <<countLeft, shown>>
     ELSE EndRun(r) /\ UNCHANGED delayAbort
  /\ UNCHANGED <<comm, change, detector, aborted, calls, faults>>

RunEnds(r) ==
  /\ Resumes(r, "final")
  /\ Finish(r)
  /\ UNCHANGED <<comm, change, detector, sequence, aborted, calls, faults>>

-----------------------------------------------------------------------------

Fault == faults < MaxFaults /\ faults' = faults + 1

(* A call of XmppComm raises after its last attempt, in                    *)
(* _change_exposure_status for the first time (before the `try` of          *)
(* grab_data) or for the last time (in its `finally`), ...                 *)
GrabBackendFails(t) ==
  /\ Fault /\ comm = "xmpp"
  /\ pc[t] \in {"event", "state"} /\ change[t] \in {"begin", "done", "failed"}
  /\ Raise(t)
  /\ UNCHANGED <<comm, change, detector, delayAbort, aborted, calls>>

(* ... within __expose ...                                                 *)
ExposeBackendFails(t) ==
  /\ Fault /\ comm = "xmpp"
  /\ \/ pc[t] \in {"event", "state"} /\ change[t] \in {"aborted", "readout"} /\ exposure' = FALSE
     \/ pc[t] = "headers" /\ UNCHANGED exposure
  /\ ChangeStatus(t, "failed")
  /\ UNCHANGED <<comm, status, exposeAbort, hwExposing, sequence, aborted, calls>>

(* ... or in the publishing of a count.                                    *)
CountBackendFails(t) ==
  /\ Fault /\ comm = "xmpp"
  /\ \/ pc[t] \in {"count", "final"} /\ Finish(t) /\ UNCHANGED <<countLeft, shown>>
     \/ pc[t] = "left" /\ EndRun(t)
  /\ UNCHANGED <<comm, change, detector, delayAbort, aborted, calls>>

(* The image cannot be had, or not be saved: a failing upload, the one that *)
(* raises ValueError, does not reset _exposure.                            *)
ImageFails(t) ==
  /\ Fault
  /\ \/ Resumes(t, "reading") /\ exposure' = FALSE
     \/ Resumes(t, "saving") /\ exposure' \in {FALSE, exposure}
  /\ ChangeStatus(t, "failed")
  /\ UNCHANGED <<comm, status, exposeAbort, hwExposing, sequence, aborted, calls>>

-----------------------------------------------------------------------------

GrabStep(t) ==
  \/ SetStatus(t) \/ StatusPublished(t) \/ AbortedRaised(t) \/ GrabReturns(t)
  \/ StartExposure(t) \/ ExposureAborted(t) \/ ExposureEnds(t) \/ ReadOut(t) \/ Saved(t)

RunStep(r) == RunTurn(r) \/ RunCounted(r) \/ RunEnds(r)

Calls(t) == CallGrab(t) \/ CallSequence(t) \/ CallAbortSequence(t) \/ CallAbort(t)

Fails(t) ==
  GrabBackendFails(t) \/ ExposeBackendFails(t) \/ CountBackendFails(t) \/ ImageFails(t)

Next ==
  \/ \E t \in Clients : Calls(t) \/ AbortReturns(t) \/ \E r \in Runs : CreateRun(t, r)
  \/ \E r \in Runs : RunStep(r)
  \/ \E t \in Task : GrabStep(t) \/ Fails(t)

Spec == Init /\ [][Next]_vars

(* asyncio resumes every task whose await has ended; abort polls.          *)
Fairness ==
  /\ \A t \in Clients : WF_vars(AbortReturns(t)) /\ WF_vars(\E r \in Runs : CreateRun(t, r))
  /\ \A r \in Runs : WF_vars(RunStep(r))
  /\ \A t \in Task : WF_vars(GrabStep(t))

FairSpec == Spec /\ Fairness

-----------------------------------------------------------------------------

(* Task t uses the detector, from the start of the exposure to the end of   *)
(* the readout.                                                            *)
Exposes(t) ==
  \/ pc[t] \in {"exposing", "reading"}
  \/ pc[t] \in {"event", "state"} /\ change[t] = "readout"

(* t is in grab_data, after the check of the status.                       *)
InGrab(t) == pc[t] \in {"event", "state", "headers", "exposing", "reading", "saving"}

AtRest == \A t \in Task : pc[t] = "none"

(* With LocalComm exposures never overlap, whatever clients and sequences  *)
(* do: the camera uses its detector exclusively.                           *)
Detector == INSTANCE ExclusiveUse
  WITH User <- Task, using <- {t \in Task : comm = "local" /\ Exposes(t)}

OneExposureAtATime == Detector!Spec

(* With LocalComm the status can be relied on by whoever gets a turn: the  *)
(* camera says idle only when no task is anywhere in grab_data.             *)
IdleMeansFree ==
  comm = "local" /\ running = None /\ status = "idle" => \A t \in Task : ~InGrab(t)

(* Once all calls and sequences have ended, with none having failed, nothing *)
(* of them is left behind: the camera is idle, no exposure is under way, no *)
(* sequence is counted or shown.  This holds with both backends, also when  *)
(* grabs have overlapped or a counter went below zero.                     *)
AtRestIsClean ==
  AtRest /\ faults = 0 => status = "idle" /\ ~exposure /\ countLeft = 0 /\ shown = 0

(* abort is final: with LocalComm, no exposure starts after it until one is *)
(* asked for, also not of the sequence that was running, whose counter may *)
(* go below zero when the image that was under way is counted.             *)
AbortIsFinal ==
  [][comm = "local" /\ aborted => \A t \in Task : Exposes(t)' => Exposes(t)]_vars

(* Once no more calls come, every call and every sequence ends; abort does  *)
(* not wait for ever.  Failures are excluded: an EXPOSING that could not be *)
(* published stays.                                                        *)
EverythingEnds == []<>(AtRest \/ faults > 0)

(* grab_data promises DeviceBusyError "if the camera is already busy": two  *)
(* tasks never use the detector.  With XmppComm both may pass the check     *)
(* before one of them sets the status.                                     *)
BusyCameraRefuses == \A t, u \in Task : Exposes(t) /\ Exposes(u) => t = u

(* grab_sequence promises DeviceBusyError if the camera is "already running *)
(* a sequence": two sequences never run.  After abort_sequence the first    *)
(* one may still be in its delay.                                          *)
OneSequenceAtATime == \A r, s \in Runs : pc[r] # "none" /\ pc[s] # "none" => r = s
=============================================================================
