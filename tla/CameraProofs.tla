---------------------------- MODULE CameraProofs ----------------------------
(***************************************************************************)
(* Theorems about Camera, for any number of clients and sequences.  What    *)
(* they say of exclusion holds with LocalComm: the argument is that a task *)
(* in an await of the backend is the one that is running.                  *)
(***************************************************************************)
EXTENDS Camera, TLAPS

(* t has claimed the camera: its grab has set a status other than idle and *)
(* not set it back yet.                                                    *)
Claims(t) ==
  \/ pc[t] \in {"headers", "exposing", "reading", "saving"}
  \/ pc[t] = "state" /\ change[t] \in {"begin", "readout"}
  \/ pc[t] = "event" /\ change[t] = "readout"

(* t is about to start an exposure.                                        *)
Starts(t) ==
  \/ pc[t] \in {"event", "state"} /\ change[t] = "begin"
  \/ pc[t] = "headers"

(* With LocalComm a task that has come to an await of the backend has not  *)
(* been suspended.                                                         *)
NotSuspended == \A t \in Task : pc[t] \in CommAwaits => running = t

GrabsAlone == \A t, u \in Task : InGrab(t) /\ InGrab(u) => t = u

ClaimIsVisible == \A t \in Task : Claims(t) => status # "idle"

AbortHolds == aborted => countLeft <= 0 /\ \A t \in Task : ~Starts(t)

LocalInv == NotSuspended /\ GrabsAlone /\ ClaimIsVisible /\ AbortHolds

CameraInv == TypeOK /\ (comm = "local" => LocalInv)

-----------------------------------------------------------------------------

LEMMA CameraInit ==
  ASSUME Init
  PROVE  CameraInv
<1>1. TypeOK
  <2>1. /\ exposure \in BOOLEAN /\ exposeAbort \in BOOLEAN /\ hwExposing \in BOOLEAN
        /\ delayAbort \in BOOLEAN /\ aborted \in BOOLEAN
    BY ZenonT(10) DEF Init
  <2>2. QED
    BY <2>1, CameraAssumption DEF Init, TypeOK, Changes
<1>2. LocalInv
  BY DEF Init, LocalInv, NotSuspended, GrabsAlone, ClaimIsVisible, AbortHolds, CommAwaits,
    InGrab, Claims, Starts
<1>3. QED
  BY <1>1, <1>2 DEF CameraInv

(* Nobody else is in a grab when one begins: with the status idle it would *)
(* have to be in an await of the backend, and so be running.               *)
LEMMA BeginsAlone ==
  ASSUME LocalInv, TypeOK, NEW t \in Task, status = "idle", running \in {None, t},
         NEW u \in Task, u # t
  PROVE  ~InGrab(u)
BY CameraAssumption DEF LocalInv, NotSuspended, ClaimIsVisible, InGrab, Claims, CommAwaits, TypeOK, Changes

(* The flags stay flags: every action sets one of them or leaves it alone.  *)
LEMMA FlagsStep ==
  ASSUME TypeOK, [Next]_vars
  PROVE  /\ exposure' \in BOOLEAN /\ exposeAbort' \in BOOLEAN /\ hwExposing' \in BOOLEAN
         /\ delayAbort' \in BOOLEAN /\ aborted' \in BOOLEAN
<1> DEFINE Kept ==
      /\ exposure' = FALSE \/ exposure' = TRUE \/ exposure' = exposure
      /\ exposeAbort' = FALSE \/ exposeAbort' = TRUE \/ exposeAbort' = exposeAbort
      /\ hwExposing' = FALSE \/ hwExposing' = TRUE \/ hwExposing' = hwExposing
      /\ delayAbort' = FALSE \/ delayAbort' = TRUE \/ delayAbort' = delayAbort
      /\ aborted' = FALSE \/ aborted' = TRUE \/ aborted' = aborted
<1> USE DEF detector, sequence
<1>1. ASSUME NEW t \in Clients, Calls(t) \/ AbortReturns(t) \/ \E r \in Runs : CreateRun(t, r)
      PROVE  Kept
  BY <1>1 DEF Calls, CallGrab, CallSequence, CallAbortSequence, CallAbort, AbortReturns, CreateRun
<1>2. ASSUME NEW r \in Runs, RunStep(r)
      PROVE  Kept
  BY <1>2 DEF RunStep, RunTurn, RunCounted, RunEnds
<1>3. ASSUME NEW t \in Task, GrabStep(t)
      PROVE  Kept
  BY <1>3 DEF GrabStep, SetStatus, StatusPublished, AbortedRaised, GrabReturns, StartExposure,
    ExposureAborted, ExposureEnds, ReadOut, Saved
<1>4. ASSUME NEW t \in Task, Fails(t)
      PROVE  Kept
  BY <1>4 DEF Fails, GrabBackendFails, ExposeBackendFails, CountBackendFails, ImageFails
<1>5. ASSUME UNCHANGED vars
      PROVE  Kept
  BY <1>5 DEF vars
<1>6. Kept
  BY <1>1, <1>2, <1>3, <1>4, <1>5 DEF Next
<1>7. QED
  BY <1>6, ZenonT(20) DEF TypeOK

(* What a step does to the control state and the counters stays in type.   *)
LEMMA CameraTypeStep ==
  ASSUME TypeOK, [Next]_vars
  PROVE  TypeOK'
<1> DEFINE Typed ==
      /\ comm' \in {"local", "xmpp"}
      /\ running' \in Task \cup {None}
      /\ pc' \in [Task -> CommAwaits \cup OtherAwaits \cup {"none"}]
      /\ change' \in [Task -> Changes]
      /\ status' \in {"idle", "exposing", "readout"}
      /\ countLeft' \in Int /\ countLeft' <= MaxCount
      /\ shown' \in Int /\ shown' <= MaxCount
      /\ calls' \in 0..MaxCalls /\ faults' \in 0..MaxFaults
<1> USE CameraAssumption
    DEF TypeOK, CommAwaits, OtherAwaits, Changes, Await, Finish, ChangeStatus, BeginGrab, EndRun,
        Raise, ImageTaken, detector, sequence, control, StatusAfter, Task
<1>1. ASSUME NEW t \in Clients, Calls(t)
      PROVE  Typed
  BY <1>1 DEF Calls, Call, CallGrab, CallSequence, CallAbortSequence, CallAbort
<1>2. ASSUME NEW t \in Clients, AbortReturns(t) \/ \E r \in Runs : CreateRun(t, r)
      PROVE  Typed
  BY <1>2 DEF AbortReturns, CreateRun
<1>3. ASSUME NEW r \in Runs, RunStep(r)
      PROVE  Typed
  BY <1>3 DEF RunStep, RunTurn, RunCounted, RunEnds
<1>4. ASSUME NEW t \in Task, GrabStep(t)
      PROVE  Typed
  <2>1. CASE SetStatus(t) \/ StatusPublished(t) \/ AbortedRaised(t)
    BY <1>4, <2>1 DEF SetStatus, StatusPublished, AbortedRaised
  <2>2. CASE GrabReturns(t)
    BY <1>4, <2>2 DEF GrabReturns
  <2>3. CASE StartExposure(t) \/ ExposureAborted(t) \/ ExposureEnds(t) \/ ReadOut(t) \/ Saved(t)
    BY <1>4, <2>3 DEF StartExposure, ExposureAborted, ExposureEnds, ReadOut, Saved
  <2>4. QED
    BY <1>4, <2>1, <2>2, <2>3 DEF GrabStep
<1>5. ASSUME NEW t \in Task, Fails(t)
      PROVE  Typed
  <2>1. CASE GrabBackendFails(t)
    BY <2>1 DEF Fault, GrabBackendFails
  <2>2. CASE ExposeBackendFails(t)
    BY <2>2 DEF Fault, ExposeBackendFails
  <2>3. CASE CountBackendFails(t)
    BY <2>3 DEF Fault, CountBackendFails
  <2>4. CASE ImageFails(t)
    BY <2>4 DEF Fault, ImageFails, Resumes
  <2>5. QED
    BY <1>5, <2>1, <2>2, <2>3, <2>4 DEF Fails
<1>6. CASE UNCHANGED vars
  BY <1>6 DEF vars
<1>7. Typed
  BY <1>1, <1>2, <1>3, <1>4, <1>5, <1>6 DEF Next
<1>8. QED
  BY <1>7, FlagsStep DEF TypeOK

-----------------------------------------------------------------------------

(* With LocalComm, a step preserves LocalInv.                              *)
LEMMA LocalStep ==
  ASSUME TypeOK, comm = "local", LocalInv, [Next]_vars
  PROVE  LocalInv'
<1> USE CameraAssumption
    DEF TypeOK, LocalInv, NotSuspended, GrabsAlone, ClaimIsVisible, AbortHolds, Claims, Starts, InGrab,
        CommAwaits, Changes, Await, Finish, ChangeStatus, BeginGrab, EndRun, Raise, ImageTaken,
        Resumes, MoreToTake, detector, sequence, control, StatusAfter, Task
<1>1. ASSUME NEW t \in Clients, CallGrab(t)
      PROVE  LocalInv'
  BY <1>1, BeginsAlone DEF CallGrab, Call
<1>2. ASSUME NEW t \in Clients, CallSequence(t)
      PROVE  LocalInv'
  BY <1>2 DEF CallSequence, Call
<1>3. ASSUME NEW t \in Clients, CallAbortSequence(t)
      PROVE  LocalInv'
  BY <1>3 DEF CallAbortSequence, Call
<1>4. ASSUME NEW t \in Clients, CallAbort(t)
      PROVE  LocalInv'
  BY <1>4 DEF CallAbort, Call
<1>5. ASSUME NEW t \in Clients, AbortReturns(t)
      PROVE  LocalInv'
  BY <1>5 DEF AbortReturns
<1>6. ASSUME NEW t \in Clients, NEW r \in Runs, CreateRun(t, r)
      PROVE  LocalInv'
  BY <1>6 DEF CreateRun
<1>7. ASSUME NEW r \in Runs, RunTurn(r)
      PROVE  LocalInv'
  BY <1>7, BeginsAlone DEF RunTurn
<1>8. ASSUME NEW r \in Runs, RunCounted(r)
      PROVE  LocalInv'
  BY <1>8 DEF RunCounted
<1>9. ASSUME NEW r \in Runs, RunEnds(r)
      PROVE  LocalInv'
  BY <1>9 DEF RunEnds
<1>10. ASSUME NEW t \in Task, SetStatus(t)
       PROVE  LocalInv'
  BY <1>10 DEF SetStatus
<1>11. ASSUME NEW t \in Task, StatusPublished(t)
       PROVE  LocalInv'
  BY <1>11 DEF StatusPublished
<1>12. ASSUME NEW t \in Task, AbortedRaised(t)
       PROVE  LocalInv'
  BY <1>12 DEF AbortedRaised
<1>13. ASSUME NEW t \in Task, GrabReturns(t)
       PROVE  LocalInv'
  BY <1>13 DEF GrabReturns
<1>14. ASSUME NEW t \in Task, StartExposure(t)
       PROVE  LocalInv'
  BY <1>14 DEF StartExposure
<1>15. ASSUME NEW t \in Task, ExposureAborted(t)
       PROVE  LocalInv'
  BY <1>15 DEF ExposureAborted
<1>16. ASSUME NEW t \in Task, ExposureEnds(t)
       PROVE  LocalInv'
  BY <1>16 DEF ExposureEnds
<1>17. ASSUME NEW t \in Task, ReadOut(t) \/ Saved(t)
       PROVE  LocalInv'
  BY <1>17 DEF ReadOut, Saved
<1>18. ASSUME NEW t \in Task, Fails(t)
       PROVE  LocalInv'
  <2>1. ImageFails(t)
    BY <1>18 DEF Fails, GrabBackendFails, ExposeBackendFails, CountBackendFails
  <2>2. QED
    BY <2>1 DEF ImageFails
<1>19. CASE UNCHANGED vars
  BY <1>19 DEF vars
<1>20. QED
  BY <1>1, <1>2, <1>3, <1>4, <1>5, <1>6, <1>7, <1>8, <1>9, <1>10, <1>11, <1>12, <1>13, <1>14, <1>15,
     <1>16, <1>17, <1>18, <1>19 DEF Next, Calls, RunStep, GrabStep

(* The backend is chosen once and for all.                                 *)
LEMMA CommStays ==
  ASSUME [Next]_vars
  PROVE  comm' = comm
BY DEF Next, vars, Calls, CallGrab, CallSequence, CallAbortSequence, CallAbort, AbortReturns,
  CreateRun, RunStep, RunTurn, RunCounted, RunEnds, GrabStep, SetStatus, StatusPublished,
  AbortedRaised, GrabReturns, StartExposure, ExposureAborted, ExposureEnds, ReadOut, Saved,
  Fails, GrabBackendFails, ExposeBackendFails, CountBackendFails, ImageFails

LEMMA CameraStep ==
  ASSUME CameraInv, [Next]_vars
  PROVE  CameraInv'
BY CameraTypeStep, LocalStep, CommStays DEF CameraInv

THEOREM CameraInvariant == Spec => []CameraInv
<1>1. QED
  BY CameraInit, CameraStep, PTL DEF Spec

(* The types of the camera's state.                                        *)
THEOREM CameraTypes == Spec => []TypeOK
<1>1. QED
  BY CameraInvariant, PTL DEF CameraInv

(* With LocalComm an idle camera is free: a task in grab_data that has been *)
(* suspended has claimed the camera, and its claim shows in the status.    *)
THEOREM IdleCameraIsFree == Spec => []IdleMeansFree
<1>1. CameraInv => IdleMeansFree
  BY CameraAssumption
  DEF CameraInv, TypeOK, LocalInv, NotSuspended, ClaimIsVisible, Claims, InGrab, CommAwaits,
      IdleMeansFree, Changes
<1>2. QED
  BY <1>1, CameraInvariant, PTL

-----------------------------------------------------------------------------

Using == {t \in Task : comm = "local" /\ Exposes(t)}

Enters(t) == Using = {} /\ Using' = {t}

Leaves(t) == Using = {t} /\ Using' = {}

(* Only StartExposure makes a task use the detector, and it finds it free. *)
LEMMA StepOnDetector ==
  ASSUME CameraInv, [Next]_vars
  PROVE  \/ UNCHANGED Using
         \/ \E t \in Task : Leaves(t)
         \/ \E t \in Task : Enters(t) /\ StartExposure(t)
<1>1. CASE comm # "local"
  BY <1>1, CommStays DEF Using
<1>2. CASE comm = "local"
  <2>0. comm' = "local"
    BY <1>2, CommStays
  <2> USE <1>2, <2>0, CameraAssumption
      DEF CameraInv, TypeOK, Using, Enters, Leaves, Exposes, Await, Finish, ChangeStatus, BeginGrab,
          EndRun, Raise, ImageTaken, Resumes, detector, sequence, control, Task
  <2>1. \A t, u \in Task : Exposes(t) /\ Exposes(u) => t = u
    BY DEF LocalInv, GrabsAlone, InGrab
  <2>2. ASSUME NEW t \in Clients, Calls(t)
        PROVE  UNCHANGED Using
    BY <2>2 DEF Calls, Call, CallGrab, CallSequence, CallAbortSequence, CallAbort
  <2>3. ASSUME NEW t \in Clients, AbortReturns(t) \/ \E r \in Runs : CreateRun(t, r)
        PROVE  UNCHANGED Using
    BY <2>3 DEF AbortReturns, CreateRun
  <2>4. ASSUME NEW r \in Runs, RunStep(r)
        PROVE  UNCHANGED Using
    BY <2>4 DEF RunStep, RunTurn, RunCounted, RunEnds
  <2>5. ASSUME NEW t \in Task,
               SetStatus(t) \/ StatusPublished(t) \/ AbortedRaised(t) \/ GrabReturns(t)
               \/ ExposureEnds(t) \/ Saved(t)
        PROVE  UNCHANGED Using
    BY <2>5 DEF SetStatus, StatusPublished, AbortedRaised, GrabReturns, ExposureEnds, Saved
  <2>6. ASSUME NEW t \in Task, ExposureAborted(t) \/ ReadOut(t)
        PROVE  Leaves(t)
    BY <2>1, <2>6 DEF ExposureAborted, ReadOut
  <2>7. ASSUME NEW t \in Task, Fails(t)
        PROVE  Leaves(t) \/ UNCHANGED Using
    <3>1. ImageFails(t)
      BY <2>7 DEF Fails, GrabBackendFails, ExposeBackendFails, CountBackendFails
    <3>2. QED
      BY <2>1, <3>1 DEF ImageFails
  <2>8. ASSUME NEW t \in Task, StartExposure(t)
        PROVE  Enters(t)
    <3>1. \A u \in Task : ~Exposes(u)
      BY <2>8 DEF StartExposure, LocalInv, GrabsAlone, InGrab
    <3>2. QED
      BY <2>8, <3>1 DEF StartExposure
  <2>9. CASE UNCHANGED vars
    BY <2>9 DEF vars
  <2>10. QED
    BY <2>2, <2>3, <2>4, <2>5, <2>6, <2>7, <2>8, <2>9 DEF Next, GrabStep
<1>3. QED
  BY <1>1, <1>2

(* With LocalComm the camera implements exclusive use of its detector.     *)
THEOREM CameraImplementsExclusiveUse == Spec => OneExposureAtATime
<1>1. Init => Detector!Init
  BY DEF Init, Exposes, Detector!Init
<1>2. CameraInv /\ [Next]_vars => [Detector!Next]_Using
  BY StepOnDetector DEF Enters, Leaves, Using, Detector!Next, Detector!Begin, Detector!End
<1>3. QED
  BY <1>1, <1>2, CameraInvariant, PTL DEF Spec, OneExposureAtATime, Detector!Spec, Using

(* With LocalComm no exposure starts after an abort: whoever had passed the *)
(* check was exposing by the time abort was called, and the counter of the *)
(* sequence stays at or below zero.                                        *)
THEOREM AbortedCameraStaysAborted == Spec => AbortIsFinal
<1>1. ASSUME CameraInv, [Next]_vars, comm = "local", aborted, NEW t \in Task, Exposes(t)'
      PROVE  Exposes(t)
  <2>1. t \in Using'
    BY <1>1, CommStays DEF Using
  <2>2. \A u \in Task : ~StartExposure(u)
    BY <1>1 DEF StartExposure, Resumes, CameraInv, LocalInv, AbortHolds, Starts
  <2>3. QED
    BY <1>1, <2>1, <2>2, StepOnDetector DEF Using, Leaves, Enters
<1>2. CameraInv /\ [Next]_vars
        => [comm = "local" /\ aborted => \A t \in Task : Exposes(t)' => Exposes(t)]_vars
  BY <1>1
<1>3. QED
  BY <1>2, CameraInvariant, PTL DEF Spec, AbortIsFinal

-----------------------------------------------------------------------------

(* With LocalComm grab_data does what it says to a camera "already busy":   *)
(* two tasks never use the detector.                                       *)
THEOREM BusyLocalCameraRefuses == Spec => [](comm = "local" => BusyCameraRefuses)
<1>1. CameraInv => (comm = "local" => BusyCameraRefuses)
  BY DEF CameraInv, LocalInv, GrabsAlone, InGrab, Exposes, BusyCameraRefuses
<1>2. QED
  BY <1>1, CameraInvariant, PTL

(* An exposure that is under way when abort is called, with nothing asked   *)
(* for since, finds the event set and the simulated detector stopped.      *)
AbortIsSeen == aborted => exposeAbort /\ ~hwExposing

(* The counter of a sequence goes below zero by one at most, when the image *)
(* that was under way at an abort is counted, and only until that sequence  *)
(* has looked at it; -1 is the least that is published as what is left.    *)
CountNearZero ==
  /\ countLeft >= -1 /\ shown >= -1
  /\ countLeft < 0 => \E r \in Runs : pc[r] = "left"

LEMMA AbortSeenStep ==
  ASSUME CameraInv, comm = "local", AbortIsSeen, [Next]_vars
  PROVE  AbortIsSeen'
<1> USE DEF AbortIsSeen, detector
<1>1. ASSUME NEW t \in Clients, Calls(t) \/ AbortReturns(t) \/ \E r \in Runs : CreateRun(t, r)
      PROVE  AbortIsSeen'
  BY <1>1 DEF Calls, CallGrab, CallSequence, CallAbortSequence, CallAbort, AbortReturns, CreateRun
<1>2. ASSUME NEW r \in Runs, RunStep(r)
      PROVE  AbortIsSeen'
  BY <1>2 DEF RunStep, RunTurn, RunCounted, RunEnds
<1>3. ASSUME NEW t \in Task, StartExposure(t)
      PROVE  AbortIsSeen'
  BY <1>3 DEF StartExposure, Resumes, CameraInv, LocalInv, AbortHolds, Starts
<1>4. ASSUME NEW t \in Task,
             \/ SetStatus(t) \/ StatusPublished(t) \/ AbortedRaised(t) \/ GrabReturns(t)
             \/ ExposureAborted(t) \/ ExposureEnds(t) \/ ReadOut(t) \/ Saved(t)
      PROVE  AbortIsSeen'
  BY <1>4 DEF SetStatus, StatusPublished, AbortedRaised, GrabReturns, ExposureAborted, ExposureEnds,
    ReadOut, Saved
<1>5. ASSUME NEW t \in Task, Fails(t)
      PROVE  AbortIsSeen'
  BY <1>5 DEF Fails, GrabBackendFails, ExposeBackendFails, CountBackendFails, ImageFails
<1>6. CASE UNCHANGED vars
  BY <1>6 DEF vars
<1>7. QED
  BY <1>1, <1>2, <1>3, <1>4, <1>5, <1>6 DEF Next, GrabStep

LEMMA CountNearZeroStep ==
  ASSUME CameraInv, comm = "local", CountNearZero, [Next]_vars
  PROVE  CountNearZero'
<1> USE CameraAssumption
    DEF CameraInv, TypeOK, CountNearZero, Await, Finish, ChangeStatus, BeginGrab, EndRun, Raise,
        ImageTaken, Resumes, MoreToTake, detector, sequence, control, Task
<1>1. ASSUME NEW t \in Clients, Calls(t)
      PROVE  CountNearZero'
  BY <1>1 DEF Calls, Call, CallGrab, CallSequence, CallAbortSequence, CallAbort
<1>2. ASSUME NEW t \in Clients, AbortReturns(t) \/ \E r \in Runs : CreateRun(t, r)
      PROVE  CountNearZero'
  BY <1>2 DEF AbortReturns, CreateRun
<1>3. ASSUME NEW r \in Runs, RunStep(r)
      PROVE  CountNearZero'
  BY <1>3 DEF RunStep, RunTurn, RunCounted, RunEnds
<1>4. ASSUME NEW t \in Task, GrabReturns(t)
      PROVE  CountNearZero'
  <2>1. \A r \in Runs : pc[r] # "left"
    BY <1>4 DEF GrabReturns, LocalInv, NotSuspended, CommAwaits
  <2>2. countLeft >= 0
    BY <2>1
  <2>3. QED
    BY <1>4, <2>2 DEF GrabReturns
<1>5. ASSUME NEW t \in Task,
             \/ SetStatus(t) \/ StatusPublished(t) \/ AbortedRaised(t) \/ StartExposure(t)
             \/ ExposureAborted(t) \/ ExposureEnds(t) \/ ReadOut(t) \/ Saved(t)
      PROVE  CountNearZero'
  BY <1>5 DEF SetStatus, StatusPublished, AbortedRaised, StartExposure, ExposureAborted, ExposureEnds,
    ReadOut, Saved
<1>6. ASSUME NEW t \in Task, Fails(t)
      PROVE  CountNearZero'
  <2>1. ImageFails(t)
    BY <1>6 DEF Fails, GrabBackendFails, ExposeBackendFails, CountBackendFails
  <2>2. QED
    BY <2>1 DEF ImageFails
<1>7. CASE UNCHANGED vars
  BY <1>7 DEF vars
<1>8. QED
  BY <1>1, <1>2, <1>3, <1>4, <1>5, <1>6, <1>7 DEF Next, GrabStep

(* With LocalComm no abort is lost on an exposure, and the number of images *)
(* that are left is off by one at most.                                    *)
THEOREM LocalAbortAndCount == Spec => [](comm = "local" => AbortIsSeen /\ CountNearZero)
<1> DEFINE Inv == comm = "local" => AbortIsSeen /\ CountNearZero
<1>1. Init => Inv
  BY DEF Init, AbortIsSeen, CountNearZero
<1>2. CameraInv /\ Inv /\ [Next]_vars => Inv'
  BY CommStays, AbortSeenStep, CountNearZeroStep
<1>3. QED
  BY <1>1, <1>2, CameraInvariant, PTL DEF Spec

-----------------------------------------------------------------------------
(* What calls and sequences leave behind, with either backend: whatever is  *)
(* not as it was has a task that will clean it up.  Grabs may overlap and   *)
(* several sequences may work on one counter, so it need not be the task   *)
(* that has caused it.                                                     *)

(* t will still set the status IDLE, or has found it idle.                 *)
WillBeIdle(t) == InGrab(t) /\ ~(pc[t] = "state" /\ change[t] \in {"done", "failed"})

(* t will still reset _exposure.                                           *)
WillForgetExposure(t) ==
  \/ pc[t] \in {"exposing", "reading", "saving"}
  \/ pc[t] \in {"event", "state"} /\ change[t] \in {"readout", "aborted"}

(* t is a sequence that will still reset the counter, or will create one.   *)
WillResetCount(t) ==
  \/ t \in Clients /\ pc[t] = "count"
  \/ t \in Runs /\ pc[t] \notin {"none", "final"}

StatusIsCleaned == status # "idle" => \E t \in Task : WillBeIdle(t)

ExposureIsCleaned == exposure => \E t \in Task : WillForgetExposure(t)

CountIsCleaned == countLeft # 0 \/ shown # 0 => \E t \in Task : WillResetCount(t)

CleanInv ==
  TypeOK /\ (faults = 0 => StatusIsCleaned /\ ExposureIsCleaned /\ CountIsCleaned)

(* A step that ends in no fault has none before it, and is none.           *)
LEMMA NoFaultYet ==
  ASSUME TypeOK, [Next]_vars, faults' = 0
  PROVE  faults = 0 /\ \A t \in Task : ~Fails(t)
<1>1. \A t \in Task : ~Fails(t)
  <2>1. ~Fault
    BY CameraAssumption DEF TypeOK, Fault
  <2>2. QED
    BY <2>1 DEF Fails, GrabBackendFails, ExposeBackendFails, CountBackendFails, ImageFails
<1>2. QED
  BY <1>1 DEF Next, vars, Calls, CallGrab, CallSequence, CallAbortSequence, CallAbort, AbortReturns,
    CreateRun, RunStep, RunTurn, RunCounted, RunEnds, GrabStep, SetStatus, StatusPublished,
    AbortedRaised, GrabReturns, StartExposure, ExposureAborted, ExposureEnds, ReadOut, Saved

LEMMA StatusCleanStep ==
  ASSUME TypeOK, [Next]_vars, faults' = 0, StatusIsCleaned
  PROVE  StatusIsCleaned'
<1> USE CameraAssumption
    DEF TypeOK, StatusIsCleaned, WillBeIdle, InGrab, Changes, Await, Finish, ChangeStatus, BeginGrab,
        EndRun, Raise, ImageTaken, Resumes, detector, sequence, control, StatusAfter, Task
<1>1. ASSUME NEW t \in Clients, Calls(t)
      PROVE  StatusIsCleaned'
  BY <1>1 DEF Calls, Call, CallGrab, CallSequence, CallAbortSequence, CallAbort
<1>2. ASSUME NEW t \in Clients, AbortReturns(t) \/ \E r \in Runs : CreateRun(t, r)
      PROVE  StatusIsCleaned'
  BY <1>2 DEF AbortReturns, CreateRun
<1>3. ASSUME NEW r \in Runs, RunStep(r)
      PROVE  StatusIsCleaned'
  BY <1>3 DEF RunStep, RunTurn, RunCounted, RunEnds
<1>4. ASSUME NEW t \in Task, SetStatus(t)
      PROVE  StatusIsCleaned'
  BY <1>4 DEF SetStatus
<1>5. ASSUME NEW t \in Task, StatusPublished(t) \/ AbortedRaised(t) \/ GrabReturns(t)
      PROVE  StatusIsCleaned'
  BY <1>5 DEF StatusPublished, AbortedRaised, GrabReturns
<1>6. ASSUME NEW t \in Task, StartExposure(t) \/ ExposureAborted(t) \/ ExposureEnds(t)
      PROVE  StatusIsCleaned'
  BY <1>6 DEF StartExposure, ExposureAborted, ExposureEnds
<1>7. ASSUME NEW t \in Task, ReadOut(t) \/ Saved(t)
      PROVE  StatusIsCleaned'
  BY <1>7 DEF ReadOut, Saved
<1>8. CASE UNCHANGED vars
  BY <1>8 DEF vars
<1>9. QED
  BY <1>1, <1>2, <1>3, <1>4, <1>5, <1>6, <1>7, <1>8, NoFaultYet DEF Next, GrabStep

LEMMA ExposureCleanStep ==
  ASSUME TypeOK, [Next]_vars, faults' = 0, ExposureIsCleaned
  PROVE  ExposureIsCleaned'
<1> USE CameraAssumption
    DEF TypeOK, ExposureIsCleaned, WillForgetExposure, Changes, Await, Finish, ChangeStatus, BeginGrab,
        EndRun, Raise, ImageTaken, Resumes, detector, sequence, control, Task
<1>1. ASSUME NEW t \in Clients, Calls(t)
      PROVE  ExposureIsCleaned'
  BY <1>1 DEF Calls, Call, CallGrab, CallSequence, CallAbortSequence, CallAbort
<1>2. ASSUME NEW t \in Clients, AbortReturns(t) \/ \E r \in Runs : CreateRun(t, r)
      PROVE  ExposureIsCleaned'
  BY <1>2 DEF AbortReturns, CreateRun
<1>3. ASSUME NEW r \in Runs, RunStep(r)
      PROVE  ExposureIsCleaned'
  BY <1>3 DEF RunStep, RunTurn, RunCounted, RunEnds
<1>4. ASSUME NEW t \in Task, SetStatus(t) \/ StatusPublished(t) \/ AbortedRaised(t) \/ GrabReturns(t)
      PROVE  ExposureIsCleaned'
  BY <1>4 DEF SetStatus, StatusPublished, AbortedRaised, GrabReturns
<1>5. ASSUME NEW t \in Task, StartExposure(t) \/ ExposureAborted(t) \/ ExposureEnds(t)
      PROVE  ExposureIsCleaned'
  BY <1>5 DEF StartExposure, ExposureAborted, ExposureEnds
<1>6. ASSUME NEW t \in Task, ReadOut(t) \/ Saved(t)
      PROVE  ExposureIsCleaned'
  BY <1>6 DEF ReadOut, Saved
<1>7. CASE UNCHANGED vars
  BY <1>7 DEF vars
<1>8. QED
  BY <1>1, <1>2, <1>3, <1>4, <1>5, <1>6, <1>7, NoFaultYet DEF Next, GrabStep

LEMMA CountCleanStep ==
  ASSUME TypeOK, [Next]_vars, faults' = 0, CountIsCleaned
  PROVE  CountIsCleaned'
<1> USE CameraAssumption
    DEF TypeOK, CountIsCleaned, WillResetCount, Await, Finish, ChangeStatus, BeginGrab,
        EndRun, Raise, ImageTaken, Resumes, detector, sequence, control, Task
<1>1. ASSUME NEW t \in Clients, Calls(t)
      PROVE  CountIsCleaned'
  BY <1>1 DEF Calls, Call, CallGrab, CallSequence, CallAbortSequence, CallAbort
<1>2. ASSUME NEW t \in Clients, AbortReturns(t) \/ \E r \in Runs : CreateRun(t, r)
      PROVE  CountIsCleaned'
  BY <1>2 DEF AbortReturns, CreateRun
<1>3. ASSUME NEW r \in Runs, RunStep(r)
      PROVE  CountIsCleaned'
  BY <1>3 DEF RunStep, RunTurn, RunCounted, RunEnds
<1>4. ASSUME NEW t \in Task, SetStatus(t) \/ StatusPublished(t) \/ AbortedRaised(t)
      PROVE  CountIsCleaned'
  BY <1>4 DEF SetStatus, StatusPublished, AbortedRaised
<1>5. ASSUME NEW t \in Task, GrabReturns(t)
      PROVE  CountIsCleaned'
  BY <1>5 DEF GrabReturns
<1>6. ASSUME NEW t \in Task, StartExposure(t) \/ ExposureAborted(t) \/ ExposureEnds(t)
      PROVE  CountIsCleaned'
  BY <1>6 DEF StartExposure, ExposureAborted, ExposureEnds
<1>7. ASSUME NEW t \in Task, ReadOut(t) \/ Saved(t)
      PROVE  CountIsCleaned'
  BY <1>7 DEF ReadOut, Saved
<1>8. CASE UNCHANGED vars
  BY <1>8 DEF vars
<1>9. QED
  BY <1>1, <1>2, <1>3, <1>4, <1>5, <1>6, <1>7, <1>8, NoFaultYet DEF Next, GrabStep

(* A camera at rest is clean, with either backend: whatever a call or a     *)
(* sequence has changed is reset by a task that is still on its way, unless *)
(* something has failed.                                                   *)
THEOREM RestingCameraIsClean == Spec => []AtRestIsClean
<1>1. Init => CleanInv
  BY CameraInit
  DEF CameraInv, Init, CleanInv, StatusIsCleaned, ExposureIsCleaned, CountIsCleaned
<1>2. CleanInv /\ [Next]_vars => CleanInv'
  BY CameraTypeStep, NoFaultYet, StatusCleanStep, ExposureCleanStep, CountCleanStep DEF CleanInv
<1>3. CleanInv => AtRestIsClean
  BY DEF CleanInv, StatusIsCleaned, ExposureIsCleaned, CountIsCleaned, WillBeIdle, InGrab,
    WillForgetExposure, WillResetCount, AtRest, AtRestIsClean
<1>4. QED
  BY <1>1, <1>2, <1>3, PTL DEF Spec
=============================================================================
