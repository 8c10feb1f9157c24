---------------------------- MODULE CallsProofs ----------------------------
(***************************************************************************)
(* A remote call keeps the promise of AtMostOnce for any number of calls,   *)
(* methods, lost stanzas and restarts of the module.  The invariant follows *)
(* an answer from the module to the caller: on the wire, in the task of a   *)
(* handler, in the future and at the caller it says what the module did.    *)
(***************************************************************************)
EXTENDS Calls, TLAPS

(* What the module has done about call i, if there is an answer of kind k.  *)
Vouched(i, k) ==
  /\ k \in {"response", "value"} => serve[i] = "returned"
  /\ k = "fault" => serve[i] \in {"returned", "raised", "refused"}
  /\ k \in {"error", "refused"} => serve[i] = "refused"

AnswersAreTrue ==
  /\ \A i \in Calls, k \in Answers : <<i, k>> \in wire \cup tasks => Vouched(i, k)
  /\ \A i \in Calls : Vouched(i, future[i]) /\ Vouched(i, pc[i])

(* A call has no future, and is nowhere, until it is made.                 *)
CallsAreMade ==
  \A i \in Calls :
    /\ pc[i] = "none" => serve[i] = "none" /\ future[i] = "none"
    /\ pc[i] # "none" => serve[i] # "none" /\ future[i] # "none"

(* Methods run, and severe exceptions are raised, in a module that has been *)
(* opened, or that reset_error has made ready.                             *)
ModuleLives ==
  /\ state \in {"ready", "error"} \/ severe > 0 => opened \/ recovered
  /\ \A i \in Calls :
       /\ serve[i] \in {"arrived", "runs"} => state # "closed"
       /\ serve[i] = "runs" => opened \/ recovered

CallsInv ==
  TypeOK /\ PendingIsListed /\ AnswersAreTrue /\ CallsAreMade /\ ModuleLives

-----------------------------------------------------------------------------

LEMMA CallsInit == Init => CallsInv
<1> SUFFICES ASSUME Init PROVE CallsInv
  OBVIOUS
<1> USE CallsAssumption DEF Init
<1>1. CallerTypes /\ WireTypes
  BY DEF CallerTypes, WireTypes
<1>2. ModuleTypes
  <2>1. opened \in BOOLEAN /\ recovered \in BOOLEAN
    BY ZenonT(10)
  <2> QED
    BY <2>1 DEF ModuleTypes
<1>3. AnswersAreTrue
  BY DEF AnswersAreTrue, Vouched
<1>4. PendingIsListed /\ CallsAreMade /\ ModuleLives
  BY DEF PendingIsListed, CallsAreMade, ModuleLives
<1> QED
  BY <1>1, <1>2, <1>3, <1>4 DEF CallsInv, TypeOK

-----------------------------------------------------------------------------
(* The caller.                                                             *)

(* A step of the caller changes nothing at the module.                     *)
LEMMA ModuleFrame ==
  ASSUME ModuleTypes, ModuleLives, UNCHANGED <<serve, moduleVars>>
  PROVE  ModuleTypes' /\ ModuleLives'
BY DEF ModuleTypes, ModuleLives, moduleVars

LEMMA CallStep ==
  ASSUME CallsInv, NEW i \in Calls, NEW m \in Asks[i], Call(i, m)
  PROVE  CallsInv'
<1> USE DEF CallsInv, TypeOK, Call, Goto
<1>1. CallerTypes' /\ WireTypes'
  BY CallsAssumption DEF CallerTypes, WireTypes, Waiting
<1>2. ModuleTypes'
  BY DEF ModuleTypes, moduleVars
<1>3. PendingIsListed'
  BY DEF PendingIsListed, CallerTypes
<1>4. AnswersAreTrue'
  BY DEF AnswersAreTrue, Vouched, CallsAreMade, CallerTypes, ModuleTypes
<1>5. CallsAreMade'
  BY DEF CallsAreMade, CallerTypes, ModuleTypes
<1>6. ModuleLives'
  BY DEF ModuleLives, ModuleTypes, moduleVars
<1> QED
  BY <1>1, <1>2, <1>3, <1>4, <1>5, <1>6

(* What the caller does, apart from making a call and receiving answers.    *)
LEMMA CallerStep ==
  ASSUME CallsInv, NEW i \in Calls, Caller(i) \/ Cancel(i)
  PROVE  CallsInv'
<1> USE DEF CallsInv, TypeOK, Caller, Resume, IqTimeout, OnTimeout, Result, Cancel, Goto
<1>1. CallerTypes'
  BY DEF CallerTypes, CallsAreMade, Waiting, Outcomes
<1>2. WireTypes'
  BY DEF WireTypes
<1>3. ModuleTypes' /\ ModuleLives'
  BY ModuleFrame
<1>4. PendingIsListed'
  BY DEF PendingIsListed, CallerTypes
<1>5. AnswersAreTrue'
  BY DEF AnswersAreTrue, Vouched, CallerTypes
<1>6. CallsAreMade'
  BY DEF CallsAreMade, CallerTypes, Waiting
<1> QED
  BY <1>1, <1>2, <1>3, <1>4, <1>5, <1>6

LEMMA ArriveStep ==
  ASSUME CallsInv, NEW i \in Calls, NEW k \in Answers, Arrive(i, k)
  PROVE  CallsInv'
<1> USE DEF CallsInv, TypeOK, Arrive
<1>1. CallerTypes' /\ WireTypes'
  BY DEF CallerTypes, WireTypes, Waiting
<1>2. ModuleTypes' /\ ModuleLives'
  BY ModuleFrame
<1>3. PendingIsListed'
  BY DEF PendingIsListed
<1>4. AnswersAreTrue'
  BY DEF AnswersAreTrue, Vouched, CallerTypes, Answers, Final
<1>5. CallsAreMade'
  BY DEF CallsAreMade, CallerTypes
<1> QED
  BY <1>1, <1>2, <1>3, <1>4, <1>5

(* A handler settles the future with what its answer vouches for.          *)
LEMMA HandlerStep ==
  ASSUME CallsInv, NEW i \in Calls,
         MethodTimeout(i) \/ MethodResponse(i) \/ MethodFault(i) \/ RpcError(i)
  PROVE  CallsInv'
<1> USE DEF CallsInv, TypeOK, MethodTimeout, MethodResponse, MethodFault, RpcError,
            HandlerDone, Settle
<1>1. CallerTypes' /\ WireTypes'
  BY DEF CallerTypes, WireTypes, Outcomes
<1>2. ModuleTypes' /\ ModuleLives'
  BY ModuleFrame
<1>3. PendingIsListed'
  BY DEF PendingIsListed, CallerTypes, Outcomes
<1>4. AnswersAreTrue'
  BY DEF AnswersAreTrue, Vouched, CallerTypes, Answers, Final
<1>5. CallsAreMade'
  BY DEF CallsAreMade, CallerTypes
<1> QED
  BY <1>1, <1>2, <1>3, <1>4, <1>5

-----------------------------------------------------------------------------
(* The module.                                                             *)

(* A step of the module changes nothing at the caller.                     *)
LEMMA CallerFrame ==
  ASSUME CallerTypes, PendingIsListed, UNCHANGED callerVars
  PROVE  CallerTypes' /\ PendingIsListed'
BY DEF CallerTypes, PendingIsListed, callerVars

(* The handling of a call ends, or goes on, and answers truly.             *)
LEMMA ExecuteStep ==
  ASSUME CallsInv, NEW i \in Calls, Execute(i)
  PROVE  CallsInv'
<1> USE DEF CallsInv, TypeOK, Execute, Deliver, Refuse, Begin, RunAtOnce, GetPermittedMethods,
            ResetError, Return, Raise,
            Serve, Answer
<1>1. CallerTypes' /\ PendingIsListed'
  BY CallerFrame
<1>2. WireTypes'
  BY DEF WireTypes, Answers, Final, Announcements
<1>3. ModuleTypes'
  <2>1. opened' \in BOOLEAN /\ recovered' \in BOOLEAN
    BY ZenonT(10) DEF ModuleTypes, moduleVars
  <2> QED
    BY <2>1, CallsAssumption DEF ModuleTypes, moduleVars
<1>4. AnswersAreTrue'
  BY DEF AnswersAreTrue, Vouched, ModuleTypes, Announcements, callerVars
<1>5. CallsAreMade'
  BY DEF CallsAreMade, ModuleTypes, callerVars
<1>6. ModuleLives'
  BY CallsAssumption
  DEF ModuleLives, ModuleTypes, Permitted, Starting, Whitelist, InError, callerVars, moduleVars
<1> QED
  BY <1>1, <1>2, <1>3, <1>4, <1>5, <1>6

(* The module's own life, and what is lost on the way to or from it.        *)
LEMMA ModuleStep ==
  ASSUME CallsInv, Module \/ Lose
  PROVE  CallsInv'
<1> USE DEF CallsInv, TypeOK, Module, ErrorCallback, Startup, Quit, Restart, Lose, Serve
<1>1. CallerTypes' /\ PendingIsListed'
  BY CallerFrame
<1>2. WireTypes'
  BY CallsAssumption DEF WireTypes
<1>3. ModuleTypes'
  <2>1. opened' \in BOOLEAN /\ recovered' \in BOOLEAN
    BY ZenonT(10) DEF ModuleTypes, moduleVars
  <2> QED
    BY <2>1, CallsAssumption DEF ModuleTypes, moduleVars
<1>4. AnswersAreTrue'
  BY DEF AnswersAreTrue, Vouched, ModuleTypes, callerVars
<1>5. CallsAreMade'
  BY DEF CallsAreMade, ModuleTypes, callerVars
<1>6. ModuleLives'
  BY CallsAssumption DEF ModuleLives, ModuleTypes, moduleVars
<1> QED
  BY <1>1, <1>2, <1>3, <1>4, <1>5, <1>6

LEMMA CallsStep == CallsInv /\ [Next]_vars => CallsInv'
<1> SUFFICES ASSUME CallsInv, [Next]_vars PROVE CallsInv'
  OBVIOUS
<1>1. CASE UNCHANGED vars
  BY <1>1, CallerFrame, ModuleFrame
  DEF vars, callerVars, CallsInv, TypeOK, WireTypes, AnswersAreTrue, Vouched, CallsAreMade
<1> QED
  BY <1>1, CallStep, CallerStep, ArriveStep, HandlerStep, ExecuteStep, ModuleStep
  DEF Next, Receive

-----------------------------------------------------------------------------

(* The answers to a call are true wherever they are, in every reachable     *)
(* state.                                                                  *)
THEOREM CallsInvariant == Spec => []CallsInv
BY CallsInit, CallsStep, PTL DEF Spec

(* The variables have their types; in particular every call that ends has   *)
(* an outcome, never the result of a future that is not done.               *)
THEOREM CallsTypes == Spec => []TypeOK
<1>1. CallsInv => TypeOK
  BY DEF CallsInv
<1> QED
  BY <1>1, CallsInvariant, PTL

(* An answer finds the future of the call that it answers.                 *)
THEOREM NoFutureIsDropped == Spec => []PendingIsListed
<1>1. CallsInv => PendingIsListed
  BY DEF CallsInv
<1> QED
  BY <1>1, CallsInvariant, PTL

(* No method but those on the whitelist, get_permitted_methods and          *)
(* reset_error, runs in a module that is not open, unless reset_error has.  *)
THEOREM NothingRunsBeforeOpen == Spec => []RunsOnlyOpened
<1>1. CallsInv => RunsOnlyOpened
  BY DEF CallsInv, ModuleLives, RunsOnlyOpened
<1> QED
  BY <1>1, CallsInvariant, PTL

-----------------------------------------------------------------------------
(* Answers are given once, and nobody waits without a timer.               *)

(* The final answers to call i that are on the wire or being handled.      *)
UnderWay(i) == {k \in Final : <<i, k>> \in wire \cup tasks}

(* One final answer at most is under way to a caller, it comes after the    *)
(* module is done with the call, and until it has been handled nothing but  *)
(* a timeout has settled the future: no answer overtakes or repeats         *)
(* another one.                                                            *)
AnsweredOnce ==
  \A i \in Calls :
    /\ \A k, l \in UnderWay(i) : k = l
    /\ \A k \in Final : ~(<<i, k>> \in wire /\ <<i, k>> \in tasks)
    /\ UnderWay(i) # {} => serve[i] \in {"returned", "raised", "refused"}
    /\ UnderWay(i) # {} \/ serve[i] \in {"sent", "arrived", "runs"} =>
         i \in table /\ future[i] \in {"pending", "gaveUp"}

(* The table of futures keeps none that an answer has settled.             *)
TableForgets == \A i \in table : future[i] \in {"pending", "gaveUp"}

(* Who waits for a future has a timer, unless the future is done; and a     *)
(* timer that is left belongs to one who waits or has given up.  With this *)
(* every caller that waits has a step of its own to take (CallsEnd).       *)
WaitersAreTimed ==
  /\ \A i \in Calls : pc[i] = "waits" => i \in timers \/ future[i] # "pending"
  /\ \A i \in timers : pc[i] \in {"waits", "gaveUp"}

AnswerInv == AnsweredOnce /\ TableForgets /\ WaitersAreTimed

LEMMA AnswerInit == Init => AnswerInv
BY DEF Init, AnswerInv, AnsweredOnce, TableForgets, WaitersAreTimed, UnderWay

LEMMA CallerAnswerStep ==
  ASSUME CallsInv, AnswerInv, NEW i \in Calls,
         (\E m \in Asks[i] : Call(i, m)) \/ Caller(i) \/ Cancel(i)
  PROVE  AnswerInv'
<1> USE DEF CallsInv, TypeOK, CallerTypes, AnswerInv, Goto
<1>1. CASE \E m \in Asks[i] : Call(i, m)
  <2>1. PICK m \in Asks[i] : Call(i, m)
    BY <1>1
  <2>2. pc[i] = "none" /\ serve[i] = "none" /\ future[i] = "none"
    BY <2>1 DEF Call, CallsAreMade
  <2>3. UnderWay(i) = {}
    BY <2>2 DEF AnsweredOnce
  <2>4. \A j \in Calls : UnderWay(j)' = UnderWay(j)
    BY <2>1 DEF Call, UnderWay
  <2>5. AnsweredOnce'
    BY <2>1, <2>3, <2>4 DEF Call, AnsweredOnce, ModuleTypes
  <2>6. TableForgets' /\ WaitersAreTimed'
    BY <2>1, <2>2 DEF Call, TableForgets, WaitersAreTimed
  <2> QED
    BY <2>5, <2>6
<1>2. CASE Caller(i) \/ Cancel(i)
  <2> USE <1>2 DEF Caller, Resume, IqTimeout, OnTimeout, Result, Cancel
  <2>1. UNCHANGED <<serve, table>> /\ \A j \in Calls : UnderWay(j)' = UnderWay(j)
    BY DEF UnderWay
  <2>2. \A j \in Calls : future'[j] = future[j] \/ (future[j] = "pending" /\ future'[j] = "gaveUp")
    OBVIOUS
  <2>3. AnsweredOnce' /\ TableForgets'
    BY <2>1, <2>2 DEF AnsweredOnce, TableForgets
  <2>4. WaitersAreTimed'
    BY DEF WaitersAreTimed, AnswersAreTrue, Waiting, Outcomes
  <2> QED
    BY <2>3, <2>4
<1> QED
  BY <1>1, <1>2

LEMMA ReceiveAnswerStep ==
  ASSUME CallsInv, AnswerInv, NEW i \in Calls, Receive(i)
  PROVE  AnswerInv'
<1> USE DEF CallsInv, TypeOK, CallerTypes, AnswerInv
<1>1. ASSUME NEW k \in Answers, Arrive(i, k)
      PROVE  AnswerInv'
  <2>1. \A j \in Calls : UnderWay(j)' = UnderWay(j)
    BY <1>1 DEF Arrive, UnderWay
  <2>2. \A j \in Calls, l \in Final : ~(<<j, l>> \in wire' /\ <<j, l>> \in tasks')
    BY <1>1 DEF Arrive, AnsweredOnce
  <2>3. AnsweredOnce' /\ TableForgets'
    BY <1>1, <2>1, <2>2 DEF Arrive, AnsweredOnce, TableForgets
  <2>4. WaitersAreTimed'
    BY <1>1 DEF Arrive, WaitersAreTimed
  <2> QED
    BY <2>3, <2>4
<1>2. CASE MethodTimeout(i)
  <2>1. \A j \in Calls : UnderWay(j)' = UnderWay(j)
    BY <1>2 DEF MethodTimeout, HandlerDone, UnderWay, Final
  <2> QED
    BY <1>2, <2>1 DEF MethodTimeout, HandlerDone, AnsweredOnce, TableForgets, WaitersAreTimed
<1>3. ASSUME NEW k \in Final, HandlerDone(i, k), NEW o \in Outcomes,
             Settle(i, o) \/ UNCHANGED <<future, timers, table>>
      PROVE  AnswerInv'
  <2>1. UnderWay(i) = {k} /\ <<i, k>> \notin wire
    BY <1>3 DEF HandlerDone, UnderWay, AnsweredOnce
  <2>2. /\ UnderWay(i)' = {}
        /\ \A j \in Calls \ {i} : UnderWay(j)' = UnderWay(j)
    BY <1>3, <2>1 DEF HandlerDone, UnderWay
  <2>3. /\ table' \subseteq table /\ UNCHANGED serve
        /\ \A j \in Calls \ {i} : future'[j] = future[j] /\ (j \in table' <=> j \in table)
        /\ future'[i] = future[i] \/ (future[i] = "pending" /\ future'[i] = o)
        /\ i \in table' => future'[i] = future[i]
    BY <1>3 DEF HandlerDone, Settle
  <2>4. AnsweredOnce'
    <3>1. serve[i] \in {"returned", "raised", "refused"}
      BY <2>1 DEF AnsweredOnce
    <3>2. \A j \in Calls, l \in Final : ~(<<j, l>> \in wire' /\ <<j, l>> \in tasks')
      BY <1>3 DEF HandlerDone, AnsweredOnce
    <3> QED
      BY <2>2, <2>3, <3>1, <3>2 DEF AnsweredOnce
  <2>5. TableForgets'
    BY <2>3 DEF TableForgets
  <2>6. WaitersAreTimed'
    BY <1>3, <2>3 DEF HandlerDone, Settle, WaitersAreTimed, Outcomes
  <2> QED
    BY <2>4, <2>5, <2>6
<1> QED
  BY <1>1, <1>2, <1>3 DEF Receive, MethodResponse, MethodFault, RpcError, Final, Outcomes

(* The module answers a call with one final answer, in the step in which   *)
(* it is done with it.                                                     *)
LEMMA ExecuteAnswerStep ==
  ASSUME CallsInv, AnswerInv, NEW i \in Calls, Execute(i)
  PROVE  AnswerInv'
<1> USE DEF CallsInv, TypeOK, AnswerInv, Execute, Deliver, Refuse, Begin, RunAtOnce,
            GetPermittedMethods, ResetError,
            Return, Raise, Serve, Answer
<1>1. /\ UNCHANGED <<callerVars, tasks>>
      /\ serve[i] \in {"sent", "arrived", "runs"}
  OBVIOUS
<1>2. UnderWay(i) = {} /\ i \in table /\ future[i] \in {"pending", "gaveUp"}
  BY <1>1 DEF AnsweredOnce
<1>3. \A j \in Calls \ {i} : UnderWay(j)' = UnderWay(j) /\ serve'[j] = serve[j]
  BY DEF UnderWay, ModuleTypes, Announcements
<1>4. \/ /\ UnderWay(i)' = {} /\ serve'[i] \in {"arrived", "runs"}
      \/ /\ \E k \in Final : UnderWay(i)' = {k}
         /\ serve'[i] \in {"returned", "raised", "refused"}
  <2>1. \A ks \in SUBSET Answers :
          wire' = wire \cup ({i} \X ks) => UnderWay(i)' = ks \cap Final
    BY <1>1, <1>2 DEF UnderWay, callerVars
  <2> QED
    BY <1>1, <1>2, <2>1 DEF ModuleTypes, Announcements, Answers, Final, UnderWay
<1>5. \A k \in Final : ~(<<i, k>> \in wire' /\ <<i, k>> \in tasks')
  BY <1>1, <1>2 DEF UnderWay
<1>6. \A j \in Calls \ {i}, k \in Final : <<j, k>> \in wire' => <<j, k>> \in wire
  BY DEF Announcements
<1>7. AnsweredOnce'
  BY <1>1, <1>2, <1>3, <1>4, <1>5, <1>6 DEF AnsweredOnce, callerVars
<1>8. TableForgets' /\ WaitersAreTimed'
  BY <1>1 DEF TableForgets, WaitersAreTimed, callerVars
<1> QED
  BY <1>7, <1>8

(* A module that comes or goes, and a stanza that is lost, add no answer.   *)
LEMMA ModuleAnswerStep ==
  ASSUME CallsInv, AnswerInv, Module \/ Lose \/ UNCHANGED vars
  PROVE  AnswerInv'
<1> USE DEF CallsInv, TypeOK, AnswerInv, Module, ErrorCallback, Startup, Quit, Restart,
            Lose, Serve, vars
<1>1. UNCHANGED callerVars
  OBVIOUS
<1>2. wire' \subseteq wire /\ tasks' = tasks
  OBVIOUS
<1>3. \A j \in Calls : serve'[j] = serve[j]
                       \/ (serve[j] \in {"sent", "arrived", "runs"} /\ serve'[j] = "gone")
  BY DEF ModuleTypes
<1>4. \A j \in Calls : UnderWay(j)' \subseteq UnderWay(j)
  BY <1>2 DEF UnderWay
<1>5. AnsweredOnce'
  BY <1>1, <1>2, <1>3, <1>4 DEF AnsweredOnce, callerVars
<1>6. TableForgets' /\ WaitersAreTimed'
  BY <1>1 DEF TableForgets, WaitersAreTimed, callerVars
<1> QED
  BY <1>5, <1>6

LEMMA AnswerStep == CallsInv /\ AnswerInv /\ [Next]_vars => AnswerInv'
BY CallerAnswerStep, ReceiveAnswerStep, ExecuteAnswerStep, ModuleAnswerStep DEF Next

LEMMA AnswerInvariant == Spec => []AnswerInv
BY AnswerInit, AnswerStep, CallsInvariant, PTL DEF Spec

(* A call gets one final answer at most, and none before the module is done *)
(* with it; the handler of that answer finds the future in the table and    *)
(* not settled by another answer (RPC._on_jabber_rpc_method_response and    *)
(* its siblings never meet a future that is done, but for a timeout).       *)
THEOREM AnswersComeOnce == Spec => []AnsweredOnce
<1>1. AnswerInv => AnsweredOnce
  BY DEF AnswerInv
<1> QED
  BY <1>1, AnswerInvariant, PTL

(* RPC._futures keeps no future that an answer has settled: what remains in *)
(* it for ever are the calls that never got one.                           *)
THEOREM SettledFuturesLeave == Spec => []TableForgets
<1>1. AnswerInv => TableForgets
  BY DEF AnswerInv
<1> QED
  BY <1>1, AnswerInvariant, PTL

(* Nobody waits for a future without a timer, whatever _on_timeout, the     *)
(* handlers and cancellation do to it: the safety half of CallsEnd.        *)
THEOREM WaitersHaveTimers == Spec => []WaitersAreTimed
<1>1. AnswerInv => WaitersAreTimed
  BY DEF AnswerInv
<1> QED
  BY <1>1, AnswerInvariant, PTL

-----------------------------------------------------------------------------

Work == [i \in Calls |-> IF serve[i] \in {"sent", "arrived"} THEN "none"
                                                             ELSE serve[i]]

Known == [i \in Calls |-> IF pc[i] \in Waiting THEN "waiting" ELSE pc[i]]

LEMMA PromiseInit == Init => Promise!Init
BY DEF Init, Promise!Init, Waiting

(* A step of the caller asks, or answers, or is none of its promise.       *)
LEMMA CallerKeepsPromise ==
  ASSUME CallsInv, NEW i \in Calls,
         \/ \E m \in Asks[i] : Call(i, m)
         \/ Caller(i) \/ Cancel(i) \/ Receive(i)
  PROVE  Promise!Ask(i) \/ Promise!Answer(i) \/ UNCHANGED <<Work, Known>>
<1> USE DEF CallsInv, TypeOK, CallerTypes, ModuleTypes, CallsAreMade, Goto, Work, Known
<1>1. ASSUME NEW m \in Asks[i], Call(i, m)
      PROVE  Promise!Ask(i)
  BY <1>1 DEF Call, Promise!Ask, Waiting
<1>2. ASSUME Caller(i) \/ Cancel(i)
      PROVE  Promise!Answer(i) \/ UNCHANGED <<Work, Known>>
  <2>1. ASSUME NEW o \in Outcomes, pc[i] \in Waiting, pc' = [pc EXCEPT ![i] = o],
               UNCHANGED serve, Vouched(i, o)
        PROVE  Promise!Answer(i)
    <3>1. Known[i] = "waiting" /\ Known' = [Known EXCEPT ![i] = o] /\ Work' = Work
      BY <2>1 DEF Waiting, Outcomes
    <3>2. Work[i] \in Promise!TrueOf(o)
      BY <2>1 DEF Vouched, Outcomes, Promise!TrueOf
    <3> QED
      BY <3>1, <3>2 DEF Promise!Answer, Outcomes
  <2>2. CASE Resume(i) \/ Result(i)
    <3>1. CASE pc' = [pc EXCEPT ![i] = "waits"]
      BY <3>1, <2>2 DEF Resume, Result, Waiting
    <3>2. CASE pc' = [pc EXCEPT ![i] = "error"] /\ pc[i] = "refused"
      BY <3>2, <2>1, <2>2 DEF Resume, Result, Waiting, Outcomes, AnswersAreTrue, Vouched
    <3>3. CASE /\ pc' = [pc EXCEPT ![i] = future[i]]
               /\ pc[i] \in {"replied", "waits"} /\ future[i] # "pending"
      <4>1. future[i] \in Outcomes /\ Vouched(i, future[i]) /\ pc[i] \in Waiting
        BY <3>3 DEF AnswersAreTrue, Waiting
      <4> QED
        BY <4>1, <3>3, <2>1, <2>2 DEF Resume, Result
    <3> QED
      BY <3>1, <3>2, <3>3, <2>2 DEF Resume, Result
  <2>3. CASE IqTimeout(i) \/ Cancel(i)
    BY <2>3, <2>1 DEF IqTimeout, Cancel, Waiting, Outcomes, Vouched
  <2>4. CASE OnTimeout(i)
    BY <2>4 DEF OnTimeout
  <2> QED
    BY <1>2, <2>2, <2>3, <2>4 DEF Caller
<1>3. ASSUME Receive(i)
      PROVE  UNCHANGED <<Work, Known>>
  BY <1>3 DEF Receive, Arrive, MethodTimeout, MethodResponse, MethodFault, RpcError,
       HandlerDone, Waiting
<1> QED
  BY <1>1, <1>2, <1>3

(* A step of the module works on one call, or loses some.                  *)
LEMMA ModuleKeepsPromise ==
  ASSUME CallsInv, Module \/ Lose \/ \E i \in Calls : Execute(i)
  PROVE  \/ \E i \in Calls : Promise!Work(i)
         \/ \E lost \in SUBSET Calls : Promise!Lose(lost)
         \/ UNCHANGED <<Work, Known>>
<1> USE DEF CallsInv, TypeOK, CallerTypes, ModuleTypes, CallsAreMade, Serve, Work, Known,
            callerVars, Waiting
<1>1. ASSUME NEW i \in Calls, Execute(i)
      PROVE  Promise!Work(i) \/ UNCHANGED <<Work, Known>>
  <2> DEFINE Becomes(w) == Work' = [Work EXCEPT ![i] = w]
  <2>1. pc[i] # "none" /\ Known[i] # "none" /\ UNCHANGED Known
    BY <1>1 DEF Execute, Deliver, Refuse, Begin, RunAtOnce, GetPermittedMethods, ResetError, Return, Raise
  <2>2. CASE Deliver(i) \/ Refuse(i) \/ Begin(i) \/ GetPermittedMethods(i) \/ ResetError(i)
    <3>1. Work[i] = "none"
      BY <2>2 DEF Deliver, Refuse, Begin, RunAtOnce, GetPermittedMethods, ResetError
    <3>2. \/ Becomes("runs") \/ Becomes("returned") \/ Becomes("refused")
          \/ UNCHANGED Work
      BY <2>2 DEF Deliver, Refuse, Begin, RunAtOnce, GetPermittedMethods, ResetError
    <3> QED
      BY <3>1, <3>2, <2>1 DEF Promise!Work
  <2>3. CASE Return(i) \/ Raise(i)
    <3>1. Work[i] = "runs" /\ (Becomes("returned") \/ Becomes("raised"))
      BY <2>3 DEF Return, Raise
    <3> QED
      BY <3>1, <2>1 DEF Promise!Work
  <2> QED
    BY <1>1, <2>2, <2>3 DEF Execute
<1>2. ASSUME Quit
      PROVE  \E lost \in SUBSET Calls : Promise!Lose(lost)
  <2>1. PICK lost \in SUBSET Calls :
               lost = {i \in Calls : serve[i] \in {"arrived", "runs"}}
    OBVIOUS
  <2>2. Promise!Lose(lost)
    BY <1>2, <2>1 DEF Quit, Promise!Lose
  <2> QED
    BY <2>2
<1>3. ASSUME ErrorCallback \/ Startup \/ Restart
      PROVE  UNCHANGED <<Work, Known>>
  BY <1>3 DEF ErrorCallback, Startup, Restart
<1>4. ASSUME Lose
      PROVE  \/ \E lost \in SUBSET Calls : Promise!Lose(lost)
             \/ UNCHANGED <<Work, Known>>
  <2>1. CASE \E i \in Calls : serve[i] = "sent" /\ Serve(i, "gone")
    <3> PICK i \in Calls : serve[i] = "sent" /\ Serve(i, "gone")
      BY <2>1
    <3>1. Promise!Lose({i})
      BY <1>4 DEF Lose, Promise!Lose
    <3> QED
      BY <3>1
  <2> QED
    BY <1>4, <2>1 DEF Lose
<1> QED
  BY <1>1, <1>2, <1>3, <1>4 DEF Module

LEMMA StepKeepsPromise ==
  CallsInv /\ [Next]_vars => [Promise!Next]_<<Work, Known>>
BY CallerKeepsPromise, ModuleKeepsPromise
DEF Next, vars, callerVars, Work, Known, Promise!Next

(* Remote calls over XMPP implement calls that run at most once.           *)
THEOREM CallsImplementAtMostOnce == Spec => CallsAreAtMostOnce
BY PromiseInit, StepKeepsPromise, CallsInvariant, PTL
DEF Spec, CallsAreAtMostOnce, Promise!Spec, Work, Known
=============================================================================
