-------------------------------- MODULE Calls --------------------------------
(***************************************************************************)
(* Remote calls over XMPP, from the task that calls a method of a proxy to  *)
(* the module that runs it and back: the futures of RPC on the one side,    *)
(* RPC's handler, Module.execute and the life of the module on the other.   *)
(*                                                                         *)
(* Stanzas of a call go over a wire that keeps their order and may lose     *)
(* them.  One that arrives starts a task that runs the handler of RPC, and  *)
(* the first one also wakes iq.send(); asyncio may run the two in any order. *)
(* Time is left out: a timer may run out whenever it is set.               *)
(***************************************************************************)
EXTENDS Naturals

CONSTANTS
  Calls,             \* the calls, each with an id of its own; a caller that
                     \* tries again makes another one
  Methods,           \* names that callers ask for
  Asks,              \* the names that each call may be for
  Published,         \* those the module has a method for
  Slow,              \* methods that announce a timeout
  Denied,            \* methods that the ACL keeps from this caller
  Modular,           \* methods of IModule, to be run in state ERROR
  GetPermitted,      \* get_permitted_methods
  Reset,             \* reset_error
  Nobody,            \* no method
  MaxErrors,         \* bound: severe exceptions whose callback has not run
  MaxFaults          \* bound: lost stanzas and closed modules

ASSUME CallsAssumption ==
  /\ Published \subseteq Methods
  /\ Modular \subseteq Published /\ {GetPermitted, Reset} \subseteq Modular
  /\ Asks \in [Calls -> SUBSET Methods]
  /\ Nobody \notin Methods
  /\ MaxErrors \in Nat /\ MaxFaults \in Nat

VARIABLES
  pc,                \* where the caller is: execute of XmppComm, RPC.call
  asked,             \* the method that a call is for
  future, timers,    \* RPC.call's future; those with a _timeout_handle
  table,             \* RPC._futures
  wire, tasks,       \* answers on their way; tasks of the RPC event handlers
  serve,             \* what has become of the call at the module
  state,             \* Module._state, or closed when there is no process
  opened,            \* open() has ended
  recovered,         \* reset_error has been run before that
  severe,            \* tasks of _default_remote_error_callback
  faults             \* what MaxFaults counts

callerVars == <<pc, asked, future, timers, table>>
moduleVars == <<state, opened, recovered, severe>>
vars == <<callerVars, wire, tasks, serve, moduleVars, faults>>

(* The answers to a call: the announcement of a timeout, a result, a fault  *)
(* with an exception, and an error of XMPP.                                *)
Final   == {"response", "fault", "error"}
Answers == {"timeout"} \cup Final

Outcomes == {"value", "fault", "error", "gaveUp"}

(* A caller waits in iq.send(), which an answer or an error has ended or    *)
(* not, and then for the future.                                           *)
Waiting == {"sent", "replied", "refused", "waits"}

CallerTypes ==
  /\ pc \in [Calls -> {"none"} \cup Waiting \cup Outcomes]
  /\ asked \in [Calls -> Methods \cup {Nobody}]
  /\ future \in [Calls -> {"none", "pending"} \cup Outcomes]
  /\ timers \subseteq Calls /\ table \subseteq Calls

WireTypes ==
  /\ wire \subseteq Calls \X Answers /\ tasks \subseteq Calls \X Answers
  /\ faults \in 0..MaxFaults

ModuleTypes ==
  /\ serve \in [Calls -> {"none", "sent", "arrived", "runs", "returned",
                          "raised", "refused", "gone"}]
  /\ state \in {"starting", "ready", "error", "closed"}
  /\ opened \in BOOLEAN /\ recovered \in BOOLEAN
  /\ severe \in 0..MaxErrors

TypeOK == CallerTypes /\ WireTypes /\ ModuleTypes

Init ==
  /\ pc = [i \in Calls |-> "none"]
  /\ asked = [i \in Calls |-> Nobody]
  /\ future = [i \in Calls |-> "none"]
  /\ timers = {} /\ table = {} /\ wire = {} /\ tasks = {}
  /\ serve = [i \in Calls |-> "none"]
  /\ state = "starting" /\ opened = FALSE /\ recovered = FALSE
  /\ severe = 0 /\ faults = 0

-----------------------------------------------------------------------------
(* The caller.                                                             *)

Goto(i, p) == pc' = [pc EXCEPT ![i] = p]

(* RPC.call: the future is entered and the stanza sent.                    *)
Call(i, m) ==
  /\ pc[i] = "none"
  /\ Goto(i, "sent")
  /\ asked' = [asked EXCEPT ![i] = m]
  /\ future' = [future EXCEPT ![i] = "pending"]
  /\ table' = table \cup {i}
  /\ serve' = [serve EXCEPT ![i] = "sent"]
  /\ UNCHANGED <<timers, wire, tasks, moduleVars, faults>>

(* Wrong on purpose: any answer is taken for the result.                   *)
ResumeAtOnce(i) ==
  /\ \/ pc[i] = "replied" /\ Goto(i, "value")
     \/ pc[i] = "refused" /\ Goto(i, "error")
  /\ UNCHANGED <<asked, future, timers, table, wire, tasks, serve, moduleVars,
                 faults>>

(* iq.send() has ended: an error of XMPP is raised as RemoteError, whatever *)
(* becomes of the future; otherwise the future is awaited, with a timer if  *)
(* it has to be waited for.                                                *)
Resume(i) ==
  /\ \/ /\ pc[i] = "refused"
        /\ Goto(i, "error")
        /\ UNCHANGED timers
     \/ /\ pc[i] = "replied" /\ future[i] = "pending"
        /\ Goto(i, "waits")
        /\ timers' = timers \cup {i}
     \/ /\ pc[i] = "replied" /\ future[i] # "pending"
        /\ Goto(i, future[i])
        /\ UNCHANGED timers
  /\ UNCHANGED <<asked, future, table, wire, tasks, serve, moduleVars, faults>>

(* iq.send() has had no answer in thirty seconds.  The future stays in the  *)
(* table.                                                                  *)
IqTimeout(i) ==
  /\ pc[i] = "sent"
  /\ Goto(i, "gaveUp")
  /\ UNCHANGED <<asked, future, timers, table, wire, tasks, serve, moduleVars,
                 faults>>

(* Future._on_timeout.                                                     *)
OnTimeout(i) ==
  /\ i \in timers
  /\ timers' = timers \ {i}
  /\ future' = [future EXCEPT ![i] = IF @ = "pending" THEN "gaveUp" ELSE @]
  /\ UNCHANGED <<pc, asked, table, wire, tasks, serve, moduleVars, faults>>

(* Wrong on purpose: whoever is woken takes the future to be done.         *)
ResultUnchecked(i) ==
  /\ pc[i] = "waits"
  /\ Goto(i, future[i])
  /\ timers' = timers \ {i}
  /\ UNCHANGED <<asked, future, table, wire, tasks, serve, moduleVars, faults>>

(* The future that is awaited is done.                                     *)
Result(i) ==
  /\ pc[i] = "waits" /\ future[i] # "pending"
  /\ Goto(i, future[i])
  /\ timers' = timers \ {i}
  /\ UNCHANGED <<asked, future, table, wire, tasks, serve, moduleVars, faults>>

(* The task of the caller is cancelled, and the future if it awaits that.   *)
Cancel(i) ==
  /\ pc[i] \in Waiting
  /\ Goto(i, "gaveUp")
  /\ future' = [future EXCEPT ![i] =
                  IF pc[i] = "waits" /\ @ = "pending" THEN "gaveUp" ELSE @]
  /\ UNCHANGED <<asked, timers, table, wire, tasks, serve, moduleVars, faults>>

(* An answer arrives, in the order in which they were sent; the first one   *)
(* ends iq.send().                                                         *)
Arrive(i, k) ==
  /\ <<i, k>> \in wire
  /\ k \in Final => <<i, "timeout">> \notin wire
  /\ wire' = wire \ {<<i, k>>}
  /\ tasks' = tasks \cup {<<i, k>>}
  /\ pc' = [pc EXCEPT ![i] =
              IF @ # "sent" THEN @ ELSE IF k = "error" THEN "refused" ELSE "replied"]
  /\ UNCHANGED <<asked, future, timers, table, serve, moduleVars, faults>>

HandlerDone(i, k) ==
  /\ <<i, k>> \in tasks
  /\ tasks' = tasks \ {<<i, k>>}
  /\ UNCHANGED <<pc, asked, wire, serve, moduleVars, faults>>

(* Wrong on purpose: the timer is cancelled and not set again.             *)
MethodTimeoutForgotten(i) ==
  /\ HandlerDone(i, "timeout")
  /\ timers' = timers \ {i}
  /\ UNCHANGED <<future, table>>

(* Wrong on purpose: the future is taken out of the table.                 *)
MethodTimeoutPops(i) ==
  /\ HandlerDone(i, "timeout")
  /\ table' = table \ {i}
  /\ UNCHANGED <<future, timers>>

(* _on_jabber_rpc_method_timeout: the future gets a new timeout, and a new  *)
(* timer if it has one already.  (A KeyError, if it is not there.)          *)
MethodTimeout(i) ==
  /\ HandlerDone(i, "timeout")
  /\ UNCHANGED <<future, timers, table>>

(* The future leaves the table, and is done if it has not been so before.   *)
Settle(i, result) ==
  /\ table' = table \ {i}
  /\ future' = [future EXCEPT ![i] =
                  IF i \in table /\ @ = "pending" THEN result ELSE @]
  /\ UNCHANGED timers

(* _on_jabber_rpc_method_response.                                         *)
MethodResponse(i) == HandlerDone(i, "response") /\ Settle(i, "value")

(* _on_jabber_rpc_method_fault.                                            *)
MethodFault(i) == HandlerDone(i, "fault") /\ Settle(i, "fault")

(* _on_jabber_rpc_error, which fails if the error does not repeat the call. *)
RpcError(i) ==
  /\ HandlerDone(i, "error")
  /\ \/ Settle(i, "error")
     \/ UNCHANGED <<future, timers, table>>

-----------------------------------------------------------------------------
(* The module.                                                             *)

Serve(i, s) == serve' = [serve EXCEPT ![i] = s]

Answer(i, ks) == wire' = wire \cup ({i} \X ks)

(* A call arrives.  If the module is gone, or has no such method, an error  *)
(* is the answer; if the parameters do not fit, a fault.                   *)
Deliver(i) ==
  /\ serve[i] = "sent"
  /\ \/ /\ state = "closed" \/ asked[i] \notin Published
        /\ Serve(i, "refused") /\ Answer(i, {"error"})
     \/ /\ state # "closed" /\ asked[i] \in Published
        /\ \/ Serve(i, "arrived") /\ UNCHANGED wire
           \/ Serve(i, "refused") /\ Answer(i, {"fault"})
  /\ UNCHANGED <<callerVars, tasks, moduleVars, faults>>

(* The answers that are sent before a call is executed: a timeout, unless   *)
(* the method has none or it comes to zero.                                *)
Announcements(i) == IF asked[i] \in Slow THEN {{}, {"timeout"}} ELSE {{}}

(* _STARTING_WHITELIST: what may be called while the module is STARTING.    *)
Whitelist == {GetPermitted, Reset}

(* Why Module.execute raises an exception, in the order of its conditions.  *)
(* A caller may always ask what it may call.                               *)
Starting(i) == state = "starting" /\ asked[i] \notin Whitelist

InError(i) == state = "error" /\ asked[i] \notin Modular

AclDenied(i) == asked[i] \in Denied \ {GetPermitted}

Refuse(i) ==
  /\ serve[i] = "arrived"
  /\ Serve(i, "refused")
  /\ \E announced \in Announcements(i) :
       \/ /\ Starting(i) \/ InError(i)
          /\ Answer(i, announced \cup {"fault"})
       \/ /\ ~Starting(i) /\ ~InError(i) /\ AclDenied(i)
          /\ Answer(i, announced \cup {"error"})
  /\ UNCHANGED <<callerVars, tasks, moduleVars, faults>>

Permitted(i) == ~Starting(i) /\ ~InError(i) /\ ~AclDenied(i)

(* The method begins, in one step with the conditions of execute.          *)
Begin(i) ==
  /\ serve[i] = "arrived" /\ Permitted(i) /\ asked[i] \notin Whitelist
  /\ Serve(i, "runs")
  /\ \E announced \in Announcements(i) : Answer(i, announced)
  /\ UNCHANGED <<callerVars, tasks, moduleVars, faults>>

(* A method that does not suspend, and neither raises, runs to its end.     *)
RunAtOnce(i, m) ==
  /\ serve[i] = "arrived" /\ Permitted(i) /\ asked[i] = m
  /\ Serve(i, "returned")
  /\ \E announced \in Announcements(i) : Answer(i, announced \cup {"response"})
  /\ UNCHANGED <<callerVars, tasks, opened, severe, faults>>

(* get_permitted_methods only looks.                                       *)
GetPermittedMethods(i) == RunAtOnce(i, GetPermitted) /\ UNCHANGED <<state, recovered>>

ResetError(i) ==
  /\ RunAtOnce(i, Reset)
  /\ state' = "ready"
  /\ recovered' = (recovered \/ ~opened)

(* The method returns; a result that cannot be put into XML is a fault.    *)
Return(i) ==
  /\ serve[i] = "runs"
  /\ Serve(i, "returned")
  /\ Answer(i, {"response"}) \/ Answer(i, {"fault"})
  /\ UNCHANGED <<callerVars, tasks, moduleVars, faults>>

(* The method raises.  _record_exception creates a task for the callback,   *)
(* if the exception is one too many of a severe kind.                      *)
Raise(i) ==
  /\ serve[i] = "runs"
  /\ Serve(i, "raised") /\ Answer(i, {"fault"})
  /\ severe' \in {severe} \cup ({severe + 1} \cap 0..MaxErrors)
  /\ UNCHANGED <<callerVars, tasks, state, opened, recovered, faults>>

(* _default_remote_error_callback.                                         *)
ErrorCallback ==
  /\ severe > 0 /\ severe' = severe - 1
  /\ state' = "error"
  /\ UNCHANGED <<callerVars, wire, tasks, serve, opened, recovered, faults>>

(* Wrong on purpose: the module is ready before it is open.                *)
StartupBeforeOpen ==
  /\ state = "starting"
  /\ state' = "ready"
  /\ UNCHANGED <<callerVars, wire, tasks, serve, opened, recovered, severe,
                 faults>>

(* startup: open() has ended, and the state is READY from now on, whatever  *)
(* it has been.                                                            *)
Startup ==
  /\ state # "closed" /\ ~opened
  /\ opened' = TRUE /\ state' = "ready"
  /\ UNCHANGED <<callerVars, wire, tasks, serve, recovered, severe, faults>>

(* The module quits, or fails to open, and with it all that it does.        *)
Quit ==
  /\ state # "closed" /\ state' = "closed"
  /\ faults < MaxFaults /\ faults' = faults + 1
  /\ opened' = FALSE /\ recovered' = FALSE /\ severe' = 0
  /\ serve' = [i \in Calls |-> IF serve[i] \in {"arrived", "runs"}
                                 THEN "gone" ELSE serve[i]]
  /\ UNCHANGED <<callerVars, wire, tasks>>

Restart ==
  /\ state = "closed" /\ state' = "starting"
  /\ UNCHANGED <<callerVars, wire, tasks, serve, opened, recovered, severe,
                 faults>>

-----------------------------------------------------------------------------
(* A stanza is lost, with the connection that it was to come over.          *)
Lose ==
  /\ faults < MaxFaults /\ faults' = faults + 1
  /\ \/ \E i \in Calls : serve[i] = "sent" /\ Serve(i, "gone") /\ UNCHANGED wire
     \/ \E a \in wire : wire' = wire \ {a} /\ UNCHANGED serve
  /\ UNCHANGED <<callerVars, tasks, moduleVars>>

(* What the event loop of the caller does for a call.                      *)
Caller(i) == Resume(i) \/ IqTimeout(i) \/ OnTimeout(i) \/ Result(i)

Receive(i) ==
  \/ \E k \in Answers : Arrive(i, k)
  \/ MethodTimeout(i) \/ MethodResponse(i) \/ MethodFault(i) \/ RpcError(i)

Execute(i) ==
  \/ Deliver(i) \/ Refuse(i) \/ Begin(i) \/ GetPermittedMethods(i)
  \/ ResetError(i) \/ Return(i) \/ Raise(i)

Module == ErrorCallback \/ Startup \/ Quit \/ Restart

Next ==
  \/ \E i \in Calls : \/ \E m \in Asks[i] : Call(i, m)
                      \/ Caller(i) \/ Cancel(i) \/ Receive(i) \/ Execute(i)
  \/ Module \/ Lose

Spec == Init /\ [][Next]_vars

(* The timers of the caller run out, and its tasks are resumed.  Nothing is *)
(* asked of the module or of the connection.                               *)
Fairness == \A i \in Calls : WF_vars(Caller(i))

FairSpec == Spec /\ Fairness

-----------------------------------------------------------------------------

(* Every call is one that runs at most once and ends once, with an outcome  *)
(* that is true of what the module did: a value means that the method has   *)
(* returned, a fault that it does not run any more, an error that it never  *)
(* has; only a caller that gave up knows nothing.                          *)
Promise == INSTANCE AtMostOnce WITH
  work <- [i \in Calls |-> IF serve[i] \in {"sent", "arrived"} THEN "none"
                                                               ELSE serve[i]],
  outcome <- [i \in Calls |-> IF pc[i] \in Waiting THEN "waiting" ELSE pc[i]]

CallsAreAtMostOnce == Promise!Spec

(* An answer that arrives finds the future that the caller waits for: no    *)
(* handler drops one that is still pending.                                *)
PendingIsListed == \A i \in Calls : future[i] = "pending" => i \in table

(* "execute() starts accepting non-whitelisted calls exactly once startup   *)
(* has actually finished": until open() has ended no method runs that is    *)
(* not on the whitelist, except after reset_error, which is on it and sets  *)
(* READY whatever open() does.                                             *)
RunsOnlyOpened ==
  (\E i \in Calls : serve[i] = "runs" /\ asked[i] \notin Whitelist)
  => opened \/ recovered

(* Every call ends, whatever the module and the connection do.             *)
CallsEnd == \A i \in Calls : (pc[i] \in Waiting) ~> (pc[i] \in Outcomes)
=============================================================================
