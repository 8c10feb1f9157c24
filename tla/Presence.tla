------------------------------ MODULE Presence ------------------------------
(***************************************************************************)
(* What the XMPP backend of one module knows of its peers: XmppComm turns   *)
(* the presence that the server reports into a discovery of the peer's      *)
(* interfaces, a list of online clients, their states and subscriptions to  *)
(* their events; Comm hands out proxies for them and tears these down when  *)
(* the peer goes; and a lost connection is made again with a new client.    *)
(*                                                                         *)
(* A discovery is one run of _got_online, the task started for a presence   *)
(* of a peer; it is named by a number, and so is the future that it puts    *)
(* into _interface_cache, until it has its result.  A request is one call  *)
(* of _get_client, and the proxy that it builds has its number.            *)
(*                                                                         *)
(* Stanzas come in the order in which the server sends them, without delay: *)
(* what may lie between a stanza and its effect is that the task it wakes   *)
(* has to run first.  Nobody cancels a caller of _get_client: that would    *)
(* cancel the future which it shares with others (get_interfaces awaits it *)
(* unshielded), and a done future gets no result.                          *)
(***************************************************************************)
EXTENDS Naturals, FiniteSets

CONSTANTS
  Jids,              \* the peers; a peer's JID and its name are one
  Publishers,        \* those that publish the event this module listens to
  Wanted,            \* those that this module asks for proxies of
  None,              \* no entry in a dictionary
  Full, Empty,       \* results of futures: interfaces, or none at all
  Attempts,          \* attempts of _get_interfaces after the first
  MaxPresences,      \* bound: presences that make a peer come online
  MaxRequests,       \* bound: calls of _get_client
  MaxFaults          \* bound: lost connections, and answers that fail

ASSUME PresenceAssumption ==
  /\ Publishers \subseteq Jids /\ Wanted \subseteq Jids
  /\ IsFiniteSet(Jids)
  /\ Attempts \in Nat
  /\ MaxPresences \in Nat /\ MaxRequests \in Nat
  /\ MaxFaults \in Nat
  /\ {None, Full, Empty} \cap (Jids \cup Nat) = {}
  /\ None # Full /\ None # Empty /\ Full # Empty

Discoveries == 1..MaxPresences
Requests    == 1..MaxRequests

VARIABLES
  link,              \* our connection to the server
  avail,             \* the server: the peers that are online
  greet,             \* peers the server still has to report to us
  presences, pc, about, tries,
                     \* _got_online: how many, where each is, its peer, and the
                     \* attempts that it has left
  cache,             \* _interface_cache
  online, known,     \* _online_clients; those that _client_states has
  listening, keys,   \* _event_handlers has our event; _event_subscriptions,
                     \* with those that a task was made for and will record
  requests, for, at, \* _get_client: how many, the peer that each is for, the
                     \* future that it awaits (None while it polls)
  proxies,           \* Comm._proxies
  held, nodes,       \* Comm._state_subscriptions, _state_node_handlers
  closing, doomed,   \* _client_disconnected: tasks to run, callbacks that
                     \* running ones have still to unsubscribe
  faults             \* what MaxFaults counts

serverVars    == <<avail, greet>>
discoveryVars == <<presences, pc, about, tries>>
clientVars    == <<online, known, listening, keys>>
requestVars   == <<requests, for, at>>
proxyVars     == <<proxies, held, nodes>>
teardownVars  == <<closing, doomed>>
vars == <<link, serverVars, discoveryVars, cache, clientVars, requestVars,
          proxyVars, teardownVars, faults>>

(* What can be in _interface_cache: a future that is pending, or a result.  *)
Results == {Full, Empty}
Futures == Discoveries \cup Results

(* A proxy without any interface, which has nothing to subscribe to.       *)
Bare == 0

(* A discovery waits to be run, for an answer, or between two attempts; or  *)
(* the answer is there: the peer implements IModule, does not, or there is  *)
(* an error.                                                               *)
Answers  == {"module", "other", "error"}
InFlight == {"starts", "asks", "sleeps"} \cup Answers

ServerTypes ==
  /\ link \in {"up", "down"}
  /\ avail \subseteq Jids /\ greet \subseteq avail
  /\ faults \in 0..MaxFaults

DiscoveryTypes ==
  /\ presences \in 0..MaxPresences
  /\ pc \in [Discoveries -> {"none"} \cup InFlight]
  /\ about \in [Discoveries -> Jids \cup {None}]
  /\ tries \in [Discoveries -> 0..Attempts]
  /\ cache \in [Jids -> Futures \cup {None}]

ClientTypes ==
  /\ online \subseteq Jids /\ known \subseteq Jids
  /\ listening \in BOOLEAN /\ keys \subseteq Publishers

RequestTypes ==
  /\ requests \in 0..MaxRequests
  /\ for \in [Requests -> Jids \cup {None}]
  /\ at \in [Requests -> Futures \cup {None}]

ProxyTypes ==
  /\ proxies \in [Jids -> Requests \cup {Bare, None}]
  /\ held \in [Jids -> SUBSET Requests]
  /\ nodes \in [Jids -> SUBSET Requests]
  /\ doomed \in [Jids -> SUBSET Requests]
  /\ closing \in [Jids -> Nat]

TypeOK ==
  ServerTypes /\ DiscoveryTypes /\ ClientTypes /\ RequestTypes /\ ProxyTypes

(* XmppComm.open: connected, nothing known yet.  The server reports whoever *)
(* is online already.                                                      *)
Init ==
  /\ link = "up"
  /\ avail \in SUBSET Jids /\ greet = avail
  /\ presences = 0
  /\ pc = [d \in Discoveries |-> "none"]
  /\ about = [d \in Discoveries |-> None]
  /\ tries = [d \in Discoveries |-> 0]
  /\ cache = [j \in Jids |-> None]
  /\ online = {} /\ known = {}
  /\ listening = FALSE /\ keys = {}
  /\ requests = 0
  /\ for = [r \in Requests |-> None]
  /\ at = [r \in Requests |-> None]
  /\ proxies = [j \in Jids |-> None]
  /\ held = [j \in Jids |-> {}] /\ nodes = [j \in Jids |-> {}]
  /\ closing = [j \in Jids |-> 0] /\ doomed = [j \in Jids |-> {}]
  /\ faults = 0

-----------------------------------------------------------------------------
(* Presence as the server reports it.                                      *)

(* The event got_online: a task is made that runs _got_online.              *)
GotOnline(j) ==
  LET d == presences + 1 IN
    /\ presences < MaxPresences
    /\ presences' = d
    /\ pc' = [pc EXCEPT ![d] = "starts"]
    /\ about' = [about EXCEPT ![d] = j]
    /\ tries' = [tries EXCEPT ![d] = Attempts]

(* _jid_got_offline for each of gone: the peer is forgotten, except that its *)
(* events are subscribed to; ModuleClosedEvent creates a task that runs     *)
(* Comm._client_disconnected.                                              *)
JidsGotOffline(gone) ==
  /\ online' = online \ gone
  /\ known' = known \ gone
  /\ cache' = [j \in Jids |-> IF j \in gone THEN None ELSE cache[j]]
  /\ closing' = [j \in Jids |-> IF j \in gone THEN closing[j] + 1 ELSE closing[j]]

(* A peer connects; the server tells us at once.                           *)
PeerComes(j) ==
  /\ j \notin avail
  /\ avail' = avail \cup {j}
  /\ \/ link = "up" /\ GotOnline(j)
     \/ link = "down" /\ UNCHANGED discoveryVars
  /\ UNCHANGED <<link, greet, cache, clientVars, requestVars, proxyVars,
                 teardownVars, faults>>

(* The server reports a peer that was there before us, or once more one     *)
(* that it has reported.                                                   *)
PeerReported(j) ==
  /\ link = "up"
  /\ j \in avail
  /\ greet' = greet \ {j}
  /\ GotOnline(j)
  /\ UNCHANGED <<link, avail, cache, clientVars, requestVars, proxyVars,
                 teardownVars, faults>>

(* A peer disconnects.                                                     *)
PeerLeaves(j) ==
  /\ j \in avail
  /\ avail' = avail \ {j} /\ greet' = greet \ {j}
  /\ \/ /\ link = "up" /\ j \notin greet
        /\ JidsGotOffline({j})
     \/ /\ link = "down" \/ j \in greet
        /\ UNCHANGED <<online, known, cache, closing>>
  /\ UNCHANGED <<link, discoveryVars, listening, keys, requestVars, proxyVars,
                 doomed, faults>>

(* Wrong on purpose: the state of any peer is stored.                      *)
PeerChangesUnlisted(j) ==
  /\ link = "up" /\ j \in avail \ greet
  /\ known' = known \cup {j}
  /\ UNCHANGED <<link, serverVars, discoveryVars, cache, online, listening,
                 keys, requestVars, proxyVars, teardownVars, faults>>

(* A peer announces another state: _got_presence_update, which ignores      *)
(* whoever is not in the list of online clients.                           *)
PeerChanges(j) ==
  /\ link = "up" /\ j \in avail \ greet
  /\ j \in online
  /\ known' = known \cup {j}
  /\ UNCHANGED <<link, serverVars, discoveryVars, cache, online, listening,
                 keys, requestVars, proxyVars, teardownVars, faults>>

-----------------------------------------------------------------------------
(* Our own connection.                                                     *)

(* _disconnected: the loop takes clients out of the very list it runs over, *)
(* and so leaves out every second one.  (If another session has taken our   *)
(* JID the module quits, as it does if it cannot log in again: then the     *)
(* connection stays down.)                                                 *)
Disconnected ==
  /\ link = "up"
  /\ faults < MaxFaults /\ faults' = faults + 1
  /\ \E left \in SUBSET online :
       /\ Cardinality(left) = Cardinality(online) \div 2
       /\ JidsGotOffline(online \ left)
  /\ link' = "down"
  /\ pc' = [d \in Discoveries |-> IF pc[d] = "asks" THEN "error" ELSE pc[d]]
  /\ UNCHANGED <<serverVars, presences, about, tries, listening, keys,
                 requestVars, proxyVars, doomed>>

(* _reconnect and _connect, with a new client: the server reports everyone. *)
Reconnect ==
  /\ link = "down"
  /\ link' = "up" /\ greet' = avail
  /\ UNCHANGED <<avail, discoveryVars, cache, clientVars, requestVars,
                 proxyVars, teardownVars, faults>>

-----------------------------------------------------------------------------
(* _got_online: the discovery of a peer.                                   *)

(* _get_interfaces sends its request, to no avail without a connection.     *)
Ask(d) == pc' = [pc EXCEPT ![d] = IF link = "up" THEN "asks" ELSE "error"]

(* The end of d: nothing refers to it any more but, maybe, its future.      *)
DiscoveryEnds(d) ==
  /\ pc' = [pc EXCEPT ![d] = "none"]
  /\ about' = [about EXCEPT ![d] = None]
  /\ tries' = [tries EXCEPT ![d] = 0]

(* The task runs: a new future replaces whatever the cache holds.          *)
DiscoveryStarts(d) ==
  /\ pc[d] = "starts"
  /\ cache' = [cache EXCEPT ![about[d]] = d]
  /\ Ask(d)
  /\ UNCHANGED <<link, serverVars, presences, about, tries, clientVars,
                 requestVars, proxyVars, teardownVars, faults>>

(* The peer answers, or the server says that it is not there.              *)
PeerAnswers(d) ==
  /\ pc[d] = "asks"
  /\ \/ about[d] \in avail /\ pc' = [pc EXCEPT ![d] = "module"]
     \/ about[d] \in avail /\ pc' = [pc EXCEPT ![d] = "other"]
     \/ about[d] \notin avail /\ pc' = [pc EXCEPT ![d] = "error"]
  /\ UNCHANGED <<link, serverVars, presences, about, tries, cache, clientVars,
                 requestVars, proxyVars, teardownVars, faults>>

(* _safe_send gives up: no answer within its timeouts.                     *)
NoAnswer(d) ==
  /\ pc[d] = "asks"
  /\ faults < MaxFaults /\ faults' = faults + 1
  /\ pc' = [pc EXCEPT ![d] = "error"]
  /\ UNCHANGED <<link, serverVars, presences, about, tries, cache, clientVars,
                 requestVars, proxyVars, teardownVars>>

(* Wrong on purpose: the attempts are not counted down to their end.       *)
AskLaterForEver(d) ==
  /\ pc[d] = "other"
  /\ pc' = [pc EXCEPT ![d] = "sleeps"]
  /\ tries' = [tries EXCEPT ![d] = @ - 1]
  /\ UNCHANGED <<link, serverVars, presences, about, cache, clientVars,
                 requestVars, proxyVars, teardownVars, faults>>

(* The answer does not name IModule: once more, five seconds later.        *)
AskLater(d) ==
  /\ pc[d] = "other" /\ tries[d] > 0
  /\ pc' = [pc EXCEPT ![d] = "sleeps"]
  /\ tries' = [tries EXCEPT ![d] = @ - 1]
  /\ UNCHANGED <<link, serverVars, presences, about, cache, clientVars,
                 requestVars, proxyVars, teardownVars, faults>>

AskAgain(d) ==
  /\ pc[d] = "sleeps"
  /\ Ask(d)
  /\ UNCHANGED <<link, serverVars, presences, about, tries, cache, clientVars,
                 requestVars, proxyVars, teardownVars, faults>>

(* The result of the future that the cache holds for j, if it is pending:   *)
(* those that await it will run on.                                        *)
Resolve(j, result) ==
  IF cache[j] \in Discoveries
  THEN /\ cache' = [cache EXCEPT ![j] = result]
       /\ at' = [r \in Requests |-> IF at[r] = cache[j] THEN result ELSE at[r]]
  ELSE UNCHANGED <<cache, at>>

(* Wrong on purpose: the discovery returns without resolving the future.   *)
NothingFoundUnresolved(d) ==
  /\ pc[d] = "error" \/ (pc[d] = "other" /\ tries[d] = 0)
  /\ DiscoveryEnds(d)
  /\ UNCHANGED <<link, serverVars, presences, cache, at, clientVars, requests,
                 for, proxyVars, teardownVars, faults>>

(* No interfaces at all: the peer is ignored.                              *)
NothingFound(d) ==
  /\ pc[d] = "error" \/ (pc[d] = "other" /\ tries[d] = 0)
  /\ Resolve(about[d], Empty)
  /\ DiscoveryEnds(d)
  /\ UNCHANGED <<link, serverVars, presences, clientVars, requests, for,
                 proxyVars, teardownVars, faults>>

(* Wrong on purpose: only register_event subscribes.                       *)
ModuleFoundUnheard(d) ==
  LET j == about[d] IN
    /\ pc[d] = "module"
    /\ Resolve(j, Full)
    /\ known' = known \cup {j}
    /\ online' = online \cup {j}
    /\ DiscoveryEnds(d)
    /\ UNCHANGED <<link, serverVars, presences, listening, keys, requests, for,
                   proxyVars, teardownVars, faults>>

(* The peer is a module: it is listed, wherever it may be by now, with the  *)
(* state that its presence had, and the module subscribes to the events     *)
(* that it listens to and the peer publishes.  (A subscription is retried   *)
(* until it succeeds.  Its key is recorded here, when its task is made; the *)
(* task does so as soon as it runs, and nothing ever removes a key: only    *)
(* unregister_event would, which is not modelled.)                         *)
ModuleFound(d) ==
  LET j == about[d] IN
    /\ pc[d] = "module"
    /\ Resolve(j, Full)
    /\ known' = known \cup {j}
    /\ online' = online \cup {j}
    /\ keys' = IF listening THEN keys \cup ({j} \cap Publishers) ELSE keys
    /\ DiscoveryEnds(d)
    /\ UNCHANGED <<link, serverVars, presences, listening, requests, for,
                   proxyVars, teardownVars, faults>>

(* register_event with a handler: the module subscribes to the event at     *)
(* every client in the list that publishes it.  (What a peer publishes is   *)
(* in the answer that made it a client, in _peer_sent_events.  For keys see *)
(* ModuleFound.)                                                           *)
RegisterEvent ==
  /\ ~listening /\ listening' = TRUE
  /\ keys' = keys \cup (online \cap Publishers)
  /\ UNCHANGED <<link, serverVars, discoveryVars, cache, online, known,
                 requestVars, proxyVars, teardownVars, faults>>

-----------------------------------------------------------------------------
(* _get_client: proxies for peers.                                         *)

RequestEnds(r) ==
  /\ for' = [for EXCEPT ![r] = None]
  /\ at' = [at EXCEPT ![r] = None]

(* The request r has the interfaces of j: it makes a proxy, subscribes to   *)
(* the peer's state, and stores the proxy in place of any other, all        *)
(* without an await.  Without interfaces there is nothing to subscribe to.  *)
BuildProxy(r, j, result) ==
  \/ /\ result = Full
     /\ proxies' = [proxies EXCEPT ![j] = r]
     /\ held' = [held EXCEPT ![j] = @ \cup {r}]
     /\ nodes' = [nodes EXCEPT ![j] = @ \cup {r}]
  \/ /\ result = Empty
     /\ proxies' = [proxies EXCEPT ![j] = Bare]
     /\ UNCHANGED <<held, nodes>>

(* get_interfaces: r polls until the cache has an entry for j, and awaits   *)
(* that future.                                                            *)
AwaitInterfaces(r, j) ==
  \/ /\ cache[j] \in Discoveries \cup {None}
     /\ for' = [for EXCEPT ![r] = j]
     /\ at' = [at EXCEPT ![r] = cache[j]]
     /\ UNCHANGED proxyVars
  \/ /\ BuildProxy(r, j, cache[j])
     /\ RequestEnds(r)

(* Someone asks for j, and there is no proxy yet.                          *)
Request(j) ==
  LET r == requests + 1 IN
    /\ requests < MaxRequests
    /\ requests' = r
    /\ proxies[j] = None
    /\ AwaitInterfaces(r, j)
    /\ UNCHANGED <<link, serverVars, discoveryVars, cache, clientVars,
                   teardownVars, faults>>

Polls(r) == for[r] # None /\ at[r] = None
Waits(r) == for[r] # None /\ at[r] # None

(* A poll finds an entry, or there was none for five seconds: IndexError.  *)
PollEnds(r) ==
  /\ Polls(r)
  /\ \/ cache[for[r]] # None /\ AwaitInterfaces(r, for[r])
     \/ cache[for[r]] = None /\ RequestEnds(r) /\ UNCHANGED proxyVars
  /\ UNCHANGED <<link, serverVars, discoveryVars, cache, clientVars, requests,
                 teardownVars, faults>>

(* The future that r awaits has its result: the task runs on.  It does not  *)
(* look again whether there is a proxy by now.                             *)
InterfacesKnown(r) ==
  /\ Waits(r)
  /\ BuildProxy(r, for[r], at[r])
  /\ RequestEnds(r)
  /\ UNCHANGED <<link, serverVars, discoveryVars, cache, clientVars, requests,
                 teardownVars, faults>>

(* Wrong on purpose: the subscriptions are left to themselves.             *)
ClientDisconnectedForgetting(j) ==
  /\ closing[j] > 0
  /\ closing' = [closing EXCEPT ![j] = @ - 1]
  /\ proxies' = [proxies EXCEPT ![j] = None]
  /\ held' = [held EXCEPT ![j] = {}]
  /\ UNCHANGED <<link, serverVars, discoveryVars, cache, clientVars,
                 requestVars, nodes, doomed, faults>>

(* Wrong on purpose: the proxy stays while what feeds it is torn down.     *)
ClientDisconnectedKeeping(j) ==
  /\ closing[j] > 0
  /\ closing' = [closing EXCEPT ![j] = @ - 1]
  /\ doomed' = [doomed EXCEPT ![j] = @ \cup held[j]]
  /\ held' = [held EXCEPT ![j] = {}]
  /\ UNCHANGED <<link, serverVars, discoveryVars, cache, clientVars,
                 requestVars, proxies, nodes, faults>>

(* _client_disconnected runs: the proxy is evicted and every subscription   *)
(* made for the peer is taken over, to be undone one after another.         *)
ClientDisconnected(j) ==
  /\ closing[j] > 0
  /\ closing' = [closing EXCEPT ![j] = @ - 1]
  /\ proxies' = [proxies EXCEPT ![j] = None]
  /\ doomed' = [doomed EXCEPT ![j] = @ \cup held[j]]
  /\ held' = [held EXCEPT ![j] = {}]
  /\ UNCHANGED <<link, serverVars, discoveryVars, cache, clientVars,
                 requestVars, nodes, faults>>

(* unsubscribe_state for one of them.                                      *)
Unsubscribe(j) ==
  /\ \E r \in doomed[j] :
       /\ doomed' = [doomed EXCEPT ![j] = @ \ {r}]
       /\ nodes' = [nodes EXCEPT ![j] = @ \ {r}]
  /\ UNCHANGED <<link, serverVars, discoveryVars, cache, clientVars,
                 requestVars, proxies, held, closing, faults>>

-----------------------------------------------------------------------------

Environment ==
  \/ \E j \in Jids : PeerComes(j) \/ PeerReported(j) \/ PeerLeaves(j)
                       \/ PeerChanges(j)
  \/ Disconnected
  \/ RegisterEvent
  \/ \E j \in Wanted : Request(j)

Discovery(d) ==
  \/ DiscoveryStarts(d) \/ PeerAnswers(d) \/ NoAnswer(d) \/ AskLater(d)
  \/ AskAgain(d) \/ NothingFound(d) \/ ModuleFound(d)

RequestGoesOn(r) == PollEnds(r) \/ InterfacesKnown(r)

Teardown(j) == ClientDisconnected(j) \/ Unsubscribe(j)

Next ==
  \/ Environment
  \/ Reconnect
  \/ \E d \in Discoveries : Discovery(d)
  \/ \E r \in Requests : RequestGoesOn(r)
  \/ \E j \in Jids : Teardown(j)

Spec == Init /\ [][Next]_vars

-----------------------------------------------------------------------------

(* Whatever future the cache holds has its result, or its own discovery is  *)
(* on its way: whoever asks for a client's interfaces from now on will get  *)
(* an answer, however presences, answers and the end of the connection      *)
(* interleave (comment of _got_online on the future left pending).          *)
PendingHasDiscovery ==
  \A j \in Jids : \A d \in Discoveries :
    cache[j] = d => about[d] = j /\ pc[d] \in InFlight \ {"starts"}

(* _online_clients and _client_states, two containers that four handlers    *)
(* change, always name the same clients.                                   *)
ListedHasState == online = known

(* The proxy that Comm hands out for a peer gets the peer's state: its      *)
(* callback is registered at the peer's node and is not among those that    *)
(* the teardown of an earlier proxy of the same peer is about to remove.    *)
CachedProxyIsFed ==
  \A j \in Jids : \A r \in Requests :
    proxies[j] = r => r \in nodes[j] \ doomed[j]

(* No callback is left behind: every one that is registered at a node is    *)
(* known to Comm, which will undo it when the peer goes, or is being        *)
(* undone.  That includes proxies that another request has replaced.        *)
CallbacksAreOwned == \A j \in Jids : nodes[j] = held[j] \cup doomed[j]

(* Whether a handler is registered before or after a peer is discovered,    *)
(* or in the middle: a listed peer that publishes the event is subscribed   *)
(* to.                                                                     *)
PublishersAreHeard == listening => online \cap Publishers \subseteq keys

=============================================================================
