--------------------------- MODULE PresenceProofs ---------------------------
(***************************************************************************)
(* What XmppComm and Comm keep about the peers stays consistent, for any    *)
(* number of peers, presences, requests and faults.  The invariant adds to  *)
(* the five properties why they hold: a discovery or a request that has not *)
(* begun is referred to nowhere, and the proxies of requests that have      *)
(* ended are the only callbacks there are, each in one of two places.       *)
(***************************************************************************)
EXTENDS Presence, TLAPS

(* A discovery has a peer while it runs; numbers still to come are unused.  *)
DiscoveriesAreNamed ==
  \A d \in Discoveries :
    /\ d > presences => pc[d] = "none"
    /\ pc[d] # "none" => about[d] \in Jids

(* A request that runs, or is still to come, has no proxy yet.             *)
ProxiesAreBuilt ==
  /\ \A r \in Requests : r > requests => for[r] = None
  /\ \A j \in Jids : \A r \in held[j] \cup doomed[j] :
       r <= requests /\ for[r] = None

(* A callback is known to Comm or being undone, never both; the cached      *)
(* proxy's is known.                                                       *)
CallbacksAreApart ==
  \A j \in Jids :
    /\ held[j] \cap doomed[j] = {}
    /\ proxies[j] \in Requests => proxies[j] \in held[j]

DiscoverySide == DiscoveryTypes /\ PendingHasDiscovery /\ DiscoveriesAreNamed
ClientSide    == ClientTypes /\ ListedHasState /\ PublishersAreHeard
ProxySide     == /\ RequestTypes /\ ProxyTypes
                 /\ ProxiesAreBuilt /\ CallbacksAreApart /\ CallbacksAreOwned

Bookkeeping == ServerTypes /\ DiscoverySide /\ ClientSide /\ ProxySide

-----------------------------------------------------------------------------

LEMMA Distinct ==
  /\ None \notin Jids /\ None \notin Discoveries /\ None \notin Requests
  /\ Results \cap Discoveries = {} /\ None \notin Results
  /\ Bare \notin Requests /\ None # Bare
  /\ Full # Empty
BY PresenceAssumption DEF Discoveries, Requests, Results, Bare

LEMMA PresenceInit == Init => Bookkeeping
<1> SUFFICES ASSUME Init PROVE Bookkeeping
  OBVIOUS
<1> USE PresenceAssumption, Distinct DEF Init
<1>1. ServerTypes /\ DiscoveryTypes
  BY DEF ServerTypes, DiscoveryTypes
<1>2. ClientTypes
  <2>1. listening \in BOOLEAN
    BY ZenonT(10)
  <2>2. QED
    BY <2>1 DEF ClientTypes
<1>3. RequestTypes /\ ProxyTypes
  BY DEF RequestTypes, ProxyTypes
<1>4. PendingHasDiscovery /\ ListedHasState /\ CallbacksAreOwned
  BY DEF PendingHasDiscovery, ListedHasState, CallbacksAreOwned
<1>5. PublishersAreHeard /\ DiscoveriesAreNamed
  BY DEF PublishersAreHeard, DiscoveriesAreNamed
<1>6. ProxiesAreBuilt /\ CallbacksAreApart
  BY DEF ProxiesAreBuilt, CallbacksAreApart
<1> QED
  BY <1>1, <1>2, <1>3, <1>4, <1>5, <1>6
  DEF Bookkeeping, DiscoverySide, ClientSide, ProxySide

-----------------------------------------------------------------------------

(* The actions that concern neither discoveries nor the cache leave their   *)
(* part of the invariant alone.                                            *)
LEMMA DiscoveryFrame ==
  ASSUME DiscoverySide, UNCHANGED <<discoveryVars, cache>>
  PROVE  DiscoverySide'
BY DEF DiscoverySide, discoveryVars, DiscoveryTypes, PendingHasDiscovery, DiscoveriesAreNamed

LEMMA ClientFrame ==
  ASSUME ClientSide, UNCHANGED clientVars
  PROVE  ClientSide'
BY DEF ClientSide, clientVars, ClientTypes, ListedHasState, PublishersAreHeard

LEMMA ProxyFrame ==
  ASSUME ProxySide, UNCHANGED <<requestVars, proxyVars, teardownVars>>
  PROVE  ProxySide'
BY DEF ProxySide, requestVars, proxyVars, teardownVars, RequestTypes, ProxyTypes,
       ProxiesAreBuilt, CallbacksAreApart, CallbacksAreOwned

(* A presence starts a discovery with a number not used before.            *)
LEMMA GotOnlineStep ==
  ASSUME NEW j \in Jids, DiscoverySide, GotOnline(j), UNCHANGED cache
  PROVE  DiscoverySide'
<1> DEFINE new == presences + 1
<1> USE DEF DiscoverySide, GotOnline
<1>1. new \in Discoveries /\ pc[new] = "none" /\ ~(new <= presences)
  BY PresenceAssumption DEF DiscoveriesAreNamed, DiscoveryTypes, Discoveries
<1>2. /\ pc' = [pc EXCEPT ![new] = "starts"]
      /\ about' = [about EXCEPT ![new] = j]
      /\ tries' = [tries EXCEPT ![new] = Attempts]
      /\ presences' = new /\ new \in 0..MaxPresences
  BY PresenceAssumption DEF DiscoveryTypes
<1> HIDE DEF new
<1>3. DiscoveryTypes'
  BY <1>1, <1>2, PresenceAssumption DEF InFlight, DiscoveryTypes
<1>4. PendingHasDiscovery'
  <2> SUFFICES ASSUME NEW p \in Jids, NEW d \in Discoveries, cache[p] = d
               PROVE  about'[d] = p /\ pc'[d] \in InFlight \ {"starts"}
    BY DEF PendingHasDiscovery
  <2>1. about[d] = p /\ pc[d] \in InFlight \ {"starts"}
    BY DEF PendingHasDiscovery
  <2>2. d # new
    BY <2>1, <1>1 DEF InFlight, Answers
  <2> QED
    BY <1>2, <2>1, <2>2 DEF DiscoveryTypes
<1>5. DiscoveriesAreNamed'
  BY <1>1, <1>2, PresenceAssumption DEF DiscoveriesAreNamed, DiscoveryTypes, Discoveries, new
<1> QED
  BY <1>3, <1>4, <1>5

(* Peers that go are taken out of the cache.                               *)
LEMMA GotOfflineStep ==
  ASSUME NEW gone \in SUBSET Jids, Bookkeeping, JidsGotOffline(gone),
         UNCHANGED <<listening, keys>>
  PROVE  /\ ClientSide'
         /\ cache' \in [Jids -> Futures \cup {None}]
         /\ \A j \in Jids : cache'[j] \in {cache[j], None}
         /\ closing' \in [Jids -> Nat]
<1> USE DEF Bookkeeping, JidsGotOffline
<1>1. ClientSide'
  BY DEF ClientSide, ClientTypes, ListedHasState, PublishersAreHeard
<1>2. cache' \in [Jids -> Futures \cup {None}]
  BY DEF DiscoverySide, DiscoveryTypes
<1>3. closing' \in [Jids -> Nat]
  BY DEF ProxySide, ProxyTypes
<1> QED
  BY <1>1, <1>2, <1>3 DEF DiscoverySide, DiscoveryTypes

(* The step of a running discovery that leaves the cache alone.            *)
LEMMA DiscoveryGoesOn ==
  ASSUME NEW d \in Discoveries, NEW await \in InFlight \ {"starts"},
         DiscoverySide, pc[d] \in InFlight \ {"starts"},
         pc' = [pc EXCEPT ![d] = await], tries' \in [Discoveries -> 0..Attempts],
         UNCHANGED <<presences, about, cache>>
  PROVE  DiscoverySide'
BY DEF DiscoverySide, DiscoveryTypes, PendingHasDiscovery, DiscoveriesAreNamed, InFlight, Answers

(* The end of a discovery: if the cache has a pending future for its peer,  *)
(* this is resolved, and so no future of this discovery stays.              *)
LEMMA DiscoveryEndsStep ==
  ASSUME NEW d \in Discoveries, NEW result \in Results, Bookkeeping,
         pc[d] # "none", Resolve(about[d], result), DiscoveryEnds(d),
         UNCHANGED <<presences, requests, for, proxyVars, teardownVars>>
  PROVE  DiscoverySide' /\ ProxySide'
<1> USE Distinct DEF Bookkeeping, DiscoverySide, ProxySide, DiscoveryEnds
<1>1. about[d] \in Jids
  BY DEF DiscoveriesAreNamed
<1>2. /\ cache' \in [Jids -> Futures \cup {None}]
      /\ at' \in [Requests -> Futures \cup {None}]
  <2>1. CASE cache[about[d]] \in Discoveries
    BY <1>1, <2>1 DEF Resolve, DiscoveryTypes, RequestTypes, Futures
  <2>2. CASE cache[about[d]] \notin Discoveries
    BY <2>2 DEF Resolve, DiscoveryTypes, RequestTypes
  <2> QED
    BY <2>1, <2>2
<1>3. \A j \in Jids : cache'[j] \in {cache[j], result}
  BY <1>1 DEF Resolve, DiscoveryTypes
<1>4. cache'[about[d]] \notin Discoveries
  BY <1>1 DEF Resolve, DiscoveryTypes
<1>5. DiscoveryTypes'
  BY <1>2, PresenceAssumption DEF DiscoveryTypes
<1>6. PendingHasDiscovery'
  <2> SUFFICES ASSUME NEW j \in Jids, NEW e \in Discoveries, cache'[j] = e
               PROVE  about'[e] = j /\ pc'[e] \in InFlight \ {"starts"}
    BY DEF PendingHasDiscovery
  <2>1. cache[j] = e
    BY <1>3
  <2>2. about[e] = j /\ pc[e] \in InFlight \ {"starts"}
    BY <2>1 DEF PendingHasDiscovery
  <2>3. e # d
    BY <1>4, <2>2
  <2> QED
    BY <2>2, <2>3 DEF DiscoveryTypes
<1>7. DiscoveriesAreNamed'
  BY DEF DiscoveriesAreNamed, DiscoveryTypes
<1>8. ProxySide'
  BY <1>2 DEF proxyVars, teardownVars, RequestTypes, ProxyTypes, ProxiesAreBuilt,
              CallbacksAreApart, CallbacksAreOwned
<1> QED
  BY <1>5, <1>6, <1>7, <1>8

(* A proxy is built for a request that has none.                           *)
LEMMA BuildProxyStep ==
  ASSUME NEW r \in Requests, NEW j \in Jids, NEW result, ProxySide,
         \A p \in Jids : r \notin held[p] \cup doomed[p],
         BuildProxy(r, j, result), RequestEnds(r),
         requests' \in {requests, r}, requests' \in 0..MaxRequests,
         requests <= requests', r <= requests',
         UNCHANGED teardownVars
  PROVE  ProxySide'
<1> USE Distinct DEF ProxySide, RequestEnds, teardownVars
<1>1. RequestTypes'
  BY DEF RequestTypes
<1>2. \A q \in Requests : q > requests' => for'[q] = None
  BY DEF RequestTypes, ProxiesAreBuilt, Requests
<1>3. CASE /\ proxies' = [proxies EXCEPT ![j] = r]
           /\ held' = [held EXCEPT ![j] = @ \cup {r}]
           /\ nodes' = [nodes EXCEPT ![j] = @ \cup {r}]
  <2>1. ProxyTypes'
    BY <1>3 DEF ProxyTypes
  <2>2. ProxiesAreBuilt'
    BY <1>2, <1>3, PresenceAssumption DEF ProxiesAreBuilt, ProxyTypes, RequestTypes, Requests
  <2>3. CallbacksAreApart' /\ CallbacksAreOwned'
    BY <1>3 DEF CallbacksAreApart, CallbacksAreOwned, ProxyTypes
  <2> QED
    BY <1>1, <2>1, <2>2, <2>3
<1>4. CASE /\ proxies' = [proxies EXCEPT ![j] = Bare]
           /\ UNCHANGED <<held, nodes>>
  <2>1. ProxyTypes'
    BY <1>4 DEF ProxyTypes
  <2>2. ProxiesAreBuilt'
    BY <1>2, <1>4, PresenceAssumption DEF ProxiesAreBuilt, ProxyTypes, RequestTypes, Requests
  <2>3. CallbacksAreApart' /\ CallbacksAreOwned'
    BY <1>4 DEF CallbacksAreApart, CallbacksAreOwned, ProxyTypes
  <2> QED
    BY <1>1, <2>1, <2>2, <2>3
<1> QED
  BY <1>3, <1>4 DEF BuildProxy

(* A request for j waits, or has its proxy at once.                        *)
LEMMA AwaitInterfacesStep ==
  ASSUME NEW r \in Requests, NEW j \in Jids, Bookkeeping,
         \A p \in Jids : r \notin held[p] \cup doomed[p],
         AwaitInterfaces(r, j),
         requests' \in {requests, r}, requests' \in 0..MaxRequests,
         requests <= requests', r <= requests',
         UNCHANGED teardownVars
  PROVE  ProxySide'
<1>1. CASE BuildProxy(r, j, cache[j]) /\ RequestEnds(r)
  BY <1>1, BuildProxyStep DEF Bookkeeping
<1>2. CASE /\ cache[j] \in Discoveries \cup {None}
           /\ for' = [for EXCEPT ![r] = j]
           /\ at' = [at EXCEPT ![r] = cache[j]]
           /\ UNCHANGED proxyVars
  <2> USE Distinct DEF Bookkeeping, ProxySide, teardownVars, proxyVars
  <2>1. RequestTypes' /\ ProxyTypes'
    BY <1>2 DEF RequestTypes, ProxyTypes, Futures
  <2>2. ProxiesAreBuilt'
    BY <1>2, PresenceAssumption DEF ProxiesAreBuilt, ProxyTypes, RequestTypes, Requests
  <2>3. CallbacksAreApart' /\ CallbacksAreOwned'
    BY <1>2 DEF CallbacksAreApart, CallbacksAreOwned
  <2> QED
    BY <2>1, <2>2, <2>3
<1> QED
  BY <1>1, <1>2 DEF AwaitInterfaces

-----------------------------------------------------------------------------

LEMMA EnvironmentStep ==
  ASSUME Bookkeeping, Environment
  PROVE  Bookkeeping'
<1> USE DEF Bookkeeping
<1>1. ASSUME NEW j \in Jids, PeerComes(j)
      PROVE  Bookkeeping'
  <2>1. DiscoverySide'
    BY <1>1, GotOnlineStep, DiscoveryFrame DEF PeerComes, discoveryVars
  <2>2. ClientSide' /\ ProxySide'
    BY <1>1, ClientFrame, ProxyFrame DEF PeerComes
  <2>3. ServerTypes'
    BY <1>1 DEF PeerComes, ServerTypes
  <2> QED
    BY <2>1, <2>2, <2>3
<1>2. ASSUME NEW j \in Jids, PeerReported(j)
      PROVE  Bookkeeping'
  <2>1. DiscoverySide'
    BY <1>2, GotOnlineStep DEF PeerReported
  <2>2. ClientSide' /\ ProxySide'
    BY <1>2, ClientFrame, ProxyFrame DEF PeerReported
  <2>3. ServerTypes'
    BY <1>2 DEF PeerReported, ServerTypes
  <2> QED
    BY <2>1, <2>2, <2>3
<1>3. ASSUME NEW j \in Jids, PeerLeaves(j)
      PROVE  Bookkeeping'
  <2>1. ServerTypes'
    BY <1>3 DEF PeerLeaves, serverVars, ServerTypes
  <2>2. CASE JidsGotOffline({j})
    <3>1. /\ ClientSide'
          /\ cache' \in [Jids -> Futures \cup {None}]
          /\ \A p \in Jids : cache'[p] \in {cache[p], None}
          /\ closing' \in [Jids -> Nat]
      BY <1>3, <2>2, GotOfflineStep DEF PeerLeaves
    <3>2. DiscoverySide'
      BY <1>3, <3>1, Distinct
      DEF PeerLeaves, discoveryVars, DiscoverySide, DiscoveryTypes, PendingHasDiscovery,
          DiscoveriesAreNamed
    <3>3. ProxySide'
      BY <1>3, <3>1
      DEF PeerLeaves, requestVars, proxyVars, ProxySide, RequestTypes, ProxyTypes,
          ProxiesAreBuilt, CallbacksAreApart, CallbacksAreOwned
    <3> QED
      BY <2>1, <3>1, <3>2, <3>3
  <2>3. CASE UNCHANGED <<online, known, cache, closing>>
    BY <1>3, <2>1, <2>3, DiscoveryFrame, ClientFrame, ProxyFrame
    DEF PeerLeaves, clientVars, teardownVars
  <2> QED
    BY <1>3, <2>2, <2>3 DEF PeerLeaves
<1>4. ASSUME NEW j \in Jids, PeerChanges(j)
      PROVE  Bookkeeping'
  <2>1. ClientSide'
    BY <1>4 DEF PeerChanges, ClientSide, ClientTypes, ListedHasState, PublishersAreHeard
  <2> QED
    BY <1>4, <2>1, DiscoveryFrame, ProxyFrame DEF PeerChanges, serverVars, ServerTypes
<1>5. CASE Disconnected
  <2>1. PICK left \in SUBSET online : JidsGotOffline(online \ left)
    BY <1>5 DEF Disconnected
  <2>2. /\ ClientSide'
        /\ cache' \in [Jids -> Futures \cup {None}]
        /\ \A p \in Jids : cache'[p] \in {cache[p], None}
        /\ closing' \in [Jids -> Nat]
    BY <1>5, <2>1, GotOfflineStep DEF Disconnected, ClientSide, ClientTypes
  <2>3. DiscoverySide'
    BY <1>5, <2>2, Distinct
    DEF Disconnected, DiscoverySide, DiscoveryTypes, PendingHasDiscovery,
        DiscoveriesAreNamed, InFlight, Answers
  <2>4. ProxySide'
    BY <1>5, <2>2
    DEF Disconnected, requestVars, proxyVars, ProxySide, RequestTypes, ProxyTypes,
        ProxiesAreBuilt, CallbacksAreApart, CallbacksAreOwned
  <2>5. ServerTypes'
    BY <1>5, PresenceAssumption DEF Disconnected, serverVars, ServerTypes
  <2> QED
    BY <2>2, <2>3, <2>4, <2>5
<1>6. CASE RegisterEvent
  <2>1. ClientSide'
    <3>1. listening' \in BOOLEAN
      BY <1>6, ZenonT(10) DEF RegisterEvent
    <3> QED
      BY <1>6, <3>1 DEF RegisterEvent, ClientSide, ClientTypes, ListedHasState, PublishersAreHeard
  <2> QED
    BY <1>6, <2>1, DiscoveryFrame, ProxyFrame DEF RegisterEvent, serverVars, ServerTypes
<1>7. ASSUME NEW j \in Wanted, Request(j)
      PROVE  Bookkeeping'
  <2>1. DiscoverySide' /\ ClientSide' /\ ServerTypes'
    BY <1>7, DiscoveryFrame, ClientFrame DEF Request, serverVars, ServerTypes
  <2>2. /\ requests + 1 \in Requests
        /\ \A p \in Jids : requests + 1 \notin held[p] \cup doomed[p]
    BY <1>7, PresenceAssumption
    DEF Request, ProxySide, RequestTypes, ProxiesAreBuilt, Requests
  <2>3. /\ AwaitInterfaces(requests + 1, j) /\ requests' = requests + 1
        /\ requests' \in 0..MaxRequests /\ requests <= requests'
        /\ UNCHANGED teardownVars /\ j \in Jids
    BY <1>7, PresenceAssumption DEF Request, ProxySide, RequestTypes
  <2>4. ProxySide'
    BY <2>2, <2>3, AwaitInterfacesStep DEF ProxySide, RequestTypes
  <2> QED
    BY <2>1, <2>4
<1> QED
  BY <1>1, <1>2, <1>3, <1>4, <1>5, <1>6, <1>7 DEF Environment

LEMMA DiscoveryStep ==
  ASSUME Bookkeeping, NEW d \in Discoveries, Discovery(d)
  PROVE  Bookkeeping'
<1> USE DEF Bookkeeping
<1>1. CASE DiscoveryStarts(d)
  <2>1. about[d] \in Jids
    BY <1>1 DEF DiscoveryStarts, DiscoverySide, DiscoveriesAreNamed
  <2>2. DiscoveryTypes' /\ DiscoveriesAreNamed'
    BY <1>1, <2>1
    DEF DiscoveryStarts, Ask, DiscoverySide, DiscoveryTypes, DiscoveriesAreNamed, InFlight,
        Answers, Futures
  <2>3. PendingHasDiscovery'
    BY <1>1, <2>1
    DEF DiscoveryStarts, Ask, DiscoverySide, DiscoveryTypes, PendingHasDiscovery, InFlight,
        Answers
  <2> QED
    BY <1>1, <2>2, <2>3, ClientFrame, ProxyFrame
    DEF DiscoveryStarts, DiscoverySide, serverVars, ServerTypes
<1>2. CASE PeerAnswers(d)
  <2>1. DiscoverySide'
    BY <1>2, DiscoveryGoesOn DEF PeerAnswers, DiscoverySide, DiscoveryTypes, InFlight, Answers
  <2> QED
    BY <1>2, <2>1, ClientFrame, ProxyFrame DEF PeerAnswers, serverVars, ServerTypes
<1>3. CASE NoAnswer(d)
  <2>1. DiscoverySide'
    BY <1>3, DiscoveryGoesOn DEF NoAnswer, DiscoverySide, DiscoveryTypes, InFlight, Answers
  <2>2. ServerTypes'
    BY <1>3, PresenceAssumption DEF NoAnswer, serverVars, ServerTypes
  <2> QED
    BY <1>3, <2>1, <2>2, ClientFrame, ProxyFrame DEF NoAnswer
<1>4. CASE AskLater(d)
  <2>1. tries' \in [Discoveries -> 0..Attempts]
    BY <1>4, PresenceAssumption DEF AskLater, DiscoverySide, DiscoveryTypes
  <2>2. DiscoverySide'
    BY <1>4, <2>1, DiscoveryGoesOn DEF AskLater, InFlight, Answers
  <2> QED
    BY <1>4, <2>2, ClientFrame, ProxyFrame DEF AskLater, serverVars, ServerTypes
<1>5. CASE AskAgain(d)
  <2>1. DiscoverySide'
    BY <1>5, DiscoveryGoesOn DEF AskAgain, Ask, DiscoverySide, DiscoveryTypes, InFlight, Answers
  <2> QED
    BY <1>5, <2>1, ClientFrame, ProxyFrame DEF AskAgain, serverVars, ServerTypes
<1>6. CASE NothingFound(d)
  <2>1. DiscoverySide' /\ ProxySide'
    BY <1>6, DiscoveryEndsStep DEF NothingFound, Results
  <2>2. ClientSide'
    BY <1>6, ClientFrame DEF NothingFound, clientVars
  <2> QED
    BY <1>6, <2>1, <2>2 DEF NothingFound, serverVars, ServerTypes
<1>7. CASE ModuleFound(d)
  <2>1. DiscoverySide' /\ ProxySide'
    BY <1>7, DiscoveryEndsStep DEF ModuleFound, Results
  <2>2. about[d] \in Jids
    BY <1>7 DEF ModuleFound, DiscoverySide, DiscoveriesAreNamed
  <2>3. ClientSide'
    BY <1>7, <2>2 DEF ModuleFound, ClientSide, ClientTypes, ListedHasState, PublishersAreHeard
  <2> QED
    BY <1>7, <2>1, <2>3 DEF ModuleFound, serverVars, ServerTypes
<1> QED
  BY <1>1, <1>2, <1>3, <1>4, <1>5, <1>6, <1>7 DEF Discovery

LEMMA RequestStep ==
  ASSUME Bookkeeping, NEW r \in Requests, RequestGoesOn(r)
  PROVE  Bookkeeping'
<1> USE DEF Bookkeeping
<1>1. DiscoverySide' /\ ClientSide' /\ ServerTypes' /\ UNCHANGED <<requests, teardownVars>>
  BY DiscoveryFrame, ClientFrame
  DEF RequestGoesOn, PollEnds, InterfacesKnown, serverVars, ServerTypes
<1>2. /\ for[r] \in Jids /\ r <= requests
      /\ \A p \in Jids : r \notin held[p] \cup doomed[p]
      /\ requests \in 0..MaxRequests
  BY PresenceAssumption, Distinct
  DEF RequestGoesOn, PollEnds, InterfacesKnown, Polls, Waits, ProxySide, RequestTypes,
      ProxiesAreBuilt, Requests
<1>3. CASE AwaitInterfaces(r, for[r])
  BY <1>1, <1>2, <1>3, AwaitInterfacesStep
<1>4. CASE RequestEnds(r) /\ UNCHANGED proxyVars
  BY <1>1, <1>4
  DEF RequestEnds, proxyVars, teardownVars, ProxySide, RequestTypes, ProxyTypes,
      ProxiesAreBuilt, CallbacksAreApart, CallbacksAreOwned
<1>5. CASE BuildProxy(r, for[r], at[r]) /\ RequestEnds(r)
  BY <1>1, <1>2, <1>5, BuildProxyStep
<1> QED
  BY <1>3, <1>4, <1>5 DEF RequestGoesOn, PollEnds, InterfacesKnown

LEMMA TeardownStep ==
  ASSUME Bookkeeping, NEW j \in Jids, Teardown(j)
  PROVE  Bookkeeping'
<1> USE DEF Bookkeeping, ProxySide
<1>1. DiscoverySide' /\ ClientSide' /\ ServerTypes' /\ RequestTypes'
  BY DiscoveryFrame, ClientFrame
  DEF Teardown, ClientDisconnected, Unsubscribe, serverVars, requestVars, ServerTypes,
      RequestTypes
<1>2. CASE ClientDisconnected(j)
  <2>1. ProxyTypes'
    BY <1>2 DEF ClientDisconnected, ProxyTypes
  <2>2. ProxiesAreBuilt'
    BY <1>2 DEF ClientDisconnected, requestVars, ProxyTypes, ProxiesAreBuilt
  <2>3. CallbacksAreApart' /\ CallbacksAreOwned'
    BY <1>2, Distinct DEF ClientDisconnected, ProxyTypes, CallbacksAreApart, CallbacksAreOwned
  <2> QED
    BY <1>1, <2>1, <2>2, <2>3
<1>3. CASE Unsubscribe(j)
  <2>1. ProxyTypes'
    BY <1>3 DEF Unsubscribe, ProxyTypes
  <2>2. ProxiesAreBuilt'
    BY <1>3 DEF Unsubscribe, requestVars, ProxyTypes, ProxiesAreBuilt
  <2>3. CallbacksAreApart' /\ CallbacksAreOwned'
    BY <1>3 DEF Unsubscribe, ProxyTypes, CallbacksAreApart, CallbacksAreOwned
  <2> QED
    BY <1>1, <2>1, <2>2, <2>3
<1> QED
  BY <1>2, <1>3 DEF Teardown

LEMMA PresenceStep == Bookkeeping /\ [Next]_vars => Bookkeeping'
<1> SUFFICES ASSUME Bookkeeping, [Next]_vars PROVE Bookkeeping'
  OBVIOUS
<1>1. CASE Reconnect
  <2>1. ServerTypes'
    BY <1>1 DEF Reconnect, Bookkeeping, ServerTypes
  <2> QED
    BY <1>1, <2>1, DiscoveryFrame, ClientFrame, ProxyFrame DEF Reconnect, Bookkeeping
<1>2. CASE UNCHANGED vars
  BY <1>2, DiscoveryFrame, ClientFrame, ProxyFrame
  DEF vars, serverVars, Bookkeeping, ServerTypes
<1> QED
  BY <1>1, <1>2, EnvironmentStep, DiscoveryStep, RequestStep, TeardownStep DEF Next

-----------------------------------------------------------------------------

(* The bookkeeping of the peers is consistent in every reachable state.     *)
THEOREM PresenceInvariant == Spec => []Bookkeeping
BY PresenceInit, PresenceStep, PTL DEF Spec

(* The variables have their types: every task of a discovery, a request or  *)
(* a teardown refers to a peer and a future that there are.                *)
THEOREM PresenceTypes == Spec => []TypeOK
<1>1. Bookkeeping => TypeOK
  BY DEF Bookkeeping, DiscoverySide, ClientSide, ProxySide, TypeOK
<1> QED
  BY <1>1, PresenceInvariant, PTL

(* Nobody who asks for a client's interfaces gets a future from the cache   *)
(* that no discovery will resolve.                                         *)
THEOREM NoFutureIsForgotten == Spec => []PendingHasDiscovery
<1>1. Bookkeeping => PendingHasDiscovery
  BY DEF Bookkeeping, DiscoverySide
<1> QED
  BY <1>1, PresenceInvariant, PTL

(* The list of clients and the table of their states agree.                *)
THEOREM ListAndStatesAgree == Spec => []ListedHasState
<1>1. Bookkeeping => ListedHasState
  BY DEF Bookkeeping, ClientSide
<1> QED
  BY <1>1, PresenceInvariant, PTL

(* A proxy handed out from the cache is fed by its peer.                    *)
THEOREM ProxiesAreFed == Spec => []CachedProxyIsFed
<1>1. Bookkeeping => CachedProxyIsFed
  BY DEF Bookkeeping, ProxySide, CallbacksAreApart, CallbacksAreOwned, CachedProxyIsFed
<1> QED
  BY <1>1, PresenceInvariant, PTL

(* No callback of any proxy is left behind.                                *)
THEOREM NoCallbackIsLost == Spec => []CallbacksAreOwned
<1>1. Bookkeeping => CallbacksAreOwned
  BY DEF Bookkeeping, ProxySide
<1> QED
  BY <1>1, PresenceInvariant, PTL

(* Every listed publisher is subscribed to once anybody listens.           *)
THEOREM NoPublisherIsMissed == Spec => []PublishersAreHeard
<1>1. Bookkeeping => PublishersAreHeard
  BY DEF Bookkeeping, ClientSide
<1> QED
  BY <1>1, PresenceInvariant, PTL

-----------------------------------------------------------------------------
(* Whose answer a caller of _get_client gets.                              *)

(* A caller awaits the future of a discovery of the peer that it asked for, *)
(* also when the cache has long forgotten or replaced that future.         *)
CallersAwaitTheirPeer ==
  \A r \in Requests :
    /\ at[r] # None => for[r] \in Jids
    /\ \A d \in Discoveries : at[r] = d =>
         /\ d <= presences /\ pc[d] # "starts"
         /\ pc[d] # "none" => about[d] = for[r]

(* The interfaces that a caller gets are those that some discovery of its   *)
(* own peer has just found, maybe a later one than that whose future it     *)
(* awaits; and none at all only if that discovery has found none.           *)
AnswersAreTheirs ==
  \A r \in Requests : at[r] \in Discoveries /\ at'[r] \in Results =>
    \E d \in Discoveries :
      /\ about[d] = for[r] /\ pc[d] \in Answers /\ pc'[d] = "none"
      /\ at'[r] = IF pc[d] = "module" THEN Full ELSE Empty

(* What a step that ends one request, or lets it wait, does to the others.  *)
LEMMA AwaitInterfacesWaits ==
  ASSUME Bookkeeping, CallersAwaitTheirPeer, NEW r \in Requests, NEW j \in Jids,
         AwaitInterfaces(r, j), UNCHANGED discoveryVars
  PROVE  CallersAwaitTheirPeer'
<1> USE Distinct DEF Bookkeeping, discoveryVars
<1>1. CASE /\ cache[j] \in Discoveries \cup {None}
           /\ for' = [for EXCEPT ![r] = j]
           /\ at' = [at EXCEPT ![r] = cache[j]]
  <2>1. \A d \in Discoveries : cache[j] = d =>
          d <= presences /\ about[d] = j /\ pc[d] \notin {"none", "starts"}
    <3>1. presences \in Nat /\ \A d \in Discoveries : d \in Nat
      BY PresenceAssumption DEF DiscoverySide, DiscoveryTypes, Discoveries
    <3>2. QED
      BY <3>1 DEF DiscoverySide, PendingHasDiscovery, DiscoveriesAreNamed, InFlight, Answers
  <2>2. QED
    BY <1>1, <2>1 DEF CallersAwaitTheirPeer, ProxySide, RequestTypes
<1>2. CASE RequestEnds(r)
  BY <1>2 DEF RequestEnds, CallersAwaitTheirPeer, ProxySide, RequestTypes
<1>3. QED
  BY <1>1, <1>2 DEF AwaitInterfaces

LEMMA EnvironmentWaits ==
  ASSUME Bookkeeping, CallersAwaitTheirPeer, Environment
  PROVE  CallersAwaitTheirPeer'
<1>0. presences \in Nat /\ \A d \in Discoveries : d \in Nat
  BY PresenceAssumption DEF Bookkeeping, DiscoverySide, DiscoveryTypes, Discoveries
<1>1. ASSUME NEW j \in Jids, GotOnline(j), UNCHANGED requestVars
      PROVE  CallersAwaitTheirPeer'
  BY <1>0, <1>1 DEF GotOnline, requestVars, CallersAwaitTheirPeer, Bookkeeping, DiscoverySide,
    DiscoveryTypes
<1>2. ASSUME UNCHANGED <<discoveryVars, requestVars>>
      PROVE  CallersAwaitTheirPeer'
  BY <1>2 DEF discoveryVars, requestVars, CallersAwaitTheirPeer
<1>3. ASSUME Disconnected
      PROVE  CallersAwaitTheirPeer'
  BY <1>3 DEF Disconnected, requestVars, CallersAwaitTheirPeer, Bookkeeping, DiscoverySide,
    DiscoveryTypes
<1>4. ASSUME NEW j \in Wanted, Request(j)
      PROVE  CallersAwaitTheirPeer'
  <2>1. requests + 1 \in Requests /\ j \in Jids
    BY <1>4, PresenceAssumption DEF Request, Bookkeeping, ProxySide, RequestTypes, Requests
  <2>2. QED
    BY <1>4, <2>1, AwaitInterfacesWaits DEF Request
<1>5. QED
  BY <1>1, <1>2, <1>3, <1>4
  DEF Environment, PeerComes, PeerReported, PeerLeaves, PeerChanges, RegisterEvent

LEMMA DiscoveryWaits ==
  ASSUME Bookkeeping, CallersAwaitTheirPeer, NEW d \in Discoveries, Discovery(d)
  PROVE  CallersAwaitTheirPeer' /\ AnswersAreTheirs
<1> USE Distinct
    DEF Bookkeeping, DiscoverySide, DiscoveryTypes, ProxySide, RequestTypes, CallersAwaitTheirPeer
<1>1. CASE NothingFound(d) \/ ModuleFound(d)
  <2>1. PICK result \in Results :
          /\ Resolve(about[d], result) /\ DiscoveryEnds(d)
          /\ result = IF pc[d] = "module" THEN Full ELSE Empty
    BY <1>1 DEF NothingFound, ModuleFound, Results
  <2>2. UNCHANGED <<presences, for>> /\ pc[d] \in Answers
    BY <1>1 DEF NothingFound, ModuleFound, Answers
  <2>3. about[d] \in Jids
    BY <2>2 DEF DiscoveriesAreNamed, Answers
  <2>4. \A r \in Requests :
          at'[r] = at[r] \/ (at[r] \in Discoveries /\ at[r] = cache[about[d]] /\ at'[r] = result)
    BY <2>1 DEF Resolve
  <2>5. CallersAwaitTheirPeer'
    BY <2>1, <2>2, <2>4 DEF DiscoveryEnds
  <2>6. AnswersAreTheirs
    <3> SUFFICES ASSUME NEW r \in Requests, at[r] \in Discoveries, at'[r] \in Results
                 PROVE  /\ about[d] = for[r] /\ pc[d] \in Answers /\ pc'[d] = "none"
                        /\ at'[r] = IF pc[d] = "module" THEN Full ELSE Empty
      BY DEF AnswersAreTheirs
    <3>1. at[r] = cache[about[d]] /\ at'[r] = result
      BY <2>4
    <3>2. about[at[r]] = about[d] /\ pc[at[r]] # "none"
      BY <2>3, <3>1 DEF PendingHasDiscovery, InFlight, Answers
    <3>3. about[at[r]] = for[r]
      BY <3>2
    <3>4. QED
      BY <2>1, <2>2, <3>1, <3>2, <3>3 DEF DiscoveryEnds
  <2>7. QED
    BY <2>5, <2>6
<1>2. CASE DiscoveryStarts(d) \/ PeerAnswers(d) \/ NoAnswer(d) \/ AskLater(d) \/ AskAgain(d)
  <2>1. UNCHANGED <<presences, about, requestVars>> /\ pc[d] # "none"
    BY <1>2 DEF DiscoveryStarts, PeerAnswers, NoAnswer, AskLater, AskAgain
  <2>2. PICK await \in InFlight \ {"starts"} : pc' = [pc EXCEPT ![d] = await]
    BY <1>2 DEF DiscoveryStarts, PeerAnswers, NoAnswer, AskLater, AskAgain, Ask, InFlight, Answers
  <2>3. CallersAwaitTheirPeer'
    BY <2>1, <2>2 DEF requestVars, InFlight, Answers
  <2>4. QED
    BY <2>1, <2>3 DEF AnswersAreTheirs, requestVars
<1>3. QED
  BY <1>1, <1>2 DEF Discovery

LEMMA WaitStep ==
  ASSUME Bookkeeping, CallersAwaitTheirPeer, [Next]_vars
  PROVE  CallersAwaitTheirPeer' /\ AnswersAreTheirs
<1> USE Distinct
<1>1. ASSUME Environment
      PROVE  AnswersAreTheirs
  <2>1. ASSUME NEW j \in Wanted, Request(j)
        PROVE  \A r \in Requests : at'[r] # at[r] => at'[r] \in Discoveries \cup {None}
    BY <2>1 DEF Request, AwaitInterfaces, RequestEnds, Bookkeeping, ProxySide, RequestTypes
  <2>2. QED
    BY <1>1, <2>1 DEF Environment, PeerComes, PeerReported, PeerLeaves, PeerChanges, Disconnected,
      RegisterEvent, requestVars, AnswersAreTheirs
<1>2. ASSUME NEW r \in Requests, RequestGoesOn(r)
      PROVE  CallersAwaitTheirPeer' /\ AnswersAreTheirs
  <2>1. UNCHANGED discoveryVars /\ for[r] \in Jids
    BY <1>2 DEF RequestGoesOn, PollEnds, InterfacesKnown, Polls, Waits, Bookkeeping, ProxySide,
      RequestTypes
  <2>2. AwaitInterfaces(r, for[r]) \/ RequestEnds(r)
    BY <1>2 DEF RequestGoesOn, PollEnds, InterfacesKnown
  <2>3. CallersAwaitTheirPeer'
    BY <2>1, <2>2, AwaitInterfacesWaits
    DEF RequestEnds, CallersAwaitTheirPeer, Bookkeeping, ProxySide, RequestTypes, discoveryVars
  <2>4. \A q \in Requests : at'[q] # at[q] => at'[q] \in Discoveries \cup {None}
    BY <2>2 DEF AwaitInterfaces, RequestEnds, Bookkeeping, ProxySide, RequestTypes
  <2>5. QED
    BY <2>3, <2>4 DEF AnswersAreTheirs
<1>3. ASSUME Reconnect \/ (\E j \in Jids : Teardown(j)) \/ UNCHANGED vars
      PROVE  CallersAwaitTheirPeer' /\ AnswersAreTheirs
  BY <1>3 DEF Reconnect, Teardown, ClientDisconnected, Unsubscribe, vars, discoveryVars,
    requestVars, CallersAwaitTheirPeer, AnswersAreTheirs
<1>4. QED
  BY <1>1, <1>2, <1>3, EnvironmentWaits, DiscoveryWaits DEF Next

LEMMA WaitInvariant == Spec => []CallersAwaitTheirPeer
<1>1. Init => CallersAwaitTheirPeer
  BY Distinct DEF Init, CallersAwaitTheirPeer
<1>2. Bookkeeping /\ CallersAwaitTheirPeer /\ [Next]_vars => CallersAwaitTheirPeer'
  BY WaitStep
<1>3. QED
  BY <1>1, <1>2, PresenceInvariant, PTL DEF Spec

(* A caller never gets the interfaces of another peer, nor an answer that   *)
(* no discovery has given, however presences, futures and requests of       *)
(* several peers are mixed.                                                *)
THEOREM CallersGetTheirAnswers == Spec => []CallersAwaitTheirPeer /\ [][AnswersAreTheirs]_vars
<1>1. Bookkeeping /\ CallersAwaitTheirPeer /\ [Next]_vars => [AnswersAreTheirs]_vars
  BY WaitStep
<1>2. QED
  BY <1>1, PresenceInvariant, WaitInvariant, PTL DEF Spec

-----------------------------------------------------------------------------
(* The life of the callbacks.                                              *)

(* The life of a proxy's callback: it is registered once, by a request for  *)
(* that peer in the very step in which its proxy is cached; from then on    *)
(* the request does nothing any more.  Comm lets go of it only with the     *)
(* proxy of the peer and only to undo it, and it leaves its node when it    *)
(* has been undone.                                                        *)
CallbacksLiveOnce ==
  \A j \in Jids : \A r \in Requests :
    /\ r \in nodes'[j] \ nodes[j] =>
         /\ r > requests \/ for[r] = j
         /\ r <= requests' /\ for'[r] = None /\ proxies'[j] = r
    /\ r <= requests /\ for[r] = None => r <= requests' /\ for'[r] = None
    /\ r \in held[j] \ held'[j] => r \in doomed'[j] /\ proxies'[j] = None
    /\ r \in doomed[j] \ doomed'[j] => r \notin nodes'[j]
    /\ r \in nodes[j] \ nodes'[j] => r \in doomed[j]

(* A proxy that is built is the first and the last thing of its request.    *)
LEMMA BuildProxyLives ==
  ASSUME NEW q \in Requests, NEW p \in Jids, NEW result, Bookkeeping,
         BuildProxy(q, p, result), RequestEnds(q),
         q > requests \/ for[q] = p,
         requests' \in {requests, q}, requests <= requests', q <= requests',
         UNCHANGED teardownVars
  PROVE  CallbacksLiveOnce
<1> USE Distinct DEF Bookkeeping, ProxySide, RequestTypes, ProxyTypes, RequestEnds, teardownVars
<1>1. requests \in Nat /\ requests' \in Nat /\ \A r \in Requests : r \in Nat
  BY PresenceAssumption DEF Requests
<1>2. \A r \in Requests : for'[r] = IF r = q THEN None ELSE for[r]
  OBVIOUS
<1>3. CASE /\ proxies' = [proxies EXCEPT ![p] = q]
           /\ held' = [held EXCEPT ![p] = @ \cup {q}]
           /\ nodes' = [nodes EXCEPT ![p] = @ \cup {q}]
  BY <1>1, <1>2, <1>3 DEF CallbacksLiveOnce
<1>4. CASE UNCHANGED <<held, nodes>>
  BY <1>1, <1>2, <1>4 DEF CallbacksLiveOnce
<1>5. QED
  BY <1>3, <1>4 DEF BuildProxy

LEMMA LifeStep ==
  ASSUME Bookkeeping, [Next]_vars
  PROVE  CallbacksLiveOnce
<1> USE Distinct DEF Bookkeeping, ProxySide
<1>0. requests \in Nat /\ \A r \in Requests : r \in Nat
  BY PresenceAssumption DEF RequestTypes, Requests
<1>2. ASSUME NEW r \in Requests, NEW j \in Jids, AwaitInterfaces(r, j),
             r > requests \/ for[r] = j,
             requests' \in {requests, r}, requests <= requests', r <= requests',
             UNCHANGED teardownVars
      PROVE  CallbacksLiveOnce
  <2>1. CASE BuildProxy(r, j, cache[j]) /\ RequestEnds(r)
    BY <1>2, <2>1, BuildProxyLives
  <2>2. CASE for' = [for EXCEPT ![r] = j] /\ UNCHANGED proxyVars
    BY <1>0, <1>2, <2>2
    DEF CallbacksLiveOnce, RequestTypes, proxyVars, teardownVars
  <2>3. QED
    BY <1>2, <2>1, <2>2 DEF AwaitInterfaces
<1>3. ASSUME NEW j \in Wanted, Request(j)
      PROVE  CallbacksLiveOnce
  <2>1. requests + 1 \in Requests /\ j \in Jids
    BY <1>3, PresenceAssumption DEF Request, RequestTypes, Requests
  <2>2. QED
    BY <1>0, <1>2, <1>3, <2>1 DEF Request
<1>4. ASSUME NEW r \in Requests, RequestGoesOn(r)
      PROVE  CallbacksLiveOnce
  <2>1. for[r] \in Jids /\ r <= requests /\ UNCHANGED <<requests, teardownVars>>
    BY <1>0, <1>4 DEF RequestGoesOn, PollEnds, InterfacesKnown, Polls, Waits, RequestTypes,
      ProxiesAreBuilt
  <2>2. CASE AwaitInterfaces(r, for[r])
    BY <1>0, <1>2, <2>1, <2>2
  <2>3. CASE RequestEnds(r) /\ UNCHANGED proxyVars
    BY <1>0, <2>1, <2>3
    DEF CallbacksLiveOnce, RequestEnds, RequestTypes, proxyVars, teardownVars
  <2>4. CASE BuildProxy(r, for[r], at[r]) /\ RequestEnds(r)
    BY <1>0, <2>1, <2>4, BuildProxyLives
  <2>5. QED
    BY <1>4, <2>2, <2>3, <2>4 DEF RequestGoesOn, PollEnds, InterfacesKnown
<1>5. ASSUME NEW j \in Jids, Teardown(j)
      PROVE  CallbacksLiveOnce
  BY <1>0, <1>5 DEF Teardown, ClientDisconnected, Unsubscribe, requestVars, ProxyTypes,
    CallbacksLiveOnce, CallbacksAreApart
<1>6. ASSUME Environment, ~(\E j \in Wanted : Request(j))
      PROVE  UNCHANGED <<requests, for, held, nodes, doomed>>
  BY <1>6 DEF Environment, PeerComes, PeerReported, PeerLeaves, PeerChanges, Disconnected,
    RegisterEvent, requestVars, proxyVars, teardownVars
<1>7. ASSUME UNCHANGED <<requests, for, held, nodes, doomed>>
      PROVE  CallbacksLiveOnce
  BY <1>0, <1>7 DEF CallbacksLiveOnce
<1>8. ASSUME Reconnect \/ (\E d \in Discoveries : Discovery(d)) \/ UNCHANGED vars
      PROVE  UNCHANGED <<requests, for, held, nodes, doomed>>
  BY <1>8 DEF Reconnect, Discovery, DiscoveryStarts, PeerAnswers, NoAnswer, AskLater, AskAgain,
    NothingFound, ModuleFound, vars, requestVars, proxyVars, teardownVars
<1>9. QED
  BY <1>3, <1>4, <1>5, <1>6, <1>7, <1>8 DEF Next

(* No callback comes back after it has been undone, is registered for       *)
(* another peer than its proxy's, or is taken away from a proxy that Comm   *)
(* still hands out.                                                        *)
THEOREM CallbacksLiveOrderly == Spec => [][CallbacksLiveOnce]_vars
<1>1. Bookkeeping /\ [Next]_vars => [CallbacksLiveOnce]_vars
  BY LifeStep
<1>2. QED
  BY <1>1, PresenceInvariant, PTL DEF Spec
=============================================================================
