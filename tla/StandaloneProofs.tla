-------------------------- MODULE StandaloneProofs --------------------------
(***************************************************************************)
(* Proofs about the standalone mode.                                       *)
(***************************************************************************)
EXTENDS Standalone, TLAPS, FiniteSetTheorems

-----------------------------------------------------------------------------
(* The configuration during a test *)

\* No step changes the configuration the user gave.
LEMMA ConfigKept == ASSUME [Next]_vars PROVE cfg' = cfg
  <1>1. CASE Next
    BY <1>1 DEF Next, MainStep, Validate, CrawlStep, ResolveSupplied, ResolveFails,
       TimedOut, BeginRound, Poll, Cancelled, TimerFires, Receive, Connect, ConnectFails,
       GroupDone, GroupFails, WriteAggregateStats, NetInfo, Network, Expire, NodeFails,
       NodeRecovers, LinkLost, LinkAdded, Interrupt, Ended, vars
  <1>2. CASE UNCHANGED vars
    BY <1>2 DEF vars
  <1> QED
    BY <1>1, <1>2

-----------------------------------------------------------------------------
(* The endpoints the crawl selects *)

\* What filterPeerMap may return for a large enough map is a proper selection.
LEMMA FilterSelects ==
    ASSUME cfg \in ConfigType, cfg.ExpectPeers > 0,
           NEW found, IsFiniteSet(DOMAIN found), Enough(found),
           NEW e \in filterPeerMap(found)
    PROVE  Selected(found, e)
  <1> DEFINE all == Admitted(found)
  <1>1. /\ cfg.ExpectPeers \in Int /\ cfg.MaxEndpoints \in Int
    BY DEF ConfigType
  <1>2. /\ all \subseteq DOMAIN found
        /\ cfg.EndpointSelectMethod = "supplied" => all \subseteq cfg.Endpoints
        /\ cfg.EndpointSelectMethod = "discovered" => all \cap cfg.Endpoints = {}
        /\ cfg.EndpointSelectMethod = "any" => all = DOMAIN found
    BY DEF Admitted
  <1>3. DOMAIN found # {}
    BY <1>1, FS_EmptySet DEF Enough
  <1>4. IsFiniteSet(all) /\ Cardinality(all) \in Nat
    BY <1>2, FS_Subset, FS_CardinalityType
  <1>5. CASE cfg.MaxEndpoints > 0 /\ Cardinality(all) > cfg.MaxEndpoints
    <2>1. e \subseteq all /\ Cardinality(e) = cfg.MaxEndpoints
      BY <1>5 DEF filterPeerMap
    <2>2. e # {}
      BY <1>5, <2>1, FS_EmptySet
    <2> QED
      BY <1>1, <1>2, <2>1, <2>2 DEF Selected
  <1>6. CASE ~(cfg.MaxEndpoints > 0 /\ Cardinality(all) > cfg.MaxEndpoints)
    <2>1. e = all
      BY <1>6 DEF filterPeerMap
    <2>2. cfg.MaxEndpoints > 0 => Cardinality(e) <= cfg.MaxEndpoints
      BY <1>1, <1>4, <1>6, <2>1
    <2> QED
      BY <1>2, <1>3, <2>1, <2>2 DEF Selected
  <1> QED
    BY <1>5, <1>6

\* Every address the crawl holds is one of a node.
MapsInv ==
    /\ DOMAIN peers \subseteq Nodes /\ DOMAIN inbox \subseteq Nodes
    /\ DOMAIN result \subseteq Nodes
    /\ \A n \in DOMAIN inbox : inbox[n].book \subseteq Nodes
    /\ \A n \in DOMAIN result : result[n].book \subseteq Nodes

SelectionInv == cfg \in ConfigType /\ MapsInv /\ LoadedAsSelected

\* resolvePeerMap invents no address.
LEMMA ResolvedDomain ==
    ASSUME NEW answers, DOMAIN answers \subseteq Nodes,
           \A n \in DOMAIN answers : answers[n].book \subseteq Nodes
    PROVE  DOMAIN resolvePeerMap(answers) \subseteq Nodes
  BY DEF resolvePeerMap

\* The step that receives an answer, and with the last one may end the crawl.
LEMMA ReceiveSelects ==
    ASSUME SelectionInv, NEW n \in Nodes, Receive(n), cfg' = cfg
    PROVE  SelectionInv'
  <1>1. DOMAIN result' \subseteq Nodes /\ \A m \in DOMAIN result' : result'[m].book \subseteq Nodes
    BY DEF SelectionInv, MapsInv, Receive, With
  <1>2. DOMAIN inbox' \subseteq Nodes /\ \A m \in DOMAIN inbox' : inbox'[m].book \subseteq Nodes
    BY DEF SelectionInv, MapsInv, Receive
  <1>3. CASE ~Complete(result')
    <2>1. peers' = peers /\ pc' = "poll"
      BY <1>3 DEF Receive
    <2> QED
      BY <1>1, <1>2, <2>1 DEF SelectionInv, MapsInv, LoadedAsSelected, Crawled
  <1>4. CASE Complete(result')
    <2> DEFINE new == resolvePeerMap(result')
               kept == IF Larger(new) THEN new ELSE peers
    <2>1. peers' = kept /\ IF Enough(kept) THEN endpoints' \in filterPeerMap(kept) /\ pc' = "connect"
                                            ELSE pc' = "round"
      BY <1>4 DEF Receive, Decide
    <2>2. DOMAIN kept \subseteq Nodes
      BY <1>1, ResolvedDomain DEF SelectionInv, MapsInv
    <2>3. IsFiniteSet(DOMAIN kept)
      BY <2>2, CrawlAssumption, FS_Subset
    <2> HIDE DEF kept
    <2>4. LoadedAsSelected'
      <3>1. SUFFICES ASSUME Crawled' PROVE Selected(peers, endpoints)'
        BY DEF LoadedAsSelected
      <3>2. Enough(kept) /\ endpoints' \in filterPeerMap(kept) /\ cfg.ExpectPeers > 0
        BY <2>1, <3>1 DEF Crawled
      <3>3. Selected(kept, endpoints')
        BY <2>3, <3>2, FilterSelects DEF SelectionInv
      <3> QED
        BY <2>1, <3>3 DEF Selected, Admitted
    <2> QED
      BY <1>1, <1>2, <2>1, <2>2, <2>4 DEF SelectionInv, MapsInv
  <1> QED
    BY <1>3, <1>4

LEMMA SelectionKept == ASSUME SelectionInv, [Next]_vars PROVE SelectionInv'
  <1>1. cfg' = cfg
    BY ConfigKept
  <1> USE DEF SelectionInv, MapsInv
  <1>2. ASSUME NEW n \in Nodes, Receive(n) PROVE SelectionInv'
    BY <1>1, <1>2, ReceiveSelects
  <1>3. CASE Validate
    BY <1>1, <1>3 DEF Validate, ExitWith, crawlVars, LoadedAsSelected, Crawled
  <1>4. CASE ResolveSupplied
    BY <1>1, <1>4 DEF ResolveSupplied, LoadedAsSelected, Crawled, ConfigType
  <1>5. CASE BeginRound
    BY <1>1, <1>5 DEF BeginRound, None, LoadedAsSelected, Crawled
  <1>6. ASSUME NEW n \in Nodes, NetInfo(n) PROVE SelectionInv'
    <2>1. DOMAIN inbox' \subseteq Nodes /\ \A m \in DOMAIN inbox' : inbox'[m].book \subseteq Nodes
      BY <1>6 DEF NetInfo, With, Book
    <2> QED
      BY <1>1, <1>6, <2>1 DEF NetInfo, Asking, LoadedAsSelected, Crawled
  <1>7. CASE ResolveFails \/ TimedOut \/ Poll \/ Cancelled \/ TimerFires
    BY <1>1, <1>7 DEF ResolveFails, TimedOut, Poll, Cancelled, TimerFires, ExitWith,
       crawlVars, LoadedAsSelected, Crawled
  <1>8. CASE Connect \/ ConnectFails \/ GroupDone \/ GroupFails \/ WriteAggregateStats
    BY <1>1, <1>8 DEF Connect, ConnectFails, GroupDone, GroupFails, WriteAggregateStats,
       ExitWith, crawlVars, LoadedAsSelected, Crawled, Selected, Admitted
  <1>9. CASE Network
    BY <1>1, <1>9 DEF Network, Expire, NodeFails, NodeRecovers, LinkLost, LinkAdded, Crawling,
       crawlVars, LoadedAsSelected, Crawled, Selected, Admitted
  <1>10. CASE Interrupt
    BY <1>1, <1>10 DEF Interrupt, ExitWith, LoadedAsSelected, Crawled, Selected, Admitted
  <1>11. CASE UNCHANGED vars
    BY <1>1, <1>11 DEF vars, crawlVars, LoadedAsSelected, Crawled, Selected, Admitted
  <1> QED
    BY <1>2, <1>3, <1>4, <1>5, <1>6, <1>7, <1>8, <1>9, <1>10, <1>11
       DEF Next, MainStep, CrawlStep, Ended

\* For every network, configuration and sequence of failures the endpoints a
\* test loads are selected from the found peers as the configuration asks.
THEOREM SelectionHonoured == Spec => []LoadedAsSelected
  <1>1. Init => SelectionInv
    BY CrawlAssumption DEF Init, CrawlInit, SelectionInv, MapsInv, None, LoadedAsSelected, Crawled
  <1>2. SelectionInv /\ [Next]_vars => SelectionInv'
    BY SelectionKept
  <1>3. SelectionInv => LoadedAsSelected
    BY DEF SelectionInv
  <1> QED
    BY <1>1, <1>2, <1>3, PTL DEF Spec

-----------------------------------------------------------------------------
(* The peers the crawl finds *)

\* A network that has more links reaches more nodes.
LEMMA ReachGrows ==
    ASSUME NEW net, NEW more, net \subseteq more PROVE Reach(net) \subseteq Reach(more)
  <1>1. \A s : Neighbours(s, net) \subseteq Neighbours(s, more)
    BY DEF Neighbours
  <1> QED
    BY <1>1 DEF Reach, ReachFrom

\* The neighbours of a node that can be reached can be reached.
LEMMA ReachClosed ==
    ASSUME NEW net, NEW n \in Reach(net) PROVE Neighbours({n}, net) \subseteq Reach(net)
  <1>1. SUFFICES ASSUME NEW m \in Neighbours({n}, net), NEW s \in SUBSET Nodes,
                        cfg.Endpoints \subseteq s, Neighbours(s, net) \subseteq s
                 PROVE  m \in s
    BY DEF Reach, ReachFrom, Neighbours
  <1>2. n \in s
    BY <1>1 DEF Reach, ReachFrom
  <1> QED
    BY <1>1, <1>2 DEF Neighbours

\* Everything the crawl was told is true of the links there have been, and
\* everything it keeps can be reached over them.
Truthful(answers) ==
    /\ DOMAIN answers \subseteq Reach(everLinks)
    /\ \A n \in DOMAIN answers : answers[n].book \subseteq Neighbours({n}, everLinks)

RealInv ==
    /\ cfg \in ConfigType /\ links \subseteq everLinks
    /\ DOMAIN peers \subseteq Reach(everLinks)
    /\ Truthful(inbox) /\ Truthful(result)
    /\ Crawled => Cardinality(DOMAIN peers) >= cfg.ExpectPeers

\* Resolving truthful answers gives peers that can be reached.
LEMMA ResolvedReal ==
    ASSUME NEW answers, Truthful(answers)
    PROVE  DOMAIN resolvePeerMap(answers) \subseteq Reach(everLinks)
  <1>1. \A n \in DOMAIN answers : answers[n].book \subseteq Reach(everLinks)
    BY ReachClosed DEF Truthful
  <1> QED
    BY <1>1 DEF resolvePeerMap, Truthful

\* What is true of the network stays true of it when it grows.
LEMMA TruthStays ==
    ASSUME RealInv, cfg' = cfg, everLinks \subseteq everLinks',
           UNCHANGED <<peers, inbox, result>>
    PROVE  /\ DOMAIN peers' \subseteq Reach(everLinks)'
           /\ Truthful(inbox)' /\ Truthful(result)'
  <1>1. Reach(everLinks') \subseteq Reach(everLinks)'
    BY DEF Reach, ReachFrom, Neighbours
  <1>2. Reach(everLinks) \subseteq Reach(everLinks)'
    BY <1>1, ReachGrows
  <1>3. \A n : Neighbours({n}, everLinks) \subseteq Neighbours({n}, everLinks)'
    BY DEF Neighbours
  <1> QED
    BY <1>2, <1>3 DEF RealInv, Truthful

LEMMA RealKept == ASSUME RealInv, [Next]_vars PROVE RealInv'
  <1>1. cfg' = cfg
    BY ConfigKept
  <1>2. everLinks' = everLinks => Reach(everLinks)' = Reach(everLinks)
    BY <1>1 DEF Reach, ReachFrom, Neighbours
  <1>3. ASSUME UNCHANGED <<peers, inbox, result>>, everLinks \subseteq everLinks',
               links' \subseteq everLinks', Crawled' => Crawled
        PROVE  RealInv'
    BY <1>1, <1>3, TruthStays DEF RealInv
  <1>4. CASE Validate
    BY <1>1, <1>3, <1>4 DEF Validate, ExitWith, crawlVars, netVars, Crawled, RealInv, ConfigType
  <1>5. CASE ResolveSupplied
    <2>1. cfg.Endpoints \subseteq Reach(everLinks)
      BY DEF Reach, ReachFrom, RealInv, ConfigType
    <2> QED
      BY <1>1, <1>2, <1>5, <2>1
         DEF ResolveSupplied, netVars, RealInv, Truthful, Crawled, Neighbours
  <1>6. CASE BeginRound
    BY <1>1, <1>2, <1>6 DEF BeginRound, netVars, None, RealInv, Truthful, Crawled, Neighbours
  <1>7. ASSUME NEW n \in Nodes, NetInfo(n) PROVE RealInv'
    <2>1. n \in Reach(everLinks)
      BY <1>7 DEF NetInfo, Asked, RealInv
    <2>2. Book(n) \subseteq Neighbours({n}, everLinks)
      BY DEF Book, Neighbours, RealInv
    <2>3. Truthful(inbox')
      BY <1>7, <2>1, <2>2 DEF NetInfo, With, RealInv, Truthful
    <2>4. UNCHANGED <<pc, peers, result, links, everLinks>> /\ ~Crawled'
      BY <1>7 DEF NetInfo, Asking, netVars, Crawled
    <2>5. Truthful(inbox)' /\ Truthful(result)'
      BY <1>2, <2>3, <2>4 DEF Truthful, Neighbours, RealInv
    <2> QED
      BY <1>1, <1>2, <2>4, <2>5 DEF RealInv
  <1>8. ASSUME NEW n \in Nodes, Receive(n) PROVE RealInv'
    <2>1. everLinks' = everLinks /\ links' = links
      BY <1>8 DEF Receive, netVars
    <2>2. Truthful(inbox') /\ Truthful(result')
      BY <1>8 DEF Receive, With, RealInv, Truthful
    <2>3. /\ DOMAIN peers' \subseteq Reach(everLinks)
          /\ Crawled' => Cardinality(DOMAIN peers') >= cfg.ExpectPeers
      <3>1. CASE ~Complete(result')
        BY <1>8, <3>1 DEF Receive, Crawled, RealInv
      <3>2. CASE Complete(result')
        <4>1. DOMAIN resolvePeerMap(result') \subseteq Reach(everLinks)
          BY <2>2, ResolvedReal
        <4>2. Decide(result')
          BY <1>8, <3>2 DEF Receive
        <4>3. DOMAIN peers' \subseteq Reach(everLinks)
          BY <4>1, <4>2 DEF Decide, RealInv
        <4>4. pc' = "round" \/ Enough(peers')
          BY <4>2 DEF Decide
        <4> QED
          BY <4>3, <4>4, <1>1 DEF Enough, Crawled
      <3> QED
        BY <3>1, <3>2
    <2>4. Truthful(inbox)' /\ Truthful(result)'
      BY <1>2, <2>1, <2>2 DEF Truthful, Neighbours
    <2>5. DOMAIN peers' \subseteq Reach(everLinks)'
      BY <1>2, <2>1, <2>3
    <2> QED
      BY <1>1, <2>1, <2>3, <2>4, <2>5 DEF RealInv
  <1>9. CASE ResolveFails \/ TimedOut \/ Poll \/ Cancelled \/ TimerFires
    BY <1>3, <1>9 DEF ResolveFails, TimedOut, Poll, Cancelled, TimerFires, ExitWith,
       crawlVars, netVars, Crawled, RealInv
  <1>10. CASE Connect \/ ConnectFails \/ GroupDone \/ GroupFails \/ WriteAggregateStats
    BY <1>1, <1>3, <1>10 DEF Connect, ConnectFails, GroupDone, GroupFails, WriteAggregateStats,
       ExitWith, crawlVars, netVars, Crawled, RealInv
  <1>11. CASE Network
    BY <1>3, <1>11 DEF Network, Expire, NodeFails, NodeRecovers, LinkLost, LinkAdded,
       Crawling, crawlVars, netVars, Crawled, RealInv
  <1>12. CASE Interrupt
    BY <1>1, <1>3, <1>12 DEF Interrupt, ExitWith, netVars, Crawled, RealInv
  <1>13. CASE UNCHANGED vars
    BY <1>3, <1>13 DEF vars, crawlVars, netVars, Crawled, RealInv
  <1> QED
    BY <1>4, <1>5, <1>6, <1>7, <1>8, <1>9, <1>10, <1>11, <1>12, <1>13
       DEF Next, MainStep, CrawlStep, Ended

\* For every network, however it changes and fails, a test loads only after the
\* crawl has found ExpectPeers nodes that the supplied ones were connected to.
THEOREM PeersAreFound == Spec => []PeersAreReal
  <1>1. Init => RealInv
    BY CrawlAssumption DEF Init, CrawlInit, RealInv, Truthful, None, Crawled
  <1>2. RealInv /\ [Next]_vars => RealInv'
    BY RealKept
  <1>3. RealInv => PeersAreReal
    BY DEF RealInv, PeersAreReal
  <1> QED
    BY <1>1, <1>2, <1>3, PTL DEF Spec

-----------------------------------------------------------------------------
(* Types *)

Controls ==
    /\ cfg \in Configs
    /\ pc \in {"validate", "resolve", "round", "poll", "select",
               "connect", "running", "stats", "exited"}
    /\ exit \in {"none", "ok", "error", "killed"} /\ (exit = "none") = (pc # "exited")
    /\ trap \in {"none", "crawl", "group", "stale"}
    /\ cancelc \in BOOLEAN /\ expired \in BOOLEAN
    /\ status \in [Nodes -> {"up", "down", "hung"}]
    /\ links \subseteq everLinks /\ everLinks \subseteq Pairs
    /\ faults \in 0..MaxFaults /\ growth \in 0..MaxGrowth

MapOf(f, S) == DOMAIN f \subseteq Nodes /\ f \in [DOMAIN f -> S]

\* In a round only known peers are asked, each once, and the round is over
\* with the last answer: that takes a peer to begin with.
CrawlInv ==
    /\ endpoints \subseteq Nodes
    /\ MapOf(peers, PeerInfo) /\ MapOf(inbox, Answers) /\ MapOf(result, Answers)
    /\ DOMAIN inbox \cap DOMAIN result = {}
    /\ Asking => DOMAIN inbox \cup DOMAIN result \subseteq DOMAIN peers
    /\ Asking => DOMAIN result # DOMAIN peers
    /\ pc = "round" => DOMAIN peers # {}
    /\ pc = "resolve" => cfg.Endpoints # {}

LEMMA ControlsKept == ASSUME Controls, [Next]_vars PROVE Controls'
  <1> USE DEF Controls, ExitWith
  <1>1. CASE Validate
    BY <1>1 DEF Validate, crawlVars, netVars
  <1>2. CASE ResolveSupplied \/ ResolveFails \/ TimedOut \/ BeginRound \/ Poll
    BY <1>2 DEF ResolveSupplied, ResolveFails, TimedOut, BeginRound, Poll, crawlVars, netVars
  <1>3. CASE Cancelled \/ TimerFires
    BY <1>3 DEF Cancelled, TimerFires, crawlVars, netVars
  <1>4. ASSUME NEW n \in Nodes, Receive(n) PROVE Controls'
    <2>1. pc' \in {"poll", "connect", "round"} /\ trap' \in {trap, "stale"} /\ pc = "select"
      BY <1>4 DEF Receive, Decide
    <2> QED
      BY <1>4, <2>1 DEF Receive, netVars
  <1>5. CASE Connect \/ ConnectFails \/ GroupDone \/ GroupFails \/ WriteAggregateStats
    BY <1>5 DEF Connect, ConnectFails, GroupDone, GroupFails, WriteAggregateStats, crawlVars,
       netVars
  <1>6. ASSUME NEW n \in Nodes, NetInfo(n) PROVE Controls'
    BY <1>6 DEF NetInfo, netVars
  <1>7. CASE Network
    <2>1. CASE Expire
      BY <2>1 DEF Expire, netVars
    <2>2. ASSUME NEW n \in Nodes, NodeFails(n) \/ NodeRecovers(n) PROVE Controls'
      <3>1. /\ status' \in [Nodes -> {"up", "down", "hung"}]
            /\ UNCHANGED <<cfg, pc, exit, trap, cancelc, expired, links, everLinks, growth>>
        BY <2>2 DEF NodeFails, NodeRecovers, crawlVars
      <3>2. faults' \in 0..MaxFaults
        BY <2>2, CrawlAssumption DEF NodeFails, NodeRecovers
      <3> QED
        BY <3>1, <3>2
    <2>3. ASSUME NEW p \in Pairs, LinkLost(p) \/ LinkAdded(p) PROVE Controls'
      <3>1. /\ links' \subseteq everLinks' /\ everLinks' \subseteq Pairs
            /\ UNCHANGED <<cfg, pc, exit, trap, cancelc, expired, status>>
        BY <2>3 DEF LinkLost, LinkAdded, crawlVars
      <3>2. faults' \in 0..MaxFaults /\ growth' \in 0..MaxGrowth
        BY <2>3, CrawlAssumption DEF LinkLost, LinkAdded
      <3> QED
        BY <3>1, <3>2
    <2> QED
      BY <1>7, <2>1, <2>2, <2>3 DEF Network
  <1>8. CASE Interrupt
    BY <1>8 DEF Interrupt, netVars
  <1>9. CASE UNCHANGED vars
    BY <1>9 DEF vars, crawlVars, netVars
  <1> QED
    BY <1>1, <1>2, <1>3, <1>4, <1>5, <1>6, <1>7, <1>8, <1>9
       DEF Next, MainStep, CrawlStep, Ended

\* What is kept of a round's answers.
LEMMA ResolvedType ==
    ASSUME NEW answers, MapOf(answers, Answers)
    PROVE  MapOf(resolvePeerMap(answers), PeerInfo)
  <1> DEFINE answered == {n \in DOMAIN answers : answers[n].ok}
             named == UNION {answers[n].book : n \in answered}
             value(n) == IF n \in answered THEN [book |-> answers[n].book, queried |-> TRUE]
                                           ELSE [book |-> {}, queried |-> FALSE]
  <1>1. \A n \in DOMAIN answers : answers[n].book \in SUBSET Nodes
    BY DEF MapOf, Answers
  <1>2. answered \cup named \subseteq Nodes
    BY <1>1 DEF MapOf
  <1>3. \A n : value(n) \in PeerInfo
    BY <1>1 DEF PeerInfo
  <1>4. resolvePeerMap(answers) = [n \in answered \cup named |-> value(n)]
    BY DEF resolvePeerMap
  <1> HIDE DEF answered, named, value
  <1> QED
    BY <1>2, <1>3, <1>4 DEF MapOf

LEMMA ReceiveTyped ==
    ASSUME Controls, CrawlInv, NEW n \in Nodes, Receive(n) PROVE CrawlInv'
  <1>1. /\ MapOf(result', Answers) /\ MapOf(inbox', Answers)
        /\ DOMAIN inbox' = DOMAIN inbox \ {n} /\ DOMAIN result' = DOMAIN result \cup {n}
        /\ n \in DOMAIN inbox /\ pc = "select" /\ cfg' = cfg
    BY DEF CrawlInv, MapOf, Receive, With
  <1>2. /\ DOMAIN inbox' \cap DOMAIN result' = {}
        /\ DOMAIN inbox' \cup DOMAIN result' \subseteq DOMAIN peers
    BY <1>1 DEF CrawlInv, Asking
  <1>3. CASE ~Complete(result')
    <2>1. UNCHANGED <<endpoints, peers>> /\ pc' = "poll"
      BY <1>3 DEF Receive
    <2>2. DOMAIN result' # DOMAIN peers
      <3>1. SUFFICES ASSUME DOMAIN result' = DOMAIN peers PROVE FALSE
        OBVIOUS
      <3>2. Cardinality(DOMAIN peers) \in Nat
        BY CrawlAssumption, FS_Subset, FS_CardinalityType DEF CrawlInv, MapOf
      <3> QED
        BY <1>3, <3>1, <3>2 DEF Complete
    <2> QED
      BY <1>1, <1>2, <2>1, <2>2 DEF CrawlInv
  <1>4. CASE Complete(result')
    <2> DEFINE new == resolvePeerMap(result')
               kept == IF Larger(new) THEN new ELSE peers
    <2>1. /\ peers' = kept
          /\ IF Enough(kept) THEN endpoints' \in filterPeerMap(kept) /\ pc' = "connect"
                             ELSE pc' = "round" /\ UNCHANGED endpoints
      BY <1>4 DEF Receive, Decide
    <2>2. MapOf(new, PeerInfo)
      BY <1>1, ResolvedType
    <2> HIDE DEF new
    <2>3. MapOf(kept, PeerInfo)
      BY <2>2 DEF CrawlInv
    <2>4. DOMAIN kept # {}
      <3>1. DOMAIN peers # {}
        BY <1>1, <1>2
      <3>2. Cardinality(DOMAIN peers) \in Nat
        BY CrawlAssumption, FS_Subset, FS_CardinalityType DEF CrawlInv, MapOf
      <3>3. Larger(new) => DOMAIN new # {}
        BY <3>2, FS_EmptySet DEF Larger
      <3> QED
        BY <3>1, <3>3
    <2> HIDE DEF kept
    <2>5. endpoints' \subseteq Nodes
      <3>1. \A e \in filterPeerMap(kept) : e \subseteq DOMAIN kept
        BY DEF filterPeerMap, Admitted
      <3> QED
        BY <2>1, <2>3, <3>1 DEF CrawlInv, MapOf
    <2>6. pc' \in {"connect", "round"}
      BY <2>1
    <2> QED
      BY <1>1, <1>2, <2>1, <2>3, <2>4, <2>5, <2>6 DEF CrawlInv, Asking
  <1> QED
    BY <1>3, <1>4

\* Steps that leave the maps alone and do not go on with the crawl.
LEMMA CrawlKept ==
    ASSUME CrawlInv, UNCHANGED <<cfg, endpoints, peers, inbox, result>>,
           Asking' => Asking, pc' = "round" => pc = "round",
           pc' = "resolve" => pc = "resolve" \/ cfg.Endpoints # {}
    PROVE  CrawlInv'
  BY DEF CrawlInv, MapOf

LEMMA CrawlTyped == ASSUME Controls, CrawlInv, [Next]_vars PROVE CrawlInv'
  <1>1. CASE Validate
    BY <1>1, CrawlKept DEF Validate, Valid, ExitWith, Asking, crawlVars
  <1>2. CASE ResolveSupplied
    <2>1. cfg.Endpoints \subseteq Nodes /\ cfg.Endpoints # {} /\ cfg' = cfg
      BY <1>2, CrawlAssumption DEF ResolveSupplied, Controls, CrawlInv, ConfigType
    <2>2. [book |-> {}, queried |-> FALSE] \in PeerInfo
      BY DEF PeerInfo
    <2>3. MapOf(peers', PeerInfo) /\ DOMAIN peers' = cfg.Endpoints
      BY <1>2, <2>1, <2>2 DEF ResolveSupplied, MapOf
    <2> QED
      BY <1>2, <2>1, <2>3 DEF ResolveSupplied, CrawlInv, Asking, MapOf
  <1>3. CASE BeginRound
    <2>1. MapOf(peers', PeerInfo) /\ DOMAIN peers' = DOMAIN peers
      BY <1>3 DEF BeginRound, CrawlInv, MapOf, PeerInfo
    <2>2. /\ MapOf(inbox', Answers) /\ MapOf(result', Answers)
          /\ DOMAIN inbox' = {} /\ DOMAIN result' = {}
      BY <1>3 DEF BeginRound, None, MapOf
    <2> QED
      BY <1>3, <2>1, <2>2 DEF BeginRound, CrawlInv, Asking
  <1>4. CASE ResolveFails \/ TimedOut \/ Poll \/ Cancelled \/ TimerFires
    BY <1>4, CrawlKept DEF ResolveFails, TimedOut, Poll, Cancelled, TimerFires, ExitWith,
       Asking, crawlVars
  <1>5. CASE Connect \/ ConnectFails \/ GroupDone \/ GroupFails \/ WriteAggregateStats
    BY <1>5, CrawlKept DEF Connect, ConnectFails, GroupDone, GroupFails, WriteAggregateStats,
       ExitWith, Asking, crawlVars
  <1>6. ASSUME NEW n \in Nodes, NetInfo(n) PROVE CrawlInv'
    <2> DEFINE answer == [ok |-> status[n] = "up",
                          book |-> IF status[n] = "up" THEN Book(n) ELSE {}]
    <2>1. answer \in Answers
      BY DEF Answers, Book
    <2>2. inbox' = With(inbox, n, answer)
      BY <1>6 DEF NetInfo
    <2> HIDE DEF answer
    <2>3. MapOf(inbox', Answers) /\ DOMAIN inbox' = DOMAIN inbox \cup {n}
      BY <2>1, <2>2 DEF With, MapOf, CrawlInv
    <2>4. n \in DOMAIN peers /\ n \notin DOMAIN result
      BY <1>6 DEF NetInfo, Asked
    <2> QED
      BY <1>6, <2>3, <2>4 DEF NetInfo, CrawlInv, Asking
  <1>7. CASE Network
    BY <1>7, CrawlKept DEF Network, Expire, NodeFails, NodeRecovers, LinkLost, LinkAdded,
       crawlVars, Asking
  <1>8. CASE Interrupt
    BY <1>8, CrawlKept DEF Interrupt, ExitWith, Asking
  <1>9. CASE UNCHANGED vars
    BY <1>9, CrawlKept DEF vars, crawlVars, Asking
  <1> QED
    BY <1>1, <1>2, <1>3, <1>4, <1>5, <1>6, <1>7, <1>8, <1>9, ReceiveTyped
       DEF Next, MainStep, CrawlStep, Ended

\* Every variable of the standalone mode has its type, and as long as
\* getNetworkPeers loops there is an answer it has still to receive.
THEOREM TypeCorrect == Spec => []TypeOK
  <1>1. Init => Controls /\ CrawlInv
    <2> SUFFICES ASSUME Init PROVE Controls /\ CrawlInv
      OBVIOUS
    <2>1. Controls
      <3>1. status \in [Nodes -> {"up", "down", "hung"}]
        BY DEF Init, CrawlInit
      <3>2. links \subseteq everLinks /\ everLinks \subseteq Pairs
        BY CrawlAssumption DEF Init, CrawlInit
      <3>3. faults \in 0..MaxFaults /\ growth \in 0..MaxGrowth
        BY CrawlAssumption DEF Init, CrawlInit
      <3> QED
        BY <3>1, <3>2, <3>3 DEF Init, CrawlInit, Controls
    <2>2. MapOf(None, PeerInfo) /\ MapOf(None, Answers) /\ DOMAIN None = {}
      BY DEF MapOf, None
    <2>3. cfg.Endpoints \subseteq Nodes
      BY CrawlAssumption DEF Init, CrawlInit, ConfigType
    <2>4. CrawlInv
      BY <2>2, <2>3 DEF Init, CrawlInit, CrawlInv, Asking
    <2> QED
      BY <2>1, <2>4
  <1>2. Controls /\ CrawlInv /\ [Next]_vars => Controls' /\ CrawlInv'
    BY ControlsKept, CrawlTyped
  <1>3. ASSUME Controls, CrawlInv PROVE TypeOK
    <2>1. \E d \in SUBSET Nodes : peers \in [d -> PeerInfo]
      BY <1>3 DEF CrawlInv, MapOf
    <2>2. \E d, e \in SUBSET Nodes : /\ inbox \in [d -> Answers] /\ result \in [e -> Answers]
                                     /\ d \cap e = {}
                                     /\ Asking => e \subseteq DOMAIN peers /\ e # DOMAIN peers
      <3>1. DOMAIN inbox \in SUBSET Nodes /\ DOMAIN result \in SUBSET Nodes
        BY <1>3 DEF CrawlInv, MapOf
      <3> USE <3>1
      <3> WITNESS DOMAIN inbox \in SUBSET Nodes, DOMAIN result \in SUBSET Nodes
      <3> QED
        BY <1>3 DEF CrawlInv, MapOf
    <2> QED
      BY <1>3, <2>1, <2>2 DEF TypeOK, Controls, CrawlInv
  <1> QED
    BY <1>1, <1>2, <1>3, PTL DEF Spec

=============================================================================
