----------------------------- MODULE Standalone -----------------------------
(***************************************************************************)
(* A standalone load test: the root command of pkg/loadtest/cli.go and     *)
(* ExecuteStandalone of pkg/loadtest/loadtest.go, which validates the      *)
(* configuration, crawls the network (PeerCrawl), connects a transactor    *)
(* group to the endpoints found and waits for it. The group is reduced to  *)
(* what its Wait returns; TransactorGroup models it.                       *)
(***************************************************************************)
EXTENDS PeerCrawl

Validate ==
    /\ pc = "validate"
    /\ IF ~Valid(cfg) THEN ExitWith("error") /\ UNCHANGED trap
       ELSE IF cfg.ExpectPeers > 0
            THEN pc' = "resolve" /\ trap' = "crawl" /\ UNCHANGED exit
            ELSE pc' = "connect" /\ UNCHANGED <<trap, exit>>
    /\ UNCHANGED <<cfg, endpoints, crawlVars, netVars>>

\* NewTransactorGroup, AddAll, Start, and the trap that cancels the group.
Connect ==
    /\ pc = "connect"
    /\ pc' = "running"
    /\ trap' = IF cfg.NoTrapInterrupts THEN trap ELSE "group"
    /\ UNCHANGED <<cfg, endpoints, exit, crawlVars, netVars>>

ConnectFails ==
    /\ pc = "connect" /\ endpoints # {} /\ ExitWith("error")
    /\ UNCHANGED <<cfg, endpoints, trap, crawlVars, netVars>>

\* Wait returns nil: all transactors reached their limits, or were cancelled
\* when their results had been collected.
GroupDone ==
    /\ pc = "running"
    /\ IF cfg.StatsOutputFile THEN pc' = "stats" /\ UNCHANGED exit ELSE ExitWith("ok")
    /\ UNCHANGED <<cfg, endpoints, trap, crawlVars, netVars>>

\* Wait returns an error: a transactor failed or was cancelled.
GroupFails ==
    /\ pc = "running" /\ endpoints # {} /\ ExitWith("error")
    /\ UNCHANGED <<cfg, endpoints, trap, crawlVars, netVars>>

WriteAggregateStats ==
    /\ pc = "stats" /\ \E how \in {"ok", "error"} : ExitWith(how)
    /\ UNCHANGED <<cfg, endpoints, trap, crawlVars, netVars>>

\* SIGINT or SIGTERM. Each trap's goroutine takes one signal; the channels
\* stay registered, so later signals wait in them.
Interrupt ==
    /\ pc # "exited"
    /\ \/ trap = "none" /\ ExitWith("killed") /\ UNCHANGED <<trap, cancelc>>
       \/ trap = "crawl" /\ cancelc' = TRUE /\ trap' = "stale" /\ UNCHANGED <<pc, exit>>
       \/ trap = "group" /\ trap' = "stale" /\ UNCHANGED <<pc, exit, cancelc>>
    /\ UNCHANGED <<cfg, endpoints, peers, inbox, result, expired, netVars>>

Ended == pc = "exited" /\ UNCHANGED vars

Init == CrawlInit

MainStep ==
    \/ Validate \/ CrawlStep \/ Connect \/ ConnectFails
    \/ GroupDone \/ GroupFails \/ WriteAggregateStats

Next == MainStep \/ (\E n \in Nodes : NetInfo(n)) \/ Network \/ Interrupt \/ Ended

\* The main goroutine goes on while it can, a node that is up answers, and a
\* select that finds cancelc closed again and again takes it at last. Nothing
\* is assumed of the timeout, which may lie beyond any round.
Fairness ==
    /\ WF_vars(MainStep) /\ SF_vars(Cancelled)
    /\ \A n \in Nodes : WF_vars(NetInfo(n))

Spec == Init /\ [][Next]_vars
FairSpec == Spec /\ Fairness

-----------------------------------------------------------------------------
(* Properties *)

PeerInfo == [book : SUBSET Nodes, queried : BOOLEAN]
Answers == [ok : BOOLEAN, book : SUBSET Nodes]

\* Every variable has its type; while getNetworkPeers loops there is always an
\* answer it has still to receive, and none is received or kept twice.
TypeOK ==
    /\ cfg \in Configs /\ endpoints \subseteq Nodes
    /\ pc \in {"validate", "resolve", "round", "poll", "select",
               "connect", "running", "stats", "exited"}
    /\ exit \in {"none", "ok", "error", "killed"} /\ (exit = "none") = (pc # "exited")
    /\ trap \in {"none", "crawl", "group", "stale"}
    /\ \E d \in SUBSET Nodes : peers \in [d -> PeerInfo]
    /\ \E d, e \in SUBSET Nodes : /\ inbox \in [d -> Answers] /\ result \in [e -> Answers]
                                  /\ d \cap e = {}
                                  /\ Asking => e \subseteq DOMAIN peers /\ e # DOMAIN peers
    /\ cancelc \in BOOLEAN /\ expired \in BOOLEAN
    /\ status \in [Nodes -> {"up", "down", "hung"}]
    /\ links \subseteq everLinks /\ everLinks \subseteq Pairs
    /\ faults \in 0..MaxFaults /\ growth \in 0..MaxGrowth

Crawled == cfg.ExpectPeers > 0 /\ pc \in {"connect", "running", "stats"}

\* A choice of endpoints among found peers that obeys the selection method and
\* the maximum, and leaves no admitted one out while there is room.
Selected(found, chosen) ==
    /\ cfg.EndpointSelectMethod = "supplied" => chosen \subseteq cfg.Endpoints
    /\ cfg.EndpointSelectMethod = "discovered" => chosen \cap cfg.Endpoints = {}
    /\ cfg.EndpointSelectMethod = "any" => chosen # {}
    /\ chosen \subseteq DOMAIN found
    /\ cfg.MaxEndpoints > 0 => Cardinality(chosen) <= cfg.MaxEndpoints
    /\ chosen = Admitted(found) \/ Cardinality(chosen) = cfg.MaxEndpoints

\* Whatever the crawl met in its rounds, the test loads endpoints selected as
\* the user asked from the peers found, and with the method "any" at least one
\* (filterPeerMap, ExecuteStandalone).
LoadedAsSelected == Crawled => Selected(peers, endpoints)

\* The nodes that links lead to from those of a set, in any number of steps:
\* those no larger set can do without that has the neighbours of its members.
Neighbours(s, net) == {m \in Nodes : \E n \in s : {n, m} \in net}
ReachFrom(start, net) ==
    {n \in Nodes : \A s \in SUBSET Nodes :
        start \subseteq s /\ Neighbours(s, net) \subseteq s => n \in s}

\* The nodes that links lead to from the supplied ones.
Reach(net) == ReachFrom(cfg.Endpoints, net)

\* Loading starts only when ExpectPeers different peers have been found, and
\* each of them is a supplied node or one that was linked to it, in one or
\* more steps, by links the network has had.
PeersAreReal ==
    Crawled => /\ Cardinality(DOMAIN peers) >= cfg.ExpectPeers
               /\ DOMAIN peers \subseteq Reach(everLinks)

\* When the timeout has passed the crawl ends, even if a node never answers.
CrawlEnds == expired ~> ~Crawling

\* An interrupt that the crawl's trap caught ends the crawl.
InterruptEndsCrawl == cancelc ~> ~Crawling

\* What the user waits for: the nodes that can be reached from those of a set
\* are up, as many as expected, and each has the minimum of neighbours in its
\* address book.
Ready(start) ==
    LET r == ReachFrom(start, links)
    IN /\ Cardinality(r) >= cfg.ExpectPeers
       /\ \A n \in r : status[n] = "up" /\ Cardinality(Book(n)) >= cfg.MinConnectivity

\* Once everybody the crawl knows is up and leads it to a network that is ready,
\* however long the chain and whatever failed before, the crawl ends before its
\* timeout, unless the network is no longer ready (waitForNetworkPeers).
ReadyNetworkFound ==
    Crawling /\ Ready(DOMAIN peers) ~> ~Crawling \/ expired \/ ~Ready(DOMAIN peers)

\* README: "for all reachable peers it checks what the minimum address book
\* size is. Once the minimum address book size reaches the configured value,
\* the load testing can begin." Every peer that answered the last round with
\* an address book at all has one of that size.
ConnectivityHolds ==
    Crawled => \A n \in DOMAIN result :
                  result[n].ok /\ result[n].book # {}
                     => Cardinality(result[n].book) >= cfg.MinConnectivity

=============================================================================
