----------------------------- MODULE PeerCrawl ------------------------------
(***************************************************************************)
(* The crawl of the Tendermint network that precedes a load test           *)
(* (waitForNetworkPeers, pkg/loadtest/tm_network_info.go): rounds in which *)
(* every known peer is asked for its peers, by a goroutine of its own,     *)
(* while the network changes, nodes fail or hang, the time runs out and    *)
(* the user interrupts.                                                    *)
(***************************************************************************)
EXTENDS LoadConfig

CONSTANTS
    Configs,        \* the configurations the user may start with
    InitialLinks,   \* the networks that may be found at first
    MaxFaults,      \* bound: node and link failures
    MaxGrowth       \* bound: links the network gains

Pairs == {p \in SUBSET Nodes : Cardinality(p) = 2}

ASSUME CrawlAssumption ==
    /\ IsFiniteSet(Nodes) /\ Configs \subseteq ConfigType
    /\ InitialLinks \subseteq SUBSET Pairs
    /\ MaxFaults \in Nat /\ MaxGrowth \in Nat

VARIABLES
    cfg,        \* the configuration
    endpoints,  \* cfg.Endpoints, which the crawl replaces
    pc,         \* where the main goroutine is
    exit,       \* how the process ended, "none" before
    trap,       \* who takes a signal: "none" (the process dies), "crawl",
                \* "group", "stale" (a channel nobody reads any more)
    peers,      \* per known address: the addresses it named, if it was
                \* queried in the round that found it
    inbox,      \* peerInfoc and errc: the answers not yet received
    result,     \* the answers received in this round
    cancelc,    \* cancelc is closed
    expired,    \* the timeout has passed
    status,     \* per node: "up", "down" (errors), "hung" (never answers)
    links,      \* which nodes have each other in their address books
    everLinks,  \* the links there have been so far
    faults,     \* node and link failures so far
    growth      \* links gained so far

crawlVars == <<peers, inbox, result, cancelc, expired>>
netVars == <<status, links, everLinks, faults, growth>>
vars == <<cfg, endpoints, pc, exit, trap, crawlVars, netVars>>

None == [n \in {} |-> {}]

CrawlInit ==
    /\ cfg \in Configs /\ endpoints = cfg.Endpoints
    /\ pc = "validate" /\ exit = "none" /\ trap = "none"
    /\ peers = None /\ inbox = None /\ result = None
    /\ cancelc = FALSE /\ expired = FALSE
    /\ status = [n \in Nodes |-> "up"]
    /\ links \in InitialLinks
    /\ everLinks = links /\ faults = 0 /\ growth = 0

Crawling == pc \in {"resolve", "round", "poll", "select"}
Asking == pc \in {"poll", "select"}

\* The process exits; an error gives status 1.
ExitWith(how) == pc' = "exited" /\ exit' = how

-----------------------------------------------------------------------------
(* The entry of waitForNetworkPeers *)

\* Every supplied URL is resolved to an address of its node.
ResolveSupplied ==
    /\ pc = "resolve"
    /\ peers' = [n \in cfg.Endpoints |-> [book |-> {}, queried |-> FALSE]]
    /\ pc' = "round"
    /\ UNCHANGED <<cfg, endpoints, exit, trap, inbox, result, cancelc, expired, netVars>>

ResolveFails ==
    /\ pc = "resolve" /\ ExitWith("error")
    /\ UNCHANGED <<cfg, endpoints, trap, crawlVars, netVars>>

-----------------------------------------------------------------------------
(* A round: getNetworkPeers *)

TimedOut ==
    /\ pc \in {"round", "poll"} /\ expired /\ ExitWith("error")
    /\ UNCHANGED <<cfg, endpoints, trap, crawlVars, netVars>>

\* All goroutines are started; the marks of earlier rounds are taken off the
\* entries they would have to count in.
BeginRound ==
    /\ pc = "round" /\ ~expired
    /\ peers' = [n \in DOMAIN peers |-> [peers[n] EXCEPT !.queried = FALSE]]
    /\ inbox' = None /\ result' = None
    /\ pc' = "poll"
    /\ UNCHANGED <<cfg, endpoints, exit, trap, cancelc, expired, netVars>>

\* The goroutine of one peer: netInfo, and the answer into its channel.
Asked == DOMAIN peers \ (DOMAIN inbox \cup DOMAIN result)
Book(n) == {m \in Nodes : {n, m} \in links}
With(f, n, v) == [m \in DOMAIN f \cup {n} |-> IF m = n THEN v ELSE f[m]]

NetInfo(n) ==
    /\ Asking /\ n \in Asked /\ status[n] # "hung"
    /\ inbox' = With(inbox, n, [ok |-> status[n] = "up",
                                book |-> IF status[n] = "up" THEN Book(n) ELSE {}])
    /\ UNCHANGED <<cfg, endpoints, pc, exit, trap, peers, result, cancelc, expired, netVars>>

Poll ==
    /\ pc = "poll" /\ ~expired
    /\ pc' = "select"
    /\ UNCHANGED <<cfg, endpoints, exit, trap, crawlVars, netVars>>

-----------------------------------------------------------------------------
(* What a complete round leads to *)

\* Those that answered, and everyone they named.
resolvePeerMap(answers) ==
    LET answered == {n \in DOMAIN answers : answers[n].ok}
        named == UNION {answers[n].book : n \in answered}
    IN [n \in answered \cup named |->
           IF n \in answered THEN [book |-> answers[n].book, queried |-> TRUE]
                             ELSE [book |-> {}, queried |-> FALSE]]

\* Mutation: a single new peer is not worth a change.
LargerByTwo(new) == Cardinality(DOMAIN new) > Cardinality(DOMAIN peers) + 1

\* "we only care if we've discovered more peers than in the previous attempt"
Larger(new) == Cardinality(DOMAIN new) > Cardinality(DOMAIN peers)

getMinPeerConnectivity(found) ==
    LET sizes == {Cardinality(found[n].book) : n \in {m \in DOMAIN found : found[m].queried}}
        few == {k \in sizes : k > 0 /\ k < Cardinality(DOMAIN found)}
    IN IF few = {} THEN Cardinality(DOMAIN found) ELSE CHOOSE k \in few : \A j \in few : k <= j

\* Mutation: the crawling node counts itself.
EnoughWithSelf(found) ==
    /\ Cardinality(DOMAIN found) + 1 >= cfg.ExpectPeers
    /\ getMinPeerConnectivity(found) >= cfg.MinConnectivity

Enough(found) ==
    /\ Cardinality(DOMAIN found) >= cfg.ExpectPeers
    /\ getMinPeerConnectivity(found) >= cfg.MinConnectivity

\* The addresses a selection method admits.
Admitted(found) ==
    CASE cfg.EndpointSelectMethod = "supplied"   -> DOMAIN found \cap cfg.Endpoints
      [] cfg.EndpointSelectMethod = "discovered" -> DOMAIN found \ cfg.Endpoints
      [] OTHER                                   -> DOMAIN found

\* Mutation: the maximum is tested before the endpoint is added.
filterPeerMapOneMore(found) ==
    LET all == Admitted(found)
    IN IF cfg.MaxEndpoints > 0 /\ Cardinality(all) > cfg.MaxEndpoints
       THEN {s \in SUBSET all : Cardinality(s) = cfg.MaxEndpoints + 1} ELSE {all}

\* The lists filterPeerMap may return: a map is walked in any order, and the
\* walk ends when the maximum is reached.
filterPeerMap(found) ==
    LET all == Admitted(found)
    IN IF cfg.MaxEndpoints > 0 /\ Cardinality(all) > cfg.MaxEndpoints
       THEN {s \in SUBSET all : Cardinality(s) = cfg.MaxEndpoints} ELSE {all}

\* The end of a round: back to ExecuteStandalone, or, after a second, the next.
\* The deferred close(cancelTrap) ends the goroutine that reads signals.
Decide(answers) ==
    LET new == resolvePeerMap(answers)
        kept == IF Larger(new) THEN new ELSE peers
    IN /\ peers' = kept
       /\ IF Enough(kept)
          THEN endpoints' \in filterPeerMap(kept) /\ pc' = "connect" /\ trap' = "stale"
          ELSE pc' = "round" /\ UNCHANGED <<endpoints, trap>>

-----------------------------------------------------------------------------
(* The select statement of getNetworkPeers *)

\* Mutation: one answer more is expected than was asked for.
CompleteOffByOne(answers) == Cardinality(DOMAIN answers) > Cardinality(DOMAIN peers)

Complete(answers) == Cardinality(DOMAIN answers) >= Cardinality(DOMAIN peers)

\* An answer or an error is received; if it is not the last, the loop sleeps.
Receive(n) ==
    /\ pc = "select" /\ n \in DOMAIN inbox
    /\ result' = With(result, n, inbox[n])
    /\ inbox' = [m \in DOMAIN inbox \ {n} |-> inbox[m]]
    /\ IF Complete(result') THEN Decide(result')
                            ELSE pc' = "poll" /\ UNCHANGED <<endpoints, trap, peers>>
    /\ UNCHANGED <<cfg, exit, cancelc, expired, netVars>>

\* Mutation: the channel is looked at only when no answer is there.
CancelledIfIdle ==
    /\ pc = "select" /\ cancelc /\ inbox = None /\ ExitWith("error")
    /\ UNCHANGED <<cfg, endpoints, trap, crawlVars, netVars>>

Cancelled ==
    /\ pc = "select" /\ cancelc /\ ExitWith("error")
    /\ UNCHANGED <<cfg, endpoints, trap, crawlVars, netVars>>

\* Mutation: the timer is not among the cases.
TimerForgotten ==
    /\ pc = "select" /\ expired /\ Asked = {} /\ ExitWith("error")
    /\ UNCHANGED <<cfg, endpoints, trap, crawlVars, netVars>>

\* case <-time.After(remainingTimeout)
TimerFires ==
    /\ pc = "select" /\ expired /\ ExitWith("error")
    /\ UNCHANGED <<cfg, endpoints, trap, crawlVars, netVars>>

-----------------------------------------------------------------------------
(* The environment: time and the network *)

Expire ==
    /\ Crawling /\ ~expired /\ expired' = TRUE
    /\ UNCHANGED <<cfg, endpoints, pc, exit, trap, peers, inbox, result, cancelc, netVars>>

NodeFails(n) ==
    /\ Crawling /\ faults < MaxFaults /\ status[n] = "up"
    /\ faults' = faults + 1
    /\ \E s \in {"down", "hung"} : status' = [status EXCEPT ![n] = s]
    /\ UNCHANGED <<cfg, endpoints, pc, exit, trap, crawlVars, links, everLinks, growth>>

NodeRecovers(n) ==
    /\ Crawling /\ status[n] # "up"
    /\ status' = [status EXCEPT ![n] = "up"]
    /\ UNCHANGED <<cfg, endpoints, pc, exit, trap, crawlVars, links, everLinks, faults, growth>>

LinkLost(p) ==
    /\ Crawling /\ faults < MaxFaults /\ p \in links
    /\ faults' = faults + 1 /\ links' = links \ {p}
    /\ UNCHANGED <<cfg, endpoints, pc, exit, trap, crawlVars, status, everLinks, growth>>

LinkAdded(p) ==
    /\ Crawling /\ growth < MaxGrowth /\ p \notin links
    /\ growth' = growth + 1
    /\ links' = links \cup {p} /\ everLinks' = everLinks \cup {p}
    /\ UNCHANGED <<cfg, endpoints, pc, exit, trap, crawlVars, status, faults>>

CrawlStep ==
    \/ ResolveSupplied \/ ResolveFails \/ TimedOut \/ BeginRound \/ Poll
    \/ Cancelled \/ TimerFires \/ \E n \in Nodes : Receive(n)

Network ==
    \/ Expire
    \/ \E n \in Nodes : NodeFails(n) \/ NodeRecovers(n)
    \/ \E p \in Pairs : LinkLost(p) \/ LinkAdded(p)

=============================================================================
