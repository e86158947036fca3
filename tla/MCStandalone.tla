---------------------------- MODULE MCStandalone ----------------------------
(***************************************************************************)
(* Instances of Standalone for TLC.                                        *)
(***************************************************************************)
EXTENDS Standalone

CONSTANTS n1, n2, n3

\* The head of the table: with it the largest counts are rejected.
ShortTable == <<0, 62, 1891, 37820>>

\* Isolated nodes, a pair and two chains; links gained make the others.
Networks == {{}, {{n1, n2}}, {{n1, n2}, {n2, n3}}, {{n1, n3}, {n2, n3}}}

Default ==
    [Connections |-> 1, Time |-> 1, SendPeriod |-> 1, Rate |-> 1, Size |-> 40,
     Count |-> -1, BroadcastTxMethod |-> "async", Endpoints |-> {n1},
     EndpointSelectMethod |-> "supplied", ExpectPeers |-> 0, MaxEndpoints |-> 0,
     MinConnectivity |-> 0, PeerConnectTimeout |-> 1,
     StatsOutputFile |-> FALSE, NoTrapInterrupts |-> FALSE]

\* Sizes and numbers of transactions on both sides of the limits that
\* ValidateConfig sets.
SizeConfigs ==
    {[Default EXCEPT !.Size = s, !.Count = k, !.Rate = r] :
        s \in 8..10, k \in {-1, 0, 61, 62, 37820}, r \in {0, 1, 62}}

Crawls(supplied, method, expect, max, min) ==
    [Default EXCEPT !.Endpoints = supplied, !.EndpointSelectMethod = method,
                    !.ExpectPeers = expect, !.MaxEndpoints = max, !.MinConnectivity = min]

CrawlConfigs ==
    {[Crawls({n1}, "supplied", 3, 0, 0) EXCEPT !.StatsOutputFile = TRUE],
     [Crawls({n1}, "discovered", 2, 1, 2) EXCEPT !.NoTrapInterrupts = TRUE],
     Crawls({n1, n2}, "any", 3, 2, 1),
     [Crawls({n1}, "any", 2, 0, 0) EXCEPT !.PeerConnectTimeout = 0]}

AllConfigs == SizeConfigs \cup CrawlConfigs

MinimumTwo == {Crawls({n1}, "any", 2, 0, 2)}

=============================================================================
