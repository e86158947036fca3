----------------------------- MODULE LoadConfig -----------------------------
(***************************************************************************)
(* The configuration of a load test (pkg/loadtest/config.go) and the       *)
(* arithmetic with which the kvstore client factory validates it           *)
(* (pkg/loadtest/client_kvstore.go). A client's transaction is             *)
(* "[client_id][random_suffix]=[value]"; only the lengths are kept.        *)
(***************************************************************************)
EXTENDS Integers, Sequences, FiniteSets

CONSTANTS
    Nodes,                          \* addresses of Tendermint nodes
    Word,                           \* how many values a uint64 has
    kvstoreMaxTxsByKeySuffixLen     \* the table, from suffix length 0 up

ASSUME TableAssumption ==
    /\ Word \in Nat \ {0}
    /\ kvstoreMaxTxsByKeySuffixLen \in Seq(Nat)
    /\ kvstoreMaxTxsByKeySuffixLen # <<>> /\ kvstoreMaxTxsByKeySuffixLen[1] = 0

KVStoreClientIDLen == 5
kvstoreMinValueLen == 1

SelectMethods == {"supplied", "discovered", "any"}
BroadcastTxMethods == {"async", "sync", "commit"}

\* Config, but for the name of the client factory, which is "kvstore". Times
\* are in seconds, and of StatsOutputFile it matters only whether it is given.
ConfigType ==
    [Connections : Int, Time : Int, SendPeriod : Int, Rate : Int, Size : Int, Count : Int,
     BroadcastTxMethod : STRING, Endpoints : SUBSET Nodes, EndpointSelectMethod : STRING,
     ExpectPeers : Int, MaxEndpoints : Int, MinConnectivity : Int,
     PeerConnectTimeout : Int, StatsOutputFile : BOOLEAN, NoTrapInterrupts : BOOLEAN]

\* MaxTxsPerEndpoint, in the arithmetic of uint64.
MaxTxsPerEndpoint(c) ==
    IF c.Count > -1 THEN c.Count ELSE (c.Rate * c.Time) % Word

\* The suffix lengths whose table entry exceeds a number of transactions.
RoomyLens(n) ==
    {l \in 0..(Len(kvstoreMaxTxsByKeySuffixLen) - 1) : n < kvstoreMaxTxsByKeySuffixLen[l + 1]}

\* requiredKVStoreSuffixLen where it returns no error: one more than the first
\* length the search meets.
CanCater(n) == RoomyLens(n) # {}
requiredKVStoreSuffixLen(n) ==
    1 + CHOOSE l \in RoomyLens(n) : \A k \in RoomyLens(n) : l <= k

minTxSize(c) ==
    KVStoreClientIDLen + requiredKVStoreSuffixLen(MaxTxsPerEndpoint(c)) + 1 + kvstoreMinValueLen

\* KVStoreClientFactory.ValidateConfig
ValidForKVStore(c) ==
    /\ MaxTxsPerEndpoint(c) >= 1
    /\ CanCater(MaxTxsPerEndpoint(c))
    /\ c.Size >= minTxSize(c)

\* Config.Validate
Valid(c) ==
    /\ ValidForKVStore(c)
    /\ c.Connections >= 1 /\ c.Time >= 1 /\ c.SendPeriod >= 1 /\ c.Rate >= 1
    /\ c.Count >= 1 \/ c.Count = -1
    /\ c.BroadcastTxMethod \in BroadcastTxMethods
    /\ c.Endpoints # {}
    /\ c.EndpointSelectMethod \in SelectMethods
    /\ c.ExpectPeers >= 0
    /\ c.ExpectPeers > 0 => c.PeerConnectTimeout >= 1
    /\ c.MaxEndpoints >= 0 /\ c.MinConnectivity >= 0

=============================================================================
