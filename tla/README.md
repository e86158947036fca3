# A TLA+ verification of tm-load-test

tm-load-test puts transaction load on Tendermint networks. It runs standalone, or as a
*coordinator* that waits for *workers* to register, starts them together, collects their
reports and decides whether the load test succeeded. This directory holds TLA+ models of
that system, the TLC runs that check them, and TLAPS proofs about them. All paths below are
relative to `src/pkg/loadtest/` unless they say otherwise.

`PROJECT.json` lists components, runs, mutants, the map from definitions to source lines,
findings, hazards and theorems.

## 1. Inventory

| Part | State it keeps | Operations | Interacts through |
|---|---|---|---|
| Coordinator (`coordinator.go`) | `workers`, per-worker totals, the local `completed`, `stop`, gauges | `Run`: wait for peers, wait for workers, start, receive updates, shut down | three channels of capacity `ExpectWorkers`; a control channel per remote worker; interrupt trap; web server |
| Remote worker (`remote_worker.go`) | `id`, `state`, `stateCtrl`, `stop`, gauges | `eventLoop`: read ID, register, wait for start, forward updates, unregister | the coordinator's channels; the WebSocket to its worker |
| Worker (`worker.go`) | `cfg`, `interrupts`, `stop` | `Run`: dial, register, wait for start, execute the test, close | the WebSocket; the transactor group's callback; interrupts |
| Simple socket (`websockets.go`) | request channels, stop flags | `Run`/`readPump`, `Read`, `Write`, `Stop`, `close` | one goroutine for writes, one for reads |
| Transactor (`transactor.go`) | `txCount`, `stop`, `stopErr` | `sendLoop`, `receiveLoop`, `Cancel`, `Wait` | the WebSocket to a Tendermint endpoint; the group's progress callback |
| Transactor group (`transactor_group.go`) | `txCounts`, the transactors | `AddAll`, `Start`, `Cancel`, `Wait`, `progressReporter` | goroutine per transactor; reporter; callback to the worker |
| Peer discovery (`tm_network_info.go`, `netInfo` of `rpc.go`) | `peers`, `result`, `cancelc`, the deadline | rounds: query every known peer in parallel, keep the larger map, check connectivity, filter | a goroutine per query; interrupt trap; the Tendermint network |
| KVStore client, configuration (`client_kvstore.go`, `config.go`) | none after construction | validation, sizes, generation of transactions | used by every transactor |
| Standalone execution, CLI (`loadtest.go`, `cli.go`) | where `ExecuteStandalone` is, which trap is live | validate, crawl, connect, wait, write statistics; `trapInterrupts` | the crawl, one transactor group, signals |
| Outage simulator (`src/internal/outagesim`) | a service it looks up | start or stop the service on request | HTTP |

What is hard here is concurrency and failure: `select` statements that choose among several
ready channels; requests that time out while still queued; writes that are reported as failed
and arrive all the same; goroutines that unregister after the fact; an interrupt handler that
runs next to `Run`; a reporter whose numbers are old when they are sent; and error paths that
talk to parties that may be gone. `PROJECT.json` lists each of these under `hazards`, at its
line and with the properties that cover it.

What makes each part correct:

* **Coordinator and workers together**: nobody loads before everybody is registered; `Run`
  returns nil only if every worker of the test completed; the statistics written then are
  exact; interrupts, failures and timeouts always end the run; nobody is left behind.
* **Transactors and their group**: counts never claim more than was written and never pass
  the limit; after `Wait` they are final; no error is lost; a started group ends.
* **Simple socket**: what `Write` reports as written is on the wire, in order and once; what it
  reports as failed may be there all the same; nothing accepted is left behind when the socket
  stops, nothing follows the close frame, and `Stop` returns.
* **Peer discovery**: the crawl ends, by its timeout, an interrupt or success; what it finds
  exists; what it selects is what the user asked for; a network that is as large and as connected
  as asked for is found.
* **KVStore client and configuration**: no test starts with a configuration that does not
  validate; the arithmetic of validation is part of the standalone model.

## 2. Modules

| Module | Models | Main correspondence |
|---|---|---|
| `Protocol` | shared state of a coordinated test | channels as sequences with `Room`; connections as `up`/`down` sequences and `open`; `WriteUp`/`WriteDown` are `simpleSocket.Write` with its three outcomes |
| `Coordinator` | `coordinator.go`, the trap of `cli.go` | `cpc` says where `Run` is; one action per `select` case and per step of the loops over `c.workers` |
| `RemoteWorker` | `remote_worker.go` | `rpc[c]` says where `eventLoop` is; `Return` is its deferred function up to the blocking unregistration |
| `Worker` | `worker.go` | `wpc[c]` says where `Run` is; `rep`/`snap` are the group's reporter in the middle of a callback |
| `CoordinatedTest` | the composition | `Init`, `Next`, fairness, all properties of the coordinated mode |
| `MCCoordinated` | instances for TLC | assignments of IDs, symmetry, the view `LiveState` |
| `LoadTest` | *abstract*: what a coordinated test promises | a team is formed once, members send, complete once and with their final count; success only when all have; failure at any time before; the coordinator may crash |
| `Transactor` | `transactor.go` and the endpoint | `sendPc[t]`, `recvPc[t]`; a batch is sent transaction by transaction |
| `TransactorGroup` | `transactor_group.go` | `gpc` is the caller of `AddAll`, `Start`, `Wait`; properties of the load generation |
| `MCTransactors` | instances for TLC | symmetry, the "unlimited" count |
| `MessageLink` | *abstract*: what the users of a socket assume when they write | order, no duplicates, honest "ok", nothing after the close |
| `SimpleSocket` | `websockets.go` | `run` is `Run` with its deferred functions, `pump` is `readPump`, `call` says in which call each user is; requests and their own answer channels |
| `LoadConfig` | `config.go`, the validation of `client_kvstore.go` | operators named as in the code; the table and the word size are parameters |
| `PeerCrawl` | `tm_network_info.go` | `pc` says where `waitForNetworkPeers` and its `select` are; `inbox` is `peerInfoc` and `errc`; nodes and links change around it |
| `Standalone` | `loadtest.go`, the root command | the steps around the crawl, signals and who takes them (`trap`), properties of the standalone mode |
| `MCStandalone` | instances for TLC | configurations on both sides of the limits, four crawls (one without a timeout, which does not validate), small networks |
| `CoordinatedTestProofs`, `CoordinatorProofs`, `ReportProofs`, `LoadTestProofs` | TLAPS proofs about the coordinated mode | section 5 |
| `TransactorGroupProofs`, `SocketProofs`, `StandaloneProofs` | TLAPS proofs about the other parts | section 5 |

A member of `Conns` is one worker process together with the connection it dials and the remote
worker that serves it; `IdOf` gives the worker ID the process was started with, so two members
may share one. Operators whose comment begins with *Mutation* are plausible bugs; each replaces
the definition that follows it in one of the `mutants` and must break the property named there.

### Refinements

* `CoordinatedTest` implements `LoadTest` (`ImplementsLoadTest`, with fairness
  `ImplementsFairLoadTest`). The mapping takes the phase from where `Run` is, the team from the
  workers that were started, the load from the workers' totals, and the report from what the
  coordinator has counted. It is the code's central promise in one page: the coordinator may be
  talking to workers that are late, duplicated, evicted or gone, and still every step of it is a
  step of that page. A test whose whole team has completed can no longer fail; it can still not be
  reported as a success if the coordinator panics between the last completion and the return of
  `Run`, when a further process with a taken ID registers (finding `reconnect`): that is `Crash`.
* `SimpleSocket` implements `MessageLink` (`ImplementsLink`), the facts about writes that
  `WriteUp` and `WriteDown` of `Protocol` build in: a write that is reported as failed may still
  be delivered, one that is reported as done is.

### Abstractions

* Payloads are dropped. A message is its state and its transaction count; bytes are handled by
  the same statements as counts. Texts, logging, rates and time stamps are left out.
* Steps that no other goroutine can observe apart are one action: the control message and the
  rest of its handler, for instance, but not a read of a total and the write that reports it.
* `open[c]` is one flag for both directions. Data already received stays readable after the
  connection has died. A write to a dead connection may or may not report an error.
* A remote worker that has left its loops never reads again, so its queued messages are dropped.
* The WebSocket library makes read errors permanent and panics after a thousand repeated
  reads. Two loops of the code repeat failing reads (`worker.go:222`, `transactor.go:149`);
  their outcome is the panic (`PollPanics`, `ReadPanics`).
* In `Worker` the transactor group is only a total that grows, an error and an end. What the
  group itself promises (`FinalCountsExact`, `ErrorsSurface`, reporter joined) is what that
  abstraction assumes, and is proved of `TransactorGroup`.
* A coordinator process that ends takes its goroutines and connections with it
  (`ProcessGone`); `Exit` follows the return of `Run` as in `cli.go`.
* The optional shutdown wait is part of `ShutdownServer`; in `Coordinator` the peer crawl succeeds
  or fails, in `Standalone` it is `PeerCrawl` and the transactor group returns nil or an error.
* In `SimpleSocket` a timer that was started may fire at any moment. The owner calls `Stop` only
  when its reporter has returned, as both users do.
* In `PeerCrawl` a node is its address (URLs are resolved, ports are fixed) and a link puts two
  nodes into each other's address book. A node may be up, answer with errors, or never answer.
  Rounds never overlap in the code, since a round ends only when all its queries have answered or
  with the crawl. A map is walked in any order, so a filter with a maximum may return any subset.

### Time and faults

Timers are not counted down. A timer whose event *can no longer come* (a read from a dead peer,
a registration nobody will answer) fires freely: it is what ends the wait. A timer that *wins a
race* against an event that may still come costs one unit of the budget `MaxFaults`, like an
interrupt, a lost connection, a write timeout, a failing server or a transactor error. So each
run covers all placements of up to `MaxFaults` such events. `MaxTx`, `MaxSent` and
`MaxInFlight` bound the transactions and the unread progress reports; the proofs hold for every
value of all bounds.

## 3. Runs

| Run | Instance | Checks | Distinct states |
|---|---|---|---|
| `solo` | 1 worker, peers awaited, 1 transaction, 2 faults, fairness | `TypeOK`, `CtrlNeverBlocks`, `GaugeTellsResult`, `StatsExact`, `ImplementsFairLoadTest`, `InterruptEndsRun`, `FailureEndsTest`, `NoOrphans` | 102 k |
| `pair` | 2 workers, 1 fault, counts left out | `SuccessIsUnanimous`, `StartBarrier`, `ImplementsLoadTest` | 0.41 M |
| `totals` | 2 workers, 2 transactions each and a report on its way behind another, no fault | `StatsExact`, `TotalsMonotone`, `ImplementsLoadTest` | 0.74 M |
| `twins` | 3 processes, two with the same ID, 2 expected | `SuccessIsUnanimous`, `ImplementsLoadTest` | 0.63 M |
| `limited` | 2 transactors, rate 2, count 3, 2 faults | all safety properties of `TransactorGroup` | 1.35 M |
| `unlimited` | 2 transactors, no count, 1 fault, fairness | safety and `WaitEnds` | 67 k |
| `socket` | 1 socket with the options of either user, 3 writes of 2 goroutines, 2 reads, 2 incoming messages, channels of 2, fairness | `TypeOK`, `OneReader`, `ReadsAccounted`, `NothingLeftBehind`, `ImplementsLink`, `StopReturns` | 0.41 M |
| `standalone` | 45 configurations around the size limits, 4 crawls of 3 nodes with a link or node lost and a link gained, fairness | `TypeOK`, `LoadedAsSelected`, `PeersAreReal`, `CrawlEnds`, `InterruptEndsCrawl`, `ReadyNetworkFound` | 0.16 M |

Why the bounds are enough: two workers are needed for a barrier to mean anything, three processes
for two with one ID and a third that completes the set; a count of 3 at rate 2 makes the last
batch a partial one; two transactions give a worker an old and a new count that are both not zero,
so that a report taken late or twice would show in the totals and the statistics; two
faults put a failure into the handling of another (an interrupt while a worker is failing, a lost
connection during the clean-up), and the pair with one fault covers failures of one worker at
every stage of the other. Three writes of two goroutines with room for two fill the channel, leave
requests behind a timeout and put them into the flush; two reads let an abandoned one precede a
live one. Three nodes make the smallest network whose last node is found in a second round only;
with a link gained they make a triangle, where every address book has two entries, so that a
minimum connectivity of two is out of reach at first and reached later. The configurations lie on
both sides of the limits that a table of four entries sets (the code's remaining entries differ in
value only).

`ReadyNetworkFound` takes "connected" as `src/README.md:111` and `config.go:35` do, by the sizes of
the address books of all nodes that can be reached, and starts from the nodes the crawl knows: a node
that has gone keeps its place in the map, and until it is back the crawl may miss others (below). That loading may also begin *too early* is the finding `connectivity`.

`pair`, `totals` and `limited` use symmetry (the members are interchangeable, no `CHOOSE` among them is
order-dependent: at most one started connection has a given ID); `twins` uses the symmetry of
the two processes that share an ID. `pair`, `totals` and `twins` use the view `LiveState`: it
identifies states that differ only in what no guard and no property of those runs reads again
(gauges, results, messages to parties that have returned, counts after an error); it keeps what the
mapping to `LoadTest` reads, so the action properties of these runs see the same steps. The runs
with liveness properties use neither view nor symmetry.

The remaining runs expect a violation and show a disagreement between the code and what the
repository says of it:

| Run | What TLC shows | Says otherwise |
|---|---|---|
| `lost_completion` | a worker's unregistration is taken before its completion, the completion is ignored, and the coordinator waits with every worker done | `coordinator.go:256` |
| `reconnect` | a rejected duplicate unregisters by ID and evicts the worker that owns the ID; a further worker with the ID is accepted and its gauges panic the coordinator | `coordinator.go:210` |
| `cut_batch` | the `break` of a cut batch skips `sent++`, and one more than `Count` transactions go out | `config.go:29` |
| `connectivity` | a round that finds nobody new keeps the map whose `SuccessfullyQueried` marks it has just erased, and the check of the minimum connectivity passes with no peer to check | `src/README.md:112` |

Four behaviours of the code are certain enough not to need a run. A failed worker's gauge stays at
"load testing underway" (`src/README.md:150`), because it leaves the map before
`failAllRemoteWorkers` walks it. An interrupt that races completion leaves the coordinator's gauge
at failed although `Run` returns nil; `GaugeTellsResult` says what remains true. The crawl compares
maps by size (`tm_network_info.go:90`): with two supplied nodes, one of them down, the map that has the
other's neighbour instead of the dead node is never kept, and nobody behind the neighbour is found
before the timeout; `ReadyNetworkFound` says what remains true. And
`--max-endpoints` has no effect without `--expect-peers`, as the filter is part of the crawl.

The safety properties that pass hold *despite* these: a lost completion makes the coordinator
wait but never makes it report a wrong success, an eviction never lets an unregistered set start.

## 4. Fairness

`FairSpec` assumes that goroutines which can run do run, and that a `select` does not ignore a
case for ever: Go picks among ready cases at random. For cases that stay ready this is weak
fairness per case. Strong fairness is used where a pass through another case disables the case and
enables it again while the buffered tick or the closed channel stays ready: the time limit and the
reporter's stop in `TransactorGroup`, the two stop cases of `SimpleSocket`, and the crawl's
`cancelc` in `Standalone`. There nothing is assumed of the timeout, which may lie beyond any number
of rounds (so `ReadyNetworkFound` is not a consequence of it), nor of nodes that hang or links
that come and go; a node that is up answers. The endpoint is assumed to answer a
close frame; `receiveLoop` has no read deadline, so without that `Wait` may block, which is
listed as a hazard. The code's own timers end every other wait. Nothing is assumed of faults.
Transactors are assumed to end in `CoordinatedTest` (`TransactorsDone`), which is what
`WaitEnds` of `TransactorGroup` shows.

## 5. Proofs

Every invariant, action property and refinement without fairness that the passing runs check is
also a theorem. The theorems hold for all values of the constants that satisfy the named
assumptions: finite sets of connections or transactors, `IdOf` a function into `Ids`, positive
`ExpectWorkers`, `Rate` and channel capacity, natural bounds, a finite set of nodes,
configurations of the type of `Config` and a table of natural numbers. They use no fairness. Each
inductive invariant was checked by TLC on an instance before it was proved.

| Theorem | Statement |
|---|---|
| `CoordinatedTestProofs!TypeCorrect` | `Spec => []TypeOK` |
| `CoordinatedTestProofs!StartIsABarrier` | `Spec => []StartBarrier` |
| `CoordinatorProofs!ControlChannelHasRoom` | `Spec => []CtrlNeverBlocks` |
| `CoordinatorProofs!GaugeIsTrue` | `Spec => []GaugeTellsResult` |
| `ReportProofs!ReportsInOrder` | `Spec => []CompletionInv` |
| `ReportProofs!SuccessTakesEveryone` | `Spec => []SuccessIsUnanimous` |
| `ReportProofs!StatsAreExact` | `Spec => []StatsExact` |
| `ReportProofs!TotalsNeverGoBack` | `Spec => TotalsMonotone` |
| `LoadTestProofs!OneTeamOneTest` | `Spec => ImplementsLoadTest` |
| `TransactorGroupProofs!TypeCorrect`, `NothingOverclaimed`, `LimitKept`, `FinalCounts`, `NoErrorHidden`, `ProgressNeverGoesBack` | the safety properties of `TransactorGroup` |
| `SocketProofs!TypeCorrect`, `ReadsDoNotMeet`, `StopLeavesNothing`, `ReadsAreAccounted` | the invariants of `SimpleSocket` |
| `SocketProofs!SocketIsALink` | `Spec => ImplementsLink` |
| `StandaloneProofs!TypeCorrect`, `SelectionHonoured`, `PeersAreFound` | the invariants of `Standalone` |

### The coordinated mode

* **Types.** `TypeOK` is inductive by itself. One lemma per process goes through its actions;
  small lemmas give the types of the write operators.
* **The barrier.** `StartBarrier` is not inductive, since it does not say why a worker that is
  told to start was registered. `BarrierInv` follows the permission along its way: *RegistryInv*
  (nothing has started while waiting; the started set is large enough; entries sit under their own
  ID; what `startLoadTest` still has to visit was started), *ToldInv* (a "testing" message in a
  control channel or on a connection is addressed to a started worker) and *LoadingInv* (who loads
  is started). That the started set has at least as many members as there are entries needs the
  injectivity given by "entries sit under their own ID".
* **Control messages.** *CtrlInv*: the channels are empty until the start, hold one message at
  most until the test ends and two in the end, and one less for a remote worker that the loop
  under way has still to visit (*Due*). The two loops visit an ID once, and an entry is replaced
  only outside of them.
* **The gauge.** *GaugeInv*: on its error path `Run` has set the gauge to failed; on its success
  path to completed, and only the interrupt handler, which closes `c.stop` first, changes it
  again.
* **Reports.** Success, statistics and totals rest on one invariant, `CompletionInv`. A report
  may be in the coordinator's channel (*Queued*), with the remote worker that has read it
  (*Passing*) or on the connection (*Sent*). *OrderInv* says that all reports of a worker stand in
  the order they were made along this way, with growing counts and the completion last. *WayInv*
  bounds each by what the coordinator has counted (*Tally*) and by what the worker has sent: a
  progress report is never ahead of the next one the reporter would make (*Source*), a completion
  carries the final count; and a worker whose completion was counted has no report left under
  way, which is why it is counted once and its total never changes again. *TeamInv* adds that the
  team has exactly `ExpectWorkers` members with different IDs, which makes the coordinator's count
  of completions a count of workers; *ProgressInv* ties these to where `Run` is. No conjunct
  survives alone: the order is needed for the bounds, the bounds for the totals, the single
  completion for the count, the count for the success.
* **The refinement of `LoadTest`.** Initial states map to initial states, and each step to the step
  below or to a stutter:

  | Step of `LoadTest` | Steps of `CoordinatedTest` |
  |---|---|
  | `Begin` | `HandleRegister` of the last worker awaited |
  | `Send` | `SendTransactions` |
  | `Complete` | `HandleUpdate` of a completion that is counted |
  | `Succeed` | `Complete` |
  | `Fail` | `PeersFailed`, `ConnectTimeout`, `StopOrServerNoticed`, `StartFailed`, `HandleUnregisterTesting` |
  | `Crash` | `CreateMetrics` of a duplicate ID |

  The guard of `Fail` (not when the whole team has completed) is where `CompletionInv` is needed
  most: it must be impossible that `Run` fails in a state in which it has counted everyone.

### The other parts

* **Load generation.** One inductive invariant `IInv` gives all six theorems. `NeverOverclaims`
  orders published, tracked, counted and written; *BatchInv* says that the batch under way fits
  under the limit; *ResultInv* ties errors, collected results and final counts together (a
  collected transactor's `sendLoop` is done, so its count is final).
* **The socket, writing.** *RunInv* says how far `Run` is: it leaves its loop only for `Stop`,
  after which nobody writes, and `close()` starts with the pump ended and with as many requests to
  flush as there are. *OutboundInv* makes the outbound channel the end of the history of requests
  and the request in hand the one before it; *AnswerInv* says that everything earlier is answered
  and that the wire holds only such requests. Then a request that is written now comes after all
  that are on the wire, and an empty channel means that all were answered. *GivenInv* and *ToldInv*
  tie the calls to their requests: a call gives one request and is told one answer.
* **The socket, reading.** As long as no read has failed, the *n*-th read that the pump handles
  takes the *n*-th message (*IncomingInv*), and the first error is final (*ReadAnswerInv*). So a
  call of `Read` that returns a message returns the one with its own number, and between two such
  calls there can only be calls that timed out: counting them is counting an interval covered by
  two sets.
* **The crawl.** *CrawlInv*: in a round only known peers are asked, each once, and the map they are
  taken from is never empty, since validation demands an endpoint and a map is only replaced by a
  larger one; this is why `getNetworkPeers` never waits for an answer that cannot come. *MapsInv*
  (addresses are those of nodes) makes the comparison of sizes with `MaxEndpoints` and
  `ExpectPeers` mean something. *RealInv* says that every answer, in a channel or received, names
  neighbours by links there have been, and that everybody in a map can be reached; `Reach` is the
  intersection of the closed sets, so no induction is needed.

### What is only model-checked

The liveness properties and `ImplementsFairLoadTest`: TLAPS proves neither liveness under fairness
nor `ENABLED`. TLC checks them on the instances of section 3. The four runs that expect a violation
are counterexamples and need no proof.

## 6. Plan

Done: the coordinated mode and its abstract specification, load generation, the simple socket and
its abstract link, configuration, crawl and standalone mode, and theorems for every safety property
of the passing runs. Worth adding:

1. The safety core of the liveness properties: invariants which say that in every state in which
   a goroutine waits, the event or the timer that ends the wait is still to come.
2. Consequences at the level of the abstract specifications: what `LoadTest` and `MessageLink`
   imply by themselves, to be carried over to the code by the two refinements.

## 7. Not modelled

Flag parsing, JSON and CSV formats, RPC types (`rpc.go`), rates, logging, the random content of
transactions and the Prometheus counters: pure conversion or output. A `SIGKILL` or power loss is
not a step of its own; its effect on the others is that of a lost connection. A second interrupt
is swallowed by the channel of `trapInterrupts` and has no effect. The outage simulator
(`src/internal/outagesim`) is a separate tool whose handlers keep no state of their own: each asks
the service manager whether the node runs and then starts or stops it, so a model would be one of
the service manager. The random content of keys, and with it the chance of a collision, is out of a
model's reach. So is whether there are keys enough: `MaxTxsPerEndpoint` is an estimate, and a client may
be asked for more (finding `cut_batch`).

## 8. Running

    tlc -workers 2 -config Solo.cfg MCCoordinated        # and the other runs of PROJECT.json
    tlapm CoordinatedTestProofs.tla
    tlapm TransactorGroupProofs.tla
    tlapm CoordinatorProofs.tla
    tlapm ReportProofs.tla
    tlapm LoadTestProofs.tla
    tlapm SocketProofs.tla
    tlapm StandaloneProofs.tla
