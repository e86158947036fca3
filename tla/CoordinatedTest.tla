-------------------------- MODULE CoordinatedTest ---------------------------
(***************************************************************************)
(* A coordinated load test as a whole: the coordinator, the remoteWorker   *)
(* goroutines in its process and the worker processes, interleaved step by *)
(* step, and the properties that make the composition correct.             *)
(***************************************************************************)
EXTENDS Coordinator, RemoteWorker, Worker

Init ==
    /\ cpc = "init" /\ result = "none"
    /\ workers = [i \in Ids |-> NoConn]
    /\ pending = {} /\ target = NoConn /\ ctrlResp = "none"
    /\ completed = 0 /\ counted = {} /\ started = {}
    /\ totalTxsPerWorker = [i \in Ids |-> 0]
    /\ stats = [i \in Ids |-> 0]
    /\ stateMetric = "starting" /\ underway = FALSE
    /\ trap = "off" /\ stop = FALSE /\ svr = "off"
    /\ workerRegister = <<>> /\ workerUnregister = <<>> /\ workerUpdate = <<>>
    /\ rpc = [c \in Conns |-> "none"]
    /\ rid = [c \in Conns |-> NoId]
    /\ rerr = [c \in Conns |-> FALSE]
    /\ rmsg = [c \in Conns |-> NoMsg]
    /\ regResp = [c \in Conns |-> "none"]
    /\ stateCtrl = [c \in Conns |-> <<>>]
    /\ rwStop = [c \in Conns |-> FALSE]
    /\ rwState = [c \in Conns |-> "none"]
    /\ metrics = {}
    /\ wpc = [c \in Conns |-> "dial"]
    /\ wres = [c \in Conns |-> "none"]
    /\ wstop = [c \in Conns |-> FALSE]
    /\ tx = [c \in Conns |-> 0]
    /\ rep = [c \in Conns |-> "idle"]
    /\ snap = [c \in Conns |-> 0]
    /\ tgErr = [c \in Conns |-> FALSE]
    /\ up = [c \in Conns |-> <<>>]
    /\ down = [c \in Conns |-> <<>>]
    /\ open = [c \in Conns |-> FALSE]
    /\ faults = 0

\* Every process has ended.
Terminated ==
    /\ ~Alive /\ \A c \in Conns : wpc[c] \in {"done", "crashed"}
    /\ UNCHANGED vars

Next ==
    \/ CoordinatorStep \/ CoordinatorFault
    \/ \E c \in Conns : RemoteWorkerStep(c) \/ WorkerStep(c) \/ WorkerFault(c)
    \/ Terminated

\* A select statement picks among its ready cases at random, so no case that
\* stays ready is passed over for ever; a goroutine that can run does run. No
\* fairness is assumed of faults.
Fairness ==
    /\ WF_vars(HandleRegister) /\ WF_vars(HandleUnregisterWaiting)
    /\ WF_vars(ConnectTimeout) /\ WF_vars(StopOrServerNoticed)
    /\ WF_vars(HandleUpdate) /\ WF_vars(HandleUnregisterTesting)
    /\ WF_vars(cpc \notin {"wait", "testing"} /\ CoordinatorStep)
    /\ WF_vars(TrapSetsMetric)
    /\ \A c \in Conns :
          /\ WF_vars(RemoteWorkerStep(c))
          /\ WF_vars(HandleCtrl(c)) /\ WF_vars(StopNoticed(c))
          /\ WF_vars(ReadUpdate(c))
          /\ WF_vars(WorkerStep(c)) /\ WF_vars(TransactorsDone(c))

Spec == Init /\ [][Next]_vars
FairSpec == Spec /\ Fairness

-----------------------------------------------------------------------------
(* Type invariant *)

\* Run, its control messages and its tallies.
RunTypeOK ==
    /\ cpc \in {"init", "peers", "wait", "start", "startWait", "testing", "complete",
                "fail", "failWait", "closeTrap", "server", "returned",
                "exited", "crashed"}
    /\ result \in {"none", "ok", "err"}
    /\ workers \in [Ids -> Conns \cup {NoConn}]
    /\ started \subseteq Conns
    /\ pending \subseteq Ids
    /\ target \in Conns \cup {NoConn}
    /\ ctrlResp \in {"none", "ok", "err"}
TallyTypeOK ==
    /\ completed \in Nat
    /\ totalTxsPerWorker \in [Ids -> Nat]
    /\ stats \in [Ids -> Nat]
    /\ counted \subseteq Conns

\* The coordinator's gauges, trap and server.
SignalTypeOK ==
    /\ stateMetric \in {"starting", "waitingForPeers", "waitingForWorkers",
                        "testing", "failed", "completed"}
    /\ underway \in BOOLEAN
    /\ trap \in {"off", "armed", "caught", "fired", "disarmed"}
    /\ stop \in BOOLEAN
    /\ svr \in {"off", "up", "down"}

\* The coordinator's channels, within the capacities NewCoordinator gives them.
ChanTypeOK ==
    /\ workerRegister \in Seq(Conns) /\ Len(workerRegister) <= ExpectWorkers
    /\ workerUnregister \in Seq(Unregistrations) /\ Len(workerUnregister) <= ExpectWorkers
    /\ workerUpdate \in Seq(Updates) /\ Len(workerUpdate) <= ExpectWorkers

\* The remote workers.
LoopTypeOK ==
    /\ rpc \in [Conns -> {"none", "readID", "register", "awaitReg", "metrics",
                          "waitForStart", "testing", "forward",
                          "unregister", "done"}]
    /\ rid \in [Conns -> Ids \cup {NoId}]
    /\ rerr \in [Conns -> BOOLEAN]
    /\ rmsg \in [Conns -> UpMsgs]
InboxTypeOK ==
    /\ regResp \in [Conns -> {"none", "ok", "err"}]
    /\ stateCtrl \in [Conns -> Seq({"testing", "failed"})]
    /\ rwStop \in [Conns -> BOOLEAN]
    /\ rwState \in [Conns -> {"none", "accepted", "testing", "failed", "completed"}]
    /\ metrics \subseteq Ids \cup {NoId}

\* The workers.
WorkerTypeOK ==
    /\ wpc \in [Conns -> {"dial", "hello", "awaitAccept", "waitForStart", "pollFailed",
                          "connecting", "testing", "join", "closing",
                          "done", "crashed"}]
    /\ wres \in [Conns -> {"none", "ok", "err"}]
    /\ wstop \in [Conns -> BOOLEAN]
    /\ tx \in [Conns -> 0..MaxTx]
    /\ rep \in [Conns -> {"idle", "writing"}]
    /\ snap \in [Conns -> 0..MaxTx]
    /\ tgErr \in [Conns -> BOOLEAN]

\* The connections and the fault budget.
NetTypeOK ==
    /\ up \in [Conns -> Seq(UpMsgs)]
    /\ down \in [Conns -> Seq(DownMsgs)]
    /\ open \in [Conns -> BOOLEAN]
    /\ faults \in 0..MaxFaults

\* Every variable of the coordinated test ranges over the values the code
\* can give it, and no channel holds more than its capacity.
TypeOK ==
    /\ RunTypeOK /\ TallyTypeOK /\ SignalTypeOK /\ ChanTypeOK
    /\ LoopTypeOK /\ InboxTypeOK /\ WorkerTypeOK /\ NetTypeOK

-----------------------------------------------------------------------------
(* Safety *)

\* A worker that has gone through executeLoadTest.
Finished(c) == wpc[c] \in {"closing", "done"}

\* Run returns nil only when the load test was started with exactly the
\* expected number of workers and every one of them has finished its load:
\* no completion is counted twice, none of a worker that never started.
SuccessIsUnanimous ==
    result = "ok" => /\ Cardinality(started) = ExpectWorkers
                     /\ counted = started
                     /\ \A c \in started : Finished(c)

\* The aggregate statistics written after a successful test are exact: for
\* every worker of the test the final count, whatever progress reports were
\* still under way when it completed, and nothing for anyone else.
StatsExact ==
    result = "ok" =>
        \A i \in Ids : stats[i] = IF \E c \in started : IdOf[c] = i
                                  THEN tx[CHOOSE c \in started : IdOf[c] = i]
                                  ELSE 0

\* A worker that executes or has executed its load test.
Loading(c) == wpc[c] \in {"connecting", "testing", "join"} \/ tx[c] > 0

\* No worker sends a transaction before startLoadTest found all the expected
\* workers registered, and only the workers it found do.
StartBarrier ==
    \A c \in Conns :
        Loading(c) => c \in started /\ Cardinality(started) >= ExpectWorkers

\* sendCtrlMsg never blocks the coordinator: the stateCtrl channel (capacity
\* 3) always has room, so its ten-second timer is all a lost remote worker
\* can cost.
CtrlNeverBlocks == \A c \in Conns : Len(stateCtrl[c]) < 3

\* While the test runs, the count kept for a worker never goes back: late
\* or reordered updates do not undo a later one (receiveTestingUpdates).
TotalsMonotone ==
    [][cpc = "testing" =>
         \A i \in Ids : totalTxsPerWorker'[i] >= totalTxsPerWorker[i]]_vars

\* Workers that unregister before the test begins do no harm: whichever
\* entry unregisterRemoteWorker deletes, no later registration under that ID
\* takes the coordinator's process down.
NeverCrashes == cpc # "crashed"

\* When Run has returned, the coordinator's state gauge tells the result: it
\* never says completed after an error, and it says failed after a success only
\* if an interrupt was caught, whose handler writes the gauge next to Run.
GaugeTellsResult ==
    cpc = "returned" =>
        /\ result = "err" => stateMetric = "failed"
        /\ result = "ok" => stateMetric = "completed" \/ stop

-----------------------------------------------------------------------------
(* Refinement: the coordinated test implements LoadTest.                    *)

\* How far the test has come. The coordinator may crash in the moment between
\* the last completion and the return of Run.
Phase ==
    IF result = "ok" THEN "succeeded"
    ELSE IF result = "err" THEN "failed"
    ELSE IF cpc = "crashed" THEN "crashed"
    ELSE IF started # {} THEN "running"
    ELSE "gathering"

\* The entry the statistics file holds for a worker of the test.
Reported == [c \in Conns |-> IF c \in started THEN stats[IdOf[c]] ELSE 0]

Promise == INSTANCE LoadTest WITH
    Workers <- Conns, TeamSize <- ExpectWorkers,
    phase <- Phase, team <- started, done <- counted, load <- tx, report <- Reported

\* Every step of the coordinator, the remote workers, the workers and the
\* network is a step of LoadTest or none at all: one team, gathered before
\* anyone sends, each completion counted once and after the worker's last
\* transaction, success exactly when the whole team has completed and the
\* statistics written are the team's loads.
ImplementsLoadTest == Promise!Spec

\* With the scheduler's fairness the same holds of LoadTest's own: gathering
\* always ends, and a test completed by its whole team is reported a success.
ImplementsFairLoadTest == Promise!FairSpec

-----------------------------------------------------------------------------
(* Liveness *)

Ended == cpc \in {"returned", "exited", "crashed"}

\* An interrupt always ends Run, however the remote workers behave while
\* failAllRemoteWorkers talks to them.
InterruptEndsRun == stop ~> Ended

\* A worker of the test that fails ends the test.
FailureEndsTest ==
    \A c \in Conns : (cpc = "testing" /\ c \in started /\ rerr[c]) ~> cpc # "testing"

\* No worker outlives the coordinator.
NoOrphans == ~Alive ~> \A c \in Conns : wpc[c] \in {"done", "crashed"}

\* Once every worker of the test has completed successfully, the test ends.
CompletionEndsTest ==
    (cpc = "testing" /\ \A c \in started : wres[c] = "ok") ~> cpc # "testing"

=============================================================================
