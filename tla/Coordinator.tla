---------------------------- MODULE Coordinator -----------------------------
(***************************************************************************)
(* The coordinator's own goroutines (pkg/loadtest/coordinator.go): Run,    *)
(* the interrupt trap and the web server. Each case of a select statement  *)
(* is an action; a handler that returns continues in the state cpc names.  *)
(***************************************************************************)
EXTENDS Protocol

\* Leaving waitForWorkers or receiveTestingUpdates with an error: Run calls
\* failAllRemoteWorkers over what is then in c.workers. The load test is no
\* longer under way (receiveTestingUpdates' deferred Set(-1)).
ReturnErr(registered) ==
    /\ cpc' = "fail"
    /\ result' = "err"
    /\ pending' = registered
    /\ underway' = FALSE

WaitForPeers ==
    /\ cpc = "init" /\ ExpectPeers > 0
    /\ cpc' = "peers"
    /\ stateMetric' = "waitingForPeers"
    /\ UNCHANGED <<result, workers, started, ctrlVars, tallyVars, underway,
                   signalVars, chanVars, rwVars, workerVars, netVars, faults>>

\* waitForNetworkPeers failed: Run returns before anything was set up.
PeersFailed ==
    /\ cpc = "peers" /\ Fault
    /\ cpc' = "returned"
    /\ result' = "err"
    /\ stateMetric' = "failed"
    /\ UNCHANGED <<workers, started, ctrlVars, tallyVars, underway,
                   signalVars, chanVars, rwVars, workerVars, netVars>>

\* Run's set-up and the entry of waitForWorkers.
Listen ==
    /\ cpc = IF ExpectPeers > 0 THEN "peers" ELSE "init"
    /\ cpc' = "wait"
    /\ trap' = "armed"
    /\ svr' = "up"
    /\ stateMetric' = "waitingForWorkers"
    /\ UNCHANGED <<result, workers, started, ctrlVars, tallyVars, underway,
                   stop, chanVars, rwVars, workerVars, netVars, faults>>

-----------------------------------------------------------------------------
(* waitForWorkers *)

\* registerRemoteWorker's two refusals.
Refused(c) ==
    \/ Cardinality(Registered) >= ExpectWorkers
    \/ workers[IdOf[c]] # NoConn

\* Mutation: one worker too few.
AllRegisteredOffByOne(registered) == Cardinality(registered) >= ExpectWorkers - 1

\* The test that ends the wait and leads into startLoadTest.
AllRegistered(registered) == Cardinality(registered) >= ExpectWorkers

HandleRegister ==
    /\ cpc = "wait" /\ workerRegister # <<>>
    /\ LET c == Head(workerRegister)
           refused == Refused(c)
           registered == IF refused THEN Registered
                                    ELSE Registered \cup {IdOf[c]}
       IN /\ regResp' = [regResp EXCEPT ![c] = IF refused THEN "err" ELSE "ok"]
          /\ workers' = IF refused THEN workers
                                   ELSE [workers EXCEPT ![IdOf[c]] = c]
          /\ totalTxsPerWorker' =
                IF refused THEN totalTxsPerWorker
                           ELSE [totalTxsPerWorker EXCEPT ![IdOf[c]] = 0]
          /\ IF AllRegistered(registered)
             THEN /\ cpc' = "start"
                  /\ pending' = registered
                  /\ started' = {workers'[i] : i \in registered}
             ELSE UNCHANGED <<cpc, pending, started>>
    /\ workerRegister' = Tail(workerRegister)
    /\ UNCHANGED <<result, target, ctrlResp, completed, stats, counted,
                   gaugeVars, signalVars, workerUnregister, workerUpdate, loopVars,
                   stateCtrl, rwStop, rwGaugeVars, workerVars, netVars, faults>>

\* unregisterRemoteWorker: deleting an ID that has no entry does nothing.
Unregistered(id) == [i \in Ids |-> IF i = id THEN NoConn ELSE workers[i]]

HandleUnregisterWaiting ==
    /\ cpc = "wait" /\ workerUnregister # <<>>
    /\ workers' = Unregistered(Head(workerUnregister).id)
    /\ workerUnregister' = Tail(workerUnregister)
    /\ UNCHANGED <<cpc, result, started, ctrlVars, tallyVars, gaugeVars, signalVars,
                   workerRegister, workerUpdate, rwVars, workerVars, netVars, faults>>

\* No connection is left that could still register.
NobodyComing ==
    /\ workerRegister = <<>> /\ workerUnregister = <<>>
    /\ \A c \in Conns : \/ rpc[c] = "none" /\ wpc[c] = "done"
                        \/ rpc[c] \in {"metrics", "waitForStart", "done"}

\* Mutation: the timeout is noticed and the wait goes on.
ConnectTimeoutIgnored == cpc = "wait" /\ NobodyComing /\ UNCHANGED vars

\* WorkerConnectTimeout passes: for good, or in a race with a registration.
ConnectTimeout ==
    /\ cpc = "wait"
    /\ (NobodyComing /\ UNCHANGED faults) \/ Fault
    /\ ReturnErr(Registered)
    /\ UNCHANGED <<workers, started, target, ctrlResp, tallyVars, stateMetric,
                   signalVars, chanVars, rwVars, workerVars, netVars>>

\* Mutation: receiveTestingUpdates does not listen to c.stop.
StopMissedInTest ==
    /\ cpc \in {"wait", "testing"}
    /\ (stop /\ cpc = "wait") \/ svr = "down"
    /\ ReturnErr(Registered)
    /\ UNCHANGED <<workers, started, target, ctrlResp, tallyVars, stateMetric,
                   signalVars, chanVars, rwVars, workerVars, netVars, faults>>

\* `case <-c.stop` and `case <-c.svrStopped` of both select loops.
StopOrServerNoticed ==
    /\ cpc \in {"wait", "testing"}
    /\ stop \/ svr = "down"
    /\ ReturnErr(Registered)
    /\ UNCHANGED <<workers, started, target, ctrlResp, tallyVars, stateMetric,
                   signalVars, chanVars, rwVars, workerVars, netVars, faults>>

-----------------------------------------------------------------------------
(* startLoadTest and failAllRemoteWorkers: sendCtrlMsg to one remote worker *)
(* after the other, in any order of the map. Fail's early return for a      *)
(* worker already in state failed is never taken: no other call sets it.    *)

\* Mutation: the loop does not move on to the next remote worker.
SendCtrlAgain(id, m) ==
    /\ target' = workers[id]
    /\ stateCtrl' = [stateCtrl EXCEPT ![workers[id]] = Append(@, m)]
    /\ ctrlResp' = "none"
    /\ UNCHANGED pending

SendCtrl(id, m) ==
    /\ target' = workers[id]
    /\ stateCtrl' = [stateCtrl EXCEPT ![workers[id]] = Append(@, m)]
    /\ ctrlResp' = "none"
    /\ pending' = pending \ {id}

StartNext(id) ==
    /\ cpc = "start" /\ id \in pending
    /\ SendCtrl(id, "testing")
    /\ cpc' = "startWait"
    /\ UNCHANGED <<result, workers, started, tallyVars, gaugeVars, signalVars,
                   chanVars, loopVars, regResp, rwStop, rwGaugeVars,
                   workerVars, netVars, faults>>

\* The last acknowledgement takes Run into receiveTestingUpdates.
StartAcked ==
    /\ cpc = "startWait" /\ ctrlResp = "ok"
    /\ rwState' = [rwState EXCEPT ![target] = "testing"]
    /\ IF pending = {}
       THEN /\ cpc' = "testing"
            /\ stateMetric' = "testing"
            /\ underway' = TRUE
       ELSE /\ cpc' = "start"
            /\ UNCHANGED gaugeVars
    /\ UNCHANGED <<result, workers, started, ctrlVars, tallyVars, signalVars,
                   chanVars, loopVars, inboxVars, metrics, workerVars, netVars, faults>>

\* The ten seconds pass without an answer: for good when the remote worker
\* has left its loops or is stuck in ReceiveWorkerUpdate, otherwise a race.
CtrlTimeout ==
    /\ ctrlResp = "none"
    /\ \/ /\ \/ rpc[target] \in {"unregister", "done"}
             \/ rpc[target] = "forward" /\ ~Room(workerUpdate)
          /\ UNCHANGED faults
       \/ Fault

StartFailed ==
    /\ cpc = "startWait"
    /\ (ctrlResp = "err" /\ UNCHANGED faults) \/ CtrlTimeout
    /\ ReturnErr(Registered)
    /\ UNCHANGED <<workers, started, target, ctrlResp, tallyVars, stateMetric,
                   signalVars, chanVars, rwVars, workerVars, netVars>>

FailNext(id) ==
    /\ cpc = "fail" /\ id \in pending
    /\ SendCtrl(id, "failed")
    /\ cpc' = "failWait"
    /\ UNCHANGED <<result, workers, started, tallyVars, gaugeVars, signalVars,
                   chanVars, loopVars, regResp, rwStop, rwGaugeVars,
                   workerVars, netVars, faults>>

FailAnswered ==
    /\ cpc = "failWait"
    /\ (ctrlResp # "none" /\ UNCHANGED faults) \/ CtrlTimeout
    /\ rwState' = IF ctrlResp = "ok"
                  THEN [rwState EXCEPT ![target] = "failed"] ELSE rwState
    /\ cpc' = "fail"
    /\ UNCHANGED <<result, workers, started, ctrlVars, tallyVars, gaugeVars,
                   signalVars, chanVars, loopVars, inboxVars, metrics,
                   workerVars, netVars>>

\* Mutation: the error path leaves the gauge alone.
SetNothing ==
    /\ cpc = "fail" /\ pending = {}
    /\ cpc' = "closeTrap"
    /\ UNCHANGED <<result, workers, started, ctrlVars, tallyVars, gaugeVars,
                   signalVars, chanVars, rwVars, workerVars, netVars, faults>>

\* The rest of Run's error path.
SetFailed ==
    /\ cpc = "fail" /\ pending = {}
    /\ cpc' = "closeTrap"
    /\ stateMetric' = "failed"
    /\ UNCHANGED <<result, workers, started, ctrlVars, tallyVars, underway,
                   signalVars, chanVars, rwVars, workerVars, netVars, faults>>

-----------------------------------------------------------------------------
(* receiveTestingUpdates *)

\* The lookup that decides whether an update is ignored.
Known(msg) == workers[IdOf[msg.conn]] # NoConn

\* Mutation: the totals a worker reports are taken for increments.
TalliedAsIncrement(msg) ==
    [totalTxsPerWorker EXCEPT ![IdOf[msg.conn]] = @ + msg.tx]

\* Mutation: the count that comes with a completion is not taken.
TalliedInProgress(msg) ==
    IF msg.state = "testing"
    THEN [totalTxsPerWorker EXCEPT ![IdOf[msg.conn]] = msg.tx]
    ELSE totalTxsPerWorker

\* The counts after an update: a zero never overwrites.
Tallied(msg) ==
    IF msg.tx > 0
    THEN [totalTxsPerWorker EXCEPT ![IdOf[msg.conn]] = msg.tx]
    ELSE totalTxsPerWorker

\* Mutation: one completion too few.
AllCompletedOffByOne(n) == n >= ExpectWorkers - 1

\* The test that ends the load test.
AllCompleted(n) == n >= ExpectWorkers

\* An update of state failed never arrives: the remote worker ends with an
\* error instead of passing it on. The completion that ends the test also
\* writes the aggregate statistics (logTestingProgress) and runs the deferred
\* testUnderwayMetric.Set(-1).
HandleUpdate ==
    /\ cpc = "testing" /\ workerUpdate # <<>>
    /\ workerUpdate' = Tail(workerUpdate)
    /\ LET msg == Head(workerUpdate)
           done == msg.state = "completed"
       IN IF Known(msg)
          THEN /\ totalTxsPerWorker' = Tallied(msg)
               /\ completed' = IF done THEN completed + 1 ELSE completed
               /\ counted' = IF done THEN counted \cup {msg.conn} ELSE counted
               /\ IF done /\ AllCompleted(completed')
                  THEN /\ stats' = totalTxsPerWorker'
                       /\ underway' = FALSE
                       /\ cpc' = "complete"
                  ELSE UNCHANGED <<stats, underway, cpc>>
          ELSE UNCHANGED <<tallyVars, underway, cpc>>
    /\ UNCHANGED <<result, workers, started, ctrlVars, stateMetric, signalVars,
                   workerRegister, workerUnregister, rwVars, workerVars,
                   netVars, faults>>

HandleUnregisterTesting ==
    /\ cpc = "testing" /\ workerUnregister # <<>>
    /\ LET req == Head(workerUnregister)
       IN /\ workers' = Unregistered(req.id)
          /\ IF req.err THEN ReturnErr(Registered \ {req.id})
                        ELSE UNCHANGED <<cpc, result, pending, underway>>
    /\ workerUnregister' = Tail(workerUnregister)
    /\ UNCHANGED <<started, target, ctrlResp, tallyVars, stateMetric, signalVars,
                   workerRegister, workerUpdate, rwVars, workerVars,
                   netVars, faults>>

\* progressTicker: logTestingProgress publishes gauges and nothing else.
LogTestingProgress == cpc = "testing" /\ UNCHANGED vars

\* Run after receiveTestingUpdates returned nil.
Complete ==
    /\ cpc = "complete"
    /\ cpc' = "closeTrap"
    /\ result' = "ok"
    /\ stateMetric' = "completed"
    /\ UNCHANGED <<workers, started, ctrlVars, tallyVars, underway, signalVars,
                   chanVars, rwVars, workerVars, netVars, faults>>

-----------------------------------------------------------------------------
(* The deferred calls: close(cancelTrap), then gracefulShutdown.            *)

\* The trap is told to end (unless it has caught a signal) and every remote
\* worker that still has an entry is told to stop.
StopRemoteWorkers ==
    /\ cpc = "closeTrap"
    /\ cpc' = "server"
    /\ trap' = IF trap = "armed" THEN "disarmed" ELSE trap
    /\ rwStop' = [c \in Conns |-> rwStop[c] \/ \E i \in Ids : workers[i] = c]
    /\ UNCHANGED <<result, workers, started, ctrlVars, tallyVars, gaugeVars,
                   stop, svr, chanVars, loopVars, regResp, stateCtrl,
                   rwGaugeVars, workerVars, netVars, faults>>

\* svr.Shutdown does not wait for hijacked connections.
ShutdownServer ==
    /\ cpc = "server"
    /\ cpc' = "returned"
    /\ svr' = "down"
    /\ UNCHANGED <<result, workers, started, ctrlVars, tallyVars, gaugeVars,
                   trap, stop, chanVars, rwVars, workerVars, netVars, faults>>

\* The process ends once Run has returned.
Exit ==
    /\ cpc = "returned"
    /\ cpc' = "exited"
    /\ ProcessGone
    /\ UNCHANGED <<result, workers, started, ctrlVars, tallyVars, gaugeVars,
                   signalVars, rid, rerr, rwStop, rwGaugeVars, workerVars,
                   down, faults>>

-----------------------------------------------------------------------------
(* The trap goroutine and what happens to the process from outside.         *)

\* The signal is caught: setCancelled and close(c.stop).
Interrupt ==
    /\ Alive /\ trap = "armed" /\ Fault
    /\ trap' = "caught"
    /\ stop' = TRUE
    /\ UNCHANGED <<cpc, result, workers, started, ctrlVars, tallyVars, gaugeVars,
                   svr, chanVars, rwVars, workerVars, netVars>>

\* The handler's last statement runs concurrently with Run, to its end and
\* past close(cancelTrap).
TrapSetsMetric ==
    /\ Alive /\ trap = "caught"
    /\ trap' = "fired"
    /\ stateMetric' = "failed"
    /\ UNCHANGED <<cpc, result, workers, started, ctrlVars, tallyVars, underway,
                   stop, svr, chanVars, rwVars, workerVars, netVars, faults>>

\* ListenAndServe fails (the address is taken, the listener dies).
ServerFails ==
    /\ Alive /\ svr = "up" /\ Fault
    /\ svr' = "down"
    /\ UNCHANGED <<cpc, result, workers, started, ctrlVars, tallyVars, gaugeVars,
                   trap, stop, chanVars, rwVars, workerVars, netVars>>

CoordinatorStep ==
    \/ WaitForPeers \/ Listen \/ HandleRegister \/ HandleUnregisterWaiting
    \/ ConnectTimeout \/ StopOrServerNoticed
    \/ \E id \in Ids : StartNext(id) \/ FailNext(id)
    \/ StartAcked \/ StartFailed \/ FailAnswered \/ SetFailed
    \/ HandleUpdate \/ HandleUnregisterTesting \/ LogTestingProgress
    \/ Complete \/ StopRemoteWorkers \/ ShutdownServer \/ Exit
    \/ TrapSetsMetric

CoordinatorFault == PeersFailed \/ Interrupt \/ ServerFails

=============================================================================
