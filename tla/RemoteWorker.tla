---------------------------- MODULE RemoteWorker ----------------------------
(***************************************************************************)
(* The coordinator's end of one connection                                 *)
(* (pkg/loadtest/remote_worker.go): the eventLoop goroutine of the         *)
(* remoteWorker that newWebSocketHandler creates for every connection.     *)
(* These goroutines live in the coordinator's process and end with it.     *)
(***************************************************************************)
EXTENDS Protocol

\* eventLoop returns: its deferred function stops the socket, after which the
\* handler closes the connection; what is still queued for this remote worker
\* is never read. It then has to unregister.
Return(c, failed) ==
    /\ rpc' = [rpc EXCEPT ![c] = "unregister"]
    /\ rerr' = [rerr EXCEPT ![c] = failed]
    /\ open' = [open EXCEPT ![c] = FALSE]
    /\ up' = [up EXCEPT ![c] = <<>>]

\* readID got the worker's first message.
ReadID(c) ==
    /\ Alive /\ rpc[c] = "readID" /\ up[c] # <<>>
    /\ Head(up[c]).state = "hello"
    /\ up' = [up EXCEPT ![c] = Tail(@)]
    /\ rid' = [rid EXCEPT ![c] = IdOf[c]]
    /\ rpc' = [rpc EXCEPT ![c] = "register"]
    /\ UNCHANGED <<coordVars, rerr, rmsg, inboxVars, rwGaugeVars, workerVars,
                   down, open, faults>>

\* readID got a close frame, a dead connection, or nothing for three seconds.
ReadIDFails(c) ==
    /\ Alive /\ rpc[c] = "readID"
    /\ \/ ~open[c] /\ UNCHANGED faults
       \/ up[c] # <<>> /\ Head(up[c]).state # "hello" /\ UNCHANGED faults
       \/ up[c] = <<>> /\ Fault
    /\ TellWorker(c, "failed")
    /\ Return(c, TRUE)
    /\ UNCHANGED <<coordVars, rid, rmsg, inboxVars, rwGaugeVars, workerVars>>

\* RegisterRemoteWorker: the request waits for room in the channel ...
SendRegister(c) ==
    /\ Alive /\ rpc[c] = "register"
    /\ Room(workerRegister)
    /\ workerRegister' = Append(workerRegister, c)
    /\ rpc' = [rpc EXCEPT ![c] = "awaitReg"]
    /\ UNCHANGED <<cpc, result, workers, started, ctrlVars, tallyVars, gaugeVars,
                   signalVars, workerUnregister, workerUpdate, rid, rerr, rmsg,
                   inboxVars, rwGaugeVars, workerVars, netVars, faults>>

\* The write of "accepted" fails, and eventLoop's "rejected" after it: each
\* may reach the worker when only the write's timer ran out.
AcceptanceLost(c) ==
    \/ ~open[c] /\ UNCHANGED <<down, faults>>
    \/ /\ open[c] /\ Fault
       /\ \E s \in {<<>>, <<"accepted">>, <<"accepted", "rejected">>} :
             down' = [down EXCEPT ![c] = @ \o s]

\* ... and is granted: the worker gets its configuration.
RegisterAccepted(c) ==
    /\ Alive /\ rpc[c] = "awaitReg" /\ regResp[c] = "ok"
    /\ \/ /\ WriteDown(c, "accepted", TRUE)
          /\ rpc' = [rpc EXCEPT ![c] = "metrics"]
          /\ UNCHANGED <<rerr, up, open>>
       \/ AcceptanceLost(c) /\ Return(c, TRUE)
    /\ regResp' = [regResp EXCEPT ![c] = "none"]
    /\ UNCHANGED <<coordVars, rid, rmsg, stateCtrl, rwStop, rwGaugeVars, workerVars>>

\* ... or refused.
RegisterRejected(c) ==
    /\ Alive /\ rpc[c] = "awaitReg" /\ regResp[c] = "err"
    /\ TellWorker(c, "rejected")
    /\ Return(c, TRUE)
    /\ regResp' = [regResp EXCEPT ![c] = "none"]
    /\ UNCHANGED <<coordVars, rid, rmsg, stateCtrl, rwStop, rwGaugeVars, workerVars,
                   faults>>

\* ... or not answered for ten seconds: for good once waitForWorkers has
\* returned, otherwise a race that leaves the request in the channel.
RegisterTimeout(c) ==
    /\ Alive /\ rpc[c] = "awaitReg" /\ regResp[c] = "none"
    /\ (cpc # "wait" /\ UNCHANGED faults) \/ Fault
    /\ TellWorker(c, "rejected")
    /\ Return(c, TRUE)
    /\ UNCHANGED <<coordVars, rid, rmsg, inboxVars, rwGaugeVars, workerVars>>

\* createMetrics: promauto.NewGauge panics on a name that is already in the
\* registry, which takes the whole process down.
CreateMetrics(c) ==
    /\ Alive /\ rpc[c] = "metrics"
    /\ IF rid[c] \in metrics
       THEN /\ cpc' = "crashed"
            /\ ProcessGone
            /\ UNCHANGED rwGaugeVars
       ELSE /\ metrics' = metrics \cup {rid[c]}
            /\ rwState' = [rwState EXCEPT ![c] = "accepted"]
            /\ rpc' = [rpc EXCEPT ![c] = "waitForStart"]
            /\ UNCHANGED <<cpc, chanVars, rmsg, regResp, stateCtrl, up, open>>
    /\ UNCHANGED <<result, workers, started, ctrlVars, tallyVars, gaugeVars,
                   signalVars, rid, rerr, rwStop, workerVars, down, faults>>

-----------------------------------------------------------------------------
(* waitForStart and receiveTestingUpdates *)

\* msg.resp <- ...: heard only by a coordinator still waiting for it.
Answer(c, m, ok) ==
    ctrlResp' = IF target = c /\ cpc = (IF m = "testing" THEN "startWait" ELSE "failWait")
                THEN IF ok THEN "ok" ELSE "err"
                ELSE ctrlResp

\* The control message is passed to the worker and answered; whatever the
\* write's result, "testing" starts receiveTestingUpdates and "failed" ends
\* the loop (of waitForStart or of receiveTestingUpdates).
HandleCtrl(c) ==
    /\ Alive /\ stateCtrl[c] # <<>>
    /\ LET m == Head(stateCtrl[c])
       IN /\ rpc[c] = "waitForStart" \/ (rpc[c] = "testing" /\ m = "failed")
          /\ \E ok \in BOOLEAN : WriteDown(c, m, ok) /\ Answer(c, m, ok)
          /\ IF m = "testing"
             THEN rpc' = [rpc EXCEPT ![c] = "testing"] /\ UNCHANGED <<rerr, up, open>>
             ELSE Return(c, TRUE)
    /\ stateCtrl' = [stateCtrl EXCEPT ![c] = Tail(@)]
    /\ UNCHANGED <<cpc, result, workers, started, pending, target, tallyVars,
                   gaugeVars, signalVars, chanVars, rid, rmsg, regResp, rwStop,
                   rwGaugeVars, workerVars>>

\* `case <-rw.stop` of both loops.
StopNoticed(c) ==
    /\ Alive /\ rpc[c] \in {"waitForStart", "testing"} /\ rwStop[c]
    /\ Return(c, TRUE)
    /\ UNCHANGED <<coordVars, rid, rmsg, inboxVars, rwGaugeVars, workerVars,
                   down, faults>>

\* updateTicker: a progress or completion message was read.
ReadUpdate(c) ==
    /\ Alive /\ rpc[c] = "testing" /\ up[c] # <<>>
    /\ Head(up[c]).state \in {"testing", "completed"}
    /\ rmsg' = [rmsg EXCEPT ![c] = Head(up[c])]
    /\ up' = [up EXCEPT ![c] = Tail(@)]
    /\ rpc' = [rpc EXCEPT ![c] = "forward"]
    /\ UNCHANGED <<coordVars, rid, rerr, inboxVars, rwGaugeVars, workerVars,
                   down, open, faults>>

\* updateTicker: the worker reports failure or closes, the connection is
\* dead, or nothing arrives for three seconds.
ReadUpdateFails(c) ==
    /\ Alive /\ rpc[c] = "testing"
    /\ \/ ~open[c] /\ UNCHANGED faults
       \/ up[c] # <<>> /\ Head(up[c]).state \in {"failed", "close"} /\ UNCHANGED faults
       \/ up[c] = <<>> /\ Fault
    /\ Return(c, TRUE)
    /\ UNCHANGED <<coordVars, rid, rmsg, inboxVars, rwGaugeVars, workerVars, down>>

\* Mutation: every update is handed over by a goroutine of its own, and the
\* last one comes first.
ReceiveWorkerUpdateLate(c) ==
    <<[conn |-> c, state |-> rmsg[c].state, tx |-> rmsg[c].tx]>> \o workerUpdate

\* What the coordinator's channel holds after ReceiveWorkerUpdate.
ReceiveWorkerUpdate(c) ==
    Append(workerUpdate, [conn |-> c, state |-> rmsg[c].state, tx |-> rmsg[c].tx])

\* ReceiveWorkerUpdate blocks until the channel has room.
Forward(c) ==
    /\ Alive /\ rpc[c] = "forward"
    /\ Room(workerUpdate)
    /\ workerUpdate' = ReceiveWorkerUpdate(c)
    /\ rmsg' = [rmsg EXCEPT ![c] = NoMsg]
    /\ IF rmsg[c].state = "completed"
       THEN /\ rwState' = [rwState EXCEPT ![c] = "completed"]
            /\ Return(c, FALSE)
       ELSE /\ rpc' = [rpc EXCEPT ![c] = "testing"]
            /\ UNCHANGED <<rwState, rerr, up, open>>
    /\ UNCHANGED <<cpc, result, workers, started, ctrlVars, tallyVars, gaugeVars,
                   signalVars, workerRegister, workerUnregister, rid, inboxVars,
                   metrics, workerVars, down, faults>>

-----------------------------------------------------------------------------
(* The end of eventLoop's deferred function *)

\* Mutation: the error of eventLoop is not passed on.
UnregistrationSilent(c) == [id |-> rid[c], err |-> FALSE]

\* The entry UnregisterRemoteWorker sends: by ID, not by remote worker.
Unregistration(c) == [id |-> rid[c], err |-> rerr[c]]

Unregister(c) ==
    /\ Alive /\ rpc[c] = "unregister"
    /\ Room(workerUnregister)
    /\ workerUnregister' = Append(workerUnregister, Unregistration(c))
    /\ rpc' = [rpc EXCEPT ![c] = "done"]
    /\ UNCHANGED <<cpc, result, workers, started, ctrlVars, tallyVars, gaugeVars,
                   signalVars, workerRegister, workerUpdate, rid, rerr, rmsg,
                   inboxVars, rwGaugeVars, workerVars, netVars, faults>>

RemoteWorkerStep(c) ==
    \/ ReadID(c) \/ ReadIDFails(c) \/ SendRegister(c)
    \/ RegisterAccepted(c) \/ RegisterRejected(c) \/ RegisterTimeout(c)
    \/ CreateMetrics(c) \/ HandleCtrl(c) \/ StopNoticed(c)
    \/ ReadUpdate(c) \/ ReadUpdateFails(c) \/ Forward(c)
    \/ Unregister(c)

=============================================================================
