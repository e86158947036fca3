------------------------------- MODULE Worker -------------------------------
(***************************************************************************)
(* A worker process (pkg/loadtest/worker.go): the goroutine of Run, the    *)
(* progress reporter of its transactor group and the interrupt trap. The   *)
(* transactor group is reduced to what the worker sees of it: a total that *)
(* grows, an error, and the moment all transactors have returned.          *)
(***************************************************************************)
EXTENDS Protocol

Goto(c, where) == wpc' = [wpc EXCEPT ![c] = where]

\* Run returns after its last messages: the deferred w.close() flushes, writes
\* a close frame and waits for the remote end to close.
WorkerReturns(c, res, msgs) ==
    /\ Goto(c, "closing")
    /\ wres' = [wres EXCEPT ![c] = res]
    /\ up' = IF open[c] THEN [up EXCEPT ![c] = (@ \o msgs) \o <<Up("close", 0)>>]
                        ELSE up

\* w.fail(...) and an error return.
Fails(c) == WorkerReturns(c, "err", <<Up("failed", 0)>>)

\* The first of the messages msgs cannot be written and Run returns. When
\* only the write's timer ran out they may all the same be delivered.
WriteLost(c, msgs) ==
    \/ ~open[c] /\ UNCHANGED faults /\ WorkerReturns(c, "err", <<>>)
    \/ /\ open[c] /\ Fault
       /\ \E n \in 0..Len(msgs) : WorkerReturns(c, "err", SubSeq(msgs, 1, n))

-----------------------------------------------------------------------------
(* connectToCoordinator and register *)

\* A successful dial also starts the remoteWorker that serves the connection.
Dial(c) ==
    /\ wpc[c] = "dial" /\ svr = "up" /\ Alive
    /\ open' = [open EXCEPT ![c] = TRUE]
    /\ rpc' = [rpc EXCEPT ![c] = "readID"]
    /\ Goto(c, "hello")
    /\ UNCHANGED <<coordVars, rid, rerr, rmsg, inboxVars, rwGaugeVars,
                   wres, wstop, tx, rep, snap, tgErr, up, down, faults>>

\* Nobody listens, and the worker is interrupted or its time is up: for good
\* once the server is gone, otherwise a race with the coordinator's start.
DialGivesUp(c) ==
    /\ wpc[c] = "dial" /\ (svr # "up" \/ ~Alive)
    /\ \/ (wstop[c] \/ svr = "down" \/ ~Alive \/ cpc = "returned") /\ UNCHANGED faults
       \/ Fault
    /\ Goto(c, "done")
    /\ wres' = [wres EXCEPT ![c] = "err"]
    /\ UNCHANGED <<coordVars, rwVars, wstop, tx, rep, snap, tgErr, netVars>>

SendID(c) ==
    /\ wpc[c] = "hello"
    /\ \/ /\ WriteUp(c, Up("hello", 0), TRUE)
          /\ Goto(c, "awaitAccept")
          /\ UNCHANGED wres
       \/ WriteLost(c, <<Up("hello", 0)>>)
    /\ UNCHANGED <<coordVars, rwVars, wstop, tx, rep, snap, tgErr, down, open>>

\* The answer is read. A configuration that does not validate here is
\* reported back; a cancelled worker just leaves.
ReadAccept(c) ==
    /\ wpc[c] = "awaitAccept" /\ down[c] # <<>>
    /\ down' = [down EXCEPT ![c] = Tail(@)]
    /\ \/ /\ Head(down[c]) = "accepted"
          /\ IF wstop[c] THEN WorkerReturns(c, "err", <<>>)
                         ELSE Goto(c, "waitForStart") /\ UNCHANGED <<wres, up>>
          /\ UNCHANGED faults
       \/ /\ Head(down[c]) = "accepted" /\ Fault
          /\ Fails(c)
       \/ /\ Head(down[c]) # "accepted"
          /\ WorkerReturns(c, "err", <<>>)
          /\ UNCHANGED faults
    /\ UNCHANGED <<coordVars, rwVars, wstop, tx, rep, snap, tgErr, open>>

\* Nobody will answer the remoteWorker's registration request any more.
RegistrationStuck(c) ==
    cpc # "wait" /\ rpc[c] \in {"register", "awaitReg"} /\ regResp[c] = "none"

\* No answer in three seconds, or a dead connection.
AcceptFails(c) ==
    /\ wpc[c] = "awaitAccept"
    /\ \/ (~open[c] \/ RegistrationStuck(c)) /\ UNCHANGED faults
       \/ down[c] = <<>> /\ Fault
    /\ WorkerReturns(c, "err", <<>>)
    /\ UNCHANGED <<coordVars, rwVars, wstop, tx, rep, snap, tgErr, down, open>>

-----------------------------------------------------------------------------
(* waitForStart *)

ReadStart(c) ==
    /\ wpc[c] = "waitForStart" /\ down[c] # <<>>
    /\ down' = [down EXCEPT ![c] = Tail(@)]
    /\ IF Head(down[c]) = "testing"
       THEN Goto(c, "connecting") /\ UNCHANGED <<wres, up>>
       ELSE Fails(c)
    /\ UNCHANGED <<coordVars, rwVars, wstop, tx, rep, snap, tgErr, open, faults>>

\* The poll returns an error: the connection is dead or a minute has passed.
PollFails(c) ==
    /\ wpc[c] = "waitForStart"
    /\ \/ ~open[c] /\ UNCHANGED faults
       \/ down[c] = <<>> /\ Fault
    /\ Goto(c, "pollFailed")
    /\ UNCHANGED <<coordVars, rwVars, wres, wstop, tx, rep, snap, tgErr, netVars>>

PollCancelled(c) ==
    /\ wpc[c] = "pollFailed" /\ wstop[c]
    /\ Fails(c)
    /\ UNCHANGED <<coordVars, rwVars, wstop, tx, rep, snap, tgErr, down, open, faults>>

\* Mutation: the library lets the failing read be repeated for ever.
PollRetries(c) ==
    /\ wpc[c] = "pollFailed" /\ ~wstop[c]
    /\ Goto(c, "waitForStart")
    /\ UNCHANGED <<coordVars, rwVars, wres, wstop, tx, rep, snap, tgErr, netVars, faults>>

\* Read errors of the WebSocket library are permanent, so the loop repeats
\* the failing read at once until the library panics at the thousandth.
PollPanics(c) ==
    /\ wpc[c] = "pollFailed" /\ ~wstop[c]
    /\ Goto(c, "crashed")
    /\ open' = [open EXCEPT ![c] = FALSE]
    /\ down' = [down EXCEPT ![c] = <<>>]
    /\ UNCHANGED <<coordVars, rwVars, wres, wstop, tx, rep, snap, tgErr, up, faults>>

-----------------------------------------------------------------------------
(* executeLoadTest *)

\* AddAll, Start and setInterrupt.
Connect(c) ==
    /\ wpc[c] = "connecting"
    /\ Goto(c, "testing")
    /\ UNCHANGED <<coordVars, rwVars, wres, wstop, tx, rep, snap, tgErr, netVars, faults>>

\* AddAll cannot reach an endpoint.
ConnectFails(c) ==
    /\ wpc[c] = "connecting" /\ Fault
    /\ Fails(c)
    /\ UNCHANGED <<coordVars, rwVars, wstop, tx, rep, snap, tgErr, down, open>>

SendTransactions(c) ==
    /\ wpc[c] = "testing" /\ tx[c] < MaxTx
    /\ tx' = [tx EXCEPT ![c] = @ + 1]
    /\ UNCHANGED <<coordVars, rwVars, wpc, wres, wstop, rep, snap, tgErr, netVars, faults>>

TransactorFails(c) ==
    /\ wpc[c] = "testing" /\ Fault
    /\ tgErr' = [tgErr EXCEPT ![c] = TRUE]
    /\ UNCHANGED <<coordVars, rwVars, wpc, wres, wstop, tx, rep, snap, netVars>>

\* tg.Wait: every transactor has returned; the reporter is still to be joined.
TransactorsDone(c) ==
    /\ wpc[c] = "testing"
    /\ Goto(c, "join")
    /\ UNCHANGED <<coordVars, rwVars, wres, wstop, tx, rep, snap, tgErr, netVars, faults>>

\* The group's progressReporter reads the total ...
ReporterTick(c) ==
    /\ wpc[c] = "testing" /\ rep[c] = "idle"
    /\ Len(up[c]) < MaxInFlight
    /\ rep' = [rep EXCEPT ![c] = "writing"]
    /\ snap' = [snap EXCEPT ![c] = tx[c]]
    /\ UNCHANGED <<coordVars, rwVars, wpc, wres, wstop, tx, tgErr, netVars, faults>>

\* ... and calls reportProgress. Cancelling has no effect any more once all
\* transactors have returned.
ReportProgress(c) ==
    /\ rep[c] = "writing" /\ wpc[c] \in {"testing", "join"}
    /\ rep' = [rep EXCEPT ![c] = "idle"]
    /\ snap' = [snap EXCEPT ![c] = 0]
    /\ \E ok \in BOOLEAN :
          /\ WriteUp(c, Up("testing", snap[c]), ok)
          /\ tgErr' = [tgErr EXCEPT ![c] = @ \/ (~ok /\ wpc[c] = "testing")]
    /\ UNCHANGED <<coordVars, rwVars, wpc, wres, wstop, tx, down, open>>

\* The deferred `<-g.progressReporterStopped` of tg.Wait.
ReporterJoined(c) == rep[c] = "idle"

\* The final count of the group, trackTransactorProgress included.
FinalCount(c) == tx[c]

FailedTest(c) ==
    /\ wpc[c] = "join" /\ ReporterJoined(c) /\ tgErr[c]
    /\ Fails(c)
    /\ UNCHANGED <<coordVars, rwVars, wstop, tx, rep, snap, tgErr, down, open, faults>>

ReportFinalResults(c) ==
    /\ wpc[c] = "join" /\ ReporterJoined(c) /\ ~tgErr[c]
    /\ \/ WorkerReturns(c, "ok", <<Up("completed", FinalCount(c))>>) /\ UNCHANGED faults
       \/ WriteLost(c, <<Up("completed", FinalCount(c)), Up("failed", 0)>>)
    /\ UNCHANGED <<coordVars, rwVars, wstop, tx, rep, snap, tgErr, down, open>>

-----------------------------------------------------------------------------
\* close()'s last read returns: the connection is closed, a message is still unread, or
\* a minute has passed (a race while the remoteWorker is still reading).
CloseDone(c) ==
    /\ wpc[c] = "closing"
    /\ \/ /\ ~open[c] \/ down[c] # <<>> \/ rpc[c] \notin {"testing", "forward"}
          /\ UNCHANGED faults
       \/ Fault
    /\ open' = [open EXCEPT ![c] = FALSE]
    /\ down' = [down EXCEPT ![c] = <<>>]
    /\ Goto(c, "done")
    /\ UNCHANGED <<coordVars, rwVars, wres, wstop, tx, rep, snap, tgErr, up>>

\* The worker is interrupted: cancel triggers the interrupts set so far (the
\* transactor group's, while it is running) and closes w.stop.
InterruptWorker(c) ==
    /\ wpc[c] \notin {"closing", "done", "crashed"}
    /\ ~wstop[c] /\ Fault
    /\ wstop' = [wstop EXCEPT ![c] = TRUE]
    /\ tgErr' = [tgErr EXCEPT ![c] = @ \/ wpc[c] = "testing"]
    /\ UNCHANGED <<coordVars, rwVars, wpc, wres, tx, rep, snap, netVars>>

\* The network drops the connection.
ConnectionLost(c) ==
    /\ open[c] /\ Fault
    /\ open' = [open EXCEPT ![c] = FALSE]
    /\ UNCHANGED <<coordVars, rwVars, workerVars, up, down>>

WorkerStep(c) ==
    \/ Dial(c) \/ DialGivesUp(c) \/ SendID(c) \/ ReadAccept(c) \/ AcceptFails(c)
    \/ ReadStart(c) \/ PollFails(c) \/ PollCancelled(c) \/ PollPanics(c)
    \/ Connect(c) \/ SendTransactions(c) \/ TransactorsDone(c)
    \/ ReporterTick(c) \/ ReportProgress(c)
    \/ FailedTest(c) \/ ReportFinalResults(c) \/ CloseDone(c)

WorkerFault(c) ==
    ConnectFails(c) \/ TransactorFails(c) \/ InterruptWorker(c) \/ ConnectionLost(c)

=============================================================================
