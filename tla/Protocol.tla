------------------------------ MODULE Protocol ------------------------------
(***************************************************************************)
(* State shared by the parties of a coordinated load test: the             *)
(* coordinator process (its Run goroutine, its interrupt trap, its web     *)
(* server and one remoteWorker goroutine per connection), the worker       *)
(* processes, and the WebSocket connections between them.                  *)
(*                                                                         *)
(* A member of Conns is one connection attempt: one Worker process, the    *)
(* connection it dials and the remoteWorker that serves that connection.   *)
(* Transaction bytes are treated exactly like transaction counts by the    *)
(* code, so only the counts are kept.                                      *)
(***************************************************************************)
EXTENDS Integers, Sequences, FiniteSets

CONSTANTS
    Conns,          \* connection attempts, one Worker process each
    NoConn,         \* "no remote worker"
    Ids,            \* worker IDs in use
    IdOf,           \* the ID each worker process was given
    NoId,           \* the empty ID of a remoteWorker that has read none yet
    ExpectWorkers,  \* CoordinatorConfig.ExpectWorkers
    ExpectPeers,    \* Config.ExpectPeers
    MaxTx,          \* bound: transactions one worker sends
    MaxInFlight,    \* bound: unread messages a worker has under way
    MaxFaults       \* bound: interrupts, failures, losses and lost timer races

ASSUME ConnsAssumption == IsFiniteSet(Conns) /\ NoConn \notin Conns
ASSUME IdsAssumption == IdOf \in [Conns -> Ids] /\ NoId \notin Ids
ASSUME ConfigAssumption ==
    /\ ExpectWorkers \in Nat \ {0}
    /\ ExpectPeers \in Nat
ASSUME BoundsAssumption ==
    MaxTx \in Nat /\ MaxInFlight \in Nat \ {0} /\ MaxFaults \in Nat

VARIABLES
    \* Coordinator: the goroutine executing Run
    cpc,                \* where Run is
    result,             \* what Run returns: "none" so far, "ok" or "err"
    workers,            \* c.workers: ID -> remote worker (NoConn: no entry)
    pending,            \* IDs the loop over c.workers has still to visit
    target,             \* the remote worker a control message was sent to
    ctrlResp,           \* the resp channel of that control message
    completed,          \* workers that completed
    totalTxsPerWorker,  \* the last count each worker reported
    stats,              \* the aggregate statistics written at the end
    stateMetric,        \* gauge tmloadtest_coordinator_state
    underway,           \* gauge tmloadtest_coordinator_test_underway # -1
    started,            \* history: the workers the load test was started with
    counted,            \* history: workers whose completion was counted
    \* Coordinator: trap goroutine, web server and channels
    trap,               \* the goroutine of trapInterrupts
    stop,               \* c.stop is closed (and c.cancelled set)
    svr,                \* web server: "off", "up" or "down" (svrStopped closed)
    workerRegister, workerUnregister, workerUpdate,
    \* remoteWorker: the goroutine executing eventLoop
    rpc,                \* where eventLoop is
    rid,                \* rw.id
    rerr,               \* the error eventLoop ends with, if any
    rmsg,               \* the message read and not yet passed on
    regResp,            \* the resp channel of the registration request
    stateCtrl,          \* rw.stateCtrl
    rwStop,             \* rw.stop is closed
    rwState,            \* gauge tmloadtest_worker_<id>_state
    metrics,            \* IDs whose gauges exist in the Prometheus registry
    \* Worker: the goroutine executing Run, and its progress reporter
    wpc,                \* where Run is
    wres,               \* what Run returns
    wstop,              \* w.stop is closed
    tx,                 \* transactions sent by the transactor group
    rep,                \* the progress reporter: "idle" or "writing"
    snap,               \* the total the reporter read at its tick
    tgErr,              \* some transactor stopped with an error
    \* The connections
    up, down,           \* messages to the coordinator, to the worker
    open,               \* the connection is usable
    faults              \* faults spent so far

ctrlVars == <<pending, target, ctrlResp>>
tallyVars == <<completed, totalTxsPerWorker, stats, counted>>
gaugeVars == <<stateMetric, underway>>
signalVars == <<trap, stop, svr>>
chanVars == <<workerRegister, workerUnregister, workerUpdate>>
loopVars == <<rpc, rid, rerr, rmsg>>
inboxVars == <<regResp, stateCtrl, rwStop>>
rwGaugeVars == <<rwState, metrics>>
workerVars == <<wpc, wres, wstop, tx, rep, snap, tgErr>>
netVars == <<up, down, open>>

coordVars == <<cpc, result, workers, started, ctrlVars, tallyVars, gaugeVars,
               signalVars, chanVars>>
rwVars == <<loopVars, inboxVars, rwGaugeVars>>
vars == <<coordVars, rwVars, workerVars, netVars, faults>>

-----------------------------------------------------------------------------
(* What travels on a connection. The worker's first message carries only   *)
(* its ID ("hello"); "close" is the WebSocket close frame.                 *)

UpStates == {"hello", "testing", "completed", "failed", "close"}
Up(state, n) == [state |-> state, tx |-> n]
UpMsgs == [state : UpStates, tx : Nat]
DownMsgs == {"accepted", "rejected", "testing", "failed"}
Updates == [conn : Conns, state : UpStates, tx : Nat]
Unregistrations == [id : Ids \cup {NoId}, err : BOOLEAN]

NoMsg == Up("hello", 0)

\* The entries of c.workers.
Registered == {i \in Ids : workers[i] # NoConn}

\* Mutation: one slot too many.
RoomOffByOne(chan) == Len(chan) <= ExpectWorkers

\* NewCoordinator makes its channels with room for ExpectWorkers entries.
Room(chan) == Len(chan) < ExpectWorkers

\* The coordinator's process exists: its goroutines can take steps.
Alive == cpc \notin {"exited", "crashed"}

\* One unit of the fault budget.
Fault == faults < MaxFaults /\ faults' = faults + 1

\* handleWrite on the worker's side. On an open connection the message is
\* queued; on a dead one it is lost, and the write may or may not say so. A
\* write that times out on an open connection may still be delivered.
WriteUp(c, m, ok) ==
    \/ /\ open[c] /\ ok
       /\ up' = [up EXCEPT ![c] = Append(@, m)]
       /\ UNCHANGED faults
    \/ /\ ~open[c]
       /\ UNCHANGED <<up, faults>>
    \/ /\ open[c] /\ ~ok /\ Fault
       /\ up' \in {up, [up EXCEPT ![c] = Append(@, m)]}

\* handleWrite on the coordinator's side.
WriteDown(c, m, ok) ==
    \/ /\ open[c] /\ ok
       /\ down' = [down EXCEPT ![c] = Append(@, m)]
       /\ UNCHANGED faults
    \/ /\ ~open[c]
       /\ UNCHANGED <<down, faults>>
    \/ /\ open[c] /\ ~ok /\ Fault
       /\ down' \in {down, [down EXCEPT ![c] = Append(@, m)]}

\* A write whose result the code discards.
TellWorker(c, m) ==
    down' = IF open[c] THEN [down EXCEPT ![c] = Append(@, m)] ELSE down

\* The coordinator's process is gone: its channels and goroutines with it,
\* and the system closes its connections.
ProcessGone ==
    /\ workerRegister' = <<>> /\ workerUnregister' = <<>> /\ workerUpdate' = <<>>
    /\ rpc' = [c \in Conns |-> "done"]
    /\ rmsg' = [c \in Conns |-> NoMsg]
    /\ regResp' = [c \in Conns |-> "none"]
    /\ stateCtrl' = [c \in Conns |-> <<>>]
    /\ up' = [c \in Conns |-> <<>>]
    /\ open' = [c \in Conns |-> FALSE]

=============================================================================
