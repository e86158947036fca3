-------------------------- MODULE CoordinatorProofs --------------------------
(***************************************************************************)
(* Proofs about the coordinator's dealings with its remote workers and its *)
(* gauge: a control message always finds room in the channel it is sent    *)
(* to, and the state gauge tells how Run ended.                            *)
(***************************************************************************)
EXTENDS CoordinatedTestProofs

-----------------------------------------------------------------------------
(* Control messages *)

\* A remote worker the loop of startLoadTest or failAllRemoteWorkers has still
\* to visit.
Due(c) == IdOf[c] \in pending /\ workers[IdOf[c]] = c

\* Each of the two loops sends one message to a remote worker, so two messages
\* at most can be waiting in its channel.
CtrlInv ==
    \A c \in Conns :
        /\ cpc \in {"init", "peers", "wait"} => stateCtrl[c] = <<>>
        /\ cpc \in {"start", "startWait", "testing", "complete"} => Len(stateCtrl[c]) <= 1
        /\ cpc \in {"start", "startWait"} /\ Due(c) => stateCtrl[c] = <<>>
        /\ cpc \in {"fail", "failWait"} /\ Due(c) => Len(stateCtrl[c]) <= 1
        /\ Len(stateCtrl[c]) <= 2

\* Steps that send no control message; a loop is entered only from where the
\* channels are empty enough for it.
LEMMA NothingSent ==
    ASSUME TypeOK, CtrlInv,
           \A c \in Conns : \/ stateCtrl'[c] = stateCtrl[c]
                            \/ stateCtrl'[c] = <<>>
                            \/ stateCtrl[c] # <<>> /\ stateCtrl'[c] = Tail(stateCtrl[c]),
           cpc' \in {"init", "peers", "wait"} => cpc \in {"init", "peers", "wait"},
           cpc' \in {"start", "startWait"} =>
               \/ cpc = "wait"
               \/ cpc \in {"start", "startWait"} /\ UNCHANGED <<pending, workers>>,
           cpc' \in {"testing", "complete"} =>
               cpc \in {"start", "startWait", "testing", "complete"},
           cpc' \in {"fail", "failWait"} =>
               \/ cpc \in {"wait", "start", "startWait", "testing"}
               \/ cpc \in {"fail", "failWait"} /\ UNCHANGED <<pending, workers>>
    PROVE  CtrlInv'
  <1> SUFFICES ASSUME NEW c \in Conns
               PROVE  /\ cpc' \in {"init", "peers", "wait"} => stateCtrl'[c] = <<>>
                      /\ cpc' \in {"start", "startWait", "testing", "complete"}
                            => Len(stateCtrl'[c]) <= 1
                      /\ cpc' \in {"start", "startWait"} /\ Due(c)' => stateCtrl'[c] = <<>>
                      /\ cpc' \in {"fail", "failWait"} /\ Due(c)' => Len(stateCtrl'[c]) <= 1
                      /\ Len(stateCtrl'[c]) <= 2
    BY DEF CtrlInv
  <1>1. stateCtrl[c] \in Seq({"testing", "failed"}) /\ Len(stateCtrl[c]) \in Nat
    BY DEF TypeOK, InboxTypeOK
  <1>2. /\ Len(stateCtrl'[c]) <= Len(stateCtrl[c]) /\ Len(stateCtrl'[c]) \in Nat
        /\ stateCtrl[c] = <<>> => stateCtrl'[c] = <<>>
    <2>1. CASE stateCtrl'[c] = stateCtrl[c]
        BY <1>1, <2>1
    <2>2. CASE stateCtrl'[c] = <<>>
        <3>1. Len(stateCtrl'[c]) = 0
            BY <2>2
        <3> QED
            BY <1>1, <2>2, <3>1
    <2>3. CASE stateCtrl[c] # <<>> /\ stateCtrl'[c] = Tail(stateCtrl[c])
        <3>1. \A q \in Seq({"testing", "failed"}) :
                  q # <<>> => Len(Tail(q)) \in Nat /\ Len(Tail(q)) = Len(q) - 1
            OBVIOUS
        <3>2. Len(stateCtrl'[c]) \in Nat /\ Len(stateCtrl'[c]) = Len(stateCtrl[c]) - 1
            BY <1>1, <2>3, <3>1
        <3> QED
            BY <1>1, <2>3, <3>2
    <2> QED
        BY <2>1, <2>2, <2>3
  <1>3. /\ cpc \in {"init", "peers", "wait"} => stateCtrl[c] = <<>> /\ Len(stateCtrl[c]) = 0
        /\ cpc \in {"start", "startWait", "testing", "complete"} => Len(stateCtrl[c]) <= 1
        /\ cpc \in {"start", "startWait"} /\ Due(c) => stateCtrl[c] = <<>>
        /\ cpc \in {"fail", "failWait"} /\ Due(c) => Len(stateCtrl[c]) <= 1
        /\ Len(stateCtrl[c]) <= 2
    BY DEF CtrlInv
  <1>4. UNCHANGED <<pending, workers>> => Due(c)' = Due(c)
    BY DEF Due
  <1> QED
    BY <1>1, <1>2, <1>3, <1>4

\* sendCtrlMsg to the entry of an ID that is still due.
LEMMA OneSent ==
    ASSUME TypeOK, RegistryInv, CtrlInv, NEW i \in Ids, NEW m \in {"testing", "failed"},
           i \in pending, SendCtrl(i, m), UNCHANGED workers,
           \/ cpc = "start" /\ cpc' = "startWait"
           \/ cpc = "fail" /\ cpc' = "failWait"
    PROVE  CtrlInv'
  <1>1. /\ stateCtrl \in [Conns -> Seq({"testing", "failed"})]
        /\ stateCtrl' = [stateCtrl EXCEPT ![workers[i]] = Append(stateCtrl[workers[i]], m)]
        /\ pending' = pending \ {i} /\ workers[i] \in Conns \cup {NoConn}
    BY DEF SendCtrl, TypeOK, InboxTypeOK, RunTypeOK
  <1>2. ASSUME NEW c \in Conns
        PROVE  /\ cpc' = "startWait" => Len(stateCtrl'[c]) <= 1
               /\ cpc' = "startWait" /\ Due(c)' => stateCtrl'[c] = <<>>
               /\ cpc' = "failWait" /\ Due(c)' => Len(stateCtrl'[c]) <= 1
               /\ Len(stateCtrl'[c]) <= 2
    <2>1. /\ cpc = "start" => Len(stateCtrl[c]) <= 1
          /\ cpc = "start" /\ Due(c) => stateCtrl[c] = <<>>
          /\ cpc = "fail" /\ Due(c) => Len(stateCtrl[c]) <= 1
          /\ Len(stateCtrl[c]) <= 2
      BY DEF CtrlInv
    <2>2. CASE c # workers[i]
      <3>1. stateCtrl'[c] = stateCtrl[c] /\ (Due(c)' => Due(c))
        BY <1>1, <2>2 DEF Due
      <3> QED
        BY <2>1, <3>1
    <2>3. CASE c = workers[i]
      <3>1. IdOf[c] = i /\ Due(c) /\ ~Due(c)'
        BY <1>1, <2>3, ConnsAssumption DEF RegistryInv, Due
      <3>2. stateCtrl[c] \in Seq({"testing", "failed"}) /\ stateCtrl'[c] = Append(stateCtrl[c], m)
        BY <1>1, <2>3
      <3>3. Len(stateCtrl'[c]) = Len(stateCtrl[c]) + 1 /\ Len(stateCtrl[c]) \in Nat
        BY <3>2
      <3>4. stateCtrl[c] = <<>> => Len(stateCtrl[c]) = 0
        OBVIOUS
      <3> QED
        BY <2>1, <3>1, <3>3, <3>4
    <2> QED
      BY <2>2, <2>3
  <1> QED
    BY <1>2 DEF CtrlInv

\* Steps of the coordinator keep room in the control channels.
LEMMA CoordinatorCtrl ==
    ASSUME TypeOK, RegistryInv, CtrlInv, CoordinatorStep \/ CoordinatorFault
    PROVE  CtrlInv'
  <1> USE DEF ctrlVars, rwVars, inboxVars
  <1>1. CASE WaitForPeers \/ PeersFailed \/ Listen
    BY <1>1, NothingSent DEF WaitForPeers, PeersFailed, Listen
  <1>2. CASE HandleRegister
    BY <1>2, NothingSent DEF HandleRegister
  <1>3. CASE HandleUnregisterWaiting \/ HandleUnregisterTesting
    BY <1>3, NothingSent DEF HandleUnregisterWaiting, HandleUnregisterTesting, ReturnErr
  <1>4. CASE ConnectTimeout \/ StopOrServerNoticed \/ StartFailed
    BY <1>4, NothingSent DEF ConnectTimeout, StopOrServerNoticed, StartFailed, ReturnErr
  <1>5. ASSUME NEW i \in Ids, StartNext(i) PROVE CtrlInv'
    BY <1>5, OneSent DEF StartNext
  <1>6. ASSUME NEW i \in Ids, FailNext(i) PROVE CtrlInv'
    BY <1>6, OneSent DEF FailNext
  <1>7. CASE StartAcked \/ FailAnswered
    BY <1>7, NothingSent DEF StartAcked, FailAnswered
  <1>8. CASE HandleUpdate
    BY <1>8, NothingSent DEF HandleUpdate
  <1>9. CASE SetFailed \/ Complete \/ StopRemoteWorkers \/ ShutdownServer
    BY <1>9, NothingSent DEF SetFailed, Complete, StopRemoteWorkers, ShutdownServer
  <1>10. CASE Exit
    BY <1>10, NothingSent DEF Exit, ProcessGone
  <1>11. CASE TrapSetsMetric \/ Interrupt \/ ServerFails
    BY <1>11, NothingSent DEF TrapSetsMetric, Interrupt, ServerFails
  <1>12. CASE LogTestingProgress
    BY <1>12, NothingSent DEF LogTestingProgress, vars, coordVars
  <1> QED
    BY <1>1, <1>2, <1>3, <1>4, <1>5, <1>6, <1>7, <1>8, <1>9, <1>10, <1>11, <1>12
    DEF CoordinatorStep, CoordinatorFault

\* sendCtrlMsg never blocks the coordinator: at the moment it sends there are
\* at most two messages in a channel of capacity three.
THEOREM ControlChannelHasRoom == Spec => []CtrlNeverBlocks
  <1> DEFINE IInv == BarrierInv /\ CtrlInv
  <1>1. Init => IInv
    <2>1. Init => CtrlInv
      BY DEF Init, CtrlInv
    <2> QED
      BY <2>1, BarrierInit
  <1>2. IInv /\ [Next]_vars => IInv'
    <2> SUFFICES ASSUME BarrierInv, CtrlInv, [Next]_vars PROVE CtrlInv'
      BY BarrierNext
    <2>0. /\ TypeOK /\ RegistryInv
          /\ \A c \in Conns : stateCtrl[c] \in Seq({"testing", "failed"})
      BY DEF BarrierInv, TypeOK, InboxTypeOK
    <2>1. CASE CoordinatorStep \/ CoordinatorFault
      BY <2>0, <2>1, CoordinatorCtrl
    <2>2. ASSUME NEW c \in Conns, RemoteWorkerStep(c) PROVE CtrlInv'
      <3>1. /\ UNCHANGED <<workers, pending>> /\ (cpc' = cpc \/ cpc' = "crashed")
            /\ \/ stateCtrl' = stateCtrl
               \/ stateCtrl[c] # <<>> /\ stateCtrl' = [stateCtrl EXCEPT ![c] = Tail(@)]
               \/ stateCtrl' = [d \in Conns |-> <<>>]
        BY <2>0, <2>2, RemoteWorkerEffect
      <3>2. \A d \in Conns : \/ stateCtrl'[d] = stateCtrl[d]
                             \/ stateCtrl'[d] = <<>>
                             \/ stateCtrl[d] # <<>> /\ stateCtrl'[d] = Tail(stateCtrl[d])
        BY <2>0, <3>1 DEF TypeOK, InboxTypeOK
      <3> QED
        BY <2>0, <3>1, <3>2, NothingSent DEF TypeOK, RunTypeOK
    <2>3. ASSUME NEW c \in Conns, WorkerStep(c) \/ WorkerFault(c) PROVE CtrlInv'
      BY <2>0, <2>3, WorkerEffect, NothingSent
    <2>4. CASE UNCHANGED vars
      BY <2>0, <2>4, NothingSent DEF vars, coordVars, ctrlVars, rwVars, inboxVars
    <2> QED
      BY <2>1, <2>2, <2>3, <2>4 DEF Next, Terminated
  <1>3. IInv => CtrlNeverBlocks
    <2> SUFFICES ASSUME IInv, NEW c \in Conns PROVE Len(stateCtrl[c]) < 3
      BY DEF CtrlNeverBlocks
    <2>1. Len(stateCtrl[c]) \in Nat /\ Len(stateCtrl[c]) <= 2
      BY DEF BarrierInv, TypeOK, InboxTypeOK, CtrlInv
    <2> QED
      BY <2>1
  <1> HIDE DEF IInv
  <1> QED
    BY <1>1, <1>2, <1>3, PTL DEF Spec

-----------------------------------------------------------------------------
(* The state gauge *)

\* The gauge is written before Run leaves its error and success paths, and by
\* nobody else but the interrupt handler, which has closed c.stop before.
GaugeInv ==
    /\ trap = "caught" => stop
    /\ cpc \in {"fail", "failWait"} => result = "err"
    /\ cpc \in {"closeTrap", "server", "returned"} =>
          /\ result = "err" => stateMetric = "failed"
          /\ result = "ok" => stateMetric = "completed" \/ stop

\* Remote workers and workers do not touch the gauge, nor what it tells.
LEMMA GaugeUntouched ==
    ASSUME NEW c \in Conns, RemoteWorkerStep(c) \/ WorkerStep(c) \/ WorkerFault(c)
    PROVE  /\ UNCHANGED <<result, stateMetric, trap, stop>>
           /\ (cpc' = cpc \/ cpc' = "crashed")
  <1> USE DEF coordVars, gaugeVars, signalVars
  <1>1. CASE RemoteWorkerStep(c)
    BY <1>1 DEF RemoteWorkerStep, ReadID, ReadIDFails, SendRegister, RegisterAccepted,
       RegisterRejected, RegisterTimeout, CreateMetrics, HandleCtrl, StopNoticed,
       ReadUpdate, ReadUpdateFails, Forward, Unregister
  <1>2. CASE WorkerStep(c) \/ WorkerFault(c)
    BY <1>2 DEF WorkerStep, WorkerFault, Dial, DialGivesUp, SendID, ReadAccept, AcceptFails,
       ReadStart, PollFails, PollCancelled, PollPanics, Connect, ConnectFails,
       SendTransactions, TransactorFails, TransactorsDone, ReporterTick, ReportProgress,
       FailedTest, ReportFinalResults, CloseDone, InterruptWorker, ConnectionLost
  <1> QED
    BY <1>1, <1>2

\* Steps of the coordinator keep the gauge true to the result.
LEMMA CoordinatorGauge ==
    ASSUME TypeOK, GaugeInv, CoordinatorStep \/ CoordinatorFault PROVE GaugeInv'
  <1> USE DEF gaugeVars, signalVars, GaugeInv
  <1>1. CASE WaitForPeers \/ PeersFailed \/ Listen
    BY <1>1 DEF WaitForPeers, PeersFailed, Listen
  <1>2. CASE HandleRegister
    BY <1>2 DEF HandleRegister
  <1>3. CASE HandleUnregisterWaiting \/ HandleUnregisterTesting
    BY <1>3 DEF HandleUnregisterWaiting, HandleUnregisterTesting, ReturnErr
  <1>4. CASE ConnectTimeout \/ StopOrServerNoticed \/ StartFailed
    BY <1>4 DEF ConnectTimeout, StopOrServerNoticed, StartFailed, ReturnErr
  <1>5. CASE StartAcked \/ FailAnswered \/ \E i \in Ids : StartNext(i) \/ FailNext(i)
    BY <1>5 DEF StartAcked, FailAnswered, StartNext, FailNext
  <1>6. CASE HandleUpdate
    BY <1>6 DEF HandleUpdate
  <1>7. CASE SetFailed \/ Complete
    BY <1>7 DEF SetFailed, Complete
  <1>8. CASE StopRemoteWorkers \/ ShutdownServer \/ Exit
    BY <1>8 DEF StopRemoteWorkers, ShutdownServer, Exit
  <1>9. CASE TrapSetsMetric \/ Interrupt \/ ServerFails
    BY <1>9 DEF TrapSetsMetric, Interrupt, ServerFails
  <1>10. CASE LogTestingProgress
    BY <1>10 DEF LogTestingProgress, vars, coordVars
  <1> QED
    BY <1>1, <1>2, <1>3, <1>4, <1>5, <1>6, <1>7, <1>8, <1>9, <1>10
    DEF CoordinatorStep, CoordinatorFault

\* When Run has returned the state gauge says failed after an error, and
\* completed after a success unless an interrupt was caught.
THEOREM GaugeIsTrue == Spec => []GaugeTellsResult
  <1>1. Init => GaugeInv
    BY DEF Init, GaugeInv
  <1>2. TypeOK /\ GaugeInv /\ [Next]_vars => GaugeInv'
    <2> SUFFICES ASSUME TypeOK, GaugeInv, [Next]_vars PROVE GaugeInv'
      OBVIOUS
    <2>1. ASSUME NEW c \in Conns, RemoteWorkerStep(c) \/ WorkerStep(c) \/ WorkerFault(c)
          PROVE  GaugeInv'
      BY <2>1, GaugeUntouched DEF GaugeInv
    <2>2. CASE UNCHANGED vars
      BY <2>2 DEF vars, coordVars, gaugeVars, signalVars, GaugeInv
    <2> QED
      BY <2>1, <2>2, CoordinatorGauge DEF Next, Terminated
  <1>3. GaugeInv => GaugeTellsResult
    BY DEF GaugeInv, GaugeTellsResult
  <1> QED
    BY <1>1, <1>2, <1>3, TypeCorrect, PTL DEF Spec

=============================================================================
