----------------------- MODULE CoordinatedTestProofs ------------------------
(***************************************************************************)
(* Proofs about coordinated load tests with any number of connections, IDs *)
(* and expected workers.                                                   *)
(***************************************************************************)
EXTENDS CoordinatedTest, FiniteSetTheorems, TLAPS

-----------------------------------------------------------------------------
(* Type correctness *)

\* A part of the state whose variables do not change keeps its type.
LEMMA Frame ==
    ASSUME TypeOK
    PROVE  /\ UNCHANGED <<cpc, result, workers, started, ctrlVars>> => RunTypeOK'
           /\ UNCHANGED tallyVars => TallyTypeOK'
           /\ UNCHANGED <<gaugeVars, signalVars>> => SignalTypeOK'
           /\ UNCHANGED chanVars => ChanTypeOK'
           /\ UNCHANGED loopVars => LoopTypeOK'
           /\ UNCHANGED <<inboxVars, rwGaugeVars>> => InboxTypeOK'
           /\ UNCHANGED workerVars => WorkerTypeOK'
           /\ UNCHANGED <<netVars, faults>> => NetTypeOK'
  <1> USE DEF TypeOK
  <1>1. UNCHANGED <<cpc, result, workers, started, ctrlVars>> => RunTypeOK'
    BY DEF RunTypeOK, ctrlVars
  <1>2. UNCHANGED tallyVars => TallyTypeOK'
    BY DEF TallyTypeOK, tallyVars
  <1>3. UNCHANGED <<gaugeVars, signalVars>> => SignalTypeOK'
    BY DEF SignalTypeOK, gaugeVars, signalVars
  <1>4. UNCHANGED chanVars => ChanTypeOK'
    BY DEF ChanTypeOK, chanVars
  <1>5. UNCHANGED loopVars => LoopTypeOK'
    BY DEF LoopTypeOK, loopVars
  <1>6. UNCHANGED <<inboxVars, rwGaugeVars>> => InboxTypeOK'
    BY DEF InboxTypeOK, inboxVars, rwGaugeVars
  <1>7. UNCHANGED workerVars => WorkerTypeOK'
    BY DEF WorkerTypeOK, workerVars
  <1>8. UNCHANGED <<netVars, faults>> => NetTypeOK'
    BY DEF NetTypeOK, netVars
  <1> QED
    BY <1>1, <1>2, <1>3, <1>4, <1>5, <1>6, <1>7, <1>8

\* Spending a fault stays within the budget.
LEMMA FaultType == ASSUME NetTypeOK, Fault PROVE faults' \in 0..MaxFaults
  BY BoundsAssumption DEF NetTypeOK, Fault

\* Every message the workers write has the type of the connection.
LEMMA UpType == \A s \in UpStates, n \in Nat : Up(s, n) \in UpMsgs
  BY DEF Up, UpMsgs

\* A write to the coordinator, whatever becomes of it.
LEMMA WriteUpType ==
    ASSUME NetTypeOK, NEW c \in Conns, NEW m \in UpMsgs, NEW ok, WriteUp(c, m, ok)
    PROVE  up' \in [Conns -> Seq(UpMsgs)] /\ faults' \in 0..MaxFaults
  <1>1. [up EXCEPT ![c] = Append(@, m)] \in [Conns -> Seq(UpMsgs)]
    BY DEF NetTypeOK
  <1> QED
    BY <1>1, FaultType DEF WriteUp, NetTypeOK

\* A write to a worker, whatever becomes of it.
LEMMA WriteDownType ==
    ASSUME NetTypeOK, NEW c \in Conns, NEW m \in DownMsgs, NEW ok, WriteDown(c, m, ok)
    PROVE  down' \in [Conns -> Seq(DownMsgs)] /\ faults' \in 0..MaxFaults
  <1>1. [down EXCEPT ![c] = Append(@, m)] \in [Conns -> Seq(DownMsgs)]
    BY DEF NetTypeOK
  <1> QED
    BY <1>1, FaultType DEF WriteDown, NetTypeOK

\* The last messages of a worker.
LEMMA WorkerReturnsType ==
    ASSUME NetTypeOK, NEW c \in Conns, NEW res, NEW msgs \in Seq(UpMsgs),
           WorkerReturns(c, res, msgs)
    PROVE  up' \in [Conns -> Seq(UpMsgs)]
  <1>1. <<Up("close", 0)>> \in Seq(UpMsgs)
    BY UpType DEF UpStates
  <1>2. (up[c] \o msgs) \o <<Up("close", 0)>> \in Seq(UpMsgs)
    BY <1>1 DEF NetTypeOK
  <1> QED
    BY <1>2 DEF WorkerReturns, NetTypeOK

\* The last messages of a worker one of whose writes failed.
LEMMA WriteLostType ==
    ASSUME NetTypeOK, NEW c \in Conns, NEW msgs \in Seq(UpMsgs), WriteLost(c, msgs)
    PROVE  up' \in [Conns -> Seq(UpMsgs)] /\ faults' \in 0..MaxFaults
  <1>1. \A n \in 0..Len(msgs) : SubSeq(msgs, 1, n) \in Seq(UpMsgs)
    OBVIOUS
  <1>2. <<>> \in Seq(UpMsgs)
    OBVIOUS
  <1>3. CASE ~open[c] /\ UNCHANGED faults /\ WorkerReturns(c, "err", <<>>)
    BY <1>2, <1>3, WorkerReturnsType DEF NetTypeOK
  <1>4. CASE /\ open[c] /\ Fault
             /\ \E n \in 0..Len(msgs) : WorkerReturns(c, "err", SubSeq(msgs, 1, n))
    BY <1>1, <1>4, WorkerReturnsType, FaultType
  <1> QED
    BY <1>3, <1>4 DEF WriteLost

\* What a worker that fails writes.
LEMMA FailsType ==
    ASSUME NetTypeOK, NEW c \in Conns, Fails(c) PROVE up' \in [Conns -> Seq(UpMsgs)]
  <1>1. <<Up("failed", 0)>> \in Seq(UpMsgs)
    BY UpType DEF UpStates
  <1> QED
    BY <1>1, WorkerReturnsType DEF Fails

\* The connection after eventLoop returned.
LEMMA ReturnType ==
    ASSUME NetTypeOK, NEW c \in Conns, NEW failed, Return(c, failed)
    PROVE  up' \in [Conns -> Seq(UpMsgs)] /\ open' \in [Conns -> BOOLEAN]
  BY DEF Return, NetTypeOK

\* An update of a function keeps its range.
LEMMA ExceptType ==
    ASSUME NEW S, NEW Q, NEW f \in [S -> Q], NEW w, NEW v, w \in S => v \in Q
    PROVE  [f EXCEPT ![w] = v] \in [S -> Q]
  OBVIOUS

\* sendCtrlMsg puts one message into one remote worker's channel.
LEMMA SendCtrlType ==
    ASSUME TypeOK, NEW i \in Ids, NEW m \in {"testing", "failed"}, SendCtrl(i, m)
    PROVE  stateCtrl' \in [Conns -> Seq({"testing", "failed"})]
  <1>1. stateCtrl \in [Conns -> Seq({"testing", "failed"})]
    BY DEF TypeOK, InboxTypeOK
  <1>2. ASSUME NEW w \in Conns PROVE Append(stateCtrl[w], m) \in Seq({"testing", "failed"})
    BY <1>1
  <1>3. stateCtrl' = [stateCtrl EXCEPT ![workers[i]] = Append(stateCtrl[workers[i]], m)]
    BY DEF SendCtrl
  <1> QED
    BY <1>1, <1>2, <1>3, ExceptType

\* A read by the worker takes the first message away.
LEMMA ReadDownType ==
    ASSUME NetTypeOK, NEW c \in Conns, down[c] # <<>>
    PROVE  [down EXCEPT ![c] = Tail(@)] \in [Conns -> Seq(DownMsgs)]
  <1>1. Tail(down[c]) \in Seq(DownMsgs)
    BY DEF NetTypeOK
  <1> QED
    BY <1>1 DEF NetTypeOK

\* A write to a worker that may be lost unnoticed.
LEMMA TellWorkerType ==
    ASSUME NetTypeOK, NEW c \in Conns, NEW m \in DownMsgs, TellWorker(c, m)
    PROVE  down' \in [Conns -> Seq(DownMsgs)]
  <1>1. Append(down[c], m) \in Seq(DownMsgs)
    BY DEF NetTypeOK
  <1> QED
    BY <1>1 DEF NetTypeOK, TellWorker

\* The answers that may reach a worker whose acceptance was lost.
LEMMA AcceptanceLostType ==
    ASSUME NetTypeOK, NEW c \in Conns, AcceptanceLost(c)
    PROVE  down' \in [Conns -> Seq(DownMsgs)] /\ faults' \in 0..MaxFaults
  <1> DEFINE Lost == {<<>>, <<"accepted">>, <<"accepted", "rejected">>}
  <1>1. \A s \in Lost : down[c] \o s \in Seq(DownMsgs)
    <2>1. Lost \subseteq Seq(DownMsgs)
      BY DEF DownMsgs
    <2>2. down[c] \in Seq(DownMsgs)
      BY DEF NetTypeOK
    <2> HIDE DEF Lost
    <2> QED
      BY <2>1, <2>2
  <1> HIDE DEF Lost
  <1>2. CASE ~open[c] /\ UNCHANGED <<down, faults>>
    BY <1>2 DEF NetTypeOK
  <1>3. CASE open[c] /\ Fault /\ \E s \in Lost : down' = [down EXCEPT ![c] = @ \o s]
    BY <1>1, <1>3, FaultType DEF NetTypeOK
  <1> QED
    BY <1>2, <1>3 DEF AcceptanceLost, Lost

\* Every step of the coordinator's own goroutines keeps the types.
LEMMA CoordinatorType ==
    ASSUME TypeOK, CoordinatorStep \/ CoordinatorFault PROVE TypeOK'
  <1> USE DEF TypeOK, ctrlVars, tallyVars, gaugeVars, signalVars, chanVars, loopVars,
              inboxVars, rwGaugeVars, workerVars, netVars, coordVars, rwVars
  <1>1. CASE WaitForPeers
    <2>1. RunTypeOK'
      BY <1>1 DEF WaitForPeers, RunTypeOK
    <2>2. SignalTypeOK'
      BY <1>1 DEF WaitForPeers, SignalTypeOK
    <2> QED
      BY <1>1, <2>1, <2>2, Frame DEF WaitForPeers
  <1>2. CASE PeersFailed
    <2>1. RunTypeOK'
      BY <1>2 DEF PeersFailed, RunTypeOK
    <2>2. SignalTypeOK'
      BY <1>2 DEF PeersFailed, SignalTypeOK
    <2>3. NetTypeOK'
      BY <1>2, BoundsAssumption DEF PeersFailed, Fault, NetTypeOK
    <2> QED
      BY <1>2, <2>1, <2>2, <2>3, Frame DEF PeersFailed
  <1>3. CASE Listen
    <2>1. RunTypeOK'
      BY <1>3 DEF Listen, RunTypeOK
    <2>2. SignalTypeOK'
      BY <1>3 DEF Listen, SignalTypeOK
    <2> QED
      BY <1>3, <2>1, <2>2, Frame DEF Listen
  <1>4. CASE HandleRegister
    <2>1. RunTypeOK'
      <3> DEFINE c == Head(workerRegister)
      <3>1. c \in Conns /\ IdOf[c] \in Ids
        BY <1>4, IdsAssumption DEF HandleRegister, ChanTypeOK
      <3>2. workers' \in [Ids -> Conns \cup {NoConn}]
        BY <1>4, <3>1 DEF HandleRegister, RunTypeOK
      <3>3. \A i \in Registered : workers'[i] \in Conns
        BY <1>4, <3>1 DEF HandleRegister, RunTypeOK, Registered
      <3>4. ~Refused(c) => workers'[IdOf[c]] = c
        BY <1>4, <3>1 DEF HandleRegister, RunTypeOK
      <3>5. started' \subseteq Conns /\ pending' \subseteq Ids
        BY <1>4, <3>1, <3>3, <3>4 DEF HandleRegister, RunTypeOK, Registered
      <3> QED
        BY <1>4, <3>2, <3>5 DEF HandleRegister, RunTypeOK
    <2>2. TallyTypeOK'
      BY <1>4, IdsAssumption DEF HandleRegister, TallyTypeOK, ChanTypeOK
    <2>3. ChanTypeOK'
      BY <1>4, ConfigAssumption DEF HandleRegister, ChanTypeOK
    <2>4. InboxTypeOK'
      BY <1>4 DEF HandleRegister, InboxTypeOK, ChanTypeOK
    <2> QED
      BY <1>4, <2>1, <2>2, <2>3, <2>4, Frame DEF HandleRegister
  <1>5. CASE HandleUnregisterWaiting
    <2>1. RunTypeOK'
      BY <1>5 DEF HandleUnregisterWaiting, Unregistered, RunTypeOK
    <2>2. ChanTypeOK'
      BY <1>5, ConfigAssumption DEF HandleUnregisterWaiting, ChanTypeOK
    <2> QED
      BY <1>5, <2>1, <2>2, Frame DEF HandleUnregisterWaiting
  <1>6. CASE ConnectTimeout
    <2>1. RunTypeOK'
      BY <1>6 DEF ConnectTimeout, Registered, ReturnErr, RunTypeOK
    <2>2. SignalTypeOK'
      BY <1>6 DEF ConnectTimeout, ReturnErr, SignalTypeOK
    <2>3. NetTypeOK'
      BY <1>6, BoundsAssumption DEF ConnectTimeout, Fault, NetTypeOK
    <2> QED
      BY <1>6, <2>1, <2>2, <2>3, Frame DEF ConnectTimeout
  <1>7. CASE StopOrServerNoticed
    <2>1. RunTypeOK'
      BY <1>7 DEF StopOrServerNoticed, Registered, ReturnErr, RunTypeOK
    <2>2. SignalTypeOK'
      BY <1>7 DEF StopOrServerNoticed, ReturnErr, SignalTypeOK
    <2> QED
      BY <1>7, <2>1, <2>2, Frame DEF StopOrServerNoticed
  <1>8. ASSUME NEW i \in Ids, StartNext(i) PROVE TypeOK'
    <2>1. RunTypeOK'
      BY <1>8 DEF StartNext, SendCtrl, RunTypeOK
    <2>2. InboxTypeOK'
      BY <1>8, SendCtrlType DEF StartNext, InboxTypeOK
    <2> QED
      BY <1>8, <2>1, <2>2, Frame DEF StartNext
  <1>9. CASE StartAcked
    <2>1. RunTypeOK'
      BY <1>9 DEF StartAcked, RunTypeOK
    <2>2. SignalTypeOK'
      BY <1>9 DEF StartAcked, SignalTypeOK
    <2>3. InboxTypeOK'
      BY <1>9 DEF StartAcked, InboxTypeOK
    <2> QED
      BY <1>9, <2>1, <2>2, <2>3, Frame DEF StartAcked
  <1>10. CASE StartFailed
    <2>1. RunTypeOK'
      BY <1>10 DEF StartFailed, Registered, ReturnErr, RunTypeOK
    <2>2. SignalTypeOK'
      BY <1>10 DEF StartFailed, ReturnErr, SignalTypeOK
    <2>3. NetTypeOK'
      BY <1>10, BoundsAssumption DEF StartFailed, CtrlTimeout, Fault, NetTypeOK
    <2> QED
      BY <1>10, <2>1, <2>2, <2>3, Frame DEF StartFailed
  <1>11. ASSUME NEW i \in Ids, FailNext(i) PROVE TypeOK'
    <2>1. RunTypeOK'
      BY <1>11 DEF FailNext, SendCtrl, RunTypeOK
    <2>2. InboxTypeOK'
      BY <1>11, SendCtrlType DEF FailNext, InboxTypeOK
    <2> QED
      BY <1>11, <2>1, <2>2, Frame DEF FailNext
  <1>12. CASE FailAnswered
    <2>1. RunTypeOK'
      BY <1>12 DEF FailAnswered, RunTypeOK
    <2>2. InboxTypeOK'
      BY <1>12 DEF FailAnswered, InboxTypeOK
    <2>3. NetTypeOK'
      BY <1>12, BoundsAssumption DEF FailAnswered, CtrlTimeout, Fault, NetTypeOK
    <2> QED
      BY <1>12, <2>1, <2>2, <2>3, Frame DEF FailAnswered
  <1>13. CASE SetFailed
    <2>1. RunTypeOK'
      BY <1>13 DEF SetFailed, RunTypeOK
    <2>2. SignalTypeOK'
      BY <1>13 DEF SetFailed, SignalTypeOK
    <2> QED
      BY <1>13, <2>1, <2>2, Frame DEF SetFailed
  <1>14. CASE HandleUpdate
    <2>1. RunTypeOK'
      BY <1>14 DEF HandleUpdate, RunTypeOK
    <2>2. TallyTypeOK'
      <3>1. Head(workerUpdate) \in Updates
        BY <1>14 DEF HandleUpdate, ChanTypeOK
      <3>2. Tallied(Head(workerUpdate)) \in [Ids -> Nat]
        BY <3>1, IdsAssumption DEF Tallied, TallyTypeOK, Updates
      <3>3. Head(workerUpdate).conn \in Conns
        BY <3>1 DEF Updates
      <3> QED
        BY <1>14, <3>2, <3>3 DEF HandleUpdate, TallyTypeOK
    <2>3. SignalTypeOK'
      BY <1>14 DEF HandleUpdate, SignalTypeOK
    <2>4. ChanTypeOK'
      BY <1>14, ConfigAssumption DEF HandleUpdate, ChanTypeOK
    <2> QED
      BY <1>14, <2>1, <2>2, <2>3, <2>4, Frame DEF HandleUpdate
  <1>15. CASE HandleUnregisterTesting
    <2>1. RunTypeOK'
      BY <1>15 DEF HandleUnregisterTesting, Registered, ReturnErr, Unregistered,
         RunTypeOK
    <2>2. SignalTypeOK'
      BY <1>15 DEF HandleUnregisterTesting, ReturnErr, SignalTypeOK
    <2>3. ChanTypeOK'
      BY <1>15, ConfigAssumption DEF HandleUnregisterTesting, ChanTypeOK
    <2> QED
      BY <1>15, <2>1, <2>2, <2>3, Frame DEF HandleUnregisterTesting
  <1>16. CASE Complete
    <2>1. RunTypeOK'
      BY <1>16 DEF Complete, RunTypeOK
    <2>2. SignalTypeOK'
      BY <1>16 DEF Complete, SignalTypeOK
    <2> QED
      BY <1>16, <2>1, <2>2, Frame DEF Complete
  <1>17. CASE StopRemoteWorkers
    <2>1. RunTypeOK'
      BY <1>17 DEF StopRemoteWorkers, RunTypeOK
    <2>2. SignalTypeOK'
      BY <1>17 DEF StopRemoteWorkers, SignalTypeOK
    <2>3. InboxTypeOK'
      BY <1>17 DEF StopRemoteWorkers, InboxTypeOK
    <2> QED
      BY <1>17, <2>1, <2>2, <2>3, Frame DEF StopRemoteWorkers
  <1>18. CASE ShutdownServer
    <2>1. RunTypeOK'
      BY <1>18 DEF ShutdownServer, RunTypeOK
    <2>2. SignalTypeOK'
      BY <1>18 DEF ShutdownServer, SignalTypeOK
    <2> QED
      BY <1>18, <2>1, <2>2, Frame DEF ShutdownServer
  <1>19. CASE Exit
    <2>1. RunTypeOK'
      BY <1>19 DEF Exit, RunTypeOK
    <2>2. ChanTypeOK'
      BY <1>19, ConfigAssumption DEF Exit, ProcessGone, ChanTypeOK
    <2>3. LoopTypeOK'
      BY <1>19, UpType DEF Exit, ProcessGone, NoMsg, UpStates, LoopTypeOK
    <2>4. InboxTypeOK'
      BY <1>19 DEF Exit, ProcessGone, InboxTypeOK
    <2>5. NetTypeOK'
      BY <1>19 DEF Exit, ProcessGone, Up, NetTypeOK
    <2> QED
      BY <1>19, <2>1, <2>2, <2>3, <2>4, <2>5, Frame DEF Exit
  <1>20. CASE Interrupt
    <2>1. SignalTypeOK'
      BY <1>20 DEF Interrupt, SignalTypeOK
    <2>2. NetTypeOK'
      BY <1>20, BoundsAssumption DEF Interrupt, Fault, NetTypeOK
    <2> QED
      BY <1>20, <2>1, <2>2, Frame DEF Interrupt
  <1>21. CASE TrapSetsMetric
    <2>1. SignalTypeOK'
      BY <1>21 DEF TrapSetsMetric, SignalTypeOK
    <2> QED
      BY <1>21, <2>1, Frame DEF TrapSetsMetric
  <1>22. CASE ServerFails
    <2>1. SignalTypeOK'
      BY <1>22 DEF ServerFails, SignalTypeOK
    <2>2. NetTypeOK'
      BY <1>22, BoundsAssumption DEF ServerFails, Fault, NetTypeOK
    <2> QED
      BY <1>22, <2>1, <2>2, Frame DEF ServerFails
  <1>log. CASE LogTestingProgress
    BY <1>log, Frame DEF LogTestingProgress, vars
  <1> QED
    BY <1>log, <1>1, <1>2, <1>3, <1>4, <1>5, <1>6, <1>7, <1>8, <1>9, <1>10, <1>11, <1>12,
       <1>13, <1>14, <1>15, <1>16, <1>17, <1>18, <1>19, <1>20, <1>21,
          <1>22 DEF CoordinatorStep, CoordinatorFault

\* Every step of a remote worker keeps the types.
LEMMA RemoteWorkerType ==
    ASSUME TypeOK, NEW c \in Conns, RemoteWorkerStep(c) PROVE TypeOK'
  <1> USE DEF TypeOK, ctrlVars, tallyVars, gaugeVars, signalVars, chanVars, loopVars,
              inboxVars, rwGaugeVars, workerVars, netVars, coordVars, rwVars
  <1>1. CASE ReadID(c)
    <2>1. LoopTypeOK'
      BY <1>1, IdsAssumption DEF ReadID, LoopTypeOK
    <2>2. NetTypeOK'
      BY <1>1 DEF ReadID, NetTypeOK
    <2> QED
      BY <1>1, <2>1, <2>2, Frame DEF ReadID
  <1>2. CASE ReadIDFails(c)
    <2>1. LoopTypeOK'
      BY <1>2 DEF ReadIDFails, Return, LoopTypeOK
    <2>2. NetTypeOK'
      <3>1. down' \in [Conns -> Seq(DownMsgs)]
        BY <1>2, TellWorkerType DEF ReadIDFails, DownMsgs
      <3> QED
        BY <1>2, <3>1, FaultType, ReturnType DEF ReadIDFails, NetTypeOK
    <2> QED
      BY <1>2, <2>1, <2>2, Frame DEF ReadIDFails
  <1>3. CASE SendRegister(c)
    <2>1. ChanTypeOK'
      BY <1>3, ConfigAssumption DEF SendRegister, Room, ChanTypeOK
    <2>2. LoopTypeOK'
      BY <1>3 DEF SendRegister, LoopTypeOK
    <2> QED
      BY <1>3, <2>1, <2>2, Frame DEF SendRegister
  <1>4. CASE RegisterAccepted(c)
    <2>1. LoopTypeOK'
      BY <1>4 DEF RegisterAccepted, Return, LoopTypeOK
    <2>2. InboxTypeOK'
      BY <1>4 DEF RegisterAccepted, InboxTypeOK
    <2>3. NetTypeOK'
      <3>1. CASE WriteDown(c, "accepted", TRUE) /\ UNCHANGED <<up, open>>
        BY <3>1, WriteDownType DEF NetTypeOK, DownMsgs
      <3>2. CASE AcceptanceLost(c) /\ Return(c, TRUE)
        <4>1. down' \in [Conns -> Seq(DownMsgs)] /\ faults' \in 0..MaxFaults
          BY <3>2, AcceptanceLostType
        <4> QED
          BY <3>2, <4>1, ReturnType DEF NetTypeOK
      <3> QED
        BY <1>4, <3>1, <3>2 DEF RegisterAccepted
    <2> QED
      BY <1>4, <2>1, <2>2, <2>3, Frame DEF RegisterAccepted
  <1>5. CASE RegisterRejected(c)
    <2>1. LoopTypeOK'
      BY <1>5 DEF RegisterRejected, Return, LoopTypeOK
    <2>2. InboxTypeOK'
      BY <1>5 DEF RegisterRejected, InboxTypeOK
    <2>3. NetTypeOK'
      <3>1. down' \in [Conns -> Seq(DownMsgs)]
        BY <1>5, TellWorkerType DEF RegisterRejected, DownMsgs
      <3> QED
        BY <1>5, <3>1, FaultType, ReturnType DEF RegisterRejected, NetTypeOK
    <2> QED
      BY <1>5, <2>1, <2>2, <2>3, Frame DEF RegisterRejected
  <1>6. CASE RegisterTimeout(c)
    <2>1. LoopTypeOK'
      BY <1>6 DEF RegisterTimeout, Return, LoopTypeOK
    <2>2. NetTypeOK'
      <3>1. down' \in [Conns -> Seq(DownMsgs)]
        BY <1>6, TellWorkerType DEF RegisterTimeout, DownMsgs
      <3> QED
        BY <1>6, <3>1, FaultType, ReturnType DEF RegisterTimeout, NetTypeOK
    <2> QED
      BY <1>6, <2>1, <2>2, Frame DEF RegisterTimeout
  <1>7. CASE CreateMetrics(c)
    <2>1. RunTypeOK'
      BY <1>7 DEF CreateMetrics, RunTypeOK
    <2>2. ChanTypeOK'
      <3>1. CASE rid[c] \in metrics
        BY <1>7, <3>1, ConfigAssumption DEF CreateMetrics, ProcessGone, ChanTypeOK
      <3>2. CASE rid[c] \notin metrics
        BY <1>7, <3>2 DEF CreateMetrics, ChanTypeOK
      <3> QED
        BY <3>1, <3>2
    <2>3. LoopTypeOK'
      <3>1. CASE rid[c] \in metrics
        BY <1>7, <3>1, UpType DEF CreateMetrics, ProcessGone, LoopTypeOK, NoMsg,
           UpStates
      <3>2. CASE rid[c] \notin metrics
        BY <1>7, <3>2 DEF CreateMetrics, LoopTypeOK
      <3> QED
        BY <3>1, <3>2
    <2>4. InboxTypeOK'
      <3>1. CASE rid[c] \in metrics
        <4>1. ProcessGone /\ UNCHANGED <<rwState, metrics, rwStop>>
          BY <1>7, <3>1 DEF CreateMetrics
        <4> QED
          BY <4>1 DEF ProcessGone, InboxTypeOK
      <3>2. CASE rid[c] \notin metrics
        <4>1. /\ UNCHANGED <<regResp, stateCtrl, rwStop>>
              /\ metrics' = metrics \cup {rid[c]}
              /\ rwState' = [rwState EXCEPT ![c] = "accepted"]
          BY <1>7, <3>2 DEF CreateMetrics
        <4> QED
          BY <4>1 DEF InboxTypeOK, LoopTypeOK
      <3> QED
        BY <3>1, <3>2
    <2>5. NetTypeOK'
      <3>1. (ProcessGone \/ UNCHANGED <<up, open>>) /\ UNCHANGED <<down, faults>>
        BY <1>7 DEF CreateMetrics
      <3>2. CASE ProcessGone
        <4>1. up' = [d \in Conns |-> <<>>] /\ open' = [d \in Conns |-> FALSE]
          BY <3>2 DEF ProcessGone
        <4> QED
          BY <3>1, <4>1 DEF NetTypeOK
      <3>3. CASE UNCHANGED <<up, open>>
        BY <3>1, <3>3 DEF NetTypeOK
      <3> QED
        BY <3>1, <3>2, <3>3
    <2> QED
      BY <1>7, <2>1, <2>2, <2>3, <2>4, <2>5, Frame DEF CreateMetrics
  <1>8. CASE HandleCtrl(c)
    <2>1. RunTypeOK'
      BY <1>8 DEF HandleCtrl, Answer, RunTypeOK
    <2>2. LoopTypeOK'
      BY <1>8 DEF HandleCtrl, Return, LoopTypeOK
    <2>3. InboxTypeOK'
      BY <1>8 DEF HandleCtrl, InboxTypeOK
    <2>4. NetTypeOK'
      <3>1. Head(stateCtrl[c]) \in {"testing", "failed"}
        BY <1>8 DEF HandleCtrl, InboxTypeOK
      <3>2. down' \in [Conns -> Seq(DownMsgs)] /\ faults' \in 0..MaxFaults
        BY <1>8, <3>1, WriteDownType DEF HandleCtrl, DownMsgs
      <3>3. UNCHANGED <<up, open>> \/ Return(c, TRUE)
        BY <1>8 DEF HandleCtrl
      <3> QED
        BY <3>2, <3>3, ReturnType DEF NetTypeOK
    <2> QED
      BY <1>8, <2>1, <2>2, <2>3, <2>4, Frame DEF HandleCtrl
  <1>9. CASE StopNoticed(c)
    <2>1. LoopTypeOK'
      BY <1>9 DEF StopNoticed, Return, LoopTypeOK
    <2>2. NetTypeOK'
      BY <1>9, ReturnType DEF StopNoticed, NetTypeOK
    <2> QED
      BY <1>9, <2>1, <2>2, Frame DEF StopNoticed
  <1>10. CASE ReadUpdate(c)
    <2>1. LoopTypeOK'
      <3>1. Head(up[c]) \in UpMsgs
        BY <1>10 DEF ReadUpdate, NetTypeOK
      <3> QED
        BY <1>10, <3>1 DEF ReadUpdate, LoopTypeOK
    <2>2. NetTypeOK'
      BY <1>10 DEF ReadUpdate, NetTypeOK
    <2> QED
      BY <1>10, <2>1, <2>2, Frame DEF ReadUpdate
  <1>11. CASE ReadUpdateFails(c)
    <2>1. LoopTypeOK'
      BY <1>11 DEF ReadUpdateFails, Return, LoopTypeOK
    <2>2. NetTypeOK'
      BY <1>11, FaultType, ReturnType DEF ReadUpdateFails, NetTypeOK
    <2> QED
      BY <1>11, <2>1, <2>2, Frame DEF ReadUpdateFails
  <1>12. CASE Forward(c)
    <2>1. ChanTypeOK'
      BY <1>12, ConfigAssumption DEF Forward, ReceiveWorkerUpdate, Room, ChanTypeOK, LoopTypeOK, UpMsgs,
         Updates
    <2>2. LoopTypeOK'
      BY <1>12, UpType DEF Forward, Return, NoMsg, UpStates, LoopTypeOK
    <2>3. InboxTypeOK'
      BY <1>12 DEF Forward, InboxTypeOK
    <2>4. NetTypeOK'
      <3>1. UNCHANGED <<up, open>> \/ Return(c, FALSE)
        BY <1>12 DEF Forward
      <3> QED
        BY <1>12, <3>1, ReturnType DEF Forward, NetTypeOK
    <2> QED
      BY <1>12, <2>1, <2>2, <2>3, <2>4, Frame DEF Forward
  <1>13. CASE Unregister(c)
    <2>1. ChanTypeOK'
      BY <1>13, ConfigAssumption DEF Unregister, Room, Unregistration, ChanTypeOK,
         LoopTypeOK, Unregistrations
    <2>2. LoopTypeOK'
      BY <1>13 DEF Unregister, LoopTypeOK
    <2> QED
      BY <1>13, <2>1, <2>2, Frame DEF Unregister
  <1> QED
    BY <1>1, <1>2, <1>3, <1>4, <1>5, <1>6, <1>7, <1>8, <1>9, <1>10, <1>11, <1>12,
       <1>13 DEF RemoteWorkerStep

\* Every step of a worker and of its connection keeps the types.
LEMMA WorkerType ==
    ASSUME TypeOK, NEW c \in Conns, WorkerStep(c) \/ WorkerFault(c) PROVE TypeOK'
  <1> USE DEF TypeOK, ctrlVars, tallyVars, gaugeVars, signalVars, chanVars, loopVars,
              inboxVars, rwGaugeVars, workerVars, netVars, coordVars, rwVars
  <1>1. CASE Dial(c)
    <2>1. LoopTypeOK'
      BY <1>1 DEF Dial, LoopTypeOK
    <2>2. WorkerTypeOK'
      BY <1>1 DEF Dial, Goto, WorkerTypeOK
    <2>3. NetTypeOK'
      BY <1>1 DEF Dial, NetTypeOK
    <2> QED
      BY <1>1, <2>1, <2>2, <2>3, Frame DEF Dial
  <1>2. CASE DialGivesUp(c)
    <2>1. WorkerTypeOK'
      BY <1>2 DEF DialGivesUp, Goto, WorkerTypeOK
    <2>2. NetTypeOK'
      BY <1>2, BoundsAssumption DEF DialGivesUp, Fault, NetTypeOK
    <2> QED
      BY <1>2, <2>1, <2>2, Frame DEF DialGivesUp
  <1>3. CASE SendID(c)
    <2>1. WorkerTypeOK'
      BY <1>3 DEF SendID, Goto, WorkerReturns, WriteLost, WorkerTypeOK
    <2>2. NetTypeOK'
      <3>1. Up("hello", 0) \in UpMsgs /\ <<Up("hello", 0)>> \in Seq(UpMsgs)
        BY UpType DEF UpStates
      <3> QED
        BY <1>3, <3>1, WriteUpType, WriteLostType DEF SendID, NetTypeOK
    <2> QED
      BY <1>3, <2>1, <2>2, Frame DEF SendID
  <1>4. CASE ReadAccept(c)
    <2>1. WorkerTypeOK'
      BY <1>4 DEF ReadAccept, Fails, Goto, WorkerReturns, WorkerTypeOK
    <2>2. NetTypeOK'
      <3>1. <<>> \in Seq(UpMsgs)
        OBVIOUS
      <3>2. up' \in [Conns -> Seq(UpMsgs)] /\ faults' \in 0..MaxFaults
        BY <1>4, <3>1, WorkerReturnsType, FailsType, FaultType DEF ReadAccept, NetTypeOK
      <3>3. down' \in [Conns -> Seq(DownMsgs)]
        BY <1>4, ReadDownType DEF ReadAccept
      <3> QED
        BY <1>4, <3>2, <3>3 DEF ReadAccept, NetTypeOK
    <2> QED
      BY <1>4, <2>1, <2>2, Frame DEF ReadAccept
  <1>5. CASE AcceptFails(c)
    <2>1. WorkerTypeOK'
      BY <1>5 DEF AcceptFails, Goto, WorkerReturns, WorkerTypeOK
    <2>2. NetTypeOK'
      <3>1. <<>> \in Seq(UpMsgs)
        OBVIOUS
      <3> QED
        BY <1>5, <3>1, WorkerReturnsType, FaultType DEF AcceptFails, NetTypeOK
    <2> QED
      BY <1>5, <2>1, <2>2, Frame DEF AcceptFails
  <1>6. CASE ReadStart(c)
    <2>1. WorkerTypeOK'
      BY <1>6 DEF ReadStart, Fails, Goto, WorkerReturns, WorkerTypeOK
    <2>2. NetTypeOK'
      <3>1. up' \in [Conns -> Seq(UpMsgs)]
        BY <1>6, FailsType DEF ReadStart, NetTypeOK
      <3>2. down' \in [Conns -> Seq(DownMsgs)]
        BY <1>6, ReadDownType DEF ReadStart
      <3> QED
        BY <1>6, <3>1, <3>2 DEF ReadStart, NetTypeOK
    <2> QED
      BY <1>6, <2>1, <2>2, Frame DEF ReadStart
  <1>7. CASE PollFails(c)
    <2>1. WorkerTypeOK'
      BY <1>7 DEF PollFails, Goto, WorkerTypeOK
    <2>2. NetTypeOK'
      BY <1>7, BoundsAssumption DEF PollFails, Fault, NetTypeOK
    <2> QED
      BY <1>7, <2>1, <2>2, Frame DEF PollFails
  <1>8. CASE PollCancelled(c)
    <2>1. WorkerTypeOK'
      BY <1>8 DEF PollCancelled, Fails, Goto, WorkerReturns, WorkerTypeOK
    <2>2. NetTypeOK'
      BY <1>8, FailsType DEF PollCancelled, NetTypeOK
    <2> QED
      BY <1>8, <2>1, <2>2, Frame DEF PollCancelled
  <1>9. CASE PollPanics(c)
    <2>1. WorkerTypeOK'
      BY <1>9 DEF PollPanics, Goto, WorkerTypeOK
    <2>2. NetTypeOK'
      BY <1>9 DEF PollPanics, NetTypeOK
    <2> QED
      BY <1>9, <2>1, <2>2, Frame DEF PollPanics
  <1>10. CASE Connect(c)
    <2>1. WorkerTypeOK'
      BY <1>10 DEF Connect, Goto, WorkerTypeOK
    <2> QED
      BY <1>10, <2>1, Frame DEF Connect
  <1>11. CASE ConnectFails(c)
    <2>1. WorkerTypeOK'
      BY <1>11 DEF ConnectFails, Fails, Goto, WorkerReturns, WorkerTypeOK
    <2>2. NetTypeOK'
      BY <1>11, FailsType, FaultType DEF ConnectFails, NetTypeOK
    <2> QED
      BY <1>11, <2>1, <2>2, Frame DEF ConnectFails
  <1>12. CASE SendTransactions(c)
    <2>1. WorkerTypeOK'
      BY <1>12, BoundsAssumption DEF SendTransactions, WorkerTypeOK
    <2> QED
      BY <1>12, <2>1, Frame DEF SendTransactions
  <1>13. CASE TransactorFails(c)
    <2>1. WorkerTypeOK'
      BY <1>13 DEF TransactorFails, WorkerTypeOK
    <2>2. NetTypeOK'
      BY <1>13, BoundsAssumption DEF TransactorFails, Fault, NetTypeOK
    <2> QED
      BY <1>13, <2>1, <2>2, Frame DEF TransactorFails
  <1>14. CASE TransactorsDone(c)
    <2>1. WorkerTypeOK'
      BY <1>14 DEF TransactorsDone, Goto, WorkerTypeOK
    <2> QED
      BY <1>14, <2>1, Frame DEF TransactorsDone
  <1>15. CASE ReporterTick(c)
    <2>1. WorkerTypeOK'
      BY <1>15 DEF ReporterTick, WorkerTypeOK
    <2> QED
      BY <1>15, <2>1, Frame DEF ReporterTick
  <1>16. CASE ReportProgress(c)
    <2>1. WorkerTypeOK'
      BY <1>16, BoundsAssumption DEF ReportProgress, WorkerTypeOK
    <2>2. NetTypeOK'
      <3>1. Up("testing", snap[c]) \in UpMsgs
        BY UpType, BoundsAssumption DEF UpStates, WorkerTypeOK
      <3> QED
        BY <1>16, <3>1, WriteUpType DEF ReportProgress, NetTypeOK
    <2> QED
      BY <1>16, <2>1, <2>2, Frame DEF ReportProgress
  <1>17. CASE FailedTest(c)
    <2>1. WorkerTypeOK'
      BY <1>17 DEF FailedTest, Fails, Goto, WorkerReturns, WorkerTypeOK
    <2>2. NetTypeOK'
      BY <1>17, FailsType DEF FailedTest, NetTypeOK
    <2> QED
      BY <1>17, <2>1, <2>2, Frame DEF FailedTest
  <1>18. CASE ReportFinalResults(c)
    <2>1. WorkerTypeOK'
      BY <1>18 DEF ReportFinalResults, Goto, WorkerReturns, WriteLost, WorkerTypeOK
    <2>2. NetTypeOK'
      <3>1. Up("completed", FinalCount(c)) \in UpMsgs /\ Up("failed", 0) \in UpMsgs
        BY UpType, BoundsAssumption DEF UpStates, WorkerTypeOK, FinalCount
      <3>2. /\ <<Up("completed", FinalCount(c))>> \in Seq(UpMsgs)
            /\ <<Up("completed", FinalCount(c)), Up("failed", 0)>> \in Seq(UpMsgs)
        BY <3>1
      <3> QED
        BY <1>18, <3>2, WorkerReturnsType, WriteLostType DEF ReportFinalResults,
           NetTypeOK
    <2> QED
      BY <1>18, <2>1, <2>2, Frame DEF ReportFinalResults
  <1>19. CASE CloseDone(c)
    <2>1. WorkerTypeOK'
      BY <1>19 DEF CloseDone, Goto, WorkerTypeOK
    <2>2. NetTypeOK'
      BY <1>19, BoundsAssumption DEF CloseDone, Fault, NetTypeOK
    <2> QED
      BY <1>19, <2>1, <2>2, Frame DEF CloseDone
  <1>20. CASE InterruptWorker(c)
    <2>1. WorkerTypeOK'
      BY <1>20 DEF InterruptWorker, WorkerTypeOK
    <2>2. NetTypeOK'
      BY <1>20, BoundsAssumption DEF InterruptWorker, Fault, NetTypeOK
    <2> QED
      BY <1>20, <2>1, <2>2, Frame DEF InterruptWorker
  <1>21. CASE ConnectionLost(c)
    <2>1. NetTypeOK'
      BY <1>21, BoundsAssumption DEF ConnectionLost, Fault, NetTypeOK
    <2> QED
      BY <1>21, <2>1, Frame DEF ConnectionLost
  <1> QED
    BY <1>1, <1>2, <1>3, <1>4, <1>5, <1>6, <1>7, <1>8, <1>9, <1>10, <1>11, <1>12,
       <1>13, <1>14, <1>15, <1>16, <1>17, <1>18, <1>19, <1>20, <1>21 DEF WorkerStep,
          WorkerFault

\* Initially every variable has its type.
LEMMA InitType == Init => TypeOK
  <1> SUFFICES ASSUME Init PROVE TypeOK
    OBVIOUS
  <1>1. RunTypeOK
    BY DEF Init, RunTypeOK
  <1>2. TallyTypeOK
    BY DEF Init, TallyTypeOK
  <1>3. SignalTypeOK
    BY DEF Init, SignalTypeOK
  <1>4. ChanTypeOK
    BY ConfigAssumption DEF Init, ChanTypeOK
  <1>5. LoopTypeOK
    BY UpType DEF Init, LoopTypeOK, NoMsg, UpStates
  <1>6. InboxTypeOK
    BY DEF Init, InboxTypeOK
  <1>7. WorkerTypeOK
    BY BoundsAssumption DEF Init, WorkerTypeOK
  <1>8. NetTypeOK
    BY BoundsAssumption DEF Init, NetTypeOK
  <1> QED
    BY <1>1, <1>2, <1>3, <1>4, <1>5, <1>6, <1>7, <1>8 DEF TypeOK

\* Every step keeps the types.
LEMMA NextType == ASSUME TypeOK, [Next]_vars PROVE TypeOK'
  <1>1. CASE UNCHANGED vars
    BY <1>1, Frame DEF vars, coordVars, rwVars, TypeOK
  <1> QED
    BY <1>1, CoordinatorType, RemoteWorkerType, WorkerType DEF Next, Terminated

\* The coordinated test never leaves its types: in particular the remote
\* workers respect the capacities of the coordinator's channels.
THEOREM TypeCorrect == Spec => []TypeOK
  BY InitType, NextType, PTL DEF Spec

-----------------------------------------------------------------------------
(* The start barrier *)

\* A queue that holds a given message.
Holds(q, m) == \E k \in 1..Len(q) : q[k] = m

\* Before startLoadTest nobody is started; from then on at least the expected
\* number of workers is. c.workers is keyed by its entries' own IDs, which
\* makes the entries found by startLoadTest as many as the IDs; and the loop
\* of startLoadTest visits nobody else.
RegistryInv ==
    /\ cpc \in {"init", "peers", "wait"} => started = {}
    /\ started # {} => Cardinality(started) >= ExpectWorkers
    /\ \A i \in Ids : workers[i] # NoConn => IdOf[workers[i]] = i
    /\ cpc \in {"start", "startWait"} => \A i \in pending : workers[i] \in started

\* The word to start is under way only to workers of the test.
ToldInv ==
    \A c \in Conns : Holds(stateCtrl[c], "testing") \/ Holds(down[c], "testing")
                        => c \in started

LoadingInv == \A c \in Conns : Loading(c) => c \in started

BarrierInv == TypeOK /\ RegistryInv /\ ToldInv /\ LoadingInv

\* An extended queue holds nothing but the new message besides the old ones.
LEMMA HoldsAppend ==
    ASSUME NEW S, NEW q \in Seq(S), NEW x \in S, NEW m, Holds(Append(q, x), m)
    PROVE  Holds(q, m) \/ x = m
  BY DEF Holds

\* Reading from a queue adds nothing to it.
LEMMA HoldsTail ==
    ASSUME NEW S, NEW q \in Seq(S), q # <<>>, NEW m, Holds(Tail(q), m) PROVE Holds(q, m)
  BY DEF Holds

\* A queue holds its head.
LEMMA HoldsHead == ASSUME NEW S, NEW q \in Seq(S), q # <<>> PROVE Holds(q, Head(q))
  BY DEF Holds

\* An empty queue holds nothing.
LEMMA HoldsEmpty == ASSUME NEW m PROVE ~Holds(<<>>, m)
  BY DEF Holds

\* A concatenation holds what its parts hold.
LEMMA HoldsConcat ==
    ASSUME NEW S, NEW q \in Seq(S), NEW r \in Seq(S), NEW m, Holds(q \o r, m)
    PROVE  Holds(q, m) \/ Holds(r, m)
  <1>1. PICK k \in 1..Len(q \o r) : (q \o r)[k] = m
    BY DEF Holds
  <1>2. CASE k <= Len(q)
    BY <1>1, <1>2 DEF Holds
  <1>3. CASE k > Len(q)
    <2>1. k - Len(q) \in 1..Len(r) /\ r[k - Len(q)] = m
      BY <1>1, <1>3
    <2> QED
      BY <2>1 DEF Holds
  <1> QED
    BY <1>2, <1>3

\* A step of a worker reads or drops messages but adds none, and takes a
\* worker into its load test only on the word to start.
LEMMA WorkerEffect ==
    ASSUME TypeOK, NEW c \in Conns, WorkerStep(c) \/ WorkerFault(c)
    PROVE  /\ UNCHANGED <<cpc, workers, started, pending, stateCtrl>>
           /\ \/ down' = down
              \/ down[c] # <<>> /\ down' = [down EXCEPT ![c] = Tail(@)]
              \/ down' = [down EXCEPT ![c] = <<>>]
           /\ \A d \in Conns : Loading(d)' =>
                 Loading(d) \/ (d = c /\ down[c] # <<>> /\ Head(down[c]) = "testing")
  <1> USE DEF TypeOK, WorkerTypeOK, Loading, coordVars, ctrlVars, rwVars, inboxVars
  <1>1. CASE Dial(c)
    BY <1>1 DEF Dial, Goto
  <1>2. CASE DialGivesUp(c)
    BY <1>2 DEF DialGivesUp, Goto, netVars
  <1>3. CASE SendID(c)
    BY <1>3 DEF SendID, Goto, WorkerReturns, WriteLost
  <1>4. CASE ReadAccept(c)
    BY <1>4 DEF ReadAccept, Goto, WorkerReturns, Fails
  <1>5. CASE AcceptFails(c)
    BY <1>5 DEF AcceptFails, Goto, WorkerReturns
  <1>6. CASE ReadStart(c)
    BY <1>6 DEF ReadStart, Goto, WorkerReturns, Fails
  <1>7. CASE PollFails(c)
    BY <1>7 DEF PollFails, Goto, netVars
  <1>8. CASE PollCancelled(c)
    BY <1>8 DEF PollCancelled, Goto, WorkerReturns, Fails
  <1>9. CASE PollPanics(c)
    BY <1>9 DEF PollPanics, Goto
  <1>10. CASE Connect(c)
    BY <1>10 DEF Connect, Goto, netVars
  <1>11. CASE ConnectFails(c)
    BY <1>11 DEF ConnectFails, Goto, WorkerReturns, Fails
  <1>12. CASE SendTransactions(c)
    BY <1>12, BoundsAssumption DEF SendTransactions, netVars
  <1>13. CASE TransactorFails(c)
    BY <1>13 DEF TransactorFails, netVars
  <1>14. CASE TransactorsDone(c)
    BY <1>14 DEF TransactorsDone, Goto, netVars
  <1>15. CASE ReporterTick(c)
    BY <1>15 DEF ReporterTick, netVars
  <1>16. CASE ReportProgress(c)
    BY <1>16 DEF ReportProgress
  <1>17. CASE FailedTest(c)
    BY <1>17 DEF FailedTest, Goto, WorkerReturns, Fails
  <1>18. CASE ReportFinalResults(c)
    BY <1>18 DEF ReportFinalResults, Goto, WorkerReturns, WriteLost
  <1>19. CASE CloseDone(c)
    BY <1>19 DEF CloseDone, Goto
  <1>20. CASE InterruptWorker(c)
    BY <1>20 DEF InterruptWorker, netVars
  <1>21. CASE ConnectionLost(c)
    BY <1>21 DEF ConnectionLost, workerVars
  <1> QED
    BY <1>1, <1>2, <1>3, <1>4, <1>5, <1>6, <1>7, <1>8, <1>9, <1>10, <1>11, <1>12,
       <1>13, <1>14, <1>15, <1>16, <1>17, <1>18, <1>19, <1>20, <1>21 DEF WorkerStep,
          WorkerFault

\* Steps of the workers preserve the barrier.
LEMMA WorkerBarrier ==
    ASSUME BarrierInv, TypeOK', NEW c \in Conns, WorkerStep(c) \/ WorkerFault(c)
    PROVE  BarrierInv'
  <1>0. TypeOK /\ \A d \in Conns : down[d] \in Seq(DownMsgs)
    BY DEF BarrierInv, TypeOK, NetTypeOK
  <1>1. RegistryInv'
    BY <1>0, WorkerEffect DEF BarrierInv, RegistryInv
  <1>2. \A d \in Conns : Holds(down'[d], "testing") => Holds(down[d], "testing")
    <2>1. CASE down' = down
      BY <2>1
    <2>2. CASE down[c] # <<>> /\ down' = [down EXCEPT ![c] = Tail(@)]
      <3>1. Holds(Tail(down[c]), "testing") => Holds(down[c], "testing")
        BY <1>0, <2>2, HoldsTail
      <3> QED
        BY <2>2, <3>1, <1>0 DEF TypeOK, NetTypeOK
    <2>3. CASE down' = [down EXCEPT ![c] = <<>>]
      BY <2>3, <1>0, HoldsEmpty DEF TypeOK, NetTypeOK
    <2> QED
      BY <1>0, <2>1, <2>2, <2>3, WorkerEffect
  <1>3. ToldInv'
    BY <1>0, <1>2, WorkerEffect DEF BarrierInv, ToldInv
  <1>4. LoadingInv'
    <2>1. down[c] # <<>> /\ Head(down[c]) = "testing" => c \in started
      BY <1>0, HoldsHead DEF BarrierInv, ToldInv
    <2> QED
      BY <1>0, <2>1, WorkerEffect DEF BarrierInv, LoadingInv
  <1> QED
    BY <1>1, <1>3, <1>4 DEF BarrierInv

\* A remote worker passes on the word to start only if it was given it, and
\* never makes it up.
LEMMA RemoteWorkerEffect ==
    ASSUME TypeOK, NEW c \in Conns, RemoteWorkerStep(c)
    PROVE  /\ UNCHANGED <<workers, started, pending, wpc, tx>>
           /\ cpc' = cpc \/ cpc' = "crashed"
           /\ \/ stateCtrl' = stateCtrl
              \/ stateCtrl[c] # <<>> /\ stateCtrl' = [stateCtrl EXCEPT ![c] = Tail(@)]
              \/ stateCtrl' = [d \in Conns |-> <<>>]
           /\ \A d \in Conns : Holds(down'[d], "testing") =>
                 \/ Holds(down[d], "testing")
                 \/ d = c /\ stateCtrl[c] # <<>> /\ Head(stateCtrl[c]) = "testing"
  <1> USE DEF TypeOK, coordVars, ctrlVars, inboxVars, workerVars, netVars
  <1>0. down \in [Conns -> Seq(DownMsgs)]
    BY DEF NetTypeOK
  <1>t. ASSUME NEW m \in DownMsgs, m # "testing",
               down' = down \/ down' = [down EXCEPT ![c] = Append(@, m)]
        PROVE  \A d \in Conns : Holds(down'[d], "testing") => Holds(down[d], "testing")
    <2>1. Holds(Append(down[c], m), "testing") => Holds(down[c], "testing")
      BY <1>0, <1>t, HoldsAppend
    <2> QED
      BY <1>0, <1>t, <2>1
  <1>1. CASE ReadID(c)
    BY <1>1 DEF ReadID
  <1>2. CASE ReadIDFails(c)
    <2>1. TellWorker(c, "failed")
      BY <1>2 DEF ReadIDFails
    <2> QED
      BY <1>2, <2>1, <1>t DEF ReadIDFails, TellWorker, DownMsgs
  <1>3. CASE SendRegister(c)
    BY <1>3 DEF SendRegister
  <1>4. CASE RegisterAccepted(c)
    <2>1. CASE WriteDown(c, "accepted", TRUE)
      <3>1. down' = down \/ down' = [down EXCEPT ![c] = Append(@, "accepted")]
        BY <2>1 DEF WriteDown
      <3> QED
        BY <1>4, <3>1, <1>t DEF RegisterAccepted, DownMsgs
    <2>2. CASE AcceptanceLost(c)
      <3>1. ASSUME NEW s \in {<<>>, <<"accepted">>, <<"accepted", "rejected">>}
            PROVE  s \in Seq(DownMsgs) /\ ~Holds(s, "testing")
        <4>1. CASE s = <<>>
          BY <4>1, HoldsEmpty
        <4>2. CASE s = <<"accepted">>
          BY <4>2 DEF DownMsgs, Holds
        <4>3. CASE s = <<"accepted", "rejected">>
          <5>1. Len(s) = 2 /\ s[1] = "accepted" /\ s[2] = "rejected" /\ s \in Seq(DownMsgs)
            BY <4>3 DEF DownMsgs
          <5>2. \A k \in 1..2 : k = 1 \/ k = 2
            OBVIOUS
          <5> QED
            BY <5>1, <5>2 DEF Holds
        <4> QED
          BY <4>1, <4>2, <4>3
      <3>2. ASSUME NEW s \in {<<>>, <<"accepted">>, <<"accepted", "rejected">>},
                   Holds(down[c] \o s, "testing")
            PROVE  Holds(down[c], "testing")
        BY <1>0, <3>1, <3>2, HoldsConcat
      <3>3. \/ down' = down
            \/ \E s \in {<<>>, <<"accepted">>, <<"accepted", "rejected">>} :
                  down' = [down EXCEPT ![c] = down[c] \o s]
        BY <2>2 DEF AcceptanceLost
      <3>4. \A d \in Conns : Holds(down'[d], "testing") => Holds(down[d], "testing")
        BY <1>0, <3>2, <3>3
      <3> QED
        BY <1>4, <3>4 DEF RegisterAccepted
    <2> QED
      BY <1>4, <2>1, <2>2 DEF RegisterAccepted
  <1>5. CASE RegisterRejected(c)
    <2>1. TellWorker(c, "rejected")
      BY <1>5 DEF RegisterRejected
    <2> QED
      BY <1>5, <2>1, <1>t DEF RegisterRejected, TellWorker, DownMsgs
  <1>6. CASE RegisterTimeout(c)
    <2>1. TellWorker(c, "rejected")
      BY <1>6 DEF RegisterTimeout
    <2> QED
      BY <1>6, <2>1, <1>t DEF RegisterTimeout, TellWorker, DownMsgs
  <1>7. CASE CreateMetrics(c)
    <2>1. down' = down /\ UNCHANGED <<workers, started, pending, wpc, tx>>
      BY <1>7 DEF CreateMetrics
    <2>2. /\ cpc' = cpc \/ cpc' = "crashed"
          /\ stateCtrl' = stateCtrl \/ stateCtrl' = [d \in Conns |-> <<>>]
      BY <1>7 DEF CreateMetrics, ProcessGone
    <2> QED
      BY <2>1, <2>2
  <1>8. CASE HandleCtrl(c)
    <2> DEFINE m == Head(stateCtrl[c])
    <2>1. /\ stateCtrl[c] # <<>>
          /\ stateCtrl' = [stateCtrl EXCEPT ![c] = Tail(@)]
          /\ UNCHANGED <<cpc, workers, started, pending, wpc, tx>>
      BY <1>8 DEF HandleCtrl
    <2>2. down' = down \/ down' = [down EXCEPT ![c] = Append(@, m)]
      BY <1>8 DEF HandleCtrl, WriteDown
    <2>3. m \in DownMsgs
      BY <2>1 DEF InboxTypeOK, DownMsgs
    <2> QED
      BY <2>1, <2>2, <2>3, <1>t, <1>0
  <1>9. CASE StopNoticed(c)
    BY <1>9 DEF StopNoticed
  <1>10. CASE ReadUpdate(c)
    BY <1>10 DEF ReadUpdate
  <1>11. CASE ReadUpdateFails(c)
    BY <1>11 DEF ReadUpdateFails
  <1>12. CASE Forward(c)
    BY <1>12 DEF Forward
  <1>13. CASE Unregister(c)
    BY <1>13 DEF Unregister
  <1> QED
    BY <1>1, <1>2, <1>3, <1>4, <1>5, <1>6, <1>7, <1>8, <1>9, <1>10, <1>11, <1>12, <1>13
    DEF RemoteWorkerStep

\* Steps of the remote workers preserve the barrier.
LEMMA RemoteWorkerBarrier ==
    ASSUME BarrierInv, TypeOK', NEW c \in Conns, RemoteWorkerStep(c) PROVE BarrierInv'
  <1>0. /\ TypeOK
        /\ \A d \in Conns : stateCtrl[d] \in Seq({"testing", "failed"})
    BY DEF BarrierInv, TypeOK, InboxTypeOK
  <1>1. RegistryInv'
    BY <1>0, RemoteWorkerEffect DEF BarrierInv, RegistryInv
  <1>2. \A d \in Conns : Holds(stateCtrl'[d], "testing") => Holds(stateCtrl[d], "testing")
    <2>1. CASE stateCtrl' = stateCtrl
      BY <2>1
    <2>2. CASE stateCtrl[c] # <<>> /\ stateCtrl' = [stateCtrl EXCEPT ![c] = Tail(@)]
      <3>1. Holds(Tail(stateCtrl[c]), "testing") => Holds(stateCtrl[c], "testing")
        BY <1>0, <2>2, HoldsTail
      <3> QED
        BY <2>2, <3>1, <1>0 DEF TypeOK, InboxTypeOK
    <2>3. CASE stateCtrl' = [d \in Conns |-> <<>>]
      BY <2>3, HoldsEmpty
    <2> QED
      BY <1>0, <2>1, <2>2, <2>3, RemoteWorkerEffect
  <1>3. ToldInv'
    <2>1. stateCtrl[c] # <<>> /\ Head(stateCtrl[c]) = "testing" => c \in started
      BY <1>0, HoldsHead DEF BarrierInv, ToldInv
    <2> QED
      BY <1>0, <1>2, <2>1, RemoteWorkerEffect DEF BarrierInv, ToldInv
  <1>4. LoadingInv'
    BY <1>0, RemoteWorkerEffect DEF BarrierInv, LoadingInv, Loading
  <1> QED
    BY <1>1, <1>3, <1>4 DEF BarrierInv

\* Steps of Run that register nobody and start nobody.
LEMMA NobodyStarted ==
    ASSUME BarrierInv, TypeOK',
           UNCHANGED <<started, wpc, tx, down>>,
           \A i \in Ids : workers'[i] = workers[i] \/ workers'[i] = NoConn,
           \A d \in Conns : Holds(stateCtrl'[d], "testing") => Holds(stateCtrl[d], "testing"),
           cpc' \in {"init", "peers", "wait"} => cpc \in {"init", "peers", "wait"},
           cpc' \in {"start", "startWait"} =>
               cpc \in {"start", "startWait"} /\ UNCHANGED <<pending, workers>>
    PROVE  BarrierInv'
  <1>1. RegistryInv'
    BY DEF BarrierInv, RegistryInv
  <1>2. ToldInv'
    BY DEF BarrierInv, ToldInv
  <1>3. LoadingInv'
    BY DEF BarrierInv, LoadingInv, Loading
  <1> QED
    BY <1>1, <1>2, <1>3 DEF BarrierInv

\* startLoadTest passes the word to start to an entry of c.workers.
LEMMA StartNextBarrier ==
    ASSUME BarrierInv, TypeOK', NEW i \in Ids, StartNext(i) PROVE BarrierInv'
  <1>0. /\ TypeOK /\ RegistryInv /\ ToldInv /\ LoadingInv
        /\ stateCtrl \in [Conns -> Seq({"testing", "failed"})]
    BY DEF BarrierInv, TypeOK, InboxTypeOK
  <1>1. /\ cpc = "start" /\ cpc' = "startWait" /\ i \in pending
        /\ pending' = pending \ {i}
        /\ stateCtrl' = [stateCtrl EXCEPT ![workers[i]] = Append(stateCtrl[workers[i]], "testing")]
        /\ UNCHANGED <<workers, started, wpc, tx, down>>
    BY DEF StartNext, SendCtrl, workerVars, netVars
  <1>2. workers[i] \in started /\ started \subseteq Conns
    BY <1>0, <1>1 DEF RegistryInv, TypeOK, RunTypeOK
  <1>3. RegistryInv'
    BY <1>0, <1>1 DEF RegistryInv
  <1>4. ToldInv'
    <2>1. \A d \in Conns \ {workers[i]} : stateCtrl'[d] = stateCtrl[d]
      BY <1>0, <1>1
    <2> QED
      BY <1>0, <1>1, <1>2, <2>1 DEF ToldInv
  <1>5. LoadingInv'
    BY <1>0, <1>1 DEF LoadingInv, Loading
  <1> QED
    BY <1>3, <1>4, <1>5 DEF BarrierInv

\* The registration that completes the expected number: the entries found are
\* as many as their IDs.
LEMMA HandleRegisterBarrier == ASSUME BarrierInv, TypeOK', HandleRegister PROVE BarrierInv'
  <1> DEFINE c == Head(workerRegister)
             reg == IF Refused(c) THEN Registered ELSE Registered \cup {IdOf[c]}
  <1>0. /\ TypeOK /\ RegistryInv /\ ToldInv /\ LoadingInv
        /\ c \in Conns /\ IdOf[c] \in Ids
        /\ workers \in [Ids -> Conns \cup {NoConn}]
    BY IdsAssumption DEF HandleRegister, BarrierInv, TypeOK, RunTypeOK, ChanTypeOK
  <1>1. /\ cpc = "wait"
        /\ workers' = IF Refused(c) THEN workers ELSE [workers EXCEPT ![IdOf[c]] = c]
        /\ \/ /\ AllRegistered(reg) /\ cpc' = "start"
              /\ pending' = reg /\ started' = {workers'[i] : i \in reg}
           \/ UNCHANGED <<cpc, pending, started>>
        /\ UNCHANGED <<stateCtrl, down, wpc, tx>>
    BY DEF HandleRegister, workerVars, netVars
  <1>2. started = {}
    BY <1>0, <1>1 DEF RegistryInv
  <1>3. \A i \in Ids : workers'[i] # NoConn => IdOf[workers'[i]] = i
    BY <1>0, <1>1 DEF RegistryInv
  <1>4. reg \subseteq Ids /\ \A i \in reg : workers'[i] \in Conns /\ IdOf[workers'[i]] = i
    <2>1. \A i \in reg : i \in Ids /\ workers'[i] # NoConn
      BY <1>0, <1>1, ConnsAssumption DEF Registered
    <2>2. workers' \in [Ids -> Conns \cup {NoConn}]
      BY DEF TypeOK, RunTypeOK
    <2> QED
      BY <2>1, <2>2, <1>3
  <1>5. RegistryInv'
    <2>1. CASE /\ AllRegistered(reg) /\ cpc' = "start"
               /\ pending' = reg /\ started' = {workers'[i] : i \in reg}
      <3>1. IsFiniteSet(started') /\ started' \subseteq Conns
        BY <2>1, <1>4, ConnsAssumption, FS_Subset
      <3>2. [d \in started' |-> IdOf[d]] \in Surjection(started', reg)
        BY <2>1, <1>4 DEF Surjection
      <3>3. Cardinality(reg) <= Cardinality(started') /\ IsFiniteSet(reg)
        BY <3>1, <3>2, FS_Surjection
      <3>4. Cardinality(started') \in Nat /\ Cardinality(reg) \in Nat
        BY <3>1, <3>3, FS_CardinalityType
      <3>5. Cardinality(started') >= ExpectWorkers
        BY <2>1, <3>3, <3>4, ConfigAssumption DEF AllRegistered
      <3> QED
        BY <2>1, <3>5, <1>3 DEF RegistryInv
    <2>2. CASE UNCHANGED <<cpc, pending, started>>
      BY <2>2, <1>1, <1>2, <1>3 DEF RegistryInv
    <2> QED
      BY <1>1, <2>1, <2>2
  <1>6. ToldInv' /\ LoadingInv'
    BY <1>0, <1>1, <1>2 DEF ToldInv, LoadingInv, Loading
  <1> QED
    BY <1>5, <1>6 DEF BarrierInv

\* Steps of the coordinator preserve the barrier.
LEMMA CoordinatorBarrier ==
    ASSUME BarrierInv, TypeOK', CoordinatorStep \/ CoordinatorFault PROVE BarrierInv'
  <1> USE DEF ctrlVars, rwVars, inboxVars, workerVars, netVars
  <1>0. /\ workers \in [Ids -> Conns \cup {NoConn}]
        /\ stateCtrl \in [Conns -> Seq({"testing", "failed"})]
    BY DEF BarrierInv, TypeOK, RunTypeOK, InboxTypeOK
  <1>1. CASE WaitForPeers
    BY <1>0, <1>1, NobodyStarted DEF WaitForPeers
  <1>2. CASE PeersFailed
    BY <1>0, <1>2, NobodyStarted DEF PeersFailed
  <1>3. CASE Listen
    BY <1>0, <1>3, NobodyStarted DEF Listen
  <1>4. CASE HandleUnregisterWaiting
    BY <1>0, <1>4, NobodyStarted DEF HandleUnregisterWaiting, Unregistered
  <1>5. CASE ConnectTimeout
    BY <1>0, <1>5, NobodyStarted DEF ConnectTimeout, ReturnErr
  <1>6. CASE StopOrServerNoticed
    BY <1>0, <1>6, NobodyStarted DEF StopOrServerNoticed, ReturnErr
  <1>7. CASE StartAcked
    BY <1>0, <1>7, NobodyStarted DEF StartAcked
  <1>8. CASE StartFailed
    BY <1>0, <1>8, NobodyStarted DEF StartFailed, ReturnErr
  <1>9. CASE FailAnswered
    BY <1>0, <1>9, NobodyStarted DEF FailAnswered
  <1>10. CASE SetFailed
    BY <1>0, <1>10, NobodyStarted DEF SetFailed
  <1>11. CASE HandleUpdate
    BY <1>0, <1>11, NobodyStarted DEF HandleUpdate
  <1>12. CASE HandleUnregisterTesting
    BY <1>0, <1>12, NobodyStarted DEF HandleUnregisterTesting, ReturnErr, Unregistered
  <1>13. CASE Complete
    BY <1>0, <1>13, NobodyStarted DEF Complete
  <1>14. CASE StopRemoteWorkers
    BY <1>0, <1>14, NobodyStarted DEF StopRemoteWorkers
  <1>15. CASE ShutdownServer
    BY <1>0, <1>15, NobodyStarted DEF ShutdownServer
  <1>16. CASE Exit
    BY <1>0, <1>16, NobodyStarted, HoldsEmpty DEF Exit, ProcessGone
  <1>17. CASE Interrupt
    BY <1>0, <1>17, NobodyStarted DEF Interrupt
  <1>18. CASE TrapSetsMetric
    BY <1>0, <1>18, NobodyStarted DEF TrapSetsMetric
  <1>19. CASE ServerFails
    BY <1>0, <1>19, NobodyStarted DEF ServerFails
  <1>20. CASE LogTestingProgress
    BY <1>0, <1>20, NobodyStarted DEF LogTestingProgress, vars, coordVars
  <1>21. ASSUME NEW i \in Ids, FailNext(i) PROVE BarrierInv'
    <2>1. ASSUME NEW d \in Conns, Holds(Append(stateCtrl[d], "failed"), "testing")
          PROVE  Holds(stateCtrl[d], "testing")
      BY <1>0, <2>1, HoldsAppend
    <2>2. stateCtrl' = [stateCtrl EXCEPT ![workers[i]] = Append(stateCtrl[workers[i]], "failed")]
      BY <1>21 DEF FailNext, SendCtrl
    <2>3. \A d \in Conns : Holds(stateCtrl'[d], "testing") => Holds(stateCtrl[d], "testing")
      BY <1>0, <2>1, <2>2
    <2> QED
      BY <1>0, <1>21, <2>3, NobodyStarted DEF FailNext
  <1> QED
    BY <1>1, <1>2, <1>3, <1>4, <1>5, <1>6, <1>7, <1>8, <1>9, <1>10, <1>11, <1>12,
       <1>13, <1>14, <1>15, <1>16, <1>17, <1>18, <1>19, <1>20, <1>21, HandleRegisterBarrier, StartNextBarrier
    DEF CoordinatorStep, CoordinatorFault

\* The barrier stands initially ...
LEMMA BarrierInit == Init => BarrierInv
  <1> SUFFICES ASSUME Init PROVE BarrierInv
    OBVIOUS
  <1>1. TypeOK
    BY InitType
  <1>2. RegistryInv
    BY DEF Init, RegistryInv
  <1>3. ToldInv
    BY HoldsEmpty DEF Init, ToldInv
  <1>4. LoadingInv
    BY DEF Init, LoadingInv, Loading
  <1> QED
    BY <1>1, <1>2, <1>3, <1>4 DEF BarrierInv

\* ... and no step takes it down.
LEMMA BarrierNext == BarrierInv /\ [Next]_vars => BarrierInv'
  <1> SUFFICES ASSUME BarrierInv, [Next]_vars PROVE BarrierInv'
    OBVIOUS
  <1>1. TypeOK'
    BY NextType DEF BarrierInv
  <1>2. CASE UNCHANGED vars
    BY <1>1, <1>2, NobodyStarted
    DEF vars, coordVars, ctrlVars, rwVars, inboxVars, workerVars, netVars
  <1> QED
    BY <1>1, <1>2, CoordinatorBarrier, RemoteWorkerBarrier, WorkerBarrier
    DEF Next, Terminated

\* No worker applies load before startLoadTest found the expected number of
\* workers registered, and no other worker ever does.
THEOREM StartIsABarrier == Spec => []StartBarrier
  <1>1. BarrierInv => StartBarrier
    BY DEF BarrierInv, RegistryInv, LoadingInv, StartBarrier
  <1> QED
    BY <1>1, BarrierInit, BarrierNext, PTL DEF Spec

=============================================================================
