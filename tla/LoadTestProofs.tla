---------------------------- MODULE LoadTestProofs ----------------------------
(***************************************************************************)
(* Proof that a coordinated load test implements LoadTest: what happens in *)
(* the coordinator, the remote workers, the workers and on the network is, *)
(* step by step, a test that one team begins and completes as a whole.     *)
(***************************************************************************)
EXTENDS ReportProofs

-----------------------------------------------------------------------------
(* The phases *)

\* A step that LoadTest does not see.
LEMMA Unseen ==
    ASSUME UNCHANGED <<result, started, counted, stats, tx>>,
           cpc' = "crashed" <=> cpc = "crashed"
    PROVE  UNCHANGED Promise!vars
  <1>1. Phase' = Phase
    BY DEF Phase
  <1>2. Reported' = Reported
    BY DEF Reported
  <1> QED
    BY <1>1, <1>2 DEF Promise!vars

\* Run is under way as long as it has neither a result nor crashed.
LEMMA PhaseOfRun ==
    ASSUME CompletionInv,
           cpc \in {"init", "peers", "wait", "start", "startWait", "testing", "complete"}
    PROVE  Phase = IF started # {} THEN "running" ELSE "gathering"
  BY DEF CompletionInv, ProgressInv, Phase

\* What LoadTest reports of the workers.
LEMMA ReportedNothing ==
    ASSUME CompletionInv, stats = [i \in Ids |-> 0]
    PROVE  Reported = [c \in Conns |-> 0]
  <1>1. \A c \in Conns : IdOf[c] \in Ids
    BY IdsAssumption
  <1> QED
    BY <1>1 DEF Reported

\* Whoever does not take part has sent nothing.
LEMMA LoadOfOthers ==
    ASSUME CompletionInv PROVE \A c \in Conns \ started : tx[c] = 0
  <1>1. \A c \in Conns : tx[c] \in Nat
    BY BoundsAssumption DEF CompletionInv, BarrierInv, TypeOK, WorkerTypeOK
  <1> QED
    BY <1>1 DEF CompletionInv, BarrierInv, LoadingInv, Loading

-----------------------------------------------------------------------------
(* Steps of the coordinator *)

\* startLoadTest finds the expected number of workers: the test begins.
LEMMA RegisterBegins ==
    ASSUME CompletionInv, CompletionInv', HandleRegister
    PROVE  Promise!Begin \/ UNCHANGED Promise!vars
  <1>1. /\ cpc = "wait" /\ result = "none" /\ started = {} /\ stats = [i \in Ids |-> 0]
        /\ UNCHANGED <<result, counted, stats, tx>>
        /\ \/ cpc' = "start"
           \/ UNCHANGED <<cpc, started>>
    BY DEF HandleRegister, CompletionInv, BarrierInv, RegistryInv, ProgressInv, workerVars
  <1>2. CASE UNCHANGED <<cpc, started>>
    BY <1>1, <1>2, Unseen
  <1>3. CASE cpc' = "start"
    <2>1. started' # {}
      BY <1>3 DEF CompletionInv, ProgressInv
    <2>2. started' \in SUBSET Conns /\ Cardinality(started') = ExpectWorkers
      BY <2>1 DEF CompletionInv, TeamInv, BarrierInv, TypeOK, RunTypeOK
    <2>3. Phase = "gathering" /\ Phase' = "running"
      BY <1>1, <1>3, <2>1 DEF Phase
    <2>4. Reported' = Reported
      <3>1. Reported = [c \in Conns |-> 0]
        BY <1>1, ReportedNothing
      <3>2. \A c \in Conns : IdOf[c] \in Ids
        BY IdsAssumption
      <3>3. Reported' = [c \in Conns |-> 0]
        BY <1>1, <3>2 DEF Reported
      <3> QED
        BY <3>1, <3>3
    <2>5. Promise!Cardinality(started') = Cardinality(started')
      BY DEF Promise!Cardinality, Cardinality
    <2> QED
      BY <1>1, <2>2, <2>3, <2>4, <2>5 DEF Promise!Begin
  <1> QED
    BY <1>1, <1>2, <1>3

\* A completion is counted; the last one writes the whole team's loads.
LEMMA UpdateCompletes ==
    ASSUME CompletionInv, CompletionInv', CountedInv', HandleUpdate
    PROVE  (\E c \in Conns : Promise!Complete(c)) \/ UNCHANGED Promise!vars
  <1>0. TypeOK /\ (\A e \in Conns : OrderInv(e) /\ WayInv(e)) /\ ProgressInv /\ ProgressInv'
        /\ started \subseteq Conns
    BY DEF CompletionInv, BarrierInv, TypeOK, RunTypeOK
  <1>1. PICK m, c : m = Head(workerUpdate) /\ c = m.conn
    OBVIOUS
  <1>2. /\ cpc = "testing" /\ started # {} /\ UNCHANGED <<result, started, tx>>
        /\ c \in Conns /\ c \in started /\ c \notin counted
    BY <1>0, <1>1, UpdateOf DEF HandleUpdate, ProgressInv, workerVars
  <1>3. CASE ~Known(m)
    BY <1>1, <1>2, <1>3, UnknownUpdate, Unseen DEF tallyVars
  <1>4. CASE Known(m) /\ m.state # "completed"
    <2>1. UNCHANGED <<counted, stats, cpc>>
      BY <1>1, <1>4 DEF HandleUpdate
    <2> QED
      BY <1>2, <2>1, Unseen
  <1>5. CASE Known(m) /\ m.state = "completed"
    <2>1. counted' = counted \cup {c}
      BY <1>0, <1>1, <1>5, KnownUpdate
    <2>2. \/ cpc' = "complete" /\ completed' >= ExpectWorkers
          \/ cpc' = "testing" /\ completed' < ExpectWorkers /\ stats' = stats
      BY <1>0, <1>1, <1>2, <1>5 DEF HandleUpdate, ProgressInv
    <2>3. Phase = "running" /\ Phase' = "running"
      BY <1>2, <2>2, PhaseOfRun DEF CompletionInv, ProgressInv, Phase
    <2>4. Reported' = IF counted' = started THEN tx ELSE Reported
      <3>1. CASE cpc' = "complete"
        <4>1. counted' = started /\ stats' = totalTxsPerWorker'
          BY <1>0, <1>2, <2>2, <3>1 DEF CountedInv, ProgressInv
        <4>2. ASSUME NEW d \in Conns PROVE Reported'[d] = tx[d]
          <5>1. CASE d \in started
            <6>1. Tally(d)' = tx'[d]
              BY <4>1, <5>1 DEF CompletionInv, WayInv
            <6> QED
              BY <1>2, <4>1, <5>1, <6>1 DEF Reported, Tally
          <5>2. CASE d \notin started
            BY <1>2, <5>2, LoadOfOthers DEF Reported
          <5> QED
            BY <5>1, <5>2
        <4>3. Reported' = [d \in Conns |-> tx[d]]
          BY <4>2 DEF Reported
        <4> QED
          BY <1>0, <4>1, <4>3 DEF TypeOK, WorkerTypeOK
      <3>2. CASE cpc' = "testing"
        <4>1. counted' # started
          BY <1>2, <2>2, <3>2 DEF CountedInv
        <4> QED
          BY <1>2, <2>2, <3>2, <4>1 DEF Reported
      <3> QED
        BY <2>2, <3>1, <3>2
    <2>5. Promise!Complete(c)
      BY <1>2, <2>1, <2>3, <2>4 DEF Promise!Complete
    <2> QED
      BY <1>2, <2>5
  <1> QED
    BY <1>3, <1>4, <1>5

\* Run returns an error only as long as some completion is missing.
LEMMA ErrorFails ==
    ASSUME CompletionInv, UNCHANGED <<started, counted, stats, tx>>,
           cpc \in {"peers", "wait", "start", "startWait", "testing"}, result' = "err"
    PROVE  Promise!Fail
  <1>1. result = "none" /\ completed < ExpectWorkers
    BY DEF CompletionInv, ProgressInv
  <1>2. Phase \in {"gathering", "running"} /\ Phase' = "failed"
    BY PhaseOfRun DEF Phase
  <1>3. started = {} \/ counted # started
    BY <1>1, WholeTeam DEF CountedInv
  <1>4. Reported' = Reported
    BY DEF Reported
  <1> QED
    BY <1>2, <1>3, <1>4 DEF Promise!Fail

\* Run returns nil when all completions have been counted.
LEMMA CompleteSucceeds == ASSUME CompletionInv, Complete PROVE Promise!Succeed
  <1>1. /\ cpc = "complete" /\ result' = "ok" /\ UNCHANGED <<started, counted, stats, tx>>
    BY DEF Complete, tallyVars, workerVars
  <1>2. started # {} /\ counted = started
    BY <1>1, WholeTeam DEF CountedInv, CompletionInv, ProgressInv
  <1>3. Phase = "running" /\ Phase' = "succeeded"
    BY <1>1, <1>2, PhaseOfRun DEF Phase
  <1>4. Reported' = Reported
    BY <1>1 DEF Reported
  <1> QED
    BY <1>1, <1>2, <1>3, <1>4 DEF Promise!Succeed

\* Every step of the coordinator is a step of LoadTest or none.
LEMMA CoordinatorPromise ==
    ASSUME CompletionInv, CompletionInv', CountedInv', CoordinatorStep \/ CoordinatorFault
    PROVE  [Promise!Next]_Promise!vars
  <1> USE DEF tallyVars, workerVars
  <1>1. CASE HandleRegister
    BY <1>1, RegisterBegins DEF Promise!Next
  <1>2. CASE HandleUpdate
    BY <1>2, UpdateCompletes DEF Promise!Next
  <1>3. CASE Complete
    BY <1>3, CompleteSucceeds DEF Promise!Next
  <1>4. CASE PeersFailed \/ ConnectTimeout \/ StopOrServerNoticed \/ StartFailed
    <2>1. /\ UNCHANGED <<started, counted, stats, tx>> /\ result' = "err"
          /\ cpc \in {"peers", "wait", "start", "startWait", "testing"}
      BY <1>4 DEF PeersFailed, ConnectTimeout, StopOrServerNoticed, StartFailed, ReturnErr
    <2> QED
      BY <2>1, ErrorFails DEF Promise!Next
  <1>5. CASE HandleUnregisterTesting
    <2>1. /\ UNCHANGED <<started, counted, stats, tx>> /\ cpc = "testing"
          /\ result' = "err" \/ UNCHANGED <<cpc, result>>
      BY <1>5 DEF HandleUnregisterTesting, ReturnErr
    <2> QED
      BY <2>1, ErrorFails, Unseen DEF Promise!Next
  <1>6. CASE WaitForPeers \/ Listen \/ HandleUnregisterWaiting
    BY <1>6, Unseen DEF WaitForPeers, Listen, HandleUnregisterWaiting
  <1>7. CASE StartAcked \/ \E i \in Ids : StartNext(i)
    BY <1>7, Unseen DEF StartAcked, StartNext
  <1>8. CASE FailAnswered \/ SetFailed \/ \E i \in Ids : FailNext(i)
    BY <1>8, Unseen DEF FailAnswered, SetFailed, FailNext
  <1>9. CASE StopRemoteWorkers \/ ShutdownServer \/ Exit
    BY <1>9, Unseen DEF StopRemoteWorkers, ShutdownServer, Exit
  <1>10. CASE TrapSetsMetric \/ Interrupt \/ ServerFails \/ LogTestingProgress
    BY <1>10, Unseen
    DEF TrapSetsMetric, Interrupt, ServerFails, LogTestingProgress, vars, coordVars
  <1> QED
    BY <1>1, <1>2, <1>3, <1>4, <1>5, <1>6, <1>7, <1>8, <1>9, <1>10
    DEF CoordinatorStep, CoordinatorFault

-----------------------------------------------------------------------------
(* Steps of the others *)

\* A remote worker can do nothing that LoadTest sees but take the process down.
LEMMA RemoteWorkerPromise ==
    ASSUME CompletionInv, NEW c \in Conns, RemoteWorkerStep(c)
    PROVE  [Promise!Next]_Promise!vars
  <1>1. /\ UNCHANGED <<result, started, counted, stats, tx>>
        /\ cpc' = cpc \/ (cpc' = "crashed" /\ Alive)
    BY RelayEffect DEF CompletionInv, BarrierInv, tallyVars, workerVars
  <1>2. CASE cpc' = cpc \/ result # "none"
    <2>1. Phase' = Phase /\ Reported' = Reported
      BY <1>1, <1>2 DEF Phase, Reported, CompletionInv, BarrierInv, TypeOK, RunTypeOK
    <2> QED
      BY <1>1, <2>1 DEF Promise!vars
  <1>3. CASE cpc' = "crashed" /\ Alive /\ result = "none"
    <2>1. Phase \in {"gathering", "running"} /\ Phase' = "crashed" /\ Reported' = Reported
      BY <1>1, <1>3 DEF Phase, Reported, Alive
    <2> QED
      BY <1>1, <2>1 DEF Promise!Crash, Promise!Next
  <1> QED
    BY <1>1, <1>2, <1>3

\* A worker sends only when it takes part, and no more once it has completed.
LEMMA WorkerPromise ==
    ASSUME CompletionInv, CompletionInv', NEW c \in Conns, WorkerStep(c) \/ WorkerFault(c)
    PROVE  [Promise!Next]_Promise!vars
  <1>0. /\ TypeOK /\ tx \in [Conns -> 0..MaxTx] /\ tx' \in [Conns -> 0..MaxTx]
        /\ started \subseteq Conns /\ result \in {"none", "ok", "err"}
    BY DEF CompletionInv, BarrierInv, TypeOK, RunTypeOK, WorkerTypeOK
  <1>1. /\ UNCHANGED <<cpc, result, started, tallyVars>>
        /\ \A d \in Conns \ {c} : tx'[d] = tx[d]
    BY <1>0, WorkerReportsEffect DEF ReportVars
  <1>2. CASE SendTransactions(c)
    <2>1. wpc[c] = "testing" /\ tx' = [tx EXCEPT ![c] = @ + 1]
      BY <1>2 DEF SendTransactions
    <2>2. c \in started /\ c \notin counted
      BY <2>1 DEF CompletionInv, BarrierInv, LoadingInv, Loading, WayInv, Finished
    <2>3. result # "ok"
      BY <2>1, <2>2, SuccessOfTeam DEF Finished
    <2>4. Phase \in {"running", "failed", "crashed"} /\ Phase' = Phase /\ Reported' = Reported
      BY <1>0, <1>1, <2>2, <2>3 DEF Phase, Reported, tallyVars
    <2>5. Promise!Send(c)
      BY <1>1, <2>1, <2>2, <2>4 DEF Promise!Send, tallyVars
    <2> QED
      BY <2>5 DEF Promise!Next
  <1>3. CASE ~SendTransactions(c)
    <2>1. tx'[c] = tx[c]
      BY <1>0, <1>3, WorkerReportsEffect DEF Silent, ReporterTick, ReportProgress,
         ReportFinalResults
    <2>2. tx' = tx
      BY <1>0, <1>1, <2>1
    <2> QED
      BY <1>1, <2>2, Unseen DEF tallyVars
  <1> QED
    BY <1>2, <1>3

\* A coordinated load test is a load test of one team: gathered before anyone
\* sends, every completion counted once and after the last transaction, success
\* if and only if the whole team completes, the report exact.
THEOREM OneTeamOneTest == Spec => ImplementsLoadTest
  <1>1. Init => Promise!Init
    <2> SUFFICES ASSUME Init PROVE Promise!Init
      OBVIOUS
    <2>1. Phase = "gathering" /\ started = {} /\ counted = {} /\ tx = [c \in Conns |-> 0]
      BY DEF Init, Phase
    <2>2. Reported = [c \in Conns |-> 0]
      BY <2>1 DEF Reported
    <2> QED
      BY <2>1, <2>2 DEF Promise!Init
  <1>2. CompletionInv => CountedInv
    BY WholeTeam
  <1>3. CompletionInv /\ CompletionInv' /\ CountedInv' /\ [Next]_vars => [Promise!Next]_Promise!vars
    <2> SUFFICES ASSUME CompletionInv, CompletionInv', CountedInv', [Next]_vars
                 PROVE  [Promise!Next]_Promise!vars
      OBVIOUS
    <2>1. CASE UNCHANGED vars
      BY <2>1, Unseen DEF vars, coordVars, tallyVars, workerVars
    <2> QED
      BY <2>1, CoordinatorPromise, RemoteWorkerPromise, WorkerPromise DEF Next, Terminated
  <1> QED
    BY <1>1, <1>2, <1>3, ReportsInOrder, PTL DEF Spec, ImplementsLoadTest, Promise!Spec

=============================================================================
