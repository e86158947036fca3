---------------------------- MODULE ReportProofs -----------------------------
(***************************************************************************)
(* Proofs about the reports of load and completion that travel from the    *)
(* workers through their remote workers to the coordinator, and about what *)
(* the coordinator makes of them: unanimous success, exact statistics, and *)
(* the refinement of LoadTest.                                             *)
(***************************************************************************)
EXTENDS CoordinatedTestProofs

-----------------------------------------------------------------------------
(* Reports under way *)

Contents(q) == {q[k] : k \in 1..Len(q)}

\* A report b may come after the report a of the same worker.
Follows(a, b) == a.state = "testing" /\ a.tx <= b.tx

\* The members of a queue that are in A stand in an order a worker produces.
Ordered(q, A) ==
    \A j, k \in 1..Len(q) : j < k /\ q[j] \in A /\ q[k] \in A => Follows(q[j], q[k])

Reports == {m \in UpMsgs : m.state \in {"testing", "completed"}}
UpdatesOf(c) == {u \in Updates : u.conn = c}

\* The remote worker has left its loops and reads no more.
Returned(c) == rpc[c] \in {"unregister", "done"}

\* The reports of a worker that may still reach the coordinator: those in the
\* coordinator's channel, with the remote worker, and on the connection.
Queued(c) == Contents(workerUpdate) \cap UpdatesOf(c)
Passing(c) == IF rpc[c] = "forward" THEN {rmsg[c]} ELSE {}
Sent(c) == IF Returned(c) THEN {} ELSE Contents(up[c]) \cap Reports

\* What the coordinator has counted for a worker, and what the worker would
\* report next.
Tally(c) == totalTxsPerWorker[IdOf[c]]
Source(c) == Up("testing", IF rep[c] = "writing" THEN snap[c] ELSE tx[c])

\* Reports keep the order in which they were made, on all their way.
OrderInv(c) ==
    /\ Ordered(workerUpdate, UpdatesOf(c))
    /\ Returned(c) \/ Ordered(up[c], Reports)
    /\ \A x \in Queued(c), y \in Passing(c) \cup Sent(c) : Follows(x, y)
    /\ \A x \in Passing(c), y \in Sent(c) : Follows(x, y)

\* A report lies between what has been counted and what has been sent. Only
\* a worker that has finished has reported completion, with its final count.
ReportInv(c, x) ==
    /\ x.state \in {"testing", "completed"}
    /\ Tally(c) <= x.tx /\ x.tx <= tx[c]
    /\ Finished(c) => (x.state = "completed" => x.tx = tx[c])
    /\ ~Finished(c) => Follows(x, Source(c))

\* Only workers of the test report; a remote worker that has passed on the
\* completion has returned; a worker whose completion was counted has nothing
\* under way any more, and the count kept for it is final.
WayInv(c) ==
    /\ \A x \in Queued(c) \cup Passing(c) \cup Sent(c) : ReportInv(c, x)
    /\ Contents(up[c]) \cap Reports # {} \/ Queued(c) # {} \/ Passing(c) # {}
          => c \in started /\ wpc[c] \in {"testing", "join", "closing", "done"}
    /\ rpc[c] \notin {"testing", "forward", "unregister", "done"} => Queued(c) = {}
    /\ ~Returned(c) => \A x \in Queued(c) : x.state = "testing"
    /\ rep[c] = "writing" => snap[c] <= tx[c]
    /\ c \in started => Tally(c) <= tx[c] /\ (~Finished(c) => Tally(c) <= Source(c).tx)
    /\ c \in counted => /\ c \in started /\ Finished(c) /\ Returned(c)
                        /\ Queued(c) = {} /\ Tally(c) = tx[c]

\* The workers of the test are exactly as many as expected, each with an ID of
\* its own, and nothing is counted for anyone else.
TeamInv ==
    /\ cpc \in {"init", "peers", "wait"} => Cardinality(Registered) < ExpectWorkers
    /\ started # {} => Cardinality(started) = ExpectWorkers
    /\ \A c, d \in started : IdOf[c] = IdOf[d] => c = d
    /\ \A i \in Ids : (\A c \in started : IdOf[c] # i) => totalTxsPerWorker[i] = 0
    /\ completed = Cardinality(counted)

\* Where Run is tells how far the test has come.
ProgressInv ==
    /\ cpc \in {"init", "peers", "wait", "start", "startWait", "testing"}
          => /\ result = "none" /\ completed < ExpectWorkers
             /\ stats = [i \in Ids |-> 0]
    /\ cpc \in {"start", "startWait", "testing", "complete"} => started # {}
    /\ cpc \in {"fail", "failWait"} => result = "err"
    /\ cpc = "complete" => result = "none"
    /\ cpc = "complete" \/ result = "ok" => completed >= ExpectWorkers /\ stats = totalTxsPerWorker

CompletionInv ==
    /\ BarrierInv /\ TeamInv /\ ProgressInv
    /\ \A c \in Conns : OrderInv(c) /\ WayInv(c)

-----------------------------------------------------------------------------
(* Queues *)

\* An empty queue has no contents and no order to keep.
LEMMA EmptyQueue == ASSUME NEW A PROVE Contents(<<>>) = {} /\ Ordered(<<>>, A)
  BY DEF Contents, Ordered

\* A queue extended by one element has it as its last.
LEMMA AppendQueue ==
    ASSUME NEW S, NEW q \in Seq(S), NEW x \in S, NEW A, Ordered(q, A),
           x \in A => \A y \in Contents(q) \cap A : Follows(y, x)
    PROVE  /\ Contents(Append(q, x)) = Contents(q) \cup {x}
           /\ Ordered(Append(q, x), A)
  <1> DEFINE p == Append(q, x)
  <1>1. /\ Len(p) = Len(q) + 1 /\ p[Len(q) + 1] = x /\ Len(q) \in Nat
        /\ \A k \in 1..Len(q) : p[k] = q[k]
    OBVIOUS
  <1> HIDE DEF p
  <1>2. Contents(p) = Contents(q) \cup {x}
    BY <1>1 DEF Contents
  <1>3. ASSUME NEW j \in 1..Len(p), NEW k \in 1..Len(p), j < k, p[j] \in A, p[k] \in A
        PROVE  Follows(p[j], p[k])
    <2>1. j \in 1..Len(q) /\ p[j] = q[j]
      BY <1>1, <1>3
    <2>2. CASE k \in 1..Len(q)
      BY <1>1, <1>3, <2>1, <2>2 DEF Ordered
    <2>3. CASE k = Len(q) + 1
      BY <1>1, <1>3, <2>1, <2>3 DEF Contents
    <2> QED
      BY <1>1, <2>2, <2>3
  <1> QED
    BY <1>2, <1>3 DEF Ordered, p

\* Taking the head of a queue leaves what comes after it.
LEMMA TailQueue ==
    ASSUME NEW S, NEW q \in Seq(S), q # <<>>, NEW A, Ordered(q, A)
    PROVE  /\ Contents(q) = {Head(q)} \cup Contents(Tail(q))
           /\ Ordered(Tail(q), A)
           /\ Head(q) \in A => \A y \in Contents(Tail(q)) \cap A : Follows(Head(q), y)
  <1> DEFINE p == Tail(q)
  <1>1. /\ Len(q) = Len(p) + 1 /\ Len(p) \in Nat /\ Head(q) = q[1]
        /\ \A k \in 1..Len(p) : p[k] = q[k + 1]
    OBVIOUS
  <1> HIDE DEF p
  <1>2. Contents(q) = {q[1]} \cup Contents(p)
    <2>1. ASSUME NEW k \in 1..Len(q), k # 1 PROVE q[k] \in Contents(p)
      <3>1. k - 1 \in 1..Len(p) /\ p[k - 1] = q[k]
        BY <1>1, <2>1
      <3> QED
        BY <3>1 DEF Contents
    <2>2. \A k \in 1..Len(p) : p[k] \in Contents(q)
      BY <1>1 DEF Contents
    <2>3. q[1] \in Contents(q)
      BY <1>1 DEF Contents
    <2> QED
      BY <2>1, <2>2, <2>3 DEF Contents
  <1>3. Ordered(p, A)
    <2>1. ASSUME NEW j \in 1..Len(p), NEW k \in 1..Len(p), j < k, p[j] \in A, p[k] \in A
          PROVE  Follows(p[j], p[k])
      <3>1. j + 1 \in 1..Len(q) /\ k + 1 \in 1..Len(q) /\ j + 1 < k + 1
        BY <1>1, <2>1
      <3> QED
        BY <1>1, <2>1, <3>1 DEF Ordered
    <2> QED
      BY <2>1 DEF Ordered
  <1>4. ASSUME q[1] \in A, NEW y \in Contents(p) \cap A PROVE Follows(q[1], y)
    <2>1. PICK k \in 1..Len(p) : p[k] = y
      BY DEF Contents
    <2>2. 1 \in 1..Len(q) /\ k + 1 \in 1..Len(q) /\ 1 < k + 1 /\ q[k + 1] = y
      BY <1>1, <2>1
    <2> QED
      BY <1>4, <2>2 DEF Ordered
  <1> QED
    BY <1>1, <1>2, <1>3, <1>4 DEF p

\* What follows one queue may be put behind it.
LEMMA ConcatQueue ==
    ASSUME NEW S, NEW q \in Seq(S), NEW r \in Seq(S), NEW A, Ordered(q, A), Ordered(r, A),
           \A x \in Contents(q) \cap A, y \in Contents(r) \cap A : Follows(x, y)
    PROVE  /\ Contents(q \o r) = Contents(q) \cup Contents(r)
           /\ Ordered(q \o r, A)
  <1> DEFINE p == q \o r
  <1>1. /\ Len(p) = Len(q) + Len(r) /\ Len(q) \in Nat /\ Len(r) \in Nat
        /\ \A k \in 1..Len(q) : p[k] = q[k]
        /\ \A k \in 1..Len(r) : p[Len(q) + k] = r[k]
    OBVIOUS
  <1> HIDE DEF p
  <1>2. ASSUME NEW k \in 1..Len(p), k \notin 1..Len(q)
        PROVE  k - Len(q) \in 1..Len(r) /\ p[k] = r[k - Len(q)]
    <2>1. k - Len(q) \in 1..Len(r) /\ k = Len(q) + (k - Len(q))
      BY <1>1, <1>2
    <2> QED
      BY <1>1, <2>1
  <1>3. Contents(p) = Contents(q) \cup Contents(r)
    <2>1. \A k \in 1..Len(q) : p[k] \in Contents(p)
      BY <1>1 DEF Contents
    <2>2. \A k \in 1..Len(r) : Len(q) + k \in 1..Len(p)
      BY <1>1
    <2>3. \A k \in 1..Len(r) : r[k] \in Contents(p)
      BY <1>1, <2>2 DEF Contents
    <2>4. Contents(q) \subseteq Contents(p) /\ Contents(r) \subseteq Contents(p)
      BY <1>1, <2>1, <2>3 DEF Contents
    <2>5. \A k \in 1..Len(p) : p[k] \in Contents(q) \cup Contents(r)
      BY <1>1, <1>2 DEF Contents
    <2>6. Contents(p) \subseteq Contents(q) \cup Contents(r)
      BY <2>5 DEF Contents
    <2> QED
      BY <2>4, <2>6
  <1>4. ASSUME NEW j \in 1..Len(p), NEW k \in 1..Len(p), j < k, p[j] \in A, p[k] \in A
        PROVE  Follows(p[j], p[k])
    <2>1. CASE k \in 1..Len(q)
      <3>1. j \in 1..Len(q)
        BY <1>1, <1>4, <2>1
      <3> QED
        BY <1>1, <1>4, <2>1, <3>1 DEF Ordered
    <2>2. CASE j \in 1..Len(q) /\ k \notin 1..Len(q)
      <3>1. p[j] \in Contents(q) \cap A
        BY <1>1, <1>4, <2>2 DEF Contents
      <3>2. p[k] \in Contents(r) \cap A
        BY <1>2, <1>4, <2>2 DEF Contents
      <3> QED
        BY <3>1, <3>2
    <2>3. CASE j \notin 1..Len(q) /\ k \notin 1..Len(q)
      <3>1. /\ j - Len(q) \in 1..Len(r) /\ p[j] = r[j - Len(q)]
            /\ k - Len(q) \in 1..Len(r) /\ p[k] = r[k - Len(q)]
        BY <1>2, <2>3
      <3>2. j - Len(q) < k - Len(q)
        BY <1>1, <1>4
      <3> QED
        BY <1>4, <3>1, <3>2 DEF Ordered
    <2> QED
      BY <2>1, <2>2, <2>3
  <1> QED
    BY <1>3, <1>4 DEF Ordered, p

\* The beginning of a queue holds nothing else and keeps its order.
LEMMA PrefixQueue ==
    ASSUME NEW S, NEW q \in Seq(S), NEW n \in 0..Len(q), NEW A
    PROVE  /\ SubSeq(q, 1, n) \in Seq(S)
           /\ Contents(SubSeq(q, 1, n)) \subseteq Contents(q)
           /\ Ordered(q, A) => Ordered(SubSeq(q, 1, n), A)
  <1> DEFINE p == SubSeq(q, 1, n)
  <1>1. p \in Seq(S) /\ Len(p) = n /\ \A k \in 1..n : p[k] = q[k]
    OBVIOUS
  <1>2. 1..n \subseteq 1..Len(q)
    OBVIOUS
  <1> HIDE DEF p
  <1>3. Contents(p) \subseteq Contents(q)
    BY <1>1, <1>2 DEF Contents
  <1>4. Ordered(q, A) => Ordered(p, A)
    BY <1>1, <1>2 DEF Ordered
  <1> QED
    BY <1>1, <1>3, <1>4 DEF p

-----------------------------------------------------------------------------
(* Steps of the workers *)

ReportVars(d) == <<rpc[d], rmsg[d], up[d], wpc[d], tx[d], rep[d], snap[d]>>

\* p holds no reports that q does not hold, and keeps them in order.
SameReports(q, p) ==
    /\ Contents(p) \cap Reports \subseteq Contents(q)
    /\ Ordered(q, Reports) => Ordered(p, Reports)

\* A connection whose state does not change keeps its invariants while
\* reports of others are handled.
LEMMA Unaffected ==
    ASSUME NEW d \in Conns, OrderInv(d), WayInv(d), UNCHANGED <<ReportVars(d), started>>,
           Ordered(workerUpdate', UpdatesOf(d)), Queued(d)' \subseteq Queued(d),
           d \in started => Tally(d)' = Tally(d),
           d \in counted' => d \in counted
    PROVE  OrderInv(d)' /\ WayInv(d)'
  <1>1. /\ Passing(d)' = Passing(d) /\ Sent(d)' = Sent(d) /\ Returned(d)' = Returned(d)
        /\ Source(d)' = Source(d) /\ Finished(d)' = Finished(d)
        /\ rpc'[d] = rpc[d] /\ up'[d] = up[d] /\ wpc'[d] = wpc[d] /\ tx'[d] = tx[d]
        /\ rep'[d] = rep[d] /\ snap'[d] = snap[d] /\ started' = started
    BY DEF ReportVars, Passing, Sent, Returned, Source, Finished
  <1>2. OrderInv(d)'
    BY <1>1 DEF OrderInv
  <1>3. WayInv(d)'
    <2>1. \A x \in Queued(d)' \cup Passing(d)' \cup Sent(d)' : d \in started /\ ReportInv(d, x)
      BY <1>1 DEF WayInv, Sent
    <2>2. \A x \in (Queued(d) \cup Passing(d) \cup Sent(d))' : ReportInv(d, x)'
      BY <1>1, <2>1 DEF ReportInv
    <2>3. Contents(up[d])' = Contents(up[d])
      BY <1>1
    <2> QED
      BY <1>1, <2>2, <2>3 DEF WayInv
  <1> QED
    BY <1>2, <1>3

\* Messages that are no reports may follow any queue.
LEMMA NonReports ==
    ASSUME NEW q \in Seq(UpMsgs), NEW r \in Seq(UpMsgs), Contents(r) \cap Reports = {}
    PROVE  SameReports(q, q \o r)
  <1>1. Ordered(r, Reports) /\ Ordered(q, {}) /\ Ordered(r, {})
    BY DEF Ordered, Contents
  <1>2. Contents(q \o r) = Contents(q) \cup Contents(r)
    BY <1>1, ConcatQueue
  <1>3. Ordered(q, Reports) => Ordered(q \o r, Reports)
    BY <1>1, ConcatQueue
  <1> QED
    BY <1>2, <1>3 DEF SameReports

\* A single message.
LEMMA OneMessage ==
    ASSUME NEW m, NEW A PROVE Contents(<<m>>) = {m} /\ Ordered(<<m>>, A)
  BY DEF Contents, Ordered

\* Only progress and completion are reports.
LEMMA NotReports ==
    ASSUME NEW s \in {"hello", "failed", "close"}, NEW n \in Nat
    PROVE  Up(s, n) \in UpMsgs /\ Up(s, n) \notin Reports
  BY DEF Up, UpMsgs, UpStates, Reports

\* A worker that returns writes its last messages and the close frame, or
\* nothing at all.
LEMMA ReturnsQueue ==
    ASSUME NetTypeOK, WorkerTypeOK, NEW c \in Conns, NEW res, NEW msgs \in Seq(UpMsgs),
           WorkerReturns(c, res, msgs)
    PROVE  /\ \A d \in Conns \ {c} : up'[d] = up[d] /\ wpc'[d] = wpc[d]
           /\ wpc'[c] = "closing"
           /\ up'[c] = up[c] \/ SameReports(up[c] \o msgs, up'[c])
  <1> DEFINE close == <<Up("close", 0)>>
  <1>1. close \in Seq(UpMsgs) /\ Contents(close) \cap Reports = {}
    BY NotReports, OneMessage
  <1>2. up[c] \o msgs \in Seq(UpMsgs)
    BY DEF NetTypeOK
  <1>3. SameReports(up[c] \o msgs, (up[c] \o msgs) \o close)
    BY <1>1, <1>2, NonReports
  <1> HIDE DEF close
  <1>4. up' = up \/ up' = [up EXCEPT ![c] = (up[c] \o msgs) \o close]
    BY DEF WorkerReturns, close
  <1> QED
    BY <1>3, <1>4 DEF NetTypeOK, WorkerTypeOK, WorkerReturns, Goto

\* A worker that returns without a report.
LEMMA ReturnsQuietly ==
    ASSUME NetTypeOK, WorkerTypeOK, NEW c \in Conns, NEW res, NEW msgs \in Seq(UpMsgs),
           Contents(msgs) \cap Reports = {}, WorkerReturns(c, res, msgs)
    PROVE  /\ \A d \in Conns \ {c} : up'[d] = up[d] /\ wpc'[d] = wpc[d]
           /\ wpc'[c] = "closing" /\ SameReports(up[c], up'[c])
  <1>1. SameReports(up[c], up[c] \o msgs) /\ SameReports(up[c], up[c])
    BY NonReports DEF NetTypeOK, SameReports
  <1>2. up[c] \in Seq(UpMsgs) /\ Contents(up[c] \o msgs) \cap Reports \subseteq Contents(up[c])
    BY <1>1 DEF NetTypeOK, SameReports
  <1> QED
    BY <1>1, <1>2, ReturnsQueue DEF SameReports

\* A worker that fails reports nothing.
LEMMA FailsQuietly ==
    ASSUME NetTypeOK, WorkerTypeOK, NEW c \in Conns, Fails(c)
    PROVE  /\ \A d \in Conns \ {c} : up'[d] = up[d] /\ wpc'[d] = wpc[d]
           /\ wpc'[c] = "closing" /\ SameReports(up[c], up'[c])
  <1>1. <<Up("failed", 0)>> \in Seq(UpMsgs) /\ Contents(<<Up("failed", 0)>>) \cap Reports = {}
    BY NotReports, OneMessage
  <1> QED
    BY <1>1, ReturnsQuietly DEF Fails

\* Nor does one that returns without a last message.
LEMMA LeavesQuietly ==
    ASSUME NetTypeOK, WorkerTypeOK, NEW c \in Conns, NEW res, WorkerReturns(c, res, <<>>)
    PROVE  /\ \A d \in Conns \ {c} : up'[d] = up[d] /\ wpc'[d] = wpc[d]
           /\ wpc'[c] = "closing" /\ SameReports(up[c], up'[c])
  <1>1. <<>> \in Seq(UpMsgs) /\ Contents(<<>>) \cap Reports = {}
    BY EmptyQueue
  <1> QED
    BY <1>1, ReturnsQuietly

\* A worker whose last messages cannot all be written and are no reports.
LEMMA LostQuietly ==
    ASSUME NetTypeOK, WorkerTypeOK, NEW c \in Conns, NEW msgs \in Seq(UpMsgs),
           Contents(msgs) \cap Reports = {}, WriteLost(c, msgs)
    PROVE  /\ \A d \in Conns \ {c} : up'[d] = up[d] /\ wpc'[d] = wpc[d]
           /\ wpc'[c] = "closing" /\ SameReports(up[c], up'[c])
  <1>1. CASE WorkerReturns(c, "err", <<>>)
    BY <1>1, LeavesQuietly
  <1>2. ASSUME NEW n \in 0..Len(msgs), WorkerReturns(c, "err", SubSeq(msgs, 1, n))
        PROVE  /\ \A d \in Conns \ {c} : up'[d] = up[d] /\ wpc'[d] = wpc[d]
               /\ wpc'[c] = "closing" /\ SameReports(up[c], up'[c])
    <2>1. /\ SubSeq(msgs, 1, n) \in Seq(UpMsgs)
          /\ Contents(SubSeq(msgs, 1, n)) \cap Reports = {}
      BY PrefixQueue
    <2> QED
      BY <1>2, <2>1, ReturnsQuietly
  <1> QED
    BY <1>1, <1>2 DEF WriteLost

\* The places of a worker that has been told to start and has connected.
HasLoaded == {"testing", "join", "closing", "done"}

\* A step that reports nothing: the worker may go on to its end, or dial.
Silent(c) ==
    /\ SameReports(up[c], up'[c])
    /\ tx'[c] = tx[c] /\ rep'[c] = rep[c] /\ snap'[c] = snap[c]
    /\ rpc'[c] = rpc[c] \/ (rpc'[c] = "readID" /\ wpc[c] = "dial")
    /\ wpc[c] \in HasLoaded => wpc'[c] \in HasLoaded
    /\ Finished(c) => Finished(c)'

\* A step of a worker touches nothing of the coordinator's tallies and nobody
\* else's reports, and makes a report only in one of four actions.
LEMMA WorkerReportsEffect ==
    ASSUME TypeOK, NEW c \in Conns, WorkerStep(c) \/ WorkerFault(c)
    PROVE  /\ UNCHANGED <<cpc, result, workers, started, tallyVars, workerUpdate, rmsg>>
           /\ \A d \in Conns \ {c} : UNCHANGED ReportVars(d)
           /\ \/ Silent(c) \/ SendTransactions(c) \/ ReporterTick(c)
              \/ ReportProgress(c) \/ ReportFinalResults(c)
  <1> USE DEF coordVars, ctrlVars, tallyVars, rwVars, loopVars, chanVars, netVars,
              workerVars, Goto, ReportVars
  <1>0. NetTypeOK /\ WorkerTypeOK /\ LoopTypeOK
    BY DEF TypeOK
  <1>q. SameReports(up[c], up[c])
    BY DEF SameReports
  <1>1. CASE Dial(c)
    BY <1>1, <1>0, <1>q DEF Dial, WorkerTypeOK, LoopTypeOK, Silent, HasLoaded, Finished
  <1>2. CASE DialGivesUp(c)
    BY <1>2, <1>0, <1>q DEF DialGivesUp, WorkerTypeOK, Silent, HasLoaded, Finished
  <1>3. CASE SendID(c)
    <2> DEFINE hello == Up("hello", 0)
    <2>1. hello \in UpMsgs /\ <<hello>> \in Seq(UpMsgs) /\ Contents(<<hello>>) \cap Reports = {}
      BY NotReports, OneMessage
    <2>2. /\ \A d \in Conns \ {c} : up'[d] = up[d] /\ wpc'[d] = wpc[d]
          /\ SameReports(up[c], up'[c])
      <3>1. CASE WriteUp(c, hello, TRUE) /\ wpc' = [wpc EXCEPT ![c] = "awaitAccept"]
        <4> HIDE DEF hello
        <4>1. up[c] \in Seq(UpMsgs)
          BY <1>0 DEF NetTypeOK
        <4>2. Append(up[c], hello) = up[c] \o <<hello>>
          BY <2>1, <4>1
        <4>3. SameReports(up[c], Append(up[c], hello))
          BY <2>1, <4>1, <4>2, NonReports
        <4>4. up' = up \/ up' = [up EXCEPT ![c] = Append(up[c], hello)]
          BY <3>1 DEF WriteUp
        <4> QED
          BY <3>1, <4>3, <4>4, <1>0, <1>q DEF NetTypeOK, WorkerTypeOK
      <3>2. CASE WriteLost(c, <<hello>>)
        <4> HIDE DEF hello
        <4> QED
          BY <2>1, <3>2, <1>0, LostQuietly
      <3> QED
        BY <1>3, <3>1, <3>2 DEF SendID
    <2>3. /\ UNCHANGED <<coordVars, rwVars, tx, rep, snap>>
          /\ wpc[c] = "hello"
      BY <1>3 DEF SendID
    <2> HIDE DEF hello
    <2> QED
      BY <2>2, <2>3 DEF Silent, HasLoaded, Finished
  <1>4. CASE ReadAccept(c)
    <2>1. \/ Fails(c) \/ WorkerReturns(c, "err", <<>>)
          \/ wpc' = [wpc EXCEPT ![c] = "waitForStart"] /\ up' = up
      BY <1>4 DEF ReadAccept
    <2>2. /\ \A d \in Conns \ {c} : up'[d] = up[d] /\ wpc'[d] = wpc[d]
          /\ SameReports(up[c], up'[c])
      BY <2>1, <1>0, <1>q, FailsQuietly, LeavesQuietly DEF WorkerTypeOK
    <2>3. /\ UNCHANGED <<coordVars, rwVars, tx, rep, snap>>
          /\ wpc[c] = "awaitAccept"
      BY <1>4 DEF ReadAccept
    <2> QED
      BY <2>2, <2>3 DEF Silent, HasLoaded, Finished
  <1>5. CASE AcceptFails(c)
    BY <1>5, <1>0, LeavesQuietly DEF AcceptFails, Silent, HasLoaded, Finished
  <1>6. CASE ReadStart(c)
    <2>1. Fails(c) \/ (wpc' = [wpc EXCEPT ![c] = "connecting"] /\ up' = up)
      BY <1>6 DEF ReadStart
    <2>2. /\ \A d \in Conns \ {c} : up'[d] = up[d] /\ wpc'[d] = wpc[d]
          /\ SameReports(up[c], up'[c])
      BY <2>1, <1>0, <1>q, FailsQuietly DEF WorkerTypeOK
    <2>3. /\ UNCHANGED <<coordVars, rwVars, tx, rep, snap>>
          /\ wpc[c] = "waitForStart"
      BY <1>6 DEF ReadStart
    <2> QED
      BY <2>2, <2>3 DEF Silent, HasLoaded, Finished
  <1>7. CASE PollFails(c)
    BY <1>7, <1>0, <1>q DEF PollFails, WorkerTypeOK, Silent, HasLoaded, Finished
  <1>8. CASE PollCancelled(c)
    BY <1>8, <1>0, FailsQuietly DEF PollCancelled, Silent, HasLoaded, Finished
  <1>9. CASE PollPanics(c)
    BY <1>9, <1>0, <1>q DEF PollPanics, WorkerTypeOK, Silent, HasLoaded, Finished
  <1>10. CASE Connect(c)
    BY <1>10, <1>0, <1>q DEF Connect, WorkerTypeOK, Silent, HasLoaded, Finished
  <1>11. CASE ConnectFails(c)
    BY <1>11, <1>0, FailsQuietly DEF ConnectFails, Silent, HasLoaded, Finished
  <1>12. CASE SendTransactions(c)
    BY <1>12, <1>0 DEF SendTransactions, WorkerTypeOK
  <1>13. CASE TransactorFails(c)
    BY <1>13, <1>q DEF TransactorFails, Silent, HasLoaded, Finished
  <1>14. CASE TransactorsDone(c)
    BY <1>14, <1>0, <1>q DEF TransactorsDone, WorkerTypeOK, Silent, HasLoaded, Finished
  <1>15. CASE ReporterTick(c)
    BY <1>15, <1>0 DEF ReporterTick, WorkerTypeOK
  <1>16. CASE ReportProgress(c)
    BY <1>16, <1>0 DEF ReportProgress, WriteUp, WorkerTypeOK, NetTypeOK
  <1>17. CASE FailedTest(c)
    BY <1>17, <1>0, FailsQuietly DEF FailedTest, Silent, HasLoaded, Finished
  <1>18. CASE ReportFinalResults(c)
    <2>1. \A d \in Conns \ {c} : up'[d] = up[d] /\ wpc'[d] = wpc[d]
      BY <1>18, <1>0 DEF ReportFinalResults, WriteLost, WorkerReturns, WorkerTypeOK, NetTypeOK
    <2>2. UNCHANGED <<coordVars, rwVars, tx, rep, snap>>
      BY <1>18 DEF ReportFinalResults
    <2> QED
      BY <1>18, <2>1, <2>2
  <1>19. CASE CloseDone(c)
    BY <1>19, <1>0, <1>q DEF CloseDone, WorkerTypeOK, Silent, HasLoaded, Finished
  <1>20. CASE InterruptWorker(c)
    BY <1>20, <1>q DEF InterruptWorker, Silent, HasLoaded, Finished
  <1>21. CASE ConnectionLost(c)
    BY <1>21, <1>q DEF ConnectionLost, Silent, HasLoaded, Finished
  <1> QED
    BY <1>1, <1>2, <1>3, <1>4, <1>5, <1>6, <1>7, <1>8, <1>9, <1>10, <1>11, <1>12,
       <1>13, <1>14, <1>15, <1>16, <1>17, <1>18, <1>19, <1>20, <1>21
    DEF WorkerStep, WorkerFault

-----------------------------------------------------------------------------
(* Steps of the workers keep the reports in order *)

\* The members of the queues have numbers for counts.
LEMMA ReportsTyped ==
    ASSUME TypeOK, NEW c \in Conns
    PROVE  /\ \A x \in Queued(c) \cup Passing(c) \cup Sent(c) : x.tx \in Nat
           /\ Tally(c) \in Nat /\ tx[c] \in Nat /\ snap[c] \in Nat
           /\ Source(c).state = "testing" /\ Source(c).tx \in Nat
           /\ Source(c).tx = IF rep[c] = "writing" THEN snap[c] ELSE tx[c]
  <1>1. tx[c] \in Nat /\ snap[c] \in Nat
    BY BoundsAssumption DEF TypeOK, WorkerTypeOK
  <1>2. Tally(c) \in Nat
    BY IdsAssumption DEF Tally, TypeOK, TallyTypeOK
  <1>3. \A x \in Queued(c) : x.tx \in Nat
    BY DEF Queued, UpdatesOf, Updates
  <1>4. \A x \in Passing(c) : x.tx \in Nat
    BY DEF Passing, TypeOK, LoopTypeOK, UpMsgs
  <1>5. \A x \in Sent(c) : x.tx \in Nat
    BY DEF Sent, Reports, UpMsgs
  <1> QED
    BY <1>1, <1>2, <1>3, <1>4, <1>5 DEF Source, Up

\* A silent step keeps the reports under way as they are.
LEMMA SilentStep ==
    ASSUME NEW c \in Conns, OrderInv(c), WayInv(c), Silent(c),
           UNCHANGED <<started, tallyVars, workerUpdate, rmsg>>
    PROVE  OrderInv(c)' /\ WayInv(c)'
  <1>1. /\ Queued(c)' = Queued(c) /\ Tally(c)' = Tally(c) /\ Source(c)' = Source(c)
        /\ tx'[c] = tx[c] /\ rep'[c] = rep[c] /\ snap'[c] = snap[c]
        /\ started' = started /\ counted' = counted /\ workerUpdate' = workerUpdate
        /\ Contents(up'[c]) \cap Reports \subseteq Contents(up[c]) \cap Reports
        /\ Ordered(up[c], Reports) => Ordered(up'[c], Reports)
        /\ Finished(c) => Finished(c)'
    BY DEF tallyVars, Silent, SameReports, Queued, Tally, Source
  <1>2. \A x : ReportInv(c, x) => ReportInv(c, x)'
    <2> SUFFICES ASSUME NEW x, ReportInv(c, x) PROVE ReportInv(c, x)'
      OBVIOUS
    <2>1. x.state = "testing" => x.state # "completed"
      OBVIOUS
    <2> QED
      BY <1>1, <2>1 DEF ReportInv, Follows
  <1>3. CASE rpc'[c] = rpc[c]
    <2>1. /\ Passing(c)' = Passing(c) /\ Sent(c)' \subseteq Sent(c)
          /\ Returned(c)' = Returned(c)
      BY <1>1, <1>3 DEF Passing, Sent, Returned
    <2>2. OrderInv(c)'
      BY <1>1, <2>1 DEF OrderInv
    <2>3. \A x \in (Queued(c) \cup Passing(c) \cup Sent(c))' : ReportInv(c, x)'
      BY <1>1, <1>2, <2>1 DEF WayInv
    <2>4. Contents(up'[c]) \cap Reports # {} \/ Queued(c)' # {} \/ Passing(c)' # {}
              => c \in started' /\ wpc'[c] \in HasLoaded
      BY <1>1, <2>1 DEF WayInv, Silent, HasLoaded
    <2> QED
      BY <1>1, <1>3, <2>1, <2>2, <2>3, <2>4 DEF WayInv, HasLoaded
  <1>4. CASE rpc'[c] = "readID" /\ wpc[c] = "dial"
    <2>1. Contents(up[c]) \cap Reports = {} /\ Queued(c) = {}
      BY <1>4 DEF WayInv
    <2>2. /\ Contents(up'[c]) \cap Reports = {} /\ Queued(c)' = {}
          /\ Passing(c)' = {} /\ Sent(c)' = {}
      BY <1>1, <1>4, <2>1 DEF Passing, Sent
    <2>3. Ordered(up'[c], Reports)
      BY <2>2 DEF Ordered, Contents
    <2>4. OrderInv(c)'
      BY <1>1, <2>2, <2>3 DEF OrderInv
    <2>5. ~Finished(c) /\ c \notin counted
      BY <1>4 DEF Finished, WayInv
    <2> QED
      BY <1>1, <1>4, <2>2, <2>4, <2>5 DEF WayInv
  <1> QED
    BY <1>3, <1>4 DEF Silent

\* A worker of the test sends, and reports at most m, which is no less than
\* what it would have reported before.
LEMMA LoadedStep ==
    ASSUME TypeOK, TypeOK', NEW c \in Conns, OrderInv(c), WayInv(c),
           c \in started, wpc[c] \in {"testing", "join"}, wpc'[c] \in HasLoaded,
           UNCHANGED <<started, tallyVars, workerUpdate, rmsg>>, rpc'[c] = rpc[c],
           NEW m \in Reports, Source(c).tx <= m.tx, m.tx <= tx[c], tx[c] <= tx'[c],
           Contents(up'[c]) \cap Reports \subseteq Contents(up[c]) \cup {m},
           Ordered(up[c], Reports) /\ (\A x \in Contents(up[c]) \cap Reports : Follows(x, m))
               => Ordered(up'[c], Reports),
           ~Finished(c)' => m.state = "testing" /\ m.tx <= Source(c)'.tx,
           Finished(c)' => m.state = "completed" /\ m.tx = tx'[c],
           rep'[c] = "writing" => snap'[c] <= tx'[c]
    PROVE  OrderInv(c)' /\ WayInv(c)'
  <1>0. m.tx \in Nat /\ Source(c)'.tx \in Nat /\ tx'[c] \in Nat
    BY BoundsAssumption DEF Reports, UpMsgs, TypeOK, WorkerTypeOK, Source, Up
  <1>1. /\ Queued(c)' = Queued(c) /\ Tally(c)' = Tally(c)
        /\ Passing(c)' = Passing(c) /\ Returned(c)' = Returned(c)
        /\ Sent(c)' \subseteq Sent(c) \cup {m}
        /\ Returned(c) => Sent(c)' = {}
        /\ started' = started /\ counted' = counted /\ workerUpdate' = workerUpdate
        /\ rpc'[c] = rpc[c] /\ ~Finished(c)
    BY DEF tallyVars, Queued, Tally, Passing, Returned, Sent, Finished
  <1>2. ASSUME NEW x \in Queued(c) \cup Passing(c) \cup Sent(c)
        PROVE  Follows(x, m) /\ ReportInv(c, x)'
    <2>1. x.tx \in Nat /\ Tally(c) \in Nat /\ tx[c] \in Nat /\ Source(c).tx \in Nat
      BY <1>2, ReportsTyped
    <2>2. /\ x.state = "testing" /\ Tally(c) <= x.tx /\ x.tx <= tx[c]
          /\ x.tx <= Source(c).tx
      BY <1>1, <1>2 DEF WayInv, ReportInv, Follows
    <2>3. x.tx <= m.tx /\ x.tx <= tx'[c]
      BY <1>0, <2>1, <2>2
    <2>4. ~Finished(c)' => x.tx <= Source(c)'.tx
      BY <1>0, <2>1, <2>3
    <2> QED
      BY <1>1, <2>2, <2>3, <2>4 DEF Follows, ReportInv
  <1>3. ReportInv(c, m)'
    <2>1. /\ Tally(c) \in Nat /\ tx[c] \in Nat /\ Source(c).tx \in Nat
          /\ Tally(c) <= Source(c).tx
      BY <1>1, ReportsTyped DEF WayInv
    <2>2. Tally(c) <= m.tx /\ m.tx <= tx'[c] /\ m.state \in {"testing", "completed"}
      BY <1>0, <2>1 DEF Reports
    <2> QED
      BY <1>1, <2>2 DEF Follows, ReportInv
  <1>4. OrderInv(c)'
    <2>1. Returned(c)' \/ Ordered(up'[c], Reports)
      BY <1>1, <1>2 DEF OrderInv, Sent
    <2>2. \A x \in Queued(c)', y \in Passing(c)' \cup Sent(c)' : Follows(x, y)
      BY <1>1, <1>2 DEF OrderInv
    <2>3. \A x \in Passing(c)', y \in Sent(c)' : Follows(x, y)
      BY <1>1, <1>2 DEF OrderInv
    <2> QED
      BY <1>1, <2>1, <2>2, <2>3 DEF OrderInv
  <1>5. WayInv(c)'
    <2>1. \A x \in (Queued(c) \cup Passing(c) \cup Sent(c))' : ReportInv(c, x)'
      BY <1>1, <1>2, <1>3
    <2>2. /\ Tally(c) \in Nat /\ tx[c] \in Nat /\ Source(c).tx \in Nat
          /\ Tally(c) <= Source(c).tx /\ Tally(c) <= tx[c]
      BY <1>1, ReportsTyped DEF WayInv
    <2>3. Tally(c)' <= tx'[c] /\ (~Finished(c)' => Tally(c)' <= Source(c)'.tx)
      BY <1>0, <1>1, <2>2
    <2>4. c \notin counted'
      BY <1>1 DEF WayInv
    <2> QED
      BY <1>1, <2>1, <2>3, <2>4 DEF WayInv, HasLoaded
  <1> QED
    BY <1>4, <1>5

\* The report of the final results, with what follows it when it fails.
LEMMA FinalReport ==
    ASSUME TypeOK, NEW c \in Conns, ReportFinalResults(c), NEW m, m = Up("completed", tx[c])
    PROVE  /\ m \in Reports /\ wpc'[c] = "closing"
           /\ Contents(up'[c]) \cap Reports \subseteq Contents(up[c]) \cup {m}
           /\ Ordered(up[c], Reports) /\ (\A x \in Contents(up[c]) \cap Reports : Follows(x, m))
               => Ordered(up'[c], Reports)
  <1> DEFINE f == Up("failed", 0)
             both == <<m, f>>
             Short(msgs) == /\ msgs \in Seq(UpMsgs) /\ Contents(msgs) \cap Reports \subseteq {m}
                            /\ Ordered(msgs, Reports)
  <1>0. NetTypeOK /\ WorkerTypeOK /\ up[c] \in Seq(UpMsgs)
    BY DEF TypeOK, NetTypeOK
  <1>1. m \in UpMsgs /\ m \in Reports /\ f \in UpMsgs /\ f \notin Reports
    <2>1. tx[c] \in Nat
      BY BoundsAssumption, <1>0 DEF WorkerTypeOK
    <2> QED
      BY <2>1, NotReports DEF Up, UpMsgs, UpStates, Reports
  <1> HIDE DEF f
  <1>2. Short(<<>>) /\ Short(<<m>>)
    BY <1>1, EmptyQueue, OneMessage
  <1>3. both \in Seq(UpMsgs) /\ Len(both) = 2 /\ both[1] = m /\ both[2] = f
    BY <1>1
  <1> HIDE DEF both
  <1>4. Short(both)
    <2>1. \A k \in 1..Len(both) : k = 1 \/ k = 2
      BY <1>3
    <2> QED
      BY <1>1, <1>3, <2>1 DEF Contents, Ordered
  <1>5. ASSUME NEW n \in 0..Len(both) PROVE Short(SubSeq(both, 1, n))
    <2>1. /\ SubSeq(both, 1, n) \in Seq(UpMsgs)
          /\ Contents(SubSeq(both, 1, n)) \subseteq Contents(both)
          /\ Ordered(both, Reports) => Ordered(SubSeq(both, 1, n), Reports)
      BY <1>3, PrefixQueue
    <2> QED
      BY <1>4, <2>1
  <1>6. PICK res \in {"ok", "err"}, msgs \in Seq(UpMsgs) : WorkerReturns(c, res, msgs) /\ Short(msgs)
    <2>1. CASE WorkerReturns(c, "ok", <<m>>)
      BY <1>2, <2>1
    <2>2. CASE WriteLost(c, both)
      BY <1>2, <1>5, <2>2 DEF WriteLost
    <2> QED
      BY <2>1, <2>2 DEF ReportFinalResults, FinalCount, both, f
  <1>7. /\ wpc'[c] = "closing"
        /\ up'[c] = up[c] \/ SameReports(up[c] \o msgs, up'[c])
    BY <1>0, <1>6, ReturnsQueue
  <1>8. Contents(up[c] \o msgs) = Contents(up[c]) \cup Contents(msgs)
    <2>1. Ordered(up[c], {}) /\ Ordered(msgs, {})
      BY DEF Ordered
    <2> QED
      BY <1>0, <2>1, ConcatQueue
  <1>9. Ordered(up[c], Reports) /\ (\A x \in Contents(up[c]) \cap Reports : Follows(x, m))
           => Ordered(up[c] \o msgs, Reports)
    BY <1>0, <1>6, ConcatQueue
  <1>10. Contents(up[c] \o msgs) \cap Reports \subseteq Contents(up[c]) \cup {m}
    BY <1>6, <1>8
  <1> QED
    BY <1>1, <1>7, <1>9, <1>10 DEF SameReports

\* A progress report that is written, or is lost.
LEMMA ProgressReport ==
    ASSUME TypeOK, NEW c \in Conns, ReportProgress(c), NEW m, m = Source(c)
    PROVE  /\ m = Up("testing", snap[c])
           /\ Contents(up'[c]) \cap Reports \subseteq Contents(up[c]) \cup {m}
           /\ Ordered(up[c], Reports) /\ (\A x \in Contents(up[c]) \cap Reports : Follows(x, m))
               => Ordered(up'[c], Reports)
  <1>0. up \in [Conns -> Seq(UpMsgs)] /\ up[c] \in Seq(UpMsgs)
    BY DEF TypeOK, NetTypeOK
  <1>1. m = Up("testing", snap[c]) /\ m \in UpMsgs
    <2>1. snap[c] \in Nat
      BY BoundsAssumption DEF TypeOK, WorkerTypeOK
    <2> QED
      BY <2>1 DEF ReportProgress, Source, Up, UpMsgs, UpStates
  <1>2. up' = up \/ up' = [up EXCEPT ![c] = Append(up[c], m)]
    BY <1>1 DEF ReportProgress, WriteUp
  <1>3. up'[c] = up[c] \/ up'[c] = Append(up[c], m)
    BY <1>0, <1>2
  <1>4. Contents(Append(up[c], m)) = Contents(up[c]) \cup {m}
    <2>1. Ordered(up[c], {})
      BY DEF Ordered
    <2> QED
      BY <1>0, <1>1, <2>1, AppendQueue
  <1>5. Ordered(up[c], Reports) /\ (\A x \in Contents(up[c]) \cap Reports : Follows(x, m))
           => Ordered(Append(up[c], m), Reports)
    BY <1>0, <1>1, AppendQueue
  <1> QED
    BY <1>1, <1>3, <1>4, <1>5

\* Steps of a worker keep the reports of all workers in order.
LEMMA WorkerReports ==
    ASSUME TypeOK, TypeOK', LoadingInv, \A e \in Conns : OrderInv(e) /\ WayInv(e),
           NEW c \in Conns, WorkerStep(c) \/ WorkerFault(c), NEW d \in Conns
    PROVE  OrderInv(d)' /\ WayInv(d)'
  <1>0. /\ UNCHANGED <<started, tallyVars, workerUpdate, rmsg>>
        /\ \A e \in Conns \ {c} : UNCHANGED ReportVars(e)
        /\ \/ Silent(c) \/ SendTransactions(c) \/ ReporterTick(c)
           \/ ReportProgress(c) \/ ReportFinalResults(c)
    BY WorkerReportsEffect
  <1>1. CASE d # c
    <2>1. /\ Queued(d)' = Queued(d) /\ Tally(d)' = Tally(d)
          /\ counted' = counted /\ workerUpdate' = workerUpdate
      BY <1>0 DEF Queued, Tally, tallyVars
    <2> QED
      BY <1>0, <1>1, <2>1, Unaffected DEF OrderInv
  <1>2. CASE d = c /\ Silent(c)
    BY <1>0, <1>2, SilentStep
  <1>3. ASSUME d = c, ~Silent(c) PROVE OrderInv(c)' /\ WayInv(c)'
    <2>1. wpc[c] \in {"testing", "join"} /\ c \in started /\ ~Finished(c)
      BY <1>0, <1>3 DEF SendTransactions, ReporterTick, ReportProgress, ReportFinalResults,
         LoadingInv, Loading, Finished
    <2>2. /\ tx[c] \in Nat /\ snap[c] \in Nat /\ Source(c).state = "testing"
          /\ Source(c).tx = IF rep[c] = "writing" THEN snap[c] ELSE tx[c]
          /\ Source(c).tx \in Nat /\ Source(c).tx <= tx[c]
      BY ReportsTyped DEF WayInv
    <2>3. Source(c) \in Reports
      BY <2>2 DEF Source, Up, Reports, UpMsgs, UpStates
    <2>s. Source(c)'.tx = IF rep'[c] = "writing" THEN snap'[c] ELSE tx'[c]
      BY DEF Source, Up
    <2> USE <1>0, <2>1, <2>2, <2>3, <2>s
    <2>4. CASE SendTransactions(c)
      <3>1. /\ UNCHANGED <<wpc, rpc, up, rep, snap>> /\ tx'[c] = tx[c] + 1
        BY <2>4 DEF SendTransactions, rwVars, loopVars, netVars, TypeOK, WorkerTypeOK
      <3>2. ~Finished(c)' /\ wpc'[c] \in HasLoaded /\ Source(c).tx <= Source(c)'.tx
            /\ tx[c] <= tx'[c] /\ (rep'[c] = "writing" => snap'[c] <= tx'[c])
        BY <3>1 DEF Finished, HasLoaded, WayInv
      <3> QED
        BY <3>1, <3>2, LoadedStep
    <2>5. CASE ReporterTick(c)
      <3>1. /\ UNCHANGED <<wpc, rpc, up, tx>> /\ snap'[c] = tx[c] /\ rep'[c] = "writing"
            /\ rep[c] = "idle"
        BY <2>5 DEF ReporterTick, rwVars, loopVars, netVars, TypeOK, WorkerTypeOK
      <3>2. ~Finished(c)' /\ wpc'[c] \in HasLoaded /\ Source(c).tx <= Source(c)'.tx
            /\ tx[c] <= tx'[c] /\ (rep'[c] = "writing" => snap'[c] <= tx'[c])
        BY <3>1 DEF Finished, HasLoaded
      <3> QED
        BY <3>1, <3>2, LoadedStep
    <2>6. CASE ReportProgress(c)
      <3>1. /\ UNCHANGED <<wpc, rpc, tx>> /\ rep'[c] = "idle"
        BY <2>6 DEF ReportProgress, rwVars, loopVars, TypeOK, WorkerTypeOK
      <3>2. ~Finished(c)' /\ wpc'[c] \in HasLoaded /\ Source(c).tx <= Source(c)'.tx
            /\ tx[c] <= tx'[c] /\ (rep'[c] = "writing" => snap'[c] <= tx'[c])
        BY <3>1 DEF Finished, HasLoaded
      <3>3. /\ Contents(up'[c]) \cap Reports \subseteq Contents(up[c]) \cup {Source(c)}
            /\ Ordered(up[c], Reports)
                  /\ (\A x \in Contents(up[c]) \cap Reports : Follows(x, Source(c)))
               => Ordered(up'[c], Reports)
        BY <2>6, ProgressReport
      <3> QED
        BY <3>1, <3>2, <3>3, LoadedStep
    <2>7. CASE ReportFinalResults(c)
      <3> DEFINE m == Up("completed", tx[c])
      <3>1. UNCHANGED <<rpc, tx, rep, snap>> /\ rep[c] = "idle"
        BY <2>7 DEF ReportFinalResults, ReporterJoined, rwVars, loopVars, TypeOK, WorkerTypeOK
      <3>2. m.state = "completed" /\ m.tx = tx[c]
        BY DEF Up
      <3> HIDE DEF m
      <3>3. /\ m \in Reports /\ wpc'[c] = "closing"
            /\ Contents(up'[c]) \cap Reports \subseteq Contents(up[c]) \cup {m}
            /\ Ordered(up[c], Reports) /\ (\A x \in Contents(up[c]) \cap Reports : Follows(x, m))
               => Ordered(up'[c], Reports)
        BY <2>7, FinalReport DEF m
      <3>4. Finished(c)' /\ wpc'[c] \in HasLoaded /\ tx'[c] = tx[c] /\ rep'[c] # "writing"
        BY <3>1, <3>3 DEF Finished, HasLoaded
      <3>5. Source(c).tx <= m.tx /\ m.tx <= tx[c] /\ tx[c] <= tx'[c]
        BY <3>1, <3>2, <3>4
      <3> QED
        BY <3>1, <3>2, <3>3, <3>4, <3>5, LoadedStep
    <2> QED
      BY <1>3, <2>4, <2>5, <2>6, <2>7
  <1> QED
    BY <1>1, <1>2, <1>3

-----------------------------------------------------------------------------
(* Steps of the remote workers keep the reports in order *)

WorkerUnchanged(c) == UNCHANGED <<started, tallyVars, wpc[c], tx[c], rep[c], snap[c]>>

\* What is known of a worker whose own variables do not change.
LEMMA WorkerSame ==
    ASSUME NEW c, WorkerUnchanged(c)
    PROVE  /\ Tally(c)' = Tally(c) /\ Source(c)' = Source(c) /\ Finished(c)' = Finished(c)
           /\ started' = started /\ counted' = counted /\ wpc'[c] = wpc[c] /\ tx'[c] = tx[c]
           /\ rep'[c] = rep[c] /\ snap'[c] = snap[c]
           /\ \A x : ReportInv(c, x)' = ReportInv(c, x)
  <1>1. /\ Tally(c)' = Tally(c) /\ Source(c)' = Source(c) /\ Finished(c)' = Finished(c)
        /\ started' = started /\ counted' = counted /\ wpc'[c] = wpc[c] /\ tx'[c] = tx[c]
        /\ rep'[c] = rep[c] /\ snap'[c] = snap[c]
    BY DEF WorkerUnchanged, tallyVars, Tally, Source, Finished
  <1>2. \A x : ReportInv(c, x)' = ReportInv(c, x)
    BY <1>1 DEF ReportInv
  <1> QED
    BY <1>1, <1>2

\* The places of a remote worker in receiveTestingUpdates and after it.
HasStarted == {"testing", "forward", "unregister", "done"}

\* A remote worker moves on without passing on a report.
LEMMA QuietRelay ==
    ASSUME NEW c \in Conns, OrderInv(c), WayInv(c), WorkerUnchanged(c),
           workerUpdate' = workerUpdate,
           rpc[c] # "forward", rpc'[c] # "forward",
           rpc[c] \in HasStarted => rpc'[c] \in HasStarted,
           Returned(c) => Returned(c)',
           SameReports(up[c], up'[c])
    PROVE  OrderInv(c)' /\ WayInv(c)'
  <1>1. /\ Passing(c) = {} /\ Passing(c)' = {} /\ Queued(c)' = Queued(c)
        /\ Contents(up'[c]) \cap Reports \subseteq Contents(up[c]) \cap Reports
        /\ Sent(c)' \subseteq Sent(c) /\ workerUpdate' = workerUpdate
    BY DEF Passing, Queued, Sent, SameReports
  <1>2. Ordered(up[c], Reports) => Ordered(up'[c], Reports)
    BY DEF SameReports
  <1>3. OrderInv(c)'
    BY <1>1, <1>2 DEF OrderInv
  <1>4. WayInv(c)'
    BY <1>1, WorkerSame DEF WayInv, HasStarted
  <1> QED
    BY <1>3, <1>4

\* The coordinator's process ends, and with it all reports under way.
LEMMA ReportsGone ==
    ASSUME NEW c \in Conns, WayInv(c), WorkerUnchanged(c),
           rpc'[c] = "done", workerUpdate' = <<>>, up'[c] = <<>>
    PROVE  OrderInv(c)' /\ WayInv(c)'
  <1>1. /\ Passing(c)' = {} /\ Queued(c)' = {} /\ Sent(c)' = {} /\ Returned(c)'
        /\ Contents(up'[c]) = {}
    BY EmptyQueue DEF Passing, Queued, Sent, Returned
  <1>2. OrderInv(c)'
    BY <1>1, EmptyQueue DEF OrderInv
  <1>3. WayInv(c)'
    BY <1>1, WorkerSame DEF WayInv
  <1> QED
    BY <1>2, <1>3

\* A report is read from the connection.
LEMMA ReadUpdateReports ==
    ASSUME TypeOK, NEW c \in Conns, OrderInv(c), WayInv(c), ReadUpdate(c)
    PROVE  OrderInv(c)' /\ WayInv(c)'
  <1> DEFINE m == Head(up[c])
  <1>1. /\ rpc[c] = "testing" /\ rpc'[c] = "forward" /\ rmsg'[c] = m
        /\ up'[c] = Tail(up[c]) /\ up[c] # <<>> /\ up[c] \in Seq(UpMsgs)
        /\ m \in Reports /\ workerUpdate' = workerUpdate
    BY DEF ReadUpdate, TypeOK, LoopTypeOK, NetTypeOK, coordVars, chanVars, Reports
  <1>2. WorkerUnchanged(c)
    BY DEF ReadUpdate, WorkerUnchanged, coordVars, workerVars
  <1> HIDE DEF m
  <1>3. /\ Contents(up[c]) = {m} \cup Contents(up'[c])
        /\ Ordered(up[c], Reports)
              => Ordered(up'[c], Reports) /\ \A y \in Contents(up'[c]) \cap Reports : Follows(m, y)
    <2>1. Ordered(up[c], {})
      BY DEF Ordered
    <2> QED
      BY <1>1, <2>1, TailQueue DEF m
  <1>4. /\ Passing(c) = {} /\ Passing(c)' = {m} /\ Queued(c)' = Queued(c)
        /\ Sent(c) = {m} \cup Sent(c)' /\ Sent(c)' = Contents(up'[c]) \cap Reports
        /\ ~Returned(c) /\ ~Returned(c)'
    BY <1>1, <1>3 DEF Passing, Queued, Sent, Returned
  <1>5. OrderInv(c)'
    BY <1>1, <1>3, <1>4 DEF OrderInv
  <1>6. WayInv(c)'
    <2>1. Contents(up'[c]) \cap Reports # {} \/ Queued(c)' # {} \/ Passing(c)' # {}
              => c \in started' /\ wpc'[c] \in HasLoaded
      <3>1. Contents(up[c]) \cap Reports # {}
        BY <1>1, <1>3
      <3> QED
        BY <1>2, <3>1, WorkerSame DEF WayInv, HasLoaded
    <2> QED
      BY <1>1, <1>2, <1>4, <2>1, WorkerSame DEF WayInv, HasLoaded
  <1> QED
    BY <1>5, <1>6

\* A report is put into the coordinator's channel.
LEMMA ForwardReports ==
    ASSUME TypeOK, NEW c \in Conns, OrderInv(c), WayInv(c), Forward(c)
    PROVE  OrderInv(c)' /\ WayInv(c)'
  <1> DEFINE m == rmsg[c]
             u == [conn |-> c, state |-> rmsg[c].state, tx |-> rmsg[c].tx]
  <1>1. /\ rpc[c] = "forward" /\ m \in UpMsgs
        /\ workerUpdate \in Seq(Updates) /\ workerUpdate' = Append(workerUpdate, u)
        /\ \/ rpc'[c] = "unregister" /\ up'[c] = <<>>
           \/ rpc'[c] = "testing" /\ up' = up /\ m.state # "completed"
    BY DEF Forward, ReceiveWorkerUpdate, Return, TypeOK, LoopTypeOK, NetTypeOK, ChanTypeOK
  <1>2. u \in Updates /\ u \in UpdatesOf(c) /\ u.state = m.state /\ u.tx = m.tx
    BY <1>1 DEF Updates, UpMsgs, UpdatesOf
  <1>3. WorkerUnchanged(c)
    BY DEF Forward, WorkerUnchanged, workerVars
  <1> HIDE DEF m, u
  <1>4. /\ Passing(c) = {m} /\ Passing(c)' = {}
        /\ Sent(c)' \subseteq Sent(c) /\ ~Returned(c)
        /\ Contents(up'[c]) \cap Reports \subseteq Contents(up[c]) \cap Reports
        /\ Returned(c)' \/ (up' = up /\ Returned(c)' = Returned(c) /\ m.state # "completed")
    BY <1>1, EmptyQueue DEF Passing, Sent, Returned, m
  <1>5. \A y \in Queued(c) : Follows(y, u)
    BY <1>2, <1>4 DEF OrderInv, Follows
  <1>6. /\ Contents(workerUpdate') = Contents(workerUpdate) \cup {u}
        /\ Ordered(workerUpdate', UpdatesOf(c))
    BY <1>1, <1>2, <1>5, AppendQueue DEF OrderInv, Queued
  <1>7. Queued(c)' = Queued(c) \cup {u}
    BY <1>2, <1>6 DEF Queued
  <1>8. OrderInv(c)'
    <2>1. \A y \in Sent(c) : Follows(u, y)
      BY <1>2, <1>4 DEF OrderInv, Follows
    <2>2. \A x \in Queued(c)', y \in Passing(c)' \cup Sent(c)' : Follows(x, y)
      BY <1>4, <1>7, <2>1 DEF OrderInv
    <2>3. Returned(c)' \/ Ordered(up'[c], Reports)
      BY <1>4 DEF OrderInv
    <2> QED
      BY <1>4, <1>6, <2>2, <2>3 DEF OrderInv
  <1>9. WayInv(c)'
    <2>1. ReportInv(c, m) /\ ReportInv(c, u)
      BY <1>2, <1>4 DEF WayInv, ReportInv, Follows
    <2>2. c \in started' /\ wpc'[c] \in HasLoaded
      BY <1>3, <1>4, WorkerSame DEF WayInv, HasLoaded
    <2>3. ~Returned(c)' => \A x \in Queued(c)' : x.state = "testing"
      BY <1>2, <1>4, <1>7, <2>1 DEF WayInv, ReportInv
    <2>4. c \notin counted' /\ rpc'[c] \in HasStarted
      BY <1>1, <1>3, <1>4, WorkerSame DEF WayInv, HasStarted
    <2> QED
      BY <1>3, <1>4, <1>7, <2>1, <2>2, <2>3, <2>4, WorkerSame DEF WayInv, HasLoaded, HasStarted
  <1> QED
    BY <1>8, <1>9

\* How far the channels and tallies are affected by a step of a remote worker:
\* it takes the process down, or handles a report, or leaves reports alone.
QuietStep(c) ==
    /\ workerUpdate' = workerUpdate
    /\ rpc[c] # "forward" /\ rpc'[c] # "forward"
    /\ rpc[c] \in HasStarted => rpc'[c] \in HasStarted
    /\ Returned(c) => Returned(c)'
    /\ SameReports(up[c], up'[c])

LEMMA RelayEffect ==
    ASSUME TypeOK, NEW c \in Conns, RemoteWorkerStep(c)
    PROVE  /\ UNCHANGED <<result, workers, started, tallyVars, workerVars>>
           /\ \/ cpc' = "crashed" /\ ProcessGone /\ Alive
              \/ /\ cpc' = cpc /\ \A d \in Conns \ {c} : UNCHANGED ReportVars(d)
                 /\ ReadUpdate(c) \/ Forward(c) \/ QuietStep(c)
  <1> USE DEF coordVars, chanVars, HasStarted, Returned
  <1>0. NetTypeOK /\ LoopTypeOK /\ up[c] \in Seq(UpMsgs)
    BY DEF TypeOK, NetTypeOK
  <1>q. SameReports(up[c], up[c]) /\ SameReports(up[c], <<>>)
    BY EmptyQueue DEF SameReports
  <1>t. up[c] # <<>> => SameReports(up[c], Tail(up[c]))
    <2>1. SUFFICES ASSUME up[c] # <<>> PROVE SameReports(up[c], Tail(up[c]))
      OBVIOUS
    <2>2. Ordered(up[c], {})
      BY DEF Ordered
    <2>3. Contents(up[c]) = {Head(up[c])} \cup Contents(Tail(up[c]))
      BY <1>0, <2>1, <2>2, TailQueue
    <2>4. Ordered(up[c], Reports) => Ordered(Tail(up[c]), Reports)
      BY <1>0, <2>1, TailQueue
    <2> QED
      BY <2>3, <2>4 DEF SameReports
  \* What Return does, and a step that stays on the way to the test.
  <1>r. ASSUME NEW failed, Return(c, failed), UNCHANGED <<workerUpdate, rmsg, workerVars>>,
               rpc[c] \notin {"forward", "unregister", "done"}
        PROVE  QuietStep(c) /\ \A d \in Conns \ {c} : UNCHANGED ReportVars(d)
    <2>1. /\ rpc'[c] = "unregister" /\ up'[c] = <<>>
          /\ \A d \in Conns \ {c} : UNCHANGED <<rpc[d], up[d]>>
      BY <1>0, <1>r DEF Return, NetTypeOK, LoopTypeOK
    <2> QED
      BY <1>q, <1>r, <2>1 DEF QuietStep, ReportVars, workerVars
  <1>m. ASSUME NEW where \in {"register", "awaitReg", "metrics", "waitForStart", "testing"},
               rpc' = [rpc EXCEPT ![c] = where], rpc[c] \notin HasStarted,
               UNCHANGED <<workerUpdate, rmsg, workerVars>>,
               up' = up \/ (up[c] # <<>> /\ up' = [up EXCEPT ![c] = Tail(@)])
        PROVE  QuietStep(c) /\ \A d \in Conns \ {c} : UNCHANGED ReportVars(d)
    <2>1. /\ rpc'[c] = where /\ SameReports(up[c], up'[c])
          /\ \A d \in Conns \ {c} : UNCHANGED <<rpc[d], up[d]>>
      BY <1>0, <1>m, <1>q, <1>t DEF NetTypeOK, LoopTypeOK
    <2> QED
      BY <1>m, <2>1 DEF QuietStep, ReportVars, workerVars
  <1>1. CASE ReadID(c)
    BY <1>1, <1>m DEF ReadID
  <1>2. CASE ReadIDFails(c)
    BY <1>2, <1>r DEF ReadIDFails
  <1>3. CASE SendRegister(c)
    BY <1>3, <1>m DEF SendRegister, netVars
  <1>4. CASE RegisterAccepted(c)
    <2>1. /\ rpc[c] = "awaitReg" /\ UNCHANGED <<coordVars, rmsg, workerVars>>
          /\ \/ rpc' = [rpc EXCEPT ![c] = "metrics"] /\ up' = up
             \/ Return(c, TRUE)
      BY <1>4 DEF RegisterAccepted
    <2> QED
      BY <2>1, <1>m, <1>r
  <1>5. CASE RegisterRejected(c)
    BY <1>5, <1>r DEF RegisterRejected
  <1>6. CASE RegisterTimeout(c)
    BY <1>6, <1>r DEF RegisterTimeout
  <1>7. CASE CreateMetrics(c)
    <2>1. CASE rid[c] \in metrics
      BY <1>7, <2>1 DEF CreateMetrics
    <2>2. CASE rid[c] \notin metrics
      BY <1>7, <2>2, <1>m DEF CreateMetrics
    <2> QED
      BY <2>1, <2>2
  <1>8. CASE HandleCtrl(c)
    <2>1. /\ UNCHANGED <<cpc, result, workers, started, tallyVars, chanVars, rmsg, workerVars>>
          /\ \/ rpc[c] \in {"waitForStart", "testing"} /\ Return(c, TRUE)
             \/ rpc[c] = "waitForStart" /\ rpc' = [rpc EXCEPT ![c] = "testing"] /\ up' = up
      BY <1>8 DEF HandleCtrl
    <2> QED
      BY <2>1, <1>m, <1>r
  <1>9. CASE StopNoticed(c)
    BY <1>9, <1>r DEF StopNoticed
  <1>10. CASE ReadUpdate(c)
    BY <1>10, <1>0 DEF ReadUpdate, ReportVars, workerVars, NetTypeOK, LoopTypeOK
  <1>11. CASE ReadUpdateFails(c)
    BY <1>11, <1>r DEF ReadUpdateFails
  <1>12. CASE Forward(c)
    BY <1>12, <1>0 DEF Forward, Return, ReportVars, workerVars, NetTypeOK, LoopTypeOK
  <1>13. CASE Unregister(c)
    <2>1. /\ rpc[c] = "unregister" /\ rpc'[c] = "done"
          /\ \A d \in Conns \ {c} : rpc'[d] = rpc[d]
          /\ UNCHANGED <<cpc, result, workers, started, tallyVars, workerUpdate, rmsg,
                         workerVars, up>>
      BY <1>13, <1>0 DEF Unregister, netVars, LoopTypeOK
    <2> QED
      BY <2>1, <1>q DEF QuietStep, ReportVars, workerVars
  <1> QED
    BY <1>1, <1>2, <1>3, <1>4, <1>5, <1>6, <1>7, <1>8, <1>9, <1>10, <1>11, <1>12, <1>13
    DEF RemoteWorkerStep

\* Steps of a remote worker keep the reports of all workers in order.
LEMMA RemoteWorkerReports ==
    ASSUME TypeOK, \A e \in Conns : OrderInv(e) /\ WayInv(e),
           NEW c \in Conns, RemoteWorkerStep(c), NEW d \in Conns
    PROVE  OrderInv(d)' /\ WayInv(d)'
  <1>0. /\ UNCHANGED <<started, tallyVars, workerVars>>
        /\ \/ cpc' = "crashed" /\ ProcessGone
           \/ /\ \A e \in Conns \ {c} : UNCHANGED ReportVars(e)
              /\ ReadUpdate(c) \/ Forward(c) \/ QuietStep(c)
    BY RelayEffect
  <1>1. WorkerUnchanged(d)
    BY <1>0 DEF WorkerUnchanged, workerVars
  <1>2. CASE ProcessGone
    <2>1. rpc'[d] = "done" /\ workerUpdate' = <<>> /\ up'[d] = <<>>
      BY <1>2 DEF ProcessGone
    <2> QED
      BY <1>1, <2>1, ReportsGone
  <1>3. CASE d = c /\ ReadUpdate(c)
    BY <1>3, ReadUpdateReports
  <1>4. CASE d = c /\ Forward(c)
    BY <1>4, ForwardReports
  <1>5. CASE d = c /\ QuietStep(c)
    BY <1>1, <1>5, QuietRelay DEF QuietStep
  <1>6. CASE d # c /\ UNCHANGED ReportVars(d) /\ (ReadUpdate(c) \/ Forward(c) \/ QuietStep(c))
    <2>1. Tally(d)' = Tally(d) /\ counted' = counted
      BY <1>0 DEF Tally, tallyVars
    <2>2. Ordered(workerUpdate', UpdatesOf(d)) /\ Queued(d)' \subseteq Queued(d)
      <3>1. CASE workerUpdate' = workerUpdate
        BY <3>1 DEF OrderInv, Queued
      <3>2. CASE Forward(c)
        <4> DEFINE u == [conn |-> c, state |-> rmsg[c].state, tx |-> rmsg[c].tx]
        <4>1. /\ u \in Updates /\ workerUpdate \in Seq(Updates)
              /\ workerUpdate' = Append(workerUpdate, u)
          BY <3>2 DEF Forward, ReceiveWorkerUpdate, TypeOK, LoopTypeOK, ChanTypeOK, Updates, UpMsgs
        <4>2. u \notin UpdatesOf(d)
          BY <1>6 DEF UpdatesOf
        <4> HIDE DEF u
        <4>3. /\ Contents(workerUpdate') = Contents(workerUpdate) \cup {u}
              /\ Ordered(workerUpdate', UpdatesOf(d))
          BY <4>1, <4>2, AppendQueue DEF OrderInv
        <4> QED
          BY <4>2, <4>3 DEF Queued
      <3> QED
        BY <1>6, <3>1, <3>2 DEF ReadUpdate, QuietStep, coordVars, chanVars
    <2> QED
      BY <1>0, <1>6, <2>1, <2>2, Unaffected
  <1> QED
    BY <1>0, <1>2, <1>3, <1>4, <1>5, <1>6

-----------------------------------------------------------------------------
(* Steps of the coordinator keep the reports in order *)

\* A step that handles no report.
LEMMA ReportsKept ==
    ASSUME NEW d \in Conns, OrderInv(d), WayInv(d),
           UNCHANGED <<started, tallyVars, workerUpdate, rpc, rmsg, workerVars, up>>
    PROVE  OrderInv(d)' /\ WayInv(d)'
  <1>1. /\ UNCHANGED <<ReportVars(d), started>> /\ Queued(d)' = Queued(d)
        /\ Tally(d)' = Tally(d) /\ counted' = counted /\ workerUpdate' = workerUpdate
    BY DEF ReportVars, workerVars, tallyVars, Queued, Tally
  <1> QED
    BY <1>1, Unaffected DEF OrderInv

\* The registration that starts the test finds no report anywhere.
LEMMA HandleRegisterReports ==
    ASSUME TypeOK, RegistryInv, TeamInv, NEW d \in Conns, OrderInv(d), WayInv(d),
           HandleRegister
    PROVE  OrderInv(d)' /\ WayInv(d)'
  <1>0. Head(workerRegister) \in Conns /\ \A c \in Conns : IdOf[c] \in Ids
    BY IdsAssumption DEF HandleRegister, TypeOK, ChanTypeOK
  <1>1. /\ started = {} /\ UNCHANGED <<counted, workerUpdate, rpc, rmsg, workerVars, up>>
        /\ totalTxsPerWorker' = totalTxsPerWorker
              \/ totalTxsPerWorker' =
                    [totalTxsPerWorker EXCEPT ![IdOf[Head(workerRegister)]] = 0]
    BY DEF HandleRegister, RegistryInv, loopVars, netVars
  <1>2. Tally(d)' = 0
    <2>1. \A i \in Ids : totalTxsPerWorker[i] = 0
      BY <1>1 DEF TeamInv
    <2> QED
      BY <1>0, <1>1, <2>1 DEF Tally, TypeOK, TallyTypeOK
  <1>3. /\ Contents(up[d]) \cap Reports = {} /\ Queued(d) = {} /\ Passing(d) = {}
        /\ Sent(d) = {} /\ d \notin counted
    BY <1>1 DEF WayInv, Sent
  <1>4. /\ Queued(d)' = Queued(d) /\ Passing(d)' = Passing(d) /\ Sent(d)' = Sent(d)
        /\ Source(d)' = Source(d) /\ Contents(up'[d]) = Contents(up[d])
        /\ workerUpdate' = workerUpdate /\ up' = up /\ rpc' = rpc /\ counted' = counted
        /\ Returned(d)' = Returned(d) /\ tx' = tx /\ rep' = rep /\ snap' = snap
    BY <1>1 DEF Queued, Passing, Sent, Source, Returned, workerVars
  <1>5. OrderInv(d)'
    BY <1>3, <1>4 DEF OrderInv
  <1>6. WayInv(d)'
    <2>1. Tally(d)' <= tx'[d] /\ Tally(d)' <= Source(d)'.tx
      <3>1. tx[d] \in Nat /\ Source(d).tx \in Nat
        BY ReportsTyped
      <3> QED
        BY <1>2, <1>4, <3>1
    <2> QED
      BY <1>3, <1>4, <2>1 DEF WayInv
  <1> QED
    BY <1>5, <1>6

\* What the coordinator learns from the update it takes out of its channel:
\* no less than it knew. A completion is the last report of its worker and
\* brings the final count.
LEMMA UpdateTaken ==
    ASSUME TypeOK, \A e \in Conns : OrderInv(e) /\ WayInv(e),
           workerUpdate # <<>>, workerUpdate' = Tail(workerUpdate),
           NEW m, m = Head(workerUpdate)
    PROVE  /\ m \in Updates /\ m.conn \in started /\ m.conn \notin counted
           /\ \A d \in Conns : /\ Ordered(workerUpdate', UpdatesOf(d))
                               /\ Queued(d)' \subseteq Queued(d)
           /\ ReportInv(m.conn, m)
           /\ \A x \in Queued(m.conn)' \cup Passing(m.conn) \cup Sent(m.conn) : Follows(m, x)
           /\ m.state = "completed" => /\ Finished(m.conn) /\ Returned(m.conn)
                                       /\ Queued(m.conn)' = {} /\ m.tx = tx[m.conn]
  <1>0. workerUpdate \in Seq(Updates) /\ m \in Updates /\ m.conn \in Conns
    <2>1. workerUpdate \in Seq(Updates)
      BY DEF TypeOK, ChanTypeOK
    <2>2. m \in Updates
      BY <2>1
    <2> QED
      BY <2>1, <2>2 DEF Updates
  <1>1. ASSUME NEW d \in Conns
        PROVE  /\ Contents(workerUpdate) = {m} \cup Contents(workerUpdate')
               /\ Ordered(workerUpdate', UpdatesOf(d))
               /\ m \in UpdatesOf(d)
                    => \A y \in Contents(workerUpdate') \cap UpdatesOf(d) : Follows(m, y)
    BY <1>0, TailQueue DEF OrderInv
  <1>2. \A d \in Conns : Queued(d)' \subseteq Queued(d)
    BY <1>1 DEF Queued
  <1>3. m \in UpdatesOf(m.conn) /\ m \in Queued(m.conn)
    BY <1>0, <1>1 DEF UpdatesOf, Queued
  <1>4. m.conn \in started /\ m.conn \notin counted /\ ReportInv(m.conn, m)
    BY <1>0, <1>3 DEF WayInv
  <1>5. \A x \in Queued(m.conn)' \cup Passing(m.conn) \cup Sent(m.conn) : Follows(m, x)
    BY <1>0, <1>1, <1>3 DEF OrderInv, Queued
  <1>6. ASSUME m.state = "completed"
        PROVE  Finished(m.conn) /\ Returned(m.conn) /\ Queued(m.conn)' = {} /\ m.tx = tx[m.conn]
    <2>1. Finished(m.conn) /\ m.tx = tx[m.conn]
      BY <1>4, <1>6 DEF ReportInv, Follows
    <2>2. Returned(m.conn)
      BY <1>0, <1>3, <1>6 DEF WayInv
    <2>3. Queued(m.conn)' = {}
      BY <1>5, <1>6 DEF Follows
    <2> QED
      BY <2>1, <2>2, <2>3
  <1> QED
    BY <1>0, <1>1, <1>2, <1>4, <1>5, <1>6

\* After an update of a worker that is known the count kept for it is the one
\* reported, and the counts of the others are as before.
LEMMA KnownUpdate ==
    ASSUME TypeOK, \A e \in Conns : OrderInv(e) /\ WayInv(e), HandleUpdate,
           NEW m, m = Head(workerUpdate), Known(m)
    PROVE  /\ Tally(m.conn)' = m.tx /\ Tally(m.conn) <= m.tx
           /\ \A i \in Ids \ {IdOf[m.conn]} : totalTxsPerWorker'[i] = totalTxsPerWorker[i]
           /\ counted' = IF m.state = "completed" THEN counted \cup {m.conn} ELSE counted
           /\ completed' = IF m.state = "completed" THEN completed + 1 ELSE completed
  <1>1. /\ totalTxsPerWorker' = Tallied(m) /\ totalTxsPerWorker \in [Ids -> Nat]
        /\ counted' = IF m.state = "completed" THEN counted \cup {m.conn} ELSE counted
        /\ completed' = IF m.state = "completed" THEN completed + 1 ELSE completed
        /\ workerUpdate # <<>> /\ workerUpdate' = Tail(workerUpdate)
    BY DEF HandleUpdate, TypeOK, TallyTypeOK
  <1>2. /\ m.conn \in Conns /\ m.tx \in Nat /\ Tally(m.conn) <= m.tx
        /\ IdOf[m.conn] \in Ids /\ Tally(m.conn) \in Nat
    <2>1. m \in Updates /\ ReportInv(m.conn, m)
      BY <1>1, UpdateTaken
    <2> QED
      BY <1>1, <2>1, IdsAssumption DEF Updates, ReportInv, Tally
  <1>3. Tally(m.conn)' = m.tx
    <2>1. CASE m.tx > 0
      BY <1>1, <1>2, <2>1 DEF Tallied, Tally
    <2>2. CASE ~(m.tx > 0)
      BY <1>1, <1>2, <2>2 DEF Tallied, Tally
    <2> QED
      BY <2>1, <2>2
  <1>4. \A i \in Ids \ {IdOf[m.conn]} : totalTxsPerWorker'[i] = totalTxsPerWorker[i]
    BY <1>1, <1>2 DEF Tallied
  <1> QED
    BY <1>1, <1>2, <1>3, <1>4

\* An update of a worker whose entry is gone changes nothing but the channel.
LEMMA UnknownUpdate ==
    ASSUME HandleUpdate, ~Known(Head(workerUpdate))
    PROVE  UNCHANGED <<tallyVars, cpc>>
  BY DEF HandleUpdate

\* The update that is taken out of the channel, with its worker named.
LEMMA UpdateOf ==
    ASSUME TypeOK, \A e \in Conns : OrderInv(e) /\ WayInv(e), HandleUpdate,
           NEW m, m = Head(workerUpdate), NEW c, c = m.conn
    PROVE  /\ c \in Conns /\ c \in started /\ c \notin counted /\ ReportInv(c, m)
           /\ \A x \in Queued(c)' \cup Passing(c) \cup Sent(c) : Follows(m, x)
           /\ m.state = "completed" => /\ Finished(c) /\ Returned(c)
                                       /\ Queued(c)' = {} /\ m.tx = tx[c]
           /\ \A d \in Conns : /\ Ordered(workerUpdate', UpdatesOf(d))
                               /\ Queued(d)' \subseteq Queued(d)
           /\ UNCHANGED <<started, rpc, rmsg, workerVars, up>>
  <1>1. /\ workerUpdate # <<>> /\ workerUpdate' = Tail(workerUpdate)
        /\ UNCHANGED <<started, rpc, rmsg, workerVars, up>>
    BY DEF HandleUpdate, rwVars, loopVars, netVars
  <1>2. m \in Updates => m.conn \in Conns
    BY DEF Updates
  <1> QED
    BY <1>1, <1>2, UpdateTaken

\* An update that is counted keeps the reports of its worker in order.
LEMMA CountedReports ==
    ASSUME TypeOK, \A e \in Conns : OrderInv(e) /\ WayInv(e), HandleUpdate,
           NEW m, m = Head(workerUpdate), Known(m), NEW c, c = m.conn
    PROVE  OrderInv(c)' /\ WayInv(c)'
  <1>1. /\ c \in Conns /\ c \in started /\ c \notin counted /\ ReportInv(c, m)
        /\ OrderInv(c) /\ WayInv(c)
        /\ Ordered(workerUpdate', UpdatesOf(c)) /\ Queued(c)' \subseteq Queued(c)
        /\ \A x \in Queued(c)' \cup Passing(c) \cup Sent(c) : Follows(m, x)
        /\ m.state = "completed" => /\ Finished(c) /\ Returned(c)
                                    /\ Queued(c)' = {} /\ m.tx = tx[c]
        /\ UNCHANGED <<started, rpc, rmsg, workerVars, up>>
    BY UpdateOf
  <1>2. /\ Tally(c)' = m.tx /\ Tally(c) <= m.tx
        /\ counted' = IF m.state = "completed" THEN counted \cup {c} ELSE counted
    BY KnownUpdate
  <1>3. /\ Passing(c)' = Passing(c) /\ Sent(c)' = Sent(c) /\ Returned(c)' = Returned(c)
        /\ Source(c)' = Source(c) /\ Finished(c)' = Finished(c)
        /\ started' = started /\ up' = up /\ wpc' = wpc /\ tx' = tx /\ rep' = rep
        /\ snap' = snap /\ rpc' = rpc
    BY <1>1 DEF Passing, Sent, Returned, Source, Finished, workerVars
  <1>4. OrderInv(c)'
    <2>1. Returned(c)' \/ Ordered(up'[c], Reports)
      BY <1>1, <1>3 DEF OrderInv
    <2>2. \A x \in Queued(c)', y \in Passing(c)' \cup Sent(c)' : Follows(x, y)
      BY <1>1, <1>3 DEF OrderInv
    <2> QED
      BY <1>1, <1>3, <2>1, <2>2 DEF OrderInv
  <1>5. \A x \in (Queued(c) \cup Passing(c) \cup Sent(c))' : ReportInv(c, x)'
    <2> SUFFICES ASSUME NEW x \in (Queued(c) \cup Passing(c) \cup Sent(c))'
                 PROVE  ReportInv(c, x)'
      OBVIOUS
    <2>1. Follows(m, x) /\ ReportInv(c, x)
      BY <1>1, <1>3 DEF WayInv
    <2> QED
      BY <1>2, <1>3, <2>1 DEF ReportInv, Follows
  <1>6. Tally(c)' <= tx[c] /\ (~Finished(c) => Tally(c)' <= Source(c).tx)
    BY <1>1, <1>2 DEF ReportInv, Follows
  <1>7. c \in counted' => Finished(c) /\ Returned(c) /\ Queued(c)' = {} /\ Tally(c)' = tx[c]
    BY <1>1, <1>2
  <1>8. WayInv(c)'
    BY <1>1, <1>3, <1>5, <1>6, <1>7 DEF WayInv
  <1> QED
    BY <1>4, <1>8

\* An update that is counted, or dropped, keeps all reports in order.
LEMMA HandleUpdateReports ==
    ASSUME TypeOK, TeamInv, \A e \in Conns : OrderInv(e) /\ WayInv(e), HandleUpdate,
           NEW d \in Conns
    PROVE  OrderInv(d)' /\ WayInv(d)'
  <1>1. PICK m, c : m = Head(workerUpdate) /\ c = m.conn
    OBVIOUS
  <1>2. /\ c \in Conns /\ c \in started /\ UNCHANGED <<ReportVars(d), started>>
        /\ Ordered(workerUpdate', UpdatesOf(d)) /\ Queued(d)' \subseteq Queued(d)
    BY <1>1, UpdateOf DEF ReportVars, workerVars
  <1>3. CASE ~Known(m)
    <2>1. Tally(d)' = Tally(d) /\ counted' = counted
      BY <1>1, <1>3, UnknownUpdate DEF Tally, tallyVars
    <2> QED
      BY <1>2, <2>1, Unaffected
  <1>4. CASE Known(m) /\ d # c
    <2>1. /\ \A i \in Ids \ {IdOf[c]} : totalTxsPerWorker'[i] = totalTxsPerWorker[i]
          /\ d \in counted' => d \in counted
      BY <1>1, <1>4, KnownUpdate
    <2>2. d \in started => IdOf[d] \in Ids \ {IdOf[c]}
      BY <1>2, <1>4, IdsAssumption DEF TeamInv
    <2>3. d \in started => Tally(d)' = Tally(d)
      BY <2>1, <2>2 DEF Tally
    <2> QED
      BY <1>2, <2>1, <2>3, Unaffected
  <1>5. CASE Known(m) /\ d = c
    BY <1>1, <1>5, CountedReports
  <1> QED
    BY <1>3, <1>4, <1>5

\* Steps of the coordinator keep the reports of all workers in order.
LEMMA CoordinatorReports ==
    ASSUME TypeOK, RegistryInv, TeamInv, \A e \in Conns : OrderInv(e) /\ WayInv(e),
           CoordinatorStep \/ CoordinatorFault, NEW d \in Conns
    PROVE  OrderInv(d)' /\ WayInv(d)'
  <1> USE DEF chanVars, rwVars, loopVars, netVars
  <1>1. CASE HandleRegister
    BY <1>1, HandleRegisterReports
  <1>2. CASE HandleUpdate
    BY <1>2, HandleUpdateReports
  <1>3. CASE Exit
    <2>1. rpc'[d] = "done" /\ workerUpdate' = <<>> /\ up'[d] = <<>> /\ WorkerUnchanged(d)
      BY <1>3 DEF Exit, ProcessGone, WorkerUnchanged, workerVars
    <2> QED
      BY <2>1, ReportsGone
  <1>4. CASE WaitForPeers \/ PeersFailed \/ Listen
    BY <1>4, ReportsKept DEF WaitForPeers, PeersFailed, Listen
  <1>5. CASE HandleUnregisterWaiting \/ ConnectTimeout \/ StopOrServerNoticed
    BY <1>5, ReportsKept DEF HandleUnregisterWaiting, ConnectTimeout, StopOrServerNoticed
  <1>6. CASE StartAcked \/ StartFailed \/ \E i \in Ids : StartNext(i)
    BY <1>6, ReportsKept DEF StartAcked, StartFailed, StartNext
  <1>7. CASE FailAnswered \/ SetFailed \/ \E i \in Ids : FailNext(i)
    BY <1>7, ReportsKept DEF FailAnswered, SetFailed, FailNext
  <1>8. CASE HandleUnregisterTesting \/ Complete \/ StopRemoteWorkers \/ ShutdownServer
    BY <1>8, ReportsKept
    DEF HandleUnregisterTesting, Complete, StopRemoteWorkers, ShutdownServer
  <1>9. CASE TrapSetsMetric \/ Interrupt \/ ServerFails
    BY <1>9, ReportsKept DEF TrapSetsMetric, Interrupt, ServerFails
  <1>10. CASE LogTestingProgress
    BY <1>10, ReportsKept DEF LogTestingProgress, vars, coordVars
  <1> QED
    BY <1>1, <1>2, <1>3, <1>4, <1>5, <1>6, <1>7, <1>8, <1>9, <1>10
    DEF CoordinatorStep, CoordinatorFault

-----------------------------------------------------------------------------
(* The team, and how far the test has come *)

\* The entries of c.workers are finitely many: each is a connection of its own.
LEMMA RegisteredFinite ==
    ASSUME TypeOK, RegistryInv
    PROVE  IsFiniteSet(Registered) /\ Cardinality(Registered) \in Nat
  <1>1. \A i \in Registered : workers[i] \in Conns /\ IdOf[workers[i]] = i
    BY DEF Registered, TypeOK, RunTypeOK, RegistryInv
  <1>2. [i \in Registered |-> workers[i]] \in Injection(Registered, Conns)
    BY <1>1 DEF Injection, IsInjective
  <1>3. IsFiniteSet(Registered)
    BY <1>2, ConnsAssumption, FS_Injection
  <1> QED
    BY <1>3, FS_CardinalityType

\* The workers counted are finitely many.
LEMMA CountedFinite ==
    ASSUME TypeOK PROVE IsFiniteSet(counted) /\ Cardinality(counted) \in Nat
  BY ConnsAssumption, FS_Subset, FS_CardinalityType DEF TypeOK, TallyTypeOK

\* Steps that neither start nor count anyone, nor register while waiting.
LEMMA TeamKept ==
    ASSUME TeamInv, UNCHANGED <<started, tallyVars>>,
           cpc' \in {"init", "peers", "wait"}
              => cpc \in {"init", "peers", "wait"} /\ UNCHANGED workers
    PROVE  TeamInv'
  BY DEF TeamInv, tallyVars, Registered

\* The expected number of registrations makes the team.
LEMMA HandleRegisterTeam ==
    ASSUME TypeOK, RegistryInv, RegistryInv', TypeOK', TeamInv, HandleRegister
    PROVE  TeamInv'
  <1> DEFINE c == Head(workerRegister)
             reg == IF Refused(c) THEN Registered ELSE Registered \cup {IdOf[c]}
  <1>1. /\ cpc = "wait" /\ started = {} /\ UNCHANGED <<completed, counted>>
        /\ c \in Conns /\ IdOf[c] \in Ids
        /\ workers' = IF Refused(c) THEN workers ELSE [workers EXCEPT ![IdOf[c]] = c]
        /\ totalTxsPerWorker' = totalTxsPerWorker
              \/ totalTxsPerWorker' = [totalTxsPerWorker EXCEPT ![IdOf[c]] = 0]
        /\ \/ /\ AllRegistered(reg) /\ cpc' = "start" /\ started' = {workers'[i] : i \in reg}
           \/ ~AllRegistered(reg) /\ UNCHANGED <<cpc, started>>
    BY IdsAssumption DEF HandleRegister, TypeOK, ChanTypeOK, RegistryInv
  <1> HIDE DEF c
  <1>2. /\ IsFiniteSet(Registered) /\ Cardinality(Registered) \in Nat
        /\ Cardinality(Registered) < ExpectWorkers
    BY <1>1, RegisteredFinite DEF TeamInv
  <1>3. IsFiniteSet(reg) /\ Cardinality(reg) \in Nat /\ Cardinality(reg) <= ExpectWorkers
    <2>1. /\ IsFiniteSet(Registered \cup {IdOf[c]})
          /\ Cardinality(Registered \cup {IdOf[c]}) <= Cardinality(Registered) + 1
      <3>1. /\ IsFiniteSet(Registered \cup {IdOf[c]})
            /\ \/ Cardinality(Registered \cup {IdOf[c]}) = Cardinality(Registered)
               \/ Cardinality(Registered \cup {IdOf[c]}) = Cardinality(Registered) + 1
        BY <1>2, FS_AddElement
      <3> QED
        BY <1>2, <3>1
    <2>2. Cardinality(Registered \cup {IdOf[c]}) \in Nat
      BY <2>1, FS_CardinalityType
    <2> QED
      BY <1>2, <2>1, <2>2, ConfigAssumption
  <1>4. Registered' = reg
    BY <1>1, ConnsAssumption DEF Registered, TypeOK, RunTypeOK
  <1>5. \A i \in reg : workers'[i] \in Conns /\ IdOf[workers'[i]] = i
    BY <1>4 DEF Registered, TypeOK, RunTypeOK, RegistryInv
  <1>6. \A i \in Ids : totalTxsPerWorker'[i] = 0
    BY <1>1 DEF TeamInv, TypeOK, TallyTypeOK
  <1> HIDE DEF reg
  <1>7. CASE AllRegistered(reg) /\ cpc' = "start" /\ started' = {workers'[i] : i \in reg}
    <2>1. [i \in reg |-> workers'[i]] \in Surjection(reg, started')
      BY <1>7 DEF Surjection
    <2>2. IsFiniteSet(started') /\ Cardinality(started') <= Cardinality(reg)
      BY <1>3, <2>1, FS_Surjection
    <2>3. started' # {} => Cardinality(started') = ExpectWorkers
      <3>1. Cardinality(started') \in Nat
        BY <2>2, FS_CardinalityType
      <3> QED
        BY <1>3, <2>2, <3>1, ConfigAssumption DEF RegistryInv
    <2>4. \A d, e \in started' : IdOf[d] = IdOf[e] => d = e
      BY <1>5, <1>7
    <2> QED
      BY <1>1, <1>6, <1>7, <2>3, <2>4 DEF TeamInv
  <1>8. CASE ~AllRegistered(reg) /\ UNCHANGED <<cpc, started>>
    <2>1. Cardinality(reg) < ExpectWorkers
      BY <1>3, <1>8, ConfigAssumption DEF AllRegistered
    <2> QED
      BY <1>1, <1>4, <1>6, <1>8, <2>1 DEF TeamInv
  <1> QED
    BY <1>1, <1>7, <1>8

\* A registration is withdrawn.
LEMMA HandleUnregisterTeam ==
    ASSUME TypeOK, RegistryInv, TeamInv, HandleUnregisterWaiting PROVE TeamInv'
  <1>1. Registered' \subseteq Registered
    BY DEF HandleUnregisterWaiting, Unregistered, Registered
  <1>2. /\ IsFiniteSet(Registered) /\ Cardinality(Registered) \in Nat
        /\ Cardinality(Registered) < ExpectWorkers
    BY RegisteredFinite DEF TeamInv, HandleUnregisterWaiting
  <1>3. Cardinality(Registered') <= Cardinality(Registered) /\ IsFiniteSet(Registered')
    BY <1>1, <1>2, FS_Subset
  <1>4. Cardinality(Registered') \in Nat
    BY <1>3, FS_CardinalityType
  <1>5. Cardinality(Registered') < ExpectWorkers
    BY <1>2, <1>3, <1>4, ConfigAssumption
  <1> QED
    BY <1>5 DEF TeamInv, HandleUnregisterWaiting, tallyVars

\* No completion is counted twice, and no count is kept but for the team.
LEMMA HandleUpdateTeam ==
    ASSUME TypeOK, TeamInv, \A e \in Conns : OrderInv(e) /\ WayInv(e), HandleUpdate
    PROVE  TeamInv'
  <1>1. PICK m, c : m = Head(workerUpdate) /\ c = m.conn
    OBVIOUS
  <1>2. cpc' \in {"testing", "complete"} /\ started' = started
    BY DEF HandleUpdate
  <1>3. CASE ~Known(m)
    BY <1>1, <1>2, <1>3, UnknownUpdate, TeamKept
  <1>4. CASE Known(m)
    <2>1. c \in started /\ c \notin counted
      BY <1>1, UpdateOf
    <2>2. /\ \A i \in Ids \ {IdOf[c]} : totalTxsPerWorker'[i] = totalTxsPerWorker[i]
          /\ counted' = IF m.state = "completed" THEN counted \cup {c} ELSE counted
          /\ completed' = IF m.state = "completed" THEN completed + 1 ELSE completed
      BY <1>1, <1>4, KnownUpdate
    <2>3. completed' = Cardinality(counted')
      BY <2>1, <2>2, CountedFinite, FS_AddElement DEF TeamInv
    <2>4. \A i \in Ids : (\A d \in started' : IdOf[d] # i) => totalTxsPerWorker'[i] = 0
      BY <1>2, <2>1, <2>2 DEF TeamInv
    <2> QED
      BY <1>2, <2>3, <2>4 DEF TeamInv
  <1> QED
    BY <1>3, <1>4

\* The registration that starts the test starts somebody.
LEMMA HandleRegisterProgress ==
    ASSUME TypeOK, RegistryInv, ProgressInv, HandleRegister PROVE ProgressInv'
  <1> DEFINE c == Head(workerRegister)
             reg == IF Refused(c) THEN Registered ELSE Registered \cup {IdOf[c]}
  <1>1. /\ cpc = "wait" /\ result = "none" /\ UNCHANGED <<result, completed, stats>>
        /\ \/ /\ AllRegistered(reg) /\ cpc' = "start" /\ started' = {workers'[i] : i \in reg}
           \/ UNCHANGED <<cpc, started>>
    BY DEF HandleRegister, ProgressInv
  <1>2. AllRegistered(reg) => reg # {}
    BY ConfigAssumption, FS_EmptySet DEF AllRegistered
  <1> HIDE DEF reg
  <1> QED
    BY <1>1, <1>2 DEF ProgressInv

\* The last completion writes the statistics.
LEMMA HandleUpdateProgress ==
    ASSUME TypeOK, TypeOK', ProgressInv, HandleUpdate PROVE ProgressInv'
  <1>1. /\ cpc = "testing" /\ UNCHANGED <<result, started>>
        /\ result = "none" /\ completed < ExpectWorkers /\ stats = [i \in Ids |-> 0]
        /\ started # {}
    BY DEF HandleUpdate, ProgressInv
  <1>2. \/ cpc' = "testing" /\ stats' = stats /\ completed' < ExpectWorkers
        \/ cpc' = "complete" /\ stats' = totalTxsPerWorker' /\ completed' >= ExpectWorkers
    <2>1. completed' \in Nat
      BY DEF TypeOK, TallyTypeOK
    <2> QED
      BY <1>1, <2>1, ConfigAssumption DEF HandleUpdate, AllCompleted, tallyVars
  <1> QED
    BY <1>1, <1>2 DEF ProgressInv

\* Steps of the coordinator keep the team and the progress of the test.
LEMMA CoordinatorProgress ==
    ASSUME CompletionInv, BarrierInv', CoordinatorStep \/ CoordinatorFault
    PROVE  TeamInv' /\ ProgressInv'
  <1> USE DEF tallyVars
  <1>0. /\ TypeOK /\ RegistryInv /\ TypeOK' /\ RegistryInv' /\ TeamInv /\ ProgressInv
        /\ \A e \in Conns : OrderInv(e) /\ WayInv(e)
    BY DEF CompletionInv, BarrierInv
  <1>1. CASE HandleRegister
    BY <1>0, <1>1, HandleRegisterTeam, HandleRegisterProgress
  <1>2. CASE HandleUpdate
    BY <1>0, <1>2, HandleUpdateTeam, HandleUpdateProgress
  <1>3. CASE HandleUnregisterWaiting
    <2>1. UNCHANGED <<cpc, result, started, tallyVars>>
      BY <1>3 DEF HandleUnregisterWaiting
    <2> QED
      BY <1>0, <1>3, <2>1, HandleUnregisterTeam DEF ProgressInv
  <1>4. CASE WaitForPeers \/ Listen
    <2>1. /\ UNCHANGED <<result, workers, started, tallyVars>>
          /\ cpc \in {"init", "peers"} /\ cpc' \in {"peers", "wait"}
      BY <1>4 DEF WaitForPeers, Listen
    <2> QED
      BY <1>0, <2>1, TeamKept DEF ProgressInv
  <1>5. CASE StartAcked \/ \E i \in Ids : StartNext(i)
    <2>1. /\ UNCHANGED <<result, workers, started, tallyVars>>
          /\ cpc \in {"start", "startWait"} /\ cpc' \in {"start", "startWait", "testing"}
      BY <1>5 DEF StartAcked, StartNext
    <2> QED
      BY <1>0, <2>1, TeamKept DEF ProgressInv
  <1>6. CASE ConnectTimeout \/ StopOrServerNoticed \/ StartFailed
    <2>1. UNCHANGED <<started, tallyVars>> /\ cpc' = "fail" /\ result' = "err"
      BY <1>6 DEF ConnectTimeout, StopOrServerNoticed, StartFailed, ReturnErr
    <2> QED
      BY <1>0, <2>1, TeamKept DEF ProgressInv
  <1>7. CASE HandleUnregisterTesting
    <2>1. /\ UNCHANGED <<started, tallyVars>>
          /\ cpc = "testing" /\ ((cpc' = "fail" /\ result' = "err") \/ UNCHANGED <<cpc, result>>)
      BY <1>7 DEF HandleUnregisterTesting, ReturnErr
    <2> QED
      BY <1>0, <2>1, TeamKept DEF ProgressInv
  <1>8. CASE FailAnswered \/ \E i \in Ids : FailNext(i)
    <2>1. /\ UNCHANGED <<result, workers, started, tallyVars>>
          /\ cpc \in {"fail", "failWait"} /\ cpc' \in {"fail", "failWait"}
      BY <1>8 DEF FailAnswered, FailNext
    <2> QED
      BY <1>0, <2>1, TeamKept DEF ProgressInv
  <1>9. CASE SetFailed \/ StopRemoteWorkers \/ ShutdownServer \/ Exit
    <2>1. /\ UNCHANGED <<result, started, tallyVars>>
          /\ cpc' \in {"closeTrap", "server", "returned", "exited"}
      BY <1>9 DEF SetFailed, StopRemoteWorkers, ShutdownServer, Exit
    <2> QED
      BY <1>0, <2>1, TeamKept DEF ProgressInv
  <1>10. CASE Complete
    <2>1. /\ UNCHANGED <<started, tallyVars>> /\ cpc = "complete" /\ cpc' = "closeTrap"
      BY <1>10 DEF Complete
    <2> QED
      BY <1>0, <2>1, TeamKept DEF ProgressInv
  <1>11. CASE PeersFailed
    <2>1. UNCHANGED <<started, tallyVars>> /\ cpc' = "returned" /\ result' = "err"
      BY <1>11 DEF PeersFailed
    <2> QED
      BY <1>0, <2>1, TeamKept DEF ProgressInv
  <1>12. CASE TrapSetsMetric \/ Interrupt \/ ServerFails \/ LogTestingProgress
    <2>1. UNCHANGED <<cpc, result, workers, started, tallyVars>>
      BY <1>12 DEF TrapSetsMetric, Interrupt, ServerFails, LogTestingProgress, vars, coordVars
    <2> QED
      BY <1>0, <2>1, TeamKept DEF ProgressInv
  <1> QED
    BY <1>1, <1>2, <1>3, <1>4, <1>5, <1>6, <1>7, <1>8, <1>9, <1>10, <1>11, <1>12
    DEF CoordinatorStep, CoordinatorFault

\* Steps of everyone else keep the team, and the coordinator where it is unless
\* they take it down.
LEMMA OthersProgress ==
    ASSUME TeamInv, ProgressInv, UNCHANGED <<result, workers, started, tallyVars>>,
           cpc' = cpc \/ cpc' = "crashed"
    PROVE  TeamInv' /\ ProgressInv'
  <1>1. TeamInv'
    BY TeamKept
  <1>2. ProgressInv'
    BY DEF ProgressInv, tallyVars
  <1> QED
    BY <1>1, <1>2

-----------------------------------------------------------------------------
(* The invariant *)

LEMMA CompletionInit == Init => CompletionInv
  <1> SUFFICES ASSUME Init PROVE CompletionInv
    OBVIOUS
  <1>1. BarrierInv
    BY BarrierInit
  <1>2. TeamInv
    <2>1. Registered = {} /\ started = {} /\ counted = {}
      BY DEF Init, Registered
    <2>2. Cardinality(Registered) < ExpectWorkers /\ completed = Cardinality(counted)
      BY <2>1, FS_EmptySet, ConfigAssumption DEF Init
    <2> QED
      BY <2>1, <2>2 DEF Init, TeamInv
  <1>3. ProgressInv
    BY ConfigAssumption DEF Init, ProgressInv
  <1>4. ASSUME NEW c \in Conns PROVE OrderInv(c) /\ WayInv(c)
    <2>1. workerUpdate = <<>> /\ up[c] = <<>> /\ rpc[c] = "none"
      BY DEF Init
    <2>2. /\ Queued(c) = {} /\ Passing(c) = {} /\ Sent(c) = {} /\ Contents(up[c]) = {}
          /\ Ordered(workerUpdate, UpdatesOf(c)) /\ Ordered(up[c], Reports)
      BY <2>1, EmptyQueue DEF Queued, Passing, Sent
    <2>3. OrderInv(c)
      BY <2>2 DEF OrderInv
    <2>4. WayInv(c)
      BY <2>2 DEF Init, WayInv
    <2> QED
      BY <2>3, <2>4
  <1> QED
    BY <1>1, <1>2, <1>3, <1>4 DEF CompletionInv

LEMMA CompletionNext == CompletionInv /\ [Next]_vars => CompletionInv'
  <1> SUFFICES ASSUME CompletionInv, [Next]_vars PROVE CompletionInv'
    OBVIOUS
  <1>0. /\ BarrierInv' /\ TypeOK' /\ TypeOK /\ RegistryInv /\ LoadingInv
        /\ TeamInv /\ ProgressInv /\ \A e \in Conns : OrderInv(e) /\ WayInv(e)
    BY BarrierNext DEF CompletionInv, BarrierInv
  <1>1. CASE CoordinatorStep \/ CoordinatorFault
    <2>1. \A d \in Conns : OrderInv(d)' /\ WayInv(d)'
      BY <1>0, <1>1, CoordinatorReports
    <2>2. TeamInv' /\ ProgressInv'
      BY <1>0, <1>1, CoordinatorProgress
    <2> QED
      BY <1>0, <2>1, <2>2 DEF CompletionInv
  <1>2. ASSUME NEW c \in Conns, RemoteWorkerStep(c) PROVE CompletionInv'
    <2>1. \A d \in Conns : OrderInv(d)' /\ WayInv(d)'
      BY <1>0, <1>2, RemoteWorkerReports
    <2>2. TeamInv' /\ ProgressInv'
      BY <1>0, <1>2, RelayEffect, OthersProgress
    <2> QED
      BY <1>0, <2>1, <2>2 DEF CompletionInv
  <1>3. ASSUME NEW c \in Conns, WorkerStep(c) \/ WorkerFault(c) PROVE CompletionInv'
    <2>1. \A d \in Conns : OrderInv(d)' /\ WayInv(d)'
      BY <1>0, <1>3, WorkerReports
    <2>2. TeamInv' /\ ProgressInv'
      BY <1>0, <1>3, WorkerReportsEffect, OthersProgress
    <2> QED
      BY <1>0, <2>1, <2>2 DEF CompletionInv
  <1>4. CASE UNCHANGED vars
    <2>1. \A d \in Conns : OrderInv(d)' /\ WayInv(d)'
      BY <1>0, <1>4, ReportsKept DEF vars, coordVars, chanVars, rwVars, loopVars, netVars
    <2>2. TeamInv' /\ ProgressInv'
      BY <1>0, <1>4, OthersProgress DEF vars, coordVars
    <2> QED
      BY <1>0, <2>1, <2>2 DEF CompletionInv
  <1> QED
    BY <1>1, <1>2, <1>3, <1>4 DEF Next, Terminated

\* The reports of every worker stay in order and within bounds on all their
\* way to the coordinator.
THEOREM ReportsInOrder == Spec => []CompletionInv
  BY CompletionInit, CompletionNext, PTL DEF Spec

-----------------------------------------------------------------------------
(* What the invariant implies *)

\* As many completions as workers expected are those of the whole team.
CountedInv ==
    /\ counted \subseteq started
    /\ completed >= ExpectWorkers
          => started # {} /\ counted = started /\ Cardinality(started) = ExpectWorkers
    /\ completed < ExpectWorkers => started = {} \/ counted # started

LEMMA WholeTeam == ASSUME CompletionInv PROVE CountedInv
  <1>1. TypeOK /\ TeamInv /\ started \subseteq Conns /\ counted \subseteq Conns
    BY DEF CompletionInv, BarrierInv, TypeOK, RunTypeOK, TallyTypeOK
  <1>2. counted \subseteq started
    BY <1>1 DEF CompletionInv, WayInv
  <1>3. IsFiniteSet(started) /\ IsFiniteSet(counted) /\ Cardinality(counted) \in Nat
    BY <1>1, ConnsAssumption, FS_Subset, FS_CardinalityType
  <1>4. /\ completed = Cardinality(counted)
        /\ started # {} => Cardinality(started) = ExpectWorkers
    BY <1>1 DEF TeamInv
  <1>5. /\ Cardinality(counted) <= Cardinality(started)
        /\ Cardinality(counted) = Cardinality(started) => counted = started
    BY <1>2, <1>3, FS_Subset
  <1>6. ASSUME completed >= ExpectWorkers
        PROVE  started # {} /\ counted = started /\ Cardinality(started) = ExpectWorkers
    <2>1. counted # {}
      BY <1>4, <1>6, FS_EmptySet, ConfigAssumption
    <2>2. started # {} /\ Cardinality(started) = ExpectWorkers
      BY <1>2, <1>4, <2>1
    <2>3. Cardinality(counted) = Cardinality(started)
      BY <1>3, <1>4, <1>5, <1>6, <2>2, ConfigAssumption
    <2> QED
      BY <1>5, <2>2, <2>3
  <1>7. ASSUME completed < ExpectWorkers PROVE started = {} \/ counted # started
    BY <1>3, <1>4, <1>7, ConfigAssumption
  <1> QED
    BY <1>2, <1>6, <1>7 DEF CountedInv

\* A success is that of the expected number of workers, all of them finished,
\* and the statistics are what they sent.
LEMMA SuccessOfTeam ==
    ASSUME CompletionInv, result = "ok"
    PROVE  /\ counted = started /\ Cardinality(started) = ExpectWorkers
           /\ \A c \in started : c \in Conns /\ Finished(c) /\ stats[IdOf[c]] = tx[c]
           /\ \A i \in Ids : (\A c \in started : IdOf[c] # i) => stats[i] = 0
  <1>1. completed >= ExpectWorkers /\ stats = totalTxsPerWorker
    BY DEF CompletionInv, ProgressInv
  <1>2. counted = started /\ Cardinality(started) = ExpectWorkers
    BY <1>1, WholeTeam DEF CountedInv
  <1>3. started \subseteq Conns
    BY DEF CompletionInv, BarrierInv, TypeOK, RunTypeOK
  <1>4. \A c \in started : Finished(c) /\ Tally(c) = tx[c]
    BY <1>2, <1>3 DEF CompletionInv, WayInv
  <1>5. \A i \in Ids : (\A c \in started : IdOf[c] # i) => stats[i] = 0
    BY <1>1 DEF CompletionInv, TeamInv
  <1> QED
    BY <1>1, <1>2, <1>3, <1>4, <1>5 DEF Tally

\* Run returns nil only when the load test was started with exactly the
\* expected number of workers and all of them completed.
THEOREM SuccessTakesEveryone == Spec => []SuccessIsUnanimous
  <1>1. CompletionInv => SuccessIsUnanimous
    BY SuccessOfTeam DEF SuccessIsUnanimous
  <1> QED
    BY <1>1, ReportsInOrder, PTL

\* The aggregate statistics of a successful test are the workers' own counts.
THEOREM StatsAreExact == Spec => []StatsExact
  <1>1. CompletionInv => StatsExact
    <2> SUFFICES ASSUME CompletionInv, result = "ok", NEW i \in Ids
                 PROVE  stats[i] = IF \E c \in started : IdOf[c] = i
                                   THEN tx[CHOOSE c \in started : IdOf[c] = i]
                                   ELSE 0
      BY DEF StatsExact
    <2>1. CASE \E c \in started : IdOf[c] = i
      <3> DEFINE e == CHOOSE c \in started : IdOf[c] = i
      <3>1. e \in started /\ IdOf[e] = i
        BY <2>1
      <3> HIDE DEF e
      <3>2. stats[i] = tx[e]
        BY <3>1, SuccessOfTeam
      <3> QED
        BY <2>1, <3>2 DEF e
    <2>2. CASE ~\E c \in started : IdOf[c] = i
      BY <2>2, SuccessOfTeam
    <2> QED
      BY <2>1, <2>2
  <1> QED
    BY <1>1, ReportsInOrder, PTL

\* No count kept for a worker goes back while the test runs.
THEOREM TotalsNeverGoBack == Spec => TotalsMonotone
  <1> DEFINE Grows == cpc = "testing" =>
                         \A i \in Ids : totalTxsPerWorker'[i] >= totalTxsPerWorker[i]
  <1>1. CompletionInv /\ [Next]_vars => [Grows]_vars
    <2> SUFFICES ASSUME CompletionInv, Next, cpc = "testing", NEW i \in Ids
                 PROVE  totalTxsPerWorker'[i] >= totalTxsPerWorker[i]
      OBVIOUS
    <2>0. /\ TypeOK /\ totalTxsPerWorker[i] \in Nat
          /\ \A e \in Conns : OrderInv(e) /\ WayInv(e)
      BY DEF CompletionInv, BarrierInv, TypeOK, TallyTypeOK
    <2>1. CASE HandleUpdate
      <3>1. PICK m, c : m = Head(workerUpdate) /\ c = m.conn
        OBVIOUS
      <3>2. CASE ~Known(m)
        BY <2>0, <2>1, <3>1, <3>2, UnknownUpdate DEF tallyVars
      <3>3. CASE Known(m)
        <4>1. /\ Tally(c)' = m.tx /\ Tally(c) <= m.tx
              /\ \A j \in Ids \ {IdOf[c]} : totalTxsPerWorker'[j] = totalTxsPerWorker[j]
          BY <2>0, <2>1, <3>1, <3>3, KnownUpdate
        <4>2. CASE i = IdOf[c]
          <5>1. c \in Conns /\ m \in Updates
            BY <2>0, <2>1, <3>1, UpdateTaken, UpdateOf DEF HandleUpdate
          <5> QED
            BY <2>0, <4>1, <4>2, <5>1 DEF Tally, Updates
        <4>3. CASE i # IdOf[c]
          BY <2>0, <4>1, <4>3
        <4> QED
          BY <4>2, <4>3
      <3> QED
        BY <3>2, <3>3
    <2>2. CASE UNCHANGED totalTxsPerWorker
      BY <2>0, <2>2
    <2>3. CASE CoordinatorStep \/ CoordinatorFault
      <3>1. HandleUpdate \/ UNCHANGED totalTxsPerWorker
        BY <2>3 DEF CoordinatorStep, CoordinatorFault, tallyVars, vars, coordVars,
           WaitForPeers, Listen, HandleRegister, HandleUnregisterWaiting, ConnectTimeout,
           StopOrServerNoticed, StartNext, FailNext, StartAcked, StartFailed, FailAnswered,
           SetFailed, HandleUnregisterTesting, LogTestingProgress, Complete,
           StopRemoteWorkers, ShutdownServer, Exit, TrapSetsMetric, PeersFailed,
           Interrupt, ServerFails
      <3> QED
        BY <2>1, <2>2, <3>1
    <2>4. ASSUME NEW c \in Conns, RemoteWorkerStep(c) PROVE UNCHANGED totalTxsPerWorker
      BY <2>0, <2>4, RelayEffect DEF tallyVars
    <2>5. ASSUME NEW c \in Conns, WorkerStep(c) \/ WorkerFault(c)
          PROVE  UNCHANGED totalTxsPerWorker
      BY <2>0, <2>5, WorkerReportsEffect DEF tallyVars
    <2>6. Terminated => UNCHANGED totalTxsPerWorker
      BY DEF Terminated, vars, coordVars, tallyVars
    <2> QED
      BY <2>2, <2>3, <2>4, <2>5, <2>6 DEF Next
  <1> QED
    BY <1>1, ReportsInOrder, PTL DEF Spec, TotalsMonotone

=============================================================================
