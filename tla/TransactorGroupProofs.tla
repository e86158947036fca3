----------------------- MODULE TransactorGroupProofs ------------------------
(***************************************************************************)
(* Proofs about transactor groups of any size, for any rate and any limit: *)
(* type correctness, and that the statistics never claim more than was     *)
(* sent, never pass the limit, are exact at the end and hide no error.     *)
(***************************************************************************)
EXTENDS TransactorGroup, TLAPS

(* The batch under way never leads past the limit. This is what makes      *)
(* BatchSize non-negative, so TypeOK is not inductive without it.          *)
BatchInv ==
    \A t \in Transactors :
        /\ sent[t] <= toSend[t]
        /\ Count > 0 => txCount[t] + toSend[t] <= Count

(* A transactor whose result was collected has stopped for good, with its  *)
(* error if it had one; a final count is tracked only after that.          *)
ResultInv ==
    /\ \A t \in Transactors :
          /\ failed[t] => stopErr[t]
          /\ collected[t] # "none" => sendPc[t] = "done"
          /\ collected[t] = "ok" => ~failed[t]
          /\ t \in settled => collected[t] # "none" /\ tracked[t] = txCount[t]
    /\ gpc = "adding" => /\ \A t \in Transactors : collected[t] = "none"
                         /\ gres = "none"
    /\ gpc = "waiting" => gres = "none"
    /\ gres = "ok" => /\ \A t \in Transactors : collected[t] = "ok"
                      /\ settled = Transactors
    /\ gpc = "returned" /\ gres = "ok" => reporter = "stopped"

IInv == TypeOK /\ BatchInv /\ NeverOverclaims /\ ResultInv

-----------------------------------------------------------------------------

\* Initially every transactor is idle and all counts are zero.
LEMMA InitIInv == Init => IInv
  <1> SUFFICES ASSUME Init PROVE IInv
    OBVIOUS
  <1>1. TypeOK
    <2>1. LoopTypeOK
      BY DEF Init, LoopTypeOK
    <2>2. StopTypeOK
      BY DEF Init, StopTypeOK
    <2>3. CountTypeOK
      BY LoadAssumption DEF Init, CountTypeOK, Zero
    <2>4. GroupTypeOK
      BY DEF Init, GroupTypeOK, Zero
    <2> QED
      BY <2>1, <2>2, <2>3, <2>4 DEF TypeOK
  <1>2. BatchInv
    BY LoadAssumption DEF Init, BatchInv, Zero
  <1>3. NeverOverclaims
    BY DEF Init, NeverOverclaims, Zero
  <1>4. ResultInv
    BY DEF Init, ResultInv
  <1> QED
    BY <1>1, <1>2, <1>3, <1>4 DEF IInv

\* A pass of sendLoop leaves the types of what it assigns intact, touches only
\* its own transactor and drops no error.
LEMMA NextPassEffect ==
    ASSUME TypeOK, NEW t \in Transactors, NEW stopped \in BOOLEAN, NEW err \in BOOLEAN,
           NEW n \in Nat, NextPass(t, stopped, err, n)
    PROVE  /\ stop' \in [Transactors -> BOOLEAN]
           /\ stopErr' \in [Transactors -> BOOLEAN]
           /\ sendPc' \in [Transactors -> {"off", "select", "batch", "done"}]
           /\ conn' \in [Transactors -> {"none", "open", "closing", "closed", "lost"}]
           /\ \A u \in Transactors \ {t} : sendPc'[u] = sendPc[u]
           /\ \A u \in Transactors : stopErr[u] => stopErr'[u]
           /\ err => stopErr'[t]
  <1>1. LimitReached(n) \in BOOLEAN
    BY LoadAssumption DEF LimitReached
  <1> QED
    BY <1>1 DEF NextPass, TypeOK, LoopTypeOK, StopTypeOK

\* The end of a batch moves what it counted from `sent` to `txCount`.
LEMMA EndBatchEffect ==
    ASSUME IInv, NEW t \in Transactors, NEW err \in BOOLEAN,
           EndBatch(t, sent[t], err),
           written' \in [Transactors -> Nat],
           \A u \in Transactors : written'[u] >= written[u],
           failed' = [failed EXCEPT ![t] = failed[t] \/ err],
           sendPc[t] = "batch",
           recvPc' = recvPc, tracked' = tracked, crashed' = crashed,
           faults' \in 0..MaxFaults, UNCHANGED groupVars
    PROVE  IInv'
  <1> USE DEF IInv
  <1>0. (stop[t] \/ err) \in BOOLEAN /\ txCount[t] + sent[t] \in Nat
    BY DEF TypeOK, CountTypeOK, StopTypeOK
  <1>1. /\ NextPass(t, stop[t] \/ err, err, txCount[t] + sent[t])
        /\ txCount' = [txCount EXCEPT ![t] = txCount[t] + sent[t]]
        /\ toSend' = [toSend EXCEPT ![t] = 0]
        /\ sent' = [sent EXCEPT ![t] = 0]
    BY DEF EndBatch
  <1>2. /\ stop' \in [Transactors -> BOOLEAN]
        /\ stopErr' \in [Transactors -> BOOLEAN]
        /\ sendPc' \in [Transactors -> {"off", "select", "batch", "done"}]
        /\ conn' \in [Transactors -> {"none", "open", "closing", "closed", "lost"}]
        /\ \A u \in Transactors \ {t} : sendPc'[u] = sendPc[u]
        /\ \A u \in Transactors : stopErr[u] => stopErr'[u]
        /\ err => stopErr'[t]
    BY <1>0, <1>1, NextPassEffect
  <1>3. TypeOK'
    <2>1. LoopTypeOK'
      BY <1>2 DEF TypeOK, LoopTypeOK
    <2>2. StopTypeOK'
      BY <1>2 DEF TypeOK, StopTypeOK
    <2>3. CountTypeOK'
      BY <1>1 DEF TypeOK, CountTypeOK
    <2>4. GroupTypeOK'
      BY DEF TypeOK, GroupTypeOK, groupVars
    <2> QED
      BY <2>1, <2>2, <2>3, <2>4 DEF TypeOK
  <1>4. BatchInv'
    BY <1>1, LoadAssumption DEF TypeOK, CountTypeOK, BatchInv
  <1>5. NeverOverclaims'
    <2>1. CountTypeOK /\ GroupTypeOK
      BY DEF TypeOK
    <2>2. \A u \in Transactors : txCount'[u] + sent'[u] = txCount[u] + sent[u]
      BY <1>1, <2>1 DEF CountTypeOK
    <2>3. \A u \in Transactors : txCount'[u] >= txCount[u] /\ txCount'[u] \in Nat
      BY <1>1, <2>1 DEF CountTypeOK
    <2> QED
      BY <2>1, <2>2, <2>3 DEF CountTypeOK, GroupTypeOK, NeverOverclaims, groupVars
  <1>6. ResultInv'
    <2>1. collected[t] = "none" /\ t \notin settled
      BY DEF ResultInv
    <2>2. \A u \in Transactors : failed'[u] => stopErr'[u]
      BY <1>2 DEF ResultInv, TypeOK, CountTypeOK, StopTypeOK
    <2>3. \A u \in Transactors \ {t} : txCount'[u] = txCount[u] /\ failed'[u] = failed[u]
      BY <1>1 DEF TypeOK, CountTypeOK, StopTypeOK
    <2> QED
      BY <2>1, <2>2, <2>3, <1>2 DEF ResultInv, groupVars
  <1> QED
    BY <1>3, <1>4, <1>5, <1>6

\* The passes of sendLoop that only track, ping or reach the time limit.
LEMMA PassEffect ==
    ASSUME IInv, NEW t \in Transactors, NEW stopped \in BOOLEAN, NEW err \in BOOLEAN,
           NextPass(t, stopped, err, txCount[t]),
           failed' = [failed EXCEPT ![t] = failed[t] \/ err],
           sendPc[t] = "select",
           \/ tracked' = tracked
           \/ tracked' = [tracked EXCEPT ![t] = txCount[t]],
           recvPc' = recvPc, crashed' = crashed, faults' \in 0..MaxFaults,
           UNCHANGED batchVars, UNCHANGED groupVars
    PROVE  IInv'
  <1> USE DEF IInv
  <1>0. txCount[t] \in Nat
    BY DEF TypeOK, CountTypeOK, StopTypeOK
  <1>2. /\ stop' \in [Transactors -> BOOLEAN]
        /\ stopErr' \in [Transactors -> BOOLEAN]
        /\ sendPc' \in [Transactors -> {"off", "select", "batch", "done"}]
        /\ conn' \in [Transactors -> {"none", "open", "closing", "closed", "lost"}]
        /\ \A u \in Transactors \ {t} : sendPc'[u] = sendPc[u]
        /\ \A u \in Transactors : stopErr[u] => stopErr'[u]
        /\ err => stopErr'[t]
    BY <1>0, NextPassEffect
  <1>3. TypeOK'
    <2>1. LoopTypeOK'
      BY <1>2 DEF TypeOK, LoopTypeOK
    <2>2. StopTypeOK'
      BY <1>2 DEF TypeOK, StopTypeOK
    <2>3. CountTypeOK'
      BY DEF TypeOK, CountTypeOK, batchVars
    <2>4. GroupTypeOK'
      BY DEF TypeOK, GroupTypeOK, groupVars
    <2> QED
      BY <2>1, <2>2, <2>3, <2>4 DEF TypeOK
  <1>4. BatchInv'
    BY DEF BatchInv, batchVars
  <1>5. NeverOverclaims'
    BY DEF TypeOK, CountTypeOK, GroupTypeOK, NeverOverclaims, batchVars, groupVars
  <1>6. ResultInv'
    <2>1. collected[t] = "none" /\ t \notin settled
      BY DEF ResultInv
    <2>2. \A u \in Transactors : failed'[u] => stopErr'[u]
      BY <1>2 DEF ResultInv, TypeOK, CountTypeOK, StopTypeOK
    <2>3. \A u \in Transactors \ {t} : tracked'[u] = tracked[u] /\ failed'[u] = failed[u]
      BY DEF TypeOK, CountTypeOK, StopTypeOK
    <2> QED
      BY <2>1, <2>2, <2>3, <1>2 DEF ResultInv, groupVars, batchVars
  <1> QED
    BY <1>3, <1>4, <1>5, <1>6

\* Spending a fault stays within the budget.
LEMMA FaultType == ASSUME TypeOK, Fault PROVE faults' \in 0..MaxFaults
  BY LoadAssumption DEF TypeOK, CountTypeOK, Fault

\* Every step of sendLoop preserves the invariant.
LEMMA SendLoopStep ==
    ASSUME IInv, NEW t \in Transactors, SendLoop(t), UNCHANGED groupVars
    PROVE  IInv'
  <1> USE DEF IInv
  <1>0. /\ sent \in [Transactors -> Nat] /\ txCount \in [Transactors -> Nat]
        /\ toSend \in [Transactors -> Nat] /\ written \in [Transactors -> Nat]
        /\ faults \in 0..MaxFaults
    BY DEF TypeOK, CountTypeOK
  <1>f. /\ failed = [failed EXCEPT ![t] = failed[t] \/ FALSE]
        /\ [failed EXCEPT ![t] = TRUE] = [failed EXCEPT ![t] = failed[t] \/ TRUE]
    BY DEF TypeOK, StopTypeOK
  <1>s. stop[t] \in BOOLEAN
    BY DEF TypeOK, StopTypeOK
  <1>1. CASE SendTick(t)
    <2>1. BatchSize(t) \in Nat /\ (Count > 0 => txCount[t] + BatchSize(t) <= Count)
      BY <1>0, LoadAssumption DEF BatchInv, BatchSize
    <2>2. TypeOK'
      <3>1. LoopTypeOK'
        BY <1>1 DEF TypeOK, LoopTypeOK, SendTick
      <3>2. StopTypeOK'
        BY <1>1 DEF TypeOK, StopTypeOK, SendTick, stopVars
      <3>3. CountTypeOK'
        BY <1>1, <2>1 DEF TypeOK, CountTypeOK, SendTick
      <3>4. GroupTypeOK'
        BY DEF TypeOK, GroupTypeOK, groupVars
      <3> QED
        BY <3>1, <3>2, <3>3, <3>4 DEF TypeOK
    <2>3. BatchInv'
      BY <1>1, <1>0, <2>1 DEF BatchInv, SendTick
    <2>4. NeverOverclaims'
      <3>1. \A u \in Transactors : sent'[u] <= sent[u] /\ sent'[u] \in Nat
        BY <1>1, <1>0 DEF SendTick
      <3> QED
        BY <1>1, <1>0, <3>1 DEF NeverOverclaims, SendTick, groupVars
    <2>5. ResultInv'
      BY <1>1 DEF ResultInv, SendTick, stopVars, groupVars, TypeOK, LoopTypeOK
    <2> QED
      BY <2>2, <2>3, <2>4, <2>5
  <1>2. CASE WriteTx(t)
    <2>2. TypeOK'
      <3>1. LoopTypeOK'
        BY <1>2 DEF TypeOK, LoopTypeOK, WriteTx
      <3>2. StopTypeOK'
        BY <1>2 DEF TypeOK, StopTypeOK, WriteTx, stopVars
      <3>3. CountTypeOK'
        BY <1>2 DEF TypeOK, CountTypeOK, WriteTx
      <3>4. GroupTypeOK'
        BY DEF TypeOK, GroupTypeOK, groupVars
      <3> QED
        BY <3>1, <3>2, <3>3, <3>4 DEF TypeOK
    <2>3. BatchInv'
      BY <1>2, <1>0 DEF BatchInv, WriteTx
    <2>4. NeverOverclaims'
      BY <1>2, <1>0 DEF NeverOverclaims, WriteTx, groupVars
    <2>5. ResultInv'
      BY <1>2 DEF ResultInv, WriteTx, stopVars, groupVars
    <2> QED
      BY <2>2, <2>3, <2>4, <2>5
  <1>3. CASE BatchDone(t)
    <2>1. EndBatch(t, sent[t], FALSE) /\ written' = written /\ faults' = faults
      BY <1>3 DEF BatchDone
    <2>2. failed' = [failed EXCEPT ![t] = failed[t] \/ FALSE]
      BY <1>3, <1>f DEF BatchDone
    <2>3. \A u \in Transactors : written'[u] >= written[u]
      BY <2>1, <1>0
    <2> QED
      BY <1>3, <1>0, <2>1, <2>2, <2>3, EndBatchEffect DEF BatchDone
  <1>4. CASE BatchCut(t)
    <2>1. EndBatch(t, sent[t], FALSE) /\ written' = [written EXCEPT ![t] = @ + 1]
      BY <1>4 DEF BatchCut
    <2>2. failed' = [failed EXCEPT ![t] = failed[t] \/ FALSE]
      BY <1>4, <1>f DEF BatchCut
    <2>3. /\ written' \in [Transactors -> Nat]
          /\ \A u \in Transactors : written'[u] >= written[u]
      BY <2>1, <1>0
    <2>4. faults' \in 0..MaxFaults
      BY <1>4, FaultType DEF BatchCut
    <2> QED
      BY <1>4, <2>1, <2>2, <2>3, <2>4, EndBatchEffect DEF BatchCut
  <1>5. CASE BatchFails(t)
    <2>1. EndBatch(t, sent[t], TRUE) /\ written' = written
      BY <1>5 DEF BatchFails
    <2>2. failed' = [failed EXCEPT ![t] = failed[t] \/ TRUE]
      BY <1>5, <1>f DEF BatchFails
    <2>3. \A u \in Transactors : written'[u] >= written[u]
      BY <2>1, <1>0
    <2>4. faults' \in 0..MaxFaults
      BY <1>5, <1>0, FaultType DEF BatchFails
    <2> QED
      BY <1>5, <1>0, <2>1, <2>2, <2>3, <2>4, EndBatchEffect DEF BatchFails
  <1>6. CASE ProgressTick(t)
    <2>1. NextPass(t, stop[t], FALSE, txCount[t])
      BY <1>6 DEF ProgressTick
    <2>2. failed' = [failed EXCEPT ![t] = failed[t] \/ FALSE]
      BY <1>6, <1>f DEF ProgressTick
    <2> QED
      BY <1>6, <1>0, <1>s, <2>1, <2>2, PassEffect DEF ProgressTick
  <1>7. CASE PingFails(t)
    <2>1. NextPass(t, TRUE, TRUE, txCount[t])
      BY <1>7 DEF PingFails
    <2>2. failed' = [failed EXCEPT ![t] = failed[t] \/ TRUE]
      BY <1>7, <1>f DEF PingFails
    <2>3. faults' \in 0..MaxFaults
      BY <1>7, <1>0, FaultType DEF PingFails
    <2> QED
      BY <1>7, <2>1, <2>2, <2>3, PassEffect DEF PingFails
  <1>8. CASE TimeLimit(t)
    <2>1. NextPass(t, TRUE, FALSE, txCount[t])
      BY <1>8 DEF TimeLimit
    <2>2. failed' = [failed EXCEPT ![t] = failed[t] \/ FALSE]
      BY <1>8, <1>f DEF TimeLimit
    <2> QED
      BY <1>8, <1>0, <2>1, <2>2, PassEffect DEF TimeLimit
  <1>9. CASE SendPing(t)
    <2>1. NextPass(t, stop[t], FALSE, txCount[t])
      BY <1>9 DEF SendPing
    <2>2. failed' = [failed EXCEPT ![t] = failed[t] \/ FALSE]
      BY <1>9, <1>f DEF SendPing
    <2> QED
      BY <1>9, <1>0, <1>s, <2>1, <2>2, PassEffect DEF SendPing
  <1> QED
    BY <1>1, <1>2, <1>3, <1>4, <1>5, <1>6, <1>7, <1>8, <1>9 DEF SendLoop

\* What only touches the connection, receiveLoop or the crash flag disturbs
\* nothing but their types.
LEMMA ConnStep ==
    ASSUME IInv,
           recvPc' \in [Transactors -> {"off", "reading", "done"}],
           conn' \in [Transactors -> {"none", "open", "closing", "closed", "lost"}],
           crashed' \in BOOLEAN, faults' \in 0..MaxFaults,
           sendPc' = sendPc, tracked' = tracked,
           UNCHANGED batchVars, UNCHANGED stopVars, UNCHANGED groupVars
    PROVE  IInv'
  <1> USE DEF IInv
  <1>1. TypeOK'
    <2>1. LoopTypeOK'
      BY DEF TypeOK, LoopTypeOK
    <2>2. StopTypeOK'
      BY DEF TypeOK, StopTypeOK, stopVars
    <2>3. CountTypeOK'
      BY DEF TypeOK, CountTypeOK, batchVars
    <2>4. GroupTypeOK'
      BY DEF TypeOK, GroupTypeOK, groupVars
    <2> QED
      BY <2>1, <2>2, <2>3, <2>4 DEF TypeOK
  <1>2. BatchInv' /\ NeverOverclaims'
    BY DEF BatchInv, NeverOverclaims, batchVars, groupVars
  <1>3. ResultInv'
    BY DEF ResultInv, batchVars, stopVars, groupVars
  <1> QED
    BY <1>1, <1>2, <1>3

\* Every step of receiveLoop, of the endpoint and of AddAll's successful
\* connections preserves the invariant.
LEMMA ConnectionStep ==
    ASSUME IInv, NEW t \in Transactors,
           ((ReceiveLoop(t) \/ Endpoint(t)) /\ UNCHANGED groupVars) \/ Add(t)
    PROVE  IInv'
  <1>0. /\ recvPc \in [Transactors -> {"off", "reading", "done"}]
        /\ conn \in [Transactors -> {"none", "open", "closing", "closed", "lost"}]
        /\ crashed \in BOOLEAN /\ faults \in 0..MaxFaults
    BY DEF IInv, TypeOK, LoopTypeOK, StopTypeOK, CountTypeOK
  <1>1. CASE (ReadsAnswer(t) \/ ReadsError(t)) /\ UNCHANGED groupVars
    BY <1>0, <1>1, ConnStep DEF ReadsAnswer, ReadsError
  <1>2. CASE ReadPanics(t) /\ UNCHANGED groupVars
    BY <1>0, <1>2, ConnStep DEF ReadPanics
  <1>3. CASE EndpointAnswersClose(t) /\ UNCHANGED groupVars
    BY <1>0, <1>3, ConnStep DEF EndpointAnswersClose
  <1>4. CASE (EndpointCloses(t) \/ ConnectionLost(t)) /\ UNCHANGED groupVars
    <2>1. faults' \in 0..MaxFaults
      BY <1>4, FaultType DEF IInv, EndpointCloses, ConnectionLost
    <2> QED
      BY <1>0, <1>4, <2>1, ConnStep DEF EndpointCloses, ConnectionLost
  <1>5. CASE Add(t)
    BY <1>0, <1>5, ConnStep DEF Add
  <1> QED
    BY <1>1, <1>2, <1>3, <1>4, <1>5 DEF ReceiveLoop, Endpoint

\* A failed AddAll returns its error.
LEMMA AddFailsStep ==
    ASSUME IInv, NEW t \in Transactors, AddFails(t) PROVE IInv'
  <1> USE DEF IInv
  <1>0. faults' \in 0..MaxFaults
    BY FaultType DEF AddFails
  <1>1. TypeOK'
    <2>1. LoopTypeOK'
      BY DEF TypeOK, LoopTypeOK, AddFails
    <2>2. StopTypeOK'
      BY DEF TypeOK, StopTypeOK, AddFails, stopVars
    <2>3. CountTypeOK'
      BY <1>0 DEF TypeOK, CountTypeOK, AddFails, batchVars
    <2>4. GroupTypeOK'
      BY DEF TypeOK, GroupTypeOK, AddFails
    <2> QED
      BY <2>1, <2>2, <2>3, <2>4 DEF TypeOK
  <1>2. BatchInv' /\ NeverOverclaims'
    BY DEF BatchInv, NeverOverclaims, AddFails, batchVars
  <1>3. ResultInv'
    BY DEF ResultInv, AddFails, batchVars, stopVars
  <1> QED
    BY <1>1, <1>2, <1>3

\* Start finds no result collected.
LEMMA StartStep == ASSUME IInv, Start PROVE IInv'
  <1> USE DEF IInv
  <1>1. TypeOK'
    <2>1. LoopTypeOK'
      BY DEF TypeOK, LoopTypeOK, Start
    <2>2. StopTypeOK'
      BY DEF TypeOK, StopTypeOK, Start, stopVars
    <2>3. CountTypeOK'
      BY DEF TypeOK, CountTypeOK, Start, batchVars
    <2>4. GroupTypeOK'
      BY DEF TypeOK, GroupTypeOK, Start
    <2> QED
      BY <2>1, <2>2, <2>3, <2>4 DEF TypeOK
  <1>2. BatchInv' /\ NeverOverclaims'
    BY DEF BatchInv, NeverOverclaims, Start, batchVars
  <1>3. ResultInv'
    BY DEF ResultInv, Start, batchVars, stopVars
  <1> QED
    BY <1>1, <1>2, <1>3

\* Cancelling can only add errors, and only to transactors whose result has
\* not been collected.
LEMMA CancelStep ==
    ASSUME IInv, Cancel \/ \E t \in Transactors : CancelOne(t) PROVE IInv'
  <1> USE DEF IInv
  <1>1. CASE Cancel
    <2>0. faults' \in 0..MaxFaults
      BY <1>1, FaultType DEF Cancel
    <2>1. LoopTypeOK'
      BY <1>1 DEF TypeOK, LoopTypeOK, Cancel
    <2>2. StopTypeOK'
      BY <1>1 DEF TypeOK, StopTypeOK, Cancel, stopVars
    <2>3. CountTypeOK'
      BY <1>1, <2>0 DEF TypeOK, CountTypeOK, Cancel, batchVars
    <2>4. GroupTypeOK'
      BY <1>1 DEF TypeOK, GroupTypeOK, Cancel
    <2>5. BatchInv' /\ NeverOverclaims'
      BY <1>1 DEF BatchInv, NeverOverclaims, Cancel, batchVars
    <2>6. ResultInv'
      BY <1>1 DEF ResultInv, Cancel, batchVars, stopVars
    <2> QED
      BY <2>1, <2>2, <2>3, <2>4, <2>5, <2>6 DEF TypeOK
  <1>2. ASSUME NEW t \in Transactors, CancelOne(t) PROVE IInv'
    <2>0. (collected[t] = "none") \in BOOLEAN
      OBVIOUS
    <2>1. LoopTypeOK'
      BY <1>2 DEF TypeOK, LoopTypeOK, CancelOne
    <2>2. StopTypeOK'
      BY <1>2, <2>0 DEF TypeOK, StopTypeOK, CancelOne
    <2>3. CountTypeOK'
      BY <1>2 DEF TypeOK, CountTypeOK, CancelOne, batchVars
    <2>4. GroupTypeOK'
      BY <1>2 DEF TypeOK, GroupTypeOK, CancelOne
    <2>5. BatchInv' /\ NeverOverclaims'
      BY <1>2 DEF BatchInv, NeverOverclaims, CancelOne, batchVars
    <2>6. ResultInv'
      BY <1>2 DEF ResultInv, CancelOne, batchVars, TypeOK, StopTypeOK
    <2> QED
      BY <2>1, <2>2, <2>3, <2>4, <2>5, <2>6 DEF TypeOK
  <1> QED
    BY <1>1, <1>2

\* Collecting a result and tracking the final count.
LEMMA ResultStep ==
    ASSUME IInv, NEW t \in Transactors, Collect(t) \/ TrackFinal(t) PROVE IInv'
  <1> USE DEF IInv
  <1>1. CASE Collect(t)
    <2>1. LoopTypeOK' /\ StopTypeOK' /\ CountTypeOK'
      BY <1>1 DEF TypeOK, LoopTypeOK, StopTypeOK, CountTypeOK, Collect,
                  transactorVars, batchVars, stopVars
    <2>2. GroupTypeOK'
      BY <1>1 DEF TypeOK, GroupTypeOK, Collect
    <2>3. BatchInv' /\ NeverOverclaims'
      BY <1>1 DEF BatchInv, NeverOverclaims, Collect, transactorVars, batchVars
    <2>4. ResultInv'
      <3>1. collected'[t] = IF stopErr[t] THEN "err" ELSE "ok"
        BY <1>1 DEF Collect, TypeOK, GroupTypeOK
      <3>2. \A u \in Transactors \ {t} : collected'[u] = collected[u]
        BY <1>1 DEF Collect, TypeOK, GroupTypeOK
      <3>3. sendPc[t] = "done" /\ gpc = "waiting" /\ collected[t] = "none"
        BY <1>1 DEF Collect, LoopsDone
      <3> QED
        BY <1>1, <3>1, <3>2, <3>3
        DEF ResultInv, Collect, transactorVars, batchVars, stopVars
    <2> QED
      BY <2>1, <2>2, <2>3, <2>4 DEF TypeOK
  <1>2. CASE TrackFinal(t)
    <2>1. LoopTypeOK' /\ StopTypeOK'
      BY <1>2 DEF TypeOK, LoopTypeOK, StopTypeOK, TrackFinal, stopVars
    <2>2. CountTypeOK'
      BY <1>2 DEF TypeOK, CountTypeOK, TrackFinal, batchVars
    <2>3. GroupTypeOK'
      BY <1>2 DEF TypeOK, GroupTypeOK, TrackFinal
    <2>4. BatchInv'
      BY <1>2 DEF BatchInv, TrackFinal, batchVars
    <2>5. NeverOverclaims'
      BY <1>2 DEF NeverOverclaims, TrackFinal, batchVars, TypeOK, CountTypeOK, GroupTypeOK
    <2>6. ResultInv'
      <3>1. \A u \in Transactors : u \in settled' => tracked'[u] = txCount'[u]
        BY <1>2 DEF ResultInv, TrackFinal, batchVars, TypeOK, CountTypeOK
      <3> QED
        BY <1>2, <3>1 DEF ResultInv, TrackFinal, batchVars, stopVars
    <2> QED
      BY <2>1, <2>2, <2>3, <2>4, <2>5, <2>6 DEF TypeOK
  <1> QED
    BY <1>1, <1>2

\* Wait's return: every result has been collected, and none is an error if it
\* returns nil.
LEMMA WaitStep == ASSUME IInv, WaitReturns \/ ReporterJoined PROVE IInv'
  <1> USE DEF IInv
  <1>1. LoopTypeOK' /\ StopTypeOK' /\ CountTypeOK'
    BY DEF TypeOK, LoopTypeOK, StopTypeOK, CountTypeOK, WaitReturns, ReporterJoined,
           transactorVars, batchVars, stopVars
  <1>2. GroupTypeOK'
    BY DEF TypeOK, GroupTypeOK, WaitReturns, ReporterJoined
  <1>3. BatchInv' /\ NeverOverclaims'
    BY DEF BatchInv, NeverOverclaims, WaitReturns, ReporterJoined, transactorVars, batchVars
  <1>4. ResultInv'
    BY DEF ResultInv, TypeOK, GroupTypeOK, WaitReturns, ReporterJoined,
           transactorVars, batchVars, stopVars
  <1> QED
    BY <1>1, <1>2, <1>3, <1>4 DEF TypeOK

\* The reporter publishes what it read, and stops for good.
LEMMA ReporterStep ==
    ASSUME IInv, ReporterTick \/ ReporterPublishes \/ ReporterStops PROVE IInv'
  <1> USE DEF IInv
  <1>1. LoopTypeOK' /\ StopTypeOK' /\ CountTypeOK'
    BY DEF TypeOK, LoopTypeOK, StopTypeOK, CountTypeOK, ReporterTick, ReporterPublishes,
           ReporterStops, transactorVars, batchVars, stopVars
  <1>2. GroupTypeOK'
    BY DEF TypeOK, GroupTypeOK, CountTypeOK, ReporterTick, ReporterPublishes,
           ReporterStops
  <1>3. BatchInv'
    BY DEF BatchInv, ReporterTick, ReporterPublishes, ReporterStops,
           transactorVars, batchVars
  <1>4. NeverOverclaims'
    BY DEF NeverOverclaims, TypeOK, CountTypeOK, GroupTypeOK, ReporterTick,
           ReporterPublishes, ReporterStops, transactorVars, batchVars
  <1>5. ResultInv'
    BY DEF ResultInv, ReporterTick, ReporterPublishes, ReporterStops,
           transactorVars, batchVars, stopVars
  <1> QED
    BY <1>1, <1>2, <1>3, <1>4, <1>5 DEF TypeOK

\* Steps that change nothing.
LEMMA StutterStep == ASSUME IInv, UNCHANGED vars PROVE IInv'
  <1>1. UNCHANGED <<transactorVars, groupVars>>
    BY DEF vars
  <1>2. LoopTypeOK' /\ StopTypeOK' /\ CountTypeOK' /\ GroupTypeOK'
    BY <1>1 DEF IInv, TypeOK, LoopTypeOK, StopTypeOK, CountTypeOK, GroupTypeOK,
                transactorVars, groupVars, batchVars, stopVars
  <1>3. BatchInv' /\ NeverOverclaims' /\ ResultInv'
    BY <1>1 DEF IInv, BatchInv, NeverOverclaims, ResultInv,
                transactorVars, groupVars, batchVars, stopVars
  <1> QED
    BY <1>2, <1>3 DEF IInv, TypeOK

\* The invariant is inductive.
LEMMA NextIInv == ASSUME IInv, [Next]_vars PROVE IInv'
  <1>1. ASSUME NEW t \in Transactors, TransactorStep(t) PROVE IInv'
    BY <1>1, SendLoopStep, ConnectionStep DEF TransactorStep
  <1>2. CASE GroupStep
    BY <1>2, ConnectionStep, StartStep, CancelStep, ResultStep, WaitStep, ReporterStep
    DEF GroupStep
  <1>3. CASE GroupFault
    BY <1>3, CancelStep, AddFailsStep DEF GroupFault
  <1>4. CASE Terminated \/ UNCHANGED vars
    BY <1>4, StutterStep DEF Terminated
  <1> QED
    BY <1>1, <1>2, <1>3, <1>4 DEF Next

-----------------------------------------------------------------------------

\* Type correctness of transactor.go and transactor_group.go; in particular
\* sendTransactions never computes a negative batch size.
THEOREM TypeCorrect == Spec => []TypeOK
  <1>1. IInv => TypeOK
    BY DEF IInv
  <1> QED
    BY <1>1, InitIInv, NextIInv, PTL DEF Spec

\* No statistic the group keeps or publishes exceeds what writeTx sent.
THEOREM NothingOverclaimed == Spec => []NeverOverclaims
  <1>1. IInv => NeverOverclaims
    BY DEF IInv
  <1> QED
    BY <1>1, InitIInv, NextIInv, PTL DEF Spec

\* sendTransactions counts at most Config.Count transactions, for every rate.
THEOREM LimitKept == Spec => []CountWithinLimit
  <1>1. IInv => CountWithinLimit
    BY LoadAssumption DEF IInv, TypeOK, CountTypeOK, BatchInv, CountWithinLimit
  <1> QED
    BY <1>1, InitIInv, NextIInv, PTL DEF Spec

\* A Wait that returns nil leaves exact counts and no running reporter.
THEOREM FinalCounts == Spec => []FinalCountsExact
  <1>1. IInv => FinalCountsExact
    BY DEF IInv, TypeOK, CountTypeOK, ResultInv, FinalCountsExact
  <1> QED
    BY <1>1, InitIInv, NextIInv, PTL DEF Spec

\* A Wait that returns nil hides no failed write and no cancellation.
THEOREM NoErrorHidden == Spec => []ErrorsSurface
  <1>1. IInv => ErrorsSurface
    BY DEF IInv, ResultInv, ErrorsSurface
  <1> QED
    BY <1>1, InitIInv, NextIInv, PTL DEF Spec

\* No step lowers a tracked or a published count: a progress report and the
\* final count take over a total that was at least as large as the last one.
LEMMA ProgressStep ==
    ASSUME IInv, [Next]_vars
    PROVE  \A t \in Transactors : tracked'[t] >= tracked[t] /\ published'[t] >= published[t]
  <1>0. /\ tracked \in [Transactors -> Nat] /\ txCount \in [Transactors -> Nat]
        /\ published \in [Transactors -> Nat] /\ reading \in [Transactors -> Nat]
    BY DEF IInv, TypeOK, CountTypeOK, GroupTypeOK
  <1>1. CASE UNCHANGED <<tracked, published>>
    BY <1>0, <1>1
  <1>2. CASE published' = published /\ \E t \in Transactors : tracked' = [tracked EXCEPT ![t] = txCount[t]]
    BY <1>0, <1>2 DEF IInv, NeverOverclaims
  <1>3. CASE tracked' = tracked /\ published' = reading
    BY <1>0, <1>3 DEF IInv, NeverOverclaims
  <1>4. ASSUME NEW t \in Transactors, TransactorStep(t)
        PROVE  <1>1!1 \/ <1>2!1
    <2>1. published' = published
      BY <1>4 DEF TransactorStep, groupVars
    <2>2. CASE ProgressTick(t)
      BY <2>1, <2>2 DEF ProgressTick
    <2>3. CASE ~ProgressTick(t)
      BY <1>4, <2>1, <2>3
      DEF TransactorStep, SendLoop, ReceiveLoop, Endpoint, SendTick, WriteTx, BatchDone,
          BatchCut, BatchFails, SendPing, PingFails, TimeLimit, ReadsAnswer, ReadsError, ReadPanics,
          EndpointAnswersClose, EndpointCloses, ConnectionLost
    <2> QED
      BY <2>2, <2>3
  <1>5. CASE GroupStep
    BY <1>5, <1>1, <1>2, <1>3
    DEF GroupStep, Start, WaitReturns, ReporterJoined, ReporterTick, ReporterPublishes,
        ReporterStops, Add, CancelOne, Collect, TrackFinal, transactorVars, groupVars
  <1>6. CASE GroupFault
    BY <1>6, <1>1 DEF GroupFault, Cancel, AddFails
  <1>7. CASE Terminated \/ UNCHANGED vars
    BY <1>7, <1>1 DEF Terminated, vars, transactorVars, groupVars
  <1> QED
    BY <1>1, <1>2, <1>4, <1>5, <1>6, <1>7 DEF Next

\* The counts the group tracks and hands to its progress callback never go
\* back (trackTransactorProgress, progressReporter).
THEOREM ProgressNeverGoesBack == Spec => ProgressMonotone
  <1>1. IInv /\ [Next]_vars => \A t \in Transactors : /\ tracked'[t] >= tracked[t]
                                                      /\ published'[t] >= published[t]
    BY ProgressStep
  <1> QED
    BY <1>1, InitIInv, NextIInv, PTL DEF Spec, ProgressMonotone

=============================================================================
