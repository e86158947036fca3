----------------------------- MODULE Transactor -----------------------------
(***************************************************************************)
(* The transactors of one client (pkg/loadtest/transactor.go): each owns a *)
(* WebSocket connection to a Tendermint endpoint, a sendLoop goroutine     *)
(* that writes batches of transactions and a receiveLoop goroutine that    *)
(* reads and drops the answers. Byte counts follow the transaction counts  *)
(* except where a batch is cut, and are left out.                          *)
(***************************************************************************)
EXTENDS Integers, FiniteSets

CONSTANTS
    Transactors,   \* one per endpoint and connection
    Rate,          \* Config.Rate: transactions per send period
    Count,         \* Config.Count: limit per transactor, none if not positive
    MaxSent,       \* bound: transactions per transactor when Count sets none
    MaxFaults      \* bound: connection failures, cancellations, cut batches

ASSUME TransactorsAssumption == IsFiniteSet(Transactors)
ASSUME LoadAssumption ==
    /\ Rate \in Nat \ {0} /\ Count \in Int
    /\ MaxSent \in Nat /\ MaxFaults \in Nat

VARIABLES
    sendPc,    \* sendLoop: "off", "select", "batch" or "done"
    recvPc,    \* receiveLoop: "off", "reading" or "done"
    conn,      \* "none", "open", "closing" (we closed), "closed" (both), "lost"
    stop,      \* t.stop
    stopErr,   \* t.stopErr # nil
    txCount,   \* t.txCount
    toSend,    \* size of the batch being sent
    sent,      \* transactions of the batch counted so far
    written,   \* history: transactions put on the wire
    failed,    \* history: a write failed or the transactor was cancelled
    tracked,   \* g.txCounts, set through the progress callback
    crashed,   \* the process has panicked
    faults     \* faults spent so far

batchVars == <<txCount, toSend, sent, written>>
stopVars == <<stop, stopErr, failed>>
transactorVars == <<sendPc, recvPc, conn, batchVars, stopVars, tracked, crashed, faults>>

Fault == faults < MaxFaults /\ faults' = faults + 1

\* The transaction limit, if there is one.
LimitReached(n) == Count > 0 /\ n >= Count

\* Mutation: stopping without an error clears an earlier one.
NextPassForgiving(t, stopped, err, n) ==
    /\ stop' = [stop EXCEPT ![t] = stopped \/ LimitReached(n)]
    /\ stopErr' = [stopErr EXCEPT ![t] = err]
    /\ sendPc' = [sendPc EXCEPT ![t] = IF stopped THEN "done" ELSE "select"]
    /\ conn' = [conn EXCEPT ![t] = IF stopped /\ @ = "open" THEN "closing" ELSE @]

\* The end of a pass of sendLoop and the head of the next one: stop after
\* writing a close frame, or test the transaction limit. `stopped` and `n`
\* are t.stop and t.txCount after the pass, `err` tells whether it called
\* setStop with an error (setStop(nil) never clears one).
NextPass(t, stopped, err, n) ==
    /\ stop' = [stop EXCEPT ![t] = stopped \/ LimitReached(n)]
    /\ stopErr' = [stopErr EXCEPT ![t] = @ \/ err]
    /\ IF stopped
       THEN /\ sendPc' = [sendPc EXCEPT ![t] = "done"]
            /\ conn' = [conn EXCEPT ![t] = IF @ = "open" THEN "closing" ELSE @]
       ELSE /\ sendPc' = [sendPc EXCEPT ![t] = "select"]
            /\ UNCHANGED conn

-----------------------------------------------------------------------------
(* sendLoop *)

\* Mutation: the last batch is not cut down to the limit.
BatchSizeUncapped(t) == Rate

\* Mutation: the last batch is one transaction short.
BatchSizeShort(t) ==
    IF Count > 0 /\ txCount[t] + Rate > Count THEN Count - txCount[t] - 1 ELSE Rate

\* sendTransactions' batch size.
BatchSize(t) ==
    IF Count > 0 /\ txCount[t] + Rate > Count THEN Count - txCount[t] ELSE Rate

SendTick(t) ==
    /\ ~crashed /\ sendPc[t] = "select"
    /\ Count > 0 \/ txCount[t] < MaxSent
    /\ toSend' = [toSend EXCEPT ![t] = BatchSize(t)]
    /\ sent' = [sent EXCEPT ![t] = 0]
    /\ sendPc' = [sendPc EXCEPT ![t] = "batch"]
    /\ UNCHANGED <<recvPc, conn, txCount, written, stopVars, tracked, crashed, faults>>

\* One transaction is written; the send period is not over yet.
WriteTx(t) ==
    /\ ~crashed /\ sendPc[t] = "batch" /\ sent[t] < toSend[t]
    /\ conn[t] = "open"
    /\ written' = [written EXCEPT ![t] = @ + 1]
    /\ sent' = [sent EXCEPT ![t] = @ + 1]
    /\ UNCHANGED <<sendPc, recvPc, conn, txCount, toSend, stopVars, tracked,
                   crashed, faults>>

\* Mutation: the whole batch is counted, sent or not.
EndBatchCountsAll(t, count, err) ==
    /\ txCount' = [txCount EXCEPT ![t] = @ + toSend[t]]
    /\ toSend' = [toSend EXCEPT ![t] = 0]
    /\ sent' = [sent EXCEPT ![t] = 0]
    /\ NextPass(t, stop[t] \/ err, err, txCount[t] + toSend[t])

\* trackSentTxs, deferred: what the loop counted is added to the total.
EndBatch(t, count, err) ==
    /\ txCount' = [txCount EXCEPT ![t] = @ + count]
    /\ toSend' = [toSend EXCEPT ![t] = 0]
    /\ sent' = [sent EXCEPT ![t] = 0]
    /\ NextPass(t, stop[t] \/ err, err, txCount[t] + count)

BatchDone(t) ==
    /\ ~crashed /\ sendPc[t] = "batch" /\ sent[t] >= toSend[t]
    /\ EndBatch(t, sent[t], FALSE)
    /\ UNCHANGED <<recvPc, written, failed, tracked, crashed, faults>>

\* The send period is over: the transaction just written makes way for the
\* next batch by `break`, which skips the loop's sent++.
BatchCut(t) ==
    /\ ~crashed /\ sendPc[t] = "batch" /\ sent[t] < toSend[t]
    /\ conn[t] = "open"
    /\ Count > 0 \/ written[t] < MaxSent
    /\ Fault
    /\ written' = [written EXCEPT ![t] = @ + 1]
    /\ EndBatch(t, sent[t], FALSE)
    /\ UNCHANGED <<recvPc, failed, tracked, crashed>>

\* GenerateTx or the write fails.
BatchFails(t) ==
    /\ ~crashed /\ sendPc[t] = "batch" /\ sent[t] < toSend[t]
    /\ (conn[t] # "open" /\ UNCHANGED faults) \/ Fault
    /\ failed' = [failed EXCEPT ![t] = TRUE]
    /\ EndBatch(t, sent[t], TRUE)
    /\ UNCHANGED <<recvPc, written, tracked, crashed>>

ProgressTick(t) ==
    /\ ~crashed /\ sendPc[t] = "select"
    /\ tracked' = [tracked EXCEPT ![t] = txCount[t]]
    /\ NextPass(t, stop[t], FALSE, txCount[t])
    /\ UNCHANGED <<recvPc, batchVars, failed, crashed, faults>>

SendPing(t) ==
    /\ ~crashed /\ sendPc[t] = "select" /\ conn[t] = "open"
    /\ NextPass(t, stop[t], FALSE, txCount[t])
    /\ UNCHANGED <<recvPc, batchVars, failed, tracked, crashed, faults>>

\* The ping cannot be written.
PingFails(t) ==
    /\ ~crashed /\ sendPc[t] = "select"
    /\ (conn[t] # "open" /\ UNCHANGED faults) \/ Fault
    /\ failed' = [failed EXCEPT ![t] = TRUE]
    /\ NextPass(t, TRUE, TRUE, txCount[t])
    /\ UNCHANGED <<recvPc, batchVars, tracked, crashed>>

TimeLimit(t) ==
    /\ ~crashed /\ sendPc[t] = "select"
    /\ NextPass(t, TRUE, FALSE, txCount[t])
    /\ UNCHANGED <<recvPc, batchVars, failed, tracked, crashed, faults>>

-----------------------------------------------------------------------------
(* receiveLoop. It has no read deadline: it ends with the connection, or    *)
(* with an answer it reads after the stop.                                  *)

ReadsAnswer(t) ==
    /\ ~crashed /\ recvPc[t] = "reading" /\ stop[t]
    /\ conn[t] \in {"open", "closing"} /\ written[t] > 0
    /\ recvPc' = [recvPc EXCEPT ![t] = "done"]
    /\ UNCHANGED <<sendPc, conn, batchVars, stopVars, tracked, crashed, faults>>

\* Mutation: a normal closure is ignored even after a stop.
ReadsErrorIfLost(t) ==
    /\ ~crashed /\ recvPc[t] = "reading"
    /\ conn[t] = "lost"
    /\ recvPc' = [recvPc EXCEPT ![t] = "done"]
    /\ UNCHANGED <<sendPc, conn, batchVars, stopVars, tracked, crashed, faults>>

\* Any error but a normal closure ends the loop without stopping sendLoop; a
\* normal closure ends it only after a stop.
ReadsError(t) ==
    /\ ~crashed /\ recvPc[t] = "reading"
    /\ conn[t] = "lost" \/ (conn[t] = "closed" /\ stop[t])
    /\ recvPc' = [recvPc EXCEPT ![t] = "done"]
    /\ UNCHANGED <<sendPc, conn, batchVars, stopVars, tracked, crashed, faults>>

\* A normal closure nobody asked for: the failed read is repeated until the
\* WebSocket library panics.
ReadPanics(t) ==
    /\ ~crashed /\ recvPc[t] = "reading" /\ conn[t] = "closed" /\ ~stop[t]
    /\ crashed' = TRUE
    /\ UNCHANGED <<sendPc, recvPc, conn, batchVars, stopVars, tracked, faults>>

-----------------------------------------------------------------------------
(* The endpoint and the network *)

EndpointAnswersClose(t) ==
    /\ conn[t] = "closing"
    /\ conn' = [conn EXCEPT ![t] = "closed"]
    /\ UNCHANGED <<sendPc, recvPc, batchVars, stopVars, tracked, crashed, faults>>

EndpointCloses(t) ==
    /\ conn[t] = "open" /\ Fault
    /\ conn' = [conn EXCEPT ![t] = "closed"]
    /\ UNCHANGED <<sendPc, recvPc, batchVars, stopVars, tracked, crashed>>

ConnectionLost(t) ==
    /\ conn[t] \in {"open", "closing"} /\ Fault
    /\ conn' = [conn EXCEPT ![t] = "lost"]
    /\ UNCHANGED <<sendPc, recvPc, batchVars, stopVars, tracked, crashed>>

SendLoop(t) ==
    \/ SendTick(t) \/ WriteTx(t) \/ BatchDone(t) \/ BatchCut(t) \/ BatchFails(t)
    \/ ProgressTick(t) \/ SendPing(t) \/ PingFails(t) \/ TimeLimit(t)

ReceiveLoop(t) == ReadsAnswer(t) \/ ReadsError(t) \/ ReadPanics(t)

Endpoint(t) == EndpointAnswersClose(t) \/ EndpointCloses(t) \/ ConnectionLost(t)

\* Both goroutines have returned: Wait's wg.Wait() does not block any more.
LoopsDone(t) == sendPc[t] = "done" /\ recvPc[t] = "done"

=============================================================================
