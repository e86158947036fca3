-------------------------- MODULE TransactorGroup ---------------------------
(***************************************************************************)
(* A transactor group (pkg/loadtest/transactor_group.go) and its           *)
(* transactors, as ExecuteStandalone and Worker.executeLoadTest drive      *)
(* them: AddAll, Start, Wait, with Cancel called at any time by an         *)
(* interrupt trap or a failing progress callback.                          *)
(***************************************************************************)
EXTENDS Transactor

VARIABLES
    gpc,        \* the caller: "adding", "waiting", "joining", "returned"
    gres,       \* what AddAll or Wait returned: "none", "ok", "err"
    collected,  \* per transactor: what its Wait sent to errc, "none" so far
    settled,    \* transactors whose final count has been tracked
    toCancel,   \* transactors the running Cancel has still to visit
    reporter,   \* progressReporter: "off", "idle", "reporting", "stopped"
    reading,    \* the counts the reporter is about to publish
    published   \* the counts the progress callback was last called with

groupVars == <<gpc, gres, collected, settled, toCancel, reporter, reading, published>>
vars == <<transactorVars, groupVars>>

Zero == [t \in Transactors |-> 0]

Init ==
    /\ sendPc = [t \in Transactors |-> "off"]
    /\ recvPc = [t \in Transactors |-> "off"]
    /\ conn = [t \in Transactors |-> "none"]
    /\ stop = [t \in Transactors |-> FALSE]
    /\ stopErr = [t \in Transactors |-> FALSE]
    /\ failed = [t \in Transactors |-> FALSE]
    /\ txCount = Zero /\ toSend = Zero /\ sent = Zero /\ written = Zero
    /\ tracked = Zero
    /\ crashed = FALSE /\ faults = 0
    /\ gpc = "adding" /\ gres = "none"
    /\ collected = [t \in Transactors |-> "none"]
    /\ settled = {} /\ toCancel = {}
    /\ reporter = "off" /\ reading = Zero /\ published = Zero

-----------------------------------------------------------------------------
(* AddAll and Start *)

Add(t) ==
    /\ gpc = "adding" /\ conn[t] = "none"
    /\ conn' = [conn EXCEPT ![t] = "open"]
    /\ UNCHANGED <<sendPc, recvPc, batchVars, stopVars, tracked, crashed, faults, groupVars>>

\* NewTransactor fails: the transactors added so far get a close frame.
AddFails(t) ==
    /\ gpc = "adding" /\ conn[t] = "none" /\ Fault
    /\ conn' = [u \in Transactors |-> IF conn[u] = "open" THEN "closing" ELSE conn[u]]
    /\ gpc' = "returned" /\ gres' = "err"
    /\ UNCHANGED <<sendPc, recvPc, batchVars, stopVars, tracked, crashed,
                   collected, settled, toCancel, reporter, reading, published>>

\* Start, and the entry of Wait. sendLoop's first pass tests the limit with a
\* count of zero.
Start ==
    /\ gpc = "adding" /\ \A t \in Transactors : conn[t] # "none"
    /\ sendPc' = [t \in Transactors |-> "select"]
    /\ recvPc' = [t \in Transactors |-> "reading"]
    /\ reporter' = "idle"
    /\ gpc' = "waiting"
    /\ UNCHANGED <<conn, batchVars, stopVars, tracked, crashed, faults,
                   gres, collected, settled, toCancel, reading, published>>

-----------------------------------------------------------------------------
(* Cancel: setStop with an error, one transactor after the other. *)

Cancel ==
    /\ ~crashed /\ gpc \in {"waiting", "joining"} /\ toCancel = {} /\ Fault
    /\ toCancel' = Transactors
    /\ UNCHANGED <<sendPc, recvPc, conn, batchVars, stopVars, tracked, crashed,
                   gpc, gres, collected, settled, reporter, reading, published>>

CancelOne(t) ==
    /\ ~crashed /\ t \in toCancel
    /\ toCancel' = toCancel \ {t}
    /\ stop' = [stop EXCEPT ![t] = TRUE]
    /\ stopErr' = [stopErr EXCEPT ![t] = TRUE]
    /\ failed' = [failed EXCEPT ![t] = @ \/ collected[t] = "none"]
    /\ UNCHANGED <<sendPc, recvPc, conn, batchVars, tracked, crashed, faults,
                   gpc, gres, collected, settled, reporter, reading, published>>

-----------------------------------------------------------------------------
(* Wait: a goroutine per transactor, then the results. *)

\* errc <- t.Wait()
Collect(t) ==
    /\ ~crashed /\ gpc = "waiting" /\ LoopsDone(t) /\ collected[t] = "none"
    /\ collected' = [collected EXCEPT ![t] = IF stopErr[t] THEN "err" ELSE "ok"]
    /\ UNCHANGED <<transactorVars, gpc, gres, settled, toCancel, reporter, reading, published>>

\* Mutation: the last progress report is taken for the final count.
TrackNothingFinal(t) ==
    /\ ~crashed /\ collected[t] # "none" /\ t \notin settled
    /\ settled' = settled \cup {t}
    /\ UNCHANGED <<transactorVars, gpc, gres, collected, toCancel, reporter, reading, published>>

\* Mutation: a finished transactor's count is dropped.
TrackZeroFinal(t) ==
    /\ ~crashed /\ collected[t] # "none" /\ t \notin settled
    /\ tracked' = [tracked EXCEPT ![t] = 0]
    /\ settled' = settled \cup {t}
    /\ UNCHANGED <<sendPc, recvPc, conn, batchVars, stopVars, crashed, faults,
                   gpc, gres, collected, toCancel, reporter, reading, published>>

\* The final trackTransactorProgress, after which the goroutine is done.
TrackFinal(t) ==
    /\ ~crashed /\ collected[t] # "none" /\ t \notin settled
    /\ tracked' = [tracked EXCEPT ![t] = txCount[t]]
    /\ settled' = settled \cup {t}
    /\ UNCHANGED <<sendPc, recvPc, conn, batchVars, stopVars, crashed, faults,
                   gpc, gres, collected, toCancel, reporter, reading, published>>

\* wg.Wait() returns, and the first error wins.
WaitReturns ==
    /\ ~crashed /\ gpc = "waiting" /\ settled = Transactors
    /\ gres' = IF \E t \in Transactors : collected[t] = "err" THEN "err" ELSE "ok"
    /\ gpc' = "joining"
    /\ UNCHANGED <<transactorVars, collected, settled, toCancel, reporter, reading, published>>

\* The deferred stop of the reporter has been answered.
ReporterJoined ==
    /\ ~crashed /\ gpc = "joining" /\ reporter = "stopped"
    /\ gpc' = "returned"
    /\ UNCHANGED <<transactorVars, gres, collected, settled, toCancel, reporter, reading, published>>

-----------------------------------------------------------------------------
(* progressReporter *)

\* The tick reads the totals; the callback is called with them later.
ReporterTick ==
    /\ ~crashed /\ reporter = "idle"
    /\ reporter' = "reporting"
    /\ reading' = tracked
    /\ UNCHANGED <<transactorVars, gpc, gres, collected, settled, toCancel, published>>

ReporterPublishes ==
    /\ ~crashed /\ reporter = "reporting"
    /\ reporter' = "idle"
    /\ published' = reading
    /\ UNCHANGED <<transactorVars, gpc, gres, collected, settled, toCancel, reading>>

ReporterStops ==
    /\ ~crashed /\ reporter = "idle" /\ gpc = "joining"
    /\ reporter' = "stopped"
    /\ UNCHANGED <<transactorVars, gpc, gres, collected, settled, toCancel, reading, published>>

-----------------------------------------------------------------------------

Terminated == (crashed \/ gpc = "returned") /\ UNCHANGED vars

TransactorStep(t) ==
    (SendLoop(t) \/ ReceiveLoop(t) \/ Endpoint(t)) /\ UNCHANGED groupVars

GroupStep ==
    \/ Start \/ WaitReturns \/ ReporterJoined
    \/ ReporterTick \/ ReporterPublishes \/ ReporterStops
    \/ \E t \in Transactors : Add(t) \/ CancelOne(t) \/ Collect(t) \/ TrackFinal(t)

GroupFault == Cancel \/ \E t \in Transactors : AddFails(t)

Next ==
    \/ \E t \in Transactors : TransactorStep(t)
    \/ GroupStep \/ GroupFault \/ Terminated

\* Goroutines that can run do; a select statement that offers a case again and
\* again (the time limit among faster tickers, the reporter's stop among its
\* ticks) takes it at last; and the endpoint answers a close frame, for
\* receiveLoop has no other way out when nothing was sent.
Fairness ==
    /\ WF_vars(GroupStep) /\ WF_vars(WaitReturns)
    /\ SF_vars(ReporterStops) /\ WF_vars(ReporterPublishes)
    /\ \A t \in Transactors :
          /\ WF_vars(SendLoop(t) /\ UNCHANGED groupVars)
          /\ SF_vars(TimeLimit(t) /\ UNCHANGED groupVars)
          /\ WF_vars(ReceiveLoop(t) /\ UNCHANGED groupVars)
          /\ WF_vars(EndpointAnswersClose(t) /\ UNCHANGED groupVars)
          /\ WF_vars(CancelOne(t)) /\ WF_vars(Collect(t)) /\ WF_vars(TrackFinal(t))

Spec == Init /\ [][Next]_vars
FairSpec == Spec /\ Fairness

-----------------------------------------------------------------------------
(* Properties *)

\* Every variable of the transactors has its type.
LoopTypeOK ==
    /\ sendPc \in [Transactors -> {"off", "select", "batch", "done"}]
    /\ recvPc \in [Transactors -> {"off", "reading", "done"}]
    /\ conn \in [Transactors -> {"none", "open", "closing", "closed", "lost"}]
StopTypeOK ==
    /\ stop \in [Transactors -> BOOLEAN]
    /\ stopErr \in [Transactors -> BOOLEAN]
    /\ failed \in [Transactors -> BOOLEAN]
    /\ crashed \in BOOLEAN
CountTypeOK ==
    /\ txCount \in [Transactors -> Nat] /\ toSend \in [Transactors -> Nat]
    /\ sent \in [Transactors -> Nat] /\ written \in [Transactors -> Nat]
    /\ tracked \in [Transactors -> Nat]
    /\ faults \in 0..MaxFaults

\* Every variable of the group has its type.
GroupTypeOK ==
    /\ gpc \in {"adding", "waiting", "joining", "returned"}
    /\ gres \in {"none", "ok", "err"}
    /\ collected \in [Transactors -> {"none", "ok", "err"}]
    /\ settled \subseteq Transactors /\ toCancel \subseteq Transactors
    /\ reporter \in {"off", "idle", "reporting", "stopped"}
    /\ reading \in [Transactors -> Nat] /\ published \in [Transactors -> Nat]

\* Every variable of a transactor group ranges over the values the code can
\* give it; in particular no batch has a negative size.
TypeOK == LoopTypeOK /\ StopTypeOK /\ CountTypeOK /\ GroupTypeOK

\* The statistics never claim more than was put on the wire: neither the
\* transactor's own count nor what the group or its progress callback saw.
NeverOverclaims ==
    \A t \in Transactors :
        /\ txCount[t] + sent[t] <= written[t]
        /\ tracked[t] <= txCount[t]
        /\ reading[t] <= tracked[t] /\ published[t] <= reading[t]

\* The count a transactor keeps never passes its limit, not even in the
\* middle of a batch, whatever the batch size (sendTransactions).
CountWithinLimit ==
    Count > 0 => \A t \in Transactors : txCount[t] + sent[t] <= Count

\* When Wait has returned, the group's counts are the transactors' final
\* ones, and the reporter will not call back any more.
FinalCountsExact ==
    gpc = "returned" /\ gres = "ok" => tracked = txCount /\ reporter = "stopped"

\* Wait returns nil only if no write of any transactor failed and none was
\* cancelled before its result was collected: stopping for the time or
\* transaction limit afterwards does not hide the error.
ErrorsSurface == gres = "ok" => \A t \in Transactors : ~failed[t]

\* The counts that reach the progress callback never go back.
ProgressMonotone ==
    [][\A t \in Transactors : /\ tracked'[t] >= tracked[t]
                              /\ published'[t] >= published[t]]_vars

\* No transactor puts more transactions on the wire than Config.Count.
SentWithinLimit == Count > 0 => \A t \in Transactors : written[t] <= Count

\* A group that was started comes to its end.
WaitEnds == gpc = "waiting" ~> (gpc = "returned" \/ crashed)

=============================================================================
