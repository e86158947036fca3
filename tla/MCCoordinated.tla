--------------------------- MODULE MCCoordinated ----------------------------
(***************************************************************************)
(* Instances of CoordinatedTest for TLC.                                   *)
(***************************************************************************)
EXTENDS CoordinatedTest, TLC

CONSTANTS w1, w2, w3, i1, i2

\* Every worker process has an ID of its own: the connection stands for it.
OwnId == [c \in Conns |-> c]

\* All worker processes were given the same ID.
SameId == [c \in Conns |-> i1]

\* The first two of three worker processes were given the same ID.
TwinIds == [c \in Conns |-> IF c = w3 THEN i2 ELSE i1]

ConnSymmetry == Permutations(Conns)
TwinSymmetry == Permutations({w1, w2})

\* A view for the larger instances. Gauges and the workers' results are only
\* ever written, what was sent to a remote worker or a worker that has returned
\* is never read, and once Run has given up the counts
\* and the contents of the channels it reads are never looked at again (the
\* room left in them still matters).
States(q) == [k \in DOMAIN q |-> q[k].state]
Listening(c) == rpc[c] \notin {"unregister", "done"}
LiveState ==
    LET common ==
          <<cpc, result, workers, pending, target, ctrlResp, signalVars, started,
            Len(workerRegister), rpc, metrics, rwStop,
            [c \in Conns |-> IF rpc[c] = "done" THEN NoId ELSE rid[c]],
            [c \in Conns |-> rpc[c] # "done" /\ rerr[c]],
            [c \in Conns |-> IF Listening(c) THEN regResp[c] ELSE "none"],
            [c \in Conns |-> IF Listening(c) THEN stateCtrl[c] ELSE <<>>],
            [c \in Conns |-> ~Finished(c) /\ wstop[c]],
            [c \in Conns |-> ~Finished(c) /\ tgErr[c]],
            wpc, rep, down, open, faults>>
    IN IF result = "err" \/ cpc = "crashed"
       THEN <<common, Len(workerUnregister), Len(workerUpdate),
              [c \in Conns |-> rmsg[c].state], [c \in Conns |-> States(up[c])]>>
       ELSE <<common, workerRegister, workerUnregister, workerUpdate, rmsg, up,
              tallyVars, tx, snap>>

=============================================================================
