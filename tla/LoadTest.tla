------------------------------ MODULE LoadTest ------------------------------
(***************************************************************************)
(* What a coordinated load test promises, without saying how: a team of    *)
(* exactly TeamSize workers is gathered before any of them sends anything, *)
(* each member's completion is counted once and only when its load is      *)
(* final, the test succeeds when the whole team has completed, and the     *)
(* report then holds every member's load. Anything may fail before that,   *)
(* but an error is never returned once the whole team has completed; only  *)
(* the death of the coordinating process can then keep success away.       *)
(***************************************************************************)
EXTENDS Naturals, FiniteSets

CONSTANTS
    Workers,    \* the workers that may take part
    TeamSize    \* how many the test waits for

VARIABLES
    phase,      \* "gathering", "running", "succeeded", "failed" or "crashed"
    team,       \* the workers of the test
    done,       \* those whose completion was counted
    load,       \* transactions each worker has sent
    report      \* the statistics written at the end

vars == <<phase, team, done, load, report>>

Init ==
    /\ phase = "gathering"
    /\ team = {} /\ done = {}
    /\ load = [w \in Workers |-> 0]
    /\ report = [w \in Workers |-> 0]

Begin ==
    /\ phase = "gathering"
    /\ phase' = "running"
    /\ team' \in {T \in SUBSET Workers : Cardinality(T) = TeamSize}
    /\ UNCHANGED <<done, load, report>>

\* A worker of a test that came to nothing goes on until it hears of that.
Send(w) ==
    /\ phase \in {"running", "failed", "crashed"}
    /\ w \in team \ done
    /\ load' = [load EXCEPT ![w] = @ + 1]
    /\ UNCHANGED <<phase, team, done, report>>

\* The last completion writes the report.
Complete(w) ==
    /\ phase = "running"
    /\ w \in team \ done
    /\ done' = done \cup {w}
    /\ report' = IF done' = team THEN load ELSE report
    /\ UNCHANGED <<phase, team, load>>

Succeed ==
    /\ phase = "running" /\ done = team
    /\ phase' = "succeeded"
    /\ UNCHANGED <<team, done, load, report>>

Fail ==
    /\ phase \in {"gathering", "running"} /\ (team = {} \/ done # team)
    /\ phase' = "failed"
    /\ UNCHANGED <<team, done, load, report>>

\* The coordinating process panics. Nothing else can keep a test from success
\* once its whole team has completed.
Crash ==
    /\ phase \in {"gathering", "running"}
    /\ phase' = "crashed"
    /\ UNCHANGED <<team, done, load, report>>

Next ==
    \/ Begin \/ Succeed \/ Fail \/ Crash
    \/ \E w \in Workers : Send(w) \/ Complete(w)

Spec == Init /\ [][Next]_vars

\* Gathering ends, in a test or without one, and a test whose whole team has
\* completed is reported as a success.
FairSpec ==
    /\ Spec
    /\ WF_vars(Begin \/ (phase = "gathering" /\ (Fail \/ Crash)))
    /\ WF_vars(Succeed)

=============================================================================
