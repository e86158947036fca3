---------------------------- MODULE MessageLink -----------------------------
(***************************************************************************)
(* What the two ends of a coordinated test assume of a simpleSocket when   *)
(* they write: messages reach the wire in the order they were handed over, *)
(* each at most once; a writer that is told "ok" has its message there; a  *)
(* writer that is told of an error knows nothing, its message may be there *)
(* or may still come; nothing follows the close of the link.               *)
(***************************************************************************)
EXTENDS Naturals, Sequences

CONSTANT Messages

VARIABLES
    given,      \* messages in the order they were handed over
    wire,       \* messages in the order they were written
    told,       \* what the writer of each message was told
    closed      \* no message follows

vars == <<given, wire, told, closed>>

On(q) == {q[k] : k \in DOMAIN q}
Before(a, b) == \E j, k \in DOMAIN given : j < k /\ given[j] = a /\ given[k] = b

Init ==
    /\ given = <<>> /\ wire = <<>>
    /\ told = [m \in Messages |-> "nothing"]
    /\ closed = FALSE

Give(m) ==
    /\ m \notin On(given)
    /\ given' = Append(given, m)
    /\ UNCHANGED <<wire, told, closed>>

\* A message may be passed over, it may not be overtaken and then sent.
Transmit(m) ==
    /\ ~closed
    /\ m \in On(given) /\ \A x \in On(wire) : Before(x, m)
    /\ wire' = Append(wire, m)
    /\ UNCHANGED <<given, told, closed>>

Tell(m, answer) ==
    /\ told[m] = "nothing" /\ m \in On(given)
    /\ answer = "ok" => m \in On(wire)
    /\ told' = [told EXCEPT ![m] = answer]
    /\ UNCHANGED <<given, wire, closed>>

Close ==
    /\ ~closed
    /\ closed' = TRUE
    /\ UNCHANGED <<given, wire, told>>

Next ==
    \/ \E m \in Messages :
          Give(m) \/ Transmit(m) \/ \E answer \in {"ok", "error"} : Tell(m, answer)
    \/ Close

Spec == Init /\ [][Next]_vars

=============================================================================
