--------------------------- MODULE MCTransactors ----------------------------
(***************************************************************************)
(* Instances of TransactorGroup for TLC.                                   *)
(***************************************************************************)
EXTENDS TransactorGroup, TLC

CONSTANTS t1, t2

TransactorSymmetry == Permutations(Transactors)

\* Count: the configured value for "unlimited".
Unlimited == -1

=============================================================================
