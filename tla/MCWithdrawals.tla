---------------------------- MODULE MCWithdrawals ----------------------------
(* Two withdrawals of one user that share their balance, plus corrections  *)
(* that fund the account, drain it, and push older entries off the page.   *)
EXTENDS Withdrawals, TLC

CONSTANTS u1, q1, q2, k1, k2, c1, c2

MCOwner == [q \in {q1, q2} |-> u1]
MCAmount == (q1 :> 1) @@ (q2 :> 2)
MCCorrections == { [user |-> u1, delta |-> 3, key |-> c1],
                   [user |-> u1, delta |-> -1, key |-> c2] }

\* The keys that clients confirm with are only compared.
Symmetry == Permutations({k1, k2})
=============================================================================
