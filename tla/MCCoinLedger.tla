---------------------------- MODULE MCCoinLedger ----------------------------
(* A small instance of CoinLedger: two sessions, two accounts, at most two *)
(* postings per transaction.  The movements make a key be retried, misused *)
(* for another amount, and the balances hit both bounds.                   *)
EXTENDS CoinLedger, TLC

CONSTANTS u1, u2, s1, s2

Move(op, dA, dR, key) == [op |-> op, dA |-> dA, dR |-> dR, key |-> key, ref |-> "r"]

MCMovements == { Move("migration_credit", 2, 0, "migration"),
                 Move("withdrawal_reserve", -1, 1, "w:reserve"),
                 Move("withdrawal_reserve", -2, 2, "w:reserve"),
                 Move("refund_credit", 2, 0, "settlement") }

Symmetry == Permutations({u1, u2}) \cup Permutations({s1, s2})
=============================================================================
