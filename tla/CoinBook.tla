------------------------------ MODULE CoinBook ------------------------------
(***************************************************************************)
(* The promise of the Coin ledger, without its mechanism: every user has a *)
(* book that starts empty, is sound at every moment (running balances,     *)
(* one entry per idempotency key, no negative or overflowing balance) and  *)
(* is only ever continued, never rewritten.                                *)
(***************************************************************************)
EXTENDS CoinPosting

CONSTANT Users

VARIABLE book

Init == book = [u \in Users |-> EmptyAccount]

Grow == \A u \in Users : Continues(book[u], book'[u]) /\ Sound(book'[u])

Spec == Init /\ [][Grow]_book
=============================================================================
