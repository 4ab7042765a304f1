---------------------------- MODULE DepositCredit ----------------------------
(***************************************************************************)
(* What the deposit flow promises about Coins: an on-chain transfer is     *)
(* credited to its owner at most once, and a credit is taken back at most  *)
(* once, in full, and never into the red.                                  *)
(***************************************************************************)
EXTENDS Integers

CONSTANTS Users, Transfers, Destination

VARIABLES available, credit, undone

vars == <<available, credit, undone>>

Init ==
    /\ available = [u \in Users |-> 0]
    /\ credit = [t \in Transfers |-> 0]
    /\ undone = {}

Gain(u, n) == available' = [available EXCEPT ![u] = @ + n]

\* The amount depends on the rate of the moment, so it is left open.
Credit(t) ==
    /\ credit[t] = 0
    /\ credit'[t] > 0
    /\ credit' = [credit EXCEPT ![t] = credit'[t]]
    /\ Gain(Destination[t], credit'[t])
    /\ UNCHANGED undone

Undo(t) ==
    /\ credit[t] > 0 /\ t \notin undone
    /\ available[Destination[t]] >= credit[t]
    /\ undone' = undone \cup {t}
    /\ Gain(Destination[t], -credit[t])
    /\ UNCHANGED credit

\* Everything else the ledger does leaves the credits alone.
Otherwise == UNCHANGED <<credit, undone>>

Next == Otherwise \/ \E t \in Transfers : Credit(t) \/ Undo(t)

Spec == Init /\ [][Next]_vars
=============================================================================
