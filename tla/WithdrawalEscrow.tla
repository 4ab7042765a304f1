--------------------------- MODULE WithdrawalEscrow ---------------------------
(***************************************************************************)
(* What the withdrawal flow promises about Coins, and nothing else: the    *)
(* amount of a withdrawal is set aside once, and then leaves the reserve   *)
(* exactly once, either back to the owner or out of the system.            *)
(***************************************************************************)
EXTENDS Integers

CONSTANTS Users, Withdrawals, Owner, Amount

VARIABLES available, reserved, stage

vars == <<available, reserved, stage>>

Init ==
    /\ available = [u \in Users |-> 0]
    /\ reserved = [u \in Users |-> 0]
    /\ stage = [w \in Withdrawals |-> "none"]

\* Move the stage of w and the two balances of its owner together.
Transfer(w, from, to, dA, dR) ==
    /\ stage[w] = from
    /\ stage' = [stage EXCEPT ![w] = to]
    /\ available' = [available EXCEPT ![Owner[w]] = @ + dA]
    /\ reserved' = [reserved EXCEPT ![Owner[w]] = @ + dR]

Hold(w)    == Transfer(w, "none", "held", -Amount[w], Amount[w])
Release(w) == Transfer(w, "held", "released", Amount[w], -Amount[w])
PayOut(w)  == Transfer(w, "held", "paid", 0, -Amount[w])

\* Everything else the ledger does leaves the withdrawal reserves alone.
Elsewhere(u) ==
    /\ available' = [available EXCEPT ![u] = available'[u]]
    /\ UNCHANGED <<reserved, stage>>

Next ==
    \/ \E w \in Withdrawals : Hold(w) \/ Release(w) \/ PayOut(w)
    \/ \E u \in Users : Elsewhere(u)

Spec == Init /\ [][Next]_vars
=============================================================================
