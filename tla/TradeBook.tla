------------------------------ MODULE TradeBook ------------------------------
(***************************************************************************)
(* What Coin trading on one market promises: Coins and positions move      *)
(* together.  Coins set aside for an order come back or pay for a position *)
(* with its fee; the market is settled once, while nothing is set aside,   *)
(* and then everyone gets back what their positions cost.                  *)
(***************************************************************************)
EXTENDS Integers, MoneyArithmetic

CONSTANTS Users, Sides

VARIABLES
    cash,       \* what trading added to a user's available Coins
    held,       \* Coins set aside for orders in flight
    stake,      \* what the user's position on each side cost
    open

vars == <<cash, held, stake, open>>

Init ==
    /\ cash = [u \in Users |-> 0]
    /\ held = [u \in Users |-> 0]
    /\ stake = [u \in Users |-> [s \in Sides |-> 0]]
    /\ open = TRUE

Move(u, toCash, toHeld) ==
    /\ cash' = [cash EXCEPT ![u] = @ + toCash]
    /\ held' = [held EXCEPT ![u] = @ + toHeld]

Hold(u) ==
    /\ open
    /\ held'[u] > held[u]
    /\ Move(u, held[u] - held'[u], held'[u] - held[u])
    /\ UNCHANGED <<stake, open>>

Return(u) ==
    LET n == cash'[u] - cash[u] IN
    /\ n \in 1 .. held[u]
    /\ Move(u, n, -n)
    /\ UNCHANGED <<stake, open>>

Buy(u, s) ==
    /\ open
    /\ LET n == stake'[u][s] - stake[u][s]
           back == cash'[u] - cash[u]
       IN  /\ n \in 1 .. held[u]
           /\ back \in 0 .. held[u] - n - TradingFee(n)
           /\ Move(u, back, -(n + TradingFee(n) + back))
           /\ stake' = [stake EXCEPT ![u][s] = @ + n]
    /\ UNCHANGED open

Sell(u, s) ==
    /\ open
    /\ stake'[u][s] \in 0 .. stake[u][s]
    /\ stake' = [stake EXCEPT ![u][s] = stake'[u][s]]
    /\ cash'[u] >= cash[u]
    /\ Move(u, cash'[u] - cash[u], 0)
    /\ UNCHANGED open

\* Sides has two members; a sum over a set would hide that.
Refund(u) == LET s == CHOOSE s \in Sides : TRUE
                 t == CHOOSE t \in Sides : t # s
             IN  stake[u][s] + stake[u][t]

Settle ==
    /\ open
    /\ \A u \in Users : held[u] = 0
    /\ open' = FALSE
    /\ cash' = [u \in Users |-> cash[u] + Refund(u)]
    /\ stake' = [u \in Users |-> [s \in Sides |-> 0]]
    /\ UNCHANGED held

Next ==
    \/ Settle
    \/ \E u \in Users :
          \/ Hold(u)
          \/ Return(u)
          \/ \E s \in Sides : Buy(u, s) \/ Sell(u, s)

Spec == Init /\ [][Next]_vars
=============================================================================
