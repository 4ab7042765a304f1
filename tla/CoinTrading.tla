----------------------------- MODULE CoinTrading -----------------------------
(***************************************************************************)
(* Coin orders on one market (placeCoinTradingOrder in src/trading.ts and  *)
(* src/portfolioRepository.ts) and its settlement (src/settlement.ts).     *)
(*                                                                         *)
(* An order spans two database transactions with a call of the venue in    *)
(* between: the first reserves the Coins of a buy, the second moves the    *)
(* position and the Coins.  Reserve, finalisation and settlement hold the  *)
(* market's advisory lock until they commit, so each is one action;  what  *)
(* an order reads before them (its idempotency key, the position it quotes *)
(* and the position it builds on) it reads without a lock, in actions of   *)
(* their own.  The process may die anywhere, and nothing resumes a call.   *)
(*                                                                         *)
(* An order is named by the call that inserted it.  Coins and shares are   *)
(* small integers; "price" is Coins per share, times NanosScale.           *)
(***************************************************************************)
EXTENDS CoinPosting, MoneyArithmetic, FiniteSets, Functions

CONSTANTS
    Users,
    Calls,          \* calls of placeCoinTradingOrder
    Request,        \* [Calls -> [user, key, side, action, stake, shares, price]]
    Outcomes,       \* what the venue may answer
    Elsewhere,      \* [user, move]: postings of other components
    None

Sides == {"no", "yes"}

\* What an order may post.
Steps == {"reserve", "debit", "fee", "credit", "unused", "failed", "cancelled"}

\* The movements on the accounts: those of orders and settlements, and others.
Movements ==
    [op : Operations, dA : Int, dR : Int,
     key : (Calls \X Steps) \cup ({"settlement"} \X Sides),
     ref : {"trade_execution_order", "market_settlement"}]
    \cup {p.move : p \in Elsewhere}

ASSUME TradingAssumption ==
    /\ IsFiniteSet(Calls) /\ "settlement" \notin Calls
    /\ Request \in [Calls -> [user : Users, key : STRING, side : Sides,
                              action : {"buy", "sell"}, stake : Nat \ {0},
                              shares : Nat \ {0}, price : Nat \ {0}]]
    /\ Outcomes \subseteq [status : {"filled", "partially_filled", "cancelled", "error"},
                           shares : Nat, amount : Nat, fee : Nat, price : Nat,
                           ambiguous : BOOLEAN]
    /\ \A p \in Elsewhere :
          /\ p.user \in Users /\ p.move.dA \in Int /\ p.move.dR \in Int
          /\ p.move.key[1] \notin Calls \cup {"settlement"}

\* null is neither an answer, a movement, an id, nor a row of a table.
ASSUME NullAssumption ==
    /\ None \notin Outcomes
    /\ None \notin Movements
    /\ None \notin [user : Users, move : Movements]
    /\ None \notin [user : Users, side : Sides, action : {"buy", "sell"}, amount : Nat,
                     fee : Nat, shares : Nat, hasProfit : BOOLEAN]

VARIABLES
    account,        \* coin_accounts and coin_ledger_entries, per user
    order,          \* trade_execution_orders, by the call that inserted it
    trade,          \* trades, by execution_order_id
    position,       \* positions, per user and side
    settled,        \* the row of market_settlements exists
    pc,             \* how far a call is, or what it answered
    answer,         \* the venue's answer to the call
    seen            \* the position a call builds its finalisation on

vars == <<account, order, trade, position, settled, pc, answer, seen>>

Active == {"execution_pending", "manual_review"}
Filled == {"filled", "partially_filled"}
Released == {"cancelled", "failed"}
Terminal == Filled \cup Released

Answers == {"filled", "rejected", "reconcile", "conflict", "refused", "dead"}
Stages == {"lookup", "quote", "replay", "reserve", "execute", "build", "finalize",
           "failed", "cancelled", "manual_review"}

NoPosition == [shares |-> 0, cost |-> 0]
NoOrder == [status |-> "none", filled |-> 0, fee |-> 0, released |-> 0]
NoTrade == [shares |-> 0, amount |-> 0, fee |-> 0, basis |-> 0]

TypeOK ==
    /\ \A u \in Users : Covered(account[u])
    /\ order \in [Calls -> [status : {"none"} \cup Active \cup Terminal,
                            filled : Nat, fee : Nat, released : Nat]]
    /\ trade \in [Calls -> [shares : Nat, amount : Nat, fee : Nat, basis : Nat]]
    /\ position \in [Users -> [Sides -> [shares : Nat, cost : Nat]]]
    /\ settled \in BOOLEAN
    /\ pc \in [Calls -> Answers \cup Stages]
    /\ answer \in [Calls -> Outcomes \cup {None}]
    /\ seen \in [Calls -> [shares : Nat, cost : Nat]]

Init ==
    /\ account = [u \in Users |-> EmptyAccount]
    /\ order = [c \in Calls |-> NoOrder]
    /\ trade = [c \in Calls |-> NoTrade]
    /\ position = [u \in Users |-> [s \in Sides |-> NoPosition]]
    /\ settled = FALSE
    /\ pc = [c \in Calls |-> "lookup"]
    /\ answer = [c \in Calls |-> None]
    /\ seen = [c \in Calls |-> NoPosition]

-----------------------------------------------------------------------------
(* Ledger movements; None where the code passes null.                      *)

Buys(c) == Request[c].action = "buy"

ReserveOf(c) == IF Buys(c) THEN Request[c].stake + TradingFee(Request[c].stake) ELSE 0

Movement(c, op, dA, dR, step) ==
    [op |-> op, dA |-> dA, dR |-> dR, key |-> <<c, step>>, ref |-> "trade_execution_order"]

MoveIf(condition, m) == IF condition THEN m ELSE None

ReserveMove(c) ==
    MoveIf(Buys(c), Movement(c, "trade_reserve", -ReserveOf(c), ReserveOf(c), "reserve"))
ReleaseAll(c, status) ==
    MoveIf(Buys(c), Movement(c, "trade_release", ReserveOf(c), -ReserveOf(c), status))
DebitMove(c, f) ==
    MoveIf(Buys(c), Movement(c, "trade_debit", 0, -f.amount, "debit"))
FeeMove(c, f) ==
    MoveIf(f.fee > 0, IF Buys(c) THEN Movement(c, "fee_debit", 0, -f.fee, "fee")
                                 ELSE Movement(c, "fee_debit", -f.fee, 0, "fee"))
CreditMove(c, f) ==
    MoveIf(~Buys(c), Movement(c, "trade_settlement_credit", f.amount, 0, "credit"))

\* What the fill left of the reserve.
Unused(c, f) == IF Buys(c) THEN ReserveOf(c) - f.amount - f.fee ELSE 0

ReleaseMove(c, f) ==
    MoveIf(Unused(c, f) > 0,
           Movement(c, "trade_release", Unused(c, f), -Unused(c, f), "unused"))

RefundMove(u, s) ==
    MoveIf(position[u][s].cost > 0,
           [op |-> "refund_credit", dA |-> position[u][s].cost, dR |-> 0,
            key |-> <<"settlement", s>>, ref |-> "market_settlement"])

CanPay(acc, m) == IF m = None THEN TRUE ELSE CanPost(acc, m)
Pay(acc, m) == IF m = None THEN acc ELSE Post(acc, m)

CanPay2(acc, m, n) == CanPay(acc, m) /\ CanPay(Pay(acc, m), n)
Pay2(acc, m, n) == Pay(Pay(acc, m), n)

\* finalizeCoinTradeOrder posts debit, fee, credit and release, in this order.
CanBook(acc, c, f) ==
    /\ CanPay2(acc, DebitMove(c, f), FeeMove(c, f))
    /\ CanPay2(Pay2(acc, DebitMove(c, f), FeeMove(c, f)), CreditMove(c, f), ReleaseMove(c, f))
Booked(acc, c, f) ==
    Pay2(Pay2(acc, DebitMove(c, f), FeeMove(c, f)), CreditMove(c, f), ReleaseMove(c, f))

-----------------------------------------------------------------------------
(* Reads                                                                   *)

\* (mutant) An order that has ended does not count.
SameKeyActive(c, d) ==
    /\ order[d].status \in Active
    /\ Request[d].user = Request[c].user
    /\ Request[d].key = Request[c].key

\* The row of d has the user and the idempotency key of c.
SameKey(c, d) ==
    /\ order[d].status # "none"
    /\ Request[d].user = Request[c].user
    /\ Request[d].key = Request[c].key

\* The request fingerprints agree.
SameRequest(c, d) == Request[c] = Request[d]

OwnPosition(c) == position[Request[c].user][Request[c].side]

\* (mutant) Whatever has ended counts as done.
ReplayedAsFilled(c, d) ==
    IF ~SameRequest(c, d) THEN "conflict"
    ELSE IF order[d].status \in Terminal THEN "filled"
    ELSE "reconcile"

\* What a call with a used idempotency key answers.
Replayed(c, d) ==
    IF ~SameRequest(c, d) THEN "conflict"
    ELSE IF order[d].status \in Filled THEN "filled"
    ELSE IF order[d].status \in Released THEN "rejected"
    ELSE "reconcile"

Goto(c, stage) == pc' = [pc EXCEPT ![c] = stage]

LookUp(c) ==
    /\ pc[c] = "lookup"
    /\ \/ /\ ~ \E d \in Calls : SameKey(c, d)
          /\ Goto(c, "quote")
       \/ \E d \in Calls :
             /\ SameKey(c, d)
             /\ Goto(c, IF order[d].status = "execution_pending" THEN "reconcile" ELSE "replay")
    /\ UNCHANGED <<account, order, trade, position, settled, answer, seen>>

\* createCoinTradingQuote; a repeated call is quoted before it is answered.
Quote(c) ==
    /\ pc[c] \in {"quote", "replay"}
    /\ \/ /\ ~Buys(c) /\ Request[c].shares > OwnPosition(c).shares
          /\ Goto(c, "refused")
       \/ /\ Buys(c) \/ Request[c].shares <= OwnPosition(c).shares
          /\ \/ pc[c] = "quote" /\ Goto(c, "reserve")
             \/ /\ pc[c] = "replay"
                /\ \E d \in Calls : SameKey(c, d) /\ Goto(c, Replayed(c, d))
    /\ UNCHANGED <<account, order, trade, position, settled, answer, seen>>

-----------------------------------------------------------------------------
(* Reserve                                                                 *)

MarketOpen == ~settled

\* (mutant) An ambiguous order is no longer active.
PendingOrder(c) == order[c].status = "execution_pending"

ActiveOrder(c) == order[c].status \in Active

ActiveSell(c) ==
    \E d \in Calls : /\ ActiveOrder(d) /\ ~Buys(d) /\ d # c
                     /\ Request[d].user = Request[c].user
                     /\ Request[d].side = Request[c].side

\* reserveCoinTradeOrder.  A key that another call inserted meanwhile is found
\* before the transaction or by its unique constraint.
Reserve(c) ==
    /\ pc[c] = "reserve"
    /\ \/ \E d \in Calls :
             /\ SameKey(c, d)
             /\ Goto(c, IF SameRequest(c, d) THEN "reconcile" ELSE "conflict")
             /\ UNCHANGED <<account, order>>
       \/ /\ ~ \E d \in Calls : SameKey(c, d)
          /\ ~MarketOpen \/ (~Buys(c) /\ ActiveSell(c))
          /\ Goto(c, "conflict")
          /\ UNCHANGED <<account, order>>
       \/ /\ ~ \E d \in Calls : SameKey(c, d)
          /\ MarketOpen /\ (Buys(c) \/ ~ActiveSell(c))
          /\ \/ /\ ~CanPay(account[Request[c].user], ReserveMove(c))
                /\ Goto(c, "refused")
                /\ UNCHANGED <<account, order>>
             \/ /\ CanPay(account[Request[c].user], ReserveMove(c))
                /\ account' = [account EXCEPT ![Request[c].user] = Pay(@, ReserveMove(c))]
                /\ order' = [order EXCEPT ![c].status = "execution_pending"]
                /\ Goto(c, "execute")
    /\ UNCHANGED <<trade, position, settled, answer, seen>>

-----------------------------------------------------------------------------
(* The venue                                                               *)

\* Where the answer sends the call; errors are told apart by their message.
Continue(f) ==
    IF f.status \in Filled THEN "build"
    ELSE IF f.status = "cancelled" THEN "cancelled"
    ELSE IF f.ambiguous THEN "manual_review" ELSE "failed"

Execute(c, f) ==
    /\ pc[c] = "execute"
    /\ answer' = [answer EXCEPT ![c] = f]
    /\ Goto(c, Continue(f))
    /\ UNCHANGED <<account, order, trade, position, settled, seen>>

-----------------------------------------------------------------------------
(* Finalisation                                                            *)

Apart(m, n) == IF m > n THEN m - n ELSE n - m

\* The fill is one that the order allows, to the micro.
Acceptable(c, f) ==
    /\ f.shares > 0 /\ f.amount > 0
    /\ f.shares <= Request[c].shares
    /\ Apart(f.amount, FillAmount(f.shares, f.price)) <= 1
    /\ (f.status = "filled") <=> (f.shares = Request[c].shares)
    /\ f.fee = TradingFee(f.amount)
    /\ IF Buys(c) THEN f.amount + f.fee <= ReserveOf(c) /\ f.amount <= Request[c].stake
                  ELSE f.fee <= f.amount

Basis(p, f) == CostBasis(p.cost, f.shares, p.shares)

\* (mutant) A sale leaves the cost with the remaining shares.
MovedKeepsCost(c, p, f) ==
    IF Buys(c)
    THEN [shares |-> p.shares + f.shares, cost |-> p.cost + f.amount]
    ELSE [shares |-> p.shares - f.shares, cost |-> p.cost]

Moved(c, p, f) ==
    IF Buys(c)
    THEN [shares |-> p.shares + f.shares, cost |-> p.cost + f.amount]
    ELSE [shares |-> p.shares - f.shares, cost |-> p.cost - Basis(p, f)]

\* A sale needs the shares it sold.
Sellable(c, f) == Buys(c) \/ f.shares <= OwnPosition(c).shares

\* buildCoinTradeFinalization: the position is read without a lock.
BuildFinalization(c) ==
    /\ pc[c] = "build"
    /\ IF Acceptable(c, answer[c]) /\ Sellable(c, answer[c])
       THEN Goto(c, "finalize") /\ seen' = [seen EXCEPT ![c] = OwnPosition(c)]
       ELSE Goto(c, "manual_review") /\ UNCHANGED seen
    /\ UNCHANGED <<account, order, trade, position, settled, answer>>

\* assertCoinPositionTransitionMatchesCurrent: the new shares, cost and profit
\* computed from the locked position are those computed from the one read.
TransitionMatches(c) == seen[c] = OwnPosition(c)

CanFinalize(c) ==
    /\ MarketOpen
    /\ order[c].status = "execution_pending"
    /\ Sellable(c, answer[c]) /\ TransitionMatches(c)
    /\ CanBook(account[Request[c].user], c, answer[c])

\* finalizeCoinTradeOrder.  Its commit may succeed unnoticed.
Finalize(c) ==
    LET f == answer[c] IN
    /\ pc[c] = "finalize"
    /\ CanFinalize(c)
    /\ account' = [account EXCEPT ![Request[c].user] = Booked(@, c, f)]
    /\ trade' = [trade EXCEPT ![c] =
            [shares |-> f.shares, amount |-> f.amount, fee |-> f.fee,
             basis |-> IF Buys(c) THEN 0 ELSE Basis(seen[c], f)]]
    /\ position' = [position EXCEPT ![Request[c].user][Request[c].side] = Moved(c, seen[c], f)]
    /\ order' = [order EXCEPT ![c] = [status |-> f.status, filled |-> f.amount,
                                      fee |-> f.fee, released |-> Unused(c, f)]]
    /\ Goto(c, "filled") \/ Goto(c, "manual_review")
    /\ UNCHANGED <<settled, answer, seen>>

FailToFinalize(c) ==
    /\ pc[c] = "finalize"
    /\ ~CanFinalize(c)
    /\ Goto(c, "manual_review")
    /\ UNCHANGED <<account, order, trade, position, settled, answer, seen>>

\* The connection is lost and the transaction rolled back.
LoseFinalization(c) ==
    /\ pc[c] = "finalize"
    /\ Goto(c, "manual_review")
    /\ UNCHANGED <<account, order, trade, position, settled, answer, seen>>

-----------------------------------------------------------------------------
(* Cancellation                                                            *)

\* (mutant) A finalised order is sent to review as well.
EndedNever(status) == FALSE

\* isCoinTradeTerminal.
Ended(status) == status \in Terminal

\* (mutant) Every error gives the reserve back.
FreedAlways(c, status) == ReleaseAll(c, IF status \in Released THEN status ELSE "failed")

Freed(c, status) == IF status \in Released THEN ReleaseAll(c, status) ELSE None

\* cancelCoinTradeOrder: it takes no market lock, and ends what has not ended.
Cancel(c) ==
    LET status == pc[c] IN
    /\ status \in {"failed", "cancelled", "manual_review"}
    /\ Goto(c, IF status \in Released THEN "rejected" ELSE "reconcile")
    /\ \/ Ended(order[c].status) /\ UNCHANGED <<account, order>>
       \/ /\ ~Ended(order[c].status)
          /\ CanPay(account[Request[c].user], Freed(c, status))
          /\ account' = [account EXCEPT ![Request[c].user] = Pay(@, Freed(c, status))]
          /\ order' = [order EXCEPT ![c].status = status,
                                    ![c].released = IF Freed(c, status) = None THEN @
                                                    ELSE ReserveOf(c)]
    /\ UNCHANGED <<trade, position, settled, answer, seen>>

\* The process dies, or a query of the call fails.
Crash(c) ==
    /\ pc[c] \in Stages
    /\ Goto(c, "dead")
    /\ UNCHANGED <<account, order, trade, position, settled, answer, seen>>

-----------------------------------------------------------------------------
(* Settlement                                                              *)

\* Positions are refunded in the order of their sides.
Refunded(u) == Pay2(account[u], RefundMove(u, "no"), RefundMove(u, "yes"))

\* settleMarket: cancelled, or resolved without a position on the winning side
\* (with one, the payout is refused until the provider's funding is verified).
Settle(winner) ==
    /\ \A c \in Calls : ~ActiveOrder(c)
    /\ \E u \in Users, s \in Sides : position[u][s].shares > 0
    /\ \A u \in Users : winner \in Sides => position[u][winner].shares = 0
    /\ MarketOpen
    /\ \A u \in Users : CanPay2(account[u], RefundMove(u, "no"), RefundMove(u, "yes"))
    /\ settled' = TRUE
    /\ account' = [u \in Users |-> Refunded(u)]
    /\ position' = [u \in Users |-> [s \in Sides |-> NoPosition]]
    /\ UNCHANGED <<order, trade, pc, answer, seen>>

\* Deposits, withdrawals and corrections move the same balances.
PostElsewhere(p) ==
    /\ ~HasKey(account[p.user], p.move.key)
    /\ CanPost(account[p.user], p.move)
    /\ account' = [account EXCEPT ![p.user] = Post(@, p.move)]
    /\ UNCHANGED <<order, trade, position, settled, pc, answer, seen>>

Next ==
    \/ \E c \in Calls :
          \/ LookUp(c) \/ Quote(c) \/ Reserve(c)
          \/ \E f \in Outcomes : Execute(c, f)
          \/ BuildFinalization(c) \/ Finalize(c) \/ FailToFinalize(c) \/ LoseFinalization(c)
          \/ Cancel(c) \/ Crash(c)
    \/ \E winner \in Sides \cup {"cancelled"} : Settle(winner)
    \/ \E p \in Elsewhere : PostElsewhere(p)

Spec == Init /\ [][Next]_vars

-----------------------------------------------------------------------------
(* Properties                                                              *)

Owns(c, u) == Request[c].user = u

\* The order and its trade as the reconciliation reads them.
Rec == INSTANCE Reconciliation WITH Null <- None

OrderRow(c) ==
    LET o == order[c]
        bought == Buys(c) /\ o.filled > 0
        column(condition, step) == IF condition THEN <<c, step>> ELSE None
    IN  [id |-> c, user |-> Request[c].user, action |-> Request[c].action,
         side |-> Request[c].side, status |-> o.status,
         reserved |-> ReserveOf(c), filled |-> o.filled, fee |-> o.fee, released |-> o.released,
         shares |-> IF o.status \in Filled THEN answer[c].shares ELSE 0,
         reserve |-> column(Buys(c), "reserve"),
         debit |-> column(bought, "debit"), credit |-> column(o.filled > 0 /\ ~Buys(c), "credit"),
         feeEntry |-> column(o.fee > 0, "fee"),
         release |-> column(o.released > 0, IF bought THEN "unused" ELSE o.status)]

TradeRow(c) ==
    IF trade[c] = NoTrade THEN None
    ELSE [user |-> Request[c].user, side |-> Request[c].side, action |-> Request[c].action,
          amount |-> trade[c].amount, fee |-> trade[c].fee, shares |-> trade[c].shares,
          hasProfit |-> ~Buys(c)]

Reconciles ==
    LET ledger == Rec!Ledger(account) IN
    /\ ~Rec!FeeEntries(ledger)
    /\ \A c \in {c \in Calls : order[c].status # "none"} :
          LET row == OrderRow(c) IN
          /\ ~Rec!TradeExecutionAccounting(ledger, row)
          /\ ~Rec!TradeProjection(row, TradeRow(c))

\* Coins set aside for the orders of u that have not ended.
Held(u) ==
    SumFunctionOnSet([c \in Calls |-> IF ActiveOrder(c) /\ Owns(c, u) THEN ReserveOf(c) ELSE 0],
                     Calls)

\* Movements of orders and of the settlement.
Trading(m) == m.key[1] \in Calls \cup {"settlement"}

\* What the entries of other components add to the reserved balance.
ReservedElsewhere(acc) ==
    SumFunctionOnSet([i \in DOMAIN acc.entries |->
                        IF Trading(acc.entries[i].move) THEN 0 ELSE acc.entries[i].move.dR],
                     DOMAIN acc.entries)

\* What a user has reserved is what its unfinished orders may still need, plus
\* what other components reserved: no order pays from another's reserve.
ReserveBacked ==
    \A u \in Users : account[u].reserved = Held(u) + ReservedElsewhere(account[u])

\* The reconciliation finds no discrepancy; the ledger has exactly the entries
\* an order's state accounts for; a buy that ended spent or returned its whole
\* reserve; and no order pays from what another has reserved.
OrderMatchesLedger ==
    /\ TypeOK /\ Reconciles /\ ReserveBacked
    /\ \A c \in Calls :
        LET own == {step \in Steps : HasKey(account[Request[c].user], <<c, step>>)}
            o == order[c]
        IN  /\ o.status = "none" => own = {}
            /\ o.status \in Active => own = (IF Buys(c) THEN {"reserve"} ELSE {})
            /\ o.status \in Released => own = (IF Buys(c) THEN {"reserve", o.status} ELSE {})
            /\ o.status \in Filled =>
                  /\ own = (IF Buys(c) THEN {"reserve", "debit"} ELSE {"credit"})
                           \cup (IF o.fee > 0 THEN {"fee"} ELSE {})
                           \cup (IF o.released > 0 THEN {"unused"} ELSE {})
                  /\ trade[c].amount = o.filled /\ trade[c].fee = o.fee
            /\ o.status \in Terminal /\ Buys(c) => o.filled + o.fee + o.released = ReserveOf(c)

\* What the trade of an order adds to the position on its side.
On(c, u, s) == Owns(c, u) /\ Request[c].side = s
SharesOf(c) == IF Buys(c) THEN trade[c].shares ELSE -trade[c].shares
CostOf(c) == IF Buys(c) THEN trade[c].amount ELSE -trade[c].basis

\* Until the market is settled, a position is what its trades bought and sold,
\* and cost what they paid for it, however the orders overlapped.
PositionMatchesTrades ==
    ~settled =>
        \A u \in Users, s \in Sides :
            /\ position[u][s].shares =
                  SumFunctionOnSet([c \in Calls |-> IF On(c, u, s) THEN SharesOf(c) ELSE 0], Calls)
            /\ position[u][s].cost =
                  SumFunctionOnSet([c \in Calls |-> IF On(c, u, s) THEN CostOf(c) ELSE 0], Calls)

\* However often a client repeats an order, the venue is asked once: two calls
\* with one key do not both reach it.
VenueAskedOnce ==
    \A c, d \in Calls :
        /\ answer[c] # None /\ answer[d] # None
        /\ Owns(c, Request[d].user) /\ Request[c].key = Request[d].key
        => c = d

\* "filled" and "rejected" are answered to those only whose very order was
\* filled, or ended without a trade.
AnswersTruthful ==
    \A c \in Calls :
        /\ pc[c] = "filled" =>
              \E d \in Calls : SameKey(c, d) /\ Request[d] = Request[c]
                               /\ order[d].status \in Filled /\ trade[d].shares > 0
        /\ pc[c] = "rejected" =>
              \E d \in Calls : SameKey(c, d) /\ Request[d] = Request[c]
                               /\ order[d].status \in Released /\ trade[d] = NoTrade

\* What trading and settlement did to the available Coins of an account.
Cash(acc) ==
    SumFunctionOnSet([i \in DOMAIN acc.entries |->
                        IF Trading(acc.entries[i].move) THEN acc.entries[i].move.dA ELSE 0],
                     DOMAIN acc.entries)

\* Orders and settlements implement the book: Coins and positions move together.
Book == INSTANCE TradeBook WITH
    cash <- [u \in Users |-> Cash(account[u])],
    held <- [u \in Users |-> Held(u)],
    stake <- [u \in Users |-> [s \in Sides |-> position[u][s].cost]],
    open <- ~settled
ImplementsTradeBook == Book!Spec

\* ".. credit proceeds, and debit the fee" (README.md): a sale of shares the
\* user has is not sent to review, its fee being smaller than its proceeds.
SalePaysItsFee ==
    [][\A c \in Calls :
          ~Buys(c) /\ pc[c] = "finalize" /\ FailToFinalize(c) =>
              settled \/ seen[c] # OwnPosition(c)]_vars
=============================================================================
