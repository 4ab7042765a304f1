--------------------------- MODULE LegacyTrading ---------------------------
(***************************************************************************)
(* Trading before the Coin cutover, on one market: placeLocalOrder and     *)
(* placeRealMoneyOrder (src/trading.ts) on the USDT ledger of src/ledger.ts,*)
(* resetPortfolio, and the pool settlement of src/settlement.ts.           *)
(*                                                                         *)
(* An order reads positions and balance in statements of its own and ends  *)
(* in one transaction (commitTrade) that posts to the ledger, inserts the  *)
(* trade and overwrites the position rows with what was computed from the  *)
(* earlier read.  A settlement plans payouts from positions it read, then  *)
(* commits them in one transaction.                                        *)
(*                                                                         *)
(* Amounts are whole cents.                                                *)
(***************************************************************************)
EXTENDS Integers, FiniteSets, Functions

CONSTANTS
    None,
    Users, Sides,
    Orders,             \* order requests in flight
    Key, Owner,         \* the idempotency key and the user of each
    Side, Buys,         \* the side of each, and the orders that buy
    Amount, Shares,     \* what each pays or receives, and for how many shares
    Real,               \* the orders executed by an adapter, not simulated
    VenueFee,           \* the fee the adapter may charge
    InitialBalance, FeePercent,
    Settlers, Outcome   \* admin calls in flight, and the winning side of each

\* What a settlement pays: shares of the pool to users, for their positions.
Plans == [total : Nat, fee : Nat, payouts : UNION {[S -> Nat] : S \in SUBSET (Users \X Sides)}]

LegacyTradingAssumption ==
    /\ IsFiniteSet(Users) /\ IsFiniteSet(Sides)
    /\ Key \in [Orders -> STRING] /\ Owner \in [Orders -> Users]
    /\ Side \in [Orders -> Sides] /\ Buys \subseteq Orders /\ Real \subseteq Orders
    /\ Amount \in [Orders -> Nat \ {0}] /\ Shares \in [Orders -> Nat \ {0}]
    /\ VenueFee \in Nat /\ InitialBalance \in Nat /\ FeePercent \in 0 .. 100
    /\ Outcome \in [Settlers -> Sides \cup {None}]       \* None: cancelled
    /\ "settlement" \notin Users \cup Orders /\ None \notin Plans

VARIABLES
    ledger,             \* ledger_entries of each user
    trades,             \* the trades table
    position,           \* positions of the market: user and side to shares and cost
    order,              \* where each order is, and the positions it read
    settlement,         \* the row of market_settlements, with its payouts
    settler             \* where each settlement call is, and the positions it read

vars == <<ledger, trades, position, order, settlement, settler>>

NoPosition == [shares |-> 0, cost |-> 0]

Init ==
    /\ ledger = [u \in Users |-> {}]
    /\ trades = {}
    /\ position = [p \in Users \X Sides |-> NoPosition]
    /\ order = [o \in Orders |-> [step |-> "new", read |-> None, trade |-> None, fee |-> 0]]
    /\ settlement = None
    /\ settler = [a \in Settlers |-> [step |-> "new", read |-> None]]

-----------------------------------------------------------------------------
(* The USDT ledger                                                         *)

Credits == {"credit", "trade_credit"}

Effect(entry) == IF entry.type \in Credits THEN entry.amount ELSE 0 - entry.amount

BalanceOf(entries) == SumFunctionOnSet([e \in entries |-> Effect(e)], entries)

Entry(key, type, amount, ref) == [key |-> key, type |-> type, amount |-> amount, ref |-> ref]

OfKey(entries, key) == {e \in entries : e.key = key}

\* (mutant) The balance is trusted to the check before the transaction.
CanPostUnchecked(u, entry) == OfKey(ledger[u], entry.key) # {} => entry \in ledger[u]

\* createEntryAtomically, under the advisory lock of the user: a key that exists
\* is answered if the contents are the same, a debit needs the balance.
CanPost(u, entry) ==
    IF OfKey(ledger[u], entry.key) # {} THEN entry \in ledger[u]
    ELSE BalanceOf(ledger[u] \cup {entry}) >= 0

\* ensureLocalBalance.
InitialCredit(u) == Entry(<<"local-init", "">>, "credit", InitialBalance, u)

WithInitialBalance(u) ==
    IF ledger[u] = {} THEN {InitialCredit(u)} ELSE ledger[u]

-----------------------------------------------------------------------------
(* Orders                                                                  *)

PositionsOf(u) == [s \in Sides |-> position[<<u, s>>]]

TradesOf(u, key) == {t \in trades : t.user = u /\ t.key = key}

\* Only a commit needs the positions that were read.
GoTo(o, step) ==
    order' = [order EXCEPT ![o] = [step |-> step, read |-> IF step = "commit" THEN order[o].read ELSE None,
                                   trade |-> None, fee |-> 0]]

Answer(o, trade) ==
    order' = [order EXCEPT ![o] = [step |-> "answered", read |-> None, trade |-> trade, fee |-> 0]]

\* getTradingState: the positions the rest of the order computes with.
ReadState(o) ==
    /\ order[o].step = "new"
    /\ order' = [order EXCEPT ![o].step = "read", ![o].read = PositionsOf(Owner[o])]
    /\ UNCHANGED <<ledger, trades, position, settlement, settler>>

\* findTradeByIdempotencyKey, whatever the first request had asked for.
AnswerPrevious(o) == \E t \in TradesOf(Owner[o], Key[o]) : Answer(o, t)

\* createTradingQuote and the checks on it: it reads positions and balance anew.
Quote(o) ==
    LET u == Owner[o]
        entries == IF o \in Real THEN ledger[u] ELSE WithInitialBalance(u)
        enough == IF o \in Buys THEN Amount[o] <= BalanceOf(entries)
                  ELSE Shares[o] <= position[<<u, Side[o]>>].shares
    IN  /\ order[o].step = "read"
        /\ IF TradesOf(u, Key[o]) # {} THEN AnswerPrevious(o) /\ UNCHANGED ledger
           ELSE /\ ledger' = [ledger EXCEPT ![u] = entries]
                /\ GoTo(o, IF ~enough THEN "refused" ELSE IF o \in Real THEN "venue" ELSE "commit")
        /\ UNCHANGED <<trades, position, settlement, settler>>

\* The adapter answers with a filled order, or with anything else; after a fill
\* the positions are read again.
Execute(o, filled, fee) ==
    /\ order[o].step = "venue"
    /\ IF filled
       THEN order' = [order EXCEPT ![o].step = "commit", ![o].read = PositionsOf(Owner[o]), ![o].fee = fee]
       ELSE GoTo(o, "refused")
    /\ UNCHANGED <<ledger, trades, position, settlement, settler>>

\* updateExistingPosition: a sale takes its share of the cost.
Traded(o, row) ==
    IF o \in Buys THEN [shares |-> row.shares + Shares[o], cost |-> row.cost + Amount[o]]
    ELSE IF row.shares <= Shares[o] THEN NoPosition
    ELSE [shares |-> row.shares - Shares[o],
          cost |-> row.cost - (row.cost * Shares[o]) \div row.shares]

OrderKey(o) == <<"order", Key[o]>>

TradeEntry(o) ==
    IF o \in Buys THEN Entry(OrderKey(o), "trade_debit", Amount[o] + order[o].fee, o)
    ELSE Entry(OrderKey(o), "trade_credit", Amount[o], o)

\* commitTrade: the entry's reference is the new trade's id, so another order's key
\* is refused by the ledger; both sides are written from the positions read before.
CommitTrade(o) ==
    LET u == Owner[o]
        trade == [id |-> o, user |-> u, key |-> Key[o], amount |-> TradeEntry(o).amount]
    IN  /\ order[o].step = "commit"
        /\ IF ~CanPost(u, TradeEntry(o))
           THEN GoTo(o, "refused") /\ UNCHANGED <<ledger, trades, position>>
           ELSE /\ ledger' = [ledger EXCEPT ![u] = @ \cup {TradeEntry(o)}]
                /\ trades' = trades \cup {trade}
                /\ position' = [p \in DOMAIN position |->
                                   IF p[1] = u
                                   THEN [order[o].read EXCEPT ![Side[o]] = Traded(o, @)][p[2]]
                                   ELSE position[p]]
                /\ Answer(o, trade)
        /\ UNCHANGED <<settlement, settler>>

ResetKey == <<"local-reset", "">>

\* commitPortfolioReset: one entry to the initial balance (here once per user: its
\* key is the time), no trades and no positions.
Reset(u) ==
    LET delta == InitialBalance - BalanceOf(ledger[u])
        entry == Entry(ResetKey, IF delta > 0 THEN "credit" ELSE "debit",
                       IF delta > 0 THEN delta ELSE 0 - delta, u)
    IN  /\ OfKey(ledger[u], ResetKey) = {}
        /\ ledger' = [ledger EXCEPT ![u] = IF delta = 0 THEN @ ELSE @ \cup {entry}]
        /\ trades' = {t \in trades : t.user # u}
        /\ position' = [p \in DOMAIN position |-> IF p[1] = u THEN NoPosition ELSE position[p]]
        /\ UNCHANGED <<order, settlement, settler>>

-----------------------------------------------------------------------------
(* Settlement                                                              *)

\* groupPositionStakes: what each user and side has at stake.
Stakes(read) == {p \in DOMAIN read : read[p].cost > 0}

RoundedPercent(amount) == (amount * FeePercent + 50) \div 100

\* (mutant) What flooring leaves over is nobody's.
FlooredShares(weights, total) ==
    LET all == SumFunction(weights) IN
    [p \in DOMAIN weights |-> (weights[p] * total) \div all]

\* allocateRoundedAmounts: shares rounded down, the rest to the largest.
AllocateRoundedAmounts(weights, total) ==
    LET all == SumFunction(weights)
        floors == [p \in DOMAIN weights |-> (weights[p] * total) \div all]
        largest == CHOOSE p \in DOMAIN weights : \A q \in DOMAIN weights : weights[q] <= weights[p]
    IN  [floors EXCEPT ![largest] = @ + total - SumFunction(floors)]

\* settleMarket: a refund if nobody won, else the pool less the fee to the winners.
PlanFor(read, winner) ==
    LET stakes == Restrict([p \in DOMAIN read |-> read[p].cost], Stakes(read))
        total == SumFunction(stakes)
        winners == {p \in DOMAIN stakes : p[2] = winner}
        fee == IF winners = {} THEN 0 ELSE RoundedPercent(total)
    IN  [total |-> total, fee |-> fee,
         payouts |-> IF winners = {} THEN stakes
                     ELSE AllocateRoundedAmounts(Restrict(stakes, winners), total - fee)]

\* The settlement's row is not there yet and some position is.
PlanSettlement(a) ==
    /\ settler[a].step = "new"
    /\ IF settlement = None /\ \E p \in DOMAIN position : position[p].shares > 0
       THEN settler' = [settler EXCEPT ![a] = [step |-> "commit", read |-> position]]
       ELSE settler' = [settler EXCEPT ![a] = [step |-> "refused", read |-> None]]
    /\ UNCHANGED <<ledger, trades, position, order, settlement>>

Payout(plan, p) ==
    Entry(<<"settlement", p[2]>>, "credit", plan.payouts[p], "settlement")

\* commitSettlement: the row is unique per market; every payout is credited and
\* every position deleted in the same transaction.
CommitSettlement(a) ==
    LET plan == PlanFor(settler[a].read, Outcome[a])
        paid == {p \in DOMAIN plan.payouts : plan.payouts[p] > 0}
    IN  /\ settler[a].step = "commit"
        /\ IF settlement # None
           THEN /\ settler' = [settler EXCEPT ![a] = [step |-> "refused", read |-> None]]
                /\ UNCHANGED <<ledger, position, settlement>>
           ELSE /\ settlement' = plan
                /\ ledger' = [u \in Users |->
                                 ledger[u] \cup {Payout(plan, p) : p \in {q \in paid : q[1] = u}}]
                /\ position' = [p \in DOMAIN position |-> NoPosition]
                /\ settler' = [settler EXCEPT ![a] = [step |-> "settled", read |-> None]]
        /\ UNCHANGED <<trades, order>>

-----------------------------------------------------------------------------

Place(o) ==
    \/ ReadState(o) \/ Quote(o) \/ CommitTrade(o)
    \/ \E filled \in BOOLEAN, fee \in {0, VenueFee} : Execute(o, filled, fee)

Settle(a) == PlanSettlement(a) \/ CommitSettlement(a)

Next ==
    \/ \E o \in Orders : Place(o)
    \/ \E u \in Users : Reset(u)
    \/ \E a \in Settlers : Settle(a)

Spec == Init /\ [][Next]_vars

-----------------------------------------------------------------------------
(* Properties                                                              *)

\* Orders of one user overlap and repeat each other's keys: the balance never
\* goes below zero, a key is one entry, every trade is an entry of its amount, and
\* an order that was answered has the trade of its key (its own or an earlier one).
LegacyTradesPaid ==
    /\ \A u \in Users :
         /\ BalanceOf(ledger[u]) >= 0
         /\ \A e, f \in ledger[u] : e.key = f.key => e = f
    /\ \A t \in trades : \E e \in OfKey(ledger[t.user], <<"order", t.key>>) : e.ref = t.id /\ e.amount = t.amount
    /\ \A o \in Orders : order[o].step = "answered" =>
         \E e \in OfKey(ledger[Owner[o]], OrderKey(o)) : e.ref = order[o].trade.id

\* The market is settled once, however many calls planned it: what is credited and
\* the fee are together exactly the pool, and nothing is credited for it before or after.
LegacyPoolPaidOut ==
    LET credited == UNION {{<<u, e>> : e \in {f \in ledger[u] : f.ref = "settlement"}} : u \in Users} IN
    IF settlement = None THEN credited = {}
    ELSE SumFunctionOnSet([c \in credited |-> c[2].amount], credited) + settlement.fee
           = settlement.total
=============================================================================
