-------------------------- MODULE CoinTradingProofs --------------------------
(***************************************************************************)
(* Coin trading for any number of users, calls, requests, answers of the   *)
(* venue and other movements on the balances: the venue is asked once per  *)
(* key, what a call answers is true, orders, trades, positions and ledger  *)
(* agree, no order pays from another's reserve, and the whole keeps the    *)
(* promise of TradeBook.                                                   *)
(***************************************************************************)
EXTENDS CoinTrading, MoneyProofs

AccountsSound == \A u \in Users : Sound(account[u])

\* The types of what the calls write beside the accounts.
RowTypes ==
    /\ order \in [Calls -> [status : {"none"} \cup Active \cup Terminal,
                            filled : Nat, fee : Nat, released : Nat]]
    /\ trade \in [Calls -> [shares : Nat, amount : Nat, fee : Nat, basis : Nat]]
    /\ position \in [Users -> [Sides -> [shares : Nat, cost : Nat]]]
    /\ pc \in [Calls -> Answers \cup Stages]
    /\ answer \in [Calls -> Outcomes \cup {None}]
    /\ seen \in [Calls -> [shares : Nat, cost : Nat]]

TTypes == account \in [Users -> Accounts(Movements)] /\ settled \in BOOLEAN /\ RowTypes

\* The movements an order has made when it has come as far as its row says.
FillMoves(c, f) == {DebitMove(c, f), FeeMove(c, f), CreditMove(c, f), ReleaseMove(c, f)} \ {None}

OwnMoves(c) ==
    IF order[c].status = "none" THEN {}
    ELSE ({ReserveMove(c)} \ {None})
         \cup (IF order[c].status \in Released THEN {ReleaseAll(c, order[c].status)} \ {None} ELSE {})
         \cup (IF order[c].status \in Filled THEN FillMoves(c, answer[c]) ELSE {})

\* The ledger has those movements of the order, on its user's account, and no other.
Accounted(c) ==
    \A u \in Users : \A m : m.key[1] = c =>
        (InBook(account[u], m) <=> Owns(c, u) /\ m \in OwnMoves(c))

\* What the row and the trade of an order hold, by its status.
OrderInv(c) ==
    /\ order[c].status = "none" => order[c] = NoOrder
    /\ order[c].status \in {"none"} \cup Active =>
          order[c].filled = 0 /\ order[c].fee = 0 /\ order[c].released = 0
    /\ order[c].status \in Released =>
          order[c].filled = 0 /\ order[c].fee = 0 /\ order[c].released = ReserveOf(c)
    /\ order[c].status \in Filled =>
          /\ answer[c] \in Outcomes /\ Acceptable(c, answer[c])
          /\ order[c] = [status |-> answer[c].status, filled |-> answer[c].amount,
                         fee |-> answer[c].fee, released |-> Unused(c, answer[c])]
          /\ trade[c].shares = answer[c].shares /\ trade[c].amount = answer[c].amount
          /\ trade[c].fee = answer[c].fee
    /\ order[c].status \notin Filled => trade[c] = NoTrade

\* How far a call can be with its order.
CallInv(c) ==
    /\ answer[c] # None => order[c].status # "none"
    /\ pc[c] \in {"lookup", "quote", "replay", "reserve"} => order[c].status = "none"
    /\ pc[c] \in {"execute", "build", "finalize", "failed", "cancelled"} =>
          order[c].status = "execution_pending"
    /\ pc[c] = "manual_review" => order[c].status # "none"
    /\ pc[c] \in {"build", "finalize"} => answer[c] \in Outcomes /\ answer[c].status \in Filled
    /\ pc[c] = "finalize" => Acceptable(c, answer[c])

OneOrderForAKey ==
    \A c, d \in Calls :
        /\ order[c].status # "none" /\ order[d].status # "none"
        /\ Request[c].user = Request[d].user /\ Request[c].key = Request[d].key
        => c = d

SettlementLast ==
    ~settled => \A u \in Users : \A m : InBook(account[u], m) => m.key[1] # "settlement"

Shaped == \A u \in Users : \A m : InBook(account[u], m) => ShapeOK(m)

TradingInv ==
    /\ TTypes /\ AccountsSound /\ Shaped /\ SettlementLast /\ OneOrderForAKey
    /\ \A c \in Calls : Accounted(c) /\ OrderInv(c) /\ CallInv(c)

-----------------------------------------------------------------------------
(* Requests and movements                                                  *)

LEMMA RequestTyped ==
    ASSUME NEW c \in Calls
    PROVE  /\ Request[c].user \in Users /\ Request[c].side \in Sides
           /\ Request[c].action \in {"buy", "sell"}
           /\ Request[c].stake \in Nat \ {0} /\ Request[c].shares \in Nat \ {0}
           /\ ReserveOf(c) \in Nat
           /\ Buys(c) => ReserveOf(c) = Request[c].stake + TradingFee(Request[c].stake)
           /\ Buys(c) => ReserveOf(c) > 0
           /\ ~Buys(c) => ReserveOf(c) = 0
           /\ Buys(c) \in BOOLEAN
<1>1. /\ Request[c].user \in Users /\ Request[c].side \in Sides
      /\ Request[c].action \in {"buy", "sell"}
      /\ Request[c].stake \in Nat \ {0} /\ Request[c].shares \in Nat \ {0}
  BY TradingAssumption
<1>2. TradingFee(Request[c].stake) \in Nat
  BY <1>1, FeeWithinProceeds
<1> QED
  BY <1>1, <1>2 DEF ReserveOf, Buys

LEMMA MovementsTyped ==
    /\ None \notin Movements
    /\ \A m \in Movements : m.dA \in Int /\ m.dR \in Int
    /\ \A c \in Calls : \A op \in Operations : \A dA, dR \in Int : \A step \in Steps :
          Movement(c, op, dA, dR, step) \in Movements
<1>1. \A m \in Movements : m.dA \in Int /\ m.dR \in Int
  BY TradingAssumption DEF Movements
<1>2. ASSUME NEW c \in Calls, NEW op \in Operations, NEW dA \in Int, NEW dR \in Int,
             NEW step \in Steps
      PROVE  Movement(c, op, dA, dR, step) \in Movements
  <2>1. <<c, step>> \in Calls \X Steps
    OBVIOUS
  <2> QED
    BY <2>1 DEF Movement, Movements
<1> QED
  BY <1>1, <1>2, NullAssumption

-----------------------------------------------------------------------------
(* Postings                                                                *)

LEMMA SumsTyped ==
    ASSUME NEW acc \in Accounts(Movements)
    PROVE  Cash(acc) \in Int /\ ReservedElsewhere(acc) \in Int
<1>1. /\ DOMAIN acc.entries = 1 .. Len(acc.entries) /\ Len(acc.entries) \in Nat
      /\ \A i \in DOMAIN acc.entries : acc.entries[i].move \in Movements
  BY AccountTyped
<1>2. IsFiniteSet(DOMAIN acc.entries)
  BY <1>1, FS_Interval
<1> DEFINE S == DOMAIN acc.entries
           f == [i \in S |-> IF Trading(acc.entries[i].move) THEN acc.entries[i].move.dA ELSE 0]
           h == [i \in S |-> IF Trading(acc.entries[i].move) THEN 0 ELSE acc.entries[i].move.dR]
<1>3. \A i \in S : f[i] \in Int /\ h[i] \in Int
  BY <1>1, MovementsTyped
<1>4. SumFunctionOnSet(f, S) \in Int /\ SumFunctionOnSet(h, S) \in Int
  <2> HIDE DEF f, h, S
  <2> QED
    BY <1>2, <1>3, SumType DEF S
<1> QED
  BY <1>4 DEF Cash, ReservedElsewhere

\* An entry adds to the sums what it moves.
LEMMA RecordSums ==
    ASSUME NEW acc \in Accounts(Movements), NEW m \in Movements
    PROVE  /\ Cash(Record(acc, m)) = Cash(acc) + (IF Trading(m) THEN m.dA ELSE 0)
           /\ ReservedElsewhere(Record(acc, m))
                 = ReservedElsewhere(acc) + (IF Trading(m) THEN 0 ELSE m.dR)
<1> DEFINE n == Len(acc.entries)
           new == Record(acc, m)
           E == [move : Movements, availableAfter : Int, reservedAfter : Int]
           e == [move |-> m, availableAfter |-> acc.available + m.dA,
                 reservedAfter |-> acc.reserved + m.dR]
<1>1. /\ acc.entries \in Seq(E) /\ n \in Nat /\ DOMAIN acc.entries = 1 .. n /\ e \in E
      /\ \A i \in 1 .. n : acc.entries[i].move \in Movements
  <2>1. n \in Nat /\ DOMAIN acc.entries = 1 .. n /\ \A i \in 1 .. n : acc.entries[i].move \in Movements
    BY AccountTyped
  <2>2. acc.entries \in Seq(E) /\ e \in E
    BY MovementsTyped DEF Accounts
  <2> QED
    BY <2>1, <2>2
<1>2. new.entries = Append(acc.entries, e)
  BY DEF Record
<1>3. /\ DOMAIN new.entries = 1 .. n + 1
      /\ \A i \in 1 .. n : new.entries[i] = acc.entries[i]
      /\ new.entries[n + 1].move = m
  BY <1>1, <1>2
<1> HIDE DEF new, n
<1> DEFINE f == [i \in 1 .. n |-> IF Trading(acc.entries[i].move)
                                 THEN acc.entries[i].move.dA ELSE 0]
           g == [i \in 1 .. n + 1 |-> IF Trading(new.entries[i].move)
                                     THEN new.entries[i].move.dA ELSE 0]
           p == [i \in 1 .. n |-> IF Trading(acc.entries[i].move)
                                 THEN 0 ELSE acc.entries[i].move.dR]
           q == [i \in 1 .. n + 1 |-> IF Trading(new.entries[i].move)
                                     THEN 0 ELSE new.entries[i].move.dR]
<1>4. /\ \A i \in 1 .. n : f[i] \in Int /\ g[i] = f[i] /\ p[i] \in Int /\ q[i] = p[i]
      /\ g[n + 1] = (IF Trading(m) THEN m.dA ELSE 0)
      /\ q[n + 1] = (IF Trading(m) THEN 0 ELSE m.dR)
  <2>1. n + 1 \in 1 .. n + 1 /\ \A i \in 1 .. n : i \in 1 .. n + 1
    BY <1>1
  <2>2. \A i \in 1 .. n : acc.entries[i].move.dA \in Int /\ acc.entries[i].move.dR \in Int
    BY <1>1, MovementsTyped
  <2>3. /\ \A i \in 1 .. n : g[i] = f[i] /\ q[i] = p[i]
        /\ g[n + 1] = (IF Trading(m) THEN m.dA ELSE 0)
        /\ q[n + 1] = (IF Trading(m) THEN 0 ELSE m.dR)
    BY <1>3, <2>1
  <2> QED
    BY <2>2, <2>3
<1>5. g[n + 1] \in Int /\ q[n + 1] \in Int
  BY <1>4, MovementsTyped
<1>6. /\ Cash(acc) = SumFunctionOnSet(f, 1 .. n) /\ Cash(new) = SumFunctionOnSet(g, 1 .. n + 1)
      /\ ReservedElsewhere(acc) = SumFunctionOnSet(p, 1 .. n)
      /\ ReservedElsewhere(new) = SumFunctionOnSet(q, 1 .. n + 1)
  BY <1>1, <1>3 DEF Cash, ReservedElsewhere
<1> HIDE DEF f, g, p, q
<1>7. /\ SumFunctionOnSet(g, 1 .. n + 1) = SumFunctionOnSet(f, 1 .. n) + g[n + 1]
      /\ SumFunctionOnSet(q, 1 .. n + 1) = SumFunctionOnSet(p, 1 .. n) + q[n + 1]
  BY <1>1, <1>4, <1>5, SumAppended
<1> QED
  BY <1>4, <1>6, <1>7 DEF new

\* An account after the movements in M of orders or the settlement, which in all
\* added a to its available Coins and r to its reserved ones.
Entered(acc, new, M, a, r) ==
    /\ new \in Accounts(Movements) /\ Sound(new)
    /\ \A m : InBook(new, m) <=> InBook(acc, m) \/ m \in M
    /\ \A m \in M : ShapeOK(m)
    /\ new.reserved = acc.reserved + r
    /\ Cash(new) = Cash(acc) + a
    /\ ReservedElsewhere(new) = ReservedElsewhere(acc)

LEMMA NothingEntered ==
    ASSUME NEW acc \in Accounts(Movements), Sound(acc)
    PROVE  Entered(acc, acc, {}, 0, 0)
<1>1. acc.reserved \in Int
  BY DEF Accounts
<1> QED
  BY <1>1, SumsTyped DEF Entered

LEMMA PayEntered ==
    ASSUME NEW acc \in Accounts(Movements), NEW mid, NEW M, NEW a \in Int, NEW r \in Int,
           Entered(acc, mid, M, a, r),
           NEW m \in Movements \cup {None},
           m # None => Trading(m) /\ ~HasKey(mid, m.key),
           CanPay(mid, m)
    PROVE  Entered(acc, Pay(mid, m), M \cup ({m} \ {None}),
                   a + (IF m = None THEN 0 ELSE m.dA), r + (IF m = None THEN 0 ELSE m.dR))
<1>1. CASE m = None
  <2>1. Pay(mid, m) = mid /\ M \cup ({m} \ {None}) = M
    BY <1>1 DEF Pay
  <2> QED
    BY <1>1, <2>1
<1>2. CASE m # None
  <2>1. /\ m \in Movements /\ m.dA \in Int /\ m.dR \in Int /\ Trading(m)
        /\ mid \in Accounts(Movements) /\ Sound(mid) /\ CanPost(mid, m) /\ ~HasKey(mid, m.key)
    BY <1>2, MovementsTyped DEF CanPay, Entered
  <2>2. Pay(mid, m) = Record(mid, m) /\ Pay(mid, m) = Post(mid, m) /\ ShapeOK(m)
    BY <1>2, <2>1 DEF Pay, Post, CanPost
  <2>3. Post(mid, m) \in Accounts(Movements) /\ Sound(Post(mid, m))
    BY <2>1, PostSound
  <2>4. \A other : InBook(Post(mid, m), other) <=> InBook(mid, other) \/ other = m
    BY <2>1, PostBooks
  <2>5. /\ Cash(Record(mid, m)) = Cash(mid) + m.dA
        /\ ReservedElsewhere(Record(mid, m)) = ReservedElsewhere(mid)
    <3>1. ReservedElsewhere(mid) \in Int
      BY <2>1, SumsTyped
    <3> QED
      BY <2>1, <3>1, RecordSums
  <2>6. Record(mid, m).reserved = mid.reserved + m.dR
    BY DEF Record
  <2>7. /\ mid.reserved \in Int /\ acc.reserved \in Int
        /\ Cash(acc) \in Int /\ Cash(mid) \in Int
    BY <2>1, SumsTyped DEF Accounts
  <2> DEFINE new == Pay(mid, m)
  <2>8. /\ new.reserved = acc.reserved + (r + m.dR)
        /\ Cash(new) = Cash(acc) + (a + m.dA)
        /\ ReservedElsewhere(new) = ReservedElsewhere(acc)
    BY <2>1, <2>2, <2>5, <2>6, <2>7 DEF Entered
  <2>9. /\ new \in Accounts(Movements) /\ Sound(new)
        /\ \A other : InBook(new, other) <=> InBook(acc, other) \/ other \in M \cup ({m} \ {None})
        /\ \A other \in M \cup ({m} \ {None}) : ShapeOK(other)
    BY <1>2, <2>2, <2>3, <2>4 DEF Entered
  <2> HIDE DEF new
  <2> QED
    BY <1>2, <2>8, <2>9 DEF Entered, new
<1> QED
  BY <1>1, <1>2

-----------------------------------------------------------------------------
(* The movements of an order                                               *)

LEMMA MoveIfChosen ==
    ASSUME NEW condition \in BOOLEAN, NEW m \in Movements
    PROVE  /\ MoveIf(condition, m) \in Movements \cup {None}
           /\ MoveIf(condition, m) # None <=> condition
           /\ condition => MoveIf(condition, m) = m
  BY NullAssumption DEF MoveIf

LEMMA MovementShape ==
    ASSUME NEW c \in Calls, NEW op \in Operations, NEW dA \in Int, NEW dR \in Int,
           NEW step \in Steps
    PROVE  LET m == Movement(c, op, dA, dR, step)
           IN  /\ m \in Movements /\ Trading(m) /\ m.key[1] = c /\ m.key = <<c, step>>
               /\ m.op = op /\ m.dA = dA /\ m.dR = dR /\ m.ref = "trade_execution_order"
<1>1. Movement(c, op, dA, dR, step) \in Movements
  BY MovementsTyped
<1> QED
  BY <1>1 DEF Movement, Trading

\* m is None unless the condition holds, and then this movement of c.
IsMove(m, condition, c, op, dA, dR, step) ==
    /\ m \in Movements \cup {None}
    /\ m # None <=> condition
    /\ m # None => /\ Trading(m) /\ m.key[1] = c /\ m.key = <<c, step>>
                   /\ m.op = op /\ m.dA = dA /\ m.dR = dR /\ m.ref = "trade_execution_order"

LEMMA IfMovement ==
    ASSUME NEW condition \in BOOLEAN, NEW c \in Calls, NEW op \in Operations,
           NEW dA \in Int, NEW dR \in Int, NEW step \in Steps
    PROVE  IsMove(MoveIf(condition, Movement(c, op, dA, dR, step)), condition,
                  c, op, dA, dR, step)
<1> DEFINE m == Movement(c, op, dA, dR, step)
<1>1. /\ m \in Movements /\ Trading(m) /\ m.key[1] = c /\ m.key = <<c, step>>
      /\ m.op = op /\ m.dA = dA /\ m.dR = dR /\ m.ref = "trade_execution_order"
  BY MovementShape
<1> HIDE DEF m
<1>2. /\ MoveIf(condition, m) \in Movements \cup {None}
      /\ MoveIf(condition, m) # None <=> condition
      /\ condition => MoveIf(condition, m) = m
  BY <1>1, MoveIfChosen
<1>3. IsMove(MoveIf(condition, m), condition, c, op, dA, dR, step)
  BY <1>1, <1>2 DEF IsMove
<1> QED
  BY <1>3 DEF m

LEMMA ReserveMoveIs ==
    ASSUME NEW c \in Calls
    PROVE  /\ IsMove(ReserveMove(c), Buys(c), c, "trade_reserve",
                     -ReserveOf(c), ReserveOf(c), "reserve")
           /\ \A status \in Released :
                 IsMove(ReleaseAll(c, status), Buys(c), c, "trade_release",
                        ReserveOf(c), -ReserveOf(c), status)
<1>1. ReserveOf(c) \in Int /\ -ReserveOf(c) \in Int /\ Buys(c) \in BOOLEAN
  BY RequestTyped
<1>2. /\ "trade_reserve" \in Operations /\ "trade_release" \in Operations
      /\ "reserve" \in Steps /\ \A status \in Released : status \in Steps
  BY DEF Operations, Reserves, Releases, Steps, Released
<1>3. IsMove(ReserveMove(c), Buys(c), c, "trade_reserve", -ReserveOf(c), ReserveOf(c), "reserve")
  BY <1>1, <1>2, IfMovement DEF ReserveMove
<1>4. ASSUME NEW status \in Released
      PROVE  IsMove(ReleaseAll(c, status), Buys(c), c, "trade_release",
                    ReserveOf(c), -ReserveOf(c), status)
  BY <1>1, <1>2, <1>4, IfMovement DEF ReleaseAll
<1> QED
  BY <1>3, <1>4

\* What an acceptable fill of the order c is.
LEMMA FillTyped ==
    ASSUME NEW c \in Calls, NEW f \in Outcomes, Acceptable(c, f)
    PROVE  /\ f.shares \in Nat \ {0} /\ f.amount \in Nat \ {0} /\ f.fee \in Nat
           /\ f.fee = TradingFee(f.amount)
           /\ Unused(c, f) \in Nat
           /\ Buys(c) => Unused(c, f) = ReserveOf(c) - f.amount - f.fee
           /\ ~Buys(c) => Unused(c, f) = 0 /\ f.fee <= f.amount
<1>1. f.shares \in Nat /\ f.amount \in Nat /\ f.fee \in Nat
  BY TradingAssumption
<1> QED
  BY <1>1, RequestTyped DEF Acceptable, Unused

LEMMA FillMovesAre ==
    ASSUME NEW c \in Calls, NEW f \in Outcomes, Acceptable(c, f)
    PROVE  /\ IsMove(DebitMove(c, f), Buys(c), c, "trade_debit", 0, -f.amount, "debit")
           /\ IsMove(FeeMove(c, f), f.fee > 0, c, "fee_debit",
                     IF Buys(c) THEN 0 ELSE -f.fee, IF Buys(c) THEN -f.fee ELSE 0, "fee")
           /\ IsMove(CreditMove(c, f), ~Buys(c), c, "trade_settlement_credit",
                     f.amount, 0, "credit")
           /\ IsMove(ReleaseMove(c, f), Unused(c, f) > 0, c, "trade_release",
                     Unused(c, f), -Unused(c, f), "unused")
<1>1. /\ f.amount \in Int /\ -f.amount \in Int /\ f.fee \in Nat /\ -f.fee \in Int
      /\ Unused(c, f) \in Int /\ -Unused(c, f) \in Int /\ Buys(c) \in BOOLEAN
      /\ (f.fee > 0) \in BOOLEAN /\ (Unused(c, f) > 0) \in BOOLEAN /\ (~Buys(c)) \in BOOLEAN
      /\ 0 \in Int
  BY FillTyped, RequestTyped
<1>2. /\ "trade_debit" \in Operations /\ "fee_debit" \in Operations
      /\ "trade_release" \in Operations /\ "trade_settlement_credit" \in Operations
      /\ "debit" \in Steps /\ "fee" \in Steps /\ "credit" \in Steps /\ "unused" \in Steps
  BY DEF Operations, Credits, FinalDebits, Releases, Steps
<1>3. IsMove(DebitMove(c, f), Buys(c), c, "trade_debit", 0, -f.amount, "debit")
  BY <1>1, <1>2, IfMovement DEF DebitMove
<1>4. IsMove(CreditMove(c, f), ~Buys(c), c, "trade_settlement_credit", f.amount, 0, "credit")
  BY <1>1, <1>2, IfMovement, Zenon DEF CreditMove
<1>5. IsMove(ReleaseMove(c, f), Unused(c, f) > 0, c, "trade_release",
             Unused(c, f), -Unused(c, f), "unused")
  BY <1>1, <1>2, IfMovement, Zenon DEF ReleaseMove
<1>6. IsMove(FeeMove(c, f), f.fee > 0, c, "fee_debit",
             IF Buys(c) THEN 0 ELSE -f.fee, IF Buys(c) THEN -f.fee ELSE 0, "fee")
  <2>1. CASE Buys(c)
    <3>1. FeeMove(c, f) = MoveIf(f.fee > 0, Movement(c, "fee_debit", 0, -f.fee, "fee"))
      BY <2>1 DEF FeeMove
    <3>2. IsMove(MoveIf(f.fee > 0, Movement(c, "fee_debit", 0, -f.fee, "fee")),
                 f.fee > 0, c, "fee_debit", 0, -f.fee, "fee")
      BY <1>1, <1>2, IfMovement, ZenonT(60)
    <3>3. IsMove(FeeMove(c, f), f.fee > 0, c, "fee_debit", 0, -f.fee, "fee")
      BY <3>1, <3>2
    <3> QED
      BY <2>1, <3>3
  <2>2. CASE ~Buys(c)
    <3>1. FeeMove(c, f) = MoveIf(f.fee > 0, Movement(c, "fee_debit", -f.fee, 0, "fee"))
      BY <2>2 DEF FeeMove
    <3>2. IsMove(MoveIf(f.fee > 0, Movement(c, "fee_debit", -f.fee, 0, "fee")),
                 f.fee > 0, c, "fee_debit", -f.fee, 0, "fee")
      BY <1>1, <1>2, IfMovement, ZenonT(60)
    <3>3. IsMove(FeeMove(c, f), f.fee > 0, c, "fee_debit", -f.fee, 0, "fee")
      BY <3>1, <3>2
    <3> QED
      BY <2>2, <3>3
  <2> QED
    BY <2>1, <2>2
<1> QED
  BY <1>3, <1>4, <1>5, <1>6

\* A key that no movement of M has, and that was free, is still free.
LEMMA StillFree ==
    ASSUME NEW acc, NEW mid, NEW M, NEW a, NEW r, Entered(acc, mid, M, a, r),
           NEW key, ~HasKey(acc, key), \A m \in M : m.key # key
    PROVE  ~HasKey(mid, key)
<1>1. \A m : InBook(mid, m) <=> InBook(acc, m) \/ m \in M
  BY DEF Entered
<1> QED
  BY <1>1, KeyInBook

\* What the four postings of a finalisation add to the account.
FillCash(c, f) == IF Buys(c) THEN Unused(c, f) ELSE f.amount - f.fee

LEMMA BookedEntered ==
    ASSUME NEW acc \in Accounts(Movements), Sound(acc), NEW c \in Calls, NEW f \in Outcomes,
           Acceptable(c, f), CanBook(acc, c, f),
           \A step \in {"debit", "fee", "credit", "unused"} : ~HasKey(acc, <<c, step>>)
    PROVE  Entered(acc, Booked(acc, c, f), FillMoves(c, f), FillCash(c, f), -ReserveOf(c))
<1>1. PICK d, e, k, l : d = DebitMove(c, f) /\ e = FeeMove(c, f)
                        /\ k = CreditMove(c, f) /\ l = ReleaseMove(c, f)
  OBVIOUS
<1>2. PICK acc1, acc2, acc3, acc4 : /\ acc1 = Pay(acc, d) /\ acc2 = Pay(acc1, e)
                                    /\ acc3 = Pay(acc2, k) /\ acc4 = Pay(acc3, l)
  OBVIOUS
<1>3. /\ CanPay(acc, d) /\ CanPay(acc1, e) /\ CanPay(acc2, k) /\ CanPay(acc3, l)
      /\ acc4 = Booked(acc, c, f)
  BY <1>1, <1>2 DEF CanBook, Booked, CanPay2, Pay2
<1>4. /\ f.amount \in Nat \ {0} /\ f.fee \in Nat /\ Unused(c, f) \in Nat
      /\ Buys(c) => Unused(c, f) = ReserveOf(c) - f.amount - f.fee
      /\ ~Buys(c) => Unused(c, f) = 0
      /\ ReserveOf(c) \in Nat /\ (~Buys(c) => ReserveOf(c) = 0)
  BY FillTyped, RequestTyped
<1>5. /\ IsMove(d, Buys(c), c, "trade_debit", 0, -f.amount, "debit")
      /\ IsMove(e, f.fee > 0, c, "fee_debit", IF Buys(c) THEN 0 ELSE -f.fee,
                IF Buys(c) THEN -f.fee ELSE 0, "fee")
      /\ IsMove(k, ~Buys(c), c, "trade_settlement_credit", f.amount, 0, "credit")
      /\ IsMove(l, Unused(c, f) > 0, c, "trade_release", Unused(c, f), -Unused(c, f), "unused")
  BY <1>1, FillMovesAre
<1> DEFINE A(m) == IF m = None THEN 0 ELSE m.dA
           R(m) == IF m = None THEN 0 ELSE m.dR
<1>6. /\ A(d) = 0 /\ R(d) = (IF Buys(c) THEN -f.amount ELSE 0)
      /\ A(e) = (IF Buys(c) THEN 0 ELSE -f.fee) /\ R(e) = (IF Buys(c) THEN -f.fee ELSE 0)
      /\ A(k) = (IF Buys(c) THEN 0 ELSE f.amount) /\ R(k) = 0
      /\ A(l) = Unused(c, f) /\ R(l) = -Unused(c, f)
  <2>1. A(d) = 0 /\ R(d) = (IF Buys(c) THEN -f.amount ELSE 0)
    BY <1>4, <1>5 DEF IsMove
  <2>2. A(e) = (IF Buys(c) THEN 0 ELSE -f.fee) /\ R(e) = (IF Buys(c) THEN -f.fee ELSE 0)
    BY <1>4, <1>5 DEF IsMove
  <2>3. A(k) = (IF Buys(c) THEN 0 ELSE f.amount) /\ R(k) = 0
    BY <1>4, <1>5 DEF IsMove
  <2>4. A(l) = Unused(c, f) /\ R(l) = -Unused(c, f)
    BY <1>4, <1>5 DEF IsMove
  <2> QED
    BY <2>1, <2>2, <2>3, <2>4
<1>7. /\ A(d) \in Int /\ R(d) \in Int /\ A(e) \in Int /\ R(e) \in Int
      /\ A(k) \in Int /\ R(k) \in Int /\ A(l) \in Int /\ R(l) \in Int
  BY <1>4, <1>6
<1>8. /\ d \in Movements \cup {None} /\ e \in Movements \cup {None}
      /\ k \in Movements \cup {None} /\ l \in Movements \cup {None}
      /\ d # None => Trading(d) /\ d.key = <<c, "debit">>
      /\ e # None => Trading(e) /\ e.key = <<c, "fee">>
      /\ k # None => Trading(k) /\ k.key = <<c, "credit">>
      /\ l # None => Trading(l) /\ l.key = <<c, "unused">>
  BY <1>5 DEF IsMove
<1> DEFINE M1 == {d} \ {None}
           M2 == M1 \cup ({e} \ {None})
           M3 == M2 \cup ({k} \ {None})
           M4 == M3 \cup ({l} \ {None})
<1>9. Entered(acc, acc1, M1, A(d), R(d))
  <2>1. Entered(acc, acc, {}, 0, 0)
    BY NothingEntered
  <2>2. d # None => ~HasKey(acc, d.key)
    BY <1>8
  <2>3. Entered(acc, acc1, {} \cup ({d} \ {None}), 0 + A(d), 0 + R(d))
    BY <1>2, <1>3, <1>8, <2>1, <2>2, PayEntered
  <2> HIDE DEF A, R
  <2>4. 0 + A(d) = A(d) /\ 0 + R(d) = R(d) /\ {} \cup ({d} \ {None}) = M1
    BY <1>7
  <2> QED
    BY <2>3, <2>4
<1>10. Entered(acc, acc2, M2, A(d) + A(e), R(d) + R(e))
  <2>1. e # None => ~HasKey(acc1, e.key)
    <3>1. ASSUME e # None PROVE ~HasKey(acc, e.key) /\ \A m \in M1 : m.key # e.key
      BY <1>8, <3>1
    <3> HIDE DEF A, R, M1
    <3> QED
      BY <1>9, <3>1, StillFree
  <2> HIDE DEF M1
  <2> QED
    BY <1>2, <1>3, <1>7, <1>8, <1>9, <2>1, PayEntered
<1>11. Entered(acc, acc3, M3, A(d) + A(e) + A(k), R(d) + R(e) + R(k))
  <2>1. k # None => ~HasKey(acc2, k.key)
    <3>1. ASSUME k # None PROVE ~HasKey(acc, k.key) /\ \A m \in M2 : m.key # k.key
      BY <1>8, <3>1
    <3> HIDE DEF A, R, M2
    <3> QED
      BY <1>10, <3>1, StillFree
  <2>2. A(d) + A(e) \in Int /\ R(d) + R(e) \in Int
    BY <1>7
  <2> HIDE DEF M2
  <2> QED
    BY <1>2, <1>3, <1>8, <1>10, <2>1, <2>2, PayEntered
<1>12. Entered(acc, acc4, M4, A(d) + A(e) + A(k) + A(l), R(d) + R(e) + R(k) + R(l))
  <2>1. l # None => ~HasKey(acc3, l.key)
    <3>1. ASSUME l # None PROVE ~HasKey(acc, l.key) /\ \A m \in M3 : m.key # l.key
      BY <1>8, <3>1
    <3> HIDE DEF A, R, M3
    <3> QED
      BY <1>11, <3>1, StillFree
  <2>2. PICK a \in Int, r \in Int : a = A(d) + A(e) + A(k) /\ r = R(d) + R(e) + R(k)
    BY <1>7
  <2>3. Entered(acc, acc3, M3, a, r)
    BY <1>11, <2>2
  <2> HIDE DEF M3
  <2>4. /\ l \in Movements \cup {None} /\ CanPay(acc3, l) /\ acc4 = Pay(acc3, l)
        /\ l # None => Trading(l) /\ ~HasKey(acc3, l.key)
    BY <1>2, <1>3, <1>8, <2>1
  <2>5. Entered(acc, acc4, M4, a + A(l), r + R(l))
    BY <2>3, <2>4, PayEntered
  <2> QED
    BY <2>2, <2>5
<1> HIDE DEF A, R
<1>13. /\ A(d) + A(e) + A(k) + A(l) = FillCash(c, f)
       /\ R(d) + R(e) + R(k) + R(l) = -ReserveOf(c)
  BY <1>4, <1>6 DEF FillCash
<1>14. M4 = FillMoves(c, f)
  BY <1>1 DEF FillMoves
<1> HIDE DEF M4
<1> QED
  BY <1>3, <1>12, <1>13, <1>14

-----------------------------------------------------------------------------
(* Steps of a call                                                         *)

LEMMA TradingInit == Init => TradingInv
<1> SUFFICES ASSUME Init PROVE TradingInv
  OBVIOUS
<1>1. /\ EmptyAccount \in Accounts(Movements) /\ Sound(EmptyAccount)
      /\ \A m : ~InBook(EmptyAccount, m)
  BY EmptyAccountSound DEF InBook, EmptyAccount
<1>2. /\ \A u \in Users : account[u] = EmptyAccount
      /\ \A c \in Calls : /\ order[c] = NoOrder /\ trade[c] = NoTrade /\ pc[c] = "lookup"
                          /\ answer[c] = None
  BY DEF Init
<1>3. TTypes
  BY <1>1 DEF Init, TTypes, RowTypes, NoOrder, NoTrade, NoPosition, Answers, Stages, Sides
<1>4. AccountsSound /\ Shaped /\ SettlementLast
  BY <1>1, <1>2 DEF AccountsSound, Shaped, SettlementLast
<1>5. \A c \in Calls : Accounted(c) /\ OrderInv(c) /\ CallInv(c)
  BY <1>1, <1>2 DEF Accounted, OrderInv, CallInv, OwnMoves, NoOrder, Active, Released, Filled
<1>6. OneOrderForAKey
  BY <1>2 DEF OneOrderForAKey, NoOrder
<1> QED
  BY <1>3, <1>4, <1>5, <1>6 DEF TradingInv

\* What a step of the call c leaves alone, and what it makes of the account.
StepOf(c, new) ==
    /\ account' = [account EXCEPT ![Request[c].user] = new]
    /\ settled' = settled
    /\ \A d \in Calls : d # c => /\ order'[d] = order[d] /\ trade'[d] = trade[d]
                               /\ pc'[d] = pc[d] /\ answer'[d] = answer[d]

\* A step of one call, with the movements M that it books.
LEMMA OrderStep ==
    ASSUME TradingInv, NEW c \in Calls, NEW new, NEW M, NEW a, NEW r,
           Entered(account[Request[c].user], new, M, a, r), StepOf(c, new), RowTypes',
           \A m \in M : m.key[1] = c,
           OwnMoves(c)' = OwnMoves(c) \cup M,
           OrderInv(c)', CallInv(c)', OneOrderForAKey'
    PROVE  TradingInv'
<1> DEFINE owner == Request[c].user
<1>1. owner \in Users /\ \A u \in Users : account'[u] = IF u = owner THEN new ELSE account[u]
  BY RequestTyped DEF TradingInv, TTypes, StepOf
<1>2. TTypes'
  BY <1>1 DEF TradingInv, TTypes, Entered, StepOf
<1>3. /\ AccountsSound' /\ Shaped'
      /\ \A u \in Users : \A m : InBook(account'[u], m)
              <=> InBook(account[u], m) \/ (u = owner /\ m \in M)
  BY <1>1 DEF TradingInv, AccountsSound, Shaped, Entered
<1>4. SettlementLast'
  <2>1. c # "settlement"
    BY TradingAssumption
  <2> QED
    BY <1>3, <2>1 DEF TradingInv, SettlementLast, StepOf
<1>5. ASSUME NEW d \in Calls, d # c PROVE Accounted(d)' /\ OrderInv(d)' /\ CallInv(d)'
  <2>1. /\ order'[d] = order[d] /\ trade'[d] = trade[d]
        /\ pc'[d] = pc[d] /\ answer'[d] = answer[d]
    BY <1>5 DEF StepOf
  <2>2. OwnMoves(d)' = OwnMoves(d)
    BY <2>1 DEF OwnMoves
  <2>3. Accounted(d)'
    BY <1>3, <1>5, <2>2 DEF TradingInv, Accounted, Owns
  <2>4. OrderInv(d) /\ CallInv(d)
    BY DEF TradingInv
  <2>5. OrderInv(d)'
    BY <2>1, <2>4 DEF OrderInv
  <2>6. CallInv(d)'
    BY <2>1, <2>4 DEF CallInv
  <2> QED
    BY <2>3, <2>5, <2>6
<1>6. Accounted(c)'
  BY <1>3 DEF TradingInv, Accounted, Owns
<1> QED
  BY <1>2, <1>3, <1>4, <1>5, <1>6 DEF TradingInv

\* A step of one call that moves nothing: it goes on, takes an answer, or reads.
LEMMA CallStep ==
    ASSUME TradingInv, NEW c \in Calls,
           UNCHANGED <<account, order, trade, position, settled>>,
           NEW stage \in Answers \cup Stages, Goto(c, stage),
           NEW f \in Outcomes \cup {None}, answer' = [answer EXCEPT ![c] = f],
           seen' \in [Calls -> [shares : Nat, cost : Nat]],
           order[c].status \in Filled => f = answer[c],
           CallInv(c)'
    PROVE  TradingInv'
<1> DEFINE owner == Request[c].user
<1>1. PICK same : same = account[owner]
  OBVIOUS
<1>2. same \in Accounts(Movements) /\ Sound(same)
  BY <1>1, RequestTyped DEF TradingInv, TTypes, AccountsSound
<1>3. Entered(account[owner], same, {}, 0, 0)
  BY <1>1, <1>2, NothingEntered
<1>4. /\ \A d \in Calls : pc'[d] = (IF d = c THEN stage ELSE pc[d])
                          /\ answer'[d] = (IF d = c THEN f ELSE answer[d])
      /\ pc' \in [Calls -> Answers \cup Stages]
      /\ answer' \in [Calls -> Outcomes \cup {None}]
  BY DEF TradingInv, TTypes, RowTypes, Goto
<1>5. StepOf(c, same)
  <2>1. account' = [account EXCEPT ![owner] = same]
    BY <1>1, RequestTyped DEF TradingInv, TTypes
  <2> QED
    BY <1>4, <2>1 DEF StepOf
<1>6. OwnMoves(c)' = OwnMoves(c) \cup {}
  BY <1>4 DEF OwnMoves
<1>7. OrderInv(c)'
  <2>1. OrderInv(c)
    BY DEF TradingInv
  <2> QED
    BY <1>4, <2>1 DEF OrderInv
<1>8. OneOrderForAKey'
  BY DEF TradingInv, OneOrderForAKey
<1>9. RowTypes'
  BY <1>4 DEF TradingInv, TTypes, RowTypes
<1> HIDE DEF owner
<1>10. PICK nothing : nothing = {}
  OBVIOUS
<1>11. /\ Entered(account[Request[c].user], same, nothing, 0, 0)
       /\ \A m \in nothing : m.key[1] = c
       /\ OwnMoves(c)' = OwnMoves(c) \cup nothing
  BY <1>3, <1>6, <1>10 DEF owner
<1>12. TradingInv /\ CallInv(c)'
  OBVIOUS
<1> QED
  BY <1>5, <1>7, <1>8, <1>9, <1>11, <1>12, OrderStep

\* A call that only goes on.
LEMMA Onward ==
    ASSUME TradingInv, NEW c \in Calls,
           UNCHANGED <<account, order, trade, position, settled, answer, seen>>,
           NEW stage \in Answers \cup Stages, Goto(c, stage), CallInv(c)'
    PROVE  TradingInv'
<1>1. PICK f : f = answer[c]
  OBVIOUS
<1>2. f \in Outcomes \cup {None} /\ answer' = [answer EXCEPT ![c] = f]
  BY <1>1 DEF TradingInv, TTypes, RowTypes
<1>3. seen' \in [Calls -> [shares : Nat, cost : Nat]]
  BY DEF TradingInv, TTypes, RowTypes
<1>4. order[c].status \in Filled => f = answer[c]
  BY <1>1
<1> QED
  BY <1>2, <1>3, <1>4, CallStep

\* Where a call is after it went on, and what that says.
LEMMA WentOn ==
    ASSUME TradingInv, NEW c \in Calls, UNCHANGED <<order, answer>>,
           NEW stage \in Answers \cup Stages, Goto(c, stage)
    PROVE  /\ pc'[c] = stage /\ order'[c] = order[c] /\ answer'[c] = answer[c]
           /\ CallInv(c)
           /\ stage \in Answers \cup {"manual_review"} /\ order[c].status # "none" => CallInv(c)'
           /\ stage \in Answers => CallInv(c)'
<1>1. pc'[c] = stage /\ CallInv(c)
  BY DEF TradingInv, TTypes, RowTypes, Goto
<1> QED
  BY <1>1 DEF CallInv, Answers

LEMMA LookUpKeeps ==
    ASSUME TradingInv, NEW c \in Calls, LookUp(c)
    PROVE  TradingInv'
<1>1. PICK stage \in {"quote", "reconcile", "replay"} : Goto(c, stage)
  BY DEF LookUp, Goto
<1>2. stage \in Answers \cup Stages
  BY DEF Answers, Stages
<1>3. UNCHANGED <<account, order, trade, position, settled, answer, seen>> /\ pc[c] = "lookup"
  BY DEF LookUp
<1>4. pc'[c] = stage /\ order'[c] = order[c] /\ answer'[c] = answer[c] /\ CallInv(c)
  BY <1>1, <1>2, <1>3, WentOn
<1>5. CallInv(c)'
  BY <1>3, <1>4 DEF CallInv
<1> QED
  BY <1>1, <1>2, <1>3, <1>5, Onward

LEMMA QuoteKeeps ==
    ASSUME TradingInv, NEW c \in Calls, Quote(c)
    PROVE  TradingInv'
<1>1. PICK stage \in {"refused", "reserve", "conflict", "filled", "rejected", "reconcile"} :
          Goto(c, stage)
  BY DEF Quote, Goto, Replayed
<1>2. stage \in Answers \cup Stages
  BY DEF Answers, Stages
<1>3. /\ UNCHANGED <<account, order, trade, position, settled, answer, seen>>
      /\ pc[c] \in {"quote", "replay"}
  BY DEF Quote
<1>4. pc'[c] = stage /\ order'[c] = order[c] /\ answer'[c] = answer[c] /\ CallInv(c)
  BY <1>1, <1>2, <1>3, WentOn
<1>5. CallInv(c)'
  BY <1>3, <1>4 DEF CallInv
<1> QED
  BY <1>1, <1>2, <1>3, <1>5, Onward

\* A call in doubt, whose finalisation failed, or whose process died.
LEMMA GiveUpKeeps ==
    ASSUME TradingInv, NEW c \in Calls,
           FailToFinalize(c) \/ LoseFinalization(c) \/ Crash(c)
    PROVE  TradingInv'
<1>1. PICK stage \in {"manual_review", "dead"} :
          Goto(c, stage) /\ (stage = "manual_review" => pc[c] = "finalize")
  BY DEF FailToFinalize, LoseFinalization, Crash
<1>2. stage \in Answers \cup Stages
  BY DEF Answers, Stages
<1>3. UNCHANGED <<account, order, trade, position, settled, answer, seen>>
  BY DEF FailToFinalize, LoseFinalization, Crash
<1>4. pc'[c] = stage /\ order'[c] = order[c] /\ answer'[c] = answer[c] /\ CallInv(c)
  BY <1>1, <1>2, <1>3, WentOn
<1>5. CallInv(c)'
  BY <1>1, <1>3, <1>4 DEF CallInv
<1> QED
  BY <1>1, <1>2, <1>3, <1>5, Onward

LEMMA ExecuteKeeps ==
    ASSUME TradingInv, NEW c \in Calls, NEW f \in Outcomes, Execute(c, f)
    PROVE  TradingInv'
<1>1. PICK stage : stage = Continue(f)
  OBVIOUS
<1>2. /\ stage \in {"build", "cancelled", "manual_review", "failed"}
      /\ stage = "build" => f.status \in Filled
  BY <1>1 DEF Continue
<1>3. stage \in Answers \cup Stages
  BY <1>2 DEF Stages
<1>4. /\ UNCHANGED <<account, order, trade, position, settled, seen>>
      /\ pc[c] = "execute" /\ answer' = [answer EXCEPT ![c] = f] /\ Goto(c, stage)
  BY <1>1 DEF Execute
<1>5. pc'[c] = stage /\ answer'[c] = f /\ order'[c] = order[c] /\ CallInv(c)
  BY <1>4 DEF TradingInv, TTypes, RowTypes, Goto
<1>6. order[c].status = "execution_pending"
  BY <1>4, <1>5 DEF CallInv
<1>7. CallInv(c)'
  BY <1>2, <1>5, <1>6 DEF CallInv
<1>8. seen' \in [Calls -> [shares : Nat, cost : Nat]]
  BY <1>4 DEF TradingInv, TTypes, RowTypes
<1>9. order[c].status \in Filled => f = answer[c]
  BY <1>6 DEF Filled
<1>10. f \in Outcomes \cup {None}
  OBVIOUS
<1> QED
  BY <1>3, <1>4, <1>7, <1>8, <1>9, <1>10, CallStep

LEMMA BuildKeeps ==
    ASSUME TradingInv, NEW c \in Calls, BuildFinalization(c)
    PROVE  TradingInv'
<1>1. PICK stage \in {"finalize", "manual_review"} :
          Goto(c, stage) /\ (stage = "finalize" => Acceptable(c, answer[c]))
  BY DEF BuildFinalization
<1>2. stage \in Answers \cup Stages
  BY DEF Stages
<1>3. PICK f : f = answer[c]
  OBVIOUS
<1>4. /\ UNCHANGED <<account, order, trade, position, settled, answer>> /\ pc[c] = "build"
      /\ f \in Outcomes \cup {None} /\ answer' = [answer EXCEPT ![c] = f]
  BY <1>3 DEF BuildFinalization, TradingInv, TTypes, RowTypes
<1>5. pc'[c] = stage /\ order'[c] = order[c] /\ answer'[c] = answer[c] /\ CallInv(c)
  BY <1>1, <1>2, <1>4, WentOn
<1>6. CallInv(c)'
  <2>1. stage = "finalize" => Acceptable(c, answer[c])'
    BY <1>1, <1>5 DEF Acceptable
  <2> QED
    BY <1>1, <1>4, <1>5, <2>1 DEF CallInv
<1>7. seen' \in [Calls -> [shares : Nat, cost : Nat]]
  <2>1. /\ OwnPosition(c) \in [shares : Nat, cost : Nat]
        /\ seen \in [Calls -> [shares : Nat, cost : Nat]]
    BY RequestTyped DEF TradingInv, TTypes, RowTypes, OwnPosition
  <2>2. seen' = seen \/ seen' = [seen EXCEPT ![c] = OwnPosition(c)]
    BY DEF BuildFinalization
  <2> QED
    BY <2>1, <2>2
<1>8. order[c].status \in Filled => f = answer[c]
  BY <1>3
<1> QED
  BY <1>1, <1>2, <1>4, <1>6, <1>7, <1>8, CallStep
-----------------------------------------------------------------------------
(* Steps that move Coins                                                   *)

\* Coins set aside for the order c.
HeldFor(c) == IF ActiveOrder(c) THEN ReserveOf(c) ELSE 0

\* A step of the call c that books the movements M: they add a to the available
\* Coins, and r to the reserved ones, which is what is now held for the order.
Changed(c, new, M, a, r) ==
    /\ a \in Int /\ r \in Int
    /\ Entered(account[Request[c].user], new, M, a, r)
    /\ StepOf(c, new) /\ RowTypes'
    /\ HeldFor(c)' = HeldFor(c) + r

Idle == UNCHANGED <<account, order, trade, position, settled>>

LEMMA FreeKey ==
    ASSUME TradingInv, NEW c \in Calls, NEW step,
           \A m \in OwnMoves(c) : m.key # <<c, step>>
    PROVE  ~HasKey(account[Request[c].user], <<c, step>>)
<1>1. SUFFICES ASSUME HasKey(account[Request[c].user], <<c, step>>) PROVE FALSE
  OBVIOUS
<1>2. PICK m : InBook(account[Request[c].user], m) /\ m.key = <<c, step>>
  BY <1>1, KeyInBook
<1>3. m \in OwnMoves(c)
  BY <1>2, RequestTyped DEF TradingInv, Accounted
<1> QED
  BY <1>2, <1>3

\* The account of the order's user.
LEMMA OwnersAccount ==
    ASSUME TradingInv, NEW c \in Calls
    PROVE  /\ account[Request[c].user] \in Accounts(Movements)
           /\ Sound(account[Request[c].user])
  BY RequestTyped DEF TradingInv, TTypes, AccountsSound

LEMMA ReserveKeeps ==
    ASSUME TradingInv, NEW c \in Calls, Reserve(c)
    PROVE  /\ TradingInv'
           /\ \/ Idle
              \/ /\ ~settled /\ UNCHANGED <<trade, position, settled>>
                 /\ \E new, M : Changed(c, new, M, -ReserveOf(c), ReserveOf(c))
<1>1. pc[c] = "reserve" /\ order[c].status = "none" /\ order[c] = NoOrder
  BY DEF Reserve, TradingInv, CallInv, OrderInv
<1>2. UNCHANGED <<trade, position, settled, answer, seen>>
  BY DEF Reserve
<1>3. CASE UNCHANGED <<account, order>>
  <2>1. PICK stage \in {"reconcile", "conflict", "refused", "execute"} :
            Goto(c, stage) /\ (stage = "execute" => order'[c].status = "execution_pending")
    <3>1. \/ Goto(c, "execute") /\ order' = [order EXCEPT ![c].status = "execution_pending"]
          \/ Goto(c, "reconcile") \/ Goto(c, "conflict") \/ Goto(c, "refused")
      BY DEF Reserve, Goto
    <3>2. order' = [order EXCEPT ![c].status = "execution_pending"]
              => order'[c].status = "execution_pending"
      BY <1>1 DEF TradingInv, TTypes, RowTypes
    <3> QED
      BY <3>1, <3>2
  <2>2. stage # "execute"
    BY <1>1, <1>3, <2>1
  <2>3. stage \in Answers /\ stage \in Answers \cup Stages
    BY <2>1, <2>2 DEF Answers
  <2>4. CallInv(c)'
    BY <1>2, <1>3, <2>1, <2>3, WentOn
  <2> QED
    BY <1>2, <1>3, <2>1, <2>3, <2>4, Onward DEF Idle
<1>4. CASE ~ UNCHANGED <<account, order>>
  <2> DEFINE owner == Request[c].user
             m == ReserveMove(c)
             M == {m} \ {None}
  <2>1. PICK acc : acc = account[owner]
    OBVIOUS
  <2>2. acc \in Accounts(Movements) /\ Sound(acc) /\ owner \in Users
    BY <2>1, OwnersAccount, RequestTyped
  <2>3. /\ MarketOpen /\ ~ \E d \in Calls : SameKey(c, d)
        /\ CanPay(acc, m) /\ account' = [account EXCEPT ![owner] = Pay(acc, m)]
        /\ order' = [order EXCEPT ![c].status = "execution_pending"]
        /\ Goto(c, "execute")
    BY <1>4, <2>1 DEF Reserve
  <2>4. PICK new : new = Pay(acc, m)
    OBVIOUS
  <2>5. IsMove(m, Buys(c), c, "trade_reserve", -ReserveOf(c), ReserveOf(c), "reserve")
    BY ReserveMoveIs
  <2> HIDE DEF m
  <2>6. /\ m \in Movements \cup {None}
        /\ m # None => Trading(m) /\ ~HasKey(acc, m.key)
        /\ (IF m = None THEN 0 ELSE m.dA) = -ReserveOf(c)
        /\ (IF m = None THEN 0 ELSE m.dR) = ReserveOf(c)
    <3>1. OwnMoves(c) = {}
      BY <1>1 DEF OwnMoves
    <3>2. ~HasKey(acc, <<c, "reserve">>)
      BY <2>1, <3>1, FreeKey
    <3> QED
      BY <2>5, <3>2, RequestTyped DEF IsMove
  <2>7. Entered(acc, new, M, -ReserveOf(c), ReserveOf(c))
    <3>1. Entered(acc, acc, {}, 0, 0)
      BY <2>2, NothingEntered
    <3>2. Entered(acc, new, {} \cup M, 0 + (IF m = None THEN 0 ELSE m.dA),
                  0 + (IF m = None THEN 0 ELSE m.dR))
      <4>1. /\ m \in Movements \cup {None} /\ CanPay(acc, m) /\ new = Pay(acc, m)
            /\ m # None => Trading(m) /\ ~HasKey(acc, m.key)
        BY <2>3, <2>4, <2>6
      <4> QED
        BY <2>2, <3>1, <4>1, PayEntered
    <3>3. ReserveOf(c) \in Int /\ {} \cup M = M
      BY RequestTyped
    <3>4. /\ 0 + (IF m = None THEN 0 ELSE m.dA) = -ReserveOf(c)
          /\ 0 + (IF m = None THEN 0 ELSE m.dR) = ReserveOf(c)
      BY <2>6, <3>3
    <3> QED
      BY <3>2, <3>3, <3>4
  <2>8. /\ order'[c] = [NoOrder EXCEPT !.status = "execution_pending"]
        /\ order' \in [Calls -> [status : {"none"} \cup Active \cup Terminal,
                                 filled : Nat, fee : Nat, released : Nat]]
        /\ pc'[c] = "execute" /\ pc' \in [Calls -> Answers \cup Stages]
        /\ \A d \in Calls : d # c => order'[d] = order[d] /\ pc'[d] = pc[d]
    BY <1>1, <2>3 DEF TradingInv, TTypes, RowTypes, Goto, NoOrder, Active, Stages
  <2>9. StepOf(c, new)
    BY <1>2, <2>3, <2>4, <2>8 DEF StepOf
  <2>10. RowTypes'
    BY <1>2, <2>8 DEF TradingInv, TTypes, RowTypes
  <2>11. OwnMoves(c)' = OwnMoves(c) \cup M
    BY <1>1, <2>8 DEF OwnMoves, NoOrder, Released, Filled, m
  <2>12. OrderInv(c)'
    BY <1>1, <1>2, <2>8 DEF TradingInv, OrderInv, NoOrder, Released, Filled
  <2>13. CallInv(c)'
    BY <1>1, <1>2, <2>8 DEF TradingInv, CallInv, NoOrder
  <2>14. OneOrderForAKey'
    BY <1>1, <2>3, <2>8 DEF TradingInv, OneOrderForAKey, SameKey
  <2>15. \A x \in M : x.key[1] = c
    BY <2>5 DEF IsMove
  <2>16. TradingInv'
    <3> HIDE DEF M
    <3> QED
      BY <2>1, <2>7, <2>9, <2>10, <2>11, <2>12, <2>13, <2>14, <2>15, OrderStep
  <2>17. Changed(c, new, M, -ReserveOf(c), ReserveOf(c))
    <3>1. HeldFor(c)' = HeldFor(c) + ReserveOf(c)
      BY <1>1, <2>8, RequestTyped DEF HeldFor, ActiveOrder, Active, NoOrder
    <3> QED
      BY <2>1, <2>7, <2>9, <2>10, <3>1, RequestTyped DEF Changed
  <2> QED
    BY <1>2, <2>3, <2>16, <2>17 DEF MarketOpen
<1> QED
  BY <1>3, <1>4

\* What a step that ends the order, or sends it to review, does to the rows.
LEMMA CancelRows ==
    ASSUME TradingInv, NEW c \in Calls, Cancel(c), ~Ended(order[c].status)
    PROVE  /\ pc[c] \in {"failed", "cancelled", "manual_review"}
           /\ order[c].status \in Active
           /\ order[c].filled = 0 /\ order[c].fee = 0 /\ order[c].released = 0
           /\ order'[c] = [status |-> pc[c], filled |-> 0, fee |-> 0,
                           released |-> IF pc[c] \in Released THEN ReserveOf(c) ELSE 0]
           /\ pc'[c] \in {"rejected", "reconcile"}
           /\ RowTypes'
           /\ \A d \in Calls : d # c => /\ order'[d] = order[d] /\ trade'[d] = trade[d]
                                        /\ pc'[d] = pc[d] /\ answer'[d] = answer[d]
<1>1. pc[c] \in {"failed", "cancelled", "manual_review"}
  BY DEF Cancel
<1>2. order[c].status \in Active
  <2>1. CallInv(c) /\ order[c].status \in {"none"} \cup Active \cup Terminal
    BY DEF TradingInv, TTypes, RowTypes
  <2> QED
    BY <1>1, <2>1 DEF CallInv, Ended, Active
<1>3. order[c].filled = 0 /\ order[c].fee = 0 /\ order[c].released = 0
  BY <1>2 DEF TradingInv, OrderInv
<1>4. PICK status : status = pc[c]
  OBVIOUS
<1>5. PICK back : back = IF status \in Released THEN ReserveOf(c) ELSE 0
  OBVIOUS
<1>6. (IF Freed(c, status) = None THEN order[c].released ELSE ReserveOf(c)) = back
  <2>1. CASE status \in Released
    <3>1. IsMove(ReleaseAll(c, status), Buys(c), c, "trade_release",
                 ReserveOf(c), -ReserveOf(c), status)
      BY <2>1, ReserveMoveIs
    <3> QED
      BY <1>3, <1>5, <2>1, <3>1, RequestTyped DEF Freed, IsMove
  <2>2. CASE status \notin Released
    BY <1>3, <1>5, <2>2 DEF Freed
  <2> QED
    BY <2>1, <2>2
<1>7. /\ order' = [order EXCEPT ![c].status = status, ![c].released = back]
      /\ pc' = [pc EXCEPT ![c] = IF status \in Released THEN "rejected" ELSE "reconcile"]
      /\ UNCHANGED <<trade, position, settled, answer, seen>>
  BY <1>4, <1>6 DEF Cancel, Goto
<1>8. back \in Nat /\ status \in Active \cup Terminal
  BY <1>1, <1>4, <1>5, RequestTyped DEF Active, Terminal, Released
<1>9. /\ order'[c] = [order[c] EXCEPT !.status = status, !.released = back]
      /\ pc'[c] \in {"rejected", "reconcile"}
      /\ order' \in [Calls -> [status : {"none"} \cup Active \cup Terminal,
                               filled : Nat, fee : Nat, released : Nat]]
      /\ pc' \in [Calls -> Answers \cup Stages]
  <2>1. /\ order \in [Calls -> [status : {"none"} \cup Active \cup Terminal,
                                filled : Nat, fee : Nat, released : Nat]]
        /\ pc \in [Calls -> Answers \cup Stages]
    BY DEF TradingInv, TTypes, RowTypes
  <2>2. PICK row : row = [order[c] EXCEPT !.status = status, !.released = back]
    OBVIOUS
  <2>3. row \in [status : {"none"} \cup Active \cup Terminal,
                filled : Nat, fee : Nat, released : Nat]
    BY <1>8, <2>1, <2>2
  <2>4. order' = [order EXCEPT ![c] = row]
    BY <1>7, <2>1, <2>2
  <2>5. order'[c] = row /\ order' \in [Calls -> [status : {"none"} \cup Active \cup Terminal,
                                                filled : Nat, fee : Nat, released : Nat]]
    BY <2>1, <2>3, <2>4
  <2>6. PICK answered : answered = IF status \in Released THEN "rejected" ELSE "reconcile"
    OBVIOUS
  <2>7. answered \in {"rejected", "reconcile"} /\ answered \in Answers
    BY <2>6 DEF Answers
  <2>8. pc'[c] = answered /\ pc' \in [Calls -> Answers \cup Stages]
    BY <1>7, <2>1, <2>6, <2>7
  <2> QED
    BY <2>2, <2>5, <2>7, <2>8
<1>10. order'[c] = [status |-> status, filled |-> 0, fee |-> 0, released |-> back]
  <2>1. order[c] \in [status : {"none"} \cup Active \cup Terminal,
                      filled : Nat, fee : Nat, released : Nat]
    BY DEF TradingInv, TTypes, RowTypes
  <2> QED
    BY <1>3, <1>9, <2>1
<1>11. RowTypes'
  BY <1>7, <1>9 DEF TradingInv, TTypes, RowTypes
<1>12. \A d \in Calls : d # c => /\ order'[d] = order[d] /\ trade'[d] = trade[d]
                                 /\ pc'[d] = pc[d] /\ answer'[d] = answer[d]
  BY <1>7 DEF TradingInv, TTypes, RowTypes
<1> QED
  BY <1>1, <1>2, <1>3, <1>4, <1>5, <1>9, <1>10, <1>11, <1>12

LEMMA CancelKeeps ==
    ASSUME TradingInv, NEW c \in Calls, Cancel(c)
    PROVE  /\ TradingInv' /\ UNCHANGED <<trade, position, settled>>
           /\ \/ Idle
              \/ \E new, M : \/ Changed(c, new, M, 0, 0)
                             \/ Changed(c, new, M, ReserveOf(c), -ReserveOf(c))
<1>1. UNCHANGED <<trade, position, settled, answer, seen>>
  BY DEF Cancel
<1>2. CASE Ended(order[c].status)
  <2>1. PICK stage \in {"rejected", "reconcile"} : Goto(c, stage)
    BY DEF Cancel, Goto
  <2>2. UNCHANGED <<account, order>>
    BY <1>2 DEF Cancel
  <2>3. stage \in Answers /\ stage \in Answers \cup Stages
    BY <2>1 DEF Answers
  <2>4. CallInv(c)'
    BY <1>1, <2>1, <2>2, <2>3, WentOn
  <2> QED
    BY <1>1, <2>1, <2>2, <2>3, <2>4, Onward DEF Idle
<1>3. CASE ~Ended(order[c].status)
  <2> DEFINE owner == Request[c].user
  <2>1. PICK acc, status : acc = account[owner] /\ status = pc[c]
    OBVIOUS
  <2>2. PICK m : m = Freed(c, status)
    OBVIOUS
  <2> DEFINE A == IF m = None THEN 0 ELSE m.dA
             R == IF m = None THEN 0 ELSE m.dR
             M == {m} \ {None}
  <2>3. /\ status \in {"failed", "cancelled", "manual_review"} /\ order[c].status \in Active
        /\ order'[c] = [status |-> status, filled |-> 0, fee |-> 0,
                        released |-> IF status \in Released THEN ReserveOf(c) ELSE 0]
        /\ pc'[c] \in {"rejected", "reconcile"} /\ RowTypes'
        /\ \A d \in Calls : d # c => /\ order'[d] = order[d] /\ trade'[d] = trade[d]
                                     /\ pc'[d] = pc[d] /\ answer'[d] = answer[d]
    BY <1>3, <2>1, CancelRows
  <2>4. acc \in Accounts(Movements) /\ Sound(acc) /\ owner \in Users
    BY <2>1, OwnersAccount, RequestTyped
  <2>5. PICK new : new = Pay(acc, m)
    OBVIOUS
  <2>6. /\ CanPay(acc, m) /\ account' = [account EXCEPT ![owner] = new]
    BY <1>3, <2>1, <2>2, <2>5 DEF Cancel
  <2>7. status \in Released =>
            IsMove(m, Buys(c), c, "trade_release", ReserveOf(c), -ReserveOf(c), status)
    BY <2>2, ReserveMoveIs DEF Freed
  <2>8. status \notin Released => m = None
    BY <2>2 DEF Freed
  <2>9. status \in Released => order[c].status = "execution_pending"
    BY <2>1, <2>3 DEF TradingInv, CallInv, Released
  <2>10. OwnMoves(c) = {ReserveMove(c)} \ {None}
    BY <2>3 DEF OwnMoves, Active, Released, Filled
  <2>11. \A x \in OwnMoves(c) : x.key = <<c, "reserve">>
    BY <2>10, ReserveMoveIs DEF IsMove
  <2>12. status \in Released => ~HasKey(acc, <<c, status>>)
    BY <2>1, <2>11, FreeKey DEF Released
  <2>13. /\ m \in Movements \cup {None} /\ CanPay(acc, m)
         /\ m # None => Trading(m) /\ ~HasKey(acc, m.key)
    BY <2>6, <2>7, <2>8, <2>12 DEF IsMove
  <2>14. Entered(acc, new, M, A, R)
    <3>1. Entered(acc, acc, {}, 0, 0)
      BY <2>4, NothingEntered
    <3>2. Entered(acc, new, {} \cup M, 0 + A, 0 + R)
      BY <2>4, <2>5, <2>13, <3>1, PayEntered
    <3>3. A \in Int /\ R \in Int /\ {} \cup M = M
      BY <2>13, MovementsTyped
    <3> HIDE DEF A, R, M
    <3> QED
      BY <3>2, <3>3
  <2>15. /\ status \in Released => A = ReserveOf(c) /\ R = -ReserveOf(c)
         /\ status \notin Released => A = 0 /\ R = 0
    BY <2>7, <2>8, RequestTyped DEF IsMove
  <2>16. StepOf(c, new)
    BY <1>1, <2>3, <2>6 DEF StepOf
  <2>17. OwnMoves(c)' = OwnMoves(c) \cup M
    BY <2>2, <2>3, <2>10 DEF OwnMoves, Freed, Released, Filled
  <2>18. OrderInv(c)'
    <3>1. OrderInv(c) /\ order[c].status \notin Filled
      BY <2>3 DEF TradingInv, Active, Filled
    <3>2. trade'[c] = NoTrade
      BY <1>1, <3>1 DEF OrderInv
    <3> QED
      BY <2>3, <3>2 DEF OrderInv, Released, Filled, Active
  <2>19. CallInv(c)'
    BY <1>1, <2>3 DEF TradingInv, CallInv
  <2>20. OneOrderForAKey'
    <3>1. \A d \in Calls : order'[d].status # "none" => order[d].status # "none"
      BY <2>3 DEF Active
    <3> QED
      BY <3>1 DEF TradingInv, OneOrderForAKey
  <2>21. \A x \in M : x.key[1] = c
    BY <2>7, <2>8 DEF IsMove
  <2> HIDE DEF A, R, M
  <2>22. TradingInv'
    BY <2>1, <2>3, <2>14, <2>16, <2>17, <2>18, <2>19, <2>20, <2>21, OrderStep
  <2>23. HeldFor(c)' = HeldFor(c) + R
    <3>1. HeldFor(c) = ReserveOf(c)
      BY <2>3 DEF HeldFor, ActiveOrder
    <3>2. HeldFor(c)' = IF status \in Released THEN 0 ELSE ReserveOf(c)
      BY <2>3 DEF HeldFor, ActiveOrder, Active, Released
    <3> QED
      BY <2>15, <3>1, <3>2, RequestTyped
  <2>24. Changed(c, new, M, A, R)
    <3>1. A \in Int /\ R \in Int
      BY <2>15, RequestTyped
    <3> QED
      BY <2>1, <2>3, <2>14, <2>16, <2>23, <3>1 DEF Changed
  <2> QED
    BY <1>1, <2>15, <2>22, <2>24
<1> QED
  BY <1>2, <1>3

\* What the fill f makes of the position that the call built on.
LEMMA MovedPosition ==
    ASSUME NEW c \in Calls, NEW f \in Outcomes, Acceptable(c, f),
           NEW p \in [shares : Nat, cost : Nat], Buys(c) \/ f.shares <= p.shares
    PROVE  /\ Moved(c, p, f) \in [shares : Nat, cost : Nat]
           /\ ~Buys(c) => Basis(p, f) \in 0 .. p.cost
           /\ Moved(c, p, f).shares = p.shares + (IF Buys(c) THEN f.shares ELSE -f.shares)
           /\ Moved(c, p, f).cost = p.cost + (IF Buys(c) THEN f.amount ELSE -Basis(p, f))
<1>1. f.shares \in Nat \ {0} /\ f.amount \in Nat /\ p.shares \in Nat /\ p.cost \in Nat
  BY FillTyped
<1>2. ASSUME ~Buys(c) PROVE Basis(p, f) \in 0 .. p.cost
  <2>1. p.shares \in Nat \ {0} /\ f.shares \in 0 .. p.shares
    BY <1>1, <1>2
  <2> QED
    BY <1>1, <2>1, BasisWithinCost DEF Basis
<1>3. CASE Buys(c)
  BY <1>1, <1>3 DEF Moved
<1>4. CASE ~Buys(c)
  BY <1>1, <1>2, <1>4 DEF Moved
<1> QED
  BY <1>2, <1>3, <1>4

\* The position of the order c becomes p.
PositionBecomes(c, p) ==
    position' = [position EXCEPT ![Request[c].user][Request[c].side] = p]

\* What a finalisation writes beside the account.
LEMMA FinalizeRows ==
    ASSUME TradingInv, NEW c \in Calls, Finalize(c), NEW f, f = answer[c]
    PROVE  /\ f \in Outcomes /\ Acceptable(c, f) /\ f.status \in Filled
           /\ order[c].status = "execution_pending" /\ ~settled
           /\ seen[c] = OwnPosition(c) /\ (Buys(c) \/ f.shares <= OwnPosition(c).shares)
           /\ order'[c] = [status |-> f.status, filled |-> f.amount,
                           fee |-> f.fee, released |-> Unused(c, f)]
           /\ trade'[c] = [shares |-> f.shares, amount |-> f.amount, fee |-> f.fee,
                           basis |-> IF Buys(c) THEN 0 ELSE Basis(OwnPosition(c), f)]
           /\ PositionBecomes(c, Moved(c, OwnPosition(c), f))
           /\ pc'[c] \in {"filled", "manual_review"} /\ answer' = answer
           /\ RowTypes'
           /\ \A d \in Calls : d # c => /\ order'[d] = order[d] /\ trade'[d] = trade[d]
                                        /\ pc'[d] = pc[d] /\ answer'[d] = answer[d]
<1>1. /\ f \in Outcomes /\ Acceptable(c, f) /\ f.status \in Filled
      /\ order[c].status = "execution_pending"
  BY DEF TradingInv, CallInv, Finalize
<1>2. /\ ~settled /\ seen[c] = OwnPosition(c) /\ (Buys(c) \/ f.shares <= OwnPosition(c).shares)
  BY DEF Finalize, CanFinalize, MarketOpen, TransitionMatches, Sellable
<1>3. PICK p, basis : p = OwnPosition(c) /\ basis = IF Buys(c) THEN 0 ELSE Basis(p, f)
  OBVIOUS
<1>4. p \in [shares : Nat, cost : Nat]
  BY <1>3, RequestTyped DEF TradingInv, TTypes, RowTypes, OwnPosition
<1>5. PICK moved : moved = Moved(c, p, f)
  OBVIOUS
<1>6. moved \in [shares : Nat, cost : Nat] /\ basis \in Nat
  BY <1>1, <1>2, <1>3, <1>4, <1>5, MovedPosition
<1>7. PICK row, sold : /\ row = [status |-> f.status, filled |-> f.amount,
                                 fee |-> f.fee, released |-> Unused(c, f)]
                       /\ sold = [shares |-> f.shares, amount |-> f.amount, fee |-> f.fee,
                                  basis |-> basis]
  OBVIOUS
<1>8. /\ row \in [status : {"none"} \cup Active \cup Terminal,
                  filled : Nat, fee : Nat, released : Nat]
      /\ sold \in [shares : Nat, amount : Nat, fee : Nat, basis : Nat]
  BY <1>1, <1>6, <1>7, FillTyped DEF Terminal
<1>9. /\ order' = [order EXCEPT ![c] = row] /\ trade' = [trade EXCEPT ![c] = sold]
      /\ position' = [position EXCEPT ![Request[c].user][Request[c].side] = moved]
      /\ \/ pc' = [pc EXCEPT ![c] = "filled"]
         \/ pc' = [pc EXCEPT ![c] = "manual_review"]
      /\ UNCHANGED <<settled, answer, seen>>
  BY <1>2, <1>3, <1>5, <1>7 DEF Finalize, Goto
<1>10. /\ order'[c] = row /\ trade'[c] = sold /\ pc'[c] \in {"filled", "manual_review"}
       /\ order' \in [Calls -> [status : {"none"} \cup Active \cup Terminal,
                                filled : Nat, fee : Nat, released : Nat]]
       /\ trade' \in [Calls -> [shares : Nat, amount : Nat, fee : Nat, basis : Nat]]
       /\ pc' \in [Calls -> Answers \cup Stages]
       /\ \A d \in Calls : d # c => /\ order'[d] = order[d] /\ trade'[d] = trade[d]
                                    /\ pc'[d] = pc[d] /\ answer'[d] = answer[d]
  BY <1>8, <1>9 DEF TradingInv, TTypes, RowTypes, Answers, Stages
<1>11. position' \in [Users -> [Sides -> [shares : Nat, cost : Nat]]]
  BY <1>6, <1>9, RequestTyped DEF TradingInv, TTypes, RowTypes
<1>12. RowTypes'
  BY <1>9, <1>10, <1>11 DEF TradingInv, TTypes, RowTypes
<1> QED
  BY <1>1, <1>2, <1>3, <1>5, <1>7, <1>9, <1>10, <1>12 DEF PositionBecomes

LEMMA FinalizeKeeps ==
    ASSUME TradingInv, NEW c \in Calls, Finalize(c)
    PROVE  /\ TradingInv'
           /\ \E new, M : Changed(c, new, M, FillCash(c, answer[c]), -ReserveOf(c))
<1> DEFINE owner == Request[c].user
<1>1. PICK acc, f : acc = account[owner] /\ f = answer[c]
  OBVIOUS
<1>2. /\ f \in Outcomes /\ Acceptable(c, f) /\ f.status \in Filled
      /\ order[c].status = "execution_pending" /\ ~settled
      /\ order'[c] = [status |-> f.status, filled |-> f.amount,
                      fee |-> f.fee, released |-> Unused(c, f)]
      /\ trade'[c] = [shares |-> f.shares, amount |-> f.amount, fee |-> f.fee,
                      basis |-> IF Buys(c) THEN 0 ELSE Basis(OwnPosition(c), f)]
      /\ pc'[c] \in {"filled", "manual_review"} /\ answer' = answer
      /\ RowTypes'
      /\ \A d \in Calls : d # c => /\ order'[d] = order[d] /\ trade'[d] = trade[d]
                                   /\ pc'[d] = pc[d] /\ answer'[d] = answer[d]
  BY <1>1, FinalizeRows
<1>3. acc \in Accounts(Movements) /\ Sound(acc) /\ owner \in Users
  BY <1>1, OwnersAccount, RequestTyped
<1>4. PICK new, M : new = Booked(acc, c, f) /\ M = FillMoves(c, f)
  OBVIOUS
<1>5. /\ CanBook(acc, c, f) /\ account' = [account EXCEPT ![owner] = new] /\ settled' = settled
  BY <1>1, <1>4 DEF Finalize, CanFinalize
<1>6. OwnMoves(c) = {ReserveMove(c)} \ {None}
  BY <1>2 DEF OwnMoves, Released, Filled
<1>7. \A step \in {"debit", "fee", "credit", "unused"} : ~HasKey(acc, <<c, step>>)
  <2>1. \A x \in OwnMoves(c) : x.key = <<c, "reserve">>
    BY <1>6, ReserveMoveIs DEF IsMove
  <2> QED
    BY <1>1, <2>1, FreeKey
<1>8. Entered(acc, new, M, FillCash(c, f), -ReserveOf(c))
  BY <1>2, <1>3, <1>4, <1>5, <1>7, BookedEntered
<1>9. StepOf(c, new)
  BY <1>2, <1>5 DEF StepOf
<1>10. OwnMoves(c)' = OwnMoves(c) \cup M
  BY <1>1, <1>2, <1>4, <1>6 DEF OwnMoves, Released, Filled
<1>11. OrderInv(c)'
  <2>1. Acceptable(c, answer[c])' /\ Unused(c, answer[c])' = Unused(c, f)
    BY <1>1, <1>2 DEF Acceptable, Unused
  <2>2. answer'[c] = f
    BY <1>1, <1>2
  <2> QED
    BY <1>2, <2>1, <2>2 DEF OrderInv, Filled, Active, Released
<1>12. CallInv(c)'
  BY <1>2 DEF TradingInv, CallInv, Filled
<1>13. OneOrderForAKey'
  <2>1. \A d \in Calls : order'[d].status # "none" => order[d].status # "none"
    BY <1>2
  <2> QED
    BY <2>1 DEF TradingInv, OneOrderForAKey
<1>14. \A x \in M : x.key[1] = c
  BY <1>2, <1>4, FillMovesAre DEF FillMoves, IsMove
<1>15. TradingInv'
  BY <1>1, <1>2, <1>8, <1>9, <1>10, <1>11, <1>12, <1>13, <1>14, OrderStep
<1>16. HeldFor(c)' = HeldFor(c) - ReserveOf(c)
  BY <1>2, RequestTyped DEF HeldFor, ActiveOrder, Active, Filled
<1>17. Changed(c, new, M, FillCash(c, f), -ReserveOf(c))
  <2>1. FillCash(c, f) \in Int /\ -ReserveOf(c) \in Int
        /\ HeldFor(c)' = HeldFor(c) + (-ReserveOf(c))
    BY <1>2, <1>16, FillTyped, RequestTyped DEF FillCash, HeldFor
  <2> QED
    BY <1>1, <1>2, <1>8, <1>9, <2>1 DEF Changed
<1> QED
  BY <1>1, <1>15, <1>17

\* The refund of a position is a movement of the settlement.
LEMMA RefundIs ==
    ASSUME TradingInv, NEW u \in Users, NEW s \in Sides, NEW m, m = RefundMove(u, s)
    PROVE  /\ m \in Movements \cup {None} /\ position[u][s].cost \in Nat
           /\ m # None => Trading(m) /\ m.key = <<"settlement", s>> /\ m.key[1] = "settlement"
           /\ (IF m = None THEN 0 ELSE m.dA) = position[u][s].cost
           /\ (IF m = None THEN 0 ELSE m.dR) = 0
<1>1. PICK n : n = position[u][s].cost
  OBVIOUS
<1>2. n \in Nat
  BY <1>1 DEF TradingInv, TTypes, RowTypes
<1> DEFINE r == [op |-> "refund_credit", dA |-> n, dR |-> 0,
                 key |-> <<"settlement", s>>, ref |-> "market_settlement"]
<1>3. m = MoveIf(n > 0, r)
  BY <1>1 DEF RefundMove
<1>4. r \in Movements
  BY <1>2 DEF Movements, Operations, Credits
<1>5. r.key = <<"settlement", s>> /\ r.key[1] = "settlement" /\ r.dA = n /\ r.dR = 0 /\ Trading(r)
  BY DEF Trading
<1> HIDE DEF r
<1> QED
  BY <1>1, <1>2, <1>3, <1>4, <1>5, NullAssumption DEF MoveIf

\* A settlement pays each user what its positions cost.
LEMMA RefundedEntered ==
    ASSUME TradingInv, ~settled, NEW u \in Users,
           CanPay2(account[u], RefundMove(u, "no"), RefundMove(u, "yes"))
    PROVE  \E M : /\ Entered(account[u], Refunded(u), M,
                             position[u]["no"].cost + position[u]["yes"].cost, 0)
                  /\ \A m \in M : m.key[1] = "settlement"
<1>1. PICK acc, m, n, mid, new : /\ acc = account[u] /\ m = RefundMove(u, "no")
                                 /\ n = RefundMove(u, "yes")
                                 /\ mid = Pay(acc, m) /\ new = Pay(mid, n)
  OBVIOUS
<1>2. new = Refunded(u) /\ CanPay(acc, m) /\ CanPay(mid, n)
  BY <1>1 DEF Refunded, CanPay2, Pay2
<1>3. acc \in Accounts(Movements) /\ Sound(acc)
  BY <1>1 DEF TradingInv, TTypes, AccountsSound
<1>4. \A side \in Sides : ~HasKey(acc, <<"settlement", side>>)
  <2>1. SUFFICES ASSUME NEW side \in Sides, HasKey(acc, <<"settlement", side>>) PROVE FALSE
    OBVIOUS
  <2>2. PICK x : InBook(acc, x) /\ x.key = <<"settlement", side>>
    BY <2>1, KeyInBook
  <2> QED
    BY <1>1, <2>2 DEF TradingInv, SettlementLast
<1>5. PICK a, b : a = position[u]["no"].cost /\ b = position[u]["yes"].cost
  OBVIOUS
<1>6. /\ m \in Movements \cup {None} /\ n \in Movements \cup {None} /\ a \in Nat /\ b \in Nat
      /\ m # None => Trading(m) /\ m.key = <<"settlement", "no">> /\ m.key[1] = "settlement"
      /\ n # None => Trading(n) /\ n.key = <<"settlement", "yes">> /\ n.key[1] = "settlement"
      /\ (IF m = None THEN 0 ELSE m.dA) = a /\ (IF m = None THEN 0 ELSE m.dR) = 0
      /\ (IF n = None THEN 0 ELSE n.dA) = b /\ (IF n = None THEN 0 ELSE n.dR) = 0
  <2>1. "no" \in Sides /\ "yes" \in Sides
    BY DEF Sides
  <2> QED
    BY <1>1, <1>5, <2>1, RefundIs
<1> DEFINE M1 == {m} \ {None}
           M2 == M1 \cup ({n} \ {None})
<1>7. Entered(acc, mid, M1, a, 0)
  <2>1. Entered(acc, acc, {}, 0, 0)
    BY <1>3, NothingEntered
  <2>2. m # None => Trading(m) /\ ~HasKey(acc, m.key)
    BY <1>4, <1>6 DEF Sides
  <2>3. Entered(acc, mid, {} \cup ({m} \ {None}), 0 + (IF m = None THEN 0 ELSE m.dA),
                0 + (IF m = None THEN 0 ELSE m.dR))
    <3>1. m \in Movements \cup {None} /\ CanPay(acc, m) /\ mid = Pay(acc, m)
      BY <1>1, <1>2, <1>6
    <3> QED
      BY <1>3, <2>1, <2>2, <3>1, PayEntered
  <2>4. {} \cup ({m} \ {None}) = M1 /\ 0 + a = a /\ 0 + 0 = 0
    BY <1>6
  <2> QED
    BY <1>6, <2>3, <2>4
<1>8. Entered(acc, new, M2, a + b, 0)
  <2>1. n # None => Trading(n) /\ ~HasKey(mid, n.key)
    <3>1. ASSUME n # None PROVE ~HasKey(acc, n.key) /\ \A x \in M1 : x.key # n.key
      BY <1>4, <1>6, <3>1 DEF Sides
    <3> HIDE DEF M1
    <3> QED
      BY <1>6, <1>7, <3>1, StillFree
  <2> HIDE DEF M1
  <2>2. /\ n \in Movements \cup {None} /\ CanPay(mid, n) /\ new = Pay(mid, n)
        /\ a \in Int /\ 0 \in Int
    BY <1>1, <1>2, <1>6
  <2>3. Entered(acc, new, M2, a + (IF n = None THEN 0 ELSE n.dA),
                0 + (IF n = None THEN 0 ELSE n.dR))
    BY <1>3, <1>7, <2>1, <2>2, PayEntered
  <2>4. 0 + 0 = 0
    OBVIOUS
  <2> QED
    BY <1>6, <2>3, <2>4
<1>9. \A x \in M2 : x.key[1] = "settlement"
  BY <1>6
<1> HIDE DEF M2
<1> QED
  BY <1>1, <1>2, <1>5, <1>8, <1>9

LEMMA SettleKeeps ==
    ASSUME TradingInv, NEW winner, Settle(winner)
    PROVE  /\ TradingInv'
           /\ \A u \in Users : \E M :
                 Entered(account[u], account'[u], M,
                         position[u]["no"].cost + position[u]["yes"].cost, 0)
<1>1. /\ ~settled /\ settled' = TRUE /\ account' = [u \in Users |-> Refunded(u)]
      /\ position' = [u \in Users |-> [s \in Sides |-> NoPosition]]
      /\ UNCHANGED <<order, trade, pc, answer, seen>>
      /\ \A u \in Users : CanPay2(account[u], RefundMove(u, "no"), RefundMove(u, "yes"))
  BY DEF Settle, MarketOpen
<1>2. \A u \in Users : account'[u] = Refunded(u)
  BY <1>1
<1>3. \A u \in Users : \E M :
          /\ Entered(account[u], account'[u], M,
                     position[u]["no"].cost + position[u]["yes"].cost, 0)
          /\ \A m \in M : m.key[1] = "settlement"
  <2> TAKE u \in Users
  <2> QED
    BY <1>1, <1>2, RefundedEntered
<1>4. \A u \in Users : /\ account'[u] \in Accounts(Movements) /\ Sound(account'[u])
                       /\ \A m : InBook(account'[u], m) => ShapeOK(m)
                       /\ \A m : m.key[1] # "settlement" =>
                              (InBook(account'[u], m) <=> InBook(account[u], m))
  <2> TAKE u \in Users
  <2>1. PICK M : /\ Entered(account[u], account'[u], M,
                            position[u]["no"].cost + position[u]["yes"].cost, 0)
                 /\ \A m \in M : m.key[1] = "settlement"
    BY <1>3
  <2> QED
    BY <2>1 DEF Entered, TradingInv, Shaped
<1>5. TTypes'
  <2>1. account' \in [Users -> Accounts(Movements)]
    BY <1>1, <1>4
  <2>2. position' \in [Users -> [Sides -> [shares : Nat, cost : Nat]]]
    BY <1>1 DEF NoPosition
  <2> QED
    BY <1>1, <2>1, <2>2 DEF TradingInv, TTypes, RowTypes
<1>6. AccountsSound' /\ Shaped' /\ SettlementLast'
  BY <1>1, <1>4 DEF AccountsSound, Shaped, SettlementLast
<1>7. OneOrderForAKey'
  BY <1>1 DEF TradingInv, OneOrderForAKey
<1>8. ASSUME NEW c \in Calls PROVE Accounted(c)' /\ OrderInv(c)' /\ CallInv(c)'
  <2>1. OrderInv(c) /\ CallInv(c) /\ Accounted(c)
    BY DEF TradingInv
  <2>2. OrderInv(c)'
    BY <1>1, <2>1 DEF OrderInv
  <2>3. CallInv(c)'
    BY <1>1, <2>1 DEF CallInv
  <2>4. OwnMoves(c)' = OwnMoves(c) /\ c # "settlement"
    BY <1>1, TradingAssumption DEF OwnMoves
  <2>5. Accounted(c)'
    BY <1>4, <2>1, <2>4 DEF Accounted, Owns
  <2> QED
    BY <2>2, <2>3, <2>5
<1> QED
  BY <1>3, <1>5, <1>6, <1>7, <1>8 DEF TradingInv

\* A movement of another component.
LEMMA ElsewhereKeeps ==
    ASSUME TradingInv, NEW p \in Elsewhere, PostElsewhere(p)
    PROVE  /\ TradingInv'
           /\ \A u \in Users :
                 /\ Cash(account'[u]) = Cash(account[u])
                 /\ account'[u].reserved - ReservedElsewhere(account'[u])
                        = account[u].reserved - ReservedElsewhere(account[u])
<1>1. PICK acc, m, new : acc = account[p.user] /\ m = p.move /\ new = Record(acc, m)
  OBVIOUS
<1>2. /\ ~HasKey(acc, m.key) /\ CanPost(acc, m)
      /\ account' = [account EXCEPT ![p.user] = Post(acc, m)]
      /\ UNCHANGED <<order, trade, position, settled, pc, answer, seen>>
  BY <1>1 DEF PostElsewhere
<1>3. /\ p.user \in Users /\ m \in Movements /\ m.dA \in Int /\ m.dR \in Int
      /\ m.key[1] \notin Calls \cup {"settlement"} /\ ~Trading(m)
  BY <1>1, TradingAssumption DEF Movements, Trading
<1>4. acc \in Accounts(Movements) /\ Sound(acc)
  BY <1>1, <1>3 DEF TradingInv, TTypes, AccountsSound
<1>5. Post(acc, m) = new /\ new \in Accounts(Movements) /\ Sound(new) /\ ShapeOK(m)
      /\ \A x : InBook(new, x) <=> InBook(acc, x) \/ x = m
  <2>1. Post(acc, m) = new /\ ShapeOK(m)
    BY <1>1, <1>2 DEF Post, CanPost
  <2>2. Post(acc, m) \in Accounts(Movements) /\ Sound(Post(acc, m))
    BY <1>2, <1>3, <1>4, PostSound
  <2>3. \A x : InBook(Post(acc, m), x) <=> InBook(acc, x) \/ x = m
    BY <1>2, <1>3, <1>4, PostBooks
  <2> QED
    BY <2>1, <2>2, <2>3
<1>6. \A u \in Users : account'[u] = IF u = p.user THEN new ELSE account[u]
  BY <1>2, <1>3, <1>5 DEF TradingInv, TTypes
<1>7. TTypes' /\ AccountsSound' /\ Shaped' /\ SettlementLast' /\ OneOrderForAKey'
  <2>1. TTypes'
    <3>1. account' \in [Users -> Accounts(Movements)]
      BY <1>2, <1>5 DEF TradingInv, TTypes
    <3> QED
      BY <1>2, <3>1 DEF TradingInv, TTypes, RowTypes
  <2>2. AccountsSound'
    BY <1>5, <1>6 DEF TradingInv, AccountsSound
  <2>3. Shaped'
    BY <1>1, <1>5, <1>6 DEF TradingInv, Shaped
  <2>4. SettlementLast'
    BY <1>1, <1>2, <1>3, <1>5, <1>6 DEF TradingInv, SettlementLast
  <2>5. OneOrderForAKey'
    BY <1>2 DEF TradingInv, OneOrderForAKey
  <2> QED
    BY <2>1, <2>2, <2>3, <2>4, <2>5
<1>8. ASSUME NEW c \in Calls PROVE Accounted(c)' /\ OrderInv(c)' /\ CallInv(c)'
  <2>1. OrderInv(c) /\ CallInv(c) /\ Accounted(c)
    BY DEF TradingInv
  <2>2. OrderInv(c)'
    BY <1>2, <2>1 DEF OrderInv
  <2>3. CallInv(c)'
    BY <1>2, <2>1 DEF CallInv
  <2>4. OwnMoves(c)' = OwnMoves(c) /\ m.key[1] # c
    BY <1>2, <1>3 DEF OwnMoves
  <2>5. Accounted(c)'
    BY <1>1, <1>5, <1>6, <2>1, <2>4 DEF Accounted, Owns
  <2> QED
    BY <2>2, <2>3, <2>5
<1>9. /\ Cash(new) = Cash(acc)
      /\ new.reserved - ReservedElsewhere(new) = acc.reserved - ReservedElsewhere(acc)
  <2>1. Cash(new) = Cash(acc) + 0 /\ ReservedElsewhere(new) = ReservedElsewhere(acc) + m.dR
    BY <1>1, <1>3, <1>4, RecordSums
  <2>2. new.reserved = acc.reserved + m.dR
    BY <1>1 DEF Record
  <2>3. Cash(acc) \in Int /\ ReservedElsewhere(acc) \in Int /\ acc.reserved \in Int
    BY <1>4, SumsTyped DEF Accounts
  <2> QED
    BY <1>3, <2>1, <2>2, <2>3
<1> QED
  BY <1>1, <1>6, <1>7, <1>8, <1>9 DEF TradingInv
-----------------------------------------------------------------------------
(* The invariant, and what follows from it                                 *)

LEMMA TradingNext == TradingInv /\ [Next]_vars => TradingInv'
<1> SUFFICES ASSUME TradingInv, [Next]_vars PROVE TradingInv'
  OBVIOUS
<1>1. ASSUME NEW c \in Calls, LookUp(c) PROVE TradingInv'
  BY <1>1, LookUpKeeps
<1>2. ASSUME NEW c \in Calls, Quote(c) PROVE TradingInv'
  BY <1>2, QuoteKeeps
<1>3. ASSUME NEW c \in Calls, Reserve(c) PROVE TradingInv'
  BY <1>3, ReserveKeeps
<1>4. ASSUME NEW c \in Calls, NEW f \in Outcomes, Execute(c, f) PROVE TradingInv'
  BY <1>4, ExecuteKeeps
<1>5. ASSUME NEW c \in Calls, BuildFinalization(c) PROVE TradingInv'
  BY <1>5, BuildKeeps
<1>6. ASSUME NEW c \in Calls, Finalize(c) PROVE TradingInv'
  BY <1>6, FinalizeKeeps
<1>7. ASSUME NEW c \in Calls, FailToFinalize(c) \/ LoseFinalization(c) \/ Crash(c)
      PROVE  TradingInv'
  BY <1>7, GiveUpKeeps
<1>8. ASSUME NEW c \in Calls, Cancel(c) PROVE TradingInv'
  BY <1>8, CancelKeeps
<1>9. ASSUME NEW winner \in Sides \cup {"cancelled"}, Settle(winner) PROVE TradingInv'
  BY <1>9, SettleKeeps
<1>10. ASSUME NEW p \in Elsewhere, PostElsewhere(p) PROVE TradingInv'
  BY <1>10, ElsewhereKeeps
<1>11. CASE UNCHANGED vars
  <2> USE <1>11 DEF vars
  <2>1. TTypes' /\ AccountsSound' /\ Shaped' /\ SettlementLast' /\ OneOrderForAKey'
    BY DEF TradingInv, TTypes, RowTypes, AccountsSound, Shaped, SettlementLast, OneOrderForAKey
  <2>2. ASSUME NEW c \in Calls PROVE Accounted(c)' /\ OrderInv(c)' /\ CallInv(c)'
    <3>1. OrderInv(c) /\ CallInv(c) /\ Accounted(c)
      BY DEF TradingInv
    <3>2. OrderInv(c)'
      BY <3>1 DEF OrderInv
    <3>3. CallInv(c)'
      BY <3>1 DEF CallInv
    <3>4. Accounted(c)'
      BY <3>1 DEF Accounted, OwnMoves
    <3> QED
      BY <3>2, <3>3, <3>4
  <2> QED
    BY <2>1, <2>2 DEF TradingInv
<1> QED
  BY <1>1, <1>2, <1>3, <1>4, <1>5, <1>6, <1>7, <1>8, <1>9, <1>10, <1>11 DEF Next

\* However often a client repeats an order, the venue is asked once for its key.
THEOREM VenueNeverAskedTwice == Spec => []VenueAskedOnce
<1>1. TradingInv => VenueAskedOnce
  BY DEF TradingInv, VenueAskedOnce, OneOrderForAKey, CallInv, Owns
<1> QED
  BY <1>1, TradingInit, TradingNext, PTL DEF Spec

-----------------------------------------------------------------------------
(* Answers                                                                 *)

\* A call answers what the order with its key has come to.
Truthful(c) ==
    /\ pc[c] = "filled" =>
          \E d \in Calls : SameKey(c, d) /\ Request[d] = Request[c] /\ order[d].status \in Filled
    /\ pc[c] = "rejected" =>
          \E d \in Calls : SameKey(c, d) /\ Request[d] = Request[c] /\ order[d].status \in Released

AllTruthful == \A c \in Calls : Truthful(c)

\* An order that has ended stays as it is, and only the call c went on.
LEMMA TruthKept ==
    ASSUME AllTruthful, NEW c \in Calls,
           \A d \in Calls : order[d].status \in Terminal => order'[d] = order[d],
           \A d \in Calls : d # c => pc'[d] = pc[d],
           Truthful(c)'
    PROVE  AllTruthful'
<1>1. ASSUME NEW d \in Calls, d # c PROVE Truthful(d)'
  <2>1. Truthful(d) /\ pc'[d] = pc[d]
    BY <1>1 DEF AllTruthful
  <2>2. \A e \in Calls : /\ SameKey(d, e) /\ order[e].status \in Filled
                                => SameKey(d, e)' /\ order'[e].status \in Filled
                         /\ SameKey(d, e) /\ order[e].status \in Released
                                => SameKey(d, e)' /\ order'[e].status \in Released
    BY DEF SameKey, Terminal
  <2> QED
    BY <2>1, <2>2 DEF Truthful
<1> QED
  BY <1>1 DEF AllTruthful

LEMMA TruthNext == TradingInv /\ AllTruthful /\ [Next]_vars => AllTruthful'
<1> SUFFICES ASSUME TradingInv, AllTruthful, [Next]_vars PROVE AllTruthful'
  OBVIOUS
<1> USE DEF Goto
<1>0. pc \in [Calls -> Answers \cup Stages]
  BY DEF TradingInv, TTypes, RowTypes
<1>1. ASSUME NEW c \in Calls,
             \/ LookUp(c) \/ \E f \in Outcomes : Execute(c, f)
             \/ BuildFinalization(c) \/ FailToFinalize(c) \/ LoseFinalization(c) \/ Crash(c)
      PROVE  AllTruthful'
  <2>1. PICK stage : /\ stage \notin {"filled", "rejected"} /\ order' = order
                     /\ pc' = [pc EXCEPT ![c] = stage]
    BY <1>1 DEF LookUp, Execute, Continue, BuildFinalization, FailToFinalize,
                LoseFinalization, Crash
  <2>2. pc'[c] = stage /\ \A d \in Calls : d # c => pc'[d] = pc[d]
    BY <1>0, <2>1
  <2>3. Truthful(c)'
    BY <2>1, <2>2 DEF Truthful
  <2> QED
    BY <2>1, <2>2, <2>3, TruthKept
<1>2. ASSUME NEW c \in Calls, Quote(c) PROVE AllTruthful'
  <2>1. order' = order
    BY <1>2 DEF Quote
  <2>2. \/ pc' = [pc EXCEPT ![c] = "refused"] \/ pc' = [pc EXCEPT ![c] = "reserve"]
        \/ \E d \in Calls : SameKey(c, d) /\ pc' = [pc EXCEPT ![c] = Replayed(c, d)]
    BY <1>2 DEF Quote
  <2>3. \A d \in Calls : d # c => pc'[d] = pc[d]
    BY <1>0, <2>2
  <2>4. Truthful(c)'
    <3>1. CASE pc' = [pc EXCEPT ![c] = "refused"] \/ pc' = [pc EXCEPT ![c] = "reserve"]
      BY <1>0, <3>1 DEF Truthful
    <3>2. ASSUME NEW d \in Calls, SameKey(c, d), pc' = [pc EXCEPT ![c] = Replayed(c, d)]
          PROVE  Truthful(c)'
      <4>1. pc'[c] = Replayed(c, d)
        BY <1>0, <3>2
      <4>2. SameKey(c, d)' /\ order'[d] = order[d]
        BY <2>1, <3>2 DEF SameKey
      <4>3. /\ pc'[c] = "filled" => Request[d] = Request[c] /\ order[d].status \in Filled
            /\ pc'[c] = "rejected" => Request[d] = Request[c] /\ order[d].status \in Released
        BY <4>1 DEF Replayed, SameRequest
      <4> QED
        BY <4>2, <4>3 DEF Truthful
    <3> QED
      BY <2>2, <3>1, <3>2
  <2> QED
    BY <2>1, <2>3, <2>4, TruthKept
<1>3. ASSUME NEW c \in Calls, Reserve(c) PROVE AllTruthful'
  <2>1. order[c].status = "none"
    BY <1>3 DEF Reserve, TradingInv, CallInv
  <2>2. /\ order' = order \/ order' = [order EXCEPT ![c].status = "execution_pending"]
        /\ \E stage \in {"reconcile", "conflict", "refused", "execute"} :
              pc' = [pc EXCEPT ![c] = stage]
    BY <1>3 DEF Reserve
  <2>3. \A d \in Calls : order[d].status \in Terminal => order'[d] = order[d]
    BY <2>1, <2>2 DEF TradingInv, TTypes, RowTypes, Terminal, Filled, Released
  <2>4. Truthful(c)' /\ \A d \in Calls : d # c => pc'[d] = pc[d]
    BY <1>0, <2>2 DEF Truthful
  <2> QED
    BY <2>3, <2>4, TruthKept
<1>4. ASSUME NEW c \in Calls, Finalize(c) PROVE AllTruthful'
  <2>1. PICK f : f = answer[c]
    OBVIOUS
  <2>2. /\ f.status \in Filled /\ order[c].status = "execution_pending"
        /\ order'[c] = [status |-> f.status, filled |-> f.amount,
                        fee |-> f.fee, released |-> Unused(c, f)]
        /\ pc'[c] \in {"filled", "manual_review"}
        /\ \A d \in Calls : d # c => order'[d] = order[d] /\ pc'[d] = pc[d]
    BY <1>4, <2>1, FinalizeRows
  <2>3. \A d \in Calls : order[d].status \in Terminal => order'[d] = order[d]
    BY <2>2 DEF Terminal, Filled, Released
  <2>4. Truthful(c)'
    <3>1. order'[c].status \in Filled /\ SameKey(c, c)'
      BY <2>2 DEF SameKey, Filled
    <3> QED
      BY <2>2, <3>1 DEF Truthful
  <2> QED
    BY <2>2, <2>3, <2>4, TruthKept
<1>5. ASSUME NEW c \in Calls, Cancel(c) PROVE AllTruthful'
  <2>1. /\ pc[c] \in {"failed", "cancelled", "manual_review"}
        /\ pc' = [pc EXCEPT ![c] = IF pc[c] \in Released THEN "rejected" ELSE "reconcile"]
    BY <1>5 DEF Cancel
  <2>2. /\ \A d \in Calls : d # c => pc'[d] = pc[d]
        /\ pc'[c] = IF pc[c] \in Released THEN "rejected" ELSE "reconcile"
    BY <1>0, <2>1
  <2>3. CASE Ended(order[c].status)
    <3>1. order' = order
      BY <1>5, <2>3 DEF Cancel
    <3>2. pc[c] \notin Released
      <4>1. CallInv(c)
        BY DEF TradingInv
      <4> QED
        BY <2>3, <4>1 DEF CallInv, Ended, Terminal, Filled, Released
    <3>3. Truthful(c)'
      BY <2>2, <3>2 DEF Truthful
    <3> QED
      BY <2>2, <3>1, <3>3, TruthKept
  <2>4. CASE ~Ended(order[c].status)
    <3>1. /\ order'[c] = [status |-> pc[c], filled |-> 0, fee |-> 0,
                          released |-> IF pc[c] \in Released THEN ReserveOf(c) ELSE 0]
          /\ \A d \in Calls : d # c => order'[d] = order[d]
      BY <1>5, <2>4, CancelRows
    <3>2. \A d \in Calls : order[d].status \in Terminal => order'[d] = order[d]
      BY <2>4, <3>1 DEF Ended
    <3>3. Truthful(c)'
      <4>1. pc'[c] = "rejected" => order'[c].status \in Released /\ SameKey(c, c)'
        BY <2>2, <3>1 DEF SameKey, Released
      <4>2. pc'[c] # "filled"
        BY <2>2
      <4> QED
        BY <4>1, <4>2 DEF Truthful
    <3> QED
      BY <2>2, <3>2, <3>3, TruthKept
  <2> QED
    BY <2>3, <2>4
<1>6. ASSUME UNCHANGED <<order, pc>> PROVE AllTruthful'
  BY <1>6 DEF AllTruthful, Truthful, SameKey
<1>7. ASSUME \/ \E winner \in Sides \cup {"cancelled"} : Settle(winner)
             \/ \E p \in Elsewhere : PostElsewhere(p)
             \/ UNCHANGED vars
      PROVE  UNCHANGED <<order, pc>>
  BY <1>7 DEF Settle, PostElsewhere, vars
<1> QED
  BY <1>1, <1>2, <1>3, <1>4, <1>5, <1>6, <1>7 DEF Next

\* "filled" and "rejected" are answered to those only whose very order was filled,
\* or ended without a trade.
THEOREM AnswersAlwaysTruthful == Spec => []AnswersTruthful
<1>1. Init => AllTruthful
  BY DEF Init, AllTruthful, Truthful
<1>2. TradingInv /\ AllTruthful => AnswersTruthful
  <2> SUFFICES ASSUME TradingInv, AllTruthful, NEW c \in Calls
               PROVE  /\ pc[c] = "filled" =>
                            \E d \in Calls : SameKey(c, d) /\ Request[d] = Request[c]
                                             /\ order[d].status \in Filled /\ trade[d].shares > 0
                      /\ pc[c] = "rejected" =>
                            \E d \in Calls : SameKey(c, d) /\ Request[d] = Request[c]
                                             /\ order[d].status \in Released /\ trade[d] = NoTrade
    BY DEF AnswersTruthful
  <2>1. ASSUME NEW d \in Calls, order[d].status \in Filled PROVE trade[d].shares > 0
    <3>1. OrderInv(d)
      BY DEF TradingInv
    <3> QED
      BY <2>1, <3>1 DEF OrderInv, Acceptable
  <2>2. ASSUME NEW d \in Calls, order[d].status \in Released PROVE trade[d] = NoTrade
    BY <2>2 DEF TradingInv, OrderInv, Released, Filled
  <2>3. Truthful(c)
    BY DEF AllTruthful
  <2> QED
    BY <2>1, <2>2, <2>3 DEF Truthful
<1> QED
  BY <1>1, <1>2, TradingInit, TradingNext, TruthNext, PTL DEF Spec
-----------------------------------------------------------------------------
(* What is reserved                                                        *)

\* What is held for a user is at least what is held for each of its orders.
LEMMA HeldTyped ==
    ASSUME TradingInv, NEW u \in Users
    PROVE  /\ Held(u) \in Nat
           /\ \A c \in Calls : Owns(c, u) => HeldFor(c) \in Nat /\ HeldFor(c) <= Held(u)
<1>1. PICK f : f = [c \in Calls |-> IF ActiveOrder(c) /\ Owns(c, u) THEN ReserveOf(c) ELSE 0]
  OBVIOUS
<1>2. \A c \in Calls : f[c] = IF ActiveOrder(c) /\ Owns(c, u) THEN ReserveOf(c) ELSE 0
  BY <1>1
<1>3. Held(u) = SumFunctionOnSet(f, Calls)
  BY <1>1 DEF Held
<1>4. \A c \in Calls : f[c] \in Nat /\ (Owns(c, u) => f[c] = HeldFor(c))
  BY <1>2, RequestTyped DEF HeldFor
<1>5. SumFunctionOnSet(f, Calls) \in Nat /\ \A c \in Calls : f[c] <= SumFunctionOnSet(f, Calls)
  BY <1>4, TradingAssumption, SumNonNegative
<1> QED
  BY <1>3, <1>4, <1>5

\* A step of one call changes the sums of its user by what it books.
LEMMA ChangedSums ==
    ASSUME TradingInv, NEW c \in Calls, NEW new, NEW M, NEW a, NEW r, Changed(c, new, M, a, r),
           NEW u \in Users
    PROVE  /\ Held(u)' = Held(u) + (IF u = Request[c].user THEN r ELSE 0)
           /\ Cash(account'[u]) = Cash(account[u]) + (IF u = Request[c].user THEN a ELSE 0)
           /\ account'[u].reserved
                  = account[u].reserved + (IF u = Request[c].user THEN r ELSE 0)
           /\ ReservedElsewhere(account'[u]) = ReservedElsewhere(account[u])
           /\ Cash(account[u]) \in Int /\ ReservedElsewhere(account[u]) \in Int
           /\ account[u].reserved \in Int /\ a \in Int /\ r \in Int
<1> DEFINE owner == Request[c].user
<1>1. /\ a \in Int /\ r \in Int /\ HeldFor(c)' = HeldFor(c) + r /\ owner \in Users
      /\ Entered(account[owner], new, M, a, r)
      /\ account' = [account EXCEPT ![owner] = new]
      /\ \A d \in Calls : d # c => order'[d] = order[d]
  BY RequestTyped DEF Changed, StepOf
<1>2. account[u] \in Accounts(Movements) /\ account \in [Users -> Accounts(Movements)]
  BY DEF TradingInv, TTypes
<1>3. /\ Cash(account[u]) \in Int /\ ReservedElsewhere(account[u]) \in Int
      /\ account[u].reserved \in Int
  BY <1>2, SumsTyped DEF Accounts
<1>4. account'[u] = IF u = owner THEN new ELSE account[u]
  BY <1>1, <1>2
<1>5. /\ Cash(account'[u]) = Cash(account[u]) + (IF u = owner THEN a ELSE 0)
      /\ account'[u].reserved = account[u].reserved + (IF u = owner THEN r ELSE 0)
      /\ ReservedElsewhere(account'[u]) = ReservedElsewhere(account[u])
  <2>1. CASE u = owner
    BY <1>1, <1>4, <2>1 DEF Entered
  <2>2. CASE u # owner
    BY <1>3, <1>4, <2>2
  <2> QED
    BY <2>1, <2>2
<1>6. Held(u)' = Held(u) + (IF u = owner THEN r ELSE 0)
  <2>1. PICK f, g :
            /\ f = [d \in Calls |-> IF ActiveOrder(d) /\ Owns(d, u) THEN ReserveOf(d) ELSE 0]
            /\ g = [d \in Calls |-> IF ActiveOrder(d)' /\ Owns(d, u) THEN ReserveOf(d) ELSE 0]
    OBVIOUS
  <2>2. Held(u) = SumFunctionOnSet(f, Calls) /\ Held(u)' = SumFunctionOnSet(g, Calls)
    BY <2>1 DEF Held, Owns
  <2>3. \A d \in Calls :
            /\ f[d] = IF ActiveOrder(d) /\ Owns(d, u) THEN ReserveOf(d) ELSE 0
            /\ g[d] = IF ActiveOrder(d)' /\ Owns(d, u) THEN ReserveOf(d) ELSE 0
    BY <2>1
  <2>4. \A d \in Calls : f[d] \in Int /\ g[d] \in Int /\ (d # c => g[d] = f[d])
    BY <1>1, <2>3, RequestTyped DEF ActiveOrder
  <2>5. g[c] - f[c] = IF u = owner THEN r ELSE 0
    <3>1. CASE u = owner
      <4>1. f[c] = HeldFor(c) /\ g[c] = HeldFor(c)'
        BY <2>3, <3>1 DEF HeldFor, Owns
      <4> QED
        BY <1>1, <2>4, <3>1, <4>1
    <3>2. CASE u # owner
      BY <2>3, <3>2 DEF Owns
    <3> QED
      BY <3>1, <3>2
  <2>6. /\ SumFunctionOnSet(f, Calls) \in Int
        /\ SumFunctionOnSet(g, Calls) = SumFunctionOnSet(f, Calls) + g[c] - f[c]
    BY <2>4, TradingAssumption, SumUpdated
  <2> QED
    BY <1>1, <2>2, <2>4, <2>5, <2>6
<1> QED
  BY <1>1, <1>3, <1>5, <1>6

LEMMA ChangedBacked ==
    ASSUME TradingInv, ReserveBacked, NEW c \in Calls, NEW new, NEW M, NEW a, NEW r,
           Changed(c, new, M, a, r)
    PROVE  ReserveBacked'
<1> SUFFICES ASSUME NEW u \in Users
             PROVE  account'[u].reserved = Held(u)' + ReservedElsewhere(account'[u])
  BY DEF ReserveBacked
<1>1. account[u].reserved = Held(u) + ReservedElsewhere(account[u]) /\ Held(u) \in Nat
  BY HeldTyped DEF ReserveBacked
<1>2. /\ Held(u)' = Held(u) + (IF u = Request[c].user THEN r ELSE 0)
      /\ account'[u].reserved = account[u].reserved + (IF u = Request[c].user THEN r ELSE 0)
      /\ ReservedElsewhere(account'[u]) = ReservedElsewhere(account[u])
      /\ ReservedElsewhere(account[u]) \in Int /\ r \in Int
  BY ChangedSums
<1> QED
  BY <1>1, <1>2

\* Where neither accounts nor orders change, nor do the sums.
LEMMA SameOrdersHold ==
    ASSUME order' = order, NEW u \in Users
    PROVE  Held(u)' = Held(u)
  BY DEF Held, ActiveOrder, Owns

\* Coins set aside are set aside for orders that have not ended, or for other
\* components: no order pays from what another has reserved.
THEOREM ReserveAlwaysBacked == Spec => []ReserveBacked
<1>1. Init => ReserveBacked
  <2> SUFFICES ASSUME Init, NEW u \in Users
               PROVE  account[u].reserved = Held(u) + ReservedElsewhere(account[u])
    BY DEF ReserveBacked
  <2>1. account[u] = EmptyAccount /\ \A c \in Calls : order[c] = NoOrder
    BY DEF Init
  <2>2. PICK f : f = [c \in Calls |-> IF ActiveOrder(c) /\ Owns(c, u) THEN ReserveOf(c) ELSE 0]
    OBVIOUS
  <2>3. \A c \in Calls : f[c] = 0
    BY <2>1, <2>2 DEF ActiveOrder, NoOrder, Active
  <2>4. SumFunctionOnSet(f, Calls) = 0
    BY <2>3, TradingAssumption, SumOfZeros
  <2>5. Held(u) = 0
    BY <2>2, <2>4 DEF Held
  <2>6. ReservedElsewhere(account[u]) = 0 /\ account[u].reserved = 0
    <3>1. DOMAIN EmptyAccount.entries = {}
      BY DEF EmptyAccount
    <3> QED
      BY <2>1, <3>1, SumOfNone DEF ReservedElsewhere, EmptyAccount
  <2> QED
    BY <2>5, <2>6
<1>2. TradingInv /\ ReserveBacked /\ [Next]_vars => ReserveBacked'
  <2> SUFFICES ASSUME TradingInv, ReserveBacked, [Next]_vars PROVE ReserveBacked'
    OBVIOUS
  <2>1. ASSUME UNCHANGED <<account, order>> PROVE ReserveBacked'
    BY <2>1, SameOrdersHold DEF ReserveBacked
  <2>2. ASSUME NEW c \in Calls, Reserve(c) \/ Cancel(c) \/ Finalize(c) PROVE ReserveBacked'
    <3>1. \/ Idle
          \/ \E new, M : \E a, r : Changed(c, new, M, a, r)
      BY <2>2, ReserveKeeps, CancelKeeps, FinalizeKeeps
    <3> QED
      BY <2>1, <3>1, ChangedBacked DEF Idle
  <2>3. ASSUME NEW winner, Settle(winner) PROVE ReserveBacked'
    <3> SUFFICES ASSUME NEW u \in Users
                 PROVE  account'[u].reserved = Held(u)' + ReservedElsewhere(account'[u])
      BY DEF ReserveBacked
    <3>1. PICK M : Entered(account[u], account'[u], M,
                           position[u]["no"].cost + position[u]["yes"].cost, 0)
      BY <2>3, SettleKeeps
    <3>2. account[u].reserved \in Int
      BY DEF TradingInv, TTypes, Accounts
    <3>3. Held(u)' = Held(u)
      BY <2>3, SameOrdersHold DEF Settle
    <3> QED
      BY <3>1, <3>2, <3>3 DEF Entered, ReserveBacked
  <2>4. ASSUME NEW p \in Elsewhere, PostElsewhere(p) PROVE ReserveBacked'
    <3> SUFFICES ASSUME NEW u \in Users
                 PROVE  account'[u].reserved = Held(u)' + ReservedElsewhere(account'[u])
      BY DEF ReserveBacked
    <3>1. account'[u].reserved - ReservedElsewhere(account'[u])
              = account[u].reserved - ReservedElsewhere(account[u])
      BY <2>4, ElsewhereKeeps
    <3>2. /\ account[u] \in Accounts(Movements)
          /\ account'[u] \in Accounts(Movements)
      BY <2>4, ElsewhereKeeps DEF TradingInv, TTypes
    <3>3. /\ account[u].reserved \in Int /\ ReservedElsewhere(account[u]) \in Int
          /\ account'[u].reserved \in Int /\ ReservedElsewhere(account'[u]) \in Int
      BY <3>2, SumsTyped DEF Accounts
    <3>4. Held(u)' = Held(u) /\ Held(u) \in Nat
      BY <2>4, SameOrdersHold, HeldTyped DEF PostElsewhere
    <3>5. account[u].reserved = Held(u) + ReservedElsewhere(account[u])
      BY DEF ReserveBacked
    <3> QED
      BY <3>1, <3>3, <3>4, <3>5
  <2>5. ASSUME \/ UNCHANGED vars
               \/ \E c \in Calls :
                     \/ LookUp(c) \/ Quote(c) \/ \E f \in Outcomes : Execute(c, f)
                     \/ BuildFinalization(c) \/ FailToFinalize(c) \/ LoseFinalization(c)
                     \/ Crash(c)
        PROVE  UNCHANGED <<account, order>>
    BY <2>5 DEF vars, LookUp, Quote, Execute, BuildFinalization, FailToFinalize,
                LoseFinalization, Crash
  <2> QED
    BY <2>1, <2>2, <2>3, <2>4, <2>5 DEF Next
<1> QED
  BY <1>1, <1>2, TradingInit, TradingNext, PTL DEF Spec
-----------------------------------------------------------------------------
(* Positions                                                               *)

\* The sums of an order's shares and cost, which are integers.
LEMMA TradeTyped ==
    ASSUME TradingInv, NEW c \in Calls
    PROVE  /\ SharesOf(c) \in Int /\ CostOf(c) \in Int
           /\ order[c].status \notin Filled => SharesOf(c) = 0 /\ CostOf(c) = 0
<1>1. trade[c] \in [shares : Nat, amount : Nat, fee : Nat, basis : Nat]
  BY DEF TradingInv, TTypes, RowTypes
<1>2. SharesOf(c) \in Int /\ CostOf(c) \in Int
  BY <1>1, RequestTyped DEF SharesOf, CostOf
<1>3. order[c].status \notin Filled => trade[c] = NoTrade
  BY DEF TradingInv, OrderInv
<1> QED
  BY <1>2, <1>3 DEF SharesOf, CostOf, NoTrade

\* The trade of c is added to the sums of its side.
LEMMA FinalizedPosition ==
    ASSUME TradingInv, NEW c \in Calls, Finalize(c), NEW u \in Users, NEW s \in Sides,
           position[u][s].shares =
                SumFunctionOnSet([d \in Calls |-> IF On(d, u, s) THEN SharesOf(d) ELSE 0], Calls),
           position[u][s].cost =
                SumFunctionOnSet([d \in Calls |-> IF On(d, u, s) THEN CostOf(d) ELSE 0], Calls)
    PROVE  /\ position'[u][s].shares =
                SumFunctionOnSet([d \in Calls |-> IF On(d, u, s) THEN SharesOf(d)' ELSE 0], Calls)
           /\ position'[u][s].cost =
                SumFunctionOnSet([d \in Calls |-> IF On(d, u, s) THEN CostOf(d)' ELSE 0], Calls)
<1>1. PICK f, p, moved : /\ f = answer[c] /\ p = OwnPosition(c) /\ moved = Moved(c, p, f)
  OBVIOUS
<1>2. /\ f \in Outcomes /\ Acceptable(c, f) /\ order[c].status = "execution_pending"
      /\ (Buys(c) \/ f.shares <= p.shares)
      /\ trade'[c] = [shares |-> f.shares, amount |-> f.amount, fee |-> f.fee,
                      basis |-> IF Buys(c) THEN 0 ELSE Basis(p, f)]
      /\ position' = [position EXCEPT ![Request[c].user][Request[c].side] = moved]
      /\ \A d \in Calls : d # c => trade'[d] = trade[d]
  <2>1. /\ f \in Outcomes /\ Acceptable(c, f) /\ order[c].status = "execution_pending"
        /\ (Buys(c) \/ f.shares <= OwnPosition(c).shares)
        /\ trade'[c] = [shares |-> f.shares, amount |-> f.amount, fee |-> f.fee,
                        basis |-> IF Buys(c) THEN 0 ELSE Basis(OwnPosition(c), f)]
        /\ PositionBecomes(c, Moved(c, OwnPosition(c), f))
        /\ \A d \in Calls : d # c => trade'[d] = trade[d]
    BY <1>1, FinalizeRows
  <2> QED
    BY <1>1, <2>1 DEF PositionBecomes
<1>3. p \in [shares : Nat, cost : Nat] /\ position[u][s] \in [shares : Nat, cost : Nat]
      /\ position \in [Users -> [Sides -> [shares : Nat, cost : Nat]]]
  BY <1>1, RequestTyped DEF TradingInv, TTypes, RowTypes, OwnPosition
<1> DEFINE addShares == IF Buys(c) THEN f.shares ELSE -f.shares
           addCost == IF Buys(c) THEN f.amount ELSE -Basis(p, f)
<1>4. /\ moved.shares = p.shares + addShares /\ moved.cost = p.cost + addCost
      /\ addShares \in Int /\ addCost \in Int
  <2>1. /\ ~Buys(c) => Basis(p, f) \in 0 .. p.cost
        /\ moved.shares = p.shares + addShares /\ moved.cost = p.cost + addCost
    BY <1>1, <1>2, <1>3, MovedPosition
  <2> QED
    BY <1>2, <1>3, <2>1, FillTyped, RequestTyped
<1>5. /\ SharesOf(c)' = addShares /\ CostOf(c)' = addCost
      /\ SharesOf(c) = 0 /\ CostOf(c) = 0
  BY <1>2, TradeTyped DEF SharesOf, CostOf, Filled
<1> HIDE DEF addShares, addCost
<1>6. /\ On(c, u, s) => p = position[u][s] /\ position'[u][s] = moved
      /\ ~On(c, u, s) => position'[u][s] = position[u][s]
  BY <1>1, <1>2, <1>3, RequestTyped DEF On, Owns, OwnPosition
<1>7. PICK h, k, x, y :
          /\ h = [d \in Calls |-> IF On(d, u, s) THEN SharesOf(d) ELSE 0]
          /\ k = [d \in Calls |-> IF On(d, u, s) THEN SharesOf(d)' ELSE 0]
          /\ x = [d \in Calls |-> IF On(d, u, s) THEN CostOf(d) ELSE 0]
          /\ y = [d \in Calls |-> IF On(d, u, s) THEN CostOf(d)' ELSE 0]
  OBVIOUS
<1>8. \A d \in Calls :
          /\ h[d] = (IF On(d, u, s) THEN SharesOf(d) ELSE 0)
          /\ k[d] = (IF On(d, u, s) THEN SharesOf(d)' ELSE 0)
          /\ x[d] = (IF On(d, u, s) THEN CostOf(d) ELSE 0)
          /\ y[d] = (IF On(d, u, s) THEN CostOf(d)' ELSE 0)
  BY <1>7
<1>9. \A d \in Calls : d # c => SharesOf(d)' = SharesOf(d) /\ CostOf(d)' = CostOf(d)
  BY <1>2 DEF SharesOf, CostOf
<1>10. /\ k[c] \in Int /\ y[c] \in Int
       /\ \A d \in Calls : h[d] \in Int /\ x[d] \in Int /\ (d # c => k[d] = h[d] /\ y[d] = x[d])
       /\ h[c] = 0 /\ x[c] = 0
       /\ k[c] = (IF On(c, u, s) THEN addShares ELSE 0)
       /\ y[c] = (IF On(c, u, s) THEN addCost ELSE 0)
  BY <1>4, <1>5, <1>8, <1>9, TradeTyped
<1>11. /\ SumFunctionOnSet(h, Calls) \in Int /\ SumFunctionOnSet(x, Calls) \in Int
       /\ SumFunctionOnSet(k, Calls) = SumFunctionOnSet(h, Calls) + k[c] - h[c]
       /\ SumFunctionOnSet(y, Calls) = SumFunctionOnSet(x, Calls) + y[c] - x[c]
  BY <1>10, TradingAssumption, SumUpdated
<1>12. /\ position[u][s].shares = SumFunctionOnSet(h, Calls)
       /\ position[u][s].cost = SumFunctionOnSet(x, Calls)
  BY <1>7
<1>13. /\ position'[u][s].shares = SumFunctionOnSet(k, Calls)
       /\ position'[u][s].cost = SumFunctionOnSet(y, Calls)
  BY <1>4, <1>6, <1>10, <1>11, <1>12
<1> QED
  BY <1>7, <1>13

\* Until the market is settled, a position is what its trades bought and sold, and
\* cost what they paid for it, however the orders overlapped.
THEOREM PositionAlwaysMatchesTrades == Spec => []PositionMatchesTrades
<1>1. Init => PositionMatchesTrades
  <2> SUFFICES ASSUME Init, NEW u \in Users, NEW s \in Sides
               PROVE  /\ position[u][s].shares = SumFunctionOnSet(
                            [c \in Calls |-> IF On(c, u, s) THEN SharesOf(c) ELSE 0], Calls)
                      /\ position[u][s].cost = SumFunctionOnSet(
                            [c \in Calls |-> IF On(c, u, s) THEN CostOf(c) ELSE 0], Calls)
    BY DEF PositionMatchesTrades
  <2>1. /\ position[u][s] = NoPosition
        /\ \A c \in Calls : SharesOf(c) = 0 /\ CostOf(c) = 0
    BY DEF Init, SharesOf, CostOf, NoTrade
  <2>2. PICK f, g : /\ f = [c \in Calls |-> IF On(c, u, s) THEN SharesOf(c) ELSE 0]
                    /\ g = [c \in Calls |-> IF On(c, u, s) THEN CostOf(c) ELSE 0]
    OBVIOUS
  <2>3. \A c \in Calls : f[c] = 0 /\ g[c] = 0
    BY <2>1, <2>2
  <2>4. SumFunctionOnSet(f, Calls) = 0 /\ SumFunctionOnSet(g, Calls) = 0
    BY <2>3, TradingAssumption, SumOfZeros
  <2> QED
    BY <2>1, <2>2, <2>4 DEF NoPosition
<1>2. TradingInv /\ PositionMatchesTrades /\ [Next]_vars => PositionMatchesTrades'
  <2> SUFFICES ASSUME TradingInv, PositionMatchesTrades, [Next]_vars
               PROVE  PositionMatchesTrades'
    OBVIOUS
  <2>1. ASSUME UNCHANGED <<trade, position, settled>> PROVE PositionMatchesTrades'
    BY <2>1 DEF PositionMatchesTrades, On, Owns, SharesOf, CostOf
  <2>2. ASSUME NEW c \in Calls, Finalize(c) PROVE PositionMatchesTrades'
    <3>1. ~settled
      BY <2>2 DEF Finalize, CanFinalize, MarketOpen
    <3>2. ASSUME NEW u \in Users, NEW s \in Sides
          PROVE  /\ position'[u][s].shares = SumFunctionOnSet(
                       [d \in Calls |-> IF On(d, u, s) THEN SharesOf(d)' ELSE 0], Calls)
                 /\ position'[u][s].cost = SumFunctionOnSet(
                       [d \in Calls |-> IF On(d, u, s) THEN CostOf(d)' ELSE 0], Calls)
      BY <2>2, <3>1, FinalizedPosition DEF PositionMatchesTrades
    <3> QED
      BY <3>2 DEF PositionMatchesTrades, On, Owns
  <2>3. ASSUME NEW winner, Settle(winner) PROVE PositionMatchesTrades'
    BY <2>3 DEF Settle, PositionMatchesTrades
  <2>4. ASSUME NEW c \in Calls, Reserve(c) \/ Cancel(c) PROVE UNCHANGED <<trade, position, settled>>
    BY <2>4 DEF Reserve, Cancel
  <2>5. ASSUME \/ UNCHANGED vars
               \/ \E c \in Calls :
                     \/ LookUp(c) \/ Quote(c) \/ \E f \in Outcomes : Execute(c, f)
                     \/ BuildFinalization(c) \/ FailToFinalize(c) \/ LoseFinalization(c)
                     \/ Crash(c)
               \/ \E p \in Elsewhere : PostElsewhere(p)
        PROVE  UNCHANGED <<trade, position, settled>>
    BY <2>5 DEF vars, LookUp, Quote, Execute, BuildFinalization, FailToFinalize,
                LoseFinalization, Crash, PostElsewhere
  <2> QED
    BY <2>1, <2>2, <2>3, <2>4, <2>5 DEF Next
<1> QED
  BY <1>1, <1>2, TradingInit, TradingNext, PTL DEF Spec
-----------------------------------------------------------------------------
(* The promise of TradeBook                                                *)

\* What TradeBook sees of a state.
BookOf(k, h, t) ==
    /\ k = [u \in Users |-> Cash(account[u])]
    /\ h = [u \in Users |-> Held(u)]
    /\ t = [u \in Users |-> [s \in Sides |-> position[u][s].cost]]

LEMMA BookTyped ==
    ASSUME TradingInv, NEW k, NEW h, NEW t, BookOf(k, h, t)
    PROVE  /\ k \in [Users -> Int] /\ h \in [Users -> Nat] /\ t \in [Users -> [Sides -> Nat]]
           /\ \A u \in Users : k[u] = Cash(account[u]) /\ h[u] = Held(u)
                               /\ \A s \in Sides : t[u][s] = position[u][s].cost
<1>1. \A u \in Users : Cash(account[u]) \in Int
  BY SumsTyped DEF TradingInv, TTypes
<1>2. \A u \in Users : Held(u) \in Nat
  BY HeldTyped
<1>3. \A u \in Users, s \in Sides : position[u][s].cost \in Nat
  BY DEF TradingInv, TTypes, RowTypes
<1> QED
  BY <1>1, <1>2, <1>3 DEF BookOf

\* A step of one call moves the cash and the held Coins of its user.
LEMMA BookMoves ==
    ASSUME TradingInv, NEW c \in Calls, NEW new, NEW M, NEW a, NEW r, Changed(c, new, M, a, r),
           NEW k, NEW h, NEW t, BookOf(k, h, t), NEW x, NEW y, NEW z, BookOf(x, y, z)',
           NEW o, o = Request[c].user
    PROVE  /\ o \in Users /\ a \in Int /\ r \in Int
           /\ x = [k EXCEPT ![o] = @ + a] /\ y = [h EXCEPT ![o] = @ + r]
           /\ x[o] = k[o] + a /\ y[o] = h[o] + r /\ k[o] \in Int /\ h[o] \in Nat
           /\ HeldFor(c) \in Nat /\ HeldFor(c) <= h[o]
<1>1. /\ k \in [Users -> Int] /\ h \in [Users -> Nat] /\ o \in Users
      /\ \A u \in Users : k[u] = Cash(account[u]) /\ h[u] = Held(u)
  BY BookTyped, RequestTyped
<1>2. HeldFor(c) \in Nat /\ HeldFor(c) <= h[o]
  BY <1>1, HeldTyped DEF Owns
<1>3. /\ x = [u \in Users |-> Cash(account'[u])] /\ y = [u \in Users |-> Held(u)']
  BY DEF BookOf
<1>4. \A u \in Users : /\ x[u] = k[u] + (IF u = o THEN a ELSE 0)
                       /\ y[u] = h[u] + (IF u = o THEN r ELSE 0)
  BY <1>1, <1>3, ChangedSums
<1>5. a \in Int /\ r \in Int
  BY DEF Changed
<1>6. \A u \in Users : k[u] \in Int /\ h[u] \in Nat
  BY <1>1
<1>7. \A u \in Users : /\ x[u] = (IF u = o THEN k[u] + a ELSE k[u])
                       /\ y[u] = (IF u = o THEN h[u] + r ELSE h[u])
  BY <1>4, <1>5, <1>6
<1>8. x = [k EXCEPT ![o] = k[o] + a] /\ y = [h EXCEPT ![o] = h[o] + r]
  <2>1. PICK v, w : v = [k EXCEPT ![o] = k[o] + a] /\ w = [h EXCEPT ![o] = h[o] + r]
    OBVIOUS
  <2>2. /\ \A u \in Users : v[u] = x[u] /\ w[u] = y[u]
        /\ DOMAIN v = Users /\ DOMAIN w = Users
        /\ v = [u \in Users |-> v[u]] /\ w = [u \in Users |-> w[u]]
    BY <1>1, <1>7, <2>1
  <2>3. x = [u \in Users |-> x[u]] /\ y = [u \in Users |-> y[u]]
    BY <1>3
  <2>4. v = x /\ w = y
    BY <2>2, <2>3
  <2> QED
    BY <2>1, <2>4
<1> QED
  BY <1>1, <1>2, <1>5, <1>6, <1>7, <1>8

LEMMA BookIdle ==
    ASSUME TradingInv, NEW c \in Calls, NEW new, NEW M, Changed(c, new, M, 0, 0),
           UNCHANGED <<position, settled>>
    PROVE  UNCHANGED Book!vars
<1>1. PICK k, h, t : BookOf(k, h, t)
  BY DEF BookOf
<1>2. PICK x, y, z : BookOf(x, y, z)'
  BY DEF BookOf
<1>3. PICK o : o = Request[c].user
  OBVIOUS
<1>4. /\ x = [k EXCEPT ![o] = k[o] + 0] /\ y = [h EXCEPT ![o] = h[o] + 0]
      /\ k[o] \in Int /\ h[o] \in Nat /\ o \in Users
  BY <1>1, <1>2, <1>3, BookMoves
<1>5. k \in [Users -> Int] /\ h \in [Users -> Nat]
  BY <1>1, BookTyped
<1>6. x = k /\ y = h
  BY <1>4, <1>5
<1> QED
  BY <1>1, <1>2, <1>6 DEF BookOf, Book!vars

LEMMA BookHold ==
    ASSUME TradingInv, NEW c \in Calls, Buys(c), ~settled, UNCHANGED <<position, settled>>,
           NEW new, NEW M, Changed(c, new, M, -ReserveOf(c), ReserveOf(c))
    PROVE  Book!Hold(Request[c].user)
<1>1. PICK k, h, t : BookOf(k, h, t)
  BY DEF BookOf
<1>2. PICK x, y, z : BookOf(x, y, z)'
  BY DEF BookOf
<1>3. PICK o, r : o = Request[c].user /\ r = ReserveOf(c)
  OBVIOUS
<1>4. /\ x = [k EXCEPT ![o] = @ + (-r)] /\ y = [h EXCEPT ![o] = @ + r]
      /\ y[o] = h[o] + r /\ h[o] \in Nat /\ o \in Users
  BY <1>1, <1>2, <1>3, BookMoves
<1>5. r \in Nat /\ r > 0
  BY <1>3, RequestTyped
<1>6. y[o] > h[o] /\ h[o] - y[o] = -r /\ y[o] - h[o] = r
  BY <1>4, <1>5
<1>7. x = [k EXCEPT ![o] = @ + (h[o] - y[o])] /\ y = [h EXCEPT ![o] = @ + (y[o] - h[o])]
  BY <1>4, <1>6
<1>8. z = t
  BY <1>1, <1>2 DEF BookOf
<1> QED
  BY <1>1, <1>2, <1>3, <1>6, <1>7, <1>8 DEF BookOf, Book!Hold, Book!Move

LEMMA BookReturn ==
    ASSUME TradingInv, NEW c \in Calls, Buys(c), UNCHANGED <<position, settled>>,
           NEW new, NEW M, Changed(c, new, M, ReserveOf(c), -ReserveOf(c)),
           HeldFor(c) = ReserveOf(c)
    PROVE  Book!Return(Request[c].user)
<1>1. PICK k, h, t : BookOf(k, h, t)
  BY DEF BookOf
<1>2. PICK x, y, z : BookOf(x, y, z)'
  BY DEF BookOf
<1>3. PICK o, r : o = Request[c].user /\ r = ReserveOf(c)
  OBVIOUS
<1>4. /\ x = [k EXCEPT ![o] = @ + r] /\ y = [h EXCEPT ![o] = @ + (-r)]
      /\ x[o] = k[o] + r /\ k[o] \in Int /\ h[o] \in Nat /\ o \in Users
      /\ r <= h[o]
  BY <1>1, <1>2, <1>3, BookMoves
<1>5. r \in Nat /\ r > 0
  BY <1>3, RequestTyped
<1>6. x[o] - k[o] = r /\ r \in 1 .. h[o]
  BY <1>4, <1>5
<1>7. /\ x[o] - k[o] \in 1 .. h[o]
      /\ x = [k EXCEPT ![o] = @ + (x[o] - k[o])]
      /\ y = [h EXCEPT ![o] = @ + (-(x[o] - k[o]))]
  BY <1>4, <1>6
<1>8. z = t
  BY <1>1, <1>2 DEF BookOf
<1> QED
  BY <1>1, <1>2, <1>3, <1>7, <1>8 DEF BookOf, Book!Return, Book!Move

\* What a finalisation makes of the stakes.
LEMMA BookStake ==
    ASSUME TradingInv, NEW c \in Calls, Finalize(c), NEW f, f = answer[c],
           NEW k, NEW h, NEW t, BookOf(k, h, t), NEW x, NEW y, NEW z, BookOf(x, y, z)',
           NEW o, o = Request[c].user, NEW s, s = Request[c].side
    PROVE  /\ o \in Users /\ s \in Sides /\ t[o][s] \in Nat /\ z[o][s] \in Nat
           /\ z = [t EXCEPT ![o][s] = z[o][s]]
           /\ Buys(c) => z[o][s] = t[o][s] + f.amount
           /\ ~Buys(c) => z[o][s] <= t[o][s]
<1>1. PICK p, moved : p = OwnPosition(c) /\ moved = Moved(c, p, f)
  OBVIOUS
<1>2. /\ f \in Outcomes /\ Acceptable(c, f) /\ (Buys(c) \/ f.shares <= p.shares)
      /\ PositionBecomes(c, moved)
  <2>1. /\ f \in Outcomes /\ Acceptable(c, f) /\ (Buys(c) \/ f.shares <= OwnPosition(c).shares)
        /\ PositionBecomes(c, Moved(c, OwnPosition(c), f))
    BY FinalizeRows
  <2> QED
    BY <1>1, <2>1
<1>3. /\ o \in Users /\ s \in Sides /\ p = position[o][s] /\ p \in [shares : Nat, cost : Nat]
      /\ position \in [Users -> [Sides -> [shares : Nat, cost : Nat]]]
  BY <1>1, RequestTyped DEF TradingInv, TTypes, RowTypes, OwnPosition
<1>4. /\ moved \in [shares : Nat, cost : Nat]
      /\ Buys(c) => moved.cost = p.cost + f.amount
      /\ ~Buys(c) => moved.cost <= p.cost
  <2>1. /\ moved \in [shares : Nat, cost : Nat]
        /\ ~Buys(c) => Basis(p, f) \in 0 .. p.cost
        /\ moved.cost = p.cost + (IF Buys(c) THEN f.amount ELSE -Basis(p, f))
    BY <1>1, <1>2, <1>3, MovedPosition
  <2> QED
    BY <1>3, <2>1
<1>5. \A u \in Users, side \in Sides :
          position'[u][side] = IF u = o /\ side = s THEN moved ELSE position[u][side]
  BY <1>2, <1>3 DEF PositionBecomes
<1>6. /\ t = [u \in Users |-> [side \in Sides |-> position[u][side].cost]]
      /\ z = [u \in Users |-> [side \in Sides |-> position'[u][side].cost]]
  BY DEF BookOf
<1>7. /\ \A u \in Users, side \in Sides :
             z[u][side] = IF u = o /\ side = s THEN moved.cost ELSE t[u][side]
      /\ t[o][s] = p.cost
  BY <1>3, <1>5, <1>6
<1>8. z = [t EXCEPT ![o][s] = z[o][s]]
  <2>1. PICK w : w = [t EXCEPT ![o][s] = z[o][s]]
    OBVIOUS
  <2>2. t \in [Users -> [Sides -> Nat]]
    BY BookTyped
  <2>3. /\ \A u \in Users : w[u] = [side \in Sides |-> IF u = o /\ side = s THEN z[o][s]
                                                      ELSE t[u][side]]
        /\ w = [u \in Users |-> w[u]]
    BY <1>3, <2>1, <2>2
  <2>4. \A u \in Users : z[u] = [side \in Sides |-> z[u][side]]
    BY <1>6
  <2>5. ASSUME NEW u \in Users PROVE z[u] = w[u]
    <3>1. \A side \in Sides :
              z[u][side] = IF u = o /\ side = s THEN z[o][s] ELSE t[u][side]
      BY <1>3, <1>7
    <3>2. z[u] = [side \in Sides |-> IF u = o /\ side = s THEN z[o][s] ELSE t[u][side]]
      BY <2>4, <3>1
    <3> QED
      BY <2>3, <3>2
  <2>6. z = [u \in Users |-> z[u]]
    BY <1>6
  <2>7. z = w
    BY <2>3, <2>5, <2>6
  <2> QED
    BY <2>1, <2>7
<1> QED
  BY <1>3, <1>4, <1>7, <1>8

LEMMA BookFill ==
    ASSUME TradingInv, NEW c \in Calls, Finalize(c),
           NEW new, NEW M, Changed(c, new, M, FillCash(c, answer[c]), -ReserveOf(c))
    PROVE  /\ Buys(c) => Book!Buy(Request[c].user, Request[c].side)
           /\ ~Buys(c) => Book!Sell(Request[c].user, Request[c].side)
<1>1. PICK k, h, t : BookOf(k, h, t)
  BY DEF BookOf
<1>2. PICK x, y, z : BookOf(x, y, z)'
  BY DEF BookOf
<1>3. PICK f : f = answer[c]
  OBVIOUS
<1>4. PICK o, s, r, a : /\ o = Request[c].user /\ s = Request[c].side
                        /\ r = ReserveOf(c) /\ a = FillCash(c, f)
  OBVIOUS
<1>5. /\ f \in Outcomes /\ Acceptable(c, f) /\ order[c].status = "execution_pending" /\ ~settled
  BY <1>3, FinalizeRows
<1>6. settled' = settled
  BY DEF Finalize
<1>7. /\ x = [k EXCEPT ![o] = @ + a] /\ y = [h EXCEPT ![o] = @ + (-r)]
      /\ x[o] = k[o] + a /\ k[o] \in Int /\ h[o] \in Nat /\ o \in Users
      /\ HeldFor(c) <= h[o]
  BY <1>1, <1>2, <1>3, <1>4, BookMoves
<1>8. r \in Nat /\ r <= h[o]
  BY <1>4, <1>5, <1>7, RequestTyped DEF HeldFor, ActiveOrder, Active
<1>9. /\ s \in Sides /\ t[o][s] \in Nat /\ z[o][s] \in Nat
      /\ z = [t EXCEPT ![o][s] = z[o][s]]
      /\ Buys(c) => z[o][s] = t[o][s] + f.amount
      /\ ~Buys(c) => z[o][s] <= t[o][s]
  BY <1>1, <1>2, <1>3, <1>4, BookStake
<1>10. /\ f.amount \in Nat \ {0} /\ f.fee = TradingFee(f.amount) /\ f.fee \in Nat
       /\ Unused(c, f) \in Nat
       /\ Buys(c) => Unused(c, f) = r - f.amount - f.fee
       /\ ~Buys(c) => f.fee <= f.amount /\ r = 0
  BY <1>4, <1>5, FillTyped, RequestTyped
<1>11. ASSUME Buys(c) PROVE Book!Buy(o, s)
  <2>1. PICK n, fee : n = f.amount /\ fee = TradingFee(n)
    OBVIOUS
  <2>2. a \in Nat /\ a = r - n - fee /\ n \in Nat \ {0} /\ fee \in Nat
    BY <1>4, <1>10, <1>11, <2>1 DEF FillCash
  <2>3. n = z[o][s] - t[o][s] /\ a = x[o] - k[o]
    BY <1>7, <1>9, <1>11, <2>1, <2>2
  <2>4. n \in 1 .. h[o] /\ a \in 0 .. h[o] - n - fee /\ -r = -(n + fee + a)
    BY <1>7, <1>8, <2>2
  <2>5. z = [t EXCEPT ![o][s] = @ + n]
    BY <1>9, <1>11, <2>1
  <2>6. /\ x = [k EXCEPT ![o] = @ + a] /\ y = [h EXCEPT ![o] = @ + (-(n + fee + a))]
    BY <1>7, <2>4
  <2> QED
    <3>1. /\ z[o][s] - t[o][s] = n /\ x[o] - k[o] = a /\ Book!TradingFee(n) = fee
      BY <2>1, <2>3 DEF Book!TradingFee, Book!CalculateFee, Book!Proportional,
         Book!MultiplyDivide, Book!BasisPointsScale,
         TradingFee, CalculateFee, Proportional, MultiplyDivide, BasisPointsScale
    <3>2. Book!Move(o, a, -(n + fee + a))
      BY <1>1, <1>2, <2>6 DEF BookOf, Book!Move
    <3> QED
      BY <1>1, <1>2, <1>5, <1>6, <2>4, <2>5, <3>1, <3>2 DEF BookOf, Book!Buy
<1>12. ASSUME ~Buys(c) PROVE Book!Sell(o, s)
  <2>1. a = f.amount - f.fee /\ a \in Nat /\ r = 0
    BY <1>4, <1>10, <1>12 DEF FillCash
  <2>2. a = x[o] - k[o] /\ x[o] >= k[o] /\ z[o][s] \in 0 .. t[o][s]
    BY <1>7, <1>9, <1>12, <2>1
  <2>3. Book!Move(o, a, 0)
    <3>1. ReserveOf(c) = 0 /\ -ReserveOf(c) = 0
      BY <1>12, RequestTyped
    <3>2. y = [h EXCEPT ![o] = @ + 0]
      BY <1>4, <1>7, <3>1
    <3> QED
      BY <1>1, <1>2, <1>7, <3>2 DEF BookOf, Book!Move
  <2> QED
    BY <1>1, <1>2, <1>5, <1>6, <1>9, <2>2, <2>3 DEF BookOf, Book!Sell
<1> QED
  BY <1>4, <1>11, <1>12

LEMMA BookSettle ==
    ASSUME TradingInv, NEW winner, Settle(winner)
    PROVE  Book!Settle
<1>1. PICK k, h, t : BookOf(k, h, t)
  BY DEF BookOf
<1>2. PICK x, y, z : BookOf(x, y, z)'
  BY DEF BookOf
<1>3. /\ ~settled /\ settled' = TRUE /\ order' = order
      /\ position' = [u \in Users |-> [s \in Sides |-> NoPosition]]
      /\ \A c \in Calls : ~ActiveOrder(c)
  BY DEF Settle, MarketOpen
<1>4. \A u \in Users : h[u] = 0
  <2> TAKE u \in Users
  <2>1. PICK f : f = [c \in Calls |-> IF ActiveOrder(c) /\ Owns(c, u) THEN ReserveOf(c) ELSE 0]
    OBVIOUS
  <2>2. \A c \in Calls : f[c] = 0
    BY <1>3, <2>1
  <2>3. SumFunctionOnSet(f, Calls) = 0
    BY <2>2, TradingAssumption, SumOfZeros
  <2> QED
    BY <1>1, <2>1, <2>3, BookTyped DEF Held
<1>5. \A u \in Users : Held(u)' = Held(u)
  BY <1>3, SameOrdersHold
<1>6. y = h
  BY <1>1, <1>2, <1>5 DEF BookOf
<1>7. z = [u \in Users |-> [s \in Sides |-> 0]]
  BY <1>2, <1>3 DEF BookOf, NoPosition
<1>8. \A u \in Users : Cash(account'[u]) = k[u] + (t[u]["no"] + t[u]["yes"])
  <2> TAKE u \in Users
  <2>1. PICK M : Entered(account[u], account'[u], M,
                         position[u]["no"].cost + position[u]["yes"].cost, 0)
    BY SettleKeeps
  <2>2. /\ k[u] = Cash(account[u])
        /\ t[u]["no"] = position[u]["no"].cost /\ t[u]["yes"] = position[u]["yes"].cost
    BY <1>1, BookTyped DEF Sides
  <2> QED
    BY <2>1, <2>2 DEF Entered
<1>9. x = [u \in Users |-> k[u] + (t[u]["no"] + t[u]["yes"])]
  BY <1>2, <1>8 DEF BookOf
<1> DEFINE first == CHOOSE s \in Sides : TRUE
           second == CHOOSE s \in Sides : s # first
<1>10. \/ first = "no" /\ second = "yes"
       \/ first = "yes" /\ second = "no"
  <2>1. first \in Sides
    BY DEF Sides
  <2> HIDE DEF first
  <2>2. second \in Sides /\ second # first
    BY <2>1 DEF Sides
  <2> QED
    BY <2>1, <2>2 DEF Sides
<1>11. \A u \in Users : t[u]["no"] + t[u]["yes"] = t[u][first] + t[u][second]
  <2> HIDE DEF first, second
  <2>1. \A u \in Users : t[u]["no"] \in Nat /\ t[u]["yes"] \in Nat
    BY <1>1, BookTyped DEF Sides
  <2> QED
    BY <1>10, <2>1
<1>12. \A u \in Users : Book!Refund(u) = t[u][first] + t[u][second]
  BY <1>1 DEF BookOf, Book!Refund
<1> HIDE DEF first, second
<1>13. x = [u \in Users |-> k[u] + Book!Refund(u)]
  BY <1>9, <1>11, <1>12
<1> QED
  BY <1>1, <1>2, <1>3, <1>4, <1>6, <1>7, <1>13 DEF BookOf, Book!Settle

LEMMA BookNext == TradingInv /\ [Next]_vars => [Book!Next]_(Book!vars)
<1> SUFFICES ASSUME TradingInv, [Next]_vars PROVE Book!Next \/ UNCHANGED Book!vars
  OBVIOUS
<1>1. ASSUME UNCHANGED <<account, order, position, settled>> PROVE UNCHANGED Book!vars
  <2>1. \A u \in Users : Held(u)' = Held(u)
    BY <1>1, SameOrdersHold
  <2> QED
    BY <1>1, <2>1 DEF Book!vars
<1>2. ASSUME NEW c \in Calls, ~Buys(c), NEW new, NEW M,
             \/ Changed(c, new, M, ReserveOf(c), -ReserveOf(c))
             \/ Changed(c, new, M, -ReserveOf(c), ReserveOf(c)),
             UNCHANGED <<position, settled>>
      PROVE  UNCHANGED Book!vars
  <2>1. ReserveOf(c) = 0 /\ -ReserveOf(c) = 0
    BY <1>2, RequestTyped
  <2>2. Changed(c, new, M, 0, 0)
    BY <1>2, <2>1
  <2> QED
    BY <1>2, <2>2, BookIdle
<1>3. ASSUME NEW c \in Calls, Reserve(c) PROVE Book!Next \/ UNCHANGED Book!vars
  <2>1. CASE Idle
    BY <1>1, <2>1 DEF Idle
  <2>2. CASE ~Idle
    <3>1. PICK new, M : Changed(c, new, M, -ReserveOf(c), ReserveOf(c))
      BY <1>3, <2>2, ReserveKeeps
    <3>2. ~settled /\ UNCHANGED <<position, settled>>
      BY <1>3, <2>2, ReserveKeeps
    <3>3. CASE Buys(c)
      <4>1. Book!Hold(Request[c].user) /\ Request[c].user \in Users
        BY <3>1, <3>2, <3>3, BookHold, RequestTyped
      <4> QED
        BY <4>1 DEF Book!Next
    <3>4. CASE ~Buys(c)
      BY <1>2, <3>1, <3>2, <3>4
    <3> QED
      BY <3>3, <3>4
  <2> QED
    BY <2>1, <2>2
<1>4. ASSUME NEW c \in Calls, Cancel(c) PROVE Book!Next \/ UNCHANGED Book!vars
  <2>1. UNCHANGED <<position, settled>>
    BY <1>4, CancelKeeps
  <2>2. CASE Idle
    BY <1>1, <2>2 DEF Idle
  <2>3. ASSUME NEW new, NEW M, Changed(c, new, M, 0, 0)
        PROVE  UNCHANGED Book!vars
    BY <2>1, <2>3, BookIdle
  <2>4. ASSUME NEW new, NEW M, Changed(c, new, M, ReserveOf(c), -ReserveOf(c))
        PROVE  Book!Next \/ UNCHANGED Book!vars
    <3>1. CASE Buys(c)
      <4>1. HeldFor(c) = ReserveOf(c)
        <5>1. HeldFor(c)' = HeldFor(c) + (-ReserveOf(c))
          BY <2>4 DEF Changed
        <5>2. HeldFor(c)' = 0 \/ HeldFor(c)' = ReserveOf(c)
          BY DEF HeldFor
        <5>3. HeldFor(c) = 0 \/ HeldFor(c) = ReserveOf(c)
          BY DEF HeldFor
        <5>4. ReserveOf(c) \in Nat /\ ReserveOf(c) > 0
          BY <3>1, RequestTyped
        <5> QED
          BY <5>1, <5>2, <5>3, <5>4
      <4>2. Book!Return(Request[c].user) /\ Request[c].user \in Users
        BY <2>1, <2>4, <3>1, <4>1, BookReturn, RequestTyped
      <4> QED
        BY <4>2 DEF Book!Next
    <3>2. CASE ~Buys(c)
      BY <1>2, <2>1, <2>4, <3>2
    <3> QED
      BY <3>1, <3>2
  <2> QED
    BY <1>4, <2>2, <2>3, <2>4, CancelKeeps
<1>5. ASSUME NEW c \in Calls, Finalize(c) PROVE Book!Next
  <2>1. PICK new, M : Changed(c, new, M, FillCash(c, answer[c]), -ReserveOf(c))
    BY <1>5, FinalizeKeeps
  <2>2. Book!Buy(Request[c].user, Request[c].side) \/ Book!Sell(Request[c].user, Request[c].side)
    BY <1>5, <2>1, BookFill
  <2> QED
    BY <2>2, RequestTyped DEF Book!Next
<1>6. ASSUME NEW winner, Settle(winner) PROVE Book!Next
  BY <1>6, BookSettle DEF Book!Next
<1>7. ASSUME NEW p \in Elsewhere, PostElsewhere(p) PROVE UNCHANGED Book!vars
  <2>1. UNCHANGED <<order, position, settled>>
    BY <1>7 DEF PostElsewhere
  <2>2. \A u \in Users : Held(u)' = Held(u) /\ Cash(account'[u]) = Cash(account[u])
    BY <1>7, <2>1, SameOrdersHold, ElsewhereKeeps
  <2> QED
    BY <2>1, <2>2 DEF Book!vars
<1>8. ASSUME \/ UNCHANGED vars
             \/ \E c \in Calls :
                   \/ LookUp(c) \/ Quote(c) \/ \E f \in Outcomes : Execute(c, f)
                   \/ BuildFinalization(c) \/ FailToFinalize(c) \/ LoseFinalization(c)
                   \/ Crash(c)
      PROVE  UNCHANGED <<account, order, position, settled>>
  BY <1>8 DEF vars, LookUp, Quote, Execute, BuildFinalization, FailToFinalize,
              LoseFinalization, Crash
<1> QED
  BY <1>1, <1>3, <1>4, <1>5, <1>6, <1>7, <1>8 DEF Next

LEMMA BookInit == Init => Book!Init
<1> SUFFICES ASSUME Init PROVE Book!Init
  OBVIOUS
<1>1. /\ account = [u \in Users |-> EmptyAccount] /\ settled = FALSE
      /\ position = [u \in Users |-> [s \in Sides |-> NoPosition]]
      /\ \A c \in Calls : order[c] = NoOrder
  BY DEF Init
<1>2. \A u \in Users : Cash(account[u]) = 0
  <2>1. DOMAIN EmptyAccount.entries = {}
    BY DEF EmptyAccount
  <2> QED
    BY <1>1, <2>1, SumOfNone DEF Cash
<1>3. \A u \in Users : Held(u) = 0
  <2> TAKE u \in Users
  <2>1. PICK f : f = [c \in Calls |-> IF ActiveOrder(c) /\ Owns(c, u) THEN ReserveOf(c) ELSE 0]
    OBVIOUS
  <2>2. \A c \in Calls : f[c] = 0
    BY <1>1, <2>1 DEF ActiveOrder, NoOrder, Active
  <2>3. SumFunctionOnSet(f, Calls) = 0
    BY <2>2, TradingAssumption, SumOfZeros
  <2> QED
    BY <2>1, <2>3 DEF Held
<1>4. [u \in Users |-> [s \in Sides |-> position[u][s].cost]]
          = [u \in Users |-> [s \in Sides |-> 0]]
  BY <1>1 DEF NoPosition
<1> QED
  BY <1>1, <1>2, <1>3, <1>4 DEF Book!Init

\* Orders and settlements keep the book: Coins set aside for an order come back or
\* pay for a position with its fee, and the one settlement, with nothing set aside,
\* gives everyone back what their positions cost.
THEOREM TradingImplementsBook == Spec => ImplementsTradeBook
  BY BookInit, BookNext, TradingInit, TradingNext, PTL DEF Spec, ImplementsTradeBook, Book!Spec

-----------------------------------------------------------------------------
(* What the reconciliation finds                                           *)

LEMMA LedgerIs ==
    ASSUME TradingInv
    PROVE  \A e : e \in Rec!Ledger(account) <=>
               \E u \in Users : \E m : InBook(account[u], m) /\ e = [user |-> u, move |-> m]
<1>1. DOMAIN account = Users
  BY DEF TradingInv, TTypes
<1>2. \A e : e \in Rec!Ledger(account) <=>
          \E u \in Users : \E i \in DOMAIN account[u].entries :
              e = [user |-> u, move |-> account[u].entries[i].move]
  BY <1>1 DEF Rec!Ledger
<1> QED
  BY <1>2, Zenon DEF InBook

\* The entries of an order are those of its movements, on its user's account.
LEMMA OwnEntries ==
    ASSUME TradingInv, NEW c \in Calls, NEW e \in Rec!Ledger(account), e.move.key[1] = c
    PROVE  e.move \in OwnMoves(c) /\ e.user = Request[c].user
<1>1. PICK u \in Users : \E m : InBook(account[u], m) /\ e = [user |-> u, move |-> m]
  BY LedgerIs
<1>2. PICK m : InBook(account[u], m) /\ e = [user |-> u, move |-> m]
  BY <1>1
<1> QED
  BY <1>2 DEF TradingInv, Accounted, Owns

\* A column of the order that names one of its movements names its entry.
LEMMA EntryFound ==
    ASSUME TradingInv, NEW c \in Calls, NEW m \in OwnMoves(c),
           NEW op, NEW dA, NEW dR, NEW step, NEW condition,
           IsMove(m, condition, c, op, dA, dR, step), m # None,
           NEW o, o.user = Request[c].user, o.id = c
    PROVE  Rec!OrderEntry(Rec!Ledger(account), o, <<c, step>>, op, dA, dR)
<1>1. /\ m.key[1] = c /\ m.key = <<c, step>> /\ m.op = op /\ m.dA = dA /\ m.dR = dR
      /\ m.ref = "trade_execution_order"
  BY DEF IsMove
<1>2. InBook(account[Request[c].user], m) /\ Request[c].user \in Users
  BY <1>1, RequestTyped DEF TradingInv, Accounted, Owns
<1>3. PICK e : e = [user |-> Request[c].user, move |-> m]
  OBVIOUS
<1>4. e \in Rec!Ledger(account)
  BY <1>2, <1>3, LedgerIs
<1>5. e # None
  <2>1. m \in Movements
    BY DEF IsMove
  <2>2. e \in [user : Users, move : Movements]
    BY <1>2, <1>3, <2>1
  <2> QED
    BY <2>2, NullAssumption
<1> QED
  BY <1>1, <1>3, <1>4, <1>5 DEF Rec!OrderEntry, Rec!OwnMoves, Rec!Moves

\* What the columns of an order hold, by its status.
LEMMA RowIs ==
    ASSUME TradingInv, NEW c \in Calls, order[c].status # "none"
    PROVE  LET o == order[c]
               f == answer[c]
           IN  /\ o.status \in Active \cup Released \cup Filled
               /\ o.status \in Active => o.filled = 0 /\ o.fee = 0 /\ o.released = 0
               /\ o.status \in Released => o.filled = 0 /\ o.fee = 0 /\ o.released = ReserveOf(c)
               /\ o.status \in Filled =>
                     /\ f \in Outcomes /\ Acceptable(c, f)
                     /\ o.filled = f.amount /\ o.fee = f.fee /\ o.released = Unused(c, f)
                     /\ f.amount \in Nat \ {0} /\ f.fee \in Nat /\ Unused(c, f) \in Nat
                     /\ Buys(c) => f.amount + f.fee + Unused(c, f) = ReserveOf(c)
                     /\ ~Buys(c) => Unused(c, f) = 0 /\ f.fee <= f.amount
<1>1. OrderInv(c) /\ order[c].status \in {"none"} \cup Active \cup Terminal
  BY DEF TradingInv, TTypes, RowTypes
<1>2. ASSUME order[c].status \in Filled
      PROVE  /\ answer[c] \in Outcomes /\ Acceptable(c, answer[c])
             /\ order[c].filled = answer[c].amount /\ order[c].fee = answer[c].fee
             /\ order[c].released = Unused(c, answer[c])
  BY <1>1, <1>2 DEF OrderInv
<1>3. ASSUME order[c].status \in Filled
      PROVE  LET f == answer[c]
             IN  /\ f.amount \in Nat \ {0} /\ f.fee \in Nat /\ Unused(c, f) \in Nat
                 /\ Buys(c) => f.amount + f.fee + Unused(c, f) = ReserveOf(c)
                 /\ ~Buys(c) => Unused(c, f) = 0 /\ f.fee <= f.amount
  <2>1. PICK f : f = answer[c]
    OBVIOUS
  <2>2. f \in Outcomes /\ Acceptable(c, f)
    BY <1>2, <1>3, <2>1
  <2> QED
    BY <2>1, <2>2, FillTyped, RequestTyped
<1>4. order[c].status \in Active =>
          order[c].filled = 0 /\ order[c].fee = 0 /\ order[c].released = 0
  BY <1>1 DEF OrderInv
<1>5. order[c].status \in Released =>
          order[c].filled = 0 /\ order[c].fee = 0 /\ order[c].released = ReserveOf(c)
  BY <1>1 DEF OrderInv
<1>6. order[c].status \in Active \cup Released \cup Filled
  BY <1>1 DEF Terminal
<1> QED
  BY <1>2, <1>3, <1>4, <1>5, <1>6

\* The keys that an order has in its user's book.
LEMMA StepKeys ==
    ASSUME TradingInv, NEW c \in Calls, NEW step \in Steps
    PROVE  HasKey(account[Request[c].user], <<c, step>>) <=>
               \/ order[c].status # "none" /\ Buys(c) /\ step = "reserve"
               \/ order[c].status \in Released /\ Buys(c) /\ step = order[c].status
               \/ /\ order[c].status \in Filled
                  /\ \/ Buys(c) /\ step = "debit"
                     \/ order[c].fee > 0 /\ step = "fee"
                     \/ ~Buys(c) /\ step = "credit"
                     \/ order[c].released > 0 /\ step = "unused"
<1>1. HasKey(account[Request[c].user], <<c, step>>)
          <=> \E m \in OwnMoves(c) : m.key = <<c, step>>
  <2>1. ASSUME NEW m, m.key = <<c, step>>
        PROVE  InBook(account[Request[c].user], m) <=> m \in OwnMoves(c)
    <3>1. m.key[1] = c
      BY <2>1
    <3> QED
      BY <3>1, RequestTyped DEF TradingInv, Accounted, Owns
  <2> QED
    BY <2>1, KeyInBook
<1>2. IsMove(ReserveMove(c), Buys(c), c, "trade_reserve", -ReserveOf(c), ReserveOf(c), "reserve")
  BY ReserveMoveIs
<1>3. \A m \in {ReserveMove(c)} \ {None} : m.key = <<c, "reserve">> /\ Buys(c)
  BY <1>2 DEF IsMove
<1>4. Buys(c) => ReserveMove(c) # None
  BY <1>2 DEF IsMove
<1>5. CASE order[c].status \in {"none"} \cup Active
  <2>1. OwnMoves(c) = IF order[c].status = "none" THEN {} ELSE {ReserveMove(c)} \ {None}
    BY <1>5 DEF OwnMoves, Active, Released, Filled
  <2> QED
    BY <1>1, <1>3, <1>4, <1>5, <2>1 DEF Active, Released, Filled
<1>6. CASE order[c].status \in Released
  <2>1. PICK status : status = order[c].status
    OBVIOUS
  <2>2. OwnMoves(c) = ({ReserveMove(c)} \ {None}) \cup ({ReleaseAll(c, status)} \ {None})
    BY <1>6, <2>1 DEF OwnMoves, Released, Filled
  <2>3. IsMove(ReleaseAll(c, status), Buys(c), c, "trade_release",
               ReserveOf(c), -ReserveOf(c), status)
    BY <1>6, <2>1, ReserveMoveIs
  <2>4. /\ \A m \in {ReleaseAll(c, status)} \ {None} : m.key = <<c, status>> /\ Buys(c)
        /\ Buys(c) => ReleaseAll(c, status) # None
    BY <2>3 DEF IsMove
  <2> QED
    BY <1>1, <1>3, <1>4, <1>6, <2>1, <2>2, <2>4 DEF Released, Filled
<1>7. CASE order[c].status \in Filled
  <2>1. PICK f : f = answer[c]
    OBVIOUS
  <2>2. OwnMoves(c) = ({ReserveMove(c)} \ {None}) \cup FillMoves(c, f)
    BY <1>7, <2>1 DEF OwnMoves, Released, Filled
  <2>3. f \in Outcomes /\ Acceptable(c, f) /\ order[c].fee = f.fee
        /\ order[c].released = Unused(c, f)
    BY <1>7, <2>1, RowIs DEF Filled
  <2>4. /\ IsMove(DebitMove(c, f), Buys(c), c, "trade_debit", 0, -f.amount, "debit")
        /\ IsMove(FeeMove(c, f), f.fee > 0, c, "fee_debit",
                  IF Buys(c) THEN 0 ELSE -f.fee, IF Buys(c) THEN -f.fee ELSE 0, "fee")
        /\ IsMove(CreditMove(c, f), ~Buys(c), c, "trade_settlement_credit",
                  f.amount, 0, "credit")
        /\ IsMove(ReleaseMove(c, f), Unused(c, f) > 0, c, "trade_release",
                  Unused(c, f), -Unused(c, f), "unused")
    BY <2>3, FillMovesAre
  <2>5. \A m : m \in FillMoves(c, f) <=>
            \/ m = DebitMove(c, f) /\ Buys(c)
            \/ m = FeeMove(c, f) /\ f.fee > 0
            \/ m = CreditMove(c, f) /\ ~Buys(c)
            \/ m = ReleaseMove(c, f) /\ Unused(c, f) > 0
    BY <2>4 DEF FillMoves, IsMove
  <2>6. /\ Buys(c) => DebitMove(c, f).key = <<c, "debit">>
        /\ f.fee > 0 => FeeMove(c, f).key = <<c, "fee">>
        /\ ~Buys(c) => CreditMove(c, f).key = <<c, "credit">>
        /\ Unused(c, f) > 0 => ReleaseMove(c, f).key = <<c, "unused">>
    BY <2>4 DEF IsMove
  <2> QED
    BY <1>1, <1>3, <1>4, <1>7, <2>2, <2>3, <2>5, <2>6 DEF Released, Filled
<1> QED
  BY <1>5, <1>6, <1>7 DEF TradingInv, TTypes, RowTypes, Terminal

\* The ledger has the entry of every column that an order fills.
LEMMA OrderEntries ==
    ASSUME TradingInv, NEW c \in Calls, order[c].status # "none",
           NEW o, o.user = Request[c].user, o.id = c
    PROVE  LET L == Rec!Ledger(account)
               row == order[c]
           IN  /\ Buys(c) => Rec!OrderEntry(L, o, <<c, "reserve">>, "trade_reserve",
                                            -ReserveOf(c), ReserveOf(c))
               /\ row.status \in Released /\ Buys(c) =>
                     Rec!OrderEntry(L, o, <<c, row.status>>, "trade_release",
                                    ReserveOf(c), -ReserveOf(c))
               /\ row.status \in Filled =>
                     /\ Buys(c) => Rec!OrderEntry(L, o, <<c, "debit">>, "trade_debit",
                                                  0, -row.filled)
                     /\ ~Buys(c) => Rec!OrderEntry(L, o, <<c, "credit">>,
                                                   "trade_settlement_credit", row.filled, 0)
                     /\ row.fee > 0 =>
                           Rec!OrderEntry(L, o, <<c, "fee">>, "fee_debit",
                                          IF Buys(c) THEN 0 ELSE -row.fee,
                                          IF Buys(c) THEN -row.fee ELSE 0)
                     /\ row.released > 0 =>
                           Rec!OrderEntry(L, o, <<c, "unused">>, "trade_release",
                                          row.released, -row.released)
<1>1. ASSUME Buys(c)
      PROVE  Rec!OrderEntry(Rec!Ledger(account), o, <<c, "reserve">>, "trade_reserve",
                            -ReserveOf(c), ReserveOf(c))
  <2>1. IsMove(ReserveMove(c), Buys(c), c, "trade_reserve", -ReserveOf(c), ReserveOf(c), "reserve")
    BY ReserveMoveIs
  <2>2. ReserveMove(c) # None /\ ReserveMove(c) \in OwnMoves(c)
    BY <1>1, <2>1 DEF IsMove, OwnMoves
  <2> QED
    BY <2>1, <2>2, EntryFound
<1>2. ASSUME order[c].status \in Released, Buys(c)
      PROVE  Rec!OrderEntry(Rec!Ledger(account), o, <<c, order[c].status>>, "trade_release",
                            ReserveOf(c), -ReserveOf(c))
  <2>1. PICK status : status = order[c].status
    OBVIOUS
  <2>2. IsMove(ReleaseAll(c, status), Buys(c), c, "trade_release",
               ReserveOf(c), -ReserveOf(c), status)
    BY <1>2, <2>1, ReserveMoveIs
  <2>3. ReleaseAll(c, status) # None /\ ReleaseAll(c, status) \in OwnMoves(c)
    BY <1>2, <2>1, <2>2 DEF IsMove, OwnMoves
  <2>4. Rec!OrderEntry(Rec!Ledger(account), o, <<c, status>>, "trade_release",
                       ReserveOf(c), -ReserveOf(c))
    BY <2>2, <2>3, EntryFound
  <2> QED
    BY <2>1, <2>4
<1>3. ASSUME order[c].status \in Filled
      PROVE  LET L == Rec!Ledger(account)
                 row == order[c]
             IN  /\ Buys(c) => Rec!OrderEntry(L, o, <<c, "debit">>, "trade_debit",
                                              0, -row.filled)
                 /\ ~Buys(c) => Rec!OrderEntry(L, o, <<c, "credit">>,
                                               "trade_settlement_credit", row.filled, 0)
                 /\ row.fee > 0 =>
                       Rec!OrderEntry(L, o, <<c, "fee">>, "fee_debit",
                                      IF Buys(c) THEN 0 ELSE -row.fee,
                                      IF Buys(c) THEN -row.fee ELSE 0)
                 /\ row.released > 0 =>
                       Rec!OrderEntry(L, o, <<c, "unused">>, "trade_release",
                                      row.released, -row.released)
  <2>1. PICK f : f = answer[c]
    OBVIOUS
  <2>2. f \in Outcomes /\ Acceptable(c, f) /\ order[c].filled = f.amount
        /\ order[c].fee = f.fee /\ order[c].released = Unused(c, f)
    BY <1>3, <2>1, RowIs
  <2>3. /\ IsMove(DebitMove(c, f), Buys(c), c, "trade_debit", 0, -f.amount, "debit")
        /\ IsMove(FeeMove(c, f), f.fee > 0, c, "fee_debit",
                  IF Buys(c) THEN 0 ELSE -f.fee, IF Buys(c) THEN -f.fee ELSE 0, "fee")
        /\ IsMove(CreditMove(c, f), ~Buys(c), c, "trade_settlement_credit",
                  f.amount, 0, "credit")
        /\ IsMove(ReleaseMove(c, f), Unused(c, f) > 0, c, "trade_release",
                  Unused(c, f), -Unused(c, f), "unused")
    BY <2>2, FillMovesAre
  <2>4. \A m \in FillMoves(c, f) : m \in OwnMoves(c)
    BY <1>3, <2>1 DEF OwnMoves, Filled
  <2>5. ASSUME Buys(c)
        PROVE  Rec!OrderEntry(Rec!Ledger(account), o, <<c, "debit">>, "trade_debit",
                              0, -f.amount)
    <3>1. DebitMove(c, f) # None /\ DebitMove(c, f) \in OwnMoves(c)
      BY <2>3, <2>4, <2>5 DEF IsMove, FillMoves
    <3> QED
      BY <2>3, <3>1, EntryFound
  <2>6. ASSUME ~Buys(c)
        PROVE  Rec!OrderEntry(Rec!Ledger(account), o, <<c, "credit">>,
                              "trade_settlement_credit", f.amount, 0)
    <3>1. CreditMove(c, f) # None /\ CreditMove(c, f) \in OwnMoves(c)
      BY <2>3, <2>4, <2>6 DEF IsMove, FillMoves
    <3> QED
      BY <2>3, <3>1, EntryFound, Zenon
  <2>7. ASSUME f.fee > 0
        PROVE  Rec!OrderEntry(Rec!Ledger(account), o, <<c, "fee">>, "fee_debit",
                              IF Buys(c) THEN 0 ELSE -f.fee, IF Buys(c) THEN -f.fee ELSE 0)
    <3>1. FeeMove(c, f) # None /\ FeeMove(c, f) \in OwnMoves(c)
      BY <2>3, <2>4, <2>7 DEF IsMove, FillMoves
    <3> QED
      BY <2>3, <3>1, EntryFound, Zenon
  <2>8. ASSUME Unused(c, f) > 0
        PROVE  Rec!OrderEntry(Rec!Ledger(account), o, <<c, "unused">>, "trade_release",
                              Unused(c, f), -Unused(c, f))
    <3>1. ReleaseMove(c, f) # None /\ ReleaseMove(c, f) \in OwnMoves(c)
      BY <2>3, <2>4, <2>8 DEF IsMove, FillMoves
    <3> QED
      BY <2>3, <3>1, EntryFound, Zenon
  <2> QED
    BY <2>2, <2>5, <2>6, <2>7, <2>8
<1> QED
  BY <1>1, <1>2, <1>3

\* The columns of the order as the reconciliation reads them.
LEMMA OrderRowIs ==
    ASSUME NEW c \in Calls, NEW o, o = OrderRow(c)
    PROVE  LET row == order[c]
           IN  /\ o.id = c /\ o.user = Request[c].user /\ o.side = Request[c].side
               /\ o.action = Request[c].action /\ o.status = row.status
               /\ o.reserved = ReserveOf(c) /\ o.filled = row.filled /\ o.fee = row.fee
               /\ o.released = row.released
               /\ o.shares = (IF row.status \in Filled THEN answer[c].shares ELSE 0)
               /\ o.reserve = (IF Buys(c) THEN <<c, "reserve">> ELSE None)
               /\ o.debit = (IF Buys(c) /\ row.filled > 0 THEN <<c, "debit">> ELSE None)
               /\ o.credit = (IF row.filled > 0 /\ ~Buys(c) THEN <<c, "credit">> ELSE None)
               /\ o.feeEntry = (IF row.fee > 0 THEN <<c, "fee">> ELSE None)
               /\ o.release = (IF row.released > 0
                               THEN <<c, IF Buys(c) /\ row.filled > 0 THEN "unused"
                                         ELSE row.status>>
                               ELSE None)
  BY DEF OrderRow

\* A movement of an order has one of its keys.
LEMMA OwnKeys ==
    ASSUME TradingInv, NEW c \in Calls, NEW m \in OwnMoves(c)
    PROVE  \E step \in Steps : m.key = <<c, step>>
<1>1. /\ "reserve" \in Steps /\ "debit" \in Steps /\ "fee" \in Steps /\ "credit" \in Steps
      /\ "unused" \in Steps /\ \A status \in Released : status \in Steps
  BY DEF Steps, Released
<1>2. CASE m \in {ReserveMove(c)} \ {None}
  <2>1. IsMove(ReserveMove(c), Buys(c), c, "trade_reserve", -ReserveOf(c), ReserveOf(c), "reserve")
    BY ReserveMoveIs
  <2> QED
    BY <1>1, <1>2, <2>1 DEF IsMove
<1>3. CASE order[c].status \in Released /\ m \in {ReleaseAll(c, order[c].status)} \ {None}
  <2>1. PICK status : status = order[c].status
    OBVIOUS
  <2>2. IsMove(ReleaseAll(c, status), Buys(c), c, "trade_release",
               ReserveOf(c), -ReserveOf(c), status)
    BY <1>3, <2>1, ReserveMoveIs
  <2>3. m.key = <<c, status>>
    BY <1>3, <2>1, <2>2 DEF IsMove
  <2> QED
    BY <1>1, <1>3, <2>1, <2>3
<1>4. CASE order[c].status \in Filled /\ m \in FillMoves(c, answer[c])
  <2>1. PICK f : f = answer[c]
    OBVIOUS
  <2>2. f \in Outcomes /\ Acceptable(c, f)
    BY <1>4, <2>1, RowIs DEF Filled
  <2>3. /\ IsMove(DebitMove(c, f), Buys(c), c, "trade_debit", 0, -f.amount, "debit")
        /\ IsMove(FeeMove(c, f), f.fee > 0, c, "fee_debit",
                  IF Buys(c) THEN 0 ELSE -f.fee, IF Buys(c) THEN -f.fee ELSE 0, "fee")
        /\ IsMove(CreditMove(c, f), ~Buys(c), c, "trade_settlement_credit",
                  f.amount, 0, "credit")
        /\ IsMove(ReleaseMove(c, f), Unused(c, f) > 0, c, "trade_release",
                  Unused(c, f), -Unused(c, f), "unused")
    BY <2>2, FillMovesAre
  <2> QED
    BY <1>1, <1>4, <2>1, <2>3 DEF FillMoves, IsMove
<1> QED
  BY <1>2, <1>3, <1>4 DEF OwnMoves

\* No check of the reconciliation lists an order.
LEMMA OrderAccounts ==
    ASSUME TradingInv, NEW c \in Calls, order[c].status # "none",
           NEW o, o = OrderRow(c)
    PROVE  ~Rec!TradeExecutionAccounting(Rec!Ledger(account), o)
<1> DEFINE L == Rec!Ledger(account)
           row == order[c]
<1>1. /\ o.id = c /\ o.user = Request[c].user
      /\ o.action = Request[c].action /\ o.status = row.status
      /\ o.reserved = ReserveOf(c) /\ o.filled = row.filled /\ o.fee = row.fee
      /\ o.released = row.released
      /\ o.reserve = (IF Buys(c) THEN <<c, "reserve">> ELSE None)
      /\ o.debit = (IF Buys(c) /\ row.filled > 0 THEN <<c, "debit">> ELSE None)
      /\ o.credit = (IF row.filled > 0 /\ ~Buys(c) THEN <<c, "credit">> ELSE None)
      /\ o.feeEntry = (IF row.fee > 0 THEN <<c, "fee">> ELSE None)
      /\ o.release = (IF row.released > 0
                      THEN <<c, IF Buys(c) /\ row.filled > 0 THEN "unused" ELSE row.status>>
                      ELSE None)
  BY OrderRowIs
<1>2. /\ row.status \in Active \cup Released \cup Filled
      /\ row.status \in Active => row.filled = 0 /\ row.fee = 0 /\ row.released = 0
      /\ row.status \in Released =>
            row.filled = 0 /\ row.fee = 0 /\ row.released = ReserveOf(c)
      /\ row.status \in Filled =>
            /\ row.filled \in Nat \ {0} /\ row.fee \in Nat /\ row.released \in Nat
            /\ Buys(c) => row.filled + row.fee + row.released = ReserveOf(c)
            /\ ~Buys(c) => row.released = 0 /\ row.fee <= row.filled
  BY RowIs
<1>3. /\ ReserveOf(c) \in Nat
      /\ Buys(c) => ReserveOf(c) > 0
      /\ ~Buys(c) => ReserveOf(c) = 0
      /\ Request[c].action \in {"buy", "sell"} /\ (Buys(c) <=> Request[c].action = "buy")
  BY RequestTyped DEF Buys
<1>4. /\ Buys(c) => Rec!OrderEntry(L, o, <<c, "reserve">>, "trade_reserve",
                                   -ReserveOf(c), ReserveOf(c))
      /\ row.status \in Released /\ Buys(c) =>
            Rec!OrderEntry(L, o, <<c, row.status>>, "trade_release",
                           ReserveOf(c), -ReserveOf(c))
      /\ row.status \in Filled =>
            /\ Buys(c) => Rec!OrderEntry(L, o, <<c, "debit">>, "trade_debit", 0, -row.filled)
            /\ ~Buys(c) => Rec!OrderEntry(L, o, <<c, "credit">>,
                                          "trade_settlement_credit", row.filled, 0)
            /\ row.fee > 0 =>
                  Rec!OrderEntry(L, o, <<c, "fee">>, "fee_debit",
                                 IF Buys(c) THEN 0 ELSE -row.fee,
                                 IF Buys(c) THEN -row.fee ELSE 0)
            /\ row.released > 0 =>
                  Rec!OrderEntry(L, o, <<c, "unused">>, "trade_release",
                                 row.released, -row.released)
  BY <1>1, OrderEntries
<1>5. Active \cap Released = {} /\ Active \cap Filled = {} /\ Released \cap Filled = {}
  BY DEF Active, Released, Filled
<1> HIDE DEF L, row
<1>6. ~Rec!ReserveUnsound(L, o)
  <2>1. row.status \in {"partially_filled", "filled", "cancelled", "failed"}
            <=> row.status \in Released \cup Filled
    BY DEF Released, Filled
  <2>2. Buys(c) /\ row.status \in Released \cup Filled =>
            row.filled + row.fee + row.released = ReserveOf(c)
    <3>1. row.status \in Released => 0 + 0 + row.released = ReserveOf(c)
      BY <1>2, <1>3
    <3> QED
      BY <1>2, <3>1
  <2> QED
    BY <1>1, <1>3, <1>4, <2>1, <2>2 DEF Rec!ReserveUnsound
<1>7. row.filled > 0 \/ row.fee > 0 => row.status \in Filled
  BY <1>2
<1>8. ~Rec!FillUnsound(L, o)
  BY <1>1, <1>3, <1>4, <1>7 DEF Rec!FillUnsound
<1>9. ~Rec!FeeUnsound(L, o)
  <2>1. row.fee > 0 => Rec!OrderEntry(L, o, <<c, "fee">>, "fee_debit",
                                      IF Buys(c) THEN 0 ELSE -row.fee,
                                      IF Buys(c) THEN -row.fee ELSE 0)
    BY <1>4, <1>7
  <2>2. (IF o.action = "sell" THEN -o.fee ELSE 0) = (IF Buys(c) THEN 0 ELSE -row.fee)
        /\ (IF o.action = "buy" THEN -o.fee ELSE 0) = (IF Buys(c) THEN -row.fee ELSE 0)
    BY <1>1, <1>3
  <2>3. ~Buys(c) => ~(row.fee > row.filled)
    BY <1>2
  <2>4. row.fee > 0 => o.feeEntry = <<c, "fee">>
    BY <1>1
  <2> QED
    BY <1>1, <1>3, <2>1, <2>2, <2>3, <2>4 DEF Rec!FeeUnsound
<1>10. ~Rec!ReleaseUnsound(L, o)
  <2>1. SUFFICES ASSUME row.released > 0
                 PROVE  Rec!OrderEntry(L, o, o.release, "trade_release", row.released, -row.released)
    BY <1>1 DEF Rec!ReleaseUnsound
  <2>2. Buys(c) /\ row.status \in Released \cup Filled
    BY <1>2, <1>3, <2>1
  <2>3. CASE row.status \in Released
    <3>1. o.release = <<c, row.status>> /\ row.released = ReserveOf(c)
      BY <1>1, <1>2, <2>1, <2>3
    <3> QED
      BY <1>4, <2>2, <2>3, <3>1
  <2>4. CASE row.status \in Filled
    <3>1. o.release = <<c, "unused">>
      BY <1>1, <1>2, <2>1, <2>2, <2>4
    <3> QED
      BY <1>4, <2>1, <2>4, <3>1
  <2> QED
    BY <2>2, <2>3, <2>4
<1>11. ~Rec!EntryUncalledFor(o)
  <2>1. /\ ~Buys(c) => row.released = 0
        /\ row.released = 0 => ~(row.released > 0)
        /\ row.filled = 0 => ~(row.filled > 0)
        /\ row.fee = 0 => ~(row.fee > 0)
    BY <1>2, <1>3
  <2> QED
    BY <1>1, <1>3, <2>1 DEF Rec!EntryUncalledFor
<1>12. ~Rec!EntryUnnamed(L, o)
  <2> SUFFICES ASSUME NEW e \in L, e.move.key[1] = c
               PROVE  e.move.key \in {o.reserve, o.debit, o.release, o.credit, o.feeEntry}
    BY <1>1 DEF Rec!EntryUnnamed
  <2>1. e.move \in OwnMoves(c) /\ e.user = Request[c].user
    BY OwnEntries DEF L
  <2>2. PICK step \in Steps : e.move.key = <<c, step>>
    BY <2>1, OwnKeys
  <2>3. InBook(account[Request[c].user], e.move)
    BY <2>1, RequestTyped DEF TradingInv, Accounted, Owns
  <2>4. HasKey(account[Request[c].user], <<c, step>>)
    BY <2>2, <2>3, KeyInBook
  <2>5. \/ Buys(c) /\ step = "reserve"
        \/ row.status \in Released /\ Buys(c) /\ step = row.status
        \/ /\ row.status \in Filled
           /\ \/ Buys(c) /\ step = "debit"
              \/ row.fee > 0 /\ step = "fee"
              \/ ~Buys(c) /\ step = "credit"
              \/ row.released > 0 /\ step = "unused"
    BY <2>4, StepKeys DEF row
  <2>6. CASE Buys(c) /\ step = "reserve"
    BY <1>1, <2>2, <2>6
  <2>7. CASE row.status \in Released /\ Buys(c) /\ step = row.status
    <3>1. row.released > 0 /\ ~(row.filled > 0)
      BY <1>2, <1>3, <2>7
    <3>2. o.release = <<c, row.status>>
      BY <1>1, <3>1
    <3> QED
      BY <2>2, <2>7, <3>2
  <2>8. CASE row.status \in Filled /\ Buys(c) /\ step = "debit"
    BY <1>1, <1>2, <2>2, <2>8
  <2>9. CASE row.status \in Filled /\ row.fee > 0 /\ step = "fee"
    BY <1>1, <2>2, <2>9
  <2>10. CASE row.status \in Filled /\ ~Buys(c) /\ step = "credit"
    BY <1>1, <1>2, <2>2, <2>10
  <2>11. CASE row.status \in Filled /\ row.released > 0 /\ step = "unused"
    <3>1. Buys(c) /\ row.filled > 0
      BY <1>2, <2>11
    <3> QED
      BY <1>1, <2>2, <2>11, <3>1
  <2> QED
    BY <2>5, <2>6, <2>7, <2>8, <2>9, <2>10, <2>11
<1> QED
  BY <1>6, <1>8, <1>9, <1>10, <1>11, <1>12 DEF Rec!TradeExecutionAccounting, L

\* The trade of an order is the one its row calls for.
LEMMA TradeProjected ==
    ASSUME TradingInv, NEW c \in Calls, order[c].status # "none",
           NEW o, o = OrderRow(c), NEW t, t = TradeRow(c)
    PROVE  ~Rec!TradeProjection(o, t)
<1>1. /\ o.user = Request[c].user /\ o.side = Request[c].side
      /\ o.action = Request[c].action /\ o.status = order[c].status
      /\ o.filled = order[c].filled /\ o.fee = order[c].fee
      /\ o.shares = (IF order[c].status \in Filled THEN answer[c].shares ELSE 0)
  BY OrderRowIs
<1>2. CASE order[c].status \in Filled
  <2>1. PICK f : f = answer[c]
    OBVIOUS
  <2>2. /\ f \in Outcomes /\ Acceptable(c, f)
        /\ order[c].filled = f.amount /\ order[c].fee = f.fee
        /\ trade[c].shares = f.shares /\ trade[c].amount = f.amount /\ trade[c].fee = f.fee
    <3>1. OrderInv(c)
      BY DEF TradingInv
    <3> QED
      BY <1>2, <2>1, <3>1 DEF OrderInv
  <2>3. f.shares \in Nat \ {0} /\ f.amount \in Nat /\ f.fee \in Nat
    BY <2>2, FillTyped
  <2>4. trade[c] # NoTrade
    BY <2>2, <2>3 DEF NoTrade
  <2>5. t = [user |-> Request[c].user, side |-> Request[c].side, action |-> Request[c].action,
             amount |-> f.amount, fee |-> f.fee, shares |-> f.shares,
             hasProfit |-> ~Buys(c)]
    BY <2>2, <2>4 DEF TradeRow
  <2>6. (~Buys(c)) \in BOOLEAN
    OBVIOUS
  <2>7. t \in [user : Users, side : Sides, action : {"buy", "sell"}, amount : Nat,
               fee : Nat, shares : Nat, hasProfit : BOOLEAN]
    BY <2>3, <2>5, <2>6, RequestTyped
  <2>8. t # None
    BY <2>7, NullAssumption
  <2>9. <<t.user, t.side, t.action, t.amount, t.fee, t.shares>>
            = <<o.user, o.side, o.action, o.filled, o.fee, o.shares>>
    BY <1>1, <1>2, <2>1, <2>2, <2>5
  <2>10. t.hasProfit = (o.action = "sell")
    <3>1. Request[c].action \in {"buy", "sell"}
      BY RequestTyped
    <3> QED
      BY <1>1, <2>5, <3>1 DEF Buys
  <2>11. o.status \notin {"cancelled", "failed"}
    BY <1>1, <1>2 DEF Filled
  <2> QED
    BY <2>8, <2>9, <2>10, <2>11, Zenon DEF Rec!TradeProjection
<1>3. CASE order[c].status \notin Filled
  <2>1. trade[c] = NoTrade
    BY <1>3 DEF TradingInv, OrderInv
  <2>2. t = None
    BY <2>1 DEF TradeRow
  <2>3. o.status \notin {"filled", "partially_filled"}
    BY <1>1, <1>3 DEF Filled
  <2> QED
    BY <2>2, <2>3 DEF Rec!TradeProjection
<1> QED
  BY <1>2, <1>3

LEMMA OrdersReconcile == TradingInv => Reconciles
<1> SUFFICES ASSUME TradingInv PROVE Reconciles
  OBVIOUS
<1>1. ~Rec!FeeEntries(Rec!Ledger(account))
  <2> SUFFICES ASSUME NEW e \in Rec!Ledger(account), e.move.op = "fee_debit"
               PROVE  ~(e.move.dA + e.move.dR >= 0)
    BY DEF Rec!FeeEntries
  <2>1. PICK u \in Users : \E m : InBook(account[u], m) /\ e = [user |-> u, move |-> m]
    BY LedgerIs
  <2>2. PICK m : InBook(account[u], m) /\ e = [user |-> u, move |-> m]
    BY <2>1
  <2>3. ShapeOK(m)
    BY <2>2 DEF TradingInv, Shaped
  <2>4. m \in Movements
    <3>1. account[u] \in Accounts(Movements)
      BY DEF TradingInv, TTypes
    <3> QED
      BY <2>2, <3>1, AccountTyped DEF InBook
  <2>5. m.dA \in Int /\ m.dR \in Int
    BY <2>4, MovementsTyped
  <2> QED
    BY <2>2, <2>3, <2>5 DEF ShapeOK
<1>2. ASSUME NEW c \in Calls, order[c].status # "none"
      PROVE  /\ ~Rec!TradeExecutionAccounting(Rec!Ledger(account), OrderRow(c))
             /\ ~Rec!TradeProjection(OrderRow(c), TradeRow(c))
  <2>1. PICK o, t : o = OrderRow(c) /\ t = TradeRow(c)
    OBVIOUS
  <2>2. ~Rec!TradeExecutionAccounting(Rec!Ledger(account), o)
    BY <1>2, <2>1, OrderAccounts
  <2>3. ~Rec!TradeProjection(o, t)
    BY <1>2, <2>1, TradeProjected
  <2> QED
    BY <2>1, <2>2, <2>3
<1> QED
  BY <1>1, <1>2 DEF Reconciles

LEMMA OrdersAccounted == TradingInv /\ ReserveBacked => OrderMatchesLedger
<1> SUFFICES ASSUME TradingInv, ReserveBacked PROVE OrderMatchesLedger
  OBVIOUS
<1>1. TypeOK
  BY DEF TradingInv, TTypes, RowTypes, AccountsSound, Sound, TypeOK
<1>2. ASSUME NEW c \in Calls
      PROVE  LET own == {step \in Steps : HasKey(account[Request[c].user], <<c, step>>)}
                 o == order[c]
             IN  /\ o.status = "none" => own = {}
                 /\ o.status \in Active => own = (IF Buys(c) THEN {"reserve"} ELSE {})
                 /\ o.status \in Released => own = (IF Buys(c) THEN {"reserve", o.status} ELSE {})
                 /\ o.status \in Filled =>
                       /\ own = (IF Buys(c) THEN {"reserve", "debit"} ELSE {"credit"})
                                \cup (IF o.fee > 0 THEN {"fee"} ELSE {})
                                \cup (IF o.released > 0 THEN {"unused"} ELSE {})
                       /\ trade[c].amount = o.filled /\ trade[c].fee = o.fee
                 /\ o.status \in Terminal /\ Buys(c) =>
                       o.filled + o.fee + o.released = ReserveOf(c)
  <2> DEFINE own == {step \in Steps : HasKey(account[Request[c].user], <<c, step>>)}
             o == order[c]
  <2>1. \A step \in Steps : step \in own <=>
               \/ o.status # "none" /\ Buys(c) /\ step = "reserve"
               \/ o.status \in Released /\ Buys(c) /\ step = o.status
               \/ /\ o.status \in Filled
                  /\ \/ Buys(c) /\ step = "debit"
                     \/ o.fee > 0 /\ step = "fee"
                     \/ ~Buys(c) /\ step = "credit"
                     \/ o.released > 0 /\ step = "unused"
    BY StepKeys
  <2>2. /\ "reserve" \in Steps /\ "debit" \in Steps /\ "fee" \in Steps /\ "credit" \in Steps
        /\ "unused" \in Steps /\ \A status \in Released : status \in Steps
    BY DEF Steps, Released
  <2>3. own \subseteq Steps
    OBVIOUS
  <2>4. /\ "none" \notin Active \cup Released \cup Filled
        /\ Active \cap Released = {} /\ Active \cap Filled = {} /\ Released \cap Filled = {}
        /\ Terminal = Filled \cup Released
    BY DEF Active, Released, Filled, Terminal
  <2>5. o.status \in Filled => trade[c].amount = o.filled /\ trade[c].fee = o.fee
    <3>1. OrderInv(c)
      BY DEF TradingInv
    <3> QED
      BY <3>1 DEF OrderInv
  <2>6. o.status \in Terminal /\ Buys(c) => o.filled + o.fee + o.released = ReserveOf(c)
    <3>1. CASE o.status \in Released
      BY <2>4, <3>1, RowIs, RequestTyped
    <3>2. CASE o.status \in Filled
      BY <2>4, <3>2, RowIs
    <3> QED
      BY <2>4, <3>1, <3>2
  <2> HIDE DEF own, o
  <2>7. o.status = "none" => own = {}
    BY <2>1, <2>3, <2>4
  <2>8. o.status \in Active => own = (IF Buys(c) THEN {"reserve"} ELSE {})
    BY <2>1, <2>2, <2>3, <2>4
  <2>9. o.status \in Released => own = (IF Buys(c) THEN {"reserve", o.status} ELSE {})
    BY <2>1, <2>2, <2>3, <2>4
  <2>10. o.status \in Filled =>
             own = (IF Buys(c) THEN {"reserve", "debit"} ELSE {"credit"})
                   \cup (IF o.fee > 0 THEN {"fee"} ELSE {})
                   \cup (IF o.released > 0 THEN {"unused"} ELSE {})
    BY <2>1, <2>2, <2>3, <2>4
  <2> QED
    BY <2>5, <2>6, <2>7, <2>8, <2>9, <2>10 DEF own, o
<1>3. Reconciles
  BY OrdersReconcile
<1> QED
  BY <1>1, <1>2, <1>3 DEF OrderMatchesLedger

\* In every state, the columns of each order, the entries in the ledger and the
\* trade agree; the entries are exactly those the order's state accounts for; and
\* a buy that ended has spent or given back its whole reserve.
THEOREM OrderAlwaysMatchesLedger == Spec => []OrderMatchesLedger
  BY TradingInit, TradingNext, ReserveAlwaysBacked, OrdersAccounted, PTL DEF Spec
=============================================================================
