--------------------------- MODULE MCCoinTrading ---------------------------
(* One user buys and sells twice what it holds; or buys, repeats the same  *)
(* request and sells; or buys twice on one side and once on the other.     *)
(* At half a Coin per share, 4 shares cost 2, and every fee rounds up to 1.*)
EXTENDS CoinTrading, TLC

CONSTANTS u1, buy, again, sellSome, sellAll, more, buyNo

HalfACoin == NanosScale \div 2

Order(user, key, side, action, stake, shares) ==
    [user |-> user, key |-> key, side |-> side, action |-> action,
     stake |-> stake, shares |-> shares, price |-> HalfACoin]

MCRequest == (buy :> Order(u1, "k1", "yes", "buy", 2, 4))
                @@ (again :> Order(u1, "k1", "yes", "buy", 2, 4))
                @@ (sellSome :> Order(u1, "k2", "yes", "sell", 1, 2))
                @@ (sellAll :> Order(u1, "k3", "yes", "sell", 2, 4))
                @@ (more :> Order(u1, "k4", "yes", "buy", 1, 2))
                @@ (buyNo :> Order(u1, "k5", "no", "buy", 2, 4))

Fill(status, shares, amount, fee) ==
    [status |-> status, shares |-> shares, amount |-> amount, fee |-> fee,
     price |-> HalfACoin, ambiguous |-> FALSE]

NoFill(status, ambiguous) ==
    [status |-> status, shares |-> 0, amount |-> 0, fee |-> 0,
     price |-> HalfACoin, ambiguous |-> ambiguous]

MCOutcomes == { Fill("filled", 4, 2, 1), Fill("filled", 2, 1, 1),
                Fill("partially_filled", 2, 1, 1),
                NoFill("cancelled", FALSE),
                NoFill("error", TRUE), NoFill("error", FALSE) }

MCElsewhere ==
    { [user |-> u1, move |-> [op |-> "crypto_deposit_credit", dA |-> 4, dR |-> 0,
                              key |-> <<"deposit", "credit">>, ref |-> "deposit"]],
      [user |-> u1, move |-> [op |-> "withdrawal_reserve", dA |-> -1, dR |-> 1,
                              key |-> <<"withdrawal", "reserve">>, ref |-> "withdrawal"]] }

MCFewOutcomes == { Fill("filled", 4, 2, 1), NoFill("error", TRUE) }

\* What the account holds when the sides are bought.
Opening == [op |-> "crypto_deposit_credit", dA |-> 8, dR |-> 0,
            key |-> <<"opening", "credit">>, ref |-> "deposit"]

\* Calls that are not in the plan have died before they looked anything up.
Only(calls) == pc = [c \in Calls |-> IF c \in calls THEN "lookup" ELSE "dead"]

MCInit ==
    /\ order = [c \in Calls |-> NoOrder] /\ trade = [c \in Calls |-> NoTrade]
    /\ position = [u \in Users |-> [s \in Sides |-> NoPosition]]
    /\ settled = FALSE
    /\ answer = [c \in Calls |-> None] /\ seen = [c \in Calls |-> NoPosition]
    /\ \/ /\ account = [u \in Users |-> EmptyAccount]
          /\ Only({buy, sellSome, sellAll}) \/ Only({buy, again, sellAll})
       \/ account = [u \in Users |-> Record(EmptyAccount, Opening)] /\ Only({buy, more, buyNo})

MCSpec == MCInit /\ [][Next]_vars

\* The bound on the plan with an opening balance: few answers of the venue, no other postings.
FewAnswers ==
    HasKey(account[u1], Opening.key) =>
        /\ \A c \in Calls : answer[c] \in MCFewOutcomes \cup {None}
        /\ \A p \in Elsewhere : ~HasKey(account[u1], p.move.key)
=============================================================================
