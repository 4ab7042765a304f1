----------------------------- MODULE MCDeposits -----------------------------
(* Two transfers and two intents of one user.  The reports of a transfer   *)
(* progress, repeat an event id with another payload, dispute the amount,  *)
(* lose confirmations, are invalid, and reverse it.                        *)
EXTENDS Deposits, TLC

CONSTANTS u1, i1, i2, t1, t2, e1, e2, e3, e4, e5

MCIntentOwner == [i \in {i1, i2} |-> u1]
MCIntentAmount == [i \in {i1, i2} |-> 1]
MCDestination == [t \in {t1, t2} |-> u1]

Report(id, t, amount, n, state, valid) ==
    [id |-> id, transfer |-> t, amount |-> amount, confirmations |-> n,
     state |-> state, valid |-> valid]

MCReports == { Report(e1, t1, 1, 1, "pending", TRUE),
               Report(e1, t1, 1, 2, "confirmed", TRUE),
               Report(e2, t1, 1, 2, "confirmed", TRUE),
               Report(e3, t1, 1, 2, "reversal", TRUE),
               Report(e4, t1, 2, 2, "confirmed", TRUE),
               Report(e5, t2, 1, 2, "confirmed", TRUE),
               Report(e5, t2, 1, 2, "confirmed", FALSE) }

MCElsewhere ==
    { [user |-> u1, move |-> [op |-> "withdrawal_reserve", dA |-> -1, dR |-> 1,
                              key |-> <<"withdrawal", "reserve">>, ref |-> "withdrawal"]],
      [user |-> u1, move |-> [op |-> "withdrawal_release", dA |-> 1, dR |-> -1,
                              key |-> <<"withdrawal", "release">>, ref |-> "withdrawal"]] }
=============================================================================
