--------------------------- MODULE Reconciliation ---------------------------
(***************************************************************************)
(* The reconciliation report (scripts/reconcileCoins.ts): read-only        *)
(* queries that compare the projections (accounts, deposits, withdrawals,  *)
(* orders, trades) with the Coin ledger.  A check is an operator that is   *)
(* true of a row its query lists; Withdrawals, Deposits and CoinTrading    *)
(* claim that it lists none, in any state the system can be in.            *)
(*                                                                         *)
(* The queries see one table of entries.  A left join gives the entry with *)
(* an id, or Null; entry ids are represented by idempotency keys, whose    *)
(* first component is the source id.                                       *)
(***************************************************************************)
EXTENDS Integers, Sequences, Functions

CONSTANT Null

-----------------------------------------------------------------------------
(* Entries                                                                 *)

\* coin_ledger_entries.
Ledger(account) ==
    UNION {{[user |-> u, move |-> account[u].entries[i].move] : i \in DOMAIN account[u].entries} :
                u \in DOMAIN account}

Joined(ledger, id) ==
    IF \E e \in ledger : e.move.key = id THEN CHOOSE e \in ledger : e.move.key = id ELSE Null

Moves(e, op, dA, dR) == e # Null /\ e.move.op = op /\ e.move.dA = dA /\ e.move.dR = dR

OwnMoves(e, user, op, dA, dR) == Moves(e, op, dA, dR) /\ e.user = user

-----------------------------------------------------------------------------
(* Accounts                                                                *)

Availables(acc, n) == SumFunctionOnSet([i \in 1 .. n |-> acc.entries[i].move.dA], 1 .. n)
Reserveds(acc, n) == SumFunctionOnSet([i \in 1 .. n |-> acc.entries[i].move.dR], 1 .. n)

CoinCacheVsLedger(acc) ==
    \/ acc.available # Availables(acc, Len(acc.entries))
    \/ acc.reserved # Reserveds(acc, Len(acc.entries))

CoinEntryRunningBalance(acc) ==
    \E i \in DOMAIN acc.entries :
        \/ acc.entries[i].availableAfter # Availables(acc, i)
        \/ acc.entries[i].reservedAfter # Reserveds(acc, i)

FeeEntries(ledger) ==
    \E e \in ledger : e.move.op = "fee_debit" /\ e.move.dA + e.move.dR >= 0

AccountsReconcile(account) ==
    \A u \in DOMAIN account :
        ~CoinCacheVsLedger(account[u]) /\ ~CoinEntryRunningBalance(account[u])

-----------------------------------------------------------------------------
(* Deposits: [status, user, credited, entry, reversal, event]              *)

DepositLedger(ledger, d) ==
    /\ d.status = "credited"
    /\ \/ d.user = Null
       \/ ~OwnMoves(Joined(ledger, d.entry), d.user, "crypto_deposit_credit", d.credited, 0)

DepositReversal(ledger, d) ==
    /\ d.status = "reversed"
    /\ ~Moves(Joined(ledger, d.reversal), "reversed_deposit", -d.credited, 0)

\* The deposit names a provider event that is stored.
DepositProviderRecord(stored, d) ==
    /\ d.status \in {"credited", "reversal_pending", "reversing", "reversed"}
    /\ d.event \notin stored

-----------------------------------------------------------------------------
(* Withdrawals: [status, reserved, debited, reserve, release, final]       *)

WithdrawalReserve(ledger, r) ==
    /\ r.reserved > 0
    /\ ~Moves(Joined(ledger, r.reserve), "withdrawal_reserve", -r.reserved, r.reserved)

WithdrawalTerminal(r) ==
    \/ r.status \in {"rejected", "cancelled"} /\ r.reserved > 0 /\ r.release = Null
    \/ r.debited > 0 /\ r.final = Null
    \/ r.release # Null /\ r.final # Null

-----------------------------------------------------------------------------
(* Orders: [id, user, action, status, reserved, filled, fee, released] and *)
(* the ids of the entries [reserve, debit, feeEntry, credit, release]      *)

\* The entry in a column of an order is this movement, for this order.
OrderEntry(ledger, o, id, op, dA, dR) ==
    \E e \in ledger : /\ e.move.key = id
                      /\ OwnMoves(e, o.user, op, dA, dR)
                      /\ e.move.ref = "trade_execution_order" /\ e.move.key[1] = o.id

ReserveUnsound(ledger, o) ==
    /\ o.action = "buy"
    /\ \/ /\ o.reserved > 0
          /\ ~OrderEntry(ledger, o, o.reserve, "trade_reserve", -o.reserved, o.reserved)
       \/ /\ o.status \in {"partially_filled", "filled", "cancelled", "failed"}
          /\ o.filled + o.fee + o.released # o.reserved

FillUnsound(ledger, o) ==
    /\ o.filled > 0
    /\ \/ /\ o.action = "buy"
          /\ ~OrderEntry(ledger, o, o.debit, "trade_debit", 0, -o.filled)
       \/ /\ o.action = "sell"
          /\ ~OrderEntry(ledger, o, o.credit, "trade_settlement_credit", o.filled, 0)

FeeUnsound(ledger, o) ==
    \/ /\ o.fee > 0
       /\ ~OrderEntry(ledger, o, o.feeEntry, "fee_debit",
                      IF o.action = "sell" THEN -o.fee ELSE 0,
                      IF o.action = "buy" THEN -o.fee ELSE 0)
    \/ o.action = "sell" /\ o.fee > o.filled

ReleaseUnsound(ledger, o) ==
    /\ o.released > 0
    /\ ~OrderEntry(ledger, o, o.release, "trade_release", o.released, -o.released)

\* Entries the order may not have.
EntryUncalledFor(o) ==
    \/ o.action = "sell" /\ (o.reserve # Null \/ o.debit # Null \/ o.release # Null)
    \/ o.action = "buy" /\ o.credit # Null
    \/ o.filled = 0 /\ (o.debit # Null \/ o.credit # Null)
    \/ o.fee = 0 /\ o.feeEntry # Null
    \/ o.released = 0 /\ o.release # Null

\* Entries of the order that it does not name.
EntryUnnamed(ledger, o) ==
    \E e \in ledger :
        /\ e.move.ref = "trade_execution_order" /\ e.move.key[1] = o.id
        /\ e.move.key \notin {o.reserve, o.debit, o.release, o.credit, o.feeEntry}

TradeExecutionAccounting(ledger, o) ==
    \/ ReserveUnsound(ledger, o) \/ FillUnsound(ledger, o) \/ FeeUnsound(ledger, o)
    \/ ReleaseUnsound(ledger, o) \/ EntryUncalledFor(o) \/ EntryUnnamed(ledger, o)

\* trades: Null, or [user, side, action, amount, fee, shares, hasProfit].
TradeProjection(o, t) ==
    \/ /\ o.status \in {"filled", "partially_filled"}
       /\ \/ t = Null
          \/ <<t.user, t.side, t.action, t.amount, t.fee, t.shares>>
               # <<o.user, o.side, o.action, o.filled, o.fee, o.shares>>
          \/ t.hasProfit # (o.action = "sell")
    \/ o.status \in {"cancelled", "failed"} /\ t # Null
=============================================================================
