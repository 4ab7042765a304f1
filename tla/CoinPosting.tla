---------------------------- MODULE CoinPosting ----------------------------
(***************************************************************************)
(* The arithmetic and the acceptance rule of one Coin ledger posting: what *)
(* the SQL function coin_post_ledger_entry does to one account once it     *)
(* holds the row lock on that account (migrations/031).  There is no state *)
(* here: the machines that post (CoinLedger, Withdrawals, Deposits, ...)   *)
(* EXTEND this module.                                                     *)
(*                                                                         *)
(* A movement is [op, dA, dR, key, ref].  "ref" stands for everything else *)
(* the idempotency comparison looks at (source, reason, external           *)
(* reference, rate snapshot, administrator): only its identity matters.    *)
(***************************************************************************)
EXTENDS Integers, Sequences

CONSTANT MaxMicros      \* the largest value of a bigint "micros" column

ASSUME MaxMicrosAssumption == MaxMicros \in Nat

-----------------------------------------------------------------------------
Credits  == {"crypto_deposit_credit", "refund_credit", "bonus_credit",
             "admin_credit", "correction_credit", "trade_settlement_credit"}
Reserves == {"withdrawal_reserve", "trade_reserve"}
Releases == {"withdrawal_release", "trade_release"}
FinalDebits == {"withdrawal_debit", "trade_debit"}
AvailableDebits == {"reversed_deposit", "admin_debit", "correction_debit"}

Operations == Credits \cup Reserves \cup Releases \cup FinalDebits
                \cup AvailableDebits \cup {"fee_debit", "migration_credit"}

\* The CHECK constraints on the sign of the two deltas, per operation.
ShapeOK(m) ==
    /\ m.dA # 0 \/ m.dR # 0
    /\ m.op \in Credits         => m.dA > 0 /\ m.dR = 0
    /\ m.op \in Reserves        => m.dA < 0 /\ m.dR = -m.dA
    /\ m.op \in Releases        => m.dA > 0 /\ m.dR = -m.dA
    /\ m.op \in FinalDebits     => m.dA = 0 /\ m.dR < 0
    /\ m.op \in AvailableDebits => m.dA < 0 /\ m.dR = 0
    /\ m.op = "fee_debit"        => m.dA + m.dR < 0
    /\ m.op = "migration_credit" => m.dA >= 0 /\ m.dR >= 0

\* (mutant) Migration credits are let through before the migration.
FenceOpenToMigration(system, op) == system = "coin" \/ op = "migration_credit"

\* Which operations the money-system fence lets through.
FenceOpen(system, op) ==
    \/ system = "coin"
    \/ system = "migrating" /\ op = "migration_credit"

-----------------------------------------------------------------------------
\* An account is the cached balance row together with its immutable entries.
Accounts(moves) ==
    [available : Int, reserved : Int,
     entries : Seq([move : moves, availableAfter : Int, reservedAfter : Int])]

EmptyAccount == [available |-> 0, reserved |-> 0, entries |-> << >>]

\* (mutant) The key is looked up in the newest entry only.
HasLatestKey(acc, key) ==
    acc.entries # << >> /\ acc.entries[Len(acc.entries)].move.key = key

\* The entry that already carries the movement's idempotency key, if any.
HasKey(acc, key) == \E i \in DOMAIN acc.entries : acc.entries[i].move.key = key

\* (mutant) Only the operation is compared, not the amounts.
SameOperation(acc, m) ==
    \A i \in DOMAIN acc.entries :
        acc.entries[i].move.key = m.key => acc.entries[i].move.op = m.op

\* Every entry with that key is this very movement (else: reuse mismatch).
SameMovement(acc, m) ==
    \A i \in DOMAIN acc.entries :
        acc.entries[i].move.key = m.key => acc.entries[i].move = m

\* Neither balance may go negative, nor leave the bigint range.
Covers(available, reserved, m) ==
    /\ available + m.dA \in 0 .. MaxMicros
    /\ reserved + m.dR \in 0 .. MaxMicros

\* The balance update and the insert of the entry with its after-balances.
Record(acc, m) ==
    [available |-> acc.available + m.dA,
     reserved  |-> acc.reserved + m.dR,
     entries   |-> Append(acc.entries,
                          [move |-> m,
                           availableAfter |-> acc.available + m.dA,
                           reservedAfter  |-> acc.reserved + m.dR])]

\* The call returns an entry (a new one, or the existing one of a retry) ...
CanPost(acc, m) ==
    IF HasKey(acc, m.key)
    THEN SameMovement(acc, m)
    ELSE Covers(acc.available, acc.reserved, m) /\ ShapeOK(m)

\* ... and leaves this account behind.
Post(acc, m) == IF HasKey(acc, m.key) THEN acc ELSE Record(acc, m)

-----------------------------------------------------------------------------
(* What an account must look like: not code, but the ledger's promise.     *)

AvailableAfter(acc, i) == IF i = 0 THEN 0 ELSE acc.entries[i].availableAfter
ReservedAfter(acc, i)  == IF i = 0 THEN 0 ELSE acc.entries[i].reservedAfter

\* Every entry's after-balance is the one before it plus its own deltas, and
\* the cached row is the last after-balance.
Chained(acc) ==
    /\ \A i \in DOMAIN acc.entries :
          /\ AvailableAfter(acc, i) = AvailableAfter(acc, i - 1) + acc.entries[i].move.dA
          /\ ReservedAfter(acc, i) = ReservedAfter(acc, i - 1) + acc.entries[i].move.dR
    /\ acc.available = AvailableAfter(acc, Len(acc.entries))
    /\ acc.reserved = ReservedAfter(acc, Len(acc.entries))

\* No idempotency key was ever booked twice.
KeysUnique(acc) ==
    \A i, j \in DOMAIN acc.entries :
        acc.entries[i].move.key = acc.entries[j].move.key => i = j

Covered(acc) == acc.available \in 0 .. MaxMicros /\ acc.reserved \in 0 .. MaxMicros

Sound(acc) == Chained(acc) /\ KeysUnique(acc) /\ Covered(acc)

\* "new" continues "old": the immutable history is a prefix of it.
Continues(old, new) ==
    /\ Len(old.entries) <= Len(new.entries)
    /\ \A i \in DOMAIN old.entries : new.entries[i] = old.entries[i]

\* The movement was booked.
InBook(acc, m) == \E i \in DOMAIN acc.entries : acc.entries[i].move = m
=============================================================================
