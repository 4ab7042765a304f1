----------------------------- MODULE Withdrawals -----------------------------
(***************************************************************************)
(* Coin withdrawals (src/coinWallets.ts): a quote is created and confirmed *)
(* by its owner, which reserves Coins and opens a request; the request is  *)
(* approved for review, cancelled by the user or rejected by an            *)
(* administrator (both release the reserve), while verified outcomes of    *)
(* the external provider are reconciled in any order and any number of     *)
(* times.  Administrators also post corrections to the same accounts.      *)
(*                                                                         *)
(* Every operation is one database transaction that locks the request (or  *)
(* quote) row first, so it is one action here; a thrown error rolls the    *)
(* transaction back and is no step.  The exception is confirmWithdrawal:   *)
(* its lookup by idempotency key finds nothing to lock, so another         *)
(* confirmation may commit before the quote row is locked.  Postings use   *)
(* CoinPosting, which CoinLedger shows the SQL function to implement.      *)
(*                                                                         *)
(* A quote stands for one (user, idempotency key) of createWithdrawalQuote,*)
(* with its amount; a request for the one withdrawal its quote can open.   *)
(* Ledger entry ids are represented by the entry's idempotency key.        *)
(***************************************************************************)
EXTENDS CoinPosting, FiniteSets, Functions

CONSTANTS
    Users,
    Quotes,
    Owner,          \* [Quotes -> Users]
    Amount,         \* [Quotes -> Nat \ {0}], coin_to_debit_micros
    Keys,           \* idempotency keys clients confirm with
    Corrections,    \* [user, delta, key]: what administrators may correct
    Page,           \* how many entries findCoinEntry lists (500 in the code)
    None            \* SQL null

ASSUME WithdrawalAssumption ==
    /\ IsFiniteSet(Quotes) /\ Owner \in [Quotes -> Users]
    /\ Amount \in [Quotes -> Nat \ {0}]
    /\ Page \in Nat
    /\ \A c \in Corrections : c.user \in Users /\ c.delta \in Int \ {0}
    /\ None \notin Keys \cup (Quotes \X {"release", "provider-failure-release", "final-debit"})

VARIABLES
    account,        \* coin_accounts and coin_ledger_entries, per user
    quote,          \* withdrawal_quotes.status ("absent" before creation)
    late,           \* quotes whose expires_at has passed
    request,        \* wallet_withdrawal_requests, by the quote that opened it
    confirming      \* confirmations past their idempotency lookup

vars == <<account, quote, late, request, confirming>>

Statuses == {"none", "pending_review", "approved_for_review", "cancelled",
             "rejected", "failed", "broadcasted"}

FailureStates == {None, "PROVIDER_STATE_UNKNOWN", "PROVIDER_CONFIRMED_FAILED",
                  "FINAL_AMOUNT_RATE_MISMATCH",
                  "PROVIDER_COMPLETED_AFTER_RESERVE_RELEASE"}

\* What a provider reports, and whether its final amount, transaction hash and
\* the freshly fetched final rate agree.
Outcomes == {"unknown", "failed", "completed", "completed_mismatch"}

-----------------------------------------------------------------------------
(* Ledger movements                                                        *)

Entry(q, step) == <<q, step>>

Movement(q, op, dA, dR, step, ref) ==
    [op |-> op, dA |-> dA, dR |-> dR, key |-> Entry(q, step), ref |-> ref]

ReserveMove(q) ==
    Movement(q, "withdrawal_reserve", -Amount[q], Amount[q],
             "reserve", "withdrawal_requested")

\* The reason and the actor are part of the movement: a cancellation and a
\* rejection with the same key are different movements.
ReleaseMove(q, target) ==
    Movement(q, "withdrawal_release", Amount[q], -Amount[q], "release", target)

FailureReleaseMove(q) ==
    Movement(q, "withdrawal_release", Amount[q], -Amount[q],
             "provider-failure-release", "verified_provider_withdrawal_failed")

DebitMove(q) ==
    Movement(q, "withdrawal_debit", 0, -Amount[q],
             "final-debit", "verified_provider_withdrawal_completed")

CorrectionMove(c) ==
    Movement(c.key, IF c.delta > 0 THEN "correction_credit" ELSE "correction_debit",
             c.delta, 0, "correction", "admin")

Posted(u, m) == account' = [account EXCEPT ![u] = Post(@, m)]

\* listEntries(user, Page), newest first, searched for the entry's id.
Listed(acc, id) ==
    \E i \in DOMAIN acc.entries :
        /\ i > Len(acc.entries) - Page
        /\ acc.entries[i].move.key = id

-----------------------------------------------------------------------------
\* "blocked" is real_transfer_blocked: the request is in review, and no provider
\* has said anything of its transfer.
Opened(status, key) == [status |-> status, key |-> key, failure |-> None,
                        release |-> None, final |-> None, blocked |-> TRUE]

NoRequest == Opened("none", None)

EntryIds == {None} \cup (Quotes \X {"release", "provider-failure-release", "final-debit"})

Requests == [status : Statuses, key : Keys \cup {None}, failure : FailureStates,
             release : EntryIds, final : EntryIds, blocked : BOOLEAN]

Movements ==
    {ReserveMove(q) : q \in Quotes}
    \cup {ReleaseMove(q, target) : q \in Quotes, target \in {"cancelled", "rejected"}}
    \cup {FailureReleaseMove(q) : q \in Quotes}
    \cup {DebitMove(q) : q \in Quotes}
    \cup {CorrectionMove(c) : c \in Corrections}

\* No row of a join is null.
ASSUME NullAssumption == None \notin [user : Users, move : Movements]

TypeOK ==
    /\ account \in [Users -> Accounts(Movements)]
    /\ quote \in [Quotes -> {"absent", "open", "consumed"}]
    /\ late \in SUBSET Quotes
    /\ request \in [Quotes -> Requests]
    /\ confirming \in SUBSET (Quotes \X Keys)

Init ==
    /\ account = [u \in Users |-> EmptyAccount]
    /\ quote = [q \in Quotes |-> "absent"]
    /\ late = {}
    /\ request = [q \in Quotes |-> NoRequest]
    /\ confirming = {}

-----------------------------------------------------------------------------
(* Quotes and their confirmation                                           *)

CreateQuote(q) ==
    /\ quote[q] = "absent"
    /\ quote' = [quote EXCEPT ![q] = "open"]
    /\ UNCHANGED <<account, late, request, confirming>>

\* The clock passes expires_at.
ExpireQuote(q) ==
    /\ quote[q] # "absent" /\ q \notin late
    /\ late' = late \cup {q}
    /\ UNCHANGED <<account, quote, request, confirming>>

\* (mutant) Only requests still in review count.
KeyTakenInReview(u, k) ==
    \E q \in Quotes : /\ Owner[q] = u /\ request[q].key = k
                      /\ request[q].status = "pending_review"

KeyTaken(u, k) == \E q \in Quotes : Owner[q] = u /\ request[q].key = k

\* No request with this key yet.  If there is one, the call returns it (same
\* quote) or fails (another quote), and nothing changes.
LookupConfirm(q, k) ==
    /\ quote[q] # "absent"
    /\ ~KeyTaken(Owner[q], k)
    /\ confirming' = confirming \cup {<<q, k>>}
    /\ UNCHANGED <<account, quote, late, request>>

\* The quote row is locked, still open and not expired: reserve, insert the
\* request (unique per user and key), consume the quote.
Confirm(q, k) ==
    /\ <<q, k>> \in confirming
    /\ quote[q] = "open" /\ q \notin late
    /\ CanPost(account[Owner[q]], ReserveMove(q))
    /\ ~KeyTaken(Owner[q], k)
    /\ Posted(Owner[q], ReserveMove(q))
    /\ request' = [request EXCEPT ![q] = Opened("pending_review", k)]
    /\ quote' = [quote EXCEPT ![q] = "consumed"]
    /\ confirming' = confirming \ {<<q, k>>}
    /\ UNCHANGED late

\* The confirmation fails, or its process dies.  The update to 'expired' of a
\* quote found expired is in the transaction the error rolls back.
AbandonConfirm(q, k) ==
    /\ <<q, k>> \in confirming
    /\ confirming' = confirming \ {<<q, k>>}
    /\ UNCHANGED <<account, quote, late, request>>

-----------------------------------------------------------------------------
(* Review                                                                  *)

ApproveForReview(q) ==
    /\ request[q].status = "pending_review"
    /\ request' = [request EXCEPT ![q].status = "approved_for_review"]
    /\ UNCHANGED <<account, quote, late, confirming>>

\* An approved or a failed withdrawal is given back as it is, whatever it failed
\* of; any other is approved for review: nothing is ever sent again.
SafeRetryWithdrawal(q) ==
    /\ request[q].status \notin {"approved_for_review", "failed"}
    /\ ApproveForReview(q)

CanReleaseReserve(r) ==
    r.status = "failed" => r.failure = "PROVIDER_CONFIRMED_FAILED"

Releasable(r, target) ==
    /\ ~(r.status = target /\ r.release # None)     \* answered, nothing to do
    /\ CanReleaseReserve(r)
    /\ r.status \in {"pending_review", "approved_for_review", "failed"}
    /\ r.final = None

\* The release a verified provider failure already made, if it can be found.
FoundRelease(q) ==
    /\ request[q].status = "failed"
    /\ request[q].failure = "PROVIDER_CONFIRMED_FAILED"
    /\ request[q].release # None
    /\ Listed(account[Owner[q]], request[q].release)

\* What cancelWithdrawal and rejectWithdrawal ask for.
Targets == {"cancelled", "rejected"}

Closed(r, target, id) == [r EXCEPT !.status = target, !.blocked = TRUE, !.release = id]

ReleaseWithdrawal(q, target) ==
    /\ Releasable(request[q], target)
    /\ \/ /\ FoundRelease(q)
          /\ request' = [request EXCEPT ![q] = Closed(@, target, @.release)]
          /\ UNCHANGED account
       \/ /\ ~FoundRelease(q)
          /\ CanPost(account[Owner[q]], ReleaseMove(q, target))
          /\ Posted(Owner[q], ReleaseMove(q, target))
          /\ request' = [request EXCEPT ![q] = Closed(@, target, Entry(q, "release"))]
    /\ UNCHANGED <<quote, late, confirming>>

-----------------------------------------------------------------------------
(* Provider outcomes                                                       *)

Failed(r, failure, id) ==
    [r EXCEPT !.status = "failed", !.blocked = FALSE, !.failure = failure, !.release = id]

Completed(r, id) ==
    [r EXCEPT !.status = "broadcasted", !.blocked = FALSE, !.failure = None, !.final = id]

\* recordWithdrawalFailureState without a release, whatever the status was.
RecordFailure(q, failure) ==
    /\ request' = [request EXCEPT ![q] = Failed(@, failure, @.release)]
    /\ UNCHANGED account

\* (mutant) The release is posted and its id not stored.
RecordVerifiedFailureUnlinked(q) ==
    /\ CanPost(account[Owner[q]], FailureReleaseMove(q))
    /\ Posted(Owner[q], FailureReleaseMove(q))
    /\ request' = [request EXCEPT ![q] = Failed(@, "PROVIDER_CONFIRMED_FAILED", None)]

ReleaseFailed(q) ==
    LET id == Entry(q, "provider-failure-release") IN
    /\ CanPost(account[Owner[q]], FailureReleaseMove(q))
    /\ Posted(Owner[q], FailureReleaseMove(q))
    /\ request' = [request EXCEPT ![q] = Failed(@, "PROVIDER_CONFIRMED_FAILED", id)]

\* (mutant) The release is posted whether or not the reserve already left.
RecordVerifiedFailureAgain(q) == ReleaseFailed(q)

\* A verified failure returns the reserve unless it already left.
RecordVerifiedFailure(q) ==
    IF request[q].release = None
    THEN ReleaseFailed(q)
    ELSE RecordFailure(q, "PROVIDER_CONFIRMED_FAILED")

Debit(q) ==
    /\ CanPost(account[Owner[q]], DebitMove(q))
    /\ Posted(Owner[q], DebitMove(q))
    /\ request' = [request EXCEPT ![q] = Completed(@, Entry(q, "final-debit"))]

\* (mutant) The debit is posted whether or not the reserve was released.
RecordCompletionAnyway(q) == Debit(q)

RecordCompletion(q) ==
    IF request[q].release = None
    THEN Debit(q)
    ELSE RecordFailure(q, "PROVIDER_COMPLETED_AFTER_RESERVE_RELEASE")

\* reconcileVerifiedWithdrawalOutcome: once the final debit is booked every
\* further outcome is answered without a change.
ReconcileOutcome(q, outcome) ==
    /\ request[q].status # "none"
    /\ request[q].final = None
    /\ \/ outcome = "unknown" /\ RecordFailure(q, "PROVIDER_STATE_UNKNOWN")
       \/ outcome = "failed" /\ RecordVerifiedFailure(q)
       \/ outcome = "completed_mismatch"
          /\ RecordFailure(q, "FINAL_AMOUNT_RATE_MISMATCH")
       \/ outcome = "completed" /\ RecordCompletion(q)
    /\ UNCHANGED <<quote, late, confirming>>

\* createCorrection; a repeated correction is answered without a change.
CreateCorrection(c) ==
    /\ CanPost(account[c.user], CorrectionMove(c))
    /\ Posted(c.user, CorrectionMove(c))
    /\ UNCHANGED <<quote, late, request, confirming>>

Next ==
    \/ \E q \in Quotes :
          \/ CreateQuote(q)
          \/ ExpireQuote(q)
          \/ \E k \in Keys : LookupConfirm(q, k) \/ Confirm(q, k) \/ AbandonConfirm(q, k)
          \/ ApproveForReview(q) \/ SafeRetryWithdrawal(q)
          \/ \E target \in Targets : ReleaseWithdrawal(q, target)
          \/ \E outcome \in Outcomes : ReconcileOutcome(q, outcome)
    \/ \E c \in Corrections : CreateCorrection(c)

Spec == Init /\ [][Next]_vars

-----------------------------------------------------------------------------
(* Properties                                                              *)

Booked(q, step) == HasKey(account[Owner[q]], Entry(q, step))

\* The request as the reconciliation reads it.
Rec == INSTANCE Reconciliation WITH Null <- None

RequestRow(q) ==
    LET r == request[q] IN
    [status |-> r.status,
     reserved |-> IF r.status = "none" THEN 0 ELSE Amount[q],
     debited |-> IF r.status = "broadcasted" THEN Amount[q] ELSE 0,
     reserve |-> IF r.status = "none" THEN None ELSE Entry(q, "reserve"),
     release |-> r.release, final |-> r.final]

Reconciles ==
    LET ledger == Rec!Ledger(account) IN
    /\ Rec!AccountsReconcile(account)
    /\ \A q \in Quotes : /\ ~Rec!WithdrawalReserve(ledger, RequestRow(q))
                         /\ ~Rec!WithdrawalTerminal(RequestRow(q))

\* mapWithdrawal: a row it refuses makes every answer that lists it an error.
MapsWithdrawal(r) ==
    r.blocked <=> r.status \in {"pending_review", "approved_for_review", "rejected", "cancelled"}

Outstanding(q) ==
    request[q].status # "none" /\ request[q].release = None /\ request[q].final = None

Held(u) ==
    SumFunctionOnSet([q \in Quotes |-> IF Owner[q] = u /\ Outstanding(q) THEN Amount[q] ELSE 0],
                     Quotes)

\* The reserved balance of a user is exactly the sum of the withdrawals that
\* were neither released nor paid out, whatever was cancelled, rejected,
\* retried or reported by the provider in whatever order.
ReserveBacked == \A u \in Users : account[u].reserved = Held(u)

\* What the runbook says of the same thing: "cancellation or rejection must
\* append one exact withdrawal_release" (docs/RUNBOOK.md).  It holds only while
\* findCoinEntry still lists the release a provider failure already made.
OneExactRelease ==
    \A q \in Quotes : ~(Booked(q, "release") /\ Booked(q, "provider-failure-release"))

\* Two concurrent confirmations cannot open two withdrawals with one key.
OneRequestPerKey ==
    \A p, q \in Quotes :
        /\ Owner[p] = Owner[q]
        /\ request[p].key = request[q].key
        /\ request[p].key # None
        => p = q

\* Cancelled and rejected withdrawals were released, broadcasted ones debited, and
\* no withdrawal both; the row names the entries that the ledger has, and can be
\* read back.
RowsTruthful ==
    \A q \in Quotes :
        LET r == request[q] IN
        /\ r.status # "none" => MapsWithdrawal(r)
        /\ r.status # "none" <=> Booked(q, "reserve")
        /\ r.status \in {"cancelled", "rejected"} => r.release # None
        /\ r.status = "broadcasted" <=> r.final # None
        /\ r.release = None \/ r.final = None
        /\ r.release # None <=> Booked(q, "release") \/ Booked(q, "provider-failure-release")
        /\ r.final # None <=> Booked(q, "final-debit")

\* The request rows tell the truth about the ledger: each of them does, no two of
\* a user were opened with one key, and the reconciliation finds no discrepancy.
RowMatchesLedger == OneRequestPerKey /\ Reconciles /\ RowsTruthful

\* Coins are set aside once and leave once.
Stage(q) ==
    IF Booked(q, "final-debit") THEN "paid"
    ELSE IF Booked(q, "release") \/ Booked(q, "provider-failure-release") THEN "released"
    ELSE IF Booked(q, "reserve") THEN "held" ELSE "none"

Escrow == INSTANCE WithdrawalEscrow WITH
            Withdrawals <- Quotes,
            available <- [u \in Users |-> account[u].available],
            reserved <- [u \in Users |-> account[u].reserved],
            stage <- [q \in Quotes |-> Stage(q)]
ImplementsEscrow == Escrow!Spec
=============================================================================
