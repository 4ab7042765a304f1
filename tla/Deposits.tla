------------------------------ MODULE Deposits ------------------------------
(***************************************************************************)
(* Coin deposits (src/coinWallets.ts): a user announces a transfer with a  *)
(* deposit intent; the provider reports on-chain transfers in events that  *)
(* are duplicated, reordered, delayed and sometimes contradict each other; *)
(* a fully confirmed, undisputed transfer is credited at the rate of the   *)
(* moment, and taken back when the provider reports a reversal.            *)
(*                                                                         *)
(* processFireblocksWebhook fetches its rate first and is one transaction  *)
(* then: the unique event id, the advisory lock on the chain coordinates   *)
(* and the row locks make the transactions of one transfer follow each     *)
(* other, so an event is one action.  The same goes for retryDeposit: what *)
(* it checks before its transaction cannot become false later.             *)
(*                                                                         *)
(* A transfer is a set of chain coordinates.  "amount" stands for all its  *)
(* immutable evidence (asset, amounts, fees, provider transaction): two    *)
(* reports with different amounts conflict.                                *)
(***************************************************************************)
EXTENDS CoinPosting

CONSTANTS
    Users,
    Intents,
    IntentOwner,        \* [Intents -> Users]
    IntentAmount,       \* [Intents -> Nat \ {0}]
    Transfers,
    Destination,        \* [Transfers -> Users], whose address it went to
    EventIds,
    Reports,            \* [id, transfer, amount, confirmations, state, valid]
    Required,           \* requiredConfirmations
    CreditSettings,     \* allowDepositCredits of the deployed processes
    Rates,              \* Coins per unit the rate provider may quote
    Elsewhere,          \* [user, move]: postings of other components
    None

\* Reasons that validateDepositForCredit never gets past.
Sticky == {"IMMUTABLE_FIELDS_CONFLICT", "INTENT_AMBIGUOUS"}

\* What it may object to.
Objections == Sticky \cup
    {"INVALID_EVENT", "INTENT_MISSING", "INTENT_MISMATCH", "INSUFFICIENT_CONFIRMATIONS",
     "STATUS_NOT_CONFIRMED", "AMOUNT_MISMATCH"}

NoRate == {"RATE_UNAVAILABLE", "RATE_STALE"}

ASSUME DepositAssumption ==
    /\ IntentOwner \in [Intents -> Users]
    /\ IntentAmount \in [Intents -> Nat \ {0}]
    /\ Destination \in [Transfers -> Users]
    /\ Reports \subseteq [id : EventIds, transfer : Transfers, amount : Nat \ {0},
                          confirmations : Nat, valid : BOOLEAN,
                          state : {"pending", "confirmed", "reversal"}]
    /\ Required \in Nat \ {0}
    /\ CreditSettings \subseteq BOOLEAN
    /\ Rates \subseteq Nat \ {0}
    /\ None \notin Intents /\ None \notin Reports /\ None \notin EventIds
    /\ None \notin Objections \cup NoRate
    /\ \A p \in Elsewhere :
          /\ p.user \in Users /\ p.move.dA \in Int /\ p.move.dR \in Int
          /\ p.move.key \notin Transfers \X {"credit", "reversal"}

VARIABLES
    account,        \* coin_accounts and coin_ledger_entries, per user
    intent,         \* wallet_deposit_intents.status
    late,           \* intents whose expires_at has passed
    event,          \* money_provider_events: the payload stored per event id
    deposit         \* crypto_deposits, per transfer

vars == <<account, intent, late, event, deposit>>

Financial == {"credited", "reversal_pending", "reversed"}

\* A deposit is inserted as 'detected' and always moved on before the commit.
Statuses == {"absent", "confirming", "confirmed_unpriced", "pending_rate",
             "manual_review", "rejected"} \cup Financial

Reasons == Objections \cup NoRate \cup
    {None, "EVENT_ID_CONFLICT", "REVIEW_ONLY", "REVERSAL_BEFORE_CREDIT",
     "REVERSAL_INSUFFICIENT", "REVERSED"}

Deposits == [status : Statuses, reason : Reasons, intent : Intents \cup {None},
             amount : Nat, confirmations : Nat, confirmed : BOOLEAN,
             credited : Nat, last : EventIds \cup {None}]

NoDeposit == [status |-> "absent", reason |-> None, intent |-> None, amount |-> 0,
              confirmations |-> 0, confirmed |-> FALSE, credited |-> 0, last |-> None]

TypeOK ==
    /\ \A u \in Users : Covered(account[u])
    /\ intent \in [Intents -> {"absent", "waiting", "detected", "credited"}]
    /\ late \subseteq Intents
    /\ event \in [EventIds -> Reports \cup {None}]
    /\ deposit \in [Transfers -> Deposits]

Init ==
    /\ account = [u \in Users |-> EmptyAccount]
    /\ intent = [i \in Intents |-> "absent"]
    /\ late = {}
    /\ event = [id \in EventIds |-> None]
    /\ deposit = [t \in Transfers |-> NoDeposit]

-----------------------------------------------------------------------------
(* Ledger movements                                                        *)

CreditMove(t, coins) ==
    [op |-> "crypto_deposit_credit", dA |-> coins, dR |-> 0,
     key |-> <<t, "credit">>, ref |-> "confirmed_usdt_deposit"]

\* (mutant) The reversal takes the transfer's amount, not the Coins credited.
ReversalMoveOfAmount(t, d) ==
    [op |-> "reversed_deposit", dA |-> -d.amount, dR |-> 0,
     key |-> <<t, "reversal">>, ref |-> "provider_reversal_or_chain_reorg"]

ReversalMove(t, d) ==
    [op |-> "reversed_deposit", dA |-> -d.credited, dR |-> 0,
     key |-> <<t, "reversal">>, ref |-> "provider_reversal_or_chain_reorg"]

Movements ==
    {p.move : p \in Elsewhere}
    \cup [op : {"crypto_deposit_credit", "reversed_deposit"}, dA : Int, dR : {0},
          key : Transfers \X {"credit", "reversal"},
          ref : {"confirmed_usdt_deposit", "provider_reversal_or_chain_reorg"}]

\* NULL is no user and no entry of the ledger.
ASSUME NullAssumption == None \notin Users /\ None \notin [user : Users, move : Movements]

Posted(u, m) ==
    /\ CanPost(account[u], m)
    /\ account' = [account EXCEPT ![u] = Post(@, m)]

\* Withdrawals, trades and corrections move the same balances.
PostElsewhere(p) ==
    /\ ~HasKey(account[p.user], p.move.key)
    /\ Posted(p.user, p.move)
    /\ UNCHANGED <<intent, late, event, deposit>>

-----------------------------------------------------------------------------
(* Intents                                                                 *)

CreateDepositIntent(i) ==
    /\ intent[i] = "absent"
    /\ intent' = [intent EXCEPT ![i] = "waiting"]
    /\ UNCHANGED <<account, late, event, deposit>>

\* The clock passes expires_at.
ExpireIntent(i) ==
    /\ intent[i] # "absent" /\ i \notin late
    /\ late' = late \cup {i}
    /\ UNCHANGED <<account, intent, event, deposit>>

\* The intents that may announce a transfer to this user's address.
LiveIntents(u) ==
    {i \in Intents : /\ IntentOwner[i] = u
                     /\ intent[i] \in {"waiting", "detected"}
                     /\ i \notin late}

Detected(i) ==
    intent' = IF i # None /\ intent[i] = "waiting"
              THEN [intent EXCEPT ![i] = "detected"]
              ELSE intent

-----------------------------------------------------------------------------
(* The deposit row of a report                                             *)

Larger(m, n) == IF m > n THEN m ELSE n

\* (mutant) Conflicting evidence also moves a deposit that was credited.
AfterConflictAlways(status) == "manual_review"

\* Conflicting evidence sends a deposit to review, but not back from a credit.
AfterConflict(status) == IF status \in Financial THEN status ELSE "manual_review"

\* A new row: exactly one live intent must announce the transfer.
NewDeposit(r) ==
    LET live == LiveIntents(Destination[r.transfer])
        only == \A i, j \in live : i = j
    IN  [NoDeposit EXCEPT
            !.status = "detected",
            !.reason = IF ~r.valid THEN "INVALID_EVENT"
                       ELSE IF only THEN None ELSE "INTENT_AMBIGUOUS",
            !.intent = IF live # {} /\ only THEN CHOOSE i \in live : TRUE ELSE None,
            !.amount = r.amount,
            !.confirmations = r.confirmations,
            !.last = r.id]

Conflicts(r) ==
    deposit[r.transfer].status # "absent" /\ deposit[r.transfer].amount # r.amount

\* lockOrCreateDeposit: the row after the report was noted on it.
Noted(r) ==
    LET d == deposit[r.transfer]
        touched == [d EXCEPT !.confirmations = Larger(@, r.confirmations), !.last = r.id]
    IN  IF d.status = "absent" THEN NewDeposit(r)
        ELSE IF Conflicts(r) THEN [touched EXCEPT !.status = AfterConflict(@),
                                                  !.reason = "IMMUTABLE_FIELDS_CONFLICT"]
        ELSE touched

Store(t, d) == deposit' = [deposit EXCEPT ![t] = d]

-----------------------------------------------------------------------------
(* Credit                                                                  *)

\* (mutant) Any amount is what the owner announced.
AnyAmount(d) == TRUE

AmountAgrees(d) == IntentAmount[d.intent] = d.amount

WasConfirmed(d) == d.confirmed

\* validateDepositForCredit: the first objection, if any.
Objection(d, r) ==
    IF d.reason \in Sticky THEN d.reason
    ELSE IF ~r.valid THEN "INVALID_EVENT"
    ELSE IF d.intent = None THEN "INTENT_MISSING"
    ELSE IF d.confirmations < Required THEN "INSUFFICIENT_CONFIRMATIONS"
    ELSE IF r.state # "confirmed" /\ ~WasConfirmed(d) THEN "STATUS_NOT_CONFIRMED"
    ELSE IF d.intent \in late THEN "INTENT_MISSING"
    ELSE IF intent[d.intent] = "credited" THEN "INTENT_MISMATCH"
    ELSE IF ~AmountAgrees(d) THEN "AMOUNT_MISMATCH"
    ELSE None

\* creditDeposit: the intent is closed whatever its status was.
CreditDeposit(t, d, rate) ==
    /\ Posted(Destination[t], CreditMove(t, d.amount * rate))
    /\ intent' = [intent EXCEPT ![d.intent] = "credited"]
    /\ Store(t, [d EXCEPT !.status = "credited", !.reason = None, !.confirmed = TRUE,
                          !.credited = d.amount * rate])

\* The rate provider's answer.
Quote(rate) == [error |-> None, rate |-> rate]
NoQuote(error) == [error |-> error, rate |-> 0]

\* The rate is asked for only when this report alone could lead to a credit.
Quotes(r, allowed) ==
    IF r.state = "confirmed" /\ r.valid /\ allowed
    THEN {Quote(rate) : rate \in Rates} \cup {NoQuote(error) : error \in NoRate}
    ELSE {NoQuote("RATE_UNAVAILABLE")}

Assess(d, r, allowed, quote) ==
    LET t == r.transfer
        why == Objection(d, r)
        Hold(held) == Store(t, held) /\ Detected(d.intent) /\ UNCHANGED account
    IN  \/ /\ why = "INSUFFICIENT_CONFIRMATIONS"
           /\ Hold([d EXCEPT !.status = "confirming", !.reason = None])
        \/ /\ why \notin {None, "INSUFFICIENT_CONFIRMATIONS"}
           /\ Hold([d EXCEPT !.status = "manual_review", !.reason = why])
        \/ /\ why = None /\ ~allowed
           /\ Hold([d EXCEPT !.status = "manual_review", !.reason = "REVIEW_ONLY",
                             !.confirmed = TRUE])
        \/ /\ why = None /\ allowed /\ quote.error # None
           /\ Hold([d EXCEPT !.status = IF quote.error = "RATE_STALE" THEN "confirmed_unpriced"
                                                               ELSE "pending_rate",
                             !.reason = quote.error, !.confirmed = TRUE])
        \/ /\ why = None /\ allowed /\ quote.error = None
           /\ CreditDeposit(t, d, quote.rate)

-----------------------------------------------------------------------------
(* Reversal                                                                *)

CanReverse(d) == d.status \in {"credited", "reversal_pending"}

\* reverseDeposit.
Reverse(t, d) ==
    \/ /\ d.status = "reversed"
       /\ Store(t, d) /\ UNCHANGED account
    \/ /\ d.status # "reversed" /\ ~CanReverse(d)
       /\ Store(t, [d EXCEPT !.status = "rejected", !.reason = "REVERSAL_BEFORE_CREDIT"])
       /\ UNCHANGED account
    \/ /\ CanReverse(d)
       /\ account[Destination[t]].available < d.credited
       /\ Store(t, [d EXCEPT !.status = "reversal_pending", !.reason = "REVERSAL_INSUFFICIENT"])
       /\ UNCHANGED account
    \/ /\ CanReverse(d)
       /\ account[Destination[t]].available >= d.credited
       /\ Posted(Destination[t], ReversalMove(t, d))
       /\ Store(t, [d EXCEPT !.status = "reversed", !.reason = "REVERSED"])

-----------------------------------------------------------------------------
(* Events and retries                                                      *)

\* The event id is known with another payload: flag the transfer's deposit.
PayloadConflict(r) ==
    /\ event[r.id] \notin {None, r}
    /\ LET d == deposit[r.transfer] IN
       IF d.status = "absent"
       THEN UNCHANGED deposit
       ELSE Store(r.transfer, [d EXCEPT !.status = AfterConflict(@),
                                        !.reason = "EVENT_ID_CONFLICT"])
    /\ UNCHANGED <<account, intent, late, event>>

\* A new event, or the same one once more.
ProcessEvent(r, allowed, quote) ==
    /\ event[r.id] \in {None, r}
    /\ event' = [event EXCEPT ![r.id] = r]
    /\ LET d == Noted(r) IN
       \/ /\ \/ Conflicts(r)
             \/ d.status \in Financial /\ r.state # "reversal"
          /\ Store(r.transfer, d)
          /\ UNCHANGED <<account, intent>>
       \/ /\ ~Conflicts(r) /\ r.state = "reversal"
          /\ Reverse(r.transfer, d)
          /\ UNCHANGED intent
       \/ /\ ~Conflicts(r) /\ r.state # "reversal" /\ d.status \notin Financial
          /\ Assess(d, r, allowed, quote)
    /\ UNCHANGED late

\* An administrator retries a confirmed deposit that only lacked a rate.
RetryDeposit(t, rate) ==
    /\ TRUE \in CreditSettings
    /\ deposit[t].status \in {"pending_rate", "confirmed_unpriced"}
    /\ deposit[t].confirmations >= Required
    /\ deposit[t].intent # None
    /\ CreditDeposit(t, deposit[t], rate)
    /\ UNCHANGED <<late, event>>

Next ==
    \/ \E i \in Intents : CreateDepositIntent(i) \/ ExpireIntent(i)
    \/ \E r \in Reports :
          \/ PayloadConflict(r)
          \/ \E allowed \in CreditSettings : \E quote \in Quotes(r, allowed) :
                ProcessEvent(r, allowed, quote)
    \/ \E t \in Transfers, rate \in Rates : RetryDeposit(t, rate)
    \/ \E p \in Elsewhere : PostElsewhere(p)

Spec == Init /\ [][Next]_vars

-----------------------------------------------------------------------------
(* Properties                                                              *)

Owned(t) == account[Destination[t]]

\* The deposit as the reconciliation reads it.
Rec == INSTANCE Reconciliation WITH Null <- None

DepositRow(t) ==
    [status |-> deposit[t].status, user |-> Destination[t], credited |-> deposit[t].credited,
     entry |-> <<t, "credit">>, reversal |-> <<t, "reversal">>, event |-> deposit[t].last]

Reconciles ==
    LET ledger == Rec!Ledger(account) IN
    /\ Rec!AccountsReconcile(account)
    /\ \A t \in Transfers :
          /\ ~Rec!DepositLedger(ledger, DepositRow(t))
          /\ ~Rec!DepositReversal(ledger, DepositRow(t))
          /\ ~Rec!DepositProviderRecord({id \in EventIds : event[id] # None}, DepositRow(t))

\* A credit is booked for exactly the deposits that were credited, a reversal of
\* the very same amount for exactly those that were reversed.
RowsTruthful ==
    \A t \in Transfers :
        LET d == deposit[t] IN
        /\ HasKey(Owned(t), <<t, "credit">>) <=> d.status \in Financial
        /\ HasKey(Owned(t), <<t, "reversal">>) <=> d.status = "reversed"
        /\ \A i \in DOMAIN Owned(t).entries :
              LET m == Owned(t).entries[i].move IN
              /\ m.key = <<t, "credit">> => m.dA = d.credited
              /\ m.key = <<t, "reversal">> => m.dA = -d.credited

\* The ledger and the deposit rows agree, and the reconciliation, which compares
\* sums and joins of its own, finds no discrepancy either.
DepositMatchesLedger == TypeOK /\ Reconciles /\ RowsTruthful

\* Coins are credited only on evidence: some stored event reported this very
\* transfer confirmed and valid, with the amount its owner had announced, and
\* enough confirmations were seen.
CreditHasEvidence ==
    \A t \in Transfers :
        deposit[t].status \in Financial =>
            /\ \E id \in EventIds :
                  /\ event[id] # None
                  /\ event[id].transfer = t
                  /\ event[id].state = "confirmed"
                  /\ event[id].valid
                  /\ event[id].amount = deposit[t].amount
            /\ deposit[t].confirmations >= Required
            /\ deposit[t].intent # None
            /\ IntentOwner[deposit[t].intent] = Destination[t]
            /\ IntentAmount[deposit[t].intent] = deposit[t].amount

\* The event-driven flow implements the promise about Coins.
Promise == INSTANCE DepositCredit WITH
    available <- [u \in Users |-> account[u].available],
    credit <- [t \in Transfers |-> deposit[t].credited],
    undone <- {t \in Transfers : deposit[t].status = "reversed"}
ImplementsCredit == Promise!Spec

\* "Provider reversals before credit are rejected" (coins-architecture.md): a
\* transfer reported as reversed before its credit is not credited any more.
RejectedIsFinal ==
    [][\A t \in Transfers :
          deposit[t].status = "rejected" => deposit'[t].status # "credited"]_vars
=============================================================================
