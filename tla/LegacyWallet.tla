---------------------------- MODULE LegacyWallet ----------------------------
(***************************************************************************)
(* The wallet of the platform before the Coin cutover (src/wallets.ts):    *)
(* the deposit webhook that credits the legacy ledger, and withdrawal      *)
(* requests, which are reviewed and never move money.                      *)
(*                                                                         *)
(* The webhook is no transaction: it reads the event of the transfer,      *)
(* records it, advances it, asks for the user's eligibility, credits and   *)
(* marks the event, one statement after the other.  The same transfer is   *)
(* reported many times, with more confirmations, or with another payload;  *)
(* deliveries overlap and may die anywhere.                                *)
(*                                                                         *)
(* One transfer is enough: the rows of different transfers and their       *)
(* ledger keys have nothing in common.                                     *)
(***************************************************************************)
EXTENDS Integers, FiniteSetsExt

CONSTANTS
    None,
    Payloads,           \* what a report of the transfer may say of it
    Amount,             \* the amount in it
    Valid,              \* payloads with a supported asset and a known wallet
    Deliveries,         \* webhook calls that may overlap
    DepositMinConfirmations, MaxConfirmations,
    Requests,           \* withdrawal requests in flight, all with one key
    Body                \* the destination and amount of each

Statuses == {"detected", "rejected", "confirmed", "credited", "manual_review"}
EventRows == [payload : Payloads, conf : 0 .. MaxConfirmations, credited : BOOLEAN,
              status : Statuses]
Entries == [amount : {Amount[p] : p \in Payloads}, conf : 0 .. MaxConfirmations]

LegacyWalletAssumption ==
    /\ Valid \subseteq Payloads
    /\ Amount \in [Payloads -> Nat \ {0}]
    /\ DepositMinConfirmations \in 1 .. MaxConfirmations /\ MaxConfirmations \in Nat
    /\ Body \in [Requests -> Payloads]
    /\ None \notin Payloads \cup Entries \cup EventRows

VARIABLES
    wallet,             \* the recipient has a wallet
    event,              \* the row of wallet_deposit_events
    entry,              \* its entry in the legacy ledger
    blocked,            \* isComplianceBlocked of the user
    delivery,           \* where each webhook call is
    rows,               \* wallet_withdrawal_requests with the key
    request             \* where each withdrawal request is, and what it answered

vars == <<wallet, event, entry, blocked, delivery, rows, request>>

Idle == [step |-> "idle", payload |-> None, conf |-> 0, existing |-> None, event |-> None]

Init ==
    /\ wallet = FALSE /\ event = None /\ entry = None /\ blocked = FALSE
    /\ delivery = [d \in Deliveries |-> Idle]
    /\ rows = {}
    /\ request = [r \in Requests |-> [step |-> "idle", answer |-> None]]

-----------------------------------------------------------------------------
(* The deposit webhook                                                     *)

\* getOrCreateWallet, which every deposit intent begins with.
CreateWallet ==
    /\ ~wallet /\ wallet' = TRUE
    /\ UNCHANGED <<event, entry, blocked, delivery, rows, request>>

\* Another compliance decision about the user.
Decide ==
    /\ blocked' = ~blocked
    /\ UNCHANGED <<wallet, event, entry, delivery, rows, request>>

\* Of the report itself only the confirmations matter once there is a row, and to
\* the statements that write them.
GoTo(d, step, row) ==
    delivery' = [delivery EXCEPT ![d] =
        [Idle EXCEPT !.step = step, !.event = row,
                     !.conf = IF step \in {"conflict", "confirm"} THEN delivery[d].conf ELSE 0]]

Done(d) == delivery' = [delivery EXCEPT ![d] = Idle]

\* receiveDepositWebhook reads the event, if there is one already.
Receive(d, payload, conf) ==
    /\ delivery[d].step = "idle"
    /\ delivery' = [delivery EXCEPT ![d] = [step |-> "record", payload |-> payload, conf |-> conf,
                                            existing |-> event, event |-> event]]
    /\ UNCHANGED <<wallet, event, entry, blocked, rows, request>>

\* (mutant) The wallet is not looked up.
Unsupported(payload) == payload \notin Valid

\* getDepositRejectionReason, with the wallet it reads now.
Rejected(payload) == ~(payload \in Valid /\ wallet)

InitialStatus(payload, conf) ==
    IF Rejected(payload) THEN "rejected"
    ELSE IF conf >= DepositMinConfirmations THEN "confirmed" ELSE "detected"

\* What is left to do of a row: mark a conflict, confirm it, credit it.
NextStep(d, row, mine) ==
    LET call == delivery[d] IN
    IF ~mine /\ row.payload # call.payload THEN "conflict"
    ELSE IF /\ call.existing # None /\ call.existing.status = "detected" /\ ~Rejected(call.payload)
            /\ call.conf >= DepositMinConfirmations /\ call.conf > call.existing.conf
    THEN "confirm"
    ELSE IF row.status = "confirmed" THEN "credit" ELSE "done"

Continue(d, row, mine) ==
    IF NextStep(d, row, mine) = "done" THEN Done(d) ELSE GoTo(d, NextStep(d, row, mine), row)

\* saveDepositEvent: on conflict (tx_hash, log_index) the row that is there.
Record(d) ==
    LET call == delivery[d]
        new == [payload |-> call.payload, conf |-> call.conf, credited |-> FALSE,
                status |-> InitialStatus(call.payload, call.conf)]
    IN  /\ call.step = "record"
        /\ IF call.existing # None THEN Continue(d, call.existing, FALSE) /\ UNCHANGED event
           ELSE IF event = None THEN event' = new /\ Continue(d, new, TRUE)
           ELSE Continue(d, event, FALSE) /\ UNCHANGED event
        /\ UNCHANGED <<wallet, entry, blocked, rows, request>>

\* The same transfer with another payload: the row waits for a person.
MarkConflict(d) ==
    /\ delivery[d].step = "conflict"
    /\ event' = [event EXCEPT !.status = "manual_review",
                              !.conf = Max({delivery[d].event.conf, delivery[d].conf})]
    /\ Done(d)
    /\ UNCHANGED <<wallet, entry, blocked, rows, request>>

Confirm(d) ==
    LET row == [event EXCEPT !.status = "confirmed", !.conf = delivery[d].conf] IN
    /\ delivery[d].step = "confirm"
    /\ event' = row
    /\ GoTo(d, "credit", row)
    /\ UNCHANGED <<wallet, entry, blocked, rows, request>>

\* The entry's key is the transfer; its metadata holds the confirmations, and a
\* key that exists with other contents is refused (createEntryAtomically).
NewEntry(row) == [amount |-> Amount[row.payload], conf |-> row.conf]

Credit(d) ==
    LET row == delivery[d].event IN
    /\ delivery[d].step = "credit"
    /\ IF blocked \/ entry \notin {None, NewEntry(row)}
       THEN Done(d) /\ UNCHANGED entry
       ELSE entry' = NewEntry(row) /\ GoTo(d, "mark", row)
    /\ UNCHANGED <<wallet, event, blocked, rows, request>>

Mark(d) ==
    /\ delivery[d].step = "mark"
    /\ event' = [event EXCEPT !.status = "credited", !.credited = TRUE]
    /\ Done(d)
    /\ UNCHANGED <<wallet, entry, blocked, rows, request>>

\* The process dies, or a statement fails; the provider delivers again.
Die(d) ==
    /\ delivery[d].step # "idle"
    /\ Done(d)
    /\ UNCHANGED <<wallet, event, entry, blocked, rows, request>>

-----------------------------------------------------------------------------
(* Withdrawal requests                                                     *)

\* A row found under the key answers the request, or refuses one that asked for
\* something else (IDEMPOTENCY_KEY_REUSE_MISMATCH).
Answer(r, row) ==
    request' = [request EXCEPT ![r] = IF row.body = Body[r]
                                      THEN [step |-> "answered", answer |-> row]
                                      ELSE [step |-> "refused", answer |-> None]]

\* createWithdrawalRequest looks the key up, then waits for the eligibility.
LookUp(r) ==
    /\ request[r].step = "idle"
    /\ IF rows = {} THEN request' = [request EXCEPT ![r].step = "insert"]
       ELSE \E row \in rows : Answer(r, row)
    /\ UNCHANGED <<wallet, event, entry, blocked, delivery, rows>>

\* saveWithdrawalRequest: a unique violation answers with the row that is there.
Insert(r) ==
    LET row == [id |-> r, body |-> Body[r], status |-> "pending_review"] IN
    /\ request[r].step = "insert"
    /\ IF rows = {} THEN rows' = {row} /\ Answer(r, row)
       ELSE (\E other \in rows : Answer(r, other)) /\ UNCHANGED rows
    /\ UNCHANGED <<wallet, event, entry, blocked, delivery>>

\* reviewWithdrawal sets the status whatever it was.
Review(status) ==
    /\ rows # {}
    /\ rows' = {[row EXCEPT !.status = status] : row \in rows}
    /\ UNCHANGED <<wallet, event, entry, blocked, delivery, request>>

-----------------------------------------------------------------------------

Deliver == \E d \in Deliveries, p \in Payloads, c \in 0 .. MaxConfirmations : Receive(d, p, c)

Step(d) == Record(d) \/ MarkConflict(d) \/ Confirm(d) \/ Credit(d) \/ Mark(d) \/ Die(d)

Request(r) == LookUp(r) \/ Insert(r)

DepositNext ==
    \/ CreateWallet \/ Decide \/ Deliver
    \/ \E d \in Deliveries : Step(d)

RequestNext ==
    \/ \E r \in Requests : Request(r)
    \/ \E s \in {"rejected", "approved_for_review"} : Review(s)

Next == DepositNext \/ RequestNext

Spec == Init /\ [][Next]_vars

-----------------------------------------------------------------------------
(* Properties                                                              *)

\* However reports of one transfer overlap, repeat and contradict each other:
\* what is in the ledger is the amount first recorded, of a transfer with a
\* wallet and enough confirmations, and no row claims a credit that is not there.
LegacyDepositSound ==
    /\ entry # None =>
         /\ event # None /\ event.payload \in Valid /\ wallet
         /\ entry.amount = Amount[event.payload] /\ entry.conf >= DepositMinConfirmations
         /\ event.status \notin {"detected", "rejected"}
    /\ event # None /\ (event.status = "credited" \/ event.credited) => entry # None

\* Requests that race under one key leave one row, and each is answered with
\* that row only if it asked for just that.
LegacyRequestsTruthful ==
    /\ \A row, other \in rows : row = other
    /\ \A r \in Requests : \A row \in rows :
         request[r].step = "answered" => request[r].answer.id = row.id /\ row.body = Body[r]
=============================================================================
