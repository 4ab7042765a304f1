---------------------------- MODULE HttpRequests ----------------------------
(* The routes of the server, each the steps its handler awaits one after   *)
(* the other, with requests of clients running through them side by side.  *)
(* Any step that uses the database may fail, a commit may succeed although *)
(* its acknowledgement is lost, and the process may stop between any two   *)
(* steps; a client that got no answer may send the request again.  All     *)
(* requests are of one user, or one administrator.                         *)
(*                                                                         *)
(* What a route promises depends on where it writes the audit log: before  *)
(* what it tells of, within the same transaction, or after it; and on what *)
(* it commits before it can still refuse.  An order is two transactions:   *)
(* the one that reserves, and after the venue answered the one that fills  *)
(* it or gives it up.  Forced seeding deletes the old points by itself.    *)
EXTENDS Naturals, Sequences, FiniteSets

CONSTANTS
    None,
    Requests,               \* the requests that are sent
    Keys                    \* idempotency keys

VARIABLES
    requests,               \* every request: where it is, or how it was answered
    done,                   \* what was committed, in order
    events                  \* the audit log

httpVars == <<requests, done, events>>

-----------------------------------------------------------------------------
(* Routes                                                                  *)
(*                                                                         *)
(* steps  "token" the CSRF token, "session" the cookie's session looked up *)
(*        by the hook, "user" and "admin" that there is one, "open" the    *)
(*        feature and its database, "eligible" the trading account,        *)
(*        "valid" the body, "look" a read that may find nothing, "list"    *)
(*        one that always finds, "price" a quote, "give" a cookie on the   *)
(*        reply, "unless" a look whether the change is there already,      *)
(*        "clear" a deletion before the change, "change", "reserve" and    *)
(*        "fill" the two transactions of an order, "agree" that what came  *)
(*        is not in conflict with what is stored, "event" and "announce"   *)
(*        (not for a change that was found), "fresh" a read whose failure  *)
(*        is ignored, "retired" a route that is gone                       *)
(* told   the steps whose refusal is put on record before it is answered   *)
(* keyed  where the idempotency key is looked for                          *)
(* books  what the keys are unique in                                      *)
(* within whether the change's transaction writes the audit log: it does,  *)
(*        it does not, or either                                           *)

Reading(steps) ==
    [steps |-> steps, told |-> {}, keyed |-> "nowhere", books |-> None,
     within |-> {FALSE}]

Keyed(steps, where, books) ==
    [Reading(steps) EXCEPT !.keyed = where, !.books = books,
                              !.within = {TRUE}]

Within(steps) == [Reading(steps) EXCEPT !.within = {TRUE}]

TellingRefusals(route, told) == [route EXCEPT !.told = told]

Safe == <<"session">>
Unsafe == <<"token">> \o Safe
AsUser(hooks) == hooks \o <<"user">>
\* Sessions of the admin panel all have the one role that every route admits.
AsAdmin(hooks) == hooks \o <<"admin">>

AdminCsrf == Reading(Safe)
AdminSession == Reading(Safe)
AdminLogin == Reading(Unsafe \o <<"valid", "give", "event">>)
AdminLogout == Reading(Unsafe \o <<"give", "event">>)
AdminUsers == Reading(AsAdmin(Safe) \o <<"list", "event">>)
AdminAuditLogs == Reading(AsAdmin(Safe) \o <<"event", "list", "list">>)
AdminWithdrawals == Reading(AsAdmin(Safe) \o <<"event", "open", "list">>)
AdminWalletReject == Within(AsAdmin(Unsafe) \o <<"open", "unless", "change">>)
AdminDeposits == Reading(AsAdmin(Safe) \o <<"event", "open", "list">>)
AdminDepositApprove == Reading(AsAdmin(Unsafe) \o <<"retired">>)
AdminDepositReject == Reading(AsAdmin(Unsafe) \o <<"retired">>)
AdminMoneyUser == Reading(AsAdmin(Safe) \o <<"open", "look">>)
AdminCorrection == Keyed(AsAdmin(Unsafe) \o <<"open", "change">>, "anywhere", "corrections")
AdminMoneyDeposits == Reading(AsAdmin(Safe) \o <<"open", "list">>)
AdminMoneyDeposit == Reading(AsAdmin(Safe) \o <<"open", "look">>)
AdminDepositRetry == Within(AsAdmin(Unsafe) \o <<"open", "unless", "change">>)
AdminMoneyWithdrawals == Reading(AsAdmin(Safe) \o <<"open", "list">>)
AdminWithdrawalReview == Within(AsAdmin(Unsafe) \o <<"open", "unless", "change">>)

\* (mutant) The event is recorded first, as on the routes that only show something.
HideToldFirst == Reading(AsAdmin(Unsafe) \o <<"valid", "event", "change", "list">>)

AdminHide == Reading(AsAdmin(Unsafe) \o <<"valid", "change", "list", "event">>)
\* It is recorded, too, when the market had no rule.
AdminUnhide == Reading(AsAdmin(Unsafe) \o <<"valid", "unless", "change", "list", "event">>)
\* Recorded also when the market has its points.
AdminSeedOdds ==
    Reading(AsAdmin(Unsafe) \o <<"open", "look", "unless", "valid", "change", "event">>)
\* With force: how many points and how volatile is validated after the deletion.
AdminReseedOdds ==
    Reading(AsAdmin(Unsafe) \o <<"open", "look", "list", "clear", "valid", "change", "event">>)
AdminOverrideOdds ==
    Reading(AsAdmin(Unsafe) \o <<"open", "look", "valid", "list", "change", "event">>)
AdminSeedActivity == Reading(AsAdmin(Unsafe) \o <<"retired">>)
AdminSeedLedger == Reading(AsAdmin(Unsafe) \o <<"retired">>)
AdminResolve == Keyed(AsAdmin(Unsafe) \o <<"open", "valid", "change">>, "anywhere", "settlements")
AdminCancel == Keyed(AsAdmin(Unsafe) \o <<"open", "valid", "change">>, "anywhere", "settlements")

WalletMe == Reading(AsUser(Safe) \o <<"open", "look">>)
DepositIntent == Reading(AsUser(Unsafe) \o <<"open", "change", "event">>)
ConfirmWithdrawal ==
    Keyed(AsUser(Unsafe) \o <<"open", "change", "announce">>, "anywhere", "withdrawals")
QuoteWithdrawal == Keyed(AsUser(Unsafe) \o <<"open", "change">>, "anywhere", "quotes")
WalletDeposits == Reading(AsUser(Safe) \o <<"open", "list">>)
WalletWithdrawals == Reading(AsUser(Safe) \o <<"open", "list">>)
WalletWithdrawal == Reading(AsUser(Safe) \o <<"open", "look">>)
CancelWithdrawal == Within(AsUser(Unsafe) \o <<"open", "unless", "change">>)
\* Signed by the provider, instead of a session.  What a repeated event says may
\* be known, may move the deposit on, or may be in conflict with what is stored,
\* which is recorded and refused.
DepositWebhook ==
    LET route == Within(Safe \o <<"open", "valid", "open", "unless", "change", "agree">>)
    IN  [TellingRefusals(route, {"valid"}) EXCEPT !.within = BOOLEAN]

CoinBalance == Reading(AsUser(Safe) \o <<"open", "list">>)
CoinEntries == Reading(AsUser(Safe) \o <<"open", "list">>)

Portfolio == Reading(AsUser(Safe) \o <<"open", "look">>)
QuoteTrade ==
    TellingRefusals(
        Reading(AsUser(Unsafe) \o <<"open", "valid", "look", "price", "event">>),
        {"valid", "price"})
PlaceOrder ==
    TellingRefusals(
        Keyed(AsUser(Unsafe) \o
                  <<"open", "eligible", "valid", "look", "reserve", "fill", "list", "fresh">>,
              "anywhere", "trades"),
        {"eligible", "valid", "reserve", "fill"})
Positions == Reading(AsUser(Safe) \o <<"open", "look">>)
Trades == Reading(AsUser(Safe) \o <<"open", "look">>)
PlaceTrade ==
    TellingRefusals(
        Keyed(AsUser(Unsafe) \o <<"open", "eligible", "valid", "look", "reserve", "fill", "list">>,
              "header", "trades"),
        {"eligible"})
ResetPortfolio == Reading(AsUser(Unsafe) \o <<"retired">>)

\* Anyone may comment, and a comment sent again is a second comment.
Comment == Reading(Unsafe \o <<"valid", "change", "event", "list">>)
Activity == Reading(Safe \o <<"list">>)

WatchlistList == Reading(AsUser(Safe) \o <<"list">>)
WatchlistPut == Reading(AsUser(Unsafe) \o <<"valid", "change">>)
WatchlistDelete == Reading(AsUser(Unsafe) \o <<"unless", "change">>)

\* Routes that change something and tell of it, within one transaction or after.
Together ==
    {"wallet_reject", "correction", "deposit_retry", "review", "resolve", "cancel", "confirm",
     "quote_withdrawal", "cancel_withdrawal", "order", "trade"}
Afterwards == {"hide", "unhide", "seed", "reseed", "override", "intent", "comment"}
Untold == {"webhook", "watch", "unwatch"}

\* Routes that tell of who looked, or who came and went.
Looking ==
    {"admin_login", "admin_logout", "admin_users", "admin_logs", "admin_withdrawals",
     "admin_deposits", "quote"}

\* The others only show something, or are gone.
Showing ==
    {"admin_csrf", "admin_session", "deposit_approve", "deposit_reject",
     "money_user", "money_deposits", "money_deposit", "money_withdrawals",
     "seed_activity", "seed_ledger", "wallet", "deposits", "withdrawals",
     "withdrawal", "balance", "entries", "portfolio", "positions", "trades",
     "reset", "activity", "watchlist"}

\* A route by its name.
Names == Together \cup Afterwards \cup Untold \cup Looking \cup Showing

Routes ==
    [name \in Names |->
        CASE name = "admin_csrf" -> AdminCsrf [] name = "admin_session" -> AdminSession
          [] name = "admin_login" -> AdminLogin [] name = "admin_logout" -> AdminLogout
          [] name = "admin_users" -> AdminUsers [] name = "admin_logs" -> AdminAuditLogs
          [] name = "admin_withdrawals" -> AdminWithdrawals
          [] name = "wallet_reject" -> AdminWalletReject
          [] name = "admin_deposits" -> AdminDeposits
          [] name = "deposit_approve" -> AdminDepositApprove
          [] name = "deposit_reject" -> AdminDepositReject
          [] name = "money_user" -> AdminMoneyUser [] name = "correction" -> AdminCorrection
          [] name = "money_deposits" -> AdminMoneyDeposits
          [] name = "money_deposit" -> AdminMoneyDeposit
          [] name = "deposit_retry" -> AdminDepositRetry
          [] name = "money_withdrawals" -> AdminMoneyWithdrawals
          [] name = "review" -> AdminWithdrawalReview [] name = "hide" -> AdminHide
          [] name = "unhide" -> AdminUnhide [] name = "seed" -> AdminSeedOdds
          [] name = "reseed" -> AdminReseedOdds [] name = "override" -> AdminOverrideOdds
          [] name = "seed_activity" -> AdminSeedActivity
          [] name = "seed_ledger" -> AdminSeedLedger [] name = "resolve" -> AdminResolve
          [] name = "cancel" -> AdminCancel [] name = "wallet" -> WalletMe
          [] name = "intent" -> DepositIntent [] name = "confirm" -> ConfirmWithdrawal
          [] name = "quote_withdrawal" -> QuoteWithdrawal
          [] name = "deposits" -> WalletDeposits
          [] name = "withdrawals" -> WalletWithdrawals
          [] name = "withdrawal" -> WalletWithdrawal
          [] name = "cancel_withdrawal" -> CancelWithdrawal
          [] name = "webhook" -> DepositWebhook [] name = "balance" -> CoinBalance
          [] name = "entries" -> CoinEntries [] name = "portfolio" -> Portfolio
          [] name = "quote" -> QuoteTrade [] name = "order" -> PlaceOrder
          [] name = "positions" -> Positions [] name = "trades" -> Trades
          [] name = "trade" -> PlaceTrade [] name = "reset" -> ResetPortfolio
          [] name = "comment" -> Comment [] name = "activity" -> Activity
          [] name = "watchlist" -> WatchlistList [] name = "watch" -> WatchlistPut
          [] name = "unwatch" -> WatchlistDelete]

-----------------------------------------------------------------------------
(* Requests                                                                *)

\* What may be said of a request that was sent.
Sent ==
    [route : DOMAIN Routes, header : Keys \cup {None}, body : Keys \cup {None}, at : Nat,
     change : Nat, status : {"running", "telling", "refused", "failed", "done", "lost"}]

HttpRequestsAssumption ==
    Requests # {} /\ None \notin Requests /\ None \notin Keys /\ None \notin Sent

Init ==
    /\ requests = [r \in Requests |-> None]
    /\ done = <<>> /\ events = {}

Running(r) == requests[r] # None /\ requests[r].status = "running"
Route(r) == Routes[requests[r].route]
Step(r) == Route(r).steps[requests[r].at]
AtStep(r, kinds) ==
    Running(r) /\ requests[r].at <= Len(Route(r).steps) /\ Step(r) \in kinds

Go(r) == requests' = [requests EXCEPT ![r].at = @ + 1]
End(r, status) == requests' = [requests EXCEPT ![r].status = status]

Send(r, name, header, body) ==
    /\ requests[r] = None
    /\ requests' = [requests EXCEPT ![r] =
          [route |-> name, header |-> header, body |-> body, at |-> 1, change |-> 0,
           status |-> "running"]]
    /\ UNCHANGED <<done, events>>

Pass(r) ==
    /\ AtStep(r, {"token", "session", "user", "admin", "open", "eligible", "valid", "look",
                  "list", "price", "give", "fresh", "unless", "clear", "agree"})
    /\ Go(r)
    /\ UNCHANGED <<done, events>>

\* What was asked for is there already, or there is nothing to undo.
Skip(r) ==
    /\ AtStep(r, {"unless"})
    /\ \E i \in DOMAIN Route(r).steps :
          /\ Route(r).steps[i] = "change"
          /\ requests' = [requests EXCEPT ![r].at = i + 1]
    /\ UNCHANGED <<done, events>>

\* What the answer 4xx or 503 says first goes on record on some routes.
Refusal(r) == IF Step(r) \in Route(r).told THEN "telling" ELSE "refused"

Recorded(i) == \E e \in events : ~e.refusal /\ e.change = i

\* A conflict was recorded when what came was stored.
Refuse(r) ==
    /\ \/ AtStep(r, {"token", "user", "admin", "open", "eligible", "valid", "look", "price",
                     "change", "reserve", "retired"})
       \/ AtStep(r, {"agree"}) /\ Recorded(requests[r].change)
    /\ End(r, Refusal(r))
    /\ UNCHANGED <<done, events>>

Tell(r) ==
    /\ requests[r] # None /\ requests[r].status = "telling"
    /\ \/ events' = events \cup {[by |-> r, change |-> 0, refusal |-> TRUE]} /\ End(r, "refused")
       \/ UNCHANGED events /\ End(r, "failed")
    /\ UNCHANGED done

\* An error that no handler knows: nothing that was committed is taken back.
Fail(r) ==
    /\ AtStep(r, {"session", "user", "eligible", "look", "list", "price", "unless", "clear",
                  "change", "reserve", "fill", "event", "announce"})
    /\ End(r, "failed")
    /\ UNCHANGED <<done, events>>

RequestKey(r) ==
    LET request == requests[r] IN
    IF Route(r).keyed # "body" /\ request.header # None THEN request.header
    ELSE IF Route(r).keyed # "header" THEN request.body ELSE None

\* The rows this step would insert that have the request's key.
Found(r) ==
    {i \in DOMAIN done : /\ RequestKey(r) # None /\ done[i].key = RequestKey(r)
                         /\ done[i].books = Route(r).books /\ done[i].part = Step(r)}

\* A transaction, and what becomes of the request when it has committed.
Committed(r, part, told, statuses) ==
    LET n == Len(done) + 1
        key == IF Route(r).books # None /\ part \in {"change", "reserve"}
               THEN RequestKey(r) ELSE None
    IN
    /\ done' = Append(done, [by |-> r, key |-> key, books |-> Route(r).books, part |-> part])
    /\ events' = events \cup IF told THEN {[by |-> r, change |-> n, refusal |-> FALSE]} ELSE {}
    /\ \E status \in statuses :
          requests' = [requests EXCEPT ![r].change = n, ![r].at = @ + 1, ![r].status = status]

\* Its acknowledgement may be lost.
Acknowledged == {"running", "failed"}

\* (mutant) The audit log is not part of the transaction.
CommitAlone(r) == Committed(r, "change", FALSE, Acknowledged)

Commit(r) == \E told \in Route(r).within : Committed(r, "change", told, Acknowledged)

\* (mutant) The change is made without looking for the key.
ChangeAgain(r) == AtStep(r, {"change"}) /\ Commit(r)

Change(r) ==
    /\ AtStep(r, {"change"})
    /\ Route(r).books # None => RequestKey(r) # None
    /\ Found(r) = {}
    /\ Commit(r)

\* The same key: the answer is about the change that was made before.
Replay(r) ==
    /\ AtStep(r, {"change"})
    /\ LET rest == SubSeq(Route(r).steps, requests[r].at + 1, Len(Route(r).steps)) IN
       \E i \in Found(r) :
          requests' = [requests EXCEPT
              ![r].change = i,
              ![r].at = IF rest # <<>> /\ Head(rest) = "announce" THEN @ + 2 ELSE @ + 1]
    /\ UNCHANGED <<done, events>>

\* The points of an earlier seeding.
Clear(r) == AtStep(r, {"clear"}) /\ Committed(r, "clear", FALSE, Acknowledged)

\* The order's row and what it takes, before the venue is asked.
Reserve(r) ==
    /\ AtStep(r, {"reserve"}) /\ RequestKey(r) # None /\ Found(r) = {}
    /\ Committed(r, "reserve", FALSE, Acknowledged)

\* An order that was filled is answered as it was; one that is pending, or was
\* given up, is refused.
ReplayOrder(r) ==
    /\ AtStep(r, {"reserve"})
    /\ \E i \in Found(r), j \in DOMAIN done :
          /\ done[j].by = done[i].by /\ done[j].part = "fill"
          /\ requests' = [requests EXCEPT ![r].change = j, ![r].at = @ + 2]
    /\ UNCHANGED <<done, events>>

\* When the acknowledgement is lost the order is to be given up, which a filled
\* order withstands: the answer is that it must be reconciled, or an error.
Fill(r) ==
    /\ AtStep(r, {"fill"})
    /\ Committed(r, "fill", TRUE, {"running", "failed", Refusal(r)})

\* (mutant) What was given up is not told of.
GiveUpUntold(r) ==
    /\ AtStep(r, {"fill"})
    /\ Committed(r, "giveup", FALSE, {"failed", Refusal(r)})

\* The venue refused or cancelled, or nobody knows whether it executed: the
\* order is failed, cancelled or left to manual review.
GiveUp(r) ==
    /\ AtStep(r, {"fill"})
    /\ Committed(r, "giveup", TRUE, {"failed", Refusal(r)})

Telling(r) == [by |-> r, change |-> requests[r].change, refusal |-> FALSE]

\* (mutant) Failing to record what was done is not an error.
RecordOrNot(r) ==
    /\ AtStep(r, {"event", "announce"}) /\ Go(r)
    /\ events' \in {events, events \cup {Telling(r)}}
    /\ UNCHANGED done

Record(r) ==
    /\ AtStep(r, {"event", "announce"}) /\ Go(r)
    /\ events' = events \cup {Telling(r)}
    /\ UNCHANGED done

Answer(r) ==
    /\ Running(r) /\ requests[r].at > Len(Route(r).steps)
    /\ End(r, "done")
    /\ UNCHANGED <<done, events>>

\* The process stops, and the requests it was working on get no answer.
Stop ==
    /\ \E r \in Requests : Running(r)
    /\ requests' = [r \in Requests |->
          IF requests[r] # None /\ requests[r].status \in {"running", "telling"}
          THEN [requests[r] EXCEPT !.status = "lost"] ELSE requests[r]]
    /\ UNCHANGED <<done, events>>

Handle(r) ==
    \/ Pass(r) \/ Skip(r) \/ Refuse(r) \/ Tell(r) \/ Fail(r) \/ Change(r) \/ Replay(r)
    \/ Clear(r) \/ Reserve(r) \/ ReplayOrder(r) \/ Fill(r) \/ GiveUp(r) \/ Record(r) \/ Answer(r)

Next ==
    \/ \E r \in Requests, name \in DOMAIN Routes, header, body \in Keys \cup {None} :
          Send(r, name, header, body)
    \/ \E r \in Requests : Handle(r)
    \/ Stop

Spec == Init /\ [][Next]_httpVars

-----------------------------------------------------------------------------
(* Properties                                                              *)

\* Routes that also succeed when they find that there is nothing to change.
MayFindIt(name) == \E i \in DOMAIN Routes[name].steps : Routes[name].steps[i] = "unless"

\* What a route is asked for: not what it reserves, clears or gives up.
Effects == {"change", "fill"}
Ending == {"fill", "giveup"}

TellsOf(r) ==
    {e \in events : /\ ~e.refusal
                    /\ e.by = r \/ (requests[r].change # 0 /\ e.change = requests[r].change)}

\* Who is answered that something was done is answered on a change or a filled
\* order, never on what was only reserved or cleared; unless the route may find
\* nothing to change, there is one.  It is on record, and so is who is shown what
\* only administrators see; and a route that changed nothing, and tells of its
\* changes within them, tells of nothing.
AnswersAreOnRecord ==
    \A r \in Requests : requests[r] # None /\ requests[r].status = "done" =>
        LET name == requests[r].route
            change == requests[r].change
        IN
        /\ change # 0 => change \in DOMAIN done /\ done[change].part \in Effects
        /\ name \in Together \cup Afterwards \cup Untold /\ change = 0 => MayFindIt(name)
        /\ name \in Together => (TellsOf(r) # {} <=> change # 0)
        /\ name \in Afterwards \cup Looking => TellsOf(r) # {}

\* What a transaction changed and told of is never one without the other.  An
\* event tells of a change that was made, or of an order that was given up; only
\* showing a market and seeding its odds are recorded, too, when they found
\* nothing to do.
RecordIsTrue ==
    /\ \A i \in DOMAIN done :
          requests[done[i].by].route \in Together /\ done[i].part \in Effects \cup Ending =>
              Recorded(i)
    /\ \A e \in events : ~e.refusal =>
          /\ e.change # 0 => e.change \in DOMAIN done /\ done[e.change].part \in Effects \cup Ending
          /\ requests[e.by].route \in Together => e.change # 0
          /\ requests[e.by].route \in Afterwards /\ e.change = 0 => MayFindIt(requests[e.by].route)

\* Sent again with its key, however the first answer was lost, a request changes
\* nothing more, and an order is filled or given up once.
OncePerKey ==
    /\ \A i, j \in DOMAIN done :
          /\ done[i].key # None /\ done[i].key = done[j].key
          /\ done[i].books = done[j].books /\ done[i].part = done[j].part
          => i = j
    /\ \A i, j \in DOMAIN done :
          done[i].by = done[j].by /\ done[i].part \in Ending /\ done[j].part \in Ending => i = j

\* What a request that was refused has changed is on record, or it is a reserve
\* that was filled or given up; except for the points that forced seeding deletes
\* before it validates what was asked.
RefusalsAreSettled ==
    \A r \in Requests : requests[r] # None /\ requests[r].status = "refused" =>
        \A i \in DOMAIN done : done[i].by = r =>
            \/ done[i].part = "clear"
            \/ done[i].part = "reserve" /\ \E j \in DOMAIN done : done[j].by = r /\ done[j].part \in Ending
            \/ Recorded(i)

OnRecord == AnswersAreOnRecord /\ RecordIsTrue /\ OncePerKey /\ RefusalsAreSettled
=============================================================================
