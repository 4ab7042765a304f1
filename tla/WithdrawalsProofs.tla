-------------------------- MODULE WithdrawalsProofs --------------------------
(***************************************************************************)
(* Withdrawals for any number of users, quotes, amounts, keys, corrections *)
(* and any page: the request rows tell the truth about the ledger, and the *)
(* accounts stay sound.  While every entry of an account fits the page     *)
(* that findCoinEntry lists, the flow implements the escrow.               *)
(***************************************************************************)
EXTENDS Withdrawals, MoneyProofs

USE WithdrawalAssumption

AccountsSound == \A u \in Users : Sound(account[u])

\* What ties a request row to its quote and to the entries of its ledger.
RowInv(q) ==
    LET r == request[q] IN
    /\ r.status = "none" => r = NoRequest
    /\ r.status # "none" => quote[q] = "consumed" /\ MapsWithdrawal(r)
    /\ r.status # "none" <=> Booked(q, "reserve")
    /\ r.status \in {"cancelled", "rejected"} => r.release # None
    /\ r.status \in {"pending_review", "approved_for_review"} => r.release = None
    /\ r.status = "broadcasted" <=> r.final # None
    /\ r.release = None \/ r.final = None
    /\ r.release \in {None, Entry(q, "release"), Entry(q, "provider-failure-release")}
    /\ r.release # None => HasKey(account[Owner[q]], r.release)
    /\ Booked(q, "release") \/ Booked(q, "provider-failure-release") => r.release # None
    /\ r.final # None <=> Booked(q, "final-debit")

WInv ==
    /\ TypeOK
    /\ AccountsSound
    /\ OneRequestPerKey
    /\ \A q \in Quotes : RowInv(q)

-----------------------------------------------------------------------------
(* Postings                                                                *)

LEMMA MovementsTyped ==
    /\ \A m \in Movements : m.dA \in Int /\ m.dR \in Int
    /\ \A q \in Quotes :
          /\ ReserveMove(q) \in Movements /\ FailureReleaseMove(q) \in Movements
          /\ DebitMove(q) \in Movements
          /\ \A target \in Targets : ReleaseMove(q, target) \in Movements
    /\ \A c \in Corrections : CorrectionMove(c) \in Movements
<1>1. \A q \in Quotes : Amount[q] \in Int /\ -Amount[q] \in Int
  OBVIOUS
<1>2. \A m \in Movements : m.dA \in Int /\ m.dR \in Int
  BY <1>1 DEF Movements, ReserveMove, ReleaseMove, FailureReleaseMove, DebitMove,
              CorrectionMove, Movement
<1> QED
  BY <1>2 DEF Movements, Targets

LEMMA PostedSound ==
    ASSUME TypeOK, AccountsSound, NEW u \in Users, NEW m \in Movements,
           CanPost(account[u], m), Posted(u, m)
    PROVE  /\ account' \in [Users -> Accounts(Movements)]
           /\ AccountsSound'
           /\ \A v \in Users : \A key :
                 HasKey(account'[v], key) <=> HasKey(account[v], key) \/ (v = u /\ key = m.key)
<1>1. account[u] \in Accounts(Movements) /\ Sound(account[u]) /\ m.dA \in Int /\ m.dR \in Int
  BY MovementsTyped DEF TypeOK, AccountsSound
<1>2. Post(account[u], m) \in Accounts(Movements) /\ Sound(Post(account[u], m))
  BY <1>1, PostSound
<1>3. account' = [account EXCEPT ![u] = Post(account[u], m)]
  BY DEF Posted
<1>4. \A v \in Users : account'[v] = IF v = u THEN Post(account[u], m) ELSE account[v]
  BY <1>3 DEF TypeOK
<1>5. account' \in [Users -> Accounts(Movements)] /\ AccountsSound'
  BY <1>2, <1>3, <1>4 DEF TypeOK, AccountsSound
<1> QED
  BY <1>1, <1>4, <1>5, PostAddsKey

\* A posting for one withdrawal is booked for that one only.
LEMMA BookedAfter ==
    ASSUME TypeOK, AccountsSound, NEW q \in Quotes, NEW step, NEW m \in Movements,
           m.key = Entry(q, step), CanPost(account[Owner[q]], m), Posted(Owner[q], m)
    PROVE  /\ account' \in [Users -> Accounts(Movements)] /\ AccountsSound'
           /\ \A p \in Quotes : \A s : Booked(p, s)' <=> Booked(p, s) \/ (p = q /\ s = step)
           /\ \A v \in Users : \A key : HasKey(account[v], key) => HasKey(account'[v], key)
<1>1. \A p \in Quotes : Owner[p] \in Users
  OBVIOUS
<1>2. \A p \in Quotes : \A s : Entry(p, s) = Entry(q, step) <=> p = q /\ s = step
  BY DEF Entry
<1>3. /\ account' \in [Users -> Accounts(Movements)] /\ AccountsSound'
      /\ \A v \in Users : \A key :
            HasKey(account'[v], key) <=> HasKey(account[v], key) \/ (v = Owner[q] /\ key = m.key)
  BY <1>1, PostedSound
<1>4. ASSUME NEW p \in Quotes, NEW s
      PROVE  Booked(p, s)' <=> Booked(p, s) \/ (p = q /\ s = step)
  <2>1. /\ Booked(p, s)' <=> HasKey(account'[Owner[p]], Entry(p, s))
        /\ Booked(p, s) <=> HasKey(account[Owner[p]], Entry(p, s))
    BY DEF Booked
  <2> QED
    BY <1>1, <1>2, <1>3, <2>1
<1> QED
  BY <1>3, <1>4

-----------------------------------------------------------------------------
(* Rows                                                                    *)

LEMMA ClosedRow ==
    ASSUME NEW r \in Requests, NEW target \in Statuses, NEW id \in EntryIds
    PROVE  /\ Closed(r, target, id) \in Requests
           /\ Closed(r, target, id).status = target /\ Closed(r, target, id).release = id
           /\ Closed(r, target, id).blocked = TRUE
           /\ Closed(r, target, id).key = r.key /\ Closed(r, target, id).final = r.final
<1>1. Closed(r, target, id) \in Requests
  BY DEF Closed, Requests
<1> QED
  BY <1>1 DEF Closed, Requests

LEMMA FailedRow ==
    ASSUME NEW r \in Requests, NEW failure \in FailureStates, NEW id \in EntryIds
    PROVE  /\ Failed(r, failure, id) \in Requests
           /\ Failed(r, failure, id).status = "failed" /\ Failed(r, failure, id).release = id
           /\ Failed(r, failure, id).failure = failure
           /\ Failed(r, failure, id).blocked = FALSE
           /\ Failed(r, failure, id).key = r.key /\ Failed(r, failure, id).final = r.final
<1>1. Failed(r, failure, id) \in Requests
  BY DEF Failed, Requests, Statuses
<1> QED
  BY <1>1 DEF Failed, Requests

LEMMA CompletedRow ==
    ASSUME NEW r \in Requests, NEW id \in EntryIds
    PROVE  /\ Completed(r, id) \in Requests
           /\ Completed(r, id).status = "broadcasted" /\ Completed(r, id).final = id
           /\ Completed(r, id).blocked = FALSE
           /\ Completed(r, id).key = r.key /\ Completed(r, id).release = r.release
<1>1. Completed(r, id) \in Requests
  BY DEF Completed, Requests, Statuses, FailureStates
<1> QED
  BY <1>1 DEF Completed, Requests

LEMMA WithdrawalsInit == Init => WInv
<1> SUFFICES ASSUME Init PROVE WInv
  OBVIOUS
<1>1. NoRequest \in Requests /\ NoRequest.status = "none" /\ NoRequest.key = None
      /\ NoRequest.release = None /\ NoRequest.final = None
  BY DEF NoRequest, Opened, Requests, Statuses, FailureStates, EntryIds
<1>2. \A u \in Users : account[u] = EmptyAccount
  BY DEF Init
<1>3. /\ EmptyAccount \in Accounts(Movements) /\ Sound(EmptyAccount)
      /\ \A key : ~HasKey(EmptyAccount, key)
  BY EmptyAccountSound DEF HasKey, EmptyAccount
<1>4. TypeOK
  BY <1>1, <1>3 DEF Init, TypeOK
<1>5. \A q \in Quotes : request[q] = NoRequest /\ \A s : ~Booked(q, s)
  BY <1>2, <1>3 DEF Init, Booked
<1>6. OneRequestPerKey /\ AccountsSound
  BY <1>1, <1>2, <1>3, <1>5 DEF OneRequestPerKey, AccountsSound
<1>7. \A q \in Quotes : RowInv(q)
  BY <1>1, <1>5 DEF RowInv
<1> QED
  BY <1>4, <1>6, <1>7 DEF WInv

\* A step on one withdrawal leaves the rows of the others as they were.
LEMMA OneRow ==
    ASSUME WInv, NEW q \in Quotes, NEW r \in Requests,
           request' = [request EXCEPT ![q] = r],
           account' \in [Users -> Accounts(Movements)], AccountsSound',
           quote' \in {quote, [quote EXCEPT ![q] = "consumed"]},
           late' \in SUBSET Quotes, confirming' \in SUBSET (Quotes \X Keys),
           r.key = request[q].key \/ ~KeyTaken(Owner[q], r.key),
           \A p \in Quotes : p # q => \A s : Booked(p, s)' <=> Booked(p, s),
           \A v \in Users : \A key : HasKey(account[v], key) => HasKey(account'[v], key),
           RowInv(q)'
    PROVE  WInv'
<1>1. TypeOK'
  BY DEF WInv, TypeOK
<1>2. /\ request'[q] = r
      /\ \A p \in Quotes : p # q => request'[p] = request[p] /\ quote'[p] = quote[p]
  BY DEF WInv, TypeOK
<1>3. ASSUME NEW p \in Quotes, p # q PROVE RowInv(p)'
  <2>1. Owner[p] \in Users
    OBVIOUS
  <2> QED
    BY <1>2, <1>3, <2>1 DEF WInv, RowInv
<1>4. OneRequestPerKey'
  BY <1>2 DEF WInv, OneRequestPerKey, KeyTaken
<1> QED
  BY <1>1, <1>3, <1>4 DEF WInv

\* A step that leaves the ledger and the rows alone.
LEMMA NoRow ==
    ASSUME WInv, UNCHANGED <<account, request>>,
           quote' \in [Quotes -> {"absent", "open", "consumed"}],
           \A q \in Quotes : quote[q] = "consumed" => quote'[q] = "consumed",
           late' \in SUBSET Quotes, confirming' \in SUBSET (Quotes \X Keys)
    PROVE  WInv'
<1>1. TypeOK' /\ AccountsSound' /\ OneRequestPerKey'
  BY DEF WInv, TypeOK, AccountsSound, OneRequestPerKey
<1>2. \A q \in Quotes : RowInv(q)'
  BY DEF WInv, RowInv, Booked
<1> QED
  BY <1>1, <1>2 DEF WInv

-----------------------------------------------------------------------------
(* The operations                                                          *)

LEMMA ConfirmStep ==
    ASSUME WInv, NEW q \in Quotes, NEW k \in Keys, Confirm(q, k) PROVE WInv'
<1> DEFINE r == Opened("pending_review", k)
<1>1. /\ CanPost(account[Owner[q]], ReserveMove(q)) /\ Posted(Owner[q], ReserveMove(q))
      /\ request' = [request EXCEPT ![q] = r] /\ quote' = [quote EXCEPT ![q] = "consumed"]
      /\ late' = late /\ confirming' \subseteq confirming /\ ~KeyTaken(Owner[q], k)
      /\ quote[q] = "open"
  BY DEF Confirm
<1>2. /\ r \in Requests /\ r.key = k /\ r.status = "pending_review" /\ r.blocked = TRUE
      /\ r.release = None /\ r.final = None
  BY DEF Opened, Requests, Statuses, FailureStates, EntryIds
<1>3. ReserveMove(q).key = Entry(q, "reserve") /\ ReserveMove(q) \in Movements
  BY MovementsTyped DEF ReserveMove, Movement
<1>4. /\ account' \in [Users -> Accounts(Movements)] /\ AccountsSound'
      /\ \A p \in Quotes : \A s : Booked(p, s)' <=> Booked(p, s) \/ (p = q /\ s = "reserve")
      /\ \A v \in Users : \A key : HasKey(account[v], key) => HasKey(account'[v], key)
  BY <1>1, <1>3, BookedAfter DEF WInv
<1>5. /\ ~Booked(q, "release") /\ ~Booked(q, "provider-failure-release")
      /\ ~Booked(q, "final-debit") /\ request[q].key = None
  BY <1>1 DEF WInv, RowInv, NoRequest, Opened
<1>6. request'[q] = r /\ quote'[q] = "consumed"
  BY <1>1 DEF WInv, TypeOK
<1> HIDE DEF r
<1>7. RowInv(q)'
  BY <1>2, <1>4, <1>5, <1>6 DEF RowInv, MapsWithdrawal
<1> QED
  BY <1>1, <1>2, <1>4, <1>7, OneRow DEF WInv, TypeOK

LEMMA ApproveStep ==
    ASSUME WInv, NEW q \in Quotes, ApproveForReview(q) PROVE WInv'
<1> DEFINE r == [request[q] EXCEPT !.status = "approved_for_review"]
<1>1. /\ request[q].status = "pending_review" /\ request[q] \in Requests
      /\ UNCHANGED <<account, quote, late, confirming>>
      /\ request' = [request EXCEPT ![q].status = "approved_for_review"]
  BY DEF ApproveForReview, WInv, TypeOK
<1>2. /\ r \in Requests /\ r.key = request[q].key /\ r.status = "approved_for_review"
      /\ r.blocked = request[q].blocked
      /\ r.release = request[q].release /\ r.final = request[q].final
  BY <1>1 DEF Requests, Statuses
<1>3. request' = [request EXCEPT ![q] = r] /\ request'[q] = r
  BY <1>1 DEF WInv, TypeOK
<1> HIDE DEF r
<1>4. \A p \in Quotes : \A s : Booked(p, s)' <=> Booked(p, s)
  BY <1>1 DEF Booked
<1>5. RowInv(q)'
  BY <1>1, <1>2, <1>3, <1>4 DEF WInv, RowInv, MapsWithdrawal
<1>6. AccountsSound' /\ account' \in [Users -> Accounts(Movements)]
  BY <1>1 DEF WInv, TypeOK, AccountsSound
<1> QED
  BY <1>1, <1>2, <1>3, <1>4, <1>5, <1>6, OneRow DEF WInv, TypeOK

\* A request whose row changes while its ledger stays as it was.
LEMMA RowOnly ==
    ASSUME WInv, NEW q \in Quotes, NEW r \in Requests,
           request' = [request EXCEPT ![q] = r],
           UNCHANGED <<account, quote, late, confirming>>,
           r.key = request[q].key, request[q].status # "none",
           r.release = request[q].release, r.final = request[q].final,
           MapsWithdrawal(r),
           \/ r.status \in {"cancelled", "rejected"} /\ r.release # None /\ r.final = None
           \/ r.status = "failed" /\ r.final = None
    PROVE  WInv'
<1>1. request'[q] = r /\ AccountsSound' /\ account' \in [Users -> Accounts(Movements)]
  BY DEF WInv, TypeOK, AccountsSound
<1>2. \A p \in Quotes : \A s : Booked(p, s)' <=> Booked(p, s)
  BY DEF Booked
<1>3. RowInv(q)'
  BY <1>1, <1>2 DEF WInv, RowInv
<1> QED
  BY <1>1, <1>2, <1>3, OneRow DEF WInv, TypeOK

\* A request whose reserve leaves with an entry of its own.
LEMMA RowAndEntry ==
    ASSUME WInv, NEW q \in Quotes, NEW r \in Requests, NEW step, NEW m \in Movements,
           m.key = Entry(q, step), CanPost(account[Owner[q]], m), Posted(Owner[q], m),
           request' = [request EXCEPT ![q] = r],
           UNCHANGED <<quote, late, confirming>>,
           r.key = request[q].key, request[q].status # "none", MapsWithdrawal(r),
           request[q].final = None,
           \/ /\ step \in {"release", "provider-failure-release"}
              /\ r.status \in {"cancelled", "rejected", "failed"}
              /\ r.release = Entry(q, step) /\ r.final = None
           \/ /\ step = "final-debit" /\ r.status = "broadcasted"
              /\ request[q].release = None /\ r.release = None /\ r.final = Entry(q, step)
    PROVE  WInv'
<1>1. request'[q] = r /\ quote' = quote
  BY DEF WInv, TypeOK
<1>2. /\ account' \in [Users -> Accounts(Movements)] /\ AccountsSound'
      /\ \A p \in Quotes : \A s : Booked(p, s)' <=> Booked(p, s) \/ (p = q /\ s = step)
      /\ \A v \in Users : \A key : HasKey(account[v], key) => HasKey(account'[v], key)
  BY BookedAfter DEF WInv
<1>3. step \in {"release", "provider-failure-release", "final-debit"} => Entry(q, step) # None
  BY DEF Entry
<1>4. Booked(q, step)' /\ (Booked(q, step)' <=> HasKey(account'[Owner[q]], Entry(q, step)))
  BY <1>2 DEF Booked
<1>5. RowInv(q)'
  <2>1. CASE step \in {"release", "provider-failure-release"}
    <3>1. Booked(q, "final-debit")' <=> Booked(q, "final-debit")
      BY <1>2, <2>1
    <3>2. Booked(q, "reserve")' <=> Booked(q, "reserve")
      BY <1>2, <2>1
    <3> QED
      BY <1>1, <1>3, <1>4, <2>1, <3>1, <3>2 DEF WInv, RowInv
  <2>2. CASE step = "final-debit"
    <3>1. /\ Booked(q, "release")' <=> Booked(q, "release")
          /\ Booked(q, "provider-failure-release")' <=> Booked(q, "provider-failure-release")
          /\ Booked(q, "reserve")' <=> Booked(q, "reserve")
      BY <1>2, <2>2
    <3> QED
      BY <1>1, <1>3, <1>4, <2>2, <3>1 DEF WInv, RowInv
  <2> QED
    BY <2>1, <2>2
<1> QED
  BY <1>1, <1>2, <1>5, OneRow DEF WInv, TypeOK

LEMMA Ids ==
    ASSUME NEW q \in Quotes
    PROVE  /\ None \in EntryIds /\ Entry(q, "release") \in EntryIds
           /\ Entry(q, "provider-failure-release") \in EntryIds
           /\ Entry(q, "final-debit") \in EntryIds
  BY DEF EntryIds, Entry

LEMMA ReleaseStep ==
    ASSUME WInv, NEW q \in Quotes, NEW target \in Targets, ReleaseWithdrawal(q, target)
    PROVE  WInv'
<1>1. /\ request[q] \in Requests /\ request[q].status \notin {"none"} /\ request[q].final = None
      /\ UNCHANGED <<quote, late, confirming>>
  BY DEF ReleaseWithdrawal, Releasable, WInv, TypeOK
<1>2. target \in Statuses /\ target \in {"cancelled", "rejected"}
  BY DEF Targets, Statuses
<1>3. None \in FailureStates /\ request[q].release \in EntryIds
  BY <1>1 DEF FailureStates, Requests
<1>4. CASE /\ FoundRelease(q)
           /\ request' = [request EXCEPT ![q] = Closed(request[q], target, request[q].release)]
           /\ UNCHANGED account
  <2> DEFINE r == Closed(request[q], target, request[q].release)
  <2>1. /\ r \in Requests /\ r.status = target /\ r.release = request[q].release
        /\ r.blocked = TRUE /\ r.key = request[q].key /\ r.final = request[q].final
    BY <1>1, <1>2, <1>3, ClosedRow DEF Closed, Requests
  <2>2. request[q].release # None
    BY <1>4 DEF FoundRelease
  <2> HIDE DEF r
  <2>3. request' = [request EXCEPT ![q] = r]
    BY <1>4 DEF r
  <2> QED
    BY <1>1, <1>2, <1>4, <2>1, <2>2, <2>3, RowOnly DEF MapsWithdrawal
<1>5. CASE /\ CanPost(account[Owner[q]], ReleaseMove(q, target))
           /\ Posted(Owner[q], ReleaseMove(q, target))
           /\ request' = [request EXCEPT ![q] = Closed(request[q], target, Entry(q, "release"))]
  <2> DEFINE r == Closed(request[q], target, Entry(q, "release"))
             m == ReleaseMove(q, target)
  <2>1. /\ r \in Requests /\ r.status = target /\ r.release = Entry(q, "release")
        /\ r.blocked = TRUE /\ r.key = request[q].key /\ r.final = request[q].final
    BY <1>1, <1>2, <1>3, ClosedRow, Ids DEF Closed, Requests
  <2>2. m \in Movements /\ m.key = Entry(q, "release")
    BY MovementsTyped DEF ReleaseMove, Movement
  <2> HIDE DEF r, m
  <2>3. /\ request' = [request EXCEPT ![q] = r]
        /\ CanPost(account[Owner[q]], m) /\ Posted(Owner[q], m)
    BY <1>5 DEF r, m
  <2> QED
    BY <1>1, <1>2, <2>1, <2>2, <2>3, RowAndEntry DEF MapsWithdrawal
<1> QED
  BY <1>4, <1>5 DEF ReleaseWithdrawal

LEMMA RecordFailureStep ==
    ASSUME WInv, NEW q \in Quotes, NEW failure \in FailureStates, RecordFailure(q, failure),
           request[q].status # "none", request[q].final = None,
           UNCHANGED <<quote, late, confirming>>
    PROVE  WInv'
<1> DEFINE r == Failed(request[q], failure, request[q].release)
<1>1. request[q] \in Requests /\ request[q].release \in EntryIds
  BY DEF WInv, TypeOK, Requests
<1>2. /\ r \in Requests /\ r.status = "failed" /\ r.release = request[q].release
      /\ r.blocked = FALSE /\ r.key = request[q].key /\ r.final = request[q].final
  BY <1>1, FailedRow DEF Failed, Requests
<1>3. UNCHANGED account /\ request' = [request EXCEPT ![q] = r]
  BY DEF RecordFailure
<1> HIDE DEF r
<1> QED
  BY <1>2, <1>3, RowOnly DEF MapsWithdrawal

LEMMA ReleaseFailedStep ==
    ASSUME WInv, NEW q \in Quotes, ReleaseFailed(q),
           request[q].status # "none", request[q].final = None,
           UNCHANGED <<quote, late, confirming>>
    PROVE  WInv'
<1> DEFINE r == Failed(request[q], "PROVIDER_CONFIRMED_FAILED",
                       Entry(q, "provider-failure-release"))
           m == FailureReleaseMove(q)
<1>1. request[q] \in Requests /\ "PROVIDER_CONFIRMED_FAILED" \in FailureStates
  BY DEF WInv, TypeOK, FailureStates
<1>2. /\ r \in Requests /\ r.status = "failed"
      /\ r.release = Entry(q, "provider-failure-release")
      /\ r.blocked = FALSE /\ r.key = request[q].key /\ r.final = request[q].final
  BY <1>1, FailedRow, Ids DEF Failed, Requests
<1>3. m \in Movements /\ m.key = Entry(q, "provider-failure-release")
  BY MovementsTyped DEF FailureReleaseMove, Movement
<1>4. /\ CanPost(account[Owner[q]], m) /\ Posted(Owner[q], m)
      /\ request' = [request EXCEPT ![q] = r]
  BY DEF ReleaseFailed
<1> HIDE DEF r, m
<1> QED
  BY <1>2, <1>3, <1>4, RowAndEntry DEF MapsWithdrawal

LEMMA DebitStep ==
    ASSUME WInv, NEW q \in Quotes, Debit(q),
           request[q].status # "none", request[q].final = None, request[q].release = None,
           UNCHANGED <<quote, late, confirming>>
    PROVE  WInv'
<1> DEFINE r == Completed(request[q], Entry(q, "final-debit"))
           m == DebitMove(q)
<1>1. request[q] \in Requests
  BY DEF WInv, TypeOK
<1>2. /\ r \in Requests /\ r.status = "broadcasted" /\ r.release = request[q].release
      /\ r.blocked = FALSE /\ r.key = request[q].key /\ r.final = Entry(q, "final-debit")
  BY <1>1, CompletedRow, Ids DEF Statuses, FailureStates
<1>3. m \in Movements /\ m.key = Entry(q, "final-debit")
  BY MovementsTyped DEF DebitMove, Movement
<1>4. /\ CanPost(account[Owner[q]], m) /\ Posted(Owner[q], m)
      /\ request' = [request EXCEPT ![q] = r]
  BY DEF Debit
<1> HIDE DEF r, m
<1> QED
  BY <1>2, <1>3, <1>4, RowAndEntry DEF MapsWithdrawal

LEMMA ReconcileStep ==
    ASSUME WInv, NEW q \in Quotes, NEW outcome \in Outcomes, ReconcileOutcome(q, outcome)
    PROVE  WInv'
<1>1. /\ request[q].status # "none" /\ request[q].final = None
      /\ UNCHANGED <<quote, late, confirming>>
  BY DEF ReconcileOutcome
<1>2. CASE \E failure \in FailureStates : RecordFailure(q, failure)
  BY <1>1, <1>2, RecordFailureStep
<1>3. CASE ReleaseFailed(q)
  BY <1>1, <1>3, ReleaseFailedStep
<1>4. CASE Debit(q) /\ request[q].release = None
  BY <1>1, <1>4, DebitStep
<1> QED
  BY <1>2, <1>3, <1>4
  DEF ReconcileOutcome, RecordVerifiedFailure, RecordCompletion, FailureStates

LEMMA CorrectionStep ==
    ASSUME WInv, NEW c \in Corrections, CreateCorrection(c) PROVE WInv'
<1> DEFINE m == CorrectionMove(c)
<1>1. /\ CanPost(account[c.user], m) /\ Posted(c.user, m)
      /\ UNCHANGED <<quote, late, request, confirming>>
  BY DEF CreateCorrection
<1>2. m \in Movements /\ m.key = Entry(c.key, "correction")
  BY MovementsTyped DEF CorrectionMove, Movement
<1> HIDE DEF m
<1>3. /\ account' \in [Users -> Accounts(Movements)] /\ AccountsSound'
      /\ \A v \in Users : \A key :
            HasKey(account'[v], key) <=> HasKey(account[v], key) \/ (v = c.user /\ key = m.key)
  BY <1>1, <1>2, PostedSound DEF WInv
<1>4. \A q \in Quotes : \A s \in {"reserve", "release", "provider-failure-release", "final-debit"} :
         Entry(q, s) # Entry(c.key, "correction")
  BY DEF Entry
<1>5. \A q \in Quotes : Owner[q] \in Users
  OBVIOUS
<1>6. \A q \in Quotes :
         \A s \in {"reserve", "release", "provider-failure-release", "final-debit"} :
            Booked(q, s)' <=> Booked(q, s)
  BY <1>2, <1>3, <1>4, <1>5 DEF Booked
<1>7. ASSUME NEW q \in Quotes PROVE RowInv(q)'
  <2>1. request[q].release # None =>
           (HasKey(account[Owner[q]], request[q].release)
              => HasKey(account'[Owner[q]], request[q].release))
    BY <1>3, <1>5
  <2>2. request' = request /\ quote' = quote
    BY <1>1
  <2>3. RowInv(q)
    BY DEF WInv
  <2> QED
    BY <1>6, <2>1, <2>2, <2>3 DEF RowInv
<1>8. TypeOK' /\ OneRequestPerKey'
  BY <1>1, <1>3 DEF WInv, TypeOK, OneRequestPerKey
<1> QED
  BY <1>3, <1>7, <1>8 DEF WInv

LEMMA NextStep == WInv /\ [Next]_vars => WInv'
<1> SUFFICES ASSUME WInv, [Next]_vars PROVE WInv'
  OBVIOUS
<1>1. ASSUME NEW q \in Quotes, CreateQuote(q) PROVE WInv'
  BY <1>1, NoRow DEF CreateQuote, WInv, TypeOK
<1>2. ASSUME NEW q \in Quotes, ExpireQuote(q) PROVE WInv'
  BY <1>2, NoRow DEF ExpireQuote, WInv, TypeOK
<1>3. ASSUME NEW q \in Quotes, NEW k \in Keys, LookupConfirm(q, k) PROVE WInv'
  BY <1>3, NoRow DEF LookupConfirm, WInv, TypeOK
<1>4. ASSUME NEW q \in Quotes, NEW k \in Keys, AbandonConfirm(q, k) PROVE WInv'
  BY <1>4, NoRow DEF AbandonConfirm, WInv, TypeOK
<1>5. CASE UNCHANGED vars
  BY <1>5, NoRow DEF vars, WInv, TypeOK
<1> QED
  BY <1>1, <1>2, <1>3, <1>4, <1>5, ConfirmStep, ApproveStep, ReleaseStep, ReconcileStep,
     CorrectionStep DEF Next, SafeRetryWithdrawal

-----------------------------------------------------------------------------
(* What holds whatever the order of the calls                              *)

LEMMA WithdrawalsInvariant == Spec => []WInv
<1>1. Init => WInv
  BY WithdrawalsInit
<1>2. WInv /\ [Next]_vars => WInv'
  BY NextStep
<1> QED
  BY <1>1, <1>2, PTL DEF Spec

\* Confirmations that looked a key up at the same time open one withdrawal with
\* it at most (confirmWithdrawal, the unique index on the requests).
THEOREM OneRequestForAKey == Spec => []OneRequestPerKey
<1>1. WInv => OneRequestPerKey
  BY DEF WInv
<1> QED
  BY <1>1, WithdrawalsInvariant, PTL

\* Whatever users, administrators and the provider do, and in whatever order, a
\* row says released, paid or held exactly when the ledger does, and never both
\* released and paid.
THEOREM RowsAlwaysTruthful == Spec => []RowsTruthful
<1>1. WInv => RowsTruthful
  <2> SUFFICES ASSUME WInv, NEW q \in Quotes
               PROVE  LET r == request[q] IN
                      /\ r.status # "none" => MapsWithdrawal(r)
                      /\ r.status # "none" <=> Booked(q, "reserve")
                      /\ r.status \in {"cancelled", "rejected"} => r.release # None
                      /\ r.status = "broadcasted" <=> r.final # None
                      /\ r.release = None \/ r.final = None
                      /\ r.release # None <=> Booked(q, "release")
                                                 \/ Booked(q, "provider-failure-release")
                      /\ r.final # None <=> Booked(q, "final-debit")
    BY DEF RowsTruthful
  <2>1. RowInv(q)
    BY DEF WInv
  <2>2. request[q].release # None
           => Booked(q, "release") \/ Booked(q, "provider-failure-release")
    BY <2>1 DEF RowInv, Booked
  <2> QED
    BY <2>1, <2>2 DEF RowInv
<1> QED
  BY <1>1, WithdrawalsInvariant, PTL

\* The balances of every account stay chained, unique and covered, with the
\* movements of withdrawals and of corrections mixed in any order.
THEOREM AccountsAlwaysSound == Spec => []AccountsSound
<1>1. WInv => AccountsSound
  BY DEF WInv
<1> QED
  BY <1>1, WithdrawalsInvariant, PTL

-----------------------------------------------------------------------------
(* The escrow.  An entry that findCoinEntry no longer lists is released    *)
(* again, so the flow implements the escrow only while the pages last.     *)

PagesFit == \A u \in Users : Len(account[u].entries) <= Page

\* What a posting does to the three variables of the escrow.
LEMMA TransferStep ==
    ASSUME WInv, NEW q \in Quotes, NEW step, NEW m \in Movements, NEW from, NEW to,
           m.key = Entry(q, step), CanPost(account[Owner[q]], m), Posted(Owner[q], m),
           ~Booked(q, step), Stage(q) = from, Stage(q)' = to
    PROVE  Escrow!Transfer(q, from, to, m.dA, m.dR)
<1>1. \A p \in Quotes : p # q => Stage(p)' = Stage(p)
  <2>1. \A p \in Quotes : \A s : Booked(p, s)' <=> Booked(p, s) \/ (p = q /\ s = step)
    BY BookedAfter DEF WInv
  <2> QED
    BY <2>1 DEF Stage
<1>2. /\ account \in [Users -> Accounts(Movements)] /\ Owner[q] \in Users
      /\ account' = [account EXCEPT ![Owner[q]] = Record(account[Owner[q]], m)]
  BY DEF WInv, TypeOK, Posted, Post, Booked
<1>3. /\ Record(account[Owner[q]], m).available = account[Owner[q]].available + m.dA
      /\ Record(account[Owner[q]], m).reserved = account[Owner[q]].reserved + m.dR
  BY DEF Record
<1>4. \A u \in Users : account'[u] = IF u = Owner[q] THEN Record(account[Owner[q]], m)
                                                    ELSE account[u]
  BY <1>2
<1>5. [u \in Users |-> account'[u].available]
        = [[u \in Users |-> account[u].available] EXCEPT ![Owner[q]] = @ + m.dA]
  BY <1>2, <1>3, <1>4
<1>6. [u \in Users |-> account'[u].reserved]
        = [[u \in Users |-> account[u].reserved] EXCEPT ![Owner[q]] = @ + m.dR]
  BY <1>2, <1>3, <1>4
<1>7. [p \in Quotes |-> Stage(p)'] = [[p \in Quotes |-> Stage(p)] EXCEPT ![q] = to]
  BY <1>1
<1>8. [p \in Quotes |-> Stage(p)][q] = from
  OBVIOUS
<1> QED
  BY <1>5, <1>6, <1>7, <1>8 DEF Escrow!Transfer

\* A posting for a withdrawal moves its stage alone, and as the entry says.
LEMMA StageAfter ==
    ASSUME WInv, NEW q \in Quotes, NEW step, NEW m \in Movements,
           m.key = Entry(q, step), CanPost(account[Owner[q]], m), Posted(Owner[q], m)
    PROVE  /\ step = "reserve" /\ request[q].status = "none" =>
                 ~Booked(q, step) /\ Stage(q) = "none" /\ Stage(q)' = "held"
           /\ request[q].status # "none" /\ request[q].release = None
                /\ request[q].final = None =>
                 /\ step \in {"release", "provider-failure-release"} =>
                       ~Booked(q, step) /\ Stage(q) = "held" /\ Stage(q)' = "released"
                 /\ step = "final-debit" =>
                       ~Booked(q, step) /\ Stage(q) = "held" /\ Stage(q)' = "paid"
<1>1. \A s : Booked(q, s)' <=> Booked(q, s) \/ s = step
  BY BookedAfter DEF WInv
<1>2. RowInv(q)
  BY DEF WInv
<1>3. ASSUME step = "reserve", request[q].status = "none"
      PROVE  ~Booked(q, step) /\ Stage(q) = "none" /\ Stage(q)' = "held"
  <2>1. request[q].release = None /\ request[q].final = None
    BY <1>2, <1>3 DEF RowInv, NoRequest, Opened
  <2> QED
    BY <1>1, <1>2, <1>3, <2>1 DEF RowInv, Stage
<1>4. ASSUME request[q].status # "none", request[q].release = None, request[q].final = None
      PROVE  /\ step \in {"release", "provider-failure-release"} =>
                   ~Booked(q, step) /\ Stage(q) = "held" /\ Stage(q)' = "released"
             /\ step = "final-debit" =>
                   ~Booked(q, step) /\ Stage(q) = "held" /\ Stage(q)' = "paid"
  <2>1. /\ ~Booked(q, "release") /\ ~Booked(q, "provider-failure-release")
        /\ ~Booked(q, "final-debit") /\ Booked(q, "reserve")
    BY <1>2, <1>4 DEF RowInv
  <2> QED
    BY <1>1, <2>1 DEF Stage
<1> QED
  BY <1>3, <1>4

LEMMA ConfirmHolds ==
    ASSUME WInv, NEW q \in Quotes, NEW k \in Keys, Confirm(q, k) PROVE Escrow!Hold(q)
<1> DEFINE m == ReserveMove(q)
<1>1. /\ CanPost(account[Owner[q]], m) /\ Posted(Owner[q], m)
      /\ m \in Movements /\ m.key = Entry(q, "reserve")
      /\ m.dA = -Amount[q] /\ m.dR = Amount[q]
  BY MovementsTyped DEF Confirm, ReserveMove, Movement
<1>2. request[q].status = "none"
  BY DEF Confirm, WInv, RowInv
<1> HIDE DEF m
<1>3. ~Booked(q, "reserve") /\ Stage(q) = "none" /\ Stage(q)' = "held"
  BY <1>1, <1>2, StageAfter
<1>4. Escrow!Transfer(q, "none", "held", m.dA, m.dR)
  BY <1>1, <1>3, TransferStep
<1> QED
  BY <1>1, <1>4 DEF Escrow!Hold

\* A release with an entry of its own ends a hold.
LEMMA EntryReleases ==
    ASSUME WInv, NEW q \in Quotes, NEW m \in Movements,
           NEW step \in {"release", "provider-failure-release"},
           m.key = Entry(q, step), m.dA = Amount[q], m.dR = -Amount[q],
           CanPost(account[Owner[q]], m), Posted(Owner[q], m),
           request[q].status # "none", request[q].release = None, request[q].final = None
    PROVE  Escrow!Release(q)
<1>1. ~Booked(q, step) /\ Stage(q) = "held" /\ Stage(q)' = "released"
  BY StageAfter
<1>2. Escrow!Transfer(q, "held", "released", m.dA, m.dR)
  BY <1>1, TransferStep
<1> QED
  BY <1>2 DEF Escrow!Release

\* The release that findCoinEntry looks for is on the page.
LEMMA ReleaseIsFound ==
    ASSUME WInv, PagesFit, NEW q \in Quotes, NEW target \in Targets,
           Releasable(request[q], target), ~FoundRelease(q)
    PROVE  request[q].release = None /\ request[q].final = None /\ request[q].status # "none"
<1>1. /\ request[q].final = None /\ request[q].status # "none"
      /\ request[q].status = "failed" => request[q].failure = "PROVIDER_CONFIRMED_FAILED"
      /\ request[q].status \in {"pending_review", "approved_for_review", "failed"}
  BY DEF Releasable, CanReleaseReserve
<1>2. RowInv(q) /\ Owner[q] \in Users
  BY DEF WInv
<1>3. ASSUME request[q].release # None PROVE FALSE
  <2>1. request[q].status = "failed" /\ HasKey(account[Owner[q]], request[q].release)
    BY <1>1, <1>2, <1>3 DEF RowInv
  <2>2. PICK i \in DOMAIN account[Owner[q]].entries :
           account[Owner[q]].entries[i].move.key = request[q].release
    BY <2>1 DEF HasKey
  <2>3. i \in Nat /\ i > 0 /\ Len(account[Owner[q]].entries) \in Nat
    BY <1>2, <2>2 DEF WInv, TypeOK, Accounts
  <2>4. i > Len(account[Owner[q]].entries) - Page
    BY <1>2, <2>3 DEF PagesFit
  <2>5. Listed(account[Owner[q]], request[q].release)
    BY <2>2, <2>4 DEF Listed
  <2> QED
    BY <1>1, <1>3, <2>1, <2>5 DEF FoundRelease
<1> QED
  BY <1>1, <1>3

LEMMA ReleaseEnds ==
    ASSUME WInv, PagesFit, NEW q \in Quotes, NEW target \in Targets,
           ReleaseWithdrawal(q, target)
    PROVE  Escrow!Release(q) \/ UNCHANGED account
<1> DEFINE m == ReleaseMove(q, target)
<1>1. CASE /\ ~FoundRelease(q)
           /\ CanPost(account[Owner[q]], m) /\ Posted(Owner[q], m)
  <2>1. m \in Movements /\ m.key = Entry(q, "release") /\ m.dA = Amount[q]
        /\ m.dR = -Amount[q]
    BY MovementsTyped DEF ReleaseMove, Movement
  <2>2. request[q].release = None /\ request[q].final = None /\ request[q].status # "none"
    BY <1>1, ReleaseIsFound DEF ReleaseWithdrawal
  <2> HIDE DEF m
  <2> QED
    BY <1>1, <2>1, <2>2, EntryReleases
<1> QED
  BY <1>1 DEF ReleaseWithdrawal

LEMMA ReconcileEnds ==
    ASSUME WInv, NEW q \in Quotes, NEW outcome \in Outcomes, ReconcileOutcome(q, outcome)
    PROVE  Escrow!Release(q) \/ Escrow!PayOut(q) \/ UNCHANGED account
<1>1. request[q].status # "none" /\ request[q].final = None
  BY DEF ReconcileOutcome
<1>2. CASE \E failure \in FailureStates : RecordFailure(q, failure)
  BY <1>2 DEF RecordFailure
<1>3. CASE ReleaseFailed(q) /\ request[q].release = None
  <2> DEFINE m == FailureReleaseMove(q)
  <2>1. /\ CanPost(account[Owner[q]], m) /\ Posted(Owner[q], m) /\ m \in Movements
        /\ m.key = Entry(q, "provider-failure-release")
        /\ m.dA = Amount[q] /\ m.dR = -Amount[q]
    BY <1>3, MovementsTyped DEF ReleaseFailed, FailureReleaseMove, Movement
  <2> HIDE DEF m
  <2> QED
    BY <1>1, <1>3, <2>1, EntryReleases
<1>4. CASE Debit(q) /\ request[q].release = None
  <2> DEFINE m == DebitMove(q)
  <2>1. /\ CanPost(account[Owner[q]], m) /\ Posted(Owner[q], m) /\ m \in Movements
        /\ m.key = Entry(q, "final-debit") /\ m.dA = 0 /\ m.dR = -Amount[q]
    BY <1>4, MovementsTyped DEF Debit, DebitMove, Movement
  <2> HIDE DEF m
  <2>2. ~Booked(q, "final-debit") /\ Stage(q) = "held" /\ Stage(q)' = "paid"
    BY <1>1, <1>4, <2>1, StageAfter
  <2>3. Escrow!Transfer(q, "held", "paid", m.dA, m.dR)
    BY <2>1, <2>2, TransferStep
  <2> QED
    BY <2>1, <2>3 DEF Escrow!PayOut
<1> QED
  BY <1>2, <1>3, <1>4
  DEF ReconcileOutcome, RecordVerifiedFailure, RecordCompletion, FailureStates

LEMMA CorrectionElsewhere ==
    ASSUME WInv, NEW c \in Corrections, CreateCorrection(c) PROVE Escrow!Elsewhere(c.user)
<1> DEFINE m == CorrectionMove(c)
<1>1. /\ CanPost(account[c.user], m) /\ Posted(c.user, m) /\ c.user \in Users
      /\ m \in Movements /\ m.key = Entry(c.key, "correction") /\ m.dR = 0
  BY MovementsTyped DEF CreateCorrection, CorrectionMove, Movement
<1> HIDE DEF m
<1>2. account \in [Users -> Accounts(Movements)]
  BY DEF WInv, TypeOK
<1>3. \A u \in Users : account'[u] = IF u = c.user THEN Post(account[u], m) ELSE account[u]
  BY <1>1, <1>2 DEF Posted
<1>4. \A u \in Users : /\ account'[u].reserved = account[u].reserved
                       /\ u # c.user => account'[u] = account[u]
  <2>1. account[c.user] \in Accounts(Movements)
    BY <1>1, <1>2
  <2>2. Post(account[c.user], m).reserved = account[c.user].reserved
    BY <1>1, <2>1 DEF Post, Record, Accounts
  <2> QED
    BY <1>3, <2>2
<1>5. \A q \in Quotes : Stage(q)' = Stage(q)
  <2>1. /\ \A q \in Quotes : Owner[q] \in Users
        /\ \A q \in Quotes :
             \A s \in {"reserve", "release", "provider-failure-release", "final-debit"} :
                Entry(q, s) # m.key
    BY <1>1 DEF Entry
  <2>2. \A v \in Users : \A key :
           HasKey(account'[v], key) <=> HasKey(account[v], key) \/ (v = c.user /\ key = m.key)
    BY <1>1, PostedSound DEF WInv
  <2>3. \A q \in Quotes :
           \A s \in {"reserve", "release", "provider-failure-release", "final-debit"} :
              Booked(q, s)' <=> Booked(q, s)
    BY <2>1, <2>2 DEF Booked
  <2> QED
    BY <2>3 DEF Stage
<1>6. [u \in Users |-> account'[u].reserved] = [u \in Users |-> account[u].reserved]
  BY <1>4
<1>7. [u \in Users |-> account'[u].available]
        = [[u \in Users |-> account[u].available] EXCEPT
             ![c.user] = [u \in Users |-> account'[u].available][c.user]]
  BY <1>1, <1>4
<1>8. [q \in Quotes |-> Stage(q)'] = [q \in Quotes |-> Stage(q)]
  BY <1>5
<1> QED
  BY <1>6, <1>7, <1>8 DEF Escrow!Elsewhere

LEMMA EscrowStep == WInv /\ PagesFit /\ [Next]_vars => [Escrow!Next]_(Escrow!vars)
<1> SUFFICES ASSUME WInv, PagesFit, [Next]_vars PROVE [Escrow!Next]_(Escrow!vars)
  OBVIOUS
<1>1. CASE UNCHANGED account
  BY <1>1 DEF Escrow!vars, Stage, Booked
<1>2. CASE \E q \in Quotes : Escrow!Hold(q) \/ Escrow!Release(q) \/ Escrow!PayOut(q)
  BY <1>2 DEF Escrow!Next
<1>3. ASSUME NEW c \in Corrections, CreateCorrection(c) PROVE [Escrow!Next]_(Escrow!vars)
  BY <1>3, CorrectionElsewhere DEF Escrow!Next
<1>4. ASSUME NEW q \in Quotes,
             \/ \E k \in Keys : Confirm(q, k)
             \/ \E target \in Targets : ReleaseWithdrawal(q, target)
             \/ \E outcome \in Outcomes : ReconcileOutcome(q, outcome)
      PROVE  [Escrow!Next]_(Escrow!vars)
  BY <1>1, <1>2, <1>4, ConfirmHolds, ReleaseEnds, ReconcileEnds
<1>5. ASSUME NEW q \in Quotes,
             \/ CreateQuote(q) \/ ExpireQuote(q) \/ ApproveForReview(q)
             \/ \E k \in Keys : LookupConfirm(q, k) \/ AbandonConfirm(q, k)
      PROVE  [Escrow!Next]_(Escrow!vars)
  BY <1>1, <1>5
  DEF CreateQuote, ExpireQuote, ApproveForReview, LookupConfirm, AbandonConfirm
<1> QED
  BY <1>1, <1>3, <1>4, <1>5 DEF Next, SafeRetryWithdrawal, vars

\* The flow implements the escrow while every entry of an account is on the page
\* that findCoinEntry lists: whatever users, administrators and the provider do, a
\* withdrawal is set aside once and leaves the reserve once, for its own amount.
THEOREM WithdrawalsImplementEscrow == Spec /\ []PagesFit => ImplementsEscrow
<1>1. Init => Escrow!Init
  <2> SUFFICES ASSUME Init PROVE Escrow!Init
    OBVIOUS
  <2>1. \A u \in Users : account[u].available = 0 /\ account[u].reserved = 0
    BY DEF Init, EmptyAccount
  <2>2. \A q \in Quotes : Owner[q] \in Users /\ \A s : ~Booked(q, s)
    BY DEF Init, EmptyAccount, Booked, HasKey
  <2> QED
    BY <2>1, <2>2 DEF Escrow!Init, Stage
<1>2. WInv /\ PagesFit /\ [Next]_vars => [Escrow!Next]_(Escrow!vars)
  BY EscrowStep
<1> QED
  BY <1>1, <1>2, WithdrawalsInvariant, PTL DEF Spec, ImplementsEscrow, Escrow!Spec

-----------------------------------------------------------------------------
(* What is reserved                                                        *)

\* The withdrawals a user's reserve is for are those the escrow holds.
HeldAreOutstanding == \A q \in Quotes : Outstanding(q) <=> Stage(q) = "held"

LEMMA OutstandingHeld == WInv => HeldAreOutstanding
<1> SUFFICES ASSUME WInv, NEW q \in Quotes PROVE Outstanding(q) <=> Stage(q) = "held"
  BY DEF HeldAreOutstanding
<1>1. RowInv(q)
  BY DEF WInv
<1>2. request[q].release # None
          => Booked(q, "release") \/ Booked(q, "provider-failure-release")
  BY <1>1 DEF RowInv, Booked
<1>3. request[q].status = "none" => request[q].release = None /\ request[q].final = None
  BY <1>1 DEF RowInv, NoRequest, Opened
<1> QED
  BY <1>1, <1>2, <1>3 DEF RowInv, Outstanding, Stage

\* What moves a withdrawal into the escrow or out of it moves its user's reserve.
LEMMA TransferBacks ==
    ASSUME WInv, HeldAreOutstanding', ReserveBacked, NEW q \in Quotes, NEW from, NEW to, NEW a, NEW r,
           Escrow!Transfer(q, from, to, a, r),
           r = (IF to = "held" THEN Amount[q] ELSE 0) - (IF from = "held" THEN Amount[q] ELSE 0)
    PROVE  ReserveBacked'
<1>1. PICK s, S : s = [p \in Quotes |-> Stage(p)] /\ S = [p \in Quotes |-> Stage(p)']
  OBVIOUS
<1>2. S = [s EXCEPT ![q] = to] /\ s[q] = from
  BY <1>1 DEF Escrow!Transfer
<1>3. PICK R, P : /\ R = [u \in Users |-> account[u].reserved]
                  /\ P = [u \in Users |-> account'[u].reserved]
  OBVIOUS
<1>4. P = [R EXCEPT ![Owner[q]] = R[Owner[q]] + r]
  BY <1>3 DEF Escrow!Transfer
<1>5. Owner[q] \in Users /\ Amount[q] \in Nat /\ r \in Int
  OBVIOUS
<1> SUFFICES ASSUME NEW u \in Users PROVE account'[u].reserved = Held(u)'
  BY DEF ReserveBacked
<1>6. account'[u].reserved = account[u].reserved + (IF u = Owner[q] THEN r ELSE 0)
  <2>1. P[u] = IF u = Owner[q] THEN R[u] + r ELSE R[u]
    BY <1>3, <1>4
  <2>2. account[u].reserved \in Int
    BY DEF WInv, TypeOK, Accounts
  <2> QED
    BY <1>3, <1>5, <2>1, <2>2
<1>7. PICK f, g :
          /\ f = [p \in Quotes |-> IF Owner[p] = u /\ Outstanding(p) THEN Amount[p] ELSE 0]
          /\ g = [p \in Quotes |-> IF Owner[p] = u /\ Outstanding(p)' THEN Amount[p] ELSE 0]
  OBVIOUS
<1>8. Held(u) = SumFunctionOnSet(f, Quotes) /\ Held(u)' = SumFunctionOnSet(g, Quotes)
  BY <1>7 DEF Held
<1>9. \A p \in Quotes : /\ f[p] = IF Owner[p] = u /\ s[p] = "held" THEN Amount[p] ELSE 0
                        /\ g[p] = IF Owner[p] = u /\ S[p] = "held" THEN Amount[p] ELSE 0
  <2>1. \A p \in Quotes : Outstanding(p)' <=> Stage(p)' = "held"
    BY DEF HeldAreOutstanding
  <2>2. \A p \in Quotes : Outstanding(p) <=> Stage(p) = "held"
    BY OutstandingHeld DEF HeldAreOutstanding
  <2> QED
    BY <1>1, <1>7, <2>1, <2>2
<1>10. \A p \in Quotes : f[p] \in Int /\ g[p] \in Int /\ (p # q => g[p] = f[p])
  BY <1>1, <1>2, <1>9
<1>11. g[q] - f[q] = IF u = Owner[q] THEN r ELSE 0
  <2>1. S[q] = to
    BY <1>1, <1>2
  <2> QED
    BY <1>2, <1>5, <1>9, <2>1
<1>12. /\ SumFunctionOnSet(f, Quotes) \in Int
       /\ SumFunctionOnSet(g, Quotes) = SumFunctionOnSet(f, Quotes) + g[q] - f[q]
  BY <1>10, SumUpdated
<1>13. account[u].reserved = Held(u)
  BY DEF ReserveBacked
<1> QED
  BY <1>5, <1>6, <1>8, <1>10, <1>11, <1>12, <1>13

LEMMA BackedNext ==
    WInv /\ WInv' /\ PagesFit /\ ReserveBacked /\ [Next]_vars => ReserveBacked'
<1> SUFFICES ASSUME WInv, WInv', PagesFit, ReserveBacked, [Next]_vars PROVE ReserveBacked'
  OBVIOUS
<1>1. [Escrow!Next]_(Escrow!vars) /\ HeldAreOutstanding'
  BY EscrowStep, OutstandingHeld, PTL
<1>2. ASSUME NEW q \in Quotes, Escrow!Hold(q) \/ Escrow!Release(q) \/ Escrow!PayOut(q)
      PROVE  ReserveBacked'
  <2>1. Amount[q] \in Nat
    OBVIOUS
  <2>2. \/ Escrow!Transfer(q, "none", "held", -Amount[q], Amount[q])
        \/ Escrow!Transfer(q, "held", "released", Amount[q], -Amount[q])
        \/ Escrow!Transfer(q, "held", "paid", 0, -Amount[q])
    BY <1>2 DEF Escrow!Hold, Escrow!Release, Escrow!PayOut
  <2>3. CASE Escrow!Transfer(q, "none", "held", -Amount[q], Amount[q])
    BY <1>1, <2>1, <2>3, TransferBacks
  <2>4. CASE Escrow!Transfer(q, "held", "released", Amount[q], -Amount[q])
    BY <1>1, <2>1, <2>4, TransferBacks
  <2>5. CASE Escrow!Transfer(q, "held", "paid", 0, -Amount[q])
    BY <1>1, <2>1, <2>5, TransferBacks
  <2> QED
    BY <2>2, <2>3, <2>4, <2>5
<1>3. ASSUME [u \in Users |-> account'[u].reserved] = [u \in Users |-> account[u].reserved],
             [q \in Quotes |-> Stage(q)'] = [q \in Quotes |-> Stage(q)]
      PROVE  ReserveBacked'
  <2>1. ASSUME NEW q \in Quotes PROVE Outstanding(q)' <=> Outstanding(q)
    <3>1. [p \in Quotes |-> Stage(p)'][q] = [p \in Quotes |-> Stage(p)][q]
      BY <1>3
    <3>2. Stage(q)' = Stage(q)
      BY <3>1
    <3>3. Outstanding(q) <=> Stage(q) = "held"
      BY OutstandingHeld DEF HeldAreOutstanding
    <3>4. Outstanding(q)' <=> Stage(q)' = "held"
      BY <1>1 DEF HeldAreOutstanding
    <3> QED
      BY <3>2, <3>3, <3>4
  <2> SUFFICES ASSUME NEW u \in Users PROVE account'[u].reserved = Held(u)'
    BY DEF ReserveBacked
  <2>2. account'[u].reserved = account[u].reserved
    <3>1. [v \in Users |-> account'[v].reserved][u] = [v \in Users |-> account[v].reserved][u]
      BY <1>3
    <3> QED
      BY <3>1
  <2>3. Held(u)' = Held(u)
    <3>1. [q \in Quotes |-> IF Owner[q] = u /\ Outstanding(q)' THEN Amount[q] ELSE 0]
              = [q \in Quotes |-> IF Owner[q] = u /\ Outstanding(q) THEN Amount[q] ELSE 0]
      BY <2>1
    <3> QED
      BY <3>1 DEF Held
  <2> QED
    BY <2>2, <2>3 DEF ReserveBacked
<1> QED
  BY <1>1, <1>2, <1>3 DEF Escrow!Next, Escrow!Elsewhere, Escrow!vars

\* While every entry of an account is on that page, what a user has reserved is
\* exactly what its withdrawals that neither came back nor were paid out took.
THEOREM ReserveAlwaysBacked == Spec /\ []PagesFit => []ReserveBacked
<1>1. Init => ReserveBacked
  <2> SUFFICES ASSUME Init, NEW u \in Users PROVE account[u].reserved = Held(u)
    BY DEF ReserveBacked
  <2>1. PICK f : f = [q \in Quotes |-> IF Owner[q] = u /\ Outstanding(q) THEN Amount[q] ELSE 0]
    OBVIOUS
  <2>2. \A q \in Quotes : f[q] = 0
    BY <2>1 DEF Init, Outstanding, NoRequest, Opened
  <2>3. SumFunctionOnSet(f, Quotes) = 0
    BY <2>2, SumOfZeros
  <2>4. account[u].reserved = 0
    BY DEF Init, EmptyAccount
  <2> QED
    BY <2>1, <2>3, <2>4 DEF Held
<1> QED
  BY <1>1, BackedNext, WithdrawalsInit, NextStep, PTL DEF Spec

-----------------------------------------------------------------------------
(* What the reconciliation finds                                           *)

LEMMA LedgerIs ==
    ASSUME WInv
    PROVE  \A e : e \in Rec!Ledger(account) <=>
               \E u \in Users : \E m : InBook(account[u], m) /\ e = [user |-> u, move |-> m]
<1>1. DOMAIN account = Users
  BY DEF WInv, TypeOK
<1>2. \A e : e \in Rec!Ledger(account) <=>
          \E u \in Users : \E i \in DOMAIN account[u].entries :
              e = [user |-> u, move |-> account[u].entries[i].move]
  BY <1>1 DEF Rec!Ledger
<1> QED
  BY <1>2, Zenon DEF InBook

\* The balances in the rows, and after each entry, are the sums of the entries.
LEMMA AccountsAddUp == WInv => Rec!AccountsReconcile(account)
<1> SUFFICES ASSUME WInv, NEW u \in Users
             PROVE  ~Rec!CoinCacheVsLedger(account[u]) /\ ~Rec!CoinEntryRunningBalance(account[u])
  BY DEF Rec!AccountsReconcile, WInv, TypeOK
<1>1. PICK acc : acc = account[u] /\ acc \in Accounts(Movements) /\ Chained(acc)
  BY DEF WInv, TypeOK, AccountsSound, Sound
<1>2. \A n \in 0 .. Len(acc.entries) : /\ Rec!Availables(acc, n) = AvailableAfter(acc, n)
                                       /\ Rec!Reserveds(acc, n) = ReservedAfter(acc, n)
  <2>1. \A n \in 0 .. Len(acc.entries) :
            /\ SumFunctionOnSet([i \in 1 .. n |-> acc.entries[i].move.dA], 1 .. n)
                   = AvailableAfter(acc, n)
            /\ SumFunctionOnSet([i \in 1 .. n |-> acc.entries[i].move.dR], 1 .. n)
                   = ReservedAfter(acc, n)
    BY <1>1, MovementsTyped, ChainedSums
  <2>2. \A f, S : Rec!SumFunctionOnSet(f, S) = SumFunctionOnSet(f, S)
    BY DEF Rec!SumFunctionOnSet, Rec!FoldFunctionOnSet, SumFunctionOnSet, FoldFunctionOnSet,
           Rec!MapThenFoldSet, MapThenFoldSet
  <2> QED
    BY <2>1, <2>2 DEF Rec!Availables, Rec!Reserveds
<1>3. Len(acc.entries) \in Nat /\ DOMAIN acc.entries = 1 .. Len(acc.entries)
  BY <1>1, AccountTyped
<1>4. ~Rec!CoinCacheVsLedger(acc)
  BY <1>1, <1>2, <1>3 DEF Rec!CoinCacheVsLedger, Chained
<1>5. ~Rec!CoinEntryRunningBalance(acc)
  BY <1>2, <1>3 DEF Rec!CoinEntryRunningBalance, AvailableAfter, ReservedAfter
<1> QED
  BY <1>1, <1>4, <1>5

\* The movement with the key of a withdrawal's reserve is that reserve.
LEMMA ReserveByKey ==
    ASSUME NEW q \in Quotes, NEW m \in Movements, m.key = Entry(q, "reserve")
    PROVE  m = ReserveMove(q)
<1>1. \A p \in Quotes : ReserveMove(p).key = <<p, "reserve">>
  BY DEF ReserveMove, Movement, Entry
<1>2. \A p \in Quotes : \A target : ReleaseMove(p, target).key = <<p, "release">>
  BY DEF ReleaseMove, Movement, Entry
<1>3. \A p \in Quotes : /\ FailureReleaseMove(p).key = <<p, "provider-failure-release">>
                        /\ DebitMove(p).key = <<p, "final-debit">>
  BY DEF FailureReleaseMove, DebitMove, Movement, Entry
<1>4. \A c \in Corrections : CorrectionMove(c).key = <<c.key, "correction">>
  BY DEF CorrectionMove, Movement, Entry
<1> QED
  BY <1>1, <1>2, <1>3, <1>4 DEF Movements, Entry

LEMMA ReserveJoined ==
    ASSUME WInv, NEW q \in Quotes, request[q].status # "none"
    PROVE  Rec!Moves(Rec!Joined(Rec!Ledger(account), Entry(q, "reserve")),
                     "withdrawal_reserve", -Amount[q], Amount[q])
<1>1. PICK L : L = Rec!Ledger(account)
  OBVIOUS
<1>2. \E e \in L : e.move.key = Entry(q, "reserve")
  <2>1. HasKey(account[Owner[q]], Entry(q, "reserve")) /\ Owner[q] \in Users
    BY DEF WInv, RowInv, Booked
  <2>2. PICK m : InBook(account[Owner[q]], m) /\ m.key = Entry(q, "reserve")
    BY <2>1, KeyInBook
  <2>3. PICK e : e = [user |-> Owner[q], move |-> m]
    OBVIOUS
  <2>4. e \in L
    BY <1>1, <2>1, <2>2, <2>3, LedgerIs
  <2> QED
    BY <2>2, <2>3, <2>4
<1>3. \A e \in L : e.move \in Movements /\ e \in [user : Users, move : Movements]
  <2> TAKE e \in L
  <2>1. PICK u \in Users : \E m : InBook(account[u], m) /\ e = [user |-> u, move |-> m]
    BY <1>1, LedgerIs
  <2>2. PICK m : InBook(account[u], m) /\ e = [user |-> u, move |-> m]
    BY <2>1
  <2>3. account[u] \in Accounts(Movements)
    BY DEF WInv, TypeOK
  <2>4. m \in Movements
    BY <2>2, <2>3, AccountTyped DEF InBook
  <2> QED
    BY <2>2, <2>4
<1>4. PICK j : j = Rec!Joined(L, Entry(q, "reserve"))
  OBVIOUS
<1>5. j \in L /\ j.move.key = Entry(q, "reserve")
  BY <1>2, <1>4 DEF Rec!Joined
<1>6. j.move = ReserveMove(q) /\ j # None
  BY <1>3, <1>5, ReserveByKey, NullAssumption
<1> QED
  BY <1>1, <1>4, <1>6 DEF Rec!Moves, ReserveMove, Movement

LEMMA RowsReconcile == WInv => Reconciles
<1> SUFFICES ASSUME WInv PROVE Reconciles
  OBVIOUS
<1>1. ASSUME NEW q \in Quotes
      PROVE  /\ ~Rec!WithdrawalReserve(Rec!Ledger(account), RequestRow(q))
             /\ ~Rec!WithdrawalTerminal(RequestRow(q))
  <2>1. PICK row : row = RequestRow(q)
    OBVIOUS
  <2>2. /\ row.status = request[q].status
        /\ row.release = request[q].release /\ row.final = request[q].final
        /\ row.reserved = (IF request[q].status = "none" THEN 0 ELSE Amount[q])
        /\ row.debited = (IF request[q].status = "broadcasted" THEN Amount[q] ELSE 0)
        /\ row.reserve = (IF request[q].status = "none" THEN None ELSE Entry(q, "reserve"))
    BY <2>1 DEF RequestRow
  <2>3. RowInv(q)
    BY DEF WInv
  <2>4. ~Rec!WithdrawalReserve(Rec!Ledger(account), row)
    BY <2>2, ReserveJoined DEF Rec!WithdrawalReserve
  <2>5. ~Rec!WithdrawalTerminal(row)
    BY <2>2, <2>3 DEF Rec!WithdrawalTerminal, RowInv
  <2> QED
    BY <2>1, <2>4, <2>5
<1> QED
  BY <1>1, AccountsAddUp DEF Reconciles

\* The rows tell the truth about the ledger, no two withdrawals of a user have one
\* key, and the reconciliation finds the balances to be the sums of the entries
\* and every withdrawal to have the entries that its row names.
THEOREM RowAlwaysMatchesLedger == Spec => []RowMatchesLedger
<1>1. WInv => Reconciles
  BY RowsReconcile
<1> QED
  BY <1>1, WithdrawalsInvariant, OneRequestForAKey, RowsAlwaysTruthful, PTL
  DEF RowMatchesLedger
=============================================================================
