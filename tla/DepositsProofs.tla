--------------------------- MODULE DepositsProofs ---------------------------
(***************************************************************************)
(* Deposits for any number of users, intents, transfers, reports, rates    *)
(* and other movements on the balances: the deposit rows tell the truth    *)
(* about the ledger, every credit rests on evidence, and the flow keeps    *)
(* the promise of DepositCredit.                                           *)
(***************************************************************************)
EXTENDS Deposits, MoneyProofs

USE DepositAssumption

\* A row while a transaction works on it.
Rows == [status : Statuses \cup {"detected"}, reason : Reasons, intent : Intents \cup {None},
         amount : Nat, confirmations : Nat, confirmed : BOOLEAN,
         credited : Nat, last : EventIds \cup {None}]

DTypes ==
    /\ account \in [Users -> Accounts(Movements)]
    /\ intent \in [Intents -> {"absent", "waiting", "detected", "credited"}]
    /\ late \subseteq Intents
    /\ event \in [EventIds -> Reports \cup {None}]
    /\ deposit \in [Transfers -> Deposits]

AccountsSound == \A u \in Users : Sound(account[u])

Booked(t, kind) == HasKey(Owned(t), <<t, kind>>)

\* A stored event reported the transfer confirmed and valid, with this amount.
Proven(t, amount) ==
    \E id \in EventIds :
        /\ event[id] # None
        /\ event[id].transfer = t /\ event[id].state = "confirmed"
        /\ event[id].valid /\ event[id].amount = amount

Priced == {"confirmed_unpriced", "pending_rate"} \cup Financial

\* What a row has gone through, at any time after its insertion.
Founded(t, d) ==
    /\ d.amount # 0
    /\ d.confirmed => Proven(t, d.amount)
    /\ d.intent # None => IntentOwner[d.intent] = Destination[t]
    /\ d.status \in Priced =>
          /\ d.confirmed /\ d.confirmations >= Required
          /\ d.intent # None /\ IntentAmount[d.intent] = d.amount
    /\ d.status \in Financial <=> d.credited # 0

AmountsBooked(t) ==
    \A m : InBook(Owned(t), m) =>
        /\ m.key = <<t, "credit">> => m.dA = deposit[t].credited
        /\ m.key = <<t, "reversal">> => m.dA = -deposit[t].credited

RowInv(t) ==
    /\ IF deposit[t].status = "absent" THEN deposit[t] = NoDeposit ELSE Founded(t, deposit[t])
    /\ Booked(t, "credit") <=> deposit[t].status \in Financial
    /\ Booked(t, "reversal") <=> deposit[t].status = "reversed"
    /\ AmountsBooked(t)

DInv == DTypes /\ AccountsSound /\ \A t \in Transfers : RowInv(t)

-----------------------------------------------------------------------------
(* Postings                                                                *)

LEMMA MovementsTyped ==
    /\ \A m \in Movements : m.dA \in Int /\ m.dR \in Int
    /\ \A t \in Transfers, n \in Int : CreditMove(t, n) \in Movements
    /\ \A t \in Transfers : \A d : d.credited \in Int => ReversalMove(t, d) \in Movements
    /\ \A p \in Elsewhere : p.move \in Movements
<1>1. \A m \in Movements : m.dA \in Int /\ m.dR \in Int
  BY DEF Movements
<1>2. \A t \in Transfers, n \in Int : CreditMove(t, n) \in Movements
  BY DEF Movements, CreditMove
<1>3. ASSUME NEW t \in Transfers, NEW d, d.credited \in Int
      PROVE  ReversalMove(t, d) \in Movements
  BY <1>3 DEF Movements, ReversalMove
<1> QED
  BY <1>1, <1>2, <1>3 DEF Movements

LEMMA PostedSound ==
    ASSUME DTypes, AccountsSound, NEW u \in Users, NEW m \in Movements, Posted(u, m)
    PROVE  /\ account' \in [Users -> Accounts(Movements)]
           /\ AccountsSound'
           /\ \A v \in Users : \A key :
                 HasKey(account'[v], key) <=> HasKey(account[v], key) \/ (v = u /\ key = m.key)
           /\ \A v \in Users : \A other :
                 InBook(account'[v], other) <=> InBook(account[v], other) \/ (v = u /\ other = m)
           /\ \A v \in Users : v # u => account'[v] = account[v]
           /\ ~HasKey(account[u], m.key) => account'[u].available = account[u].available + m.dA
<1>1. /\ account[u] \in Accounts(Movements) /\ Sound(account[u])
      /\ m.dA \in Int /\ m.dR \in Int /\ CanPost(account[u], m)
  BY MovementsTyped DEF DTypes, AccountsSound, Posted
<1>2. Post(account[u], m) \in Accounts(Movements) /\ Sound(Post(account[u], m))
  BY <1>1, PostSound
<1>3. account' = [account EXCEPT ![u] = Post(account[u], m)]
  BY DEF Posted
<1>4. \A v \in Users : account'[v] = IF v = u THEN Post(account[u], m) ELSE account[v]
  BY <1>3 DEF DTypes
<1>5. account' \in [Users -> Accounts(Movements)] /\ AccountsSound'
  BY <1>2, <1>3, <1>4 DEF DTypes, AccountsSound
<1>6. ~HasKey(account[u], m.key) => account'[u].available = account[u].available + m.dA
  BY <1>4 DEF Post, Record
<1>7. \A key : HasKey(Post(account[u], m), key) <=> HasKey(account[u], key) \/ key = m.key
  BY <1>1, PostAddsKey
<1>8. \A other : InBook(Post(account[u], m), other) <=> InBook(account[u], other) \/ other = m
  BY <1>1, PostBooks
<1> QED
  BY <1>4, <1>5, <1>6, <1>7, <1>8

-----------------------------------------------------------------------------
(* Initial state and steps that leave every row's past as it was           *)

LEMMA DepositsInit == Init => DInv
<1> SUFFICES ASSUME Init PROVE DInv
  OBVIOUS
<1>1. /\ NoDeposit \in Deposits /\ NoDeposit.status = "absent" /\ NoDeposit.credited = 0
  BY DEF NoDeposit, Deposits, Statuses, Financial, Reasons
<1>2. /\ EmptyAccount \in Accounts(Movements) /\ Sound(EmptyAccount)
      /\ \A key : ~HasKey(EmptyAccount, key)
      /\ \A m : ~InBook(EmptyAccount, m)
  BY EmptyAccountSound DEF HasKey, InBook, EmptyAccount
<1>3. /\ \A u \in Users : account[u] = EmptyAccount
      /\ \A t \in Transfers : deposit[t] = NoDeposit /\ Destination[t] \in Users
  BY DEF Init
<1>4. DTypes /\ AccountsSound
  BY <1>1, <1>2, <1>3 DEF Init, DTypes, AccountsSound
<1>5. ASSUME NEW t \in Transfers PROVE RowInv(t)
  BY <1>1, <1>2, <1>3 DEF RowInv, Booked, AmountsBooked, Owned, Financial
<1> QED
  BY <1>4, <1>5 DEF DInv

\* An event that is stored stays what it is.
LEMMA ProvenStays ==
    ASSUME DTypes, NEW r \in Reports,
           \/ UNCHANGED event
           \/ event[r.id] \in {None, r} /\ event' = [event EXCEPT ![r.id] = r]
    PROVE  /\ event' \in [EventIds -> Reports \cup {None}]
           /\ \A t \in Transfers : \A n : Proven(t, n) => Proven(t, n)'
<1>1. r.id \in EventIds
  OBVIOUS
<1>2. \A id \in EventIds : event[id] # None => event'[id] = event[id]
  BY <1>1 DEF DTypes
<1>3. event' \in [EventIds -> Reports \cup {None}]
  BY <1>1 DEF DTypes
<1> QED
  BY <1>2, <1>3 DEF Proven

\* A step that posts nothing and moves at most one row, between statuses that mean
\* the same to the ledger.
LEMMA RowOnly ==
    ASSUME DInv, NEW t \in Transfers, NEW d \in Deposits,
           UNCHANGED account, deposit' = [deposit EXCEPT ![t] = d],
           intent' \in [Intents -> {"absent", "waiting", "detected", "credited"}],
           late' \subseteq Intents,
           event' \in [EventIds -> Reports \cup {None}],
           \A s \in Transfers : \A n : Proven(s, n) => Proven(s, n)',
           IF d.status = "absent" THEN d = NoDeposit ELSE Founded(t, d)',
           d.credited = deposit[t].credited,
           d.status \in Financial <=> deposit[t].status \in Financial,
           d.status = "reversed" <=> deposit[t].status = "reversed"
    PROVE  DInv'
<1>1. \A s \in Transfers : deposit'[s] = IF s = t THEN d ELSE deposit[s]
  BY DEF DInv, DTypes
<1>2. DTypes' /\ AccountsSound'
  BY DEF DInv, DTypes, AccountsSound
<1>3. ASSUME NEW s \in Transfers PROVE RowInv(s)'
  <2>1. RowInv(s)
    BY DEF DInv
  <2>2. /\ Booked(s, "credit")' <=> Booked(s, "credit")
        /\ Booked(s, "reversal")' <=> Booked(s, "reversal")
    BY DEF Booked, Owned
  <2>3. AmountsBooked(s)'
    BY <1>1, <2>1 DEF RowInv, AmountsBooked, Owned
  <2>4. CASE s = t
    BY <1>1, <2>1, <2>2, <2>3, <2>4 DEF RowInv
  <2>5. CASE s # t
    <3>1. deposit'[s] = deposit[s]
      BY <1>1, <2>5
    <3>2. Founded(s, deposit[s]) => Founded(s, deposit[s])'
      BY <3>1 DEF Founded
    <3> QED
      BY <2>1, <2>2, <2>3, <3>1, <3>2 DEF RowInv
  <2> QED
    BY <2>4, <2>5
<1> QED
  BY <1>2, <1>3 DEF DInv

\* A movement of a deposit is booked on its owner's account, under a key of its own.
LEMMA BookedAfter ==
    ASSUME DInv, NEW t \in Transfers, NEW kind \in {"credit", "reversal"}, NEW m \in Movements,
           m.key = <<t, kind>>, Posted(Destination[t], m)
    PROVE  /\ account' \in [Users -> Accounts(Movements)] /\ AccountsSound'
           /\ \A s \in Transfers : \A k \in {"credit", "reversal"} :
                 Booked(s, k)' <=> Booked(s, k) \/ (s = t /\ k = kind)
           /\ \A s \in Transfers : \A other :
                 InBook(Owned(s), other)' => InBook(Owned(s), other) \/ other = m
           /\ \A u \in Users : u # Destination[t] => account'[u] = account[u]
           /\ ~Booked(t, kind) =>
                 account'[Destination[t]].available = account[Destination[t]].available + m.dA
<1>1. \A s \in Transfers : Destination[s] \in Users
  OBVIOUS
<1>2. /\ account' \in [Users -> Accounts(Movements)] /\ AccountsSound'
      /\ \A v \in Users : \A key :
            HasKey(account'[v], key)
               <=> HasKey(account[v], key) \/ (v = Destination[t] /\ key = m.key)
      /\ \A v \in Users : \A other :
            InBook(account'[v], other)
               <=> InBook(account[v], other) \/ (v = Destination[t] /\ other = m)
      /\ \A v \in Users : v # Destination[t] => account'[v] = account[v]
      /\ ~HasKey(account[Destination[t]], m.key) =>
            account'[Destination[t]].available = account[Destination[t]].available + m.dA
  BY <1>1, PostedSound DEF DInv
<1>3. \A s \in Transfers : \A k \in {"credit", "reversal"} :
         <<s, k>> = <<t, kind>> <=> s = t /\ k = kind
  OBVIOUS
<1>4. \A s \in Transfers : \A k \in {"credit", "reversal"} :
         Booked(s, k)' <=> Booked(s, k) \/ (s = t /\ k = kind)
  BY <1>1, <1>2, <1>3 DEF Booked, Owned
<1> QED
  BY <1>1, <1>2, <1>4 DEF Owned, Booked

\* A step that books one movement of a transfer and writes its row.
LEMMA RowAndEntry ==
    ASSUME DInv, NEW t \in Transfers, NEW kind \in {"credit", "reversal"}, NEW m \in Movements,
           NEW d \in Deposits,
           m.key = <<t, kind>>, Posted(Destination[t], m),
           deposit' = [deposit EXCEPT ![t] = d],
           intent' \in [Intents -> {"absent", "waiting", "detected", "credited"}],
           UNCHANGED late,
           event' \in [EventIds -> Reports \cup {None}],
           \A s \in Transfers : \A n : Proven(s, n) => Proven(s, n)',
           Founded(t, d)',
           \/ /\ kind = "credit" /\ d.status = "credited" /\ d.credited = m.dA
              /\ deposit[t].status \notin Financial
           \/ /\ kind = "reversal" /\ d.status = "reversed"
              /\ d.credited = deposit[t].credited /\ m.dA = -d.credited
              /\ deposit[t].status \in Financial \ {"reversed"}
    PROVE  DInv' /\ ~Booked(t, kind)
<1>1. \A s \in Transfers : deposit'[s] = IF s = t THEN d ELSE deposit[s]
  BY DEF DInv, DTypes
<1>2. /\ account' \in [Users -> Accounts(Movements)] /\ AccountsSound'
      /\ \A s \in Transfers : \A k \in {"credit", "reversal"} :
            Booked(s, k)' <=> Booked(s, k) \/ (s = t /\ k = kind)
      /\ \A s \in Transfers : \A other :
            InBook(Owned(s), other)' => InBook(Owned(s), other) \/ other = m
  BY BookedAfter
<1>3. DTypes'
  BY <1>2 DEF DInv, DTypes
<1>4. ~Booked(t, kind) /\ (kind = "credit" => ~Booked(t, "reversal"))
  <2>1. RowInv(t) /\ "reversed" \in Financial
    BY DEF DInv, Financial
  <2> QED
    BY <2>1 DEF RowInv
<1>5. \A s \in Transfers : s # t => m.key # <<s, "credit">> /\ m.key # <<s, "reversal">>
  OBVIOUS
<1>6. kind = "credit" => m.key # <<t, "reversal">>
  OBVIOUS
<1>7. kind = "reversal" => m.key # <<t, "credit">>
  OBVIOUS
<1>8. ASSUME NEW s \in Transfers PROVE RowInv(s)'
  <2>1. RowInv(s)
    BY DEF DInv
  <2>2. CASE s = t
    <3>1. AmountsBooked(t)'
      <4> SUFFICES ASSUME NEW other, InBook(Owned(t), other)'
                   PROVE  /\ other.key = <<t, "credit">> => other.dA = d.credited
                          /\ other.key = <<t, "reversal">> => other.dA = -d.credited
        BY <1>1 DEF AmountsBooked
      <4>1. CASE other = m
        BY <1>6, <1>7, <4>1
      <4>2. CASE InBook(Owned(t), other)
        <5>1. HasKey(Owned(t), other.key)
          BY <4>2, KeyInBook
        <5>2. CASE kind = "credit"
          <6>1. other.key # <<t, "credit">> /\ other.key # <<t, "reversal">>
            BY <1>4, <5>1, <5>2 DEF Booked
          <6> QED
            BY <6>1
        <5>3. CASE kind = "reversal"
          BY <2>1, <2>2, <4>2, <5>3 DEF RowInv, AmountsBooked
        <5> QED
          BY <5>2, <5>3
      <4> QED
        BY <1>2, <4>1, <4>2
    <3>2. Booked(t, "credit")' <=> d.status \in Financial
      BY <1>2, <2>1, <2>2 DEF RowInv, Financial
    <3>3. Booked(t, "reversal")' <=> d.status = "reversed"
      BY <1>2, <1>4, <2>1, <2>2 DEF RowInv, Financial
    <3>4. d.status # "absent"
      OBVIOUS
    <3> QED
      BY <1>1, <2>2, <3>1, <3>2, <3>3, <3>4 DEF RowInv
  <2>3. CASE s # t
    <3>1. deposit'[s] = deposit[s]
      BY <1>1, <2>3
    <3>2. Founded(s, deposit[s]) => Founded(s, deposit[s])'
      BY <3>1 DEF Founded
    <3>3. AmountsBooked(s)'
      BY <1>2, <1>5, <2>1, <2>3, <3>1 DEF RowInv, AmountsBooked
    <3>4. /\ Booked(s, "credit")' <=> Booked(s, "credit")
          /\ Booked(s, "reversal")' <=> Booked(s, "reversal")
      BY <1>2, <2>3
    <3> QED
      BY <2>1, <3>1, <3>2, <3>3, <3>4 DEF RowInv
  <2> QED
    BY <2>2, <2>3
<1> QED
  BY <1>2, <1>3, <1>4, <1>8 DEF DInv

-----------------------------------------------------------------------------
(* Rows                                                                    *)

Touched(d, n, id) == [d EXCEPT !.confirmations = Larger(@, n), !.last = id]
Moved(d, s, why) == [d EXCEPT !.status = s, !.reason = why]
Confirmed(d, s, why) == [d EXCEPT !.status = s, !.reason = why, !.confirmed = TRUE]
Credited(d, n) == [d EXCEPT !.status = "credited", !.reason = None, !.confirmed = TRUE,
                            !.credited = n]

LEMMA MovedRow ==
    ASSUME NEW d \in Rows, NEW s \in Statuses, NEW why \in Reasons,
           NEW h, h = Moved(d, s, why)
    PROVE  /\ h \in Deposits
           /\ h.status = s /\ h.confirmed = d.confirmed
           /\ h.confirmations = d.confirmations /\ h.intent = d.intent
           /\ h.amount = d.amount /\ h.credited = d.credited
<1>1. h \in Deposits
  BY DEF Rows, Deposits, Moved
<1> QED
  BY <1>1 DEF Rows, Moved

LEMMA ConfirmedRow ==
    ASSUME NEW d \in Rows, NEW s \in Statuses, NEW why \in Reasons,
           NEW h, h = Confirmed(d, s, why)
    PROVE  /\ h \in Deposits
           /\ h.status = s /\ h.confirmed
           /\ h.confirmations = d.confirmations /\ h.intent = d.intent
           /\ h.amount = d.amount /\ h.credited = d.credited
<1>1. h \in Deposits
  BY DEF Rows, Deposits, Confirmed
<1> QED
  BY <1>1 DEF Rows, Confirmed

LEMMA CreditedRow ==
    ASSUME NEW d \in Rows, NEW n \in Nat,
           NEW h, h = Credited(d, n)
    PROVE  /\ h \in Deposits
           /\ h.status = "credited" /\ h.confirmed
           /\ h.confirmations = d.confirmations /\ h.intent = d.intent
           /\ h.amount = d.amount /\ h.credited = n
<1>1. h \in Deposits
  BY DEF Rows, Deposits, Statuses, Financial, Reasons, Credited
<1> QED
  BY <1>1 DEF Rows, Credited

\* A row that a report was noted on.
Working(r, d) ==
    /\ d \in Rows /\ d.status # "absent" /\ Founded(r.transfer, d)
    /\ d.credited = deposit[r.transfer].credited
    /\ d.status \in Financial <=> deposit[r.transfer].status \in Financial
    /\ d.status = "reversed" <=> deposit[r.transfer].status = "reversed"

LEMMA TouchedRow ==
    ASSUME NEW d \in Deposits, NEW n \in Nat, NEW id \in EventIds,
           NEW h, h = Touched(d, n, id)
    PROVE  /\ h \in Deposits
           /\ h.confirmations >= d.confirmations
           /\ h.status = d.status /\ h.confirmed = d.confirmed /\ h.intent = d.intent
           /\ h.amount = d.amount /\ h.credited = d.credited
<1>1. Larger(d.confirmations, n) \in Nat /\ Larger(d.confirmations, n) >= d.confirmations
  BY DEF Larger, Deposits
<1>2. h \in Deposits
  BY <1>1 DEF Deposits, Touched
<1> QED
  BY <1>1, <1>2 DEF Deposits, Touched

LEMMA NewRow ==
    ASSUME DInv, NEW r \in Reports, NEW d, d = NewDeposit(r)
    PROVE  /\ d \in Rows /\ d.status = "detected" /\ d.amount = r.amount
           /\ d.credited = 0 /\ ~d.confirmed
           /\ d.intent # None => IntentOwner[d.intent] = Destination[r.transfer]
<1> DEFINE live == LiveIntents(Destination[r.transfer])
           only == \A i, j \in live : i = j
           chosen == IF live # {} /\ only THEN CHOOSE i \in live : TRUE ELSE None
           why == IF ~r.valid THEN "INVALID_EVENT" ELSE IF only THEN None ELSE "INTENT_AMBIGUOUS"
<1>1. live # {} => (CHOOSE i \in live : TRUE) \in live
  OBVIOUS
<1>2. live \subseteq Intents /\ \A i \in live : IntentOwner[i] = Destination[r.transfer]
  BY DEF LiveIntents
<1>3. /\ chosen \in Intents \cup {None}
      /\ chosen # None => IntentOwner[chosen] = Destination[r.transfer]
  BY <1>1, <1>2
<1>4. why \in Reasons
  BY DEF Reasons, Objections, Sticky
<1>5. d = [NoDeposit EXCEPT !.status = "detected", !.reason = why, !.intent = chosen,
                            !.amount = r.amount, !.confirmations = r.confirmations, !.last = r.id]
  BY DEF NewDeposit
<1> HIDE DEF live, only, chosen, why
<1>6. d = [status |-> "detected", reason |-> why, intent |-> chosen,
           amount |-> r.amount, confirmations |-> r.confirmations,
           confirmed |-> FALSE, credited |-> 0, last |-> r.id]
  BY <1>5 DEF NoDeposit
<1>7. r.amount \in Nat /\ r.confirmations \in Nat /\ r.id \in EventIds
  OBVIOUS
<1> QED
  BY <1>3, <1>4, <1>6, <1>7 DEF Rows

LEMMA ConflictStatus ==
    ASSUME NEW status \in Statuses, status # "absent"
    PROVE  LET s == AfterConflict(status) IN
           /\ s \in Statuses /\ s # "absent"
           /\ s \in Financial <=> status \in Financial
           /\ s = "reversed" <=> status = "reversed"
           /\ s \in Priced => status \in Priced
  BY DEF AfterConflict, Statuses, Financial, Priced

LEMMA NotedRow ==
    ASSUME DInv, NEW r \in Reports
    PROVE  /\ Working(r, Noted(r))
           /\ Conflicts(r) => Noted(r) \in Deposits
           /\ ~Conflicts(r) => Noted(r).amount = r.amount
           /\ Noted(r).status \in Financial => Noted(r) \in Deposits
<1> DEFINE t == r.transfer
           d == deposit[t]
           touched == Touched(d, r.confirmations, r.id)
<1>1. /\ t \in Transfers /\ d \in Deposits /\ RowInv(t)
      /\ r.amount \in Nat \ {0} /\ r.confirmations \in Nat /\ r.id \in EventIds
  BY DEF DInv, DTypes
<1>2. CASE d.status = "absent"
  <2>1. Noted(r) = NewDeposit(r) /\ ~Conflicts(r) /\ d = NoDeposit
    BY <1>1, <1>2 DEF Noted, Conflicts, RowInv
  <2>2. d.credited = 0
    BY <2>1 DEF NoDeposit
  <2>3. PICK new : new = NewDeposit(r)
    OBVIOUS
  <2>4. /\ new \in Rows /\ new.status = "detected" /\ new.amount = r.amount
        /\ new.credited = 0 /\ ~new.confirmed
        /\ new.intent # None => IntentOwner[new.intent] = Destination[t]
    BY <2>3, NewRow
  <2>5. Working(r, new) /\ new.status \notin Financial
    <3>1. new.status \notin Priced /\ new.status \notin Financial /\ new.status # "absent"
          /\ d.status \notin Financial /\ d.status # "reversed" /\ new.status # "reversed"
      BY <1>2, <2>4 DEF Priced, Financial
    <3> QED
      BY <1>1, <2>2, <2>4, <3>1 DEF Working, Founded
  <2> QED
    BY <2>1, <2>3, <2>4, <2>5
<1>3. CASE d.status # "absent"
  <2>1. /\ touched \in Deposits /\ touched.confirmations >= d.confirmations
        /\ touched.status = d.status /\ touched.confirmed = d.confirmed
        /\ touched.intent = d.intent /\ touched.amount = d.amount
        /\ touched.credited = d.credited
    BY <1>1, TouchedRow
  <2>2. Founded(t, d) /\ touched \in Rows
    BY <1>1, <1>3, <2>1 DEF RowInv, Rows, Deposits
  <2>3. /\ d.confirmations \in Nat /\ touched.confirmations \in Nat /\ d.status \in Statuses
    BY <1>1, <2>1 DEF Deposits
  <2>4. CASE ~Conflicts(r)
    <3>1. Noted(r) = touched
      BY <1>3, <2>4 DEF Noted, Touched
    <3>2. d.amount = r.amount
      BY <1>3, <2>4 DEF Conflicts
    <3> HIDE DEF touched
    <3>3. Founded(t, touched)
      BY <2>1, <2>2, <2>3 DEF Founded
    <3> QED
      BY <1>3, <2>1, <2>2, <2>4, <3>1, <3>2, <3>3 DEF Working
  <2>5. CASE Conflicts(r)
    <3> DEFINE s == AfterConflict(d.status)
               h == Moved(touched, s, "IMMUTABLE_FIELDS_CONFLICT")
    <3>1. Noted(r) = h
      <4>1. touched.status = d.status
        BY <2>1
      <4> QED
        BY <1>3, <2>5, <4>1 DEF Noted, Touched, Moved
    <3>2. /\ s \in Statuses /\ s # "absent"
          /\ s \in Financial <=> d.status \in Financial
          /\ s = "reversed" <=> d.status = "reversed"
          /\ s \in Priced => d.status \in Priced
      BY <1>3, <2>3, ConflictStatus
    <3>3. "IMMUTABLE_FIELDS_CONFLICT" \in Reasons
      BY DEF Reasons, Objections, Sticky
    <3> HIDE DEF touched, s
    <3>4. /\ h \in Deposits /\ h.status = s /\ h.confirmed = touched.confirmed
          /\ h.confirmations = touched.confirmations /\ h.intent = touched.intent
          /\ h.amount = touched.amount /\ h.credited = touched.credited
      BY <2>2, <3>2, <3>3, MovedRow
    <3> HIDE DEF h
    <3>5. Founded(t, h)
      BY <2>1, <2>2, <2>3, <3>2, <3>4 DEF Founded
    <3>6. h \in Rows
      BY <3>4 DEF Rows, Deposits
    <3> QED
      BY <2>1, <2>5, <3>1, <3>2, <3>4, <3>5, <3>6 DEF Working
  <2> QED
    BY <2>4, <2>5
<1> QED
  BY <1>2, <1>3

-----------------------------------------------------------------------------
(* A report is assessed                                                    *)

\* What is stored of a report is there from now on.
LEMMA StoredReport ==
    ASSUME DTypes, NEW r \in Reports,
           event[r.id] \in {None, r}, event' = [event EXCEPT ![r.id] = r]
    PROVE  /\ event' \in [EventIds -> Reports \cup {None}]
           /\ \A t \in Transfers : \A n : Proven(t, n) => Proven(t, n)'
           /\ \A t \in Transfers : \A d : Founded(t, d) => Founded(t, d)'
           /\ r.state = "confirmed" /\ r.valid => Proven(r.transfer, r.amount)'
<1>1. /\ event' \in [EventIds -> Reports \cup {None}]
      /\ \A t \in Transfers : \A n : Proven(t, n) => Proven(t, n)'
  BY ProvenStays
<1>2. \A t \in Transfers : \A d : Founded(t, d) => Founded(t, d)'
  BY <1>1 DEF Founded
<1>3. event'[r.id] = r /\ r # None /\ r.id \in EventIds
  BY DEF DTypes
<1>4. r.state = "confirmed" /\ r.valid => Proven(r.transfer, r.amount)'
  BY <1>3 DEF Proven
<1> QED
  BY <1>1, <1>2, <1>4

LEMMA NothingObjected ==
    ASSUME NEW r \in Reports, NEW d \in Rows, Objection(d, r) = None
    PROVE  /\ r.valid
           /\ r.state = "confirmed" \/ d.confirmed
           /\ d.intent # None /\ d.confirmations >= Required
           /\ IntentAmount[d.intent] = d.amount
<1>1. None \notin Objections
  OBVIOUS
<1>2. d.confirmations \in Nat /\ Required \in Nat /\ d.confirmed \in BOOLEAN
  BY DEF Rows
<1> QED
  BY <1>1, <1>2 DEF Objection, Objections, Sticky, AmountAgrees, WasConfirmed

LEMMA AnObjection ==
    ASSUME NEW r \in Reports, NEW d \in Rows
    PROVE  Objection(d, r) \in Objections \cup {None}
  BY DEF Objection, Objections, Sticky

LEMMA DetectedTyped ==
    ASSUME DTypes, NEW i \in Intents \cup {None}, Detected(i)
    PROVE  intent' \in [Intents -> {"absent", "waiting", "detected", "credited"}]
  BY DEF DTypes, Detected

\* A report after which the deposit is held, in any status that promises nothing.
LEMMA HoldStep ==
    ASSUME DInv, NEW r \in Reports, NEW d, Working(r, d), NEW h \in Deposits,
           event[r.id] \in {None, r}, event' = [event EXCEPT ![r.id] = r],
           UNCHANGED <<late, account>>,
           UNCHANGED intent \/ Detected(d.intent),
           Store(r.transfer, h),
           h.status # "absent", h.credited = d.credited,
           h.status \in Financial <=> d.status \in Financial,
           h.status = "reversed" <=> d.status = "reversed",
           Founded(r.transfer, h)'
    PROVE  DInv'
<1>1. r.transfer \in Transfers /\ d.intent \in Intents \cup {None}
  BY DEF Working, Rows
<1>2. intent' \in [Intents -> {"absent", "waiting", "detected", "credited"}]
  BY <1>1, DetectedTyped DEF DInv, DTypes
<1>3. /\ event' \in [EventIds -> Reports \cup {None}]
      /\ \A t \in Transfers : \A n : Proven(t, n) => Proven(t, n)'
  BY StoredReport DEF DInv
<1>4. deposit' = [deposit EXCEPT ![r.transfer] = h]
  BY DEF Store
<1>5. /\ h.credited = deposit[r.transfer].credited
      /\ h.status \in Financial <=> deposit[r.transfer].status \in Financial
      /\ h.status = "reversed" <=> deposit[r.transfer].status = "reversed"
  BY DEF Working
<1>6. late' \subseteq Intents /\ UNCHANGED account
  BY DEF DInv, DTypes
<1> QED
  BY <1>1, <1>2, <1>3, <1>4, <1>5, <1>6, RowOnly

\* The credit, of a report or of a retry.
LEMMA CreditStep ==
    ASSUME DInv, NEW t \in Transfers, NEW d \in Rows, NEW rate \in Nat \ {0},
           CreditDeposit(t, d, rate), UNCHANGED late,
           event' \in [EventIds -> Reports \cup {None}],
           \A s \in Transfers : \A n : Proven(s, n) => Proven(s, n)',
           deposit[t].status \notin Financial,
           d.amount # 0, d.intent # None,
           IntentOwner[d.intent] = Destination[t], IntentAmount[d.intent] = d.amount,
           d.confirmations >= Required, Proven(t, d.amount)'
    PROVE  /\ DInv' /\ ~Booked(t, "credit")
           /\ d.amount * rate \in Nat \ {0}
           /\ Posted(Destination[t], CreditMove(t, d.amount * rate))
           /\ deposit' = [deposit EXCEPT ![t] = Credited(d, d.amount * rate)]
           /\ Credited(d, d.amount * rate).credited = d.amount * rate
           /\ Credited(d, d.amount * rate).status = "credited"
<1> DEFINE n == d.amount * rate
<1>1. d.amount \in Nat \ {0} /\ d.intent \in Intents
  BY DEF Rows
<1>2. n \in Nat \ {0}
  BY <1>1
<1>3. /\ Posted(Destination[t], CreditMove(t, n))
      /\ intent' = [intent EXCEPT ![d.intent] = "credited"]
      /\ deposit' = [deposit EXCEPT ![t] = Credited(d, n)]
  BY DEF CreditDeposit, Store, Credited
<1> HIDE DEF n
<1>4. CreditMove(t, n) \in Movements
  BY <1>2, MovementsTyped
<1>5. CreditMove(t, n).key = <<t, "credit">> /\ CreditMove(t, n).dA = n
  BY DEF CreditMove
<1>6. PICK h : h = Credited(d, n)
  OBVIOUS
<1>7. /\ h \in Deposits /\ h.status = "credited" /\ h.confirmed
      /\ h.confirmations = d.confirmations /\ h.intent = d.intent
      /\ h.amount = d.amount /\ h.credited = n
  BY <1>2, <1>6, CreditedRow
<1>8. PICK m : m = CreditMove(t, n)
  OBVIOUS
<1>9. Founded(t, h)'
  BY <1>2, <1>7 DEF Founded, Financial
<1>10. intent' \in [Intents -> {"absent", "waiting", "detected", "credited"}]
  BY <1>1, <1>3 DEF DInv, DTypes
<1>11. DInv' /\ ~Booked(t, "credit")
  <2>1. m \in Movements /\ m.key = <<t, "credit">> /\ m.dA = n /\ Posted(Destination[t], m)
    BY <1>3, <1>4, <1>5, <1>8
  <2>2. deposit' = [deposit EXCEPT ![t] = h]
    BY <1>3, <1>6
  <2> QED
    BY <1>7, <1>9, <1>10, <2>1, <2>2, RowAndEntry
<1> QED
  BY <1>2, <1>3, <1>6, <1>7, <1>11 DEF n

LEMMA AssessStep ==
    ASSUME DInv, NEW r \in Reports, NEW d, Working(r, d), d.amount = r.amount,
           d.status \notin Financial,
           event[r.id] \in {None, r}, event' = [event EXCEPT ![r.id] = r], UNCHANGED late,
           NEW allowed \in CreditSettings, NEW quote \in Quotes(r, allowed),
           Assess(d, r, allowed, quote)
    PROVE  \/ DInv' /\ UNCHANGED account
              /\ \E h \in Deposits : /\ Store(r.transfer, h) /\ h.credited = d.credited
                                      /\ h.status # "reversed"
           \/ /\ quote.rate \in Nat \ {0} /\ CreditDeposit(r.transfer, d, quote.rate)
              /\ d.intent # None /\ IntentAmount[d.intent] = d.amount
              /\ d.confirmations >= Required /\ Proven(r.transfer, d.amount)'
<1> DEFINE t == r.transfer
           why == Objection(d, r)
<1>1. /\ t \in Transfers /\ d \in Rows /\ d.amount \in Nat /\ d.confirmed \in BOOLEAN
      /\ Founded(t, d) /\ Founded(t, d)'
  BY StoredReport DEF Working, Rows, DInv
<1>2. ASSUME NEW h \in Deposits, h.status \notin Financial, h.status # "absent",
             h.credited = d.credited, Founded(t, h)',
             Store(t, h), Detected(d.intent), UNCHANGED account
      PROVE  /\ DInv' /\ UNCHANGED account
             /\ \E g \in Deposits : /\ Store(r.transfer, g) /\ g.credited = d.credited
                                     /\ g.status # "reversed"
  <2>1. h.status # "reversed" /\ d.status # "reversed"
    BY <1>2 DEF Financial
  <2>2. DInv'
    BY <1>2, <2>1, HoldStep
  <2> QED
    BY <1>2, <2>1, <2>2
<1>3. ASSUME NEW s \in {"confirming", "manual_review"}, NEW reason \in Reasons,
             Store(t, Moved(d, s, reason)), Detected(d.intent), UNCHANGED account
      PROVE  /\ DInv' /\ UNCHANGED account
             /\ \E g \in Deposits : /\ Store(r.transfer, g) /\ g.credited = d.credited
                                     /\ g.status # "reversed"
  <2>1. s \in Statuses /\ s \notin Priced /\ s \notin Financial /\ s # "absent"
    BY DEF Statuses, Priced, Financial
  <2>2. PICK h : h = Moved(d, s, reason)
    OBVIOUS
  <2>3. /\ h \in Deposits /\ h.status = s /\ h.confirmed = d.confirmed
        /\ h.confirmations = d.confirmations /\ h.intent = d.intent
        /\ h.amount = d.amount /\ h.credited = d.credited
    BY <1>1, <2>1, <2>2, MovedRow
  <2>4. Founded(t, h)'
    BY <1>1, <2>1, <2>3 DEF Founded
  <2> QED
    BY <1>2, <1>3, <2>1, <2>2, <2>3, <2>4
<1>4. ASSUME why = None
      PROVE  /\ d.intent # None /\ IntentAmount[d.intent] = d.amount
             /\ d.confirmations >= Required /\ Proven(t, d.amount)'
  <2>1. /\ r.valid
        /\ r.state = "confirmed" \/ d.confirmed
        /\ d.intent # None /\ d.confirmations >= Required
        /\ IntentAmount[d.intent] = d.amount
    BY <1>1, <1>4, NothingObjected
  <2>2. r.state = "confirmed" => Proven(t, d.amount)'
    BY <2>1, StoredReport DEF DInv
  <2>3. d.confirmed => Proven(t, d.amount)'
    BY <1>1 DEF Founded
  <2> QED
    BY <2>1, <2>2, <2>3
<1>5. ASSUME why = None, NEW s \in {"manual_review", "confirmed_unpriced", "pending_rate"},
             NEW reason \in Reasons,
             Store(t, Confirmed(d, s, reason)), Detected(d.intent), UNCHANGED account
      PROVE  /\ DInv' /\ UNCHANGED account
             /\ \E g \in Deposits : /\ Store(r.transfer, g) /\ g.credited = d.credited
                                     /\ g.status # "reversed"
  <2>1. s \in Statuses /\ s \notin Financial /\ s # "absent"
    BY DEF Statuses, Financial
  <2>2. PICK h : h = Confirmed(d, s, reason)
    OBVIOUS
  <2>3. /\ h \in Deposits /\ h.status = s /\ h.confirmed
        /\ h.confirmations = d.confirmations /\ h.intent = d.intent
        /\ h.amount = d.amount /\ h.credited = d.credited
    BY <1>1, <2>1, <2>2, ConfirmedRow
  <2>4. /\ d.intent # None /\ IntentAmount[d.intent] = d.amount
        /\ d.confirmations >= Required /\ Proven(t, d.amount)'
    BY <1>4, <1>5
  <2>5. Founded(t, h)'
    BY <1>1, <2>1, <2>3, <2>4 DEF Founded
  <2> QED
    BY <1>2, <1>5, <2>1, <2>2, <2>3, <2>5
<1> HIDE DEF t
<1>6. CASE why = "INSUFFICIENT_CONFIRMATIONS"
           /\ Store(t, Moved(d, "confirming", None)) /\ Detected(d.intent) /\ UNCHANGED account
  BY <1>3, <1>6 DEF Reasons
<1>7. CASE why \notin {None, "INSUFFICIENT_CONFIRMATIONS"}
           /\ Store(t, Moved(d, "manual_review", why)) /\ Detected(d.intent) /\ UNCHANGED account
  <2>1. why \in Reasons
    BY <1>1, <1>7, AnObjection DEF Reasons
  <2> QED
    BY <1>3, <1>7, <2>1
<1>8. CASE why = None /\ Store(t, Confirmed(d, "manual_review", "REVIEW_ONLY"))
           /\ Detected(d.intent) /\ UNCHANGED account
  BY <1>5, <1>8 DEF Reasons
<1>9. ASSUME why = None, quote.error # None, Detected(d.intent), UNCHANGED account,
             Store(t, Confirmed(d, IF quote.error = "RATE_STALE" THEN "confirmed_unpriced"
                                                                ELSE "pending_rate", quote.error))
      PROVE  /\ DInv' /\ UNCHANGED account
             /\ \E g \in Deposits : /\ Store(r.transfer, g) /\ g.credited = d.credited
                                     /\ g.status # "reversed"
  <2>1. quote.error \in Reasons
    BY <1>9 DEF Quotes, Quote, NoQuote, Reasons, NoRate
  <2> QED
    BY <1>5, <1>9, <2>1
<1>10. ASSUME why = None, quote.error = None, CreditDeposit(t, d, quote.rate)
       PROVE  quote.rate \in Nat \ {0}
  <2>1. \/ \E rate \in Rates : quote = Quote(rate)
        \/ \E error \in NoRate : quote = NoQuote(error)
    BY DEF Quotes, NoRate
  <2>2. ASSUME NEW error \in NoRate, quote = NoQuote(error)
        PROVE  FALSE
    BY <1>10, <2>2 DEF NoQuote
  <2>3. ASSUME NEW rate \in Rates, quote = Quote(rate)
        PROVE  quote.rate \in Nat \ {0}
    BY <2>3 DEF Quote
  <2> QED
    BY <2>1, <2>2, <2>3
<1> QED
  BY <1>4, <1>6, <1>7, <1>8, <1>9, <1>10 DEF Assess, Moved, Confirmed, t

-----------------------------------------------------------------------------
(* What a step means to the promise about Coins                            *)

LEMMA QuietStep ==
    ASSUME \A s \in Transfers : /\ deposit'[s].credited = deposit[s].credited
                                /\ deposit'[s].status = "reversed" <=> deposit[s].status = "reversed"
    PROVE  Promise!Next
<1>1. [s \in Transfers |-> deposit'[s].credited] = [s \in Transfers |-> deposit[s].credited]
  OBVIOUS
<1>2. {s \in Transfers : deposit'[s].status = "reversed"}
         = {s \in Transfers : deposit[s].status = "reversed"}
  OBVIOUS
<1> QED
  BY <1>1, <1>2 DEF Promise!Next, Promise!Otherwise

LEMMA QuietStore ==
    ASSUME DTypes, NEW t \in Transfers, NEW d, Store(t, d), d.credited = deposit[t].credited,
           d.status = "reversed" <=> deposit[t].status = "reversed"
    PROVE  Promise!Next
<1>1. \A s \in Transfers : deposit'[s] = IF s = t THEN d ELSE deposit[s]
  BY DEF DTypes, Store
<1> QED
  BY <1>1, QuietStep

LEMMA GainOf ==
    ASSUME NEW u \in Users, NEW n,
           \A v \in Users : v # u => account'[v] = account[v],
           account'[u].available = account[u].available + n
    PROVE  Promise!Gain(u, n)
  BY DEF Promise!Gain

LEMMA CreditKept ==
    ASSUME DInv, NEW t \in Transfers, NEW n \in Nat \ {0}, NEW d,
           Posted(Destination[t], CreditMove(t, n)), ~Booked(t, "credit"),
           deposit' = [deposit EXCEPT ![t] = d], d.credited = n, d.status = "credited"
    PROVE  Promise!Next
<1>1. CreditMove(t, n) \in Movements
  BY MovementsTyped
<1>2. CreditMove(t, n).key = <<t, "credit">> /\ CreditMove(t, n).dA = n
  BY DEF CreditMove
<1>3. Destination[t] \in Users
  OBVIOUS
<1>4. /\ \A u \in Users : u # Destination[t] => account'[u] = account[u]
      /\ account'[Destination[t]].available = account[Destination[t]].available + n
  BY <1>1, <1>2, BookedAfter
<1>5. Promise!Gain(Destination[t], n)
  BY <1>3, <1>4, GainOf
<1>6. \A s \in Transfers : deposit'[s] = IF s = t THEN d ELSE deposit[s]
  BY DEF DInv, DTypes
<1>7. deposit[t].credited = 0 /\ deposit[t].status # "reversed"
  <2>1. RowInv(t) /\ deposit[t].status \notin Financial
    BY DEF DInv, RowInv
  <2> QED
    BY <2>1 DEF RowInv, Founded, NoDeposit, Financial
<1>8. Promise!Credit(t)
  <2> DEFINE c == [s \in Transfers |-> deposit[s].credited]
             a == [u \in Users |-> account[u].available]
             gone == {s \in Transfers : deposit[s].status = "reversed"}
  <2>1. c[t] = 0 /\ c'[t] = n
    BY <1>6, <1>7
  <2>2. c' = [c EXCEPT ![t] = n]
    <3>1. \A s \in Transfers : deposit'[s].credited = IF s = t THEN n ELSE deposit[s].credited
      BY <1>6
    <3> QED
      BY <3>1
  <2>3. gone' = gone
    BY <1>6, <1>7
  <2>4. a' = [a EXCEPT ![Destination[t]] = @ + n]
    BY <1>5 DEF Promise!Gain
  <2> HIDE DEF c, a, gone
  <2>5. /\ c[t] = 0 /\ c'[t] > 0 /\ c' = [c EXCEPT ![t] = c'[t]] /\ gone' = gone
        /\ a' = [a EXCEPT ![Destination[t]] = @ + c'[t]]
    BY <2>1, <2>2, <2>3, <2>4
  <2> QED
    BY <2>5 DEF Promise!Credit, Promise!Gain, c, a, gone
<1> QED
  BY <1>8 DEF Promise!Next

LEMMA ReversalKept ==
    ASSUME DInv, NEW t \in Transfers, NEW d, NEW h,
           Posted(Destination[t], ReversalMove(t, d)), ~Booked(t, "reversal"),
           account[Destination[t]].available >= d.credited,
           d.credited = deposit[t].credited, h.credited = d.credited, h.status = "reversed",
           deposit[t].status \in Financial,
           deposit' = [deposit EXCEPT ![t] = h]
    PROVE  Promise!Next
<1>1. deposit[t].credited \in Nat \ {0} /\ deposit[t].status # "reversed"
  <2>1. RowInv(t) /\ deposit[t] \in Deposits /\ deposit[t].status # "absent"
    BY DEF DInv, DTypes, Financial
  <2> QED
    BY <2>1 DEF RowInv, Founded, Deposits
<1>2. ReversalMove(t, d) \in Movements
  BY <1>1, MovementsTyped
<1>3. ReversalMove(t, d).key = <<t, "reversal">> /\ ReversalMove(t, d).dA = -d.credited
  BY DEF ReversalMove
<1>4. Destination[t] \in Users
  OBVIOUS
<1>5. /\ \A u \in Users : u # Destination[t] => account'[u] = account[u]
      /\ account'[Destination[t]].available = account[Destination[t]].available - d.credited
  <2>1. /\ \A u \in Users : u # Destination[t] => account'[u] = account[u]
        /\ account'[Destination[t]].available
              = account[Destination[t]].available + (-d.credited)
    BY <1>2, <1>3, BookedAfter
  <2>2. account[Destination[t]].available \in Int
    BY <1>4 DEF DInv, DTypes, Accounts
  <2> QED
    BY <1>1, <2>1, <2>2
<1>6. \A s \in Transfers : deposit'[s] = IF s = t THEN h ELSE deposit[s]
  BY DEF DInv, DTypes
<1>7. account'[Destination[t]].available
         = account[Destination[t]].available + (-deposit[t].credited)
  <2>1. account[Destination[t]].available \in Int
    BY <1>4 DEF DInv, DTypes, Accounts
  <2> QED
    BY <1>1, <1>5, <2>1
<1>8. Promise!Gain(Destination[t], -deposit[t].credited)
  BY <1>4, <1>5, <1>7 DEF Promise!Gain
<1>9. Promise!Undo(t)
  BY <1>1, <1>4, <1>6, <1>8 DEF Promise!Undo, Promise!Gain
<1> QED
  BY <1>9 DEF Promise!Next

-----------------------------------------------------------------------------
(* The other steps                                                         *)

\* Announcing an intent and letting one expire.
LEMMA IntentStep ==
    ASSUME DInv, UNCHANGED <<account, event, deposit>>,
           intent' \in [Intents -> {"absent", "waiting", "detected", "credited"}],
           late' \subseteq Intents
    PROVE  DInv' /\ Promise!Next
<1>1. DTypes' /\ AccountsSound'
  BY DEF DInv, DTypes, AccountsSound
<1>2. ASSUME NEW t \in Transfers PROVE RowInv(t)'
  <2>1. RowInv(t)
    BY DEF DInv
  <2>2. Founded(t, deposit[t]) => Founded(t, deposit[t])'
    BY DEF Founded, Proven
  <2> QED
    BY <2>1, <2>2 DEF RowInv, Booked, AmountsBooked, Owned
<1>3. Promise!Next
  BY QuietStep
<1> QED
  BY <1>1, <1>2, <1>3 DEF DInv

LEMMA ElsewhereStep ==
    ASSUME DInv, NEW p \in Elsewhere, PostElsewhere(p)
    PROVE  DInv' /\ Promise!Next
<1>1. PICK u \in Users, m \in Movements : u = p.user /\ m = p.move
  BY MovementsTyped
<1>2. \A t \in Transfers : m.key # <<t, "credit">> /\ m.key # <<t, "reversal">>
  <2>1. m.key \notin Transfers \X {"credit", "reversal"}
    BY <1>1
  <2>2. PICK key : key = m.key
    OBVIOUS
  <2>3. \A t \in Transfers : key # <<t, "credit">> /\ key # <<t, "reversal">>
    BY <2>1, <2>2
  <2> QED
    BY <2>2, <2>3
<1>3. /\ account' \in [Users -> Accounts(Movements)] /\ AccountsSound'
      /\ \A v \in Users : \A key :
            HasKey(account'[v], key) <=> HasKey(account[v], key) \/ (v = u /\ key = m.key)
      /\ \A v \in Users : \A other :
            InBook(account'[v], other) <=> InBook(account[v], other) \/ (v = u /\ other = m)
  <2>1. Posted(u, m)
    BY <1>1 DEF PostElsewhere
  <2> QED
    BY <2>1, PostedSound DEF DInv
<1>4. UNCHANGED <<intent, late, event, deposit>>
  BY DEF PostElsewhere
<1>5. DTypes'
  BY <1>3, <1>4 DEF DInv, DTypes
<1>6. ASSUME NEW t \in Transfers PROVE RowInv(t)'
  <2>1. RowInv(t) /\ Destination[t] \in Users
    BY DEF DInv
  <2>2. Founded(t, deposit[t]) => Founded(t, deposit[t])'
    BY <1>4 DEF Founded, Proven
  <2>3. /\ Booked(t, "credit")' <=> Booked(t, "credit")
        /\ Booked(t, "reversal")' <=> Booked(t, "reversal")
    BY <1>2, <1>3, <2>1 DEF Booked, Owned
  <2>4. AmountsBooked(t)'
    BY <1>2, <1>3, <1>4, <2>1 DEF AmountsBooked, RowInv, Owned
  <2> QED
    BY <1>4, <2>1, <2>2, <2>3, <2>4 DEF RowInv
<1>7. Promise!Next
  BY <1>4, QuietStep
<1> QED
  BY <1>3, <1>5, <1>6, <1>7 DEF DInv

LEMMA PayloadConflictStep ==
    ASSUME DInv, NEW r \in Reports, PayloadConflict(r)
    PROVE  DInv' /\ Promise!Next
<1> DEFINE t == r.transfer
           d == deposit[t]
           s == AfterConflict(d.status)
<1>1. t \in Transfers /\ d \in Deposits /\ RowInv(t)
  BY DEF DInv, DTypes
<1>2. UNCHANGED <<account, intent, late, event>>
  BY DEF PayloadConflict
<1>3. CASE d.status = "absent"
  <2>1. UNCHANGED deposit
    BY <1>3 DEF PayloadConflict
  <2> QED
    BY <1>2, <2>1, IntentStep DEF DInv, DTypes
<1>4. CASE d.status # "absent"
  <2>1. PICK h : h = Moved(d, s, "EVENT_ID_CONFLICT")
    OBVIOUS
  <2>2. Store(t, h)
    BY <1>4, <2>1 DEF PayloadConflict, Moved
  <2>3. /\ s \in Statuses /\ s # "absent"
        /\ s \in Financial <=> d.status \in Financial
        /\ s = "reversed" <=> d.status = "reversed"
        /\ s \in Priced => d.status \in Priced
    BY <1>1, <1>4, ConflictStatus DEF Deposits
  <2>4. d \in Rows /\ "EVENT_ID_CONFLICT" \in Reasons
    BY <1>1 DEF Deposits, Rows, Reasons
  <2> HIDE DEF s
  <2>5. /\ h \in Deposits /\ h.status = s /\ h.confirmed = d.confirmed
        /\ h.confirmations = d.confirmations /\ h.intent = d.intent
        /\ h.amount = d.amount /\ h.credited = d.credited
    BY <2>1, <2>3, <2>4, MovedRow
  <2>6. Founded(t, h)'
    <3>1. Founded(t, d)
      BY <1>1, <1>4 DEF RowInv
    <3>2. Founded(t, h)
      BY <2>3, <2>5, <3>1 DEF Founded
    <3> QED
      BY <1>2, <3>2 DEF Founded, Proven
  <2>7. \A x \in Transfers : \A n : Proven(x, n) => Proven(x, n)'
    BY <1>2 DEF Proven
  <2>8. /\ intent' \in [Intents -> {"absent", "waiting", "detected", "credited"}]
        /\ late' \subseteq Intents /\ event' \in [EventIds -> Reports \cup {None}]
    BY <1>2 DEF DInv, DTypes
  <2>9. deposit' = [deposit EXCEPT ![t] = h]
    BY <2>2 DEF Store
  <2>10. DInv'
    BY <1>1, <1>2, <2>3, <2>5, <2>6, <2>7, <2>8, <2>9, RowOnly
  <2>11. Promise!Next
    BY <1>1, <2>2, <2>3, <2>5, QuietStore DEF DInv
  <2> QED
    BY <2>10, <2>11
<1> QED
  BY <1>3, <1>4

LEMMA RetryStep ==
    ASSUME DInv, NEW t \in Transfers, NEW rate \in Rates, RetryDeposit(t, rate)
    PROVE  DInv' /\ Promise!Next
<1>1. PICK d : d = deposit[t]
  OBVIOUS
<1>2. /\ d \in Deposits /\ d \in Rows /\ RowInv(t) /\ rate \in Nat \ {0}
  BY <1>1 DEF DInv, DTypes, Deposits, Rows
<1>3. /\ CreditDeposit(t, d, rate) /\ UNCHANGED <<late, event>>
      /\ d.status \in {"pending_rate", "confirmed_unpriced"}
  BY <1>1 DEF RetryDeposit
<1>4. d.status \in Priced /\ d.status \notin Financial /\ d.status # "absent"
  BY <1>3 DEF Priced, Financial
<1>5. /\ d.amount # 0 /\ d.intent # None
      /\ IntentOwner[d.intent] = Destination[t] /\ IntentAmount[d.intent] = d.amount
      /\ d.confirmations >= Required /\ Proven(t, d.amount)
  BY <1>1, <1>2, <1>4 DEF RowInv, Founded
<1>6. /\ event' \in [EventIds -> Reports \cup {None}]
      /\ \A x \in Transfers : \A n : Proven(x, n) => Proven(x, n)'
  BY <1>3 DEF DInv, DTypes, Proven
<1>7. PICK n : n = d.amount * rate
  OBVIOUS
<1>8. PICK h : h = Credited(d, n)
  OBVIOUS
<1>9. /\ DInv' /\ ~Booked(t, "credit")
      /\ n \in Nat \ {0} /\ Posted(Destination[t], CreditMove(t, n))
      /\ deposit' = [deposit EXCEPT ![t] = h] /\ h.credited = n /\ h.status = "credited"
  BY <1>1, <1>2, <1>3, <1>4, <1>5, <1>6, <1>7, <1>8, CreditStep
<1>10. Promise!Next
  BY <1>9, CreditKept
<1> QED
  BY <1>9, <1>10

LEMMA ReverseStep ==
    ASSUME DInv, NEW r \in Reports, NEW d, Working(r, d), d.status \in Financial => d \in Deposits,
           event[r.id] \in {None, r}, event' = [event EXCEPT ![r.id] = r],
           UNCHANGED <<intent, late>>, Reverse(r.transfer, d)
    PROVE  DInv' /\ Promise!Next
<1> DEFINE t == r.transfer
<1>1. /\ t \in Transfers /\ d \in Rows /\ d.credited = deposit[t].credited
      /\ d.status # "absent" /\ Founded(t, d)
      /\ d.status \in Financial <=> deposit[t].status \in Financial
      /\ d.status = "reversed" <=> deposit[t].status = "reversed"
  BY DEF Working
<1>2. /\ event' \in [EventIds -> Reports \cup {None}]
      /\ \A s \in Transfers : \A n : Proven(s, n) => Proven(s, n)'
      /\ \A g : Founded(t, g) => Founded(t, g)'
  BY <1>1, StoredReport DEF DInv
<1> HIDE DEF t
<1>3. ASSUME NEW h \in Deposits, Store(t, h), UNCHANGED account, h.status # "absent",
             h.credited = d.credited, h.status \in Financial <=> d.status \in Financial,
             h.status = "reversed" <=> d.status = "reversed", Founded(t, h)
      PROVE  DInv' /\ Promise!Next
  <2>1. DInv'
    BY <1>2, <1>3, HoldStep DEF t
  <2>2. Promise!Next
    BY <1>1, <1>3, QuietStore DEF DInv
  <2> QED
    BY <2>1, <2>2
<1>4. ASSUME NEW s \in {"rejected", "reversal_pending", "reversed"}, NEW why \in Reasons, NEW h,
             h = Moved(d, s, why), s \in Financial <=> d.status \in Financial
      PROVE  /\ h \in Deposits /\ h.status = s /\ h.credited = d.credited /\ Founded(t, h)
  <2>1. s \in Statuses
    BY DEF Statuses, Financial
  <2>2. /\ h \in Deposits /\ h.status = s /\ h.confirmed = d.confirmed
        /\ h.confirmations = d.confirmations /\ h.intent = d.intent
        /\ h.amount = d.amount /\ h.credited = d.credited
    BY <1>1, <1>4, <2>1, MovedRow
  <2>3. s \in Priced => d.status \in Priced
    BY <1>4 DEF Priced, Financial
  <2>4. Founded(t, h)
    BY <1>1, <1>4, <2>2, <2>3 DEF Founded
  <2> QED
    BY <2>2, <2>4
<1>5. {"REVERSAL_BEFORE_CREDIT", "REVERSAL_INSUFFICIENT", "REVERSED"} \subseteq Reasons
  BY DEF Reasons
<1>6. CASE d.status = "reversed" /\ Store(t, d) /\ UNCHANGED account
  <2>1. d \in Deposits
    BY <1>6 DEF Financial
  <2> QED
    BY <1>1, <1>3, <1>6, <2>1
<1>7. CASE /\ d.status # "reversed" /\ ~CanReverse(d) /\ UNCHANGED account
           /\ Store(t, Moved(d, "rejected", "REVERSAL_BEFORE_CREDIT"))
  <2>1. PICK h : h = Moved(d, "rejected", "REVERSAL_BEFORE_CREDIT")
    OBVIOUS
  <2>2. d.status \notin Financial /\ "rejected" \notin Financial
    BY <1>7 DEF CanReverse, Financial
  <2>3. h \in Deposits /\ h.status = "rejected" /\ h.credited = d.credited /\ Founded(t, h)
    BY <1>4, <1>5, <2>1, <2>2
  <2> QED
    BY <1>3, <1>7, <2>1, <2>2, <2>3
<1>8. CASE /\ CanReverse(d) /\ UNCHANGED account
           /\ Store(t, Moved(d, "reversal_pending", "REVERSAL_INSUFFICIENT"))
  <2>1. PICK h : h = Moved(d, "reversal_pending", "REVERSAL_INSUFFICIENT")
    OBVIOUS
  <2>2. /\ d.status \in Financial /\ d.status # "reversed"
        /\ "reversal_pending" \in Financial
    BY <1>8 DEF CanReverse, Financial
  <2>3. h \in Deposits /\ h.status = "reversal_pending" /\ h.credited = d.credited /\ Founded(t, h)
    BY <1>4, <1>5, <2>1, <2>2
  <2> QED
    BY <1>3, <1>8, <2>1, <2>2, <2>3
<1>9. CASE /\ CanReverse(d) /\ account[Destination[t]].available >= d.credited
           /\ Posted(Destination[t], ReversalMove(t, d))
           /\ Store(t, Moved(d, "reversed", "REVERSED"))
  <2>1. PICK h : h = Moved(d, "reversed", "REVERSED")
    OBVIOUS
  <2>2. PICK m : m = ReversalMove(t, d)
    OBVIOUS
  <2>3. d.status \in Financial /\ d.status # "reversed" /\ "reversed" \in Financial
    BY <1>9 DEF CanReverse, Financial
  <2>4. h \in Deposits /\ h.status = "reversed" /\ h.credited = d.credited /\ Founded(t, h)
    BY <1>4, <1>5, <2>1, <2>3
  <2>5. /\ m \in Movements /\ m.key = <<t, "reversal">> /\ m.dA = -d.credited
        /\ Posted(Destination[t], m)
    <3>1. d.credited \in Int
      BY <1>1 DEF Rows
    <3>2. m \in Movements
      BY <1>1, <2>2, <3>1, MovementsTyped
    <3> QED
      BY <1>9, <2>2, <3>2 DEF ReversalMove
  <2>6. deposit' = [deposit EXCEPT ![t] = h]
    BY <1>9, <2>1 DEF Store
  <2>7. intent' \in [Intents -> {"absent", "waiting", "detected", "credited"}]
    BY DEF DInv, DTypes
  <2>8. Founded(t, h)'
    BY <1>2, <2>4
  <2>9. deposit[t].status \in Financial \ {"reversed"}
    BY <1>1, <2>3
  <2>10. DInv' /\ ~Booked(t, "reversal")
    BY <1>1, <1>2, <2>4, <2>5, <2>6, <2>7, <2>8, <2>9, RowAndEntry
  <2>11. Promise!Next
    BY <1>1, <1>9, <2>4, <2>6, <2>9, <2>10, ReversalKept
  <2> QED
    BY <2>10, <2>11
<1> QED
  BY <1>6, <1>7, <1>8, <1>9 DEF Reverse, Moved, t

LEMMA ProcessEventStep ==
    ASSUME DInv, NEW r \in Reports, NEW allowed \in CreditSettings,
           NEW quote \in Quotes(r, allowed), ProcessEvent(r, allowed, quote)
    PROVE  DInv' /\ Promise!Next
<1>1. PICK d : d = Noted(r)
  OBVIOUS
<1>2. /\ event[r.id] \in {None, r} /\ event' = [event EXCEPT ![r.id] = r] /\ UNCHANGED late
  BY DEF ProcessEvent
<1>3. /\ Working(r, d)
      /\ Conflicts(r) => d \in Deposits
      /\ ~Conflicts(r) => d.amount = r.amount
      /\ d.status \in Financial => d \in Deposits
  BY <1>1, NotedRow
<1>4. /\ r.transfer \in Transfers /\ d \in Rows /\ d.status # "absent" /\ Founded(r.transfer, d)
      /\ d.credited = deposit[r.transfer].credited
      /\ d.status \in Financial <=> deposit[r.transfer].status \in Financial
      /\ d.status = "reversed" <=> deposit[r.transfer].status = "reversed"
  BY <1>3 DEF Working
<1>5. CASE /\ Conflicts(r) \/ d.status \in Financial
           /\ Store(r.transfer, d) /\ UNCHANGED <<account, intent>>
  <2>1. Founded(r.transfer, d)'
    BY <1>2, <1>4, StoredReport DEF DInv
  <2>2. DInv'
    BY <1>2, <1>3, <1>4, <1>5, <2>1, HoldStep
  <2>3. Promise!Next
    BY <1>4, <1>5, QuietStore DEF DInv
  <2> QED
    BY <2>2, <2>3
<1>6. CASE Reverse(r.transfer, d) /\ UNCHANGED intent
  BY <1>2, <1>3, <1>6, ReverseStep
<1>7. CASE ~Conflicts(r) /\ d.status \notin Financial /\ Assess(d, r, allowed, quote)
  <2>1. \/ DInv' /\ UNCHANGED account
           /\ \E h \in Deposits : /\ Store(r.transfer, h) /\ h.credited = d.credited
                                   /\ h.status # "reversed"
        \/ /\ quote.rate \in Nat \ {0} /\ CreditDeposit(r.transfer, d, quote.rate)
           /\ d.intent # None /\ IntentAmount[d.intent] = d.amount
           /\ d.confirmations >= Required /\ Proven(r.transfer, d.amount)'
    BY <1>2, <1>3, <1>7, AssessStep
  <2>2. CASE DInv' /\ \E h \in Deposits : /\ Store(r.transfer, h) /\ h.credited = d.credited
                                          /\ h.status # "reversed"
    <3>1. deposit[r.transfer].status # "reversed"
      BY <1>4, <1>7 DEF Financial
    <3> QED
      BY <1>4, <2>2, <3>1, QuietStore DEF DInv
  <2>3. CASE /\ quote.rate \in Nat \ {0} /\ CreditDeposit(r.transfer, d, quote.rate)
             /\ d.intent # None /\ IntentAmount[d.intent] = d.amount
             /\ d.confirmations >= Required /\ Proven(r.transfer, d.amount)'
    <3>1. d.amount # 0 /\ IntentOwner[d.intent] = Destination[r.transfer]
      BY <1>4, <2>3 DEF Founded
    <3>2. /\ event' \in [EventIds -> Reports \cup {None}]
          /\ \A s \in Transfers : \A n : Proven(s, n) => Proven(s, n)'
      BY <1>2, StoredReport DEF DInv
    <3>3. PICK n : n = d.amount * quote.rate
      OBVIOUS
    <3>4. PICK h : h = Credited(d, n)
      OBVIOUS
    <3>5. /\ DInv' /\ ~Booked(r.transfer, "credit") /\ n \in Nat \ {0}
          /\ Posted(Destination[r.transfer], CreditMove(r.transfer, n))
          /\ deposit' = [deposit EXCEPT ![r.transfer] = h]
          /\ h.credited = n /\ h.status = "credited"
      BY <1>2, <1>4, <1>7, <2>3, <3>1, <3>2, <3>3, <3>4, CreditStep
    <3> QED
      BY <1>4, <3>5, CreditKept
  <2> QED
    BY <2>1, <2>2, <2>3
<1> QED
  BY <1>1, <1>5, <1>6, <1>7 DEF ProcessEvent

-----------------------------------------------------------------------------
(* Theorems                                                                *)

LEMMA DepositsStep == DInv /\ [Next]_vars => DInv' /\ [Promise!Next]_(Promise!vars)
<1> SUFFICES ASSUME DInv, [Next]_vars PROVE DInv' /\ Promise!Next
  OBVIOUS
<1>1. ASSUME NEW i \in Intents, CreateDepositIntent(i) PROVE DInv' /\ Promise!Next
  <2>1. UNCHANGED <<account, late, event, deposit>>
    BY <1>1 DEF CreateDepositIntent
  <2>2. intent' \in [Intents -> {"absent", "waiting", "detected", "credited"}]
    BY <1>1 DEF CreateDepositIntent, DInv, DTypes
  <2> QED
    BY <2>1, <2>2, IntentStep DEF DInv, DTypes
<1>2. ASSUME NEW i \in Intents, ExpireIntent(i) PROVE DInv' /\ Promise!Next
  <2>1. UNCHANGED <<account, intent, event, deposit>> /\ late' \subseteq Intents
    BY <1>2 DEF ExpireIntent, DInv, DTypes
  <2> QED
    BY <2>1, IntentStep DEF DInv, DTypes
<1>3. ASSUME NEW r \in Reports, PayloadConflict(r) PROVE DInv' /\ Promise!Next
  BY <1>3, PayloadConflictStep
<1>4. ASSUME NEW r \in Reports, NEW allowed \in CreditSettings,
             NEW quote \in Quotes(r, allowed), ProcessEvent(r, allowed, quote)
      PROVE  DInv' /\ Promise!Next
  BY <1>4, ProcessEventStep
<1>5. ASSUME NEW t \in Transfers, NEW rate \in Rates, RetryDeposit(t, rate)
      PROVE  DInv' /\ Promise!Next
  BY <1>5, RetryStep
<1>6. ASSUME NEW p \in Elsewhere, PostElsewhere(p) PROVE DInv' /\ Promise!Next
  BY <1>6, ElsewhereStep
<1>7. CASE UNCHANGED vars
  BY <1>7, IntentStep DEF vars, DInv, DTypes
<1> QED
  BY <1>1, <1>2, <1>3, <1>4, <1>5, <1>6, <1>7 DEF Next

\* In every reachable state the accounts are consistent, each row tells what the
\* ledger booked for its transfer, and what a row has gone through is on record.
THEOREM DepositsInvariant == Spec => []DInv
  BY DepositsInit, DepositsStep, PTL DEF Spec

\* A credit is booked for exactly the deposits that were credited, and a reversal of
\* the very same amount for exactly those that were reversed.
THEOREM DepositsTruthful == Spec => [](TypeOK /\ RowsTruthful)
<1>1. DInv => TypeOK
  <2> SUFFICES ASSUME DInv PROVE TypeOK
    OBVIOUS
  <2>1. \A u \in Users : Covered(account[u])
    BY DEF DInv, AccountsSound, Sound
  <2> QED
    BY <2>1 DEF DInv, DTypes, TypeOK
<1>2. DInv => RowsTruthful
  <2> SUFFICES ASSUME DInv, NEW t \in Transfers
               PROVE  /\ HasKey(Owned(t), <<t, "credit">>) <=> deposit[t].status \in Financial
                      /\ HasKey(Owned(t), <<t, "reversal">>) <=> deposit[t].status = "reversed"
                      /\ \A i \in DOMAIN Owned(t).entries :
                            LET m == Owned(t).entries[i].move IN
                            /\ m.key = <<t, "credit">> => m.dA = deposit[t].credited
                            /\ m.key = <<t, "reversal">> => m.dA = -deposit[t].credited
    BY DEF RowsTruthful
  <2>1. RowInv(t)
    BY DEF DInv
  <2> QED
    BY <2>1 DEF RowInv, Booked, AmountsBooked, InBook
<1> QED
  BY <1>1, <1>2, DepositsInvariant, PTL

\* Coins are only ever credited on a stored, valid, confirmed report of this very
\* transfer, whose amount is the one its owner announced.
THEOREM DepositsCreditHasEvidence == Spec => []CreditHasEvidence
<1>1. DInv => CreditHasEvidence
  <2> SUFFICES ASSUME DInv, NEW t \in Transfers, deposit[t].status \in Financial
               PROVE  /\ Proven(t, deposit[t].amount)
                      /\ deposit[t].confirmations >= Required
                      /\ deposit[t].intent # None
                      /\ IntentOwner[deposit[t].intent] = Destination[t]
                      /\ IntentAmount[deposit[t].intent] = deposit[t].amount
    BY DEF CreditHasEvidence, Proven
  <2>1. RowInv(t) /\ deposit[t].status # "absent" /\ deposit[t].status \in Priced
    BY DEF DInv, Financial, Priced
  <2>2. deposit[t].confirmed \in BOOLEAN
    BY DEF DInv, DTypes, Deposits
  <2> QED
    BY <2>1, <2>2 DEF RowInv, Founded
<1> QED
  BY <1>1, DepositsInvariant, PTL

\* The flow of events, retries and reversals implements the promise: one credit per
\* transfer to its owner, taken back at most once, in full and never into the red.
THEOREM DepositsImplementCredit == Spec => ImplementsCredit
<1>1. Init => Promise!Init
  <2> SUFFICES ASSUME Init PROVE Promise!Init
    OBVIOUS
  <2>1. \A u \in Users : account[u].available = 0
    BY DEF Init, EmptyAccount
  <2>2. \A t \in Transfers : deposit[t].credited = 0 /\ deposit[t].status # "reversed"
    BY DEF Init, NoDeposit
  <2> QED
    BY <2>1, <2>2 DEF Promise!Init
<1> QED
  BY <1>1, DepositsStep, DepositsInvariant, PTL DEF Spec, ImplementsCredit, Promise!Spec

-----------------------------------------------------------------------------
(* The reconciliation finds nothing                                        *)

\* An entry is under the key of a transfer's movement only when it is that kind of
\* movement, and on the account of the address's owner.
Fits(u, m) ==
    \A t \in Transfers :
        /\ m.key = <<t, "credit">> =>
              u = Destination[t] /\ m.op = "crypto_deposit_credit" /\ m.dR = 0
        /\ m.key = <<t, "reversal">> =>
              u = Destination[t] /\ m.op = "reversed_deposit" /\ m.dR = 0

BookFits == \A u \in Users : \A m : InBook(account[u], m) => Fits(u, m)

Stored(id) == id \in EventIds /\ event[id] # None

\* A row names an event that is stored.
LastStored == \A t \in Transfers : deposit[t].status # "absent" => Stored(deposit[t].last)

LEMMA MovesFit ==
    /\ \A t \in Transfers, n \in Int :
          /\ CreditMove(t, n) \in Movements /\ Fits(Destination[t], CreditMove(t, n))
          /\ Destination[t] \in Users
    /\ \A t \in Transfers : \A d : d.credited \in Int =>
          ReversalMove(t, d) \in Movements /\ Fits(Destination[t], ReversalMove(t, d))
    /\ \A p \in Elsewhere : p.user \in Users /\ p.move \in Movements /\ Fits(p.user, p.move)
<1>1. ASSUME NEW t \in Transfers, NEW n \in Int PROVE Fits(Destination[t], CreditMove(t, n))
  <2>1. CreditMove(t, n).key = <<t, "credit">> /\ CreditMove(t, n).dR = 0
        /\ CreditMove(t, n).op = "crypto_deposit_credit"
    BY DEF CreditMove
  <2> QED
    BY <2>1 DEF Fits
<1>2. ASSUME NEW t \in Transfers, NEW d PROVE Fits(Destination[t], ReversalMove(t, d))
  <2>1. ReversalMove(t, d).key = <<t, "reversal">> /\ ReversalMove(t, d).dR = 0
        /\ ReversalMove(t, d).op = "reversed_deposit"
    BY DEF ReversalMove
  <2> QED
    BY <2>1 DEF Fits
<1>3. ASSUME NEW p \in Elsewhere PROVE Fits(p.user, p.move)
  <2>1. \A t \in Transfers : \A kind \in {"credit", "reversal"} : p.move.key # <<t, kind>>
    <3> SUFFICES ASSUME NEW t \in Transfers, NEW kind \in {"credit", "reversal"},
                        p.move.key = <<t, kind>>
                 PROVE  FALSE
      OBVIOUS
    <3>1. p.move.key \in Transfers \X {"credit", "reversal"}
      OBVIOUS
    <3> QED
      BY <3>1
  <2> QED
    BY <2>1 DEF Fits
<1> QED
  BY <1>1, <1>2, <1>3, MovementsTyped

\* A movement of the balances of a step, if there is one.
Booking ==
    \/ UNCHANGED account
    \/ \E u \in Users : \E m \in Movements : Posted(u, m) /\ Fits(u, m)

LEMMA CreditBooks ==
    ASSUME NEW t \in Transfers, NEW d, d.amount \in Nat, NEW rate \in Nat, CreditDeposit(t, d, rate)
    PROVE  Booking
<1>1. PICK n : n = d.amount * rate
  OBVIOUS
<1>2. n \in Int /\ Posted(Destination[t], CreditMove(t, n))
  BY <1>1 DEF CreditDeposit
<1> QED
  BY <1>2, MovesFit DEF Booking

\* The row of a transfer after a step: as it was, or still naming its event, or
\* naming the event that the step stores.
RowKept(t) ==
    \/ deposit'[t] = deposit[t]
    \/ deposit'[t].last = deposit[t].last /\ deposit[t].status # "absent"
    \/ \E r \in Reports : event'[r.id] = r /\ deposit'[t].last = r.id

LEMMA StoreKeeps ==
    ASSUME DTypes, NEW t \in Transfers, NEW h, Store(t, h),
           \/ h.last = deposit[t].last /\ deposit[t].status # "absent"
           \/ \E r \in Reports : event'[r.id] = r /\ h.last = r.id
    PROVE  \A s \in Transfers : RowKept(s)
<1>1. \A s \in Transfers : deposit'[s] = IF s = t THEN h ELSE deposit[s]
  BY DEF DTypes, Store
<1> QED
  BY <1>1 DEF RowKept

LEMMA NotedLast ==
    ASSUME DTypes, NEW r \in Reports
    PROVE  Noted(r).last = r.id
<1>1. deposit[r.transfer] \in Deposits
  BY DEF DTypes
<1>2. NewDeposit(r).last = r.id
  BY DEF NewDeposit, NoDeposit
<1>3. [deposit[r.transfer] EXCEPT !.confirmations = Larger(@, r.confirmations), !.last = r.id]
          \in [status : Statuses, reason : Reasons, intent : Intents \cup {None},
               amount : Nat, confirmations : {Larger(deposit[r.transfer].confirmations, r.confirmations)},
               confirmed : BOOLEAN, credited : Nat, last : {r.id}]
  BY <1>1 DEF Deposits
<1> QED
  BY <1>1, <1>2, <1>3 DEF Noted, Deposits

LEMMA RowLasts ==
    ASSUME NEW d \in Rows
    PROVE  \A s, why, n : /\ Moved(d, s, why).last = d.last
                          /\ Confirmed(d, s, why).last = d.last
                          /\ Credited(d, n).last = d.last
  BY DEF Rows, Moved, Confirmed, Credited

LEMMA AssessEffects ==
    ASSUME DTypes, NEW r \in Reports, NEW d \in Rows,
           NEW allowed \in CreditSettings, NEW quote \in Quotes(r, allowed),
           Assess(d, r, allowed, quote)
    PROVE  Booking /\ \E h : Store(r.transfer, h) /\ h.last = d.last
<1>1. CASE UNCHANGED account /\ \E h : Store(r.transfer, h) /\ h.last = d.last
  BY <1>1 DEF Booking
<1>2. CASE quote.error = None /\ CreditDeposit(r.transfer, d, quote.rate)
  <2>1. quote.rate \in Nat
    BY <1>2 DEF Quotes, Quote, NoQuote, NoRate
  <2>2. d.amount \in Nat /\ r.transfer \in Transfers
    BY DEF Rows
  <2>3. Booking
    BY <1>2, <2>1, <2>2, CreditBooks
  <2>4. Store(r.transfer, Credited(d, d.amount * quote.rate))
    BY <1>2 DEF CreditDeposit, Credited
  <2> QED
    BY <2>3, <2>4, RowLasts
<1>3. CASE /\ UNCHANGED account
           /\ \E s, why : \/ Store(r.transfer, Moved(d, s, why))
                          \/ Store(r.transfer, Confirmed(d, s, why))
  BY <1>1, <1>3, RowLasts
<1> QED
  BY <1>2, <1>3 DEF Assess, Moved, Confirmed

LEMMA ReverseEffects ==
    ASSUME NEW t \in Transfers, NEW d \in Rows, Reverse(t, d)
    PROVE  Booking /\ \E h : Store(t, h) /\ h.last = d.last
<1>1. d.credited \in Int
  BY DEF Rows
<1>2. CASE UNCHANGED account /\ \E h : Store(t, h) /\ h.last = d.last
  BY <1>2 DEF Booking
<1>3. CASE Posted(Destination[t], ReversalMove(t, d)) /\ \E h : Store(t, h) /\ h.last = d.last
  BY <1>1, <1>3, MovesFit DEF Booking
<1>4. CASE \E s, why : /\ Store(t, Moved(d, s, why))
                       /\ UNCHANGED account \/ Posted(Destination[t], ReversalMove(t, d))
  BY <1>2, <1>3, <1>4, RowLasts
<1>5. CASE Store(t, d) /\ UNCHANGED account
  BY <1>2, <1>5
<1> QED
  BY <1>4, <1>5 DEF Reverse, Moved

LEMMA StepEffects ==
    ASSUME DInv, [Next]_vars
    PROVE  /\ Booking
           /\ \A t \in Transfers : RowKept(t)
           /\ \A id : Stored(id) => Stored(id)'
<1>1. ASSUME UNCHANGED deposit, UNCHANGED event
      PROVE  (\A t \in Transfers : RowKept(t)) /\ (\A id : Stored(id) => Stored(id)')
  BY <1>1 DEF RowKept, Stored
<1>2. CASE \E i \in Intents : CreateDepositIntent(i) \/ ExpireIntent(i)
  BY <1>1, <1>2 DEF CreateDepositIntent, ExpireIntent, Booking
<1>3. CASE \E r \in Reports : PayloadConflict(r)
  <2>1. PICK r \in Reports : PayloadConflict(r)
    BY <1>3
  <2>2. UNCHANGED account /\ UNCHANGED event
    BY <2>1 DEF PayloadConflict
  <2>3. CASE UNCHANGED deposit
    BY <1>1, <2>2, <2>3 DEF Booking
  <2>4. CASE deposit[r.transfer].status # "absent"
    <3>1. deposit[r.transfer] \in Deposits /\ r.transfer \in Transfers
      BY DEF DInv, DTypes
    <3>2. PICK h : /\ Store(r.transfer, h)
                   /\ h = [deposit[r.transfer] EXCEPT !.status = AfterConflict(@),
                                                      !.reason = "EVENT_ID_CONFLICT"]
      BY <2>1, <2>4 DEF PayloadConflict
    <3>3. h.last = deposit[r.transfer].last
      BY <3>1, <3>2 DEF Deposits
    <3>4. \A t \in Transfers : RowKept(t)
      BY <2>4, <3>1, <3>2, <3>3, StoreKeeps DEF DInv
    <3> QED
      BY <2>2, <3>4 DEF Booking, Stored
  <2> QED
    BY <2>1, <2>3, <2>4 DEF PayloadConflict
<1>4. CASE \E r \in Reports : \E allowed \in CreditSettings : \E quote \in Quotes(r, allowed) :
               ProcessEvent(r, allowed, quote)
  <2>1. PICK r \in Reports : \E allowed \in CreditSettings : \E quote \in Quotes(r, allowed) :
                                ProcessEvent(r, allowed, quote)
    BY <1>4
  <2>2. PICK allowed \in CreditSettings : \E quote \in Quotes(r, allowed) :
                                              ProcessEvent(r, allowed, quote)
    BY <2>1
  <2>3. PICK quote \in Quotes(r, allowed) : ProcessEvent(r, allowed, quote)
    BY <2>2
  <2>4. /\ event[r.id] \in {None, r} /\ event' = [event EXCEPT ![r.id] = r]
        /\ r.id \in EventIds /\ r # None /\ r.transfer \in Transfers
    BY <2>3 DEF ProcessEvent
  <2>5. event'[r.id] = r /\ \A id : Stored(id) => Stored(id)'
    <3>1. \A id \in EventIds : event'[id] = IF id = r.id THEN r ELSE event[id]
      BY <2>4 DEF DInv, DTypes
    <3> QED
      BY <2>4, <3>1 DEF Stored
  <2>6. PICK d : d = Noted(r)
    OBVIOUS
  <2>7. d \in Rows /\ d.last = r.id
    BY <2>6, NotedRow, NotedLast DEF DInv, Working
  <2>8. Booking /\ \E h : Store(r.transfer, h) /\ h.last = d.last
    <3>1. CASE Store(r.transfer, d) /\ UNCHANGED account
      BY <3>1 DEF Booking
    <3>2. CASE Reverse(r.transfer, d)
      BY <2>4, <2>7, <3>2, ReverseEffects
    <3>3. CASE Assess(d, r, allowed, quote)
      BY <2>7, <3>3, AssessEffects DEF DInv
    <3> QED
      BY <2>3, <2>6, <3>1, <3>2, <3>3 DEF ProcessEvent
  <2>9. PICK h : Store(r.transfer, h) /\ h.last = d.last
    BY <2>8
  <2>10. \A t \in Transfers : RowKept(t)
    BY <2>4, <2>5, <2>7, <2>9, StoreKeeps DEF DInv
  <2> QED
    BY <2>5, <2>8, <2>10
<1>5. CASE \E t \in Transfers, rate \in Rates : RetryDeposit(t, rate)
  <2>1. PICK t \in Transfers, rate \in Rates : RetryDeposit(t, rate)
    BY <1>5
  <2>2. /\ deposit[t] \in Deposits /\ deposit[t].status # "absent" /\ UNCHANGED event
        /\ CreditDeposit(t, deposit[t], rate) /\ rate \in Nat
    BY <2>1 DEF RetryDeposit, DInv, DTypes
  <2>3. Booking
    BY <2>2, CreditBooks DEF Deposits
  <2>4. PICK h : /\ Store(t, h)
                 /\ h = [deposit[t] EXCEPT !.status = "credited", !.reason = None,
                             !.confirmed = TRUE, !.credited = deposit[t].amount * rate]
    BY <2>2 DEF CreditDeposit
  <2>5. h.last = deposit[t].last
    BY <2>2, <2>4 DEF Deposits
  <2>6. \A s \in Transfers : RowKept(s)
    BY <2>2, <2>4, <2>5, StoreKeeps DEF DInv
  <2> QED
    BY <2>2, <2>3, <2>6 DEF Stored
<1>6. CASE \E p \in Elsewhere : PostElsewhere(p)
  BY <1>1, <1>6, MovesFit DEF PostElsewhere, Booking
<1>7. CASE UNCHANGED vars
  BY <1>1, <1>7 DEF vars, Booking
<1> QED
  BY <1>2, <1>3, <1>4, <1>5, <1>6, <1>7 DEF Next

LEMMA BooksFit == Spec => [](DInv /\ BookFits /\ LastStored)
<1>1. Init => BookFits /\ LastStored
  <2> SUFFICES ASSUME Init PROVE BookFits /\ LastStored
    OBVIOUS
  <2>1. \A m : ~InBook(EmptyAccount, m)
    BY EmptyAccountSound DEF InBook, EmptyAccount
  <2> QED
    BY <2>1 DEF Init, BookFits, LastStored, NoDeposit
<1>2. DInv /\ BookFits /\ LastStored /\ [Next]_vars => BookFits' /\ LastStored'
  <2> SUFFICES ASSUME DInv, BookFits, LastStored, [Next]_vars PROVE BookFits' /\ LastStored'
    OBVIOUS
  <2>1. /\ Booking
        /\ \A t \in Transfers : RowKept(t)
        /\ \A id : Stored(id) => Stored(id)'
    BY StepEffects
  <2>2. BookFits'
    <3>1. CASE UNCHANGED account
      BY <3>1 DEF BookFits
    <3>2. CASE \E u \in Users : \E m \in Movements : Posted(u, m) /\ Fits(u, m)
      <4>1. PICK u \in Users : \E m \in Movements : Posted(u, m) /\ Fits(u, m)
        BY <3>2
      <4>2. PICK m \in Movements : Posted(u, m) /\ Fits(u, m)
        BY <4>1
      <4>3. \A v \in Users : \A other :
                InBook(account'[v], other) <=> InBook(account[v], other) \/ (v = u /\ other = m)
        BY <4>2, PostedSound DEF DInv
      <4> QED
        BY <4>2, <4>3 DEF BookFits
    <3> QED
      BY <2>1, <3>1, <3>2 DEF Booking
  <2>3. ASSUME NEW t \in Transfers, deposit'[t].status # "absent"
        PROVE  Stored(deposit[t].last)'
    <3>1. CASE deposit[t].status # "absent" /\ deposit'[t].last = deposit[t].last
      <4>1. Stored(deposit[t].last)
        BY <3>1 DEF LastStored
      <4> QED
        BY <2>1, <3>1, <4>1 DEF Stored
    <3>2. CASE \E r \in Reports : event'[r.id] = r /\ deposit'[t].last = r.id
      BY <3>2 DEF Stored
    <3> QED
      BY <2>1, <2>3, <3>1, <3>2 DEF RowKept
  <2> QED
    BY <2>2, <2>3 DEF LastStored
<1> QED
  BY <1>1, <1>2, DepositsInvariant, PTL DEF Spec

LEMMA LedgerIs ==
    ASSUME DInv
    PROVE  \A e : e \in Rec!Ledger(account) <=>
               \E u \in Users : \E m : InBook(account[u], m) /\ e = [user |-> u, move |-> m]
<1>1. DOMAIN account = Users
  BY DEF DInv, DTypes
<1>2. \A e : e \in Rec!Ledger(account) <=>
          \E u \in Users : \E i \in DOMAIN account[u].entries :
              e = [user |-> u, move |-> account[u].entries[i].move]
  BY <1>1 DEF Rec!Ledger
<1> QED
  BY <1>2, Zenon DEF InBook

\* The balances in the rows, and after each entry, are the sums of the entries.
LEMMA AccountsAddUp == DInv => Rec!AccountsReconcile(account)
<1> SUFFICES ASSUME DInv, NEW u \in Users
             PROVE  ~Rec!CoinCacheVsLedger(account[u]) /\ ~Rec!CoinEntryRunningBalance(account[u])
  BY DEF Rec!AccountsReconcile, DInv, DTypes
<1>1. PICK acc : acc = account[u] /\ acc \in Accounts(Movements) /\ Chained(acc)
  BY DEF DInv, DTypes, AccountsSound, Sound
<1>2. \A n \in 0 .. Len(acc.entries) : /\ Rec!Availables(acc, n) = AvailableAfter(acc, n)
                                       /\ Rec!Reserveds(acc, n) = ReservedAfter(acc, n)
  <2>1. \A n \in 0 .. Len(acc.entries) :
            /\ SumFunctionOnSet([i \in 1 .. n |-> acc.entries[i].move.dA], 1 .. n)
                   = AvailableAfter(acc, n)
            /\ SumFunctionOnSet([i \in 1 .. n |-> acc.entries[i].move.dR], 1 .. n)
                   = ReservedAfter(acc, n)
    BY <1>1, MovementsTyped, ChainedSums
  <2>2. \A f, S : Rec!SumFunctionOnSet(f, S) = SumFunctionOnSet(f, S)
    BY DEF Rec!SumFunctionOnSet, Rec!FoldFunctionOnSet, SumFunctionOnSet, FoldFunctionOnSet,
           Rec!MapThenFoldSet, MapThenFoldSet
  <2> QED
    BY <2>1, <2>2 DEF Rec!Availables, Rec!Reserveds
<1>3. Len(acc.entries) \in Nat /\ DOMAIN acc.entries = 1 .. Len(acc.entries)
  BY <1>1, AccountTyped
<1>4. ~Rec!CoinCacheVsLedger(acc)
  BY <1>1, <1>2, <1>3 DEF Rec!CoinCacheVsLedger, Chained
<1>5. ~Rec!CoinEntryRunningBalance(acc)
  BY <1>2, <1>3 DEF Rec!CoinEntryRunningBalance, AvailableAfter, ReservedAfter
<1> QED
  BY <1>1, <1>4, <1>5


\* What a row's column leads to is an entry, on an account.
Leads(t, kind, u, m) ==
    /\ u \in Users /\ InBook(account[u], m) /\ m.key = <<t, kind>>
    /\ \E e : /\ e = [user |-> u, move |-> m] /\ e # None
             /\ e = Rec!Joined(Rec!Ledger(account), <<t, kind>>)

LEMMA EntryJoined ==
    ASSUME DInv, BookFits, NEW t \in Transfers, NEW kind \in {"credit", "reversal"},
           Booked(t, kind)
    PROVE  \E u, m : Leads(t, kind, u, m)
<1>1. PICK L : L = Rec!Ledger(account)
  OBVIOUS
<1>2. Destination[t] \in Users
  OBVIOUS
<1>3. PICK m0 : InBook(account[Destination[t]], m0) /\ m0.key = <<t, kind>>
  BY <1>2, KeyInBook DEF Booked, Owned
<1>4. PICK e0 : e0 = [user |-> Destination[t], move |-> m0]
  OBVIOUS
<1>5. e0 \in L /\ e0.move.key = <<t, kind>>
  BY <1>1, <1>2, <1>3, <1>4, LedgerIs
<1>6. PICK e : e = Rec!Joined(L, <<t, kind>>)
  OBVIOUS
<1>7. e \in L /\ e.move.key = <<t, kind>>
  BY <1>5, <1>6 DEF Rec!Joined
<1>8. PICK u \in Users : \E m : InBook(account[u], m) /\ e = [user |-> u, move |-> m]
  BY <1>1, <1>7, LedgerIs
<1>9. PICK m : InBook(account[u], m) /\ e = [user |-> u, move |-> m]
  BY <1>8
<1>10. m \in Movements
  <2>1. account[u] \in Accounts(Movements)
    BY DEF DInv, DTypes
  <2> QED
    BY <1>9, <2>1, AccountTyped DEF InBook
<1>11. e # None
  BY <1>9, <1>10, NullAssumption
<1>12. m.key = <<t, kind>>
  BY <1>7, <1>9
<1>13. Leads(t, kind, u, m)
  BY <1>1, <1>6, <1>9, <1>11, <1>12 DEF Leads
<1> QED
  BY <1>13

LEMMA DepositsReconcile == DInv /\ BookFits /\ LastStored => Reconciles
<1> SUFFICES ASSUME DInv, BookFits, LastStored PROVE Reconciles
  OBVIOUS
<1>1. ASSUME NEW t \in Transfers
      PROVE  /\ ~Rec!DepositLedger(Rec!Ledger(account), DepositRow(t))
             /\ ~Rec!DepositReversal(Rec!Ledger(account), DepositRow(t))
             /\ ~Rec!DepositProviderRecord({id \in EventIds : event[id] # None}, DepositRow(t))
  <2>1. PICK row : row = DepositRow(t)
    OBVIOUS
  <2>2. /\ row.status = deposit[t].status /\ row.user = Destination[t]
        /\ row.credited = deposit[t].credited /\ row.event = deposit[t].last
        /\ row.entry = <<t, "credit">> /\ row.reversal = <<t, "reversal">>
    BY <2>1 DEF DepositRow
  <2>3. RowInv(t) /\ Destination[t] \in Users /\ Destination[t] # None
    BY NullAssumption DEF DInv
  <2>4. PICK L : L = Rec!Ledger(account)
    OBVIOUS
  <2>5. ~Rec!DepositLedger(L, row)
    <3> SUFFICES ASSUME deposit[t].status = "credited"
                 PROVE  Rec!OwnMoves(Rec!Joined(L, <<t, "credit">>), Destination[t],
                                     "crypto_deposit_credit", deposit[t].credited, 0)
      BY <2>2, <2>3 DEF Rec!DepositLedger
    <3>1. Booked(t, "credit")
      BY <2>3 DEF RowInv, Financial
    <3>2. PICK u, m : Leads(t, "credit", u, m)
      BY <3>1, EntryJoined
    <3>3. /\ u \in Users /\ InBook(account[u], m) /\ m.key = <<t, "credit">>
          /\ Rec!Joined(L, <<t, "credit">>) = [user |-> u, move |-> m]
          /\ Rec!Joined(L, <<t, "credit">>) # None
      BY <2>4, <3>2 DEF Leads
    <3>4. u = Destination[t] /\ m.op = "crypto_deposit_credit" /\ m.dR = 0
      BY <3>3 DEF BookFits, Fits
    <3>5. m.dA = deposit[t].credited
      BY <2>3, <3>3, <3>4 DEF RowInv, AmountsBooked, Owned
    <3> QED
      BY <3>3, <3>4, <3>5 DEF Rec!OwnMoves, Rec!Moves
  <2>6. ~Rec!DepositReversal(L, row)
    <3> SUFFICES ASSUME deposit[t].status = "reversed"
                 PROVE  Rec!Moves(Rec!Joined(L, <<t, "reversal">>),
                                  "reversed_deposit", -deposit[t].credited, 0)
      BY <2>2 DEF Rec!DepositReversal
    <3>1. Booked(t, "reversal")
      BY <2>3 DEF RowInv
    <3>2. PICK u, m : Leads(t, "reversal", u, m)
      BY <3>1, EntryJoined
    <3>3. /\ u \in Users /\ InBook(account[u], m) /\ m.key = <<t, "reversal">>
          /\ Rec!Joined(L, <<t, "reversal">>) = [user |-> u, move |-> m]
          /\ Rec!Joined(L, <<t, "reversal">>) # None
      BY <2>4, <3>2 DEF Leads
    <3>4. u = Destination[t] /\ m.op = "reversed_deposit" /\ m.dR = 0
      BY <3>3 DEF BookFits, Fits
    <3>5. m.dA = -deposit[t].credited
      BY <2>3, <3>3, <3>4 DEF RowInv, AmountsBooked, Owned
    <3> QED
      BY <3>3, <3>4, <3>5 DEF Rec!Moves
  <2>7. ~Rec!DepositProviderRecord({id \in EventIds : event[id] # None}, row)
    BY <2>2 DEF Rec!DepositProviderRecord, LastStored, Stored
  <2> QED
    BY <2>1, <2>4, <2>5, <2>6, <2>7
<1> QED
  BY <1>1, AccountsAddUp DEF Reconciles

\* The rows and the ledger agree, and the reconciliation finds every credit and every
\* reversal booked to the owner for the amount of the row, the event that the row names
\* stored, and every balance to be the sum of its entries.
THEOREM DepositAlwaysMatchesLedger == Spec => []DepositMatchesLedger
<1>1. DInv /\ BookFits /\ LastStored => Reconciles
  BY DepositsReconcile
<1> QED
  BY <1>1, BooksFit, DepositsTruthful, PTL DEF DepositMatchesLedger
=============================================================================
