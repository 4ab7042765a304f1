-------------------------- MODULE CoinLedgerProofs --------------------------
(***************************************************************************)
(* The Coin ledger is sound for any number of users, sessions, movements   *)
(* and postings per transaction, and implements the append-only book.  The *)
(* cutover, which moves the legacy balances into it, is atomic.            *)
(***************************************************************************)
EXTENDS CoinLedger, CoinCutover, MoneyProofs

USE LedgerAssumption

\* The ledger starts in its inductive invariant.
LEMMA InitIInv == Init => IInv
<1> SUFFICES ASSUME Init PROVE IInv
  OBVIOUS
<1>1. EmptyAccount \in Accounts(Movements) /\ Sound(EmptyAccount)
  BY EmptyAccountSound
<1>2. TypeOK
  BY <1>1 DEF Init, TypeOK, Phases, NoSeen
<1>3. AccountsSound
  BY <1>1 DEF Init, AccountsSound
<1>4. LocksExclusive /\ OwnWorkSound /\ \A s \in Sessions : Established(s)
  BY DEF Init, LocksExclusive, OwnWorkSound, Established
<1>5. QED
  BY <1>2, <1>3, <1>4 DEF IInv

\* A movement callers may ask for has integer deltas.
LEMMA CallTyped ==
    ASSUME TypeOK, NEW s \in Sessions, phase[s] \notin {"idle", "begun"}
    PROVE  /\ call[s][1] \in Users
           /\ call[s][2] \in Movements
           /\ call[s][2].dA \in Int
           /\ call[s][2].dR \in Int
<1>1. call[s] \in Users \X Movements
  BY DEF TypeOK
<1>2. QED
  BY <1>1

\* Ending a transaction, with the committed accounts as in "a" afterwards.
LEMMA EndTransactionIInv ==
    ASSUME IInv, NEW s \in Sessions, EndTransaction(s),
           activeSystem' \in {"legacy", "coin"},
           account' \in [Users -> Accounts(Movements)],
           \A u \in Users : Sound(account'[u]),
           \A u \in Users \ held[s] : account'[u] = account[u]
    PROVE  IInv'
<1> USE DEF IInv, EndTransaction
<1>1. TypeOK'
  BY EmptyAccountSound DEF TypeOK, Phases, NoSeen
<1>2. AccountsSound'
  BY DEF AccountsSound
<1>3. LocksExclusive'
  BY DEF LocksExclusive, TypeOK
<1>4. OwnWorkSound'
  <2> SUFFICES ASSUME NEW t \in Sessions, NEW u \in held'[t]
               PROVE  Sound(work'[t][u]) /\ Continues(account'[u], work'[t][u])
    BY DEF OwnWorkSound
  <2>1. t # s /\ u \in held[t] /\ u \in Users
    BY DEF TypeOK
  <2>2. account'[u] = account[u] /\ work'[t][u] = work[t][u]
    BY <2>1 DEF LocksExclusive, TypeOK
  <2>3. QED
    BY <2>1, <2>2 DEF OwnWorkSound
<1>5. ASSUME NEW t \in Sessions PROVE Established(t)'
  <2>1. CASE t = s
    BY <2>1 DEF Established, TypeOK
  <2>2. CASE t # s
    <3>1. /\ phase'[t] = phase[t] /\ call'[t] = call[t] /\ seen'[t] = seen[t]
          /\ held'[t] = held[t] /\ work'[t] = work[t] /\ posts'[t] = posts[t]
          /\ moving'[t] = moving[t]
      BY <2>2 DEF TypeOK
    <3>2. QED
      BY <3>1 DEF Established
  <2>3. QED
    BY <2>1, <2>2
<1>6. QED
  BY <1>1, <1>2, <1>3, <1>4, <1>5

\* A step of one session leaves what the others established alone.
LEMMA OthersEstablished ==
    ASSUME IInv, NEW s \in Sessions, NEW t \in Sessions, t # s,
           phase'[t] = phase[t], call'[t] = call[t], seen'[t] = seen[t],
           held'[t] = held[t], work'[t] = work[t], posts'[t] = posts[t],
           moving'[t] = moving[t]
    PROVE  Established(t)'
  BY DEF IInv, Established

LEMMA MigrationIInv ==
    ASSUME IInv, NEW s \in Sessions, EnterMigration(s) \/ CompleteMigration(s)
    PROVE  IInv'
<1>1. /\ UNCHANGED <<account, call, seen, held, work, posts>>
      /\ phase' = phase \/ (phase[s] = "idle" /\ phase' = [phase EXCEPT ![s] = "begun"])
  BY DEF EnterMigration, CompleteMigration
<1>2. TypeOK'
  BY DEF EnterMigration, CompleteMigration, IInv, TypeOK, Phases
<1>3. AccountsSound' /\ LocksExclusive' /\ OwnWorkSound'
  BY <1>1 DEF IInv, AccountsSound, LocksExclusive, OwnWorkSound
<1>4. ASSUME NEW t \in Sessions PROVE Established(t)'
  <2>1. CASE t = s
    <3>1. phase'[s] \in {"begun", "open"} /\ phase[s] \in {"idle", phase'[s]}
      BY <2>1 DEF EnterMigration, CompleteMigration, IInv, TypeOK
    <3>2. CASE phase'[s] = "begun"
      <4>1. held[s] = {}
        BY <3>1, <3>2 DEF IInv, Established
      <4>2. QED
        BY <1>1, <2>1, <3>2, <4>1 DEF Established
    <3>3. CASE phase'[s] = "open"
      <4>1. phase[s] = "open"
        BY <1>1, <3>1, <3>3 DEF IInv, TypeOK
      <4>2. QED
        BY <1>1, <2>1, <3>3, <4>1 DEF IInv, Established
    <3>4. QED
      BY <3>1, <3>2, <3>3
  <2>2. CASE t # s
    <3>1. phase'[t] = phase[t] /\ moving'[t] = moving[t]
      BY <2>2 DEF EnterMigration, CompleteMigration, IInv, TypeOK
    <3>2. QED
      BY <1>1, <2>2, <3>1, OthersEstablished
  <2>3. QED
    BY <2>1, <2>2
<1>5. QED
  BY <1>2, <1>3, <1>4 DEF IInv

LEMMA CallPostIInv ==
    ASSUME IInv, NEW s \in Sessions, NEW u \in Users, NEW m \in Movements,
           CallPost(s, u, m)
    PROVE  IInv'
<1> USE DEF IInv, CallPost
<1>1. TypeOK'
  BY DEF TypeOK, Phases
<1>2. AccountsSound' /\ LocksExclusive' /\ OwnWorkSound'
  BY DEF AccountsSound, LocksExclusive, OwnWorkSound
<1>3. ASSUME NEW t \in Sessions PROVE Established(t)'
  <2>1. CASE t = s
    BY <2>1 DEF Established, TypeOK
  <2>2. CASE t # s
    BY <2>2, OthersEstablished DEF TypeOK
  <2>3. QED
    BY <2>1, <2>2
<1>4. QED
  BY <1>1, <1>2, <1>3

LEMMA ReadFenceIInv ==
    ASSUME IInv, NEW s \in Sessions, ReadFence(s)
    PROVE  IInv'
<1> USE DEF IInv, ReadFence
<1>1. TypeOK'
  BY DEF TypeOK, Phases
<1>2. AccountsSound' /\ LocksExclusive' /\ OwnWorkSound'
  BY DEF AccountsSound, LocksExclusive, OwnWorkSound
<1>3. ASSUME NEW t \in Sessions PROVE Established(t)'
  <2>1. CASE t = s
    BY <2>1 DEF Established, TypeOK
  <2>2. CASE t # s
    BY <2>2, OthersEstablished DEF TypeOK
  <2>3. QED
    BY <2>1, <2>2
<1>4. QED
  BY <1>1, <1>2, <1>3

LEMMA LockAccountIInv ==
    ASSUME IInv, NEW s \in Sessions, LockAccount(s)
    PROVE  IInv'
<1> DEFINE u == call[s][1]
           row == IF u \in held[s] THEN work[s][u] ELSE account[u]
<1>1. u \in Users
  BY CallTyped DEF IInv, LockAccount
<1>2. /\ row \in Accounts(Movements)
      /\ Sound(row) /\ Continues(account[u], row)
  <2>1. account[u] \in Accounts(Movements) /\ work[s][u] \in Accounts(Movements)
    BY <1>1 DEF IInv, TypeOK
  <2>2. CASE u \in held[s]
    BY <2>1, <2>2 DEF IInv, OwnWorkSound
  <2>3. CASE u \notin held[s]
    <3>1. Len(account[u].entries) \in Nat
      BY <2>1 DEF Accounts
    <3>2. Continues(account[u], account[u])
      BY <3>1 DEF Continues
    <3>3. QED
      BY <1>1, <2>1, <2>3, <3>2 DEF IInv, AccountsSound
  <2>4. QED
    BY <2>2, <2>3
<1>3. row.available \in Int /\ row.reserved \in Int
  BY <1>2 DEF Accounts
<1> HIDE DEF row
<1>4. /\ phase[s] = "lock" /\ LockFree(s, u)
      /\ phase' = [phase EXCEPT ![s] = "lookup"]
      /\ held' = [held EXCEPT ![s] = @ \cup {u}]
      /\ work' = [work EXCEPT ![s][u] = row]
      /\ seen' = [seen EXCEPT ![s] = [available |-> row.available,
                                      reserved |-> row.reserved]]
      /\ UNCHANGED <<activeSystem, moving, account, call, posts>>
  BY DEF LockAccount, row
<1>5. TypeOK'
  BY <1>1, <1>2, <1>3, <1>4 DEF IInv, TypeOK, Phases
<1>6. AccountsSound'
  BY <1>4 DEF IInv, AccountsSound
<1>7. LocksExclusive'
  BY <1>4 DEF IInv, LocksExclusive, LockFree, TypeOK
<1>8. OwnWorkSound'
  <2> SUFFICES ASSUME NEW t \in Sessions, NEW v \in held'[t]
               PROVE  Sound(work'[t][v]) /\ Continues(account'[v], work'[t][v])
    BY DEF OwnWorkSound
  <2>1. CASE t = s /\ v = u
    BY <1>1, <1>2, <1>4, <2>1 DEF IInv, TypeOK
  <2>2. CASE ~(t = s /\ v = u)
    <3>1. v \in held[t] /\ work'[t][v] = work[t][v]
      BY <1>4, <2>2 DEF IInv, TypeOK
    <3>2. QED
      BY <1>4, <3>1 DEF IInv, OwnWorkSound
  <2>3. QED
    BY <2>1, <2>2
<1>9. ASSUME NEW t \in Sessions PROVE Established(t)'
  <2>1. CASE t = s
    <3>1. /\ phase'[s] = "lookup" /\ call'[s][1] = u /\ u \in held'[s]
          /\ work'[s][u] = row /\ posts'[s] = posts[s]
          /\ seen'[s] = [available |-> row.available, reserved |-> row.reserved]
      BY <1>1, <1>4 DEF IInv, TypeOK
    <3>2. posts[s] < MaxPosts /\ moving'[s] # "coin"
      BY <1>4 DEF IInv, Established
    <3>3. QED
      BY <2>1, <3>1, <3>2 DEF Established
  <2>2. CASE t # s
    <3>1. /\ phase'[t] = phase[t] /\ call'[t] = call[t] /\ seen'[t] = seen[t]
          /\ held'[t] = held[t] /\ work'[t] = work[t] /\ posts'[t] = posts[t]
          /\ moving'[t] = moving[t]
      BY <1>4, <2>2 DEF IInv, TypeOK
    <3>2. QED
      BY <2>2, <3>1, OthersEstablished
  <2>3. QED
    BY <2>1, <2>2
<1>10. QED
  BY <1>5, <1>6, <1>7, <1>8, <1>9 DEF IInv

LEMMA LookupKeyIInv ==
    ASSUME IInv, NEW s \in Sessions, LookupKey(s)
    PROVE  IInv'
<1> USE DEF IInv, LookupKey
<1>1. TypeOK'
  BY DEF TypeOK, Phases
<1>2. AccountsSound' /\ LocksExclusive' /\ OwnWorkSound'
  BY DEF AccountsSound, LocksExclusive, OwnWorkSound
<1>3. ASSUME NEW t \in Sessions PROVE Established(t)'
  <2>1. CASE t = s
    BY <2>1 DEF Established, TypeOK
  <2>2. CASE t # s
    BY <2>2, OthersEstablished DEF TypeOK
  <2>3. QED
    BY <2>1, <2>2
<1>4. QED
  BY <1>1, <1>2, <1>3

LEMMA ApplyPostIInv ==
    ASSUME IInv, NEW s \in Sessions, ApplyPost(s)
    PROVE  IInv'
<1> DEFINE u == call[s][1]
           m == call[s][2]
           acc == work[s][u]
           new == Record(acc, m)
<1>1. /\ u \in Users /\ m \in Movements /\ m.dA \in Int /\ m.dR \in Int
      /\ u \in held[s]
  BY CallTyped DEF IInv, ApplyPost, Established
<1>2. /\ acc \in Accounts(Movements) /\ Sound(acc) /\ ~HasKey(acc, m.key)
      /\ account[u] \in Accounts(Movements) /\ Continues(account[u], acc)
  BY <1>1 DEF IInv, TypeOK, OwnWorkSound, ApplyPost, Established
<1>3. Covers(acc.available, acc.reserved, m)
  <2>1. seen[s] = [available |-> acc.available, reserved |-> acc.reserved]
    BY DEF IInv, ApplyPost, Established
  <2>2. QED
    BY <2>1 DEF ApplyPost
<1> HIDE DEF acc, m, u
<1>4. /\ new \in Accounts(Movements) /\ Sound(new) /\ Continues(acc, new)
      /\ HasKey(new, m.key) /\ SameMovement(new, m)
  BY <1>1, <1>2, <1>3, RecordSound
<1>5. Continues(account[u], new)
  BY <1>2, <1>4, ContinuesTransitive
<1>6. /\ phase[s] = "apply"
      /\ work' = [work EXCEPT ![s][u] = new]
      /\ phase' = [phase EXCEPT ![s] = "open"]
      /\ posts' = [posts EXCEPT ![s] = @ + 1]
      /\ UNCHANGED <<activeSystem, moving, account, call, seen, held>>
  <2>1. work' = [work EXCEPT ![s] = [@ EXCEPT ![u] = Record(work[s][u], m)]]
    BY <1>1 DEF ApplyPost, u, m, IInv, TypeOK
  <2>2. QED
    BY <2>1 DEF ApplyPost, acc
<1> HIDE DEF new
<1>7. TypeOK'
  <2>1. posts[s] < MaxPosts
    BY <1>6 DEF IInv, Established
  <2>2. posts' \in [Sessions -> 0 .. MaxPosts]
    BY <1>6, <2>1 DEF IInv, TypeOK
  <2>3. QED
    BY <1>1, <1>4, <1>6, <2>2 DEF IInv, TypeOK, Phases
<1>8. AccountsSound' /\ LocksExclusive'
  BY <1>6 DEF IInv, AccountsSound, LocksExclusive
<1>9. OwnWorkSound'
  <2> SUFFICES ASSUME NEW t \in Sessions, NEW v \in held'[t]
               PROVE  Sound(work'[t][v]) /\ Continues(account'[v], work'[t][v])
    BY DEF OwnWorkSound
  <2>1. CASE t = s /\ v = u
    BY <1>1, <1>4, <1>5, <1>6, <2>1 DEF IInv, TypeOK
  <2>2. CASE ~(t = s /\ v = u)
    <3>1. v \in held[t] /\ work'[t][v] = work[t][v]
      BY <1>6, <2>2 DEF IInv, TypeOK
    <3>2. QED
      BY <1>6, <3>1 DEF IInv, OwnWorkSound
  <2>3. QED
    BY <2>1, <2>2
<1>10. ASSUME NEW t \in Sessions PROVE Established(t)'
  <2>1. CASE t = s
    <3>1. /\ phase'[s] = "open" /\ call'[s][1] = u /\ call'[s][2] = m
          /\ u \in held'[s] /\ work'[s][u] = new
      BY <1>1, <1>6 DEF IInv, TypeOK, u, m
    <3>2. QED
      BY <1>4, <2>1, <3>1 DEF Established
  <2>2. CASE t # s
    <3>1. /\ phase'[t] = phase[t] /\ call'[t] = call[t] /\ seen'[t] = seen[t]
          /\ held'[t] = held[t] /\ work'[t] = work[t] /\ posts'[t] = posts[t]
          /\ moving'[t] = moving[t]
      BY <1>6, <2>2 DEF IInv, TypeOK
    <3>2. QED
      BY <2>2, <3>1, OthersEstablished
  <2>3. QED
    BY <2>1, <2>2
<1>11. QED
  BY <1>7, <1>8, <1>9, <1>10 DEF IInv

LEMMA CommitIInv ==
    ASSUME IInv, NEW s \in Sessions, Commit(s)
    PROVE  IInv'
<1>1. account' \in [Users -> Accounts(Movements)]
  BY DEF IInv, TypeOK, Commit
<1>2. \A u \in Users : Sound(account'[u])
  BY DEF IInv, AccountsSound, OwnWorkSound, Commit
<1>3. \A u \in Users \ held[s] : account'[u] = account[u]
  BY DEF Commit
<1>4. activeSystem' \in {"legacy", "coin"}
  BY DEF IInv, TypeOK, Commit
<1>5. QED
  BY <1>1, <1>2, <1>3, <1>4, EndTransactionIInv DEF Commit

LEMMA RollBackIInv ==
    ASSUME IInv, NEW s \in Sessions, RollBack(s)
    PROVE  IInv'
<1>1. /\ account' \in [Users -> Accounts(Movements)]
      /\ \A u \in Users : Sound(account'[u])
      /\ \A u \in Users \ held[s] : account'[u] = account[u]
      /\ activeSystem' \in {"legacy", "coin"}
  BY DEF IInv, TypeOK, AccountsSound, RollBack
<1>2. QED
  BY <1>1, EndTransactionIInv DEF RollBack

\* Every step of the ledger keeps its inductive invariant.
LEMMA NextIInv == IInv /\ [Next]_vars => IInv'
<1> SUFFICES ASSUME IInv, [Next]_vars PROVE IInv'
  OBVIOUS
<1>1. ASSUME NEW s \in Sessions, EnterMigration(s) \/ CompleteMigration(s)
      PROVE  IInv'
  BY <1>1, MigrationIInv
<1>2. CASE UNCHANGED vars
  BY <1>2 DEF vars, IInv, TypeOK, AccountsSound, LocksExclusive, OwnWorkSound,
              Established
<1>3. ASSUME NEW s \in Sessions, NEW u \in Users, NEW m \in Movements,
             CallPost(s, u, m)
      PROVE  IInv'
  BY <1>3, CallPostIInv
<1>4. ASSUME NEW s \in Sessions,
             \/ ReadFence(s) \/ LockAccount(s) \/ LookupKey(s) \/ ApplyPost(s)
             \/ Commit(s) \/ RollBack(s)
      PROVE  IInv'
  BY <1>4, ReadFenceIInv, LockAccountIInv, LookupKeyIInv, ApplyPostIInv,
     CommitIInv, RollBackIInv
<1>5. QED
  BY <1>1, <1>2, <1>3, <1>4 DEF Next

LEMMA InductiveInvariant == Spec => []IInv
  BY InitIInv, NextIInv, PTL DEF Spec

\* The state always has its type.
THEOREM TypeCorrect == Spec => []TypeOK
<1>1. IInv => TypeOK
  BY DEF IInv
<1>2. QED
  BY <1>1, InductiveInvariant, PTL

\* However sessions interleave, crash and retry, the balance row of every
\* account is the running sum of its entries, no balance is negative, and no
\* idempotency key was booked twice (coin_post_ledger_entry).
THEOREM AccountsAlwaysSound == Spec => []AccountsSound
<1>1. IInv => AccountsSound
  BY DEF IInv
<1>2. QED
  BY <1>1, InductiveInvariant, PTL

\* A posting that returned has been booked, for exactly the requested movement.
THEOREM RepliesAlwaysTruthful == Spec => []RepliesTruthful
<1>1. IInv => RepliesTruthful
  BY DEF IInv, Established, RepliesTruthful, HasKey, SameMovement
<1>2. QED
  BY <1>1, InductiveInvariant, PTL

-----------------------------------------------------------------------------
(* The fence                                                               *)

\* An account only a migration has written stays so when the row is booked
\* one more migration credit.
LEMMA RecordOnlyMigration ==
    ASSUME NEW acc \in Accounts(Movements), NEW m \in Movements,
           OnlyMigration(acc), m.op = "migration_credit"
    PROVE  OnlyMigration(Record(acc, m))
<1> DEFINE E == [move : Movements, availableAfter : Int, reservedAfter : Int]
           e == [move |-> m, availableAfter |-> acc.available + m.dA,
                 reservedAfter |-> acc.reserved + m.dR]
           new == Record(acc, m).entries
<1>1. acc.entries \in Seq(E) /\ new = Append(acc.entries, e) /\ e.move = m
  BY DEF Accounts, Record
<1>2. \A i \in DOMAIN new : new[i] = IF i \in DOMAIN acc.entries THEN acc.entries[i] ELSE e
  BY <1>1
<1>3. \A i \in DOMAIN new : new[i].move.op = "migration_credit"
  BY <1>1, <1>2 DEF OnlyMigration
<1>4. QED
  BY <1>3 DEF OnlyMigration

\* What the fence invariant says of one session.
SessionFenced(s) ==
    /\ \A u \in held[s] : OnlyMigration(work[s][u])
    /\ phase[s] \in {"lock", "lookup", "apply", "open"} => moving[s] # "no"
    /\ phase[s] \in {"lock", "lookup", "apply"} => call[s][2].op = "migration_credit"
    /\ moving[s] = "no" => \A u \in held[s] : work[s][u].entries = << >>

LEMMA FenceInvBySession ==
    FenceInv <=> (activeSystem = "legacy" =>
                    /\ \A u \in Users : account[u].entries = << >>
                    /\ \A s \in Sessions : SessionFenced(s))
  BY DEF FenceInv, SessionFenced

\* A step in which no other session moves and nothing is committed keeps the
\* fence invariant if it keeps it for the session that moves.
LEMMA FenceBySession ==
    ASSUME IInv, FenceInv, NEW s \in Sessions,
           activeSystem' = activeSystem, account' = account,
           \A t \in Sessions \ {s} :
               /\ phase'[t] = phase[t] /\ call'[t] = call[t] /\ held'[t] = held[t]
               /\ work'[t] = work[t] /\ moving'[t] = moving[t],
           activeSystem = "legacy" => SessionFenced(s)'
    PROVE  FenceInv'
  BY FenceInvBySession DEF SessionFenced, FenceInv, OnlyMigration

\* Every step keeps the fence invariant.
LEMMA NextFenceInv == IInv /\ FenceInv /\ [Next]_vars => FenceInv'
<1> SUFFICES ASSUME IInv, FenceInv, [Next]_vars, activeSystem' = "legacy"
             PROVE  FenceInv'
  BY DEF FenceInv
<1> USE DEF IInv
<1>1. CASE UNCHANGED vars
  BY <1>1 DEF vars, FenceInv, OnlyMigration
<1>2. ASSUME NEW s \in Sessions,
             \/ EnterMigration(s) \/ CompleteMigration(s)
             \/ \E u \in Users, m \in Movements : CallPost(s, u, m)
             \/ ReadFence(s) \/ LookupKey(s)
      PROVE  FenceInv'
  <2>1. activeSystem' = activeSystem /\ account' = account
    BY <1>2 DEF EnterMigration, CompleteMigration, CallPost, ReadFence, LookupKey
  <2>2. \A t \in Sessions \ {s} :
            /\ phase'[t] = phase[t] /\ call'[t] = call[t] /\ held'[t] = held[t]
            /\ work'[t] = work[t] /\ moving'[t] = moving[t]
    BY <1>2 DEF EnterMigration, CompleteMigration, CallPost, ReadFence, LookupKey, TypeOK
  <2>3. activeSystem = "legacy" => SessionFenced(s)
    BY FenceInvBySession
  <2>4. CASE EnterMigration(s) \/ CompleteMigration(s)
    <3>1. /\ call' = call /\ held' = held /\ work' = work /\ moving'[s] # "no"
          /\ phase'[s] \in {"begun", phase[s]}
      BY <2>4 DEF EnterMigration, CompleteMigration, TypeOK
    <3>2. QED
      BY <2>1, <2>2, <2>3, <3>1, FenceBySession DEF SessionFenced, OnlyMigration
  <2>5. CASE \E u \in Users, m \in Movements : CallPost(s, u, m)
    <3>1. held' = held /\ work' = work /\ moving' = moving /\ phase'[s] = "fence"
      BY <2>5 DEF CallPost, TypeOK
    <3>2. QED
      BY <2>1, <2>2, <2>3, <3>1, FenceBySession DEF SessionFenced, OnlyMigration
  <2>6. CASE ReadFence(s)
    <3>1. /\ held' = held /\ work' = work /\ moving' = moving /\ call' = call
          /\ phase'[s] = "lock"
      BY <2>6 DEF ReadFence, TypeOK
    <3>2. activeSystem = "legacy" =>
              \/ moving[s] = "coin"
              \/ moving[s] # "no" /\ call[s][2].op = "migration_credit"
      BY <2>6 DEF ReadFence, FenceOpen, SystemSeenBy
    <3>3. moving[s] # "coin"
      BY <2>6 DEF ReadFence, Established
    <3>4. QED
      BY <2>1, <2>2, <2>3, <3>1, <3>2, <3>3, FenceBySession DEF SessionFenced, OnlyMigration
  <2>7. CASE LookupKey(s)
    <3>1. /\ held' = held /\ work' = work /\ moving' = moving /\ call' = call
          /\ phase[s] = "lookup" /\ phase'[s] \in {"apply", "open"}
      BY <2>7 DEF LookupKey, TypeOK
    <3>2. QED
      BY <2>1, <2>2, <2>3, <3>1, FenceBySession DEF SessionFenced, OnlyMigration
  <2>8. QED
    BY <1>2, <2>4, <2>5, <2>6, <2>7
<1>3. ASSUME NEW s \in Sessions, LockAccount(s) PROVE FenceInv'
  <2> DEFINE u == call[s][1]
             row == IF u \in held[s] THEN work[s][u] ELSE account[u]
  <2>1. u \in Users
    BY <1>3, CallTyped DEF LockAccount
  <2>2. activeSystem = "legacy" /\ activeSystem' = activeSystem /\ account' = account
    BY <1>3 DEF LockAccount
  <2>3. SessionFenced(s) /\ account[u].entries = << >>
    BY <2>1, <2>2, FenceInvBySession
  <2>4. OnlyMigration(row) /\ (moving[s] = "no" => row.entries = << >>)
    BY <2>3 DEF SessionFenced, OnlyMigration
  <2> HIDE DEF row
  <2>5. /\ phase[s] = "lock"
        /\ phase' = [phase EXCEPT ![s] = "lookup"]
        /\ held' = [held EXCEPT ![s] = @ \cup {u}]
        /\ work' = [work EXCEPT ![s][u] = row]
        /\ UNCHANGED <<activeSystem, moving, account, call>>
    BY <1>3 DEF LockAccount, row
  <2>6. \A v \in held'[s] : work'[s][v] = IF v = u THEN row ELSE work[s][v]
    BY <2>1, <2>5 DEF TypeOK
  <2>7. \A v \in held'[s] : v # u => v \in held[s]
    BY <2>5 DEF TypeOK
  <2>8. SessionFenced(s)'
    BY <2>3, <2>4, <2>5, <2>6, <2>7 DEF SessionFenced, OnlyMigration, TypeOK
  <2>9. \A t \in Sessions \ {s} :
            /\ phase'[t] = phase[t] /\ call'[t] = call[t] /\ held'[t] = held[t]
            /\ work'[t] = work[t] /\ moving'[t] = moving[t]
    BY <2>5 DEF TypeOK
  <2>10. QED
    BY <2>2, <2>8, <2>9, FenceBySession
<1>4. ASSUME NEW s \in Sessions, ApplyPost(s) PROVE FenceInv'
  <2> DEFINE u == call[s][1]
             m == call[s][2]
             new == Record(work[s][u], m)
  <2>1. /\ u \in Users /\ m \in Movements /\ u \in held[s]
        /\ work[s][u] \in Accounts(Movements)
    <3>1. phase[s] = "apply" /\ Established(s)
      BY <1>4 DEF ApplyPost
    <3>2. u \in Users /\ m \in Movements /\ u \in held[s]
      BY <3>1, CallTyped DEF Established
    <3>3. QED
      BY <3>2 DEF TypeOK
  <2>2. activeSystem = "legacy" /\ activeSystem' = activeSystem /\ account' = account
    BY <1>4 DEF ApplyPost
  <2>3. SessionFenced(s) /\ phase[s] = "apply"
    BY <1>4, <2>2, FenceInvBySession DEF ApplyPost
  <2>4. OnlyMigration(new) /\ moving[s] # "no"
    BY <2>1, <2>3, RecordOnlyMigration DEF SessionFenced
  <2>5. /\ phase' = [phase EXCEPT ![s] = "open"]
        /\ work' = [work EXCEPT ![s] = [@ EXCEPT ![u] = new]]
        /\ UNCHANGED <<activeSystem, moving, account, call, held>>
    BY <1>4, <2>1 DEF ApplyPost, TypeOK
  <2> HIDE DEF new
  <2>6. \A v \in held[s] : work'[s][v] = IF v = u THEN new ELSE work[s][v]
    BY <2>1, <2>5 DEF TypeOK
  <2>7. SessionFenced(s)'
    BY <2>3, <2>4, <2>5, <2>6 DEF SessionFenced, OnlyMigration, TypeOK
  <2>8. \A t \in Sessions \ {s} :
            /\ phase'[t] = phase[t] /\ call'[t] = call[t] /\ held'[t] = held[t]
            /\ work'[t] = work[t] /\ moving'[t] = moving[t]
    BY <2>5 DEF TypeOK
  <2>9. QED
    BY <2>2, <2>7, <2>8, FenceBySession
<1>5. ASSUME NEW s \in Sessions, Commit(s) \/ RollBack(s) PROVE FenceInv'
  <2>1. /\ phase'[s] = "idle" /\ moving'[s] = "no" /\ held'[s] = {}
        /\ \A t \in Sessions \ {s} :
              /\ phase'[t] = phase[t] /\ call'[t] = call[t] /\ held'[t] = held[t]
              /\ work'[t] = work[t] /\ moving'[t] = moving[t]
    BY <1>5 DEF Commit, RollBack, EndTransaction, TypeOK
  <2>2. SessionFenced(s)'
    BY <2>1 DEF SessionFenced, OnlyMigration
  <2>3. RollBack(s)
    <3>1. ASSUME Commit(s) PROVE FALSE
      <4>1. phase[s] = "open" /\ moving[s] = "no" /\ activeSystem = "legacy"
        BY <3>1 DEF Commit, TypeOK
      <4>2. QED
        BY <4>1 DEF FenceInv
    <3>2. QED
      BY <1>5, <3>1
  <2>4. activeSystem' = activeSystem /\ account' = account
    BY <2>3 DEF RollBack
  <2>5. QED
    BY <2>1, <2>2, <2>4, FenceBySession
<1>6. QED
  BY <1>1, <1>2, <1>3, <1>4, <1>5 DEF Next

\* Until the cutover commits, the Coin ledger stays empty and only the cutover
\* posts to it, migration credits and nothing else.
THEOREM FenceAlwaysHolds == Spec => []FenceHolds
<1>1. Init => FenceInv
  BY DEF Init, FenceInv, OnlyMigration, EmptyAccount
<1>2. IInv /\ FenceInv => FenceHolds
  <2> SUFFICES ASSUME IInv, FenceInv, activeSystem = "legacy",
                      NEW s \in Sessions, NEW u \in held[s],
                      NEW i \in DOMAIN work[s][u].entries
               PROVE  /\ moving[s] # "no"
                      /\ work[s][u].entries[i].move.op = "migration_credit"
    BY DEF FenceHolds, FenceInv
  <2>1. work[s][u].entries # << >>
    OBVIOUS
  <2>2. QED
    BY <2>1 DEF FenceInv, OnlyMigration
<1>3. QED
  BY <1>1, <1>2, NextFenceInv, InductiveInvariant, PTL DEF Spec

-----------------------------------------------------------------------------
(* The refinement                                                          *)

\* Every step of the ledger continues every committed account, or leaves it.
LEMMA StepGrows == IInv /\ IInv' /\ [Next]_vars => [Book!Grow]_account
<1> SUFFICES ASSUME IInv, IInv', [Next]_vars, account' # account
             PROVE  Book!Grow
  OBVIOUS
<1>1. PICK s \in Sessions : Commit(s)
  BY DEF Next, vars, EnterMigration, CompleteMigration, CallPost, ReadFence, LockAccount, LookupKey,
         ApplyPost, RollBack
<1>2. ASSUME NEW u \in Users
      PROVE  Continues(account[u], account'[u]) /\ Sound(account'[u])
  <2>1. Sound(account'[u])
    BY DEF IInv, AccountsSound
  <2>2. CASE u \in held[s]
    BY <1>1, <2>1, <2>2 DEF IInv, OwnWorkSound, Commit
  <2>3. CASE u \notin held[s]
    <3>1. account'[u] = account[u] /\ account[u] \in Accounts(Movements)
      BY <1>1, <2>3 DEF Commit, IInv, TypeOK
    <3>2. Len(account[u].entries) \in Nat
      BY <3>1 DEF Accounts
    <3>3. QED
      BY <2>1, <3>1, <3>2 DEF Continues
  <2>4. QED
    BY <2>2, <2>3
<1>3. QED
  BY <1>2 DEF Book!Grow, Book!Continues, Continues, Book!Sound, Sound,
     Book!Chained, Chained, Book!KeysUnique, KeysUnique, Book!Covered, Covered,
     Book!AvailableAfter, AvailableAfter, Book!ReservedAfter, ReservedAfter

\* The interleaved, crashing ledger implements the atomic append-only book.
THEOREM LedgerImplementsBook == Spec => ImplementsBook
<1>1. Init => Book!Init
  BY DEF Init, Book!Init, EmptyAccount, Book!EmptyAccount
<1>2. QED
  BY <1>1, StepGrows, InductiveInvariant, PTL DEF Spec, ImplementsBook, Book!Spec

-----------------------------------------------------------------------------
(* The cutover, which moves every legacy balance into the ledger, is       *)
(* atomic, credits once and freezes the legacy ledger, for any number of   *)
(* users, legacy writers and concurrent runs.                              *)

\* Why the legacy ledger is frozen: table locks and fence leave no writer behind.
CutoverInv ==
    /\ CutoverTypeOK
    /\ CutoverAtomic
    /\ EvidenceMatches
    /\ system = "coin" => NoWriters
    /\ \A r \in Runs : run[r] = "locked" => NoWriters

USE CutoverAssumption

LEMMA CutoverStarts == CutoverInit => CutoverInv
<1> SUFFICES ASSUME CutoverInit PROVE CutoverInv
  OBVIOUS
<1>1. CutoverTypeOK
  BY DEF CutoverInit, CutoverTypeOK, Snapshots, Amounts, NoAmounts
<1>2. CutoverAtomic /\ EvidenceMatches
  BY DEF CutoverInit, CutoverAtomic, EvidenceMatches, NoAmounts
<1>3. QED
  BY <1>1, <1>2 DEF CutoverInit, CutoverInv, NoWriters

\* A step of a legacy writer.
LEMMA WriterStep ==
    ASSUME CutoverInv, NEW w \in Writers,
           \/ \E u \in Holders : InsertLegacyEntry(w, u)
           \/ CommitLegacyEntry(w) \/ RollBackLegacyEntry(w)
    PROVE  CutoverInv'
<1>1. UNCHANGED <<system, pending, run, snap, marker, evidence, completed>>
  BY DEF InsertLegacyEntry, CommitLegacyEntry, RollBackLegacyEntry
<1>2. legacy' \in [Holders -> Nat] /\ writer' \in [Writers -> Holders \cup {None}]
  BY DEF InsertLegacyEntry, CommitLegacyEntry, RollBackLegacyEntry, CutoverInv,
         CutoverTypeOK
<1>3. CutoverTypeOK'
  BY <1>1, <1>2 DEF CutoverInv, CutoverTypeOK
<1>4. CutoverAtomic' /\ EvidenceMatches'
  BY <1>1 DEF CutoverInv, CutoverAtomic, EvidenceMatches, NoAmounts
<1>5. NoWriters => NoWriters' \/ (system = "legacy" /\ TablesFree)
  BY DEF InsertLegacyEntry, CommitLegacyEntry, RollBackLegacyEntry, NoWriters
<1>6. QED
  BY <1>1, <1>3, <1>4, <1>5 DEF CutoverInv, TablesFree

\* A step that moves a run, or the pending work, and no balance.
LEMMA QuietStep ==
    ASSUME CutoverInv,
           UNCHANGED <<system, legacy, writer, marker, evidence>>,
           pending' \in BOOLEAN, completed' \in BOOLEAN,
           run' \in [Runs -> {"idle", "inspected", "advisory", "tables", "locked", "applied"}],
           snap' \in [Runs -> Snapshots],
           \A r \in Runs : run'[r] = "locked" => run[r] = "locked" \/ NoWriters,
           completed' => completed \/ evidence # NoAmounts
    PROVE  CutoverInv'
<1>1. CutoverTypeOK'
  BY DEF CutoverInv, CutoverTypeOK
<1>2. CutoverAtomic' /\ EvidenceMatches'
  BY DEF CutoverInv, CutoverAtomic, EvidenceMatches, NoAmounts
<1>3. QED
  BY <1>1, <1>2 DEF CutoverInv, NoWriters

\* The step that credits everybody.
LEMMA MigrateStep ==
    ASSUME CutoverInv, NEW r \in Runs, Migrate(r)
    PROVE  CutoverInv'
<1>1. system = "legacy" /\ NoWriters /\ \A u \in Holders : marker[u] = None
  BY DEF Migrate, StateUnchanged, At, CutoverInv, CutoverAtomic
<1>2. marker' = snap[r].legacy /\ marker' \in [Holders -> Nat]
  <2>1. snap[r].legacy \in [Holders -> Nat]
    BY DEF CutoverInv, CutoverTypeOK, Snapshots
  <2>2. QED
    BY <1>1, <2>1 DEF Migrate, Credited
<1>3. evidence = NoAmounts /\ ~completed
  BY <1>1 DEF CutoverInv, EvidenceMatches
<1>4. evidence' \in {NoAmounts, marker'}
  BY <1>2, <1>3 DEF Migrate, Credited, Evidence
<1>5. CutoverTypeOK'
  BY <1>2, <1>4 DEF Migrate, At, AfterApply, CutoverInv, CutoverTypeOK, Amounts, NoAmounts
<1>6. CutoverAtomic'
  BY <1>2 DEF Migrate, CutoverAtomic
<1>7. EvidenceMatches'
  BY <1>3, <1>4 DEF Migrate, EvidenceMatches, NoAmounts
<1>8. NoWriters'
  BY <1>1 DEF Migrate, NoWriters
<1>9. QED
  BY <1>5, <1>6, <1>7, <1>8 DEF CutoverInv

LEMMA CutoverGoesOn == CutoverInv /\ [CutoverNext]_cutoverVars => CutoverInv'
<1> SUFFICES ASSUME CutoverInv, [CutoverNext]_cutoverVars PROVE CutoverInv'
  OBVIOUS
<1>1. CASE UNCHANGED cutoverVars
  BY <1>1, QuietStep DEF cutoverVars, CutoverInv, CutoverTypeOK
<1>2. CASE ChangePending
  BY <1>2, QuietStep DEF ChangePending, CutoverInv, CutoverTypeOK
<1>3. ASSUME NEW w \in Writers,
             \/ \E u \in Holders : InsertLegacyEntry(w, u)
             \/ CommitLegacyEntry(w) \/ RollBackLegacyEntry(w)
      PROVE  CutoverInv'
  BY <1>3, WriterStep
<1>4. ASSUME NEW r \in Runs,
             \/ Inspect(r) \/ BeginApply(r)
             \/ TakeAdvisoryLock(r) \/ LockTables(r)
             \/ FindMigrated(r) \/ Finalize(r) \/ Fail(r)
      PROVE  CutoverInv'
  <2>1. UNCHANGED <<system, legacy, writer, marker, evidence>> /\ pending' \in BOOLEAN
    BY <1>4 DEF Inspect, BeginApply, TakeAdvisoryLock, LockTables, FindMigrated, Finalize,
                Fail, CutoverInv, CutoverTypeOK
  <2>2. completed' \in BOOLEAN /\ (completed' => completed \/ evidence # NoAmounts)
    BY <1>4 DEF Inspect, BeginApply, TakeAdvisoryLock, LockTables, FindMigrated, Finalize,
                EvidenceFound, Fail, CutoverInv, CutoverTypeOK
  <2>3. snap' \in [Runs -> Snapshots]
    <3>1. [legacy |-> legacy, pending |-> pending, system |-> system] \in Snapshots
      BY DEF CutoverInv, CutoverTypeOK, Snapshots
    <3>2. QED
      BY <1>4, <3>1 DEF Inspect, BeginApply, TakeAdvisoryLock, LockTables, FindMigrated,
                        Finalize, Fail, CutoverInv, CutoverTypeOK
  <2>4. run' \in [Runs -> {"idle", "inspected", "advisory", "tables", "locked", "applied"}]
    BY <1>4 DEF Inspect, BeginApply, TakeAdvisoryLock, LockTables, FindMigrated, Finalize,
                Fail, At, AfterApply, CutoverInv, CutoverTypeOK
  <2>5. \A t \in Runs : run'[t] = "locked" => run[t] = "locked" \/ NoWriters
    BY <1>4 DEF Inspect, BeginApply, TakeAdvisoryLock, LockTables, FindMigrated, Finalize,
                Fail, At, AfterApply, CutoverInv, CutoverTypeOK
  <2>6. QED
    BY <2>1, <2>2, <2>3, <2>4, <2>5, QuietStep
<1>5. ASSUME NEW r \in Runs, Migrate(r) PROVE CutoverInv'
  BY <1>5, MigrateStep
<1>6. QED
  BY <1>1, <1>2, <1>3, <1>4, <1>5 DEF CutoverNext

LEMMA CutoverInvariant == CutoverSpec => []CutoverInv
  BY CutoverStarts, CutoverGoesOn, PTL DEF CutoverSpec

\* Fence, credits and markers of the cutover commit together or not at all
\* (applyMigration is one transaction, whatever runs beside it or dies in it).
THEOREM CutoverIsAtomic == CutoverSpec => []CutoverAtomic
<1>1. CutoverInv => CutoverAtomic
  BY DEF CutoverInv
<1>2. QED
  BY <1>1, CutoverInvariant, PTL

\* A recorded completion attests exactly the credits that were made.
THEOREM EvidenceAlwaysMatches == CutoverSpec => []EvidenceMatches
<1>1. CutoverInv => EvidenceMatches
  BY DEF CutoverInv
<1>2. QED
  BY <1>1, CutoverInvariant, PTL

\* No legacy writer commits after the cutover (enforce_legacy_money_fence
\* together with the table locks of applyMigration).
THEOREM LegacyIsFrozen == CutoverSpec => LegacyFrozen
<1>1. CutoverInv /\ [CutoverNext]_cutoverVars =>
          [system = "coin" => legacy' = legacy]_cutoverVars
  <2> SUFFICES ASSUME CutoverInv, [CutoverNext]_cutoverVars, system = "coin"
               PROVE  legacy' = legacy
    OBVIOUS
  <2>1. ~ \E w \in Writers : CommitLegacyEntry(w)
    BY DEF CutoverInv, NoWriters, CommitLegacyEntry
  <2>2. QED
    BY <2>1 DEF CutoverNext, cutoverVars, InsertLegacyEntry, RollBackLegacyEntry,
                ChangePending, Inspect, BeginApply, TakeAdvisoryLock, LockTables, Migrate,
                FindMigrated, Finalize, Fail
<1>2. QED
  BY <1>1, CutoverInvariant, PTL DEF CutoverSpec, LegacyFrozen

\* Repeated, concurrent and restarted runs of the migration credit nobody twice
\* and never touch the fence or the evidence again.
THEOREM OnlyCreditedOnce == CutoverSpec => CreditedOnce
<1>1. [CutoverNext]_cutoverVars =>
          [system = "coin" => UNCHANGED <<system, marker, evidence>>]_cutoverVars
  BY DEF CutoverNext, cutoverVars, InsertLegacyEntry, CommitLegacyEntry,
         RollBackLegacyEntry, ChangePending, Inspect, BeginApply, TakeAdvisoryLock,
         LockTables, Migrate, StateUnchanged, FindMigrated, Finalize, Fail
<1>2. QED
  BY <1>1, PTL DEF CutoverSpec, CreditedOnce
=============================================================================
