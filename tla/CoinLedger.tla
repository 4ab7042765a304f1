----------------------------- MODULE CoinLedger -----------------------------
(***************************************************************************)
(* The Coin ledger as PostgreSQL runs it: sessions (READ COMMITTED         *)
(* transactions of the API, the workers and the migration) call            *)
(* coin_post_ledger_entry one or more times and then commit or roll back.  *)
(* The statements of the function are separate steps:                      *)
(*                                                                         *)
(*   ReadFence    select active_system                                     *)
(*   LockAccount  insert .. on conflict do nothing; select .. for update   *)
(*   LookupKey    select the entry with this idempotency key               *)
(*   ApplyPost    balance test, update of the cached row, insert of entry  *)
(*                                                                         *)
(* A session's writes are visible to itself only ("work") until Commit.    *)
(* RollBack stands for a thrown error, a lost connection, a crash of the   *)
(* process and the victim of a database deadlock: it is always possible.   *)
(* The table's unique (account_id, idempotency_key) and balance >= 0       *)
(* constraints are not guards here: that they never have to fire is what   *)
(* the invariants say.                                                     *)
(***************************************************************************)
EXTENDS CoinPosting

CONSTANTS
    Users,          \* account owners
    Sessions,       \* database sessions
    Movements,      \* the movements callers may ask for
    MaxPosts        \* bound: postings of one transaction

ASSUME LedgerAssumption ==
    /\ MaxPosts \in Nat \ {0}
    /\ \A m \in Movements : /\ m.op \in Operations
                            /\ m.dA \in Int
                            /\ m.dR \in Int

VARIABLES
    activeSystem,   \* money_system_state.active_system, as committed
    moving,         \* the cutover's own, uncommitted update of active_system
    account,        \* committed accounts with their entries
    phase,          \* where each session stands in the function
    call,           \* the argument of the session's current call
    seen,           \* v_account: the balances read by the row lock statement
    held,           \* the accounts whose row lock the session holds
    work,           \* the session's own version of the accounts it holds
    posts           \* postings made by the session's open transaction

vars == <<activeSystem, moving, account, phase, call, seen, held, work, posts>>

Phases == {"idle", "begun", "fence", "lock", "lookup", "apply", "open"}

NoSeen == [available |-> 0, reserved |-> 0]

TypeOK ==
    /\ activeSystem \in {"legacy", "coin"}
    /\ moving \in [Sessions -> {"no", "migrating", "coin"}]
    /\ account \in [Users -> Accounts(Movements)]
    /\ phase \in [Sessions -> Phases]
    /\ call \in [Sessions -> (Users \X Movements) \cup {<< >>}]
    /\ \A s \in Sessions : phase[s] \notin {"idle", "begun"} => call[s] # << >>
    /\ seen \in [Sessions -> [available : Int, reserved : Int]]
    /\ held \in [Sessions -> SUBSET Users]
    /\ work \in [Sessions -> [Users -> Accounts(Movements)]]
    /\ posts \in [Sessions -> 0 .. MaxPosts]

Init ==
    /\ activeSystem = "legacy"
    /\ moving = [s \in Sessions |-> "no"]
    /\ account = [u \in Users |-> EmptyAccount]
    /\ phase = [s \in Sessions |-> "idle"]
    /\ call = [s \in Sessions |-> << >>]
    /\ seen = [s \in Sessions |-> NoSeen]
    /\ held = [s \in Sessions |-> {}]
    /\ work = [s \in Sessions |-> [u \in Users |-> EmptyAccount]]
    /\ posts = [s \in Sessions |-> 0]

-----------------------------------------------------------------------------
\* The session's transaction is gone, and with it its locks and its writes.
EndTransaction(s) ==
    /\ phase' = [phase EXCEPT ![s] = "idle"]
    /\ moving' = [moving EXCEPT ![s] = "no"]
    /\ call' = [call EXCEPT ![s] = << >>]
    /\ seen' = [seen EXCEPT ![s] = NoSeen]
    /\ held' = [held EXCEPT ![s] = {}]
    /\ work' = [work EXCEPT ![s] = [u \in Users |-> EmptyAccount]]
    /\ posts' = [posts EXCEPT ![s] = 0]

\* applyMigration moves the fence inside its own transaction, which holds the
\* row of money_system_state: nobody else sees 'migrating' ...
EnterMigration(s) ==
    /\ phase[s] = "idle"
    /\ activeSystem = "legacy"
    /\ \A t \in Sessions : moving[t] = "no"
    /\ phase' = [phase EXCEPT ![s] = "begun"]
    /\ moving' = [moving EXCEPT ![s] = "migrating"]
    /\ UNCHANGED <<activeSystem, account, call, seen, held, work, posts>>

\* ... and, its credits posted, completes the cutover.
CompleteMigration(s) ==
    /\ phase[s] \in {"begun", "open"}
    /\ moving[s] = "migrating"
    /\ moving' = [moving EXCEPT ![s] = "coin"]
    /\ UNCHANGED <<activeSystem, account, phase, call, seen, held, work, posts>>

\* A transaction calls the function: its first posting, or one more.
CallPost(s, u, m) ==
    /\ phase[s] \in {"idle", "begun", "open"}
    /\ moving[s] # "coin"
    /\ posts[s] < MaxPosts
    /\ phase' = [phase EXCEPT ![s] = "fence"]
    /\ call' = [call EXCEPT ![s] = <<u, m>>]
    /\ UNCHANGED <<activeSystem, moving, account, seen, held, work, posts>>

\* What the session reads in money_system_state.
SystemSeenBy(s) == IF moving[s] = "no" THEN activeSystem ELSE moving[s]

\* COIN_CUTOVER_INCOMPLETE ends the transaction (RollBack).
ReadFence(s) ==
    /\ phase[s] = "fence"
    /\ FenceOpen(SystemSeenBy(s), call[s][2].op)
    /\ phase' = [phase EXCEPT ![s] = "lock"]
    /\ UNCHANGED <<activeSystem, moving, account, call, seen, held, work, posts>>

\* (mutant) The select has no "for update".
LockIgnored(s, u) == TRUE

\* No other open transaction holds the row lock on u.
LockFree(s, u) == \A t \in Sessions \ {s} : u \notin held[t]

\* Creates the account row if it is missing, waits for the row lock, and reads
\* the row: the latest committed one, or the transaction's own if it wrote it.
LockAccount(s) ==
    LET u == call[s][1]
        row == IF u \in held[s] THEN work[s][u] ELSE account[u]
    IN  /\ phase[s] = "lock"
        /\ LockFree(s, u)
        /\ phase' = [phase EXCEPT ![s] = "lookup"]
        /\ held' = [held EXCEPT ![s] = @ \cup {u}]
        /\ work' = [work EXCEPT ![s][u] = row]
        /\ seen' = [seen EXCEPT ![s] = [available |-> row.available,
                                        reserved |-> row.reserved]]
        /\ UNCHANGED <<activeSystem, moving, account, call, posts>>

\* A key already booked for this very movement: the existing entry is returned.
\* COIN_IDEMPOTENCY_KEY_REUSE_MISMATCH ends the transaction (RollBack).
LookupKey(s) ==
    LET u == call[s][1]
        m == call[s][2]
    IN  /\ phase[s] = "lookup"
        /\ \/ /\ ~HasKey(work[s][u], m.key)
              /\ phase' = [phase EXCEPT ![s] = "apply"]
           \/ /\ HasKey(work[s][u], m.key)
              /\ SameMovement(work[s][u], m)
              /\ phase' = [phase EXCEPT ![s] = "open"]
        /\ UNCHANGED <<activeSystem, moving, account, call, seen, held, work, posts>>

\* The test is on the balances read with the lock, the update on the row.
\* INSUFFICIENT_COIN_BALANCE and the CHECKs end the transaction (RollBack).
ApplyPost(s) ==
    LET u == call[s][1]
        m == call[s][2]
    IN  /\ phase[s] = "apply"
        /\ Covers(seen[s].available, seen[s].reserved, m)
        /\ ShapeOK(m)
        /\ work' = [work EXCEPT ![s][u] = Record(@, m)]
        /\ phase' = [phase EXCEPT ![s] = "open"]
        /\ posts' = [posts EXCEPT ![s] = @ + 1]
        /\ UNCHANGED <<activeSystem, moving, account, call, seen, held>>

Commit(s) ==
    /\ phase[s] = "open" \/ moving[s] = "coin"
    /\ moving[s] # "migrating"
    /\ activeSystem' = IF moving[s] = "coin" THEN "coin" ELSE activeSystem
    /\ account' = [u \in Users |-> IF u \in held[s] THEN work[s][u] ELSE account[u]]
    /\ EndTransaction(s)

RollBack(s) ==
    /\ phase[s] # "idle"
    /\ EndTransaction(s)
    /\ UNCHANGED <<activeSystem, account>>

Next ==
    \E s \in Sessions :
        \/ EnterMigration(s)
        \/ CompleteMigration(s)
        \/ \E u \in Users, m \in Movements : CallPost(s, u, m)
        \/ ReadFence(s)
        \/ LockAccount(s)
        \/ LookupKey(s)
        \/ ApplyPost(s)
        \/ Commit(s)
        \/ RollBack(s)

Spec == Init /\ [][Next]_vars

-----------------------------------------------------------------------------
(* Properties                                                              *)

\* The cached balance of every account is what its entries add up to, entry by
\* entry, although several sessions read, test and update it in interleaved
\* statements (reconcileCoins: coin_cache_vs_ledger, coin_entry_running_balance);
\* no balance is negative and no idempotency key was booked twice.
AccountsSound == \A u \in Users : Sound(account[u])

\* A call that returned to its transaction can rely on the answer: the ledger
\* the transaction sees holds exactly the movement it asked for, also when the
\* key was already booked by somebody else.
RepliesTruthful ==
    \A s \in Sessions :
        phase[s] = "open" =>
            /\ call[s][1] \in held[s]
            /\ \E i \in DOMAIN work[s][call[s][1]].entries :
                  work[s][call[s][1]].entries[i].move = call[s][2]

\* Until the cutover commits, the Coin ledger is empty for everybody, and the
\* only postings under way are the cutover's own migration credits, also when
\* the fence was read long before the posting is committed.
FenceHolds ==
    activeSystem = "legacy" =>
        /\ \A u \in Users : account[u].entries = << >>
        /\ \A s \in Sessions : \A u \in held[s] :
              \A i \in DOMAIN work[s][u].entries :
                  /\ moving[s] # "no"
                  /\ work[s][u].entries[i].move.op = "migration_credit"

-----------------------------------------------------------------------------
(* The inductive invariant: why the properties hold.                       *)

\* Row locks exclude each other.
LocksExclusive ==
    \A s, t \in Sessions : s # t => held[s] \cap held[t] = {}

\* While a session holds an account, its version continues the committed one.
OwnWorkSound ==
    \A s \in Sessions : \A u \in held[s] :
        Sound(work[s][u]) /\ Continues(account[u], work[s][u])

\* What the statements of the function executed so far have established.
Established(s) ==
    LET acc == work[s][call[s][1]]
        m   == call[s][2]
    IN  /\ phase[s] \in {"idle", "begun"} => held[s] = {}
        /\ phase[s] \in {"fence", "lock", "lookup", "apply"} =>
              posts[s] < MaxPosts /\ moving[s] # "coin"
        /\ phase[s] \in {"lookup", "apply", "open"} => call[s][1] \in held[s]
        /\ phase[s] \in {"lookup", "apply"} =>
              seen[s] = [available |-> acc.available, reserved |-> acc.reserved]
        /\ phase[s] = "apply" => ~HasKey(acc, m.key)
        /\ phase[s] = "open" => HasKey(acc, m.key) /\ SameMovement(acc, m)

IInv ==
    /\ TypeOK
    /\ AccountsSound
    /\ LocksExclusive
    /\ OwnWorkSound
    /\ \A s \in Sessions : Established(s)

\* All entries of an account are migration credits.
OnlyMigration(acc) ==
    \A i \in DOMAIN acc.entries : acc.entries[i].move.op = "migration_credit"

\* The fence, for the writes under way as well as for the committed ones.
FenceInv ==
    activeSystem = "legacy" =>
        /\ \A u \in Users : account[u].entries = << >>
        /\ \A s \in Sessions :
              /\ \A u \in held[s] : OnlyMigration(work[s][u])
              /\ phase[s] \in {"lock", "lookup", "apply", "open"} => moving[s] # "no"
              /\ phase[s] \in {"lock", "lookup", "apply"} =>
                    call[s][2].op = "migration_credit"
              /\ moving[s] = "no" => \A u \in held[s] : work[s][u].entries = << >>

\* The interleaved ledger implements the atomic, append-only book.
Book == INSTANCE CoinBook WITH book <- account
ImplementsBook == Book!Spec
=============================================================================
