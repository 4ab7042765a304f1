----------------------------- MODULE CoinCutover -----------------------------
(***************************************************************************)
(* The one-time cutover from the legacy dollar ledger to Coins             *)
(* (scripts/coinsMigration.ts, scripts/productionCoinCutover.ts), while    *)
(* legacy writers are still running.                                       *)
(*                                                                         *)
(* applyMigration is a SERIALIZABLE transaction: its snapshot is fixed by  *)
(* its first query, the one that waits for the advisory lock, and every    *)
(* later query reads that snapshot.  Only then does it lock the legacy     *)
(* tables (waiting for the writers under way), lock the row of             *)
(* money_system_state, check, credit and commit.  A legacy writer is a     *)
(* READ COMMITTED transaction that inserts a ledger entry (the trigger     *)
(* reads the fence at that moment) and commits later.                      *)
(*                                                                         *)
(* A run is one execution of the migration script, with (Production) or    *)
(* without the production driver around it: fast path, inspection, apply,  *)
(* finalisation are separate transactions, and the process can die between *)
(* any two.  Balances are whole units: the exact decimal conversion and    *)
(* the checks of its precision are abstracted.                             *)
(***************************************************************************)
EXTENDS Naturals

CONSTANTS
    Holders,        \* users with a legacy balance, of zero at least
    Writers,        \* legacy writer transactions
    Runs,           \* executions of the migration
    Production,     \* those started by the production driver
    MaxLegacy,      \* bound: a user's legacy balance
    None

ASSUME CutoverAssumption ==
    /\ Holders # {}
    /\ Production \subseteq Runs
    /\ MaxLegacy \in Nat
    /\ None \notin Nat
    /\ None \notin Holders

VARIABLES
    system,         \* money_system_state.active_system
    legacy,         \* each user's committed legacy balance
    pending,        \* is a legacy deposit or withdrawal still pending?
    writer,         \* whose entry a writer has inserted and not yet committed
    run,            \* where each run stands
    snap,           \* what a run's serializable snapshot shows
    marker,         \* coin_migration_markers: the amount credited per user
    evidence,       \* coin_cutover_balance_snapshots of the release
    completed       \* coin_production_cutover_completions

cutoverVars == <<system, legacy, pending, writer, run, snap, marker, evidence, completed>>

Amounts == [Holders -> Nat \cup {None}]
NoAmounts == [u \in Holders |-> None]

\* All a run reads: the legacy balances, the pending work, the fence.
Snapshots == [legacy : [Holders -> Nat], pending : BOOLEAN, system : {"legacy", "coin"}]

CutoverTypeOK ==
    /\ system \in {"legacy", "coin"}
    /\ legacy \in [Holders -> Nat]
    /\ pending \in BOOLEAN
    /\ writer \in [Writers -> Holders \cup {None}]
    /\ run \in [Runs -> {"idle", "inspected", "advisory", "tables", "locked", "applied"}]
    /\ snap \in [Runs -> Snapshots]
    /\ marker \in Amounts
    /\ evidence \in Amounts
    /\ completed \in BOOLEAN

CutoverInit ==
    /\ system = "legacy"
    /\ legacy = [u \in Holders |-> 0]
    /\ pending = FALSE
    /\ writer = [w \in Writers |-> None]
    /\ run = [r \in Runs |-> "idle"]
    /\ snap = [r \in Runs |-> [legacy |-> legacy, pending |-> FALSE, system |-> "legacy"]]
    /\ marker = NoAmounts
    /\ evidence = NoAmounts
    /\ completed = FALSE

-----------------------------------------------------------------------------
(* Legacy writers                                                          *)

\* No run holds the SHARE ROW EXCLUSIVE locks on the legacy tables.
TablesFree == \A r \in Runs : run[r] # "locked"

\* The insert takes the table lock; then the trigger asks for the fence.
InsertLegacyEntry(w, u) ==
    /\ writer[w] = None
    /\ legacy[u] < MaxLegacy
    /\ TablesFree
    /\ system = "legacy"
    /\ writer' = [writer EXCEPT ![w] = u]
    /\ UNCHANGED <<system, legacy, pending, run, snap, marker, evidence, completed>>

CommitLegacyEntry(w) ==
    /\ writer[w] # None
    /\ legacy' = [legacy EXCEPT ![writer[w]] = @ + 1]
    /\ writer' = [writer EXCEPT ![w] = None]
    /\ UNCHANGED <<system, pending, run, snap, marker, evidence, completed>>

RollBackLegacyEntry(w) ==
    /\ writer[w] # None
    /\ writer' = [writer EXCEPT ![w] = None]
    /\ UNCHANGED <<system, legacy, pending, run, snap, marker, evidence, completed>>

\* A legacy deposit or withdrawal appears, or the last one is drained.
ChangePending ==
    /\ system = "legacy"
    /\ TablesFree
    /\ pending' = ~pending
    /\ UNCHANGED <<system, legacy, writer, run, snap, marker, evidence, completed>>

-----------------------------------------------------------------------------
(* The migration                                                           *)

At(r, from, to) == run[r] = from /\ run' = [run EXCEPT ![r] = to]

\* The driver found no completion and a safe inspection.
Inspect(r) ==
    /\ r \in Production
    /\ ~completed
    /\ ~pending
    /\ At(r, "idle", "inspected")
    /\ UNCHANGED <<system, legacy, pending, writer, snap, marker, evidence, completed>>

\* begin isolation level serializable; select pg_advisory_xact_lock(...):
\* the snapshot is what is committed when this query starts to wait.
BeginApply(r) ==
    /\ At(r, IF r \in Production THEN "inspected" ELSE "idle", "advisory")
    /\ snap' = [snap EXCEPT ![r] =
                    [legacy |-> legacy, pending |-> pending, system |-> system]]
    /\ UNCHANGED <<system, legacy, pending, writer, marker, evidence, completed>>

TakeAdvisoryLock(r) ==
    /\ \A t \in Runs : run[t] \notin {"tables", "locked"}
    /\ At(r, "advisory", "tables")
    /\ UNCHANGED <<system, legacy, pending, writer, snap, marker, evidence, completed>>

\* (mutant) The tables are not locked.
WritersIgnored == TRUE

\* lock table ... in share row exclusive mode.
NoWriters == \A w \in Writers : writer[w] = None

LockTables(r) ==
    /\ NoWriters
    /\ At(r, "tables", "locked")
    /\ UNCHANGED <<system, legacy, pending, writer, snap, marker, evidence, completed>>

\* (mutant) The row of money_system_state is not locked.
StateIgnored(r) == TRUE

\* select .. for update fails to serialize if the row changed since the snapshot.
StateUnchanged(r) == snap[r].system = system

\* The production driver goes on to finalise.
AfterApply(r) == IF r \in Production THEN "applied" ELSE "idle"

\* (mutant) Users without a balance get no marker.
CreditedHolders(r) ==
    [u \in Holders |-> IF snap[r].legacy[u] > 0 THEN snap[r].legacy[u] ELSE None]

\* migrateRow: one credit, and its marker, for every user that has none.
Credited(r) ==
    [u \in Holders |-> IF marker[u] = None THEN snap[r].legacy[u] ELSE marker[u]]

\* (mutant) The balances are read again, outside the snapshot.
FreshEvidence(r) == IF r \in Production THEN legacy ELSE evidence

\* persistProductionSnapshot: the balances the driver's run is about to credit.
Evidence(r) == IF r \in Production THEN snap[r].legacy ELSE evidence

\* The whole apply: checks, evidence, credits, totals, run, fence, commit.
Migrate(r) ==
    /\ At(r, "locked", AfterApply(r))
    /\ StateUnchanged(r)
    /\ snap[r].system = "legacy"
    /\ ~snap[r].pending
    /\ r \in Production => evidence = NoAmounts
    /\ marker' = Credited(r)
    /\ evidence' = Evidence(r)
    /\ system' = "coin"
    /\ UNCHANGED <<legacy, pending, writer, snap, completed>>

\* verifyProductionSnapshotEvidence: the sealed evidence is there and intact.
EvidenceFound == evidence # NoAmounts

\* Already cut over: a no-op, for the driver only with its evidence in place.
FindMigrated(r) ==
    /\ At(r, "locked", AfterApply(r))
    /\ StateUnchanged(r)
    /\ snap[r].system = "coin"
    /\ r \in Production => EvidenceFound
    /\ UNCHANGED <<system, legacy, pending, writer, snap, marker, evidence, completed>>

\* finalizeProductionCutover: under its own advisory lock, verify the evidence,
\* reconcile, and record the completion if nothing was found.
Finalize(r) ==
    /\ At(r, "applied", "idle")
    /\ system = "coin"
    /\ EvidenceFound
    /\ \E passed \in BOOLEAN : completed' = (completed \/ passed)
    /\ UNCHANGED <<system, legacy, pending, writer, snap, marker, evidence>>

\* Any failed check, serialization failure, lost connection or dead process.
Fail(r) ==
    /\ run[r] # "idle"
    /\ run' = [run EXCEPT ![r] = "idle"]
    /\ UNCHANGED <<system, legacy, pending, writer, snap, marker, evidence, completed>>

CutoverNext ==
    \/ \E w \in Writers :
          \/ \E u \in Holders : InsertLegacyEntry(w, u)
          \/ CommitLegacyEntry(w)
          \/ RollBackLegacyEntry(w)
    \/ ChangePending
    \/ \E r \in Runs :
          \/ Inspect(r) \/ BeginApply(r) \/ TakeAdvisoryLock(r) \/ LockTables(r)
          \/ Migrate(r) \/ FindMigrated(r) \/ Finalize(r) \/ Fail(r)

CutoverSpec == CutoverInit /\ [][CutoverNext]_cutoverVars

-----------------------------------------------------------------------------
(* Properties                                                              *)

\* The fence, every user's credit and the run appear together or not at all.
CutoverAtomic ==
    /\ system = "coin" <=> \A u \in Holders : marker[u] # None
    /\ system = "legacy" <=> \A u \in Holders : marker[u] = None

\* The legacy ledger is history once Coins are live: no writer that was let
\* through the fence before can still commit.
LegacyFrozen == [][system = "coin" => legacy' = legacy]_cutoverVars

\* Concurrent, repeated and restarted runs credit everybody once: after the
\* cutover no run changes a credit or the evidence.
CreditedOnce ==
    [][system = "coin" => UNCHANGED <<system, marker, evidence>>]_cutoverVars

\* A completion, and the evidence it rests on, attest exactly what was credited.
EvidenceMatches ==
    /\ completed => evidence # NoAmounts
    /\ evidence # NoAmounts => system = "coin" /\ evidence = marker

\* The credit is the whole legacy balance: "locks the legacy money/projection
\* tables, snapshots balances after those locks" (coins-architecture.md).
NothingLost ==
    system = "coin" => \A u \in Holders : marker[u] = legacy[u]
=============================================================================
