# Verification of Pulse Market

TLA+ models, TLC checks and TLAPS proofs for Pulse Market: first the parts that move
money (the Coin ledger in PostgreSQL, the flows that post to it, the cutover that created
it, the outbox that tells others about it), then everything around them that keeps state or
decides something: accounts, compliance, limits, the wallet and trading of the time before
Coins, configuration and launch gates, market data, the routes, the web client.

Paths below are relative to `src/`, the repository; a module `X` is in `X.tla`.

## The system

Pulse Market is a Fastify API and a React client for prediction markets. Users hold
an internal currency, Coins, in fixed-point micros. The server keeps no money state
in memory: everything is in PostgreSQL, and each money operation is one READ COMMITTED
transaction (`src/db.ts`) that a thrown error rolls back; most other operations are
statements that each commit by themselves. Several API processes, cron endpoints and
operators run against the same database.

| Component | State | Operations | Talks to | Hard behaviour |
|---|---|---|---|---|
| Coin ledger (`migrations/031`, `src/coins.ts`) | `coin_accounts` (cached balance), `coin_ledger_entries` (immutable), `money_system_state` (fence) | `coin_post_ledger_entry` | called inside the transactions of every other component | concurrent postings on one account, retries with a used key, a fence that moves while postings wait |
| Withdrawals and corrections (`src/coinWallets.ts`) | `withdrawal_quotes`, `wallet_withdrawal_requests` | quote, confirm, approve, cancel, reject, reconcile provider outcome, correct | ledger, outbox, rate provider | provider outcomes that are late, repeated and contradicting; a lookup limited to 500 entries |
| Deposits (`src/coinWallets.ts`) | `wallet_deposit_intents`, `crypto_deposits`, `money_provider_events` | verify a notification, create intent, process provider event, credit, reverse, admin retry | ledger, outbox, rate provider | duplicated, reordered and contradicting provider events |
| Coin trading (`src/trading.ts`, `src/portfolioRepository.ts`) | `trade_execution_orders`, `positions`, `trades` | quote, reserve, execute at venue, finalise, cancel | ledger, outbox, market lock shared with settlement | external execution between two transactions, ambiguous results, crashes |
| Coin settlement (`src/settlement.ts`) | `market_settlements`, payouts | settle a market | trading's market lock, ledger, outbox | racing with orders in flight |
| Money outbox (`src/moneyOutbox.ts`) | `money_outbox_events` | insert, claim, deliver, mark sent, record failure, dead-letter | fed by every money transaction | leases that run out, crashes, overlapping drains |
| Cutover (`scripts/coinsMigration.ts`, `scripts/productionCoinCutover.ts`) | fence, migration markers, evidence, completion | inspect, apply, finalise | legacy ledger, Coin ledger | runs while legacy writers run; is repeated, concurrent, and dies |
| Reconciliation (`scripts/reconcileCoins.ts`) | none (reports) | compare tables | all of the above | whether its checks are true in every state the others can reach |
| Money arithmetic, rates (`src/money.ts`, `src/exchangeRates.ts`) | none; a rate fetched, stored, used later | convert, round, parse, format; fetch a rate | every money flow | rounding that accumulates; rates used late |
| Legacy wallet (`src/wallets.ts`) | deposit events, intents, withdrawal requests | webhook, credit, review | legacy ledger, eligibility | a webhook without a transaction, repeated and overlapping |
| Legacy ledger and trading (`src/ledger.ts`, `src/trading.ts`, `src/settlement.ts`) | `ledger_entries`, positions, trades | order, settle the pool, reset | real venue | reads outside the transaction that writes |
| Authentication (`src/auth*.ts`) | users, sessions, tokens, challenges, secrets | register, log in, verify, reset, two-factor | e-mail | tokens used twice, sessions that should have ended, overlapping statements |
| Rate limiting (`src/rateLimit.ts`) | counters in memory or Redis | count, expire | authentication routes | increment and expiry are two commands |
| Compliance (`src/compliance.ts`) | profile, consents | save, consent, decide eligibility | gates of trading and wallets | read, modify and write of a whole row |
| Gates and readiness (`src/realMoneyAdapters`, `src/moneyMovement.ts`, ...) | none: functions of a deployment | verify adapters, report blockers | trading, wallets, ledger | several components decide separately |
| Configuration and HTTP (`src/config.ts`, `src/server.ts`, `src/routes/`) | the configuration; the audit log | refuse or accept an environment; a handler's steps | everything | a step that fails after the change, a refusal after a commit, a lost answer, a repeat |
| Market data (`src/marketDataService.ts`, `src/cache.ts`, `src/marketRepository.ts`, ...) | two levels of caches, stored copies, snapshots, points | refresh, group, page, odds, charts, collect | Polymarket API | stale data served as fresh, outages, collections that overlap or are cut off |
| Activity feeds (`src/marketActivityRepository.ts`, `src/platformActivity.ts`) | comments, trades, positions | list | the market page | parallel queries, rows of old seeds |
| Web client (`web/src/`) | lists, filters, user, balance, ticket | load, page, sign in, quote, order | the HTTP API | answers that arrive late or in another order |
| Schema migrations, operations tooling | - | - | - | - |

What makes each correct:

* ledger: the cached balance is what the entries add up to; no balance is negative; a key
  is booked once; before the cutover only the cutover may post;
* withdrawals: a reserve is made once and leaves once, back to its owner or out of the system;
* deposits: a provider transaction is credited at most once, and never while anything about it
  disagrees; two different transfers are never taken for one;
* trading and settlement: what an order reserved is spent or returned exactly; positions and
  money move together; a settled market accepts no execution;
* outbox: a recorded event is eventually delivered or dead-lettered, by one live claim at a time;
* cutover: every legacy balance is credited exactly once, and the legacy ledger is frozen after it;
* legacy wallet and trading: a transfer is credited once, and only when eligible; every trade is
  paid for, and a pool pays out what it holds;
* accounts: an e-mail is verified, a password replaced and a second factor enabled only by whoever
  held the mailed token or knew the secret, however requests overlap;
* compliance: whoever may trade has consented and is of age, in a country that is not blocked;
* rate limit: no more attempts than the limit in the life of a counter, on either backend;
* gates: no deployment moves real money with a provider that is not verified or a local source
  of balances, and no accepted environment moves any before the launch;
* market data: an answer from an old or partial source says so; a list shows every market once;
  chart, odds and volumes tell the same; a stored copy is never half of one;
* routes: what was answered happened, and what happened is in the audit log where the route
  promises it;
* web client: the list, balance and quote that are shown belong to the filters, user and ticket
  that are shown with them.

## Modules

| Module | What it is |
|---|---|
| `CoinPosting` | the arithmetic and acceptance rule of one posting; stateless, used by every module that posts |
| `CoinBook` | abstract: each account is an append-only book |
| `CoinLedger` | sessions that call the SQL function statement by statement |
| `WithdrawalEscrow` | abstract: coins of a withdrawal are held once and leave once |
| `Withdrawals` | quotes, requests, provider outcomes, corrections |
| `CoinCutover` | the migration, its production driver, legacy writers |
| `OutboxDelivery` | abstract: at-least-once delivery with a bounded number of tries |
| `MoneyOutbox` | rows, leases, drains and their crashes |
| `DepositCredit` | abstract: a transfer is credited once, on evidence, and taken back at most once |
| `Deposits` | intents, provider events, review, credit, reversal, admin retry |
| `ProviderEvents` | a provider's notification from its signature to its stored row |
| `TradeBook` | abstract: Coins and positions of one market move together |
| `CoinTrading` | orders across their two transactions, the venue, settlement |
| `Reconciliation` | the report's comparisons as operators on the state of the three flows; stateless |
| `MoneyArithmetic` | conversions, fees, rounding, decimals; stateless |
| `RateQuotes` | a dollar rate from the request to its last use |
| `LegacyWallet` | deposit webhook and withdrawal requests before Coins |
| `LegacyTrading` | orders, ledger, resets and pool settlement before Coins |
| `Accounts` | users, sessions, tokens, two-factor |
| `Compliance` | profile, consents, eligibility |
| `RateLimit` | counters in memory and in Redis |
| `Readiness` | adapter registry, gates, launch approval, ledger policy; environment to configuration to wiring; stateless |
| `HttpRequests` | the steps of a route, failures, refusals, repeats, the audit log |
| `MarketCache` | two levels of response caches over an upstream that fails |
| `MarketData` | how lists are put together, grouped, sorted and paged, and the odds, volumes and charts that own trades give them; stateless |
| `MarketDetails` | the page of one market: odds, seeded and manual points |
| `MarketStore` | the stored copy of a market |
| `MarketActivity` | comments, trades, holders and the platform feed |
| `WebMarkets` | a list in the web client; its filters and their URL |
| `WebSession`, `TradeTicket` | who is signed in and what they own; the ticket of a market |
| `MC*` | the instances TLC checks; `MCPlatform` and `MCServices` compose the components that share no state with the money flows: the first those about which something is proved, the second how lists, feeds and charts are put together |
| `*Proofs` | the theorems, with TLAPS proofs: `MoneyProofs` about operators, `PlatformProofs` and `WebProofs` about the components of `MCPlatform`, the others about the module they are named after; `CoinLedgerProofs` also about `CoinCutover` |

Who uses whom. `CoinPosting` is extended by `CoinLedger`, `Withdrawals`, `Deposits` and
`CoinTrading`: each of the three flows keeps whole accounts and posts to them with the same
rule, in the order the code posts, so an operation of a flow is atomic over a ledger of its
own. `CoinLedger` shows that this is sound: its interleaved statements implement the atomic
book. The four flows are not run together; what one sees of another is a movement on the same
balance (`Elsewhere`, corrections). The abstract module of each flow is instantiated with a
refinement mapping and checked as a property of its run. `Reconciliation` is instantiated by
the three flows, which claim that its checks find nothing.

### CoinPosting, CoinLedger

`coin_post_ledger_entry` runs four statements that matter: it reads the fence, creates and
locks the account row, looks the idempotency key up, and tests and writes the balance and the
entry. `CoinLedger` makes each a step of a session (`ReadFence`, `LockAccount`, `LookupKey`,
`ApplyPost`), because READ COMMITTED gives each statement its own snapshot, and keeps the
uncommitted version of the accounts a session holds apart from the committed ones (`work`,
`account`). `CallPost` starts a call, `Commit` and `RollBack` end the transaction; a
roll-back stands for any thrown error, lost connection, crash or deadlock victim and is
always possible. `EnterMigration` and `CompleteMigration` are the cutover's updates of the
fence, visible to others only when it commits.

Abstracted: everything else the idempotency comparison looks at (source, reason, reference,
rate snapshot, administrator) is one value, `ref`. The unique and CHECK constraints that
duplicate tests of the function are not guards: that they never have to fire is what the
invariants say.

### Withdrawals

One transaction is one action, since each locks the request or quote row first; the one
exception is `confirmWithdrawal`, whose lookup by key finds no row to lock and is an action of
its own (`LookupConfirm`, then `Confirm`). `ReconcileOutcome` is
`reconcileVerifiedWithdrawalOutcome` with every outcome the provider may report, in any order
and repeated; amounts, rates and hashes are reduced to whether they agree. `Page` is the limit
of 500 of `findCoinEntry`.

### CoinCutover

`applyMigration` is SERIALIZABLE, so `BeginApply` fixes what every later query of the run
sees; `TakeAdvisoryLock`, `LockTables` and `Migrate` or `FindMigrated` follow. The driver's
inspection and finalisation are transactions of their own and the process can die between any
two (`Fail`). A legacy writer passes the trigger when it inserts and commits later. Balances
are whole units.

### MoneyOutbox

Every repository call is one statement, hence one action. `inflight` says how far each runner
of a drain is with a claim (`handle`, `mark`, `fail`); a call may fail before or after its
statement committed; a drain may die at any point. The attempt number stands for the lock
token, since each claim draws a new one. Time is reduced to what it decides: `stale` (the
lease has run out) and `due` (the back-off has passed).

### Deposits

`ProcessEvent` is one delivery of a provider webhook, one transaction as in
`processFireblocksWebhook`: the event is stored or found, the deposit row is created or compared
with what it says (`Noted`, `Conflicts`), and then held, credited, or reversed (`Objection`,
`Assess`, `Reverse`). A report has an event id, a transfer, its evidence (`amount`),
confirmations, a state, and whether the rest of it (asset, network, address) is as expected; it
may be delivered again and in any order, and `PayloadConflict` is an event id that comes back
with another payload. `RetryDeposit` is the administrator's retry; what it checks before its
transaction cannot become false later, so it is one action too. `Quotes` is what the rate
provider may answer; the switch that permits credits may be on in one process and off in
another. A transfer is announced by one live intent, by several, or by none.

### CoinTrading

An order is two transactions with the venue in between, so one call of
`placeCoinTradingOrder` is a small program: `LookUp`, `Quote`, `Reserve`, `Execute`,
`BuildFinalization`, `Finalize` (or `FailToFinalize`, `LoseFinalization`), `Cancel`; `Crash` may
end it anywhere. The two transactions and `Settle` hold the market's advisory lock until they
commit and are one action each; what is read outside them (the key, the position quoted and the
position built on) is read in an action of its own. `Outcomes` is what the venue may answer,
wrong fills and errors included: `executed` says what it really did and is seen by no guard,
`ambiguous` whether the message of an error is one that `isAmbiguousExecutionError` recognises.
A commit that succeeds unnoticed is the second way `Finalize` may end. The model has one market,
as orders of different markets share only the balances, which `Elsewhere` moves.

### MoneyArithmetic

The definitions are the functions of `src/money.ts` on natural numbers (bigint does not
overflow). `NanosScale` is 10^9 in the code; the instance takes a small one, so that every
remainder occurs.

### Reconciliation

Each check of `scripts/reconcileCoins.ts` is an operator true of a row its SQL would list:
`WithdrawalTerminal`, `DepositLedger`, `TradeExecutionAccounting` and the others join a row to the
entries of its ledger by key. That they are true of no row are conjuncts of `RowMatchesLedger`,
`DepositMatchesLedger` and `OrderMatchesLedger`: the report is empty in every state the flows reach,
not only in the ones its tests build.

### RateQuotes, ProviderEvents

`RateQuotes` follows one rate: asked for, answered in time, late or never, stored with a time
stamp that is taken when the body has been read, then used by a deposit's transaction, a
withdrawal's quote and its confirmation. `Used` rounds as `src/money.ts` does; a rate may be said
with more digits than are kept.

`ProviderEvents` is what happens before `Deposits`: the signature, the key set, the two payload
formats, and the id an event is stored under. A delivery is a payload with a signature that fits
or differs in one way. `EveryPayloadKept` says that whatever was acted upon is stored once under an
id of its own, `TransfersToldApart` that two notifications get the same coordinates only if they
are of one transfer or one event.

### LegacyWallet, LegacyTrading

The webhook of `src/wallets.ts` is no transaction: each statement of a delivery is an action, and
a delivery may die between any two or overlap with another one. Withdrawal requests are reviewed
and never move money. `LegacyTrading` reads positions and balance in actions of their own and
writes in one; a settlement plans from what it read earlier. Prices are constants; four orders
of two users, one of them real, and two settlers compete.

### Accounts, Compliance, RateLimit

One action of `Accounts` is one statement on the tables. Hashes are compared by how often the
password was replaced (`epoch`); a token is a name that is told by mail once. What a request read
is in its record until it ends, so that an old read meets a new row. Expiry is the disappearance
of a row: every reader compares `expires_at`. `Compliance` has the row of one user, since tables
are keyed by user, and the three consents as three statements. `RateLimit` has both backends;
with Redis, the increment and the expiry of each key are separate commands and an attempt
may die in between, which leaves a counter without expiry that the next attempt repairs.

### Readiness

The gates are functions of a deployment, and what is wired is a function of an environment, so
their "behaviours" in `MCPlatform` only change one setting after the other: every deployment,
registry and environment up to three settings away from one that works is looked at.
`RealMoneyOnly` compares what four components decide separately. `AcceptedConfigIsKept` says that
what `getConfig` accepts is what the application is wired to, and that none of it moves real money
yet.

### HttpRequests

A route is the sequence of what its handler awaits (`Routes`): token, session, body, the operation,
the audit log, the answer. Any step on the database may fail, a commit may be
unnoticed, the process may stop, and the client may ask again with the same keys. The order of the
steps is the code's, also where validation comes late or an operation is more than one transaction:

* an order is two transactions, `Reserve` and then `Fill` or `GiveUp`; the second answers 400 when
  the venue refused or nobody knows, after the first has committed. A repeated order is answered as
  it was if it was filled and refused otherwise (`ReplayOrder`, `Refuse`);
* seeding with `force` deletes the points before it validates its options (`AdminReseedOdds`); without
  it, it may find the points there (`AdminSeedOdds`), which is recorded all the same;
* showing a market again is recorded whether or not there was a rule (`AdminUnhide`);
* reviews, cancellations, legacy rejections and retries of a deposit that find the row in the state
  asked for answer 200 and commit nothing, so their log has no event (`Skip`);
* a provider event in conflict with what is stored is recorded and then answered 409.

So a refused request may well have changed the store. `OnRecord` says what the code does promise. An
answer of success has its change or filled order committed, unless the route may find nothing to
do, and on record where the route tells (`AnswersAreOnRecord`). The log tells only of changes made,
orders given up, and, for the routes that record it, of a look that found nothing to do; what tells
within its transaction is never without it (`RecordIsTrue`). A key makes one change or one reserve,
and an order ends once (`OncePerKey`). What a refused request changed is on record, or a reserve
that was ended, or points deleted by forced seeding (`RefusalsAreSettled`). Which routes tell before,
with or after the change is in `Together`, `Afterwards`, `Untold`, `Looking`.

### MarketCache, MarketData, MarketDetails, MarketStore, MarketActivity

`MarketCache` is `loadWithStaleFallback` twice, the list of markets over the feeds it is built from,
with a background refresh, the shared load of concurrent callers, and an upstream that goes down
and comes back. An entry is its age and what it was built from. `MarketData` holds
functions, evaluated on every small catalog and history. `MarketDetails` has the group a market
belongs to, which a failed lookup hides; points are saved under whichever the save saw.
`MarketStore` is the collection of a snapshot, one statement at a time and overlapping with
others. Nothing makes its statements one transaction: an insert into a place that is taken ends it
(`Insert`), and any statement may fail for another reason, or the process stop, and leave the market
with some of its outcomes or none (`CutOff`). The code does not promise a complete copy, and
`StoredAsCollected` claims none: it says that an outcome is missing only while a collection is still
to insert it or because one was cut off before it did, never because collections refused each
other; that one that deleted last and came to its end has every outcome in place; and that a
snapshot names the market's row. `MarketActivity` reads the four lists of a page in
four queries while rows are added; rows of old seeds are left out after the limit was applied.

### WebMarkets, WebSession, TradeTicket

Each hook is a machine whose handlers are actions: an effect that starts or is cleaned up, an
answer that arrives, a timer. `WebMarkets` shares requests and pages in a cache of the whole
client (`requestIdRef` is who waits); `WebSession` has the user, portfolio and balance with
answers in any order; `TradeTicket` has the quote that is asked for 220 ms after a change.
`WebMarkets` also has the functions that take filters to a URL and back and to a request; a behaviour
navigates with them from page to page, by every link and field there is.
`late` in `WebSession` are the answers nothing in the code guards; once one of them comes for a user
who has left (`stray`), the code promises nothing (see Findings) and the instance stops there.

## Runs

| Run | Question | Properties | Instance |
|---|---|---|---|
| `ledger` | do interleaved statements keep the books? | `AccountsSound`, `RepliesTruthful`, `FenceHolds`, `ImplementsBook` | 2 sessions, 2 users, 2 postings per transaction, movements that share a key, overdraw, and migrate |
| `withdrawals` | does every reserve leave exactly once? | `ReserveBacked`, `RowMatchesLedger`, `ImplementsEscrow` | 2 withdrawals of one user, 2 keys, corrections that fund and drain, the whole history listed |
| `withdrawals_page` | ... also when the history is longer than the page? | `OneExactRelease` (violated) | the same with a page of 2 |
| `cutover` | is the cutover atomic, single and final? | `CutoverAtomic`, `EvidenceMatches`, `LegacyFrozen`, `CreditedOnce` | 2 users, 2 writers, the plain script and 2 driver runs |
| `cutover_loss` | is every legacy balance credited? | `NothingLost` (violated) | 1 run, 1 writer |
| `outbox` | one live claim, the delivery contract, is every event settled in the end? | `OneHolder`, `ImplementsDelivery`, `EventuallySettled` | 2 events, 2 drains, batches of 2, 2 runners, 2 attempts |
| `deposits` | one credit per transfer, on evidence, final? | `DepositMatchesLedger`, `CreditHasEvidence`, `ImplementsCredit` | 2 transfers, 2 intents of one user, a threshold of 2, progressing, conflicting, invalid and reversing reports |
| `deposits_rejected` | does a reversal before the credit reject it for good? | `RejectedIsFinal` (violated) | the same |
| `trading` | do Coins, orders, trades and positions stay in step, is the venue asked once, is a settled market final? | `OrderMatchesLedger`, `PositionMatchesTrades`, `VenueAskedOnce`, `AnswersTruthful`, `ImplementsTradeBook` | three plans: a purchase, its repetition and a sale; a purchase and two sales; two purchases on one side and one on the other |
| `trading_fee` | can every good sale be finalised? | `SalePaysItsFee` (violated) | as `trading` |
| `services` | are lists, feeds and charts complete and of one piece, and does a change show in the end? | `NothingLeftOut`, `ChartEndsAtTheOdds`, `ShownEventually` | see below |
| `platform` | do the components around the money core keep what they promise? | `CredentialsProven`, `EligibleHasConsented`, `AtMostMaxAdmitted`, `DecimalRoundTrip`, `LegacyDepositSound`, `LegacyTradingSound`, `HonestAnswers`, `RatesUsedAreFresh`, `NotificationsKept`, `RealMoneyOnly`, `AcceptedConfigIsKept`, `OnRecord`, `PageIsOfTheUser`, `ListIsAsAsked`, `NeverBack` | see below |

Every "holds" of the table is of every interleaving and fault of its instance. The four
violated properties are statements of the repository's documents (Findings).

`services` and `platform` compose components that share no state: a behaviour picks one
(`focus`) and runs it alone, the others stay in their initial states. This loses nothing but the
products of independent states. The cache runs in both: its safety in `platform`, its liveness, under
fairness, in `services`.

Why the bounds are enough.

* `ledger`: two sessions show every race for one row, and a third adds no new
  kind of wait; two postings per transaction are needed for a session to meet its own
  uncommitted work. The proofs lift every one of these bounds.
* `withdrawals`: two withdrawals on one balance are what it takes for one to be paid out of
  the other's reserve. A page of 10 is longer than any history of the instance, one of 2 is not.
  The clients' keys are only compared, and interchangeable (`Symmetry`).
* `cutover`: two writers and three runs include a run that finds the cutover done,
  one that loses the race and one that repeats after a crash. Proved for any number.
* `outbox`: two drains and a lease that may run out at any time include every overtaking;
  two attempts include a retry and the last one. Safety is proved for any number.
* `deposits`: two intents that may both announce one transfer are what ambiguity needs,
  and two transfers may compete for one intent; every report can come at any time and again, so
  every order of delivery is there.
* `trading`: a call, its twin with the same key and two sales that together
  exceed the position are what it takes to ask the venue twice or to sell a share twice; fees round
  up on amounts of 1 and 2, where the rounding is largest. In the third plan the
  venue either fills or leaves an ambiguous error and nothing else is posted (`FewAnswers` of
  `MCCoinTrading`); the other faults are in the first two.
* `services`: an entry that is fresh, stale and refreshed needs a `TTL` of 2 ticks and loads of
  1; a catalog of 4 markets in up to 2 events, cut into pages of 1 or 3, has every way of a
  market to be found twice; 3 trades on 3 markets reach a pool that is emptied again. `MaxTrades`,
  `MaxRows`, `MaxWeight` and `MaxClock` are the names of the bounds.
* `platform`: two requests with one account, one token and one session are what a race for a
  token or a reset against a log-in takes, and a second session would only be ended, which
  `CredentialsProven` does not look at; two backup codes are not needed to use one twice; a
  counter with a window and a limit of 2 opens, fills, expires and opens again within 3 ticks, and
  of counts above the limit one is enough; all amounts to 40 at a scale with every remainder; two
  deliveries of a supported and an unsupported payload, either of which may come first and find
  the other recorded, and three withdrawal requests with one key; two buyers, a seller, a real
  order and two settlers; three
  collectors include two that overlap while a third saves in between, and one that is cut off
  before another repairs what it left; the cache as above; a rate
  said with a digit more than is kept; payloads in both formats, with the ids of one another; 3
  settings changed at once exceed the pairs the code compares; two requests to a route, the second
  sent once the first reached its change, are a repeat and a race, before or after the first
  transaction of an order; two users are who signs out and
  who signs in; two filters with two markets each and pages of 1 make `loadMore`, prefetch and a
  change of filters overlap; filters change as often as links and fields allow. `MaxUsers`,
  `MaxSessions`, `MaxTokens`, `MaxSecrets`, `MaxEpoch`, `MaxNow`, `MaxCount`, `MaxConfirmations`,
  `MaxNotices`, `MaxChanges`, `MaxEntered`, `MaxLoads` and `MaxFetches` are the names of the
  bounds.

Fairness. `outbox`: the clock advances; drains are started again and again by the
loop or by cron, their steps are taken, handlers and queries return, perhaps with an error;
and of the infinitely many drains not every one dies before it claims (strong fairness of
`ClaimBatch`). Nothing is assumed about handlers succeeding. `services`, for `ShownEventually`
(a change of the upstream is shown to readers in the end): weak fairness of the clock, of readers
that keep coming, of finished loads being stored, and of answers to requests while the upstream is
up, which the client's time-out ensures; nothing is assumed about outages ending, the property
is about an upstream that stays up.

## Findings

* `withdrawals_page`: `findCoinEntry` (`src/coinWallets.ts:2743`) looks for the release among
  the newest 500 entries of the user. When a verified provider failure returned the reserve and
  500 entries followed, cancelling or rejecting the withdrawal books a second release, out of
  another withdrawal's reserve, where the runbook promises "one exact `withdrawal_release`".
* `cutover_loss`: the migration's snapshot is taken by its first query, before the table locks
  it waits for are granted; a legacy entry committed in between is lost, where the architecture
  document promises balances snapshotted "after those locks".
* `deposits_rejected`: a reversal that arrives before the confirmation marks the deposit
  rejected, but nothing looks at that status again (`src/coinWallets.ts:2219`): a late or repeated
  confirmation credits it, where the architecture document says "Provider reversals before credit
  are rejected."
* `trading_fee`: the fee of a sale is debited before its proceeds are credited
  (`src/portfolioRepository.ts:812`); a seller without other Coins ends in manual review after the
  venue has sold.

The models also reproduce three things that have no run of their own:

* `PROVIDER_EVENT_ID_PAYLOAD_CONFLICT` is not among the review reasons that hold a deposit back
  (`src/coinWallets.ts:2225`); the next event about the transfer credits it, although the runbook
  keeps a conflicting deposit in manual review (`Objection`, `Sticky` in `Deposits`);
* stored confirmations only grow (`src/coinWallets.ts:2099`, `2236`), so a report with fewer of
  them is not noticed and may be the one that credits;
* whether the venue may have executed an order is guessed from words in the error's message
  (`src/trading.ts:3672`); any other network error releases the reserve (`Continue` in
  `CoinTrading`).

The models of the rest pass over the following, each visible in the code and left
without a property because no document of the repository promises otherwise:

* `placeLocalOrder` and the legacy `commitTrade` write positions computed from rows read outside
  the transaction (`LegacyTrading` keeps the reads apart; `LegacyTradingSound` is about what is
  paid, not about the position);
* the server hands the legacy ledger no runtime policy, so that every write of it is refused;
* `storeProviderEvent`'s older payload format takes `payload.id` as the event's id, the id of the
  transfer, so the reports of one transfer share it and the second is stored as a conflict with the
  first (`NotificationsKept` promises that it is stored);
* in `HttpRequests`: the log-in cookie is set before its audit; hiding and unhiding are audited
  after the change, so the log may end in another order, and an administrator's request that failed
  or was answered by nobody after its change has no event; forced seeding that is refused for its
  options leaves the market without seeded points (`src/marketSeedService.ts:69`); comments take no key and a
  repeat stores a second one; refusals of the Coin wallet are not audited, as the handler tests
  for another error class;
* in the web client, a revalidation that ends late replaces what `loadMore` added
  (`useMarkets.ts:195`), the answer about an earlier session may overwrite who signed in
  (`useAuth.ts:37`), and a portfolio may be set after sign-out (`usePortfolio.ts:33`):
  `ListIsOfTheFilters` allows the first, and the behaviours of `WebSession` that are checked end
  with such an answer (`stray`);
* a page of a single market that has both set points and own trades charts the points and shows
  the odds of the trades (`OddsOfThePage`).

## Proofs

`MoneyProofs` holds the facts about the operators that keep no state. Those about one posting are
what every flow's proof rests on: an accepted posting keeps an account sound (`PostSound`), adds its
key and no other (`PostAddsKey`), and leaves every earlier entry in the book (`PostBooks`).

Those about the arithmetic say, for every amount, rate and scale, that converting back and forth
never gains, that splitting an order saves no fee, that a reserve covers every fill it may have to
pay, that a sale's fee is within its proceeds, and that a sale takes at most the cost of a position
out of it. Each rests on what integer division is (`DivisionBounds`) and on cancelling a common
factor (`SmallerFactor`).

Two recursive functions needed more. The sum over a finite set or a sequence is a choice of a
function that satisfies a recursion; `SumsExist` proves that there is one and `SumIsASum` that it is
what is chosen, by the well-founded order on finite subsets, and the lemmas after it say how a sum
changes with one addend, splits, is reindexed, and what the running balances of a chained account
add up to (`ChainedSums`). The powers of ten and the digits of a number are done alike
(`PowersExist`, `NumberIsNumber`), by the order of the naturals (`UpTo`); from them follows that an
amount's text parses as the amount, for every number of decimals (`FormattedAlwaysParses`,
`StoredIsNeverCut`).

`CoinLedgerProofs` proves, for any sessions, users and movements, the type invariant, that
the accounts are always sound, that replies are truthful, that the fence holds, and that the
ledger implements `CoinBook`. Soundness alone is not inductive: a session tests balances it read
earlier. The inductive invariant `IInv` adds that row locks exclude each other, that the
version a session holds continues the committed one, and what the statements executed so far
have established (`Established`): between the lock and the write, the balances read are still
the row's. `FenceInv` extends it to writes under way.

It also proves of `CoinCutover` atomicity, single crediting, matching evidence and the frozen
legacy ledger for any number of users, writers and runs. The invariant `CutoverInv` adds that no
writer is left once a run holds the tables, and none after the cutover.

`MoneyOutboxProofs` proves, for any events, drains, runners, batch sizes and numbers of attempts,
that at most one live claim holds an event (`AtMostOneHolder`), that no event is handed over more
often than it may be tried, and that the outbox implements `OutboxDelivery`. `OneHolder` is not
inductive; `OInv` adds that a claim's token is an attempt already counted (`TokensSpent`), that no
two drains hold one claim and no drain gives it to two runners (`OwnedOnce`, `TakenOnce`), that a
row is marked only after its handler accepted (`MarkedIsAccepted`), that busy runners are as many
as are in flight, and that tries are left for what is about to be handed over.

`WithdrawalsProofs` proves, for any users, quotes, keys, amounts, corrections and any page, that
accounts stay sound, that one key opens one withdrawal, and that a request row says what the
ledger says (`RowsTruthful`), so nothing is both released and paid. `WInv` ties a request to its
quote and to its entries, one conjunct per status. The refinement of `WithdrawalEscrow` is proved
under `[]PagesFit`, that no account has more entries than `findCoinEntry` lists; without it the
code does not implement it, as `withdrawals_page` shows, so the premise is exactly the finding.
So is `ReserveBacked`: by that refinement a step changes at most one withdrawal, hence one addend of
the sum of what is held, by what it moves on the reserve. `RowMatchesLedger`
(`RowAlwaysMatchesLedger`) needs no such premise: no check of the reconciliation lists a row.

`DepositsProofs` proves, for any users, intents, transfers, reports, rates and other movements on
the balances, that each deposit row says what the ledger booked for its transfer (`RowsTruthful`),
that a credit rests on evidence (`CreditHasEvidence`), and that the flow implements
`DepositCredit`. None of the three is inductive. `DInv` adds to them what a row has gone through
(`Founded`): an unpriced row has been confirmed by a stored event for its very amount, has its
confirmations and the intent that announced it, so that a retry, which looks at no event, credits
on the same evidence; and a row says a non-zero credit in exactly the financial statuses, so that
no second credit can reuse the key. A report that contradicts the row keeps both, which is why
`AfterConflict` must not touch a financial status. Each step lemma proves the invariant and the
promise together. `DepositMatchesLedger` follows from the invariant.

`CoinTradingProofs` proves, for any users, calls, requests, outcomes of the venue, prices of the
fee and movements elsewhere: the venue is asked once for an order, however it is retried and
resumed (`VenueAskedOnce`); what a call was answered is what row and ledger say (`AnswersTruthful`);
an account's reserve is what its open orders hold; positions are what the trades add up to
(`PositionMatchesTrades`); the reconciliation finds nothing (`OrderMatchesLedger`); and the two
transactions with the venue in between implement `TradeBook`. Their common invariant is
`TradingInv`: the entries an order has in the books of any user are exactly those its status calls
for (`Accounted`), what row and trade hold by status (`OrderInv`), how far a call can be with its
order (`CallInv`), one order for a key, and no payout before the settlement. A sum over the calls of
a user changes by one addend in each step, which is where the lemmas on sums come in.

`PlatformProofs` and, for the web client and the routes, `WebProofs` prove of each component of
`MCPlatform` what the runs check. `EveryComponentRuns`, `EveryServiceRuns`, `EveryPageRuns` and
`RoutesRun` say that every behaviour of the composition is one of each component, in which it moves
or stutters; after that
each section has an invariant of its own component:

* accounts: `AccountInv` says what a request knows at the stage it is at (`Honest`) and that this
  does not become false while it waits: secrets stay proven, used tokens stay used (`Remembered`);
* compliance: `ProfileInv` adds that a stored refusal stands with every profile that must be refused;
* limit: counting admitted attempts is not enough, since an attempt learns its count before it is
  admitted; `LimitInv` bounds admitted and pending ones together by the counter, `ExpiryInv` says
  who sees to a counter without an expiry;
* legacy wallet: `WebhookInv` says that the row a delivery works on is the event's row of now or of
  earlier, and that a row that was confirmed is never detected or rejected again; `RequestInv`;
* legacy trading: `LedgerBooked` (finitely many entries, one per key, no balance below zero), that
  trades and answers have their entry, and that what was credited from a pool and the fee are its
  total (`PoolPaid`), which is a fact about the sum over the entries of all winners;
* stored copy: `StoreInv` says where each collection is with its places, for those cut off as for
  those under way, and that what one has inserted since it deleted is there until somebody deletes
  again; `StoreAlwaysAsCollected` follows from it;
* cache: `CacheInv` holds one load per key, a foreground load exactly where there is no entry yet, a
  bound on the age of everything in flight by the time it has run, and an order of versions: what a
  list shows is no further than its feed's entry, that than what was fetched since, that than what
  is published. Honest answers, honest lists and `NeverBack`, an action property, follow from it;
* rates and notifications: `RatesInv` is what a quote still is when it is used; `EventsInv` that a
  payload is stored under its own id or, for good, as a conflict with whoever has that id;
* configuration: `AnyEnvironmentKept` and `AnyDeploymentRealMoneyOnly` are about every environment and
  every deployment and need no behaviour; `ConfigInv` only says that what behaviours set is one;
* web client: `TicketInv` and `PageInv` say what a request that was not given up is for. `ListInv` does
  so for the list of a page: what is shown is a part of the list for the filters that are asked for,
  without duplicates, which goes on where the server's does; every page in the cache is one the server
  sends for its key, every promise a request in flight. It rests on what `dedupeMarkets` keeps
  (`DedupeKeepsEachOnce`), a fold whose recursion is shown to have a solution and then to give the right
  list by the least length at which either could fail (`LeastNumber`). `Choosable` says that a page
  has a category or a topic, never both, which is why its URL says all of its filters
  (`AnyUrlKeepsFilters`), and its request too, but for the social topic (`OneRequestOneList`);
* routes: `RecordInv` ties a request to its change and to its events by the steps it has passed. A
  request that was refused has only what is settled behind it (`Settled`): cleared points, a reserve
  that was ended, what is on record. For that it says what a request goes on with (`Holds`): a reserve
  until the step that fills it, cleared points until they are seeded again, an order given up only
  when it has been answered. Of two commits with one key the second found the first. What the shapes
  of the routes have in common is read off `Routes`, route by route.

The assumptions are those on the constants (`MaxMicrosAssumption`, `NanosAssumption`,
`LedgerAssumption`, `CutoverAssumption`, `OutboxAssumption`, `WithdrawalAssumption`,
`DepositAssumption`, `TradingAssumption`, the `NullAssumption`s that say that `None` is no value, and
`PlatformAssumption`, which gathers those of the components it composes), which TLC evaluates in the
runs. They include that sets of users, calls, withdrawals, keys and feeds a proof sums over or counts
are finite. The only other premise of a theorem is `[]PagesFit`.

Model-checked only: liveness (`EventuallySettled`, `ShownEventually`), which the provers cannot
do; the violations that the findings rest on; and two invariants of `services`. `NothingLeftOut`
is about lists and feeds that are sorted: the sort is an operator of the `TLC` module (`SortSeq`),
which has no definition the provers can use. `ChartEndsAtTheOdds` compares two folds over one list
of trades in opposite orders, rounded step by step, and the points that seeds and administrators
add to a chart.

## Plan

1. ledger, withdrawals, cutover, outbox (done);
2. `Deposits`, `CoinTrading` with settlement, `MoneyArithmetic` (done);
3. the components around the money core, in `MCPlatform` and `MCServices` (done);
4. proofs about every money flow and its refinement, the arithmetic, and every component of
   `MCPlatform` (done);
5. the lists of the web client, proved with the fold they rest on (done);
6. open: proofs about feeds and charts, for which sorting needs a definition of its own; the web
   client's watchlist; a composition of deposits, trading and withdrawals over one `CoinLedger`
   instead of one movement that stands for the others.

## Not modelled

* Schema migrations, build and deployment tooling: run once, by hand.
* Bodies, headers and the upstream's formats, search relevance, wording and layout: conversions
  without state that no property here is about.
* `adminEventActivitySeedService` and `adminLedgerActivityService` have no caller;
  `registerLedgerRoutes` is never registered; `syncTradingMarketActivity` does nothing with
  PostgreSQL.
* The watchlist and other browser windows.
* Of the reconciliation: totals of the cutover, delivery of the outbox, payouts of settlements and
  the storing of the report. Of the cutover: the rewrite of projections.
* Real order books and price movement; the venue and the rate provider are inputs.
