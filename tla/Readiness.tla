------------------------------ MODULE Readiness ------------------------------
(* When the program believes that it may move real money: the registry of  *)
(* verified provider adapters, the infrastructure, money movement, trading *)
(* and launch-approval capabilities of a deployment, the runtime policy of *)
(* the legacy ledger, and the blockers each of them reports; and how the   *)
(* server starts from an environment.  Everything here is a function of a  *)
(* configuration; there is no state.                                       *)
EXTENDS Integers, Sequences

CONSTANTS
    None,              \* null, undefined
    ExternalCodes,     \* requirements that name an external provider
    InternalCodes,     \* requirements that are an internal workflow
    DisallowedNames    \* providers named after the collection of documents

\* None is no setting and no reason.
ReadinessAssumption ==
    /\ ExternalCodes \cap InternalCodes = {}
    /\ None \notin
          {"local", "real_money", "production", "development", "structured_log", "coinbase", "none", "",
           "COIN_DEPOSIT_CREDITS_DISABLED", "REAL_MONEY_LAUNCH_APPROVAL_ARTIFACT_NOT_APPROVED",
           "COIN_DEPOSIT_SIGNED_WEBHOOK_REQUIRED", "COIN_DEPOSIT_RATE_PROVIDER_REQUIRED",
           "COIN_DEPOSIT_CONTRACT_REQUIRED", "COIN_WITHDRAWAL_REQUESTS_DISABLED",
           "COIN_WITHDRAWAL_RATE_PROVIDER_REQUIRED"}

Codes == ExternalCodes \cup InternalCodes
EvidenceKinds == {"integration_test", "security_review", "operational_runbook"}

-----------------------------------------------------------------------------
(* The registry of verified adapters.  An adapter is [id, code, provider,  *)
(* verified, runtime, evidence, tainted]: its runtime is None or           *)
(* [kind, moduleOk, exportOk], its evidence a set of [kind, refOk], and    *)
(* tainted says that its id, runtime or evidence names a document flow.    *)

RegistryProvider(p) == IF p \in {None, ""} THEN None ELSE p

AdapterIssues(a) ==
    LET provider == RegistryProvider(a.provider)
        found(condition, code) == IF condition THEN {code} ELSE {}
    IN  found(~a.verified, "ADAPTER_NOT_VERIFIED")
        \cup found((a.code \in InternalCodes) # (provider = None), "INVALID_PROVIDER")
        \cup found(a.id = "", "MISSING_ADAPTER_ID")
        \cup (IF a.runtime = None THEN {"MISSING_RUNTIME"}
              ELSE found(~a.runtime.moduleOk, "INVALID_RUNTIME_MODULE_REF")
                   \cup found(~a.runtime.exportOk, "INVALID_RUNTIME_EXPORT")
                   \cup found(a.runtime.kind # a.code, "INVALID_RUNTIME_KIND"))
        \cup found(a.evidence = {}, "MISSING_EVIDENCE")
        \cup found(EvidenceKinds \ {e.kind : e \in a.evidence} # {}, "MISSING_EVIDENCE_KIND")
        \cup found(\E e \in a.evidence : ~e.refOk, "INVALID_EVIDENCE_REF")
        \cup found(a.tainted \/ provider \in DisallowedNames, "DISALLOWED_DOCUMENT_FLOW_TERM")

SameKey(a, b) == a.code = b.code /\ RegistryProvider(a.provider) = RegistryProvider(b.provider)

Sound(reg) == {i \in DOMAIN reg : AdapterIssues(reg[i]) = {}}

RegistryIssues(reg) ==
    {"DUPLICATE_ADAPTER_ID" : i \in {i \in DOMAIN reg :
        reg[i].id # "" /\ \E j \in DOMAIN reg \ {i} : reg[j].id = reg[i].id}}
    \cup {"DUPLICATE_REQUIREMENT_PROVIDER" : i \in {i \in Sound(reg) :
        \E j \in Sound(reg) \ {i} : SameKey(reg[i], reg[j])}}

\* Which requirements an audit finds without a sound adapter, and what else is
\* wrong with the registry.
UncoveredCodes(reg) == Codes \ {reg[i].code : i \in Sound(reg)}
Audit(reg) == (UNION {AdapterIssues(reg[i]) : i \in DOMAIN reg}) \cup RegistryIssues(reg)
                  \cup UncoveredCodes(reg)

Matching(reg, code, provider) ==
    {i \in Sound(reg) : reg[i].verified /\ reg[i].code = code
                        /\ RegistryProvider(reg[i].provider) = RegistryProvider(provider)}

\* There is exactly one.
FindVerified(reg, code, provider) == \E i \in DOMAIN reg : Matching(reg, code, provider) = {i}

-----------------------------------------------------------------------------
(* What a deployment declares: [appMode, nodeEnv, productionDeployment,    *)
(* provider (of every external requirement), workflows (the internal ones  *)
(* that are configured), webhook, manualApproval, coinTrading, simulated   *)
(* (TRUE, FALSE or, when not said, None), approvalRef, artifact].          *)

NormalizeProvider(p) == IF p \in {None, ""} THEN "none" ELSE p
ProviderOrNull(p) == IF p = "none" THEN None ELSE p

Configured(c, code) ==
    IF code \in InternalCodes THEN code \in c.workflows
    ELSE NormalizeProvider(c.provider[code]) # "none"

ProviderOf(c, code) ==
    IF code \in InternalCodes THEN None ELSE ProviderOrNull(NormalizeProvider(c.provider[code]))

RequirementStatus(c, reg, code) ==
    IF ~Configured(c, code) THEN "missing"
    ELSE IF ProviderOf(c, code) \in DisallowedNames THEN "invalid"
    ELSE IF FindVerified(reg, code, ProviderOf(c, code)) THEN "verified"
    ELSE "declared_unverified"

BuildRealMoneyInfrastructure(c, reg) ==
    LET status == [code \in Codes |-> RequirementStatus(c, reg, code)]
        all == {status[code] : code \in Codes}
    IN  [requirements |-> status,
         status |-> IF "invalid" \in all THEN "invalid"
                    ELSE IF all = {"missing"} THEN "not_configured"
                    ELSE IF all = {"verified"} THEN "verified"
                    ELSE "declared_unverified"]

IsProduction(c) == c.productionDeployment \/ c.nodeEnv = "production"

RealRuntime(c, infrastructure) ==
    /\ c.appMode = "real_money" /\ c.nodeEnv = "production" /\ c.productionDeployment
    /\ infrastructure.status = "verified"

\* (mutant) A surface that is configured is there.
ConfiguredSurface(c, configured) == configured /\ c.appMode \in {None, "local", "real_money"}

\* Webhook deposits and manual approval are for local use.
LocalSurface(c, configured) == configured /\ ~IsProduction(c) /\ c.appMode \in {None, "local"}

BuildMoneyMovement(c, reg) ==
    LET infrastructure == BuildRealMoneyInfrastructure(c, reg)
        real == RealRuntime(c, infrastructure)
    IN  [realMoney |-> real, deposits |-> real, withdrawals |-> real,
         localWebhook |-> LocalSurface(c, c.webhook),
         manualApproval |-> LocalSurface(c, c.manualApproval),
         infrastructure |-> infrastructure]

MoneyMovementBlockers(m) ==
    (IF m.realMoney THEN {} ELSE
        {"MONEY_MOVEMENT_PROVIDER_DISABLED", "COMPLIANCE_REAL_MONEY_DISABLED"})
    \cup (IF m.withdrawals THEN {} ELSE {"WITHDRAWALS_TRANSFER_BLOCKED"})
    \cup (IF m.deposits /\ m.withdrawals THEN {}
          ELSE {code \in Codes : m.infrastructure.requirements[code] # "verified"})

-----------------------------------------------------------------------------
(* Launch approval and trading                                             *)

\* A reference that is not one of the reviewed documents is not looked up.
BuildLaunchApproval(c) ==
    LET accepted == c.approvalRef = "docs"
        status == IF accepted /\ c.artifact = TRUE THEN "approved"
                  ELSE IF accepted /\ c.artifact = FALSE THEN "rejected" ELSE "not_checked"
    IN  [ref |-> c.approvalRef, refAccepted |-> accepted, status |-> status,
         approved |-> status = "approved"]

LaunchApprovalBlockers(a) ==
    IF a.ref = None THEN {"REAL_MONEY_LAUNCH_APPROVAL_REQUIRED"}
    ELSE IF ~a.refAccepted THEN {"REAL_MONEY_LAUNCH_APPROVAL_REF_INVALID"}
    ELSE IF ~a.approved THEN {"REAL_MONEY_LAUNCH_APPROVAL_ARTIFACT_NOT_APPROVED"}
    ELSE {}

SimulationBlocked(c) ==
    \/ c.coinTrading = FALSE \/ c.simulated = FALSE
    \/ IsProduction(c) /\ c.coinTrading # TRUE
    \/ c.appMode \notin {None, "local"}

BuildTradingMode(c, reg) ==
    LET infrastructure == BuildRealMoneyInfrastructure(c, reg)
        real == RealRuntime(c, infrastructure) /\ BuildLaunchApproval(c).approved
    IN  [realMoney |-> real, execution |-> real,
         simulated |-> ~real /\ ~SimulationBlocked(c)]

TradingBlockers(t) ==
    (IF t.realMoney THEN {} ELSE {"TRADING_MODE_SIMULATED_BALANCES_DISABLED"})
    \cup (IF t.execution THEN {}
          ELSE {IF t.simulated THEN "TRADING_EXECUTION_SIMULATED" ELSE "TRADING_EXECUTION_UNAVAILABLE"})

-----------------------------------------------------------------------------
(* The runtime policy of the legacy ledger: a record with appMode,         *)
(* nodeEnv, productionDeployment and `allowed`, the sources it configures. *)

LocalSources ==
    {"local_ledger_credit", "local_deposit_webhook", "admin_deposit_review", "admin_seed",
     "local_simulated_trading"}
RealSources == {"real_trading_execution", "real_withdrawal_transfer", "market_settlement"}

LocalCredit(p, source) == source \in p.allowed /\ p.appMode = "local" /\ ~IsProduction(p)

LedgerAllows(p, source) ==
    IF source \in LocalSources THEN LocalCredit(p, source)
    ELSE IF source \in RealSources THEN source \in p.allowed
    ELSE source = "unknown_balance_credit" => ~IsProduction(p)

LedgerBlockers(p) ==
    {s \in LocalSources : LedgerAllows(p, s)} \cup {s \in RealSources : ~LedgerAllows(p, s)}
    \cup {s \in {"unknown_balance_credit"} : LedgerAllows(p, s)}

IsBalanceCredit(e) ==
    \/ e.entryType \in {"credit", "trade_credit"}
    \/ e.entryType = "adjustment" /\ e.direction # "debit"

\* What an entry is for, from its metadata's source and the type of what it
\* refers to; the first that fits decides.
ClassifySource(e) ==
    IF "ledger_credit" \in {e.source, e.referenceType} THEN "local_ledger_credit"
    ELSE IF e.source \in {"local_deposit_webhook", "admin_deposit_review"} THEN e.source
    ELSE IF e.source = "admin_seed" \/ e.referenceType = "admin_seed_payment" THEN "admin_seed"
    ELSE IF e.referenceType \in {"local_init", "local_reset", "local_trade"} THEN "local_simulated_trading"
    ELSE IF e.referenceType = "real_trade" THEN "real_trading_execution"
    ELSE IF e.source = "real_withdrawal_broadcast" \/ e.referenceType = "real_withdrawal"
         THEN "real_withdrawal_transfer"
    ELSE IF e.referenceType = "market_settlement" THEN "market_settlement"
    ELSE IF IsBalanceCredit(e) THEN "unknown_balance_credit" ELSE "unrestricted"

PolicyAllowsEntry(p, e) == LedgerAllows(p, ClassifySource(e))

-----------------------------------------------------------------------------
(* All four together.                                                      *)

Blockers(c, reg, p) ==
    MoneyMovementBlockers(BuildMoneyMovement(c, reg))
    \cup LaunchApprovalBlockers(BuildLaunchApproval(c))
    \cup TradingBlockers(BuildTradingMode(c, reg))
    \cup LedgerBlockers(p)

\* A deployment without blockers moves real money and only real money; and one
\* that moves any has verified its providers, each by one adapter, and has no
\* local, manual or simulated source of balances beside it.
RealMoneyOnly(c, reg, p, entries) ==
    LET movement == BuildMoneyMovement(c, reg)
        trading == BuildTradingMode(c, reg)
    IN  /\ Blockers(c, reg, p) = {} =>
             /\ movement.realMoney /\ trading.realMoney
             /\ \A e \in entries : IsBalanceCredit(e) /\ PolicyAllowsEntry(p, e) =>
                    ClassifySource(e) \in RealSources
        /\ movement.realMoney \/ trading.realMoney =>
             /\ ~movement.localWebhook /\ ~movement.manualApproval /\ ~trading.simulated
             /\ UncoveredCodes(reg) = {}
             /\ \A code \in Codes : \E i \in Sound(reg) :
                    {j \in Sound(reg) : SameKey(reg[j], [code |-> code, provider |-> ProviderOf(c, code)])}
                        = {i}
        /\ Audit(reg) = {} =>
             \A code \in Codes : \E i \in DOMAIN reg : FindVerified(reg, code, reg[i].provider)
        /\ IsProduction(p) => \A e \in entries : IsBalanceCredit(e) /\ PolicyAllowsEntry(p, e) =>
                    ClassifySource(e) \in RealSources
-----------------------------------------------------------------------------
(* The start of a server: an environment is turned into a configuration or *)
(* refused, the Coin features are gated, and the application is wired to   *)
(* what the configuration has.  An environment is a record of settings;    *)
(* each is None when it is not set.                                        *)
(*                                                                         *)
(* Feature gates of the Coin system                                        *)

SignedWebhook(c) == c.webhook /\ c.depositProvider = "fireblocks"

\* The reasons that keep deposit credits off, in the order they are tested.
DepositBlock(c, approved) ==
    IF ~c.depositCredits THEN "COIN_DEPOSIT_CREDITS_DISABLED"
    ELSE IF ~approved THEN "REAL_MONEY_LAUNCH_APPROVAL_ARTIFACT_NOT_APPROVED"
    ELSE IF ~SignedWebhook(c) THEN "COIN_DEPOSIT_SIGNED_WEBHOOK_REQUIRED"
    ELSE IF c.rates # "coinbase" THEN "COIN_DEPOSIT_RATE_PROVIDER_REQUIRED"
    ELSE IF ~c.contract THEN "COIN_DEPOSIT_CONTRACT_REQUIRED"
    ELSE None

WithdrawalBlock(c) ==
    IF ~c.withdrawals THEN "COIN_WITHDRAWAL_REQUESTS_DISABLED"
    ELSE IF c.rates # "coinbase" THEN "COIN_WITHDRAWAL_RATE_PROVIDER_REQUIRED"
    ELSE None

\* Nobody passes a launch approval in: the built-in denial decides.
BuildCoinFeatures(c) ==
    [deposits |-> DepositBlock(c, FALSE) = None,
     withdrawals |-> WithdrawalBlock(c) = None,
     trading |-> c.trading]

FeatureGateRefuses(c) ==
    \/ c.depositCredits /\ ~BuildCoinFeatures(c).deposits
    \/ c.withdrawals /\ ~BuildCoinFeatures(c).withdrawals

-----------------------------------------------------------------------------
(* Configuration                                                           *)

Production(e) == e.nodeEnv = "production"

OrElse(setting, default) == IF setting = None THEN default ELSE setting

RateLimitBackend(e) ==
    OrElse(e.rateLimit, IF ~Production(e) THEN "memory" ELSE IF e.redis THEN "redis" ELSE "external")

DatabaseSsl(e) == OrElse(e.ssl, Production(e))
CookieSecure(e) == OrElse(e.cookieSecure, Production(e))

RateLimitRefused(e) == RateLimitBackend(e) = "redis" /\ ~e.redis

OutboxRefused(e) ==
    \/ e.concurrency > e.batch
    \/ (e.worker \/ e.drain) /\ (~e.database \/ e.delivery # "structured_log")
    \/ e.drain /\ ~e.cronSecret

CutoverRefused(e) ==
    e.cutover /\ ~(/\ Production(e) /\ e.vercel = "production"
                   /\ e.database /\ DatabaseSsl(e) /\ e.ca /\ e.cronSecret)

ProductionRefused(e) ==
    /\ Production(e)
    /\ \/ ~e.secret \/ ~CookieSecure(e) \/ ~e.origins \/ ~e.database
       \/ RateLimitBackend(e) = "memory"
       \/ e.admin = "default"

\* (mutant) The mode is taken as it is.
AnyModeAccepted(e) ==
    \/ RateLimitRefused(e) \/ FeatureGateRefuses(e) \/ OutboxRefused(e)
    \/ CutoverRefused(e) \/ ProductionRefused(e)

\* An environment with any of these is refused; which one is reported first
\* does not matter.
GetConfigRefuses(e) ==
    \/ OrElse(e.appMode, "local") # "local"
    \/ RateLimitRefused(e) \/ FeatureGateRefuses(e) \/ OutboxRefused(e)
    \/ CutoverRefused(e) \/ ProductionRefused(e)

GetConfig(e) ==
    [appMode |-> OrElse(e.appMode, "local"), nodeEnv |-> OrElse(e.nodeEnv, "development"),
     productionDeployment |-> Production(e) \/ e.vercel = "production",
     database |-> e.database, databaseSsl |-> DatabaseSsl(e), rateLimit |-> RateLimitBackend(e),
     cookieSecure |-> CookieSecure(e), origins |-> e.origins,
     admin |-> IF e.admin = None /\ ~Production(e) THEN "default" ELSE e.admin,
     depositCredits |-> e.depositCredits, withdrawals |-> e.withdrawals, trading |-> e.trading,
     webhook |-> e.webhook, depositProvider |-> e.depositProvider,
     rates |-> OrElse(e.rates, "disabled"), contract |-> e.contract,
     worker |-> e.worker, drain |-> e.drain, delivery |-> OrElse(e.delivery, "disabled"),
     cutover |-> e.cutover, cronSecret |-> e.cronSecret]

-----------------------------------------------------------------------------
(* The application                                                         *)

BuildAppRefuses(c) ==
    \/ c.nodeEnv = "production" /\ ~c.database
    \/ (c.worker \/ c.drain) /\ c.delivery # "structured_log"

BuildApp(c) ==
    [persistent |-> c.database,
     coinWallets |-> c.database,
     depositCredits |-> BuildCoinFeatures(c).deposits,
     outboxWorker |-> c.worker \/ c.drain,
     outboxLoop |-> c.worker,
     cronRoute |-> c.drain,
     cutoverRoute |-> c.cutover,
     \* Coin orders need a database, and a production refuses to do without one.
     requirePersistentUserState |-> c.database \/ c.nodeEnv = "production"]

\* The configuration part of /api/ready.
ConfigurationReady(c) ==
    /\ c.appMode = "local"
    /\ c.nodeEnv = "production" => c.cookieSecure /\ c.origins /\ c.database

\* A request [method, url, signed (its CSRF token), bearer] meets the first hook.
PassesCsrf(c, enabled, r) ==
    \/ ~enabled \/ r.method = "GET"
    \/ r.url = "deposit_webhook"
    \/ c.cutover /\ r.url = "cutover"
    \/ r.signed

CronAuthorized(c, r) == c.cronSecret /\ r.bearer
CutoverAuthorized(c, vercel, r) == c.cutover /\ vercel = "production" /\ CronAuthorized(c, r)

\* The build runs the preflight: builds of previews are skipped.
PreflightPasses(e) == e.vercel \notin {None, "production"} \/ ~GetConfigRefuses(e)

-----------------------------------------------------------------------------
(* The guard of the production cutover: the committed marker, the project  *)
(* and the database target.  A target is [host, name, principal], and its  *)
(* fingerprint stands for all three.                                       *)

TargetAllowed(t) ==
    /\ t.host # "local" /\ t.name \notin {"template", "test"}
    /\ t.name = "postgres" => t.host = "supabase"

GuardRefuses(e, marker) ==
    \/ ~marker.valid \/ e.project # marker.project \/ e.testDatabase
    \/ ~e.database \/ e.ssl # TRUE \/ ~TargetAllowed(e.target)
    \/ marker.fingerprint # e.target

GuardRuns(e, marker) == e.vercel = "production" /\ ~GuardRefuses(e, marker)

-----------------------------------------------------------------------------
\* A configuration that was accepted is one the application can keep: it starts
\* and reports ready, gives every Coin feature that was asked for, keeps what a
\* production must not lose in the database and its limits outside the process,
\* lets the outbox deliver and whoever has the secret reach the routes of the
\* operations, and lets the cutover run on the one database committed to.
AcceptedConfigIsKept(e, marker) ==
    ~GetConfigRefuses(e) =>
        LET c == GetConfig(e)
            app == BuildApp(c)
            features == BuildCoinFeatures(c)
        IN  /\ ~BuildAppRefuses(c) /\ ConfigurationReady(c) /\ PreflightPasses(e)
            /\ e.withdrawals => features.withdrawals
            /\ e.depositCredits => features.deposits
            /\ app.outboxWorker => app.persistent
            /\ Production(e) => app.persistent /\ c.rateLimit # "memory" /\ c.admin # "default"
            /\ app.cutoverRoute => app.persistent /\ c.databaseSsl /\ c.productionDeployment
            /\ app.cutoverRoute /\ GuardRuns(e, marker) => e.target = marker.fingerprint
            /\ app.cronRoute => CronAuthorized(c, [bearer |-> TRUE])
            /\ app.cutoverRoute =
                   LET post == [method |-> "POST", url |-> "cutover", signed |-> FALSE, bearer |-> TRUE]
                   IN  PassesCsrf(c, TRUE, post) /\ CutoverAuthorized(c, e.vercel, post)
=============================================================================
