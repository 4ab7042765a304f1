----------------------------- MODULE MCPlatform -----------------------------
(* The components around the money core, each in behaviours of its own:    *)
(* accounts, compliance, the limit on attempts, the arithmetic of amounts, *)
(* the wallet and the trading of the time before Coins; the stored copy    *)
(* and the caches of market data, the rate provider, the notifications of  *)
(* the custody provider, what the server is configured to be and the       *)
(* routes of its API; the user, the ticket and the lists of the web        *)
(* client.  Nothing they keep is shared, so a behaviour runs the component *)
(* that "focus" names.                                                     *)
EXTENDS MoneyArithmetic, FiniteSets, TLC

CONSTANTS
    None,
    Emails, Calls, MaxUsers, MaxSessions, MaxTokens, MaxSecrets, MaxEpoch, BackupCodes,
    Countries, Blocked, Births,
    Keys, Attempts, WindowMs, Max, Backends, MaxNow, MaxCount,
    MaxAmount,
    Payloads, Valid, Deliveries, DepositMinConfirmations, MaxConfirmations, Requests,
    Transferred, Asked,             \* the amount a payload names, the body of a request
    Users, Sides, Orders, Buys, Real, VenueFee, InitialBalance, FeePercent, Settlers,
    KeyOf, OwnerOf, SideOf, AmountOf, SharesOf, OutcomeOf,      \* of orders and settlers
    Collectors, Outcomes,                                   \* MarketStore
    Feeds, Tolerant, TTL, LoadTime,                         \* MarketCache
    Ttl, Timeout, Amounts, Said, RateDigits,                \* RateQuotes
    Contract, Notices, Notified, MaxNotices,                \* ProviderEvents
    ExternalCodes, InternalCodes, DisallowedNames, MaxChanges,  \* Readiness
    AllRequests, AllKeys,                                   \* HttpRequests
    Markets, Available, MaxEntered, Limits, MaxLoads,       \* TradeTicket, WebSession
    Words, Categories, Topics, Dates, Filters, Size, PageSize, PagesKept, MaxFetches    \* WebMarkets

VARIABLES
    focus,
    user, session, token, factor, call, proven,                         \* Accounts
    row, consents, grown, request,                                      \* Compliance
    backend, now, count, resetAt, attempt, admitted, orphaned,          \* RateLimit
    amount, part,                                                       \* MoneyArithmetic
    wallet, event, entry, blocked, delivery, rows, withdrawal,          \* LegacyWallet
    ledger, trades, position, order, settlement, settler,               \* LegacyTrading
    known, outcomeRows, snapshots, doing, stopped, emptiedBy,           \* MarketStore
    up, published, cacheEntry, cacheLoads, foreground, background, answer,  \* MarketCache
    rateNow, ask,                                                       \* RateQuotes
    stored, committed,                                                  \* ProviderEvents
    config,                     \* a registry, a deployment or an environment, and
    changes,                    \* how many of its settings were changed, or a list disturbed
    httpRequests, httpDone, httpEvents,                                 \* HttpRequests
    webSession, webUser, authStatus, folio, folioStatus, balance, balanceStatus,
    accountLoads, late, stray,                                          \* WebSession
    ticket, limitPrice, quote, quoteStatus, timer, asking, placing,     \* TradeTicket
    asked, shown, pageCache, fetches, waits, armed, changed,            \* WebMarkets
    chosen                      \* the filters of a page

Acc == INSTANCE Accounts
Com == INSTANCE Compliance
Lim == INSTANCE RateLimit
Wal == INSTANCE LegacyWallet WITH Amount <- Transferred, Body <- Asked, request <- withdrawal
Tra == INSTANCE LegacyTrading WITH Key <- KeyOf, Owner <- OwnerOf, Side <- SideOf,
                                   Amount <- AmountOf, Shares <- SharesOf, Outcome <- OutcomeOf
Store == INSTANCE MarketStore
Cache == INSTANCE MarketCache WITH entry <- cacheEntry, loads <- cacheLoads
Rates == INSTANCE RateQuotes WITH now <- rateNow
Events == INSTANCE ProviderEvents WITH Payloads <- Notices, Deliveries <- Notified
Ready == INSTANCE Readiness
Http == INSTANCE HttpRequests WITH requests <- httpRequests, done <- httpDone, events <- httpEvents,
                                   Requests <- AllRequests, Keys <- AllKeys
Account == INSTANCE WebSession WITH session <- webSession, user <- webUser, loads <- accountLoads
Trader == INSTANCE TradeTicket WITH Outcomes <- Markets
Page == INSTANCE WebMarkets

ASSUME PlatformAssumption ==
    /\ Acc!AccountsAssumption /\ Com!ComplianceAssumption /\ Lim!RateLimitAssumption
    /\ Wal!LegacyWalletAssumption /\ Tra!LegacyTradingAssumption
    /\ MaxAmount \in Nat
    /\ Store!MarketStoreAssumption /\ Cache!MarketCacheAssumption /\ Rates!RateQuotesAssumption
    /\ Ready!ReadinessAssumption /\ Http!HttpRequestsAssumption
    /\ Account!WebSessionAssumption /\ Trader!TradeTicketAssumption
    /\ Page!WebMarketsAssumption

accounts == <<user, session, token, factor, call, proven>>
compliance == <<row, consents, grown, request>>
limit == <<backend, now, count, resetAt, attempt, admitted, orphaned>>
money == <<amount, part>>
oldWallet == <<wallet, event, entry, blocked, delivery, rows, withdrawal>>
oldTrading == <<ledger, trades, position, order, settlement, settler>>
oldMoney == <<oldWallet, oldTrading>>
store == <<known, outcomeRows, snapshots, doing, stopped, emptiedBy>>
cache == <<up, published, cacheEntry, cacheLoads, foreground, background, answer>>
rates == <<rateNow, ask>>
events == <<stored, committed>>
settings == <<config, changes>>
routes == <<httpRequests, httpDone, httpEvents>>
webAccount == <<webSession, webUser, authStatus, folio, folioStatus, balance, balanceStatus,
                accountLoads, late, stray>>
webTicket == <<ticket, limitPrice, quote, quoteStatus, timer, asking, placing>>
list == <<asked, shown, pageCache, fetches, waits, armed, changed>>
webLists == <<list, chosen>>
people == <<accounts, compliance, limit, money>>
data == <<store, cache, rates, events>>
server == <<settings, routes>>
client == <<webAccount, webTicket, webLists>>
vars == <<focus, people, oldMoney, data, server, client>>

-----------------------------------------------------------------------------
(* What the configuration gives some of the constants, and what behaviours *)
(* start from.                                                             *)

TransferAmount == ("good" :> 1) @@ ("bad" :> 3)
RequestBody == ("r1" :> "good") @@ ("r2" :> "good") @@ ("r3" :> "bad")

\* Two orders with one key, a sale, and an order of another user on the same side.
OrderKeys == ("b1" :> "k1") @@ ("b2" :> "k2") @@ ("s1" :> "k2") @@ ("v1" :> "k3")
OrderOwner == ("b1" :> "u1") @@ ("b2" :> "u1") @@ ("s1" :> "u1") @@ ("v1" :> "u2")
OrderSide == ("b1" :> "yes") @@ ("b2" :> "no") @@ ("s1" :> "yes") @@ ("v1" :> "yes")
OrderAmount == ("b1" :> 5) @@ ("b2" :> 4) @@ ("s1" :> 4) @@ ("v1" :> 4)
OrderShares == ("b1" :> 2) @@ ("b2" :> 2) @@ ("s1" :> 1) @@ ("v1" :> 3)
SettlerOutcome == ("a1" :> "yes") @@ ("a2" :> None)

MCSaid ==
    [whole : {0, 1}, fraction : {<<>>, <<0, 4>>, <<0, 0, 4>>, <<0, 0, 5>>, <<0, 4, 4, 9>>, <<9, 9, 9>>}]

\* A notification in the newer format, and what may be different about one.
Newer ==
    [eventId |-> "n1", notificationId |-> None, id |-> None, resourceId |-> "tx1",
     dataId |-> "tx1", transactionId |-> None, eventType |-> "updated", hash |-> "h1",
     index |-> "0", contract |-> Contract, destination |-> "addr", gross |-> 5,
     networkFee |-> 1, providerFee |-> None, asset |-> "USDT", network |-> "TRON",
     status |-> "COMPLETED"]

Older == [Newer EXCEPT !.eventId = None, !.id = "tx1", !.resourceId = None, !.dataId = None,
                       !.eventType = None]

Nameless == [Older EXCEPT !.id = None]

MCNotices ==
    {Newer, Older, Nameless} \cup
    UNION {{[p EXCEPT !.status = "CONFIRMING"], [p EXCEPT !.status = "FAILED"],
            [p EXCEPT !.hash = None], [p EXCEPT !.index = None], [p EXCEPT !.index = "1"],
            [p EXCEPT !.hash = None, !.index = None], [p EXCEPT !.networkFee = 6]} :
               p \in {Newer, Older, Nameless}}
    \cup {[Newer EXCEPT !.eventId = "n2"], [Newer EXCEPT !.eventId = None, !.notificationId = "n2"],
          [Newer EXCEPT !.eventId = "n2", !.hash = None], [Newer EXCEPT !.gross = None],
          [Newer EXCEPT !.gross = 0], [Newer EXCEPT !.contract = "other"],
          [Newer EXCEPT !.destination = "malformed"], [Newer EXCEPT !.providerFee = -1],
          [Newer EXCEPT !.asset = "TRX"], [Newer EXCEPT !.eventType = "reversal"]}

Signed(p) == [body |-> p, jwks |-> {[kid |-> "k1", kty |-> "RSA", use |-> "sig", alg |-> None]},
              signature |-> [parts |-> 3, detached |-> TRUE, decodes |-> TRUE, alg |-> "RS512",
                             kid |-> "k1", of |-> p, by |-> "k1"]]

\* Every payload as the provider sends it, and deliveries that were damaged or
\* meet a key set that does not fit.
MCNotified ==
    {Signed(p) : p \in MCNotices} \cup
    LET one == Signed([Newer EXCEPT !.gross = 9]) IN
    {one, [one EXCEPT !.body = None], [one EXCEPT !.body = Newer], [one EXCEPT !.signature = None],
     [one EXCEPT !.signature.parts = 2], [one EXCEPT !.signature.kid = None],
     [one EXCEPT !.signature.alg = "RS256"], [one EXCEPT !.signature.kid = "k2"],
     [one EXCEPT !.jwks = {}],
     [one EXCEPT !.jwks = {[kid |-> "k1", kty |-> "EC", use |-> None, alg |-> None]}]}

\* An adapter that is sound, and what can be wrong with one.
GoodAdapter(id, code, provider) ==
    [id |-> id, code |-> code, provider |-> provider, verified |-> TRUE,
     runtime |-> [kind |-> code, moduleOk |-> TRUE, exportOk |-> TRUE],
     evidence |-> {[kind |-> k, refOk |-> TRUE] : k \in Ready!EvidenceKinds}, tainted |-> FALSE]

Adapters ==
    LET good == {GoodAdapter("a", "custody", "acme"), GoodAdapter("b", "venue", "acme"),
                 GoodAdapter("c", "monitoring", None)}
        one == GoodAdapter("b", "venue", "acme")
    IN  good \cup {GoodAdapter("a", "venue", "acme"), GoodAdapter("d", "venue", "other"),
                   GoodAdapter("e", "monitoring", "acme"), GoodAdapter("", "venue", "acme"),
                   [one EXCEPT !.verified = FALSE], [one EXCEPT !.runtime = None],
                   [one EXCEPT !.runtime.kind = "custody"], [one EXCEPT !.tainted = TRUE],
                   [one EXCEPT !.evidence = {e \in @ : e.kind # "security_review"}]}

\* A deployment that may go live, and one for local use.
LiveDeployment ==
    [appMode |-> "real_money", nodeEnv |-> "production", productionDeployment |-> TRUE,
     provider |-> [code \in ExternalCodes |-> "acme"], workflows |-> InternalCodes,
     webhook |-> FALSE, manualApproval |-> FALSE, coinTrading |-> None, simulated |-> None,
     approvalRef |-> "docs", artifact |-> TRUE,
     allowed |-> Ready!RealSources]

LocalDeployment ==
    [LiveDeployment EXCEPT !.appMode = "local", !.nodeEnv = "development",
        !.productionDeployment = FALSE, !.provider = [code \in ExternalCodes |-> None],
        !.workflows = {}, !.artifact = None, !.allowed = Ready!LocalSources]

Choices ==
    [productionDeployment |-> BOOLEAN, webhook |-> BOOLEAN, manualApproval |-> BOOLEAN,
     appMode |-> {None, "local", "real_money"}, nodeEnv |-> {None, "production"},
     coinTrading |-> {None, TRUE, FALSE}, simulated |-> {None, TRUE, FALSE},
     artifact |-> {None, TRUE, FALSE}, approvalRef |-> {None, "draft"},
     provider |-> {("custody" :> p) @@ ("venue" :> q) :
                     p \in {"acme", "", "passport"}, q \in {"acme", "other", None}},
     workflows |-> {{}}, allowed |-> {Ready!RealSources \cup Ready!LocalSources}]

\* Environments that start a server, in production and locally.
Target == [host |-> "supabase", name |-> "postgres", principal |-> "pulse"]
Marker == [valid |-> TRUE, project |-> "pulse", fingerprint |-> Target]

ProductionEnv ==
    [nodeEnv |-> "production", vercel |-> "production", appMode |-> None, database |-> TRUE,
     redis |-> TRUE, rateLimit |-> None, ssl |-> TRUE, ca |-> TRUE, cookieSecure |-> None,
     secret |-> TRUE, origins |-> TRUE, admin |-> "own", cronSecret |-> TRUE,
     webhook |-> TRUE, depositProvider |-> "fireblocks", rates |-> "coinbase", contract |-> TRUE,
     depositCredits |-> FALSE, withdrawals |-> TRUE, trading |-> TRUE,
     worker |-> FALSE, drain |-> TRUE, delivery |-> "structured_log", concurrency |-> 5, batch |-> 50,
     cutover |-> TRUE, project |-> "pulse", testDatabase |-> FALSE, target |-> Target]

DevelopmentEnv ==
    [ProductionEnv EXCEPT !.nodeEnv = None, !.vercel = None, !.database = FALSE, !.redis = FALSE,
        !.ssl = None, !.ca = FALSE, !.secret = FALSE, !.origins = FALSE, !.admin = None,
        !.cronSecret = FALSE, !.webhook = FALSE, !.depositProvider = None, !.rates = None,
        !.contract = FALSE, !.withdrawals = FALSE, !.drain = FALSE, !.delivery = None, !.cutover = FALSE]

EnvChoices ==
    [database |-> BOOLEAN, redis |-> BOOLEAN, ca |-> BOOLEAN, secret |-> BOOLEAN, origins |-> BOOLEAN,
     cronSecret |-> BOOLEAN, depositCredits |-> BOOLEAN, withdrawals |-> BOOLEAN, worker |-> BOOLEAN,
     drain |-> BOOLEAN, cutover |-> BOOLEAN, ssl |-> {None, FALSE}, cookieSecure |-> {None, FALSE},
     appMode |-> {"real_money"}, vercel |-> {"preview"}, rateLimit |-> {"memory", "redis"},
     admin |-> {"default"}, rates |-> {"coinbase"}, delivery |-> {None}, concurrency |-> {60},
     target |-> {[Target EXCEPT !.principal = "else"]}]

\* Filters of a page that its URL was typed with.
DatedFilters ==
    [Page!Default EXCEPT !.closing = CHOOSE d \in Dates : TRUE,
                              !.volume = Page!Text("1", FALSE)]

-----------------------------------------------------------------------------
(* The components                                                          *)

Init ==
    /\ Acc!Init /\ Com!Init /\ Lim!Init /\ Wal!Init /\ Tra!Init
    /\ Store!Init /\ Cache!Init /\ Rates!Init /\ Events!Init /\ Http!Init
    /\ Account!Init /\ Trader!Init /\ Page!Init
    /\ amount = 0 /\ part = 0 /\ changes = 0
    /\ \/ /\ focus \in {"accounts", "compliance", "limit", "money", "deposits", "requests", "trading",
                        "store", "cache", "rates", "events", "http", "account", "ticket", "list", "urls"}
          /\ config = None
       \/ focus = "registry" /\ config \in {<<>>, <<GoodAdapter("c", "monitoring", None)>>}
       \/ focus = "deployment" /\ config \in {LiveDeployment, LocalDeployment}
       \/ focus = "environment" /\ config \in {ProductionEnv, DevelopmentEnv}
    /\ \/ chosen = Page!Default
       \/ focus = "urls" /\ chosen = DatedFilters
    /\ focus # "limit" => backend = CHOOSE b \in Backends : TRUE
    /\ focus # "account" => webSession = None
    /\ focus # "ticket" => ticket.market = CHOOSE m \in Markets : TRUE

\* The component that moves; what stays is said before its steps.
On(component) == focus = component /\ UNCHANGED focus

RunAccounts ==
    /\ On("accounts")
    /\ UNCHANGED <<compliance, limit, money, oldMoney, data, server, client>>
    /\ Acc!Next

RunCompliance ==
    /\ On("compliance")
    /\ UNCHANGED <<accounts, limit, money, oldMoney, data, server, client>>
    /\ Com!Next

RunLimit ==
    /\ On("limit")
    /\ UNCHANGED <<accounts, compliance, money, oldMoney, data, server, client>>
    /\ Lim!Next

Count ==
    \/ amount < MaxAmount /\ amount' = amount + 1 /\ UNCHANGED part
    \/ part < MaxAmount /\ part' = part + 1 /\ UNCHANGED amount

RunMoney ==
    /\ On("money")
    /\ UNCHANGED <<accounts, compliance, limit, oldMoney, data, server, client>>
    /\ Count

RunWallet ==
    /\ \/ On("deposits") /\ Wal!DepositNext
       \/ On("requests") /\ Wal!RequestNext
    /\ UNCHANGED <<people, oldTrading, data, server, client>>

RunTrading ==
    /\ On("trading")
    /\ UNCHANGED <<people, oldWallet, data, server, client>>
    /\ Tra!Next

RunStore ==
    /\ On("store")
    /\ UNCHANGED <<people, oldMoney, cache, rates, events, server, client>>
    /\ Store!Next

RunCache ==
    /\ On("cache")
    /\ UNCHANGED <<people, oldMoney, store, rates, events, server, client>>
    /\ Cache!Next

RunRates ==
    /\ On("rates")
    /\ UNCHANGED <<people, oldMoney, store, cache, events, server, client>>
    /\ Rates!Next

RunEvents ==
    /\ On("events")
    /\ UNCHANGED <<people, oldMoney, store, cache, rates, server, client>>
    /\ Events!Next /\ Cardinality(committed') <= MaxNotices

\* What differs from the registries, deployments and environments above in a few
\* settings.
Change ==
    /\ changes < MaxChanges /\ changes' = changes + 1
    /\ \/ On("registry") /\ \E a \in Adapters : config' = Append(config, a)
       \/ /\ On("deployment")
          /\ \E f \in DOMAIN Choices : \E v \in Choices[f] : config' = [config EXCEPT ![f] = v]
       \/ /\ On("environment")
          /\ \E f \in DOMAIN EnvChoices : \E v \in EnvChoices[f] : config' = [config EXCEPT ![f] = v]
    /\ UNCHANGED <<people, oldMoney, data, routes, client>>

\* A route is asked, with no key, one key or two.  One that changes something is
\* asked again, or the other route with its keys, once the first request got as
\* far as its change or the reserve of its order: with the same keys, or those of
\* header and body swapped.
Waiting == {r \in AllRequests : httpRequests[r] = None}

SendFirst ==
    /\ Waiting = AllRequests
    /\ \E r \in AllRequests, name \in DOMAIN Http!Routes, header, body \in AllKeys \cup {None} :
          /\ header = body => header = None
          /\ Http!Routes[name].books = None => header = None /\ body = None
          /\ Http!Send(r, name, header, body)

SendAgain ==
    \E r \in Waiting, sent \in AllRequests \ Waiting :
        /\ Http!AtStep(sent, {"change", "reserve", "fill"}) \/ ~Http!Running(sent)
        /\ LET first == httpRequests[sent]
               BooksOf(name) == Http!Routes[name].books
               Twin(name) == BooksOf(name) # None /\ BooksOf(name) = BooksOf(first.route)
           IN
           \E name \in Http!Together \cup Http!Afterwards \cup Http!Untold :
              /\ name = first.route \/ Twin(name)
              /\ \E header, body \in AllKeys \cup {None} :
                    /\ <<header, body>> \in {<<first.header, first.body>>, <<first.body, first.header>>}
                    /\ Http!Send(r, name, header, body)

RunHttp ==
    /\ On("http")
    /\ UNCHANGED <<people, oldMoney, data, settings, client>>
    /\ SendFirst \/ SendAgain \/ (\E r \in AllRequests : Http!Handle(r)) \/ Http!Stop

\* After a stray answer nothing is promised.
RunAccount ==
    /\ On("account")
    /\ UNCHANGED <<people, oldMoney, data, server, webTicket, webLists>>
    /\ ~stray /\ Account!Next

RunTicket ==
    /\ On("ticket")
    /\ UNCHANGED <<people, oldMoney, data, server, webAccount, webLists>>
    /\ Trader!Next

RunList ==
    /\ On("list")
    /\ UNCHANGED <<people, oldMoney, data, config, routes, webAccount, webTicket, chosen>>
    /\ \/ Page!Serve /\ UNCHANGED changes
       \/ Page!Disturb /\ changes < MaxChanges /\ changes' = changes + 1

\* One page after the other, from what is chosen on it.
Navigate ==
    /\ On("urls")
    /\ UNCHANGED <<people, oldMoney, data, server, webAccount, webTicket, list>>
    /\ \E patch \in Page!PrimaryNav \cup Page!TopicTabs \cup Page!UpdateFilter :
       \E from \in {chosen, Page!Default} :
          chosen' = Page!GetFiltersFromUrl(
                        Page!GetDiscoveryUrl(Page!MergeDiscoveryFilters(from, patch)))

Next ==
    \/ RunAccounts \/ RunCompliance \/ RunLimit \/ RunMoney \/ RunWallet \/ RunTrading
    \/ RunStore \/ RunCache \/ RunRates \/ RunEvents \/ Change \/ RunHttp
    \/ RunAccount \/ RunTicket \/ RunList \/ Navigate

Spec == Init /\ [][Next]_vars

\* Calls, attempts, deliveries and requests are interchangeable (the
\* configuration gives them the same names).
Symmetry == Permutations(Calls)

-----------------------------------------------------------------------------

FormattedParses ==
    LET value == amount * MaxAmount - part
        d == FormatAtomic(value, 3)
    IN  Parsable(d, 3) /\ ParseDecimalToAtomic(d, 3) = value

StoredValueIsNeverCut ==
    LET value == amount * MaxAmount - part
        sign == IF value < 0 THEN -1 ELSE 1
        digits == Digits((sign * value) % 1000, 3)
        d == [negative |-> value < 0, whole |-> (sign * value) \div 1000, fraction |-> digits]
    IN  StoredParsable(d, 2) => ParseStoredDecimalToAtomic(d, 2) * 10 = value

\* What is formatted parses as the number it was, negative ones included; and a
\* stored decimal with one digit more than its column keeps its value or is
\* refused, but is never cut.
DecimalRoundTrip == focus = "money" => FormattedParses /\ StoredValueIsNeverCut

\* What each component says of itself (see Accounts, Compliance, RateLimit,
\* LegacyWallet and LegacyTrading).
CredentialsProven == Acc!TypeOK /\ Acc!CredentialsProven
EligibleHasConsented == Com!TypeOK /\ Com!RefusalIsStored /\ Com!EligibleHasConsented
AtMostMaxAdmitted == Lim!AtMostMaxAdmitted /\ Lim!CountersExpire
LegacyDepositSound == Wal!LegacyDepositSound /\ Wal!LegacyRequestsTruthful
LegacyTradingSound == Tra!LegacyTradesPaid /\ Tra!LegacyPoolPaidOut

-----------------------------------------------------------------------------
(* Configuration                                                           *)

LiveRegistry ==
    <<GoodAdapter("a", "custody", "acme"), GoodAdapter("b", "venue", "acme"),
      GoodAdapter("c", "monitoring", None)>>

LedgerEntries ==
    [entryType : {"credit", "debit", "adjustment"}, direction : {None, "debit"},
     source : {None, "ledger_credit", "local_deposit_webhook", "admin_seed", "real_withdrawal_broadcast"},
     referenceType : {None, "local_trade", "real_trade", "market_settlement", "other"}]

\* A deployment in which no component reports a blocker moves real money and
\* nothing else; one that moves any has its providers verified, each by one
\* adapter, and no local, manual, seeded or simulated source of balances; and
\* in production no such source can write to the ledger.  A registry with which
\* the audit finds nothing wrong has an adapter the gates find for everything
\* (moneyMovement.ts, realMoneyProviderAdapters.ts, trading.ts, ledger.ts decide
\* separately).
RealMoneyOnly ==
    /\ focus = "registry" => Ready!RealMoneyOnly(LiveDeployment, config, LiveDeployment, LedgerEntries)
    /\ focus = "deployment" => Ready!RealMoneyOnly(config, LiveRegistry, config, LedgerEntries)

\* What getConfig accepts the application keeps (see Readiness); and until
\* the launch no accepted environment moves real money, whatever the providers.
AcceptedConfigIsKept ==
    focus = "environment" =>
        /\ Ready!AcceptedConfigIsKept(config, Marker)
        /\ ~Ready!GetConfigRefuses(config) =>
               ~Ready!RealRuntime(Ready!GetConfig(config), [status |-> "verified"])

-----------------------------------------------------------------------------
(* Services and the web client                                             *)

\* The notifications of the custody provider (see ProviderEvents).
NotificationsKept ==
    focus = "events" => Events!EveryPayloadKept /\ (committed = {} => Events!TransfersToldApart)

\* A rate is used only for what it was asked for, while it holds (see RateQuotes).
RatesUsedAreFresh == Rates!RatesUsedAreFresh

\* What a route answers is on record, and the record is true (see HttpRequests).
OnRecord == Http!OnRecord

\* What is answered is marked for what it is, and the copy that is answered from
\* when the upstream is down lacks an outcome only by a collection that is under
\* way or was cut off (see MarketCache and MarketStore).
HonestAnswers == Cache!HonestAnswers /\ Store!StoredAsCollected

\* No cache entry is replaced by something the upstream had before (see
\* MarketCache).
NeverBack == Cache!NeverBack

\* The user, the money and the quote on a page belong together (see WebSession
\* and TradeTicket).
PageIsOfTheUser == Account!AccountShownIsOwn /\ Trader!QuoteIsOfTheTicket

\* A list of the web client is of the filters its URL says, and waits for what
\* it says it loads (see WebMarkets).
ListIsAsAsked ==
    /\ Page!ListIsOfTheFilters /\ Page!NobodyWaitsForNothing
    /\ focus = "urls" => Page!UrlKeepsFilters(chosen) /\ Page!KeysTellListsApart(chosen)
=============================================================================
