----------------------------- MODULE MCServices -----------------------------
(* The market data that the server serves, each component in behaviours of *)
(* its own, or as functions of the inputs that a behaviour starts with:    *)
(* every catalog of a few markets, every short history of trades.  (The    *)
(* safety of the cache, and the lists of the client that show the data,    *)
(* are MCPlatform's.)                                                      *)
EXTENDS Integers, SequencesExt, FiniteSetsExt, TLC

CONSTANTS
    None, Feeds, Tolerant, TTL, LoadTime, PageLimit,
    Markets, MaxTrades,
    CatalogSize,                \* how many markets the upstream has
    Admins, Unit, MaxWeight, MaxClock

VARIABLES
    focus, up, published, entry, loads, foreground, background, answer,
    catalog,                    \* an input of the list
    changes,                    \* how often it was changed
    trades,                     \* an input of the odds, the oldest first
    group, points, jobs, clock, broken,     \* the points of one market's page
    activity, visible, holdings, page           \* the feeds of markets and platform

Cache == INSTANCE MarketCache
Data == INSTANCE MarketData
Details == INSTANCE MarketDetails WITH Labels <- Markets

\* Market "a" is grouped with "b"; the seeds' user is "d".
Activity == INSTANCE MarketActivity WITH
    rows <- activity, committed <- visible, positions <- holdings, feed <- page,
    Markets <- {"a", "b"}, GroupOf <- [m \in {"a", "b"} |-> IF m = "a" THEN {"a", "b"} ELSE {}],
    Traders <- {"u", "d"}, DemoTraders <- {"d"}, CommentsLimit <- 1, HoldersLimit <- 1,
    PositionsLimit <- 2, TradesLimit <- 1, PlatformLimit <- 1, MaxRows <- 2

ASSUME Activity!MarketActivityAssumption /\ Details!MarketDetailsAssumption
ASSUME Cache!MarketCacheAssumption /\ Data!MarketDataAssumption /\ PageLimit \in Nat \ {0}

cacheVars == <<up, published, entry, loads, foreground, background, answer>>
detailVars == <<group, points, jobs, clock, broken>>
activityVars == <<activity, visible, holdings, page>>
inputs == <<catalog, changes, trades>>
vars == <<focus, cacheVars, detailVars, activityVars, inputs>>

MCMarkets == <<"a", "b", "c">>

EventIds == {"e1", "e2"}
CatalogIds == 1 .. CatalogSize

\* What the upstream has and how it is asked: the event of every market, the
\* events it returns, how many plain markets are scanned, what it finds for a
\* topic or a search, and the length of the client's pages.
Catalogs ==
    [of : [CatalogIds -> EventIds \cup {None}], events : SUBSET EventIds,
     scan : {1, CatalogSize - 1, CatalogSize}, found : SUBSET CatalogIds,
     kind : {"browse", "topic", "search"}, limit : {1, 3}]

AllTrades ==
    {Data!Trade(m, s, a, n) : m \in Data!MarketIds, s \in Data!Sides, a \in {"buy", "sell"}, n \in {2, 4}}

Init ==
    /\ Cache!Init /\ Details!Init /\ Activity!Init
    /\ trades = <<>> /\ changes = 0
    /\ focus \in {"cache", "odds", "list", "details", "activity"} /\ catalog = None
    /\ focus # "details" => group = "race"

AddTrade ==
    /\ focus = "odds" /\ Len(trades) < MaxTrades
    /\ \E t \in AllTrades : trades' = Append(trades, t)
    /\ UNCHANGED <<focus, cacheVars, detailVars, activityVars, catalog, changes>>

PickCatalog ==
    /\ focus = "list" /\ catalog = None
    /\ catalog' \in {c \in Catalogs :
          c.kind = "browse" /\ c.found = {} /\ c.scan = CatalogSize /\ c.limit = 3}
    /\ UNCHANGED <<focus, cacheVars, detailVars, activityVars, changes, trades>>

PickQuery ==
    /\ focus = "list" /\ catalog # None /\ changes = 0 /\ changes' = 1
    /\ \/ \E scan \in {1, CatalogSize - 1, CatalogSize}, limit \in {1, 3} :
             catalog' = [catalog EXCEPT !.scan = scan, !.limit = limit]
       \/ \E found \in SUBSET CatalogIds, kind \in {"topic", "search"} :
             catalog' = [catalog EXCEPT !.found = found, !.kind = kind]
    /\ UNCHANGED <<focus, cacheVars, detailVars, activityVars, trades>>

RunCache ==
    /\ focus = "cache" /\ Cache!Next
    /\ UNCHANGED <<focus, detailVars, activityVars, inputs>>

RunDetails ==
    /\ focus = "details" /\ Details!Next
    /\ UNCHANGED <<focus, cacheVars, activityVars, inputs>>

\* One feed is asked for, of market "a" or of the platform; before it and while
\* it is read, "u" buys on both markets and sides and sells, the seeds' user and
\* comments of the seeds are among the rows.
RunActivity ==
    /\ focus = "activity" /\ (page # None => page.status # "done")
    /\ \/ /\ page = None
          /\ \/ \E side \in Activity!Sides : Activity!CreateTrade("a", "u", side, "buy", TRUE)
             \/ Activity!CreateTrade("a", "u", "yes", "sell", TRUE)
             \/ Activity!CreateTrade("a", "d", "yes", "buy", FALSE)
             \/ Activity!CreateTrade("b", "u", "yes", "buy", TRUE)
       \/ \E i \in DOMAIN activity : Activity!CommitTrade(i)
       \/ Activity!AnyoneComments("a", FALSE) \/ Activity!AnyoneComments("a", TRUE)
       \/ Activity!AnyoneComments("b", FALSE)
       \/ \E named \in {{}, {"b"}} : Activity!Ask("a", named) \/ Activity!Comment("a", named, FALSE)
       \/ Activity!Answering
    /\ UNCHANGED <<focus, cacheVars, detailVars, inputs>>

Next ==
    \/ AddTrade \/ PickCatalog \/ PickQuery
    \/ RunCache \/ RunDetails \/ RunActivity

Spec == Init /\ [][Next]_vars /\ Cache!Fairness

-----------------------------------------------------------------------------
(* Lists                                                                   *)

RawOf(id) == Data!RawMarket(id, catalog.of[id], id)

InOrder(ids) == LET s == SetToSortSeq(ids, LAMBDA l, r : l > r) IN [i \in DOMAIN s |-> RawOf(s[i])]

KidsOf(e) == {id \in CatalogIds : catalog.of[id] = e}

EventsSent ==
    LET es == SetToSeq({e \in catalog.events : KidsOf(e) # {}})
    IN  [i \in DOMAIN es |-> Data!RawEvent(es[i], InOrder(KidsOf(es[i])))]

\* The upstream is asked for one page after the other, and sends what it has.
Scanned ==
    LET all == InOrder(CatalogIds)
        pages == Data!QueryPages(catalog.scan, PageLimit)
    IN  FlattenSeq([i \in DOMAIN pages |->
            SubSeq(all, pages[i].offset + 1, Min({Len(all), pages[i].offset + pages[i].limit}))])

RawMarkets ==
    CASE catalog.kind = "browse" -> Data!GetRawMarkets(EventsSent, <<>>, Scanned)
      [] catalog.kind = "topic" -> Data!GetRawMarkets(EventsSent, InOrder(catalog.found), <<>>)
      [] catalog.kind = "search" -> Data!SearchRawMarkets(EventsSent,
            Data!ExtractEventMarkets(EventsSent) \o InOrder(catalog.found), Scanned)

Rows ==
    LET pages == Data!Pages(SortSeq(RawMarkets, Data!Bigger), catalog.limit)
    IN  FlattenSeq([i \in DOMAIN pages |-> pages[i].data])

Shows(row) == {row.id} \cup ToSet(row.group)

\* However markets arrive, alone, with an event or for a topic, and however the
\* requests are cut into pages: a client that follows the cursors sees every
\* market that was sent, and the largest ones are all sent; and it sees each in
\* one place only.  (A search may show a market both by itself and in the group
\* that the plain markets found with it were collapsed into.)
EachMarketShownOnce ==
    focus = "list" /\ catalog # None =>
        \A rows \in {Rows} :
        LET scanned == IF catalog.kind = "topic" THEN {}
                       ELSE (CatalogSize - catalog.scan + 1) .. CatalogSize
        IN  /\ catalog.found \cup scanned \cup UNION {KidsOf(e) : e \in catalog.events}
                   = UNION {Shows(rows[i]) : i \in DOMAIN rows}
            /\ catalog.kind # "search" =>
                   \A i, j \in DOMAIN rows : i # j => Shows(rows[i]) \cap Shows(rows[j]) = {}

-----------------------------------------------------------------------------
(* Odds                                                                    *)

NoSales(s) == \A i \in DOMAIN s : s[i].action = "buy"

AgreesWith(stats, chart, s) ==
    /\ stats.volumes = chart[Len(chart)].volumes
    /\ stats.volume = chart[Len(chart)].volume
    /\ NoSales(s) => stats = chart[Len(chart)]

Buy(m, s) == Data!Trade(m, s, "buy", 2)

SomeTrades ==
    LET m == Markets[1] IN {<<>>, <<Buy(m, "yes")>>, <<Buy(m, "no"), Buy(Markets[2], "yes")>>}

\* The card of a market and its chart are folded from the same trades in
\* opposite orders, and group by group: they tell the same volumes, and the
\* same odds as long as nothing was sold.  The odds and the chart of a market's
\* page agree, whatever administrators seeded or set, and show what was set
\* (see MarketDetails).
ChartEndsAtTheOdds ==
  /\ focus = "details" =>
        /\ \A some \in SomeTrades : Details!OddsOfThePage(some)
        /\ Details!OverrideIsShown /\ Details!SeedsEndAtTheBase
        /\ points = {} => Details!PricesSumToOne
  /\ focus = "odds" =>
        /\ \A m \in Data!MarketIds :
             LET own == SelectSeq(trades, LAMBDA t : t.market = m) IN
             AgreesWith(Data!BuildOwnMarketStats(Data!Listed(own)),
                        Data!BuildOwnMarketHistory(Data!Listed(own)), own)
        /\ AgreesWith(Data!BuildGroupedMarketStats(trades),
                      Data!BuildGroupedMarketHistory(trades), trades)

-----------------------------------------------------------------------------
(* Feeds, and the cache                                                    *)

\* Neither a list nor a feed leaves anything out, and a list shows every market
\* in one place only (see also MarketActivity).
NothingLeftOut == EachMarketShownOnce /\ Activity!FeedIsHonest

\* A reader who waits for a list is answered (see MarketCache).
ShownEventually == focus = "cache" => Cache!ShownEventually
=============================================================================
