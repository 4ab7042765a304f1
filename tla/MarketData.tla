----------------------------- MODULE MarketData -----------------------------
(***************************************************************************)
(* How lists of markets are put together from what the upstream sends      *)
(* (buildMarketDataService of src/marketDataService.ts, and the parts of   *)
(* src/normalizers.ts it calls): markets by themselves, markets of events, *)
(* search results; grouping, suppression of duplicates, sorting and paging. *)
(* And the odds, volumes and charts computed from the service's own trades *)
(* (src/marketOdds.ts), which enrichMarketsWithOwnActivity and             *)
(* applyPulsePriceHistory show.                                            *)
(*                                                                         *)
(* A raw market is a record; names, texts and pictures are left out, and   *)
(* what is not known is None.  "size" stands for the traded volume that    *)
(* orders markets and events; sizes differ.                                *)
(*                                                                         *)
(* An outcome's pool is what was staked on it less what was sold; its      *)
(* probability is the pool over the sum of the pools.  Probabilities are   *)
(* kept as fractions <<pool, total>>; money is in units small enough that  *)
(* a stake divides evenly among the other markets of a group, so that the  *)
(* rounding to cents has nothing to do.  The repository lists the newest   *)
(* trade first.                                                            *)
(***************************************************************************)
EXTENDS Integers, SequencesExt

CONSTANTS
    None,
    Markets                     \* the markets of a group, in the order they are shown

MarketDataAssumption == IsInjective(Markets)

\* "event" is the event a market is sent with, "group" what it is shown as.
RawMarket(id, event, size) == [id |-> id, event |-> event, size |-> size, group |-> <<>>]
RawEvent(id, kids) == [id |-> id, kids |-> kids]

Ids(markets) == {markets[i].id : i \in DOMAIN markets}

Bigger(left, right) == left.size > right.size

-----------------------------------------------------------------------------
(* Queries                                                                 *)

\* eventQueryPages, marketQueryPages: offset and limit of each request, where
\* pageLimit is polymarketEventPageLimit.
QueryPages(maxItems, pageLimit) ==
    LET limit == IF maxItems < pageLimit THEN maxItems ELSE pageLimit
        count == (maxItems + limit - 1) \div limit
    IN  [i \in 1 .. count |->
            [offset |-> (i - 1) * limit,
             limit |-> IF limit < maxItems - (i - 1) * limit THEN limit
                       ELSE maxItems - (i - 1) * limit]]

-----------------------------------------------------------------------------
(* Grouping                                                                *)

\* dedupeMarkets, dedupeEvents: the first of several with one id.
Dedupe(markets) ==
    FoldLeft(LAMBDA out, m : IF m.id \in Ids(out) THEN out ELSE Append(out, m), <<>>, markets)

SortEventMarkets(markets) == SortSeq(markets, Bigger)

\* marketFromEvent: the market of an event with several stands for all of them.
MarketFromEvent(event, market) ==
    [market EXCEPT !.event = event.id,
                   !.group = IF Len(event.kids) > 1
                             THEN [i \in DOMAIN event.kids |-> SortEventMarkets(event.kids)[i].id]
                             ELSE <<>>]

\* extractEventMarkets
ExtractEventMarkets(events) ==
    FlattenSeq([i \in DOMAIN events |->
        [j \in DOMAIN events[i].kids |->
            MarketFromEvent(events[i], SortEventMarkets(events[i].kids)[j])]])

EventSize(event) ==
    FoldLeft(LAMBDA n, m : n + m.size, 0, event.kids)

\* extractDiverseEventMarkets: one market per event, the largest not used yet.
ExtractDiverseEventMarkets(events) ==
    LET sorted == SortSeq(events, LAMBDA l, r : EventSize(l) > EventSize(r))
        Add(out, event) ==
            LET rest == SelectSeq(SortEventMarkets(event.kids), LAMBDA m : m.id \notin Ids(out))
            IN  IF rest = <<>> THEN out ELSE Append(out, MarketFromEvent(event, Head(rest)))
    IN  FoldLeft(Add, <<>>, sorted)

\* collapseEmbeddedEventGroups: markets sent with one event become a group.
CollapseEmbeddedEventGroups(markets) ==
    LET through == SelectSeq(markets, LAMBDA m : Len(m.group) > 1 \/ m.event = None)
        embedded == SelectSeq(markets, LAMBDA m : ~(Len(m.group) > 1 \/ m.event = None))
        events == FoldLeft(LAMBDA seen, m : IF Contains(seen, m.event) THEN seen
                                            ELSE Append(seen, m.event), <<>>, embedded)
        Kids(e) == Dedupe(SelectSeq(embedded, LAMBDA m : m.event = e))
        Grouped(e) == LET sorted == SortEventMarkets(Kids(e))
                      IN  MarketFromEvent(RawEvent(e, sorted), Head(sorted))
        Of(Test(_)) == SelectSeq(events, Test)
        grouped == LET es == Of(LAMBDA e : Len(Kids(e)) > 1)
                   IN  [i \in DOMAIN es |-> Grouped(es[i])]
        singles == LET es == Of(LAMBDA e : Len(Kids(e)) <= 1)
                   IN  [i \in DOMAIN es |-> Kids(es[i])[1]]
    IN  Dedupe(through \o grouped \o singles)

\* (mutant) A market of an event is kept beside the group that shows it.
SuppressNothing(groupedMarkets, fallbackMarkets) == fallbackMarkets

\* suppressEventChildrenWhenGrouped
SuppressEventChildrenWhenGrouped(groupedMarkets, fallbackMarkets) ==
    LET represented == {groupedMarkets[i].event : i \in
                           {j \in DOMAIN groupedMarkets : Len(groupedMarkets[j].group) > 1}}
    IN  SelectSeq(fallbackMarkets, LAMBDA m : m.event = None \/ m.event \notin represented)

\* getRawMarkets without a search: events first, then topics and plain markets.
GetRawMarkets(events, topicMarkets, baseMarkets) ==
    LET eventMarkets == ExtractDiverseEventMarkets(Dedupe(events))
        collapse(s) == CollapseEmbeddedEventGroups(Dedupe(s))
    IN  Dedupe(eventMarkets \o SuppressEventChildrenWhenGrouped(eventMarkets,
                    collapse(topicMarkets) \o collapse(baseMarkets)))

\* getRawMarkets with a search.
SearchRawMarkets(events, found, baseMarkets) ==
    LET eventMarkets == ExtractDiverseEventMarkets(Dedupe(events))
    IN  Dedupe(eventMarkets \o SuppressEventChildrenWhenGrouped(eventMarkets,
                    CollapseEmbeddedEventGroups(found \o CollapseEmbeddedEventGroups(Dedupe(baseMarkets)))))

-----------------------------------------------------------------------------
(* Paging                                                                  *)

\* buildMarketList: a page, and the cursor of the next one (encodeCursor).
Page(sorted, offset, limit) ==
    [data |-> SubSeq(sorted, offset + 1, Min({offset + limit, Len(sorted)})),
     next |-> IF offset + limit < Len(sorted) THEN offset + limit ELSE None]

\* The pages a client gets that follows the cursors (decodeCursor).
Pages(sorted, limit) ==
    LET count == Max({1, (Len(sorted) + limit - 1) \div limit})
        follow[i \in 1 .. count] ==
            IF i = 1 THEN Page(sorted, 0, limit)
            ELSE IF follow[i - 1].next = None THEN [data |-> <<>>, next |-> None]
            ELSE Page(sorted, follow[i - 1].next, limit)
    IN  follow

-----------------------------------------------------------------------------
(* Trades                                                                  *)

Sides == {"yes", "no"}
MarketIds == ToSet(Markets)

Trade(market, side, action, amount) ==
    [market |-> market, side |-> side, action |-> action, amount |-> amount]

AtLeastZero(n) == IF n < 0 THEN 0 ELSE n

-----------------------------------------------------------------------------
(* Pools                                                                   *)

\* createPoolState, createGroupedPoolState
Empty(keys) == [pools |-> [k \in keys |-> 0], volumes |-> [k \in keys |-> 0], volume |-> 0]

TotalPool(state) == SumFunctionOnSet(state.pools, DOMAIN state.pools)

Signed(t) == IF t.action = "sell" THEN -t.amount ELSE t.amount

\* (mutant) The volume goes down with a sale, but not below zero.
BoughtLessSold(state, key, t) ==
    [state EXCEPT !.volumes[key] = AtLeastZero(@ + Signed(t)), !.volume = AtLeastZero(@ + Signed(t))]

\* Only purchases count as volume.
Bought(state, key, t) ==
    IF t.action # "buy" THEN state
    ELSE [state EXCEPT !.volumes[key] = @ + t.amount, !.volume = @ + t.amount]

\* applyTradeToPoolState
ApplyTrade(state, t) ==
    Bought([state EXCEPT !.pools[t.side] = AtLeastZero(@ + Signed(t))], t.side, t)

\* Money on "no" is spread over the other markets of the group.
Backed(t) == IF t.side = "no" THEN MarketIds \ {t.market} ELSE {t.market}

\* applyGroupedTrade
ApplyGroupedTrade(state, t) ==
    LET share == IF t.side = "no" /\ Cardinality(MarketIds) > 1
                 THEN Signed(t) \div (Cardinality(MarketIds) - 1) ELSE Signed(t)
    IN  Bought([state EXCEPT !.pools = [m \in MarketIds |->
                   IF m \in Backed(t) THEN AtLeastZero(@[m] + share) ELSE @[m]]], t.market, t)

\* listTrades: order by created_at desc
Listed(trades) == Reverse(trades)

\* sortTradesAscending
SortTradesAscending(listed) == Reverse(listed)

-----------------------------------------------------------------------------
(* Statistics and charts                                                   *)

\* getInitialProbability, for outcomes that came without a price.
InitialProbability(n) == <<1, n>>

Probability(state, key) ==
    LET total == TotalPool(state) IN
    IF total > 0 THEN <<state.pools[key], total>>
    ELSE InitialProbability(Cardinality(DOMAIN state.pools))

\* buildStatsFromPoolState, and buildHistoryPoint which is made of the same.
StatsOf(state) ==
    [price |-> [k \in DOMAIN state.pools |-> Probability(state, k)],
     volumes |-> state.volumes, volume |-> state.volume, liquidity |-> TotalPool(state)]

\* buildOwnMarketStats, over the trades as they were listed.
PoolsAfter(trades) == FoldLeft(ApplyTrade, Empty(Sides), trades)
BuildOwnMarketStats(listed) == StatsOf(PoolsAfter(listed))

\* buildOwnMarketHistory: the odds before, and after every trade in turn.
BuildOwnMarketHistory(listed) ==
    LET ordered == SortTradesAscending(listed) IN
    [i \in 1 .. Len(ordered) + 1 |->
        StatsOf(FoldLeft(ApplyTrade, Empty(Sides), SubSeq(ordered, 1, i - 1)))]

GroupedPools(trades) == FoldLeft(ApplyGroupedTrade, Empty(MarketIds), trades)

\* The trades of one market after those of another, each newest first.
GroupedListed(trades) ==
    FlattenSeq([i \in DOMAIN Markets |->
        SelectSeq(Listed(trades), LAMBDA t : t.market = Markets[i])])

\* buildGroupedMarketStats
BuildGroupedMarketStats(trades) == StatsOf(GroupedPools(GroupedListed(trades)))

\* buildGroupedMarketHistory sorts the trades of all markets together.
BuildGroupedMarketHistory(trades) ==
    [i \in 1 .. Len(trades) + 1 |-> StatsOf(GroupedPools(SubSeq(trades, 1, i - 1)))]
=============================================================================
