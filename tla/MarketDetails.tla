---------------------------- MODULE MarketDetails ----------------------------
(***************************************************************************)
(* The page of one market: the odds and the chart getMarketDetail of       *)
(* src/marketDataService.ts puts together from the upstream's market, the  *)
(* points administrators seed or set by hand (src/marketSeedService.ts,    *)
(* src/marketPriceHistoryRepository.ts) and the service's own trades.      *)
(*                                                                         *)
(* A market stands alone with two outcomes, or is one of a group, which is *)
(* shown in an order the upstream decides and may change; the group "race" *)
(* is the one whose history is built into the code.  When the lookup of    *)
(* the event fails or is late, or the upstream is down, the same market is *)
(* read as if it stood alone.  Points are kept under the market or under   *)
(* its event, whichever the read that saved them saw.                      *)
(*                                                                         *)
(* A probability is a number of units (millionths in the code); a minute   *)
(* is two ticks of the clock, so that rounding to minutes can be told.     *)
(***************************************************************************)
EXTENDS Integers, SequencesExt, FiniteSetsExt

CONSTANTS
    None,
    Admins,         \* the requests of administrators, one each
    Unit,           \* what prices sum to
    Labels,         \* the markets of a group, in one of their orders
    MaxWeight,      \* bounds the weights prices are made from
    MaxClock

VARIABLES
    group,          \* what the event holds: a "pair" of markets, a "group", or the "race"
    points,         \* the rows of market_price_history_points
    jobs,           \* what each administrator's request is doing
    clock,
    broken          \* a request failed between two of its rows

detailVars == <<group, points, jobs, clock, broken>>

MarketDetailsAssumption ==
    /\ Unit \in Nat \ {0} /\ MaxWeight \in Nat \ {0} /\ MaxClock \in Nat
    /\ IsInjective(Labels) /\ Len(Labels) >= 3

Odds(Markets) == INSTANCE MarketData

-----------------------------------------------------------------------------
(* Prices                                                                  *)

\* roundProbability
RoundedShare(part, whole) == (2 * part * Unit + whole) \div (2 * whole)

Shares(values) ==
    LET total == SumFunction(values) IN
    [i \in DOMAIN values |->
        IF total > 0 THEN RoundedShare(values[i], total) ELSE RoundedShare(1, Len(values))]

\* Weights become shares of one unit; the largest takes what rounding left.
NormalizePrices(values) ==
    LET rounded == Shares(values)
        largest == Min({i \in DOMAIN values : \A j \in DOMAIN values : rounded[j] <= rounded[i]})
    IN  [rounded EXCEPT ![largest] = @ + Unit - SumFunction(rounded)]

\* buildBinarySeedPrices, buildMultiSeedPrices: the random numbers come from
\* the scope alone, so every seeding of a scope has the same last prices.
BasePrices(n) == NormalizePrices([i \in 1 .. n |-> IF i = 1 THEN MaxWeight ELSE 1])

\* Some other prices, of the points before the last.
PerturbPrices(n) == NormalizePrices([i \in 1 .. n |-> IF i = 1 THEN 0 ELSE i])

-----------------------------------------------------------------------------
(* What a read of the market sees                                          *)

\* The event was found and has more than one market: findParentEventForMarket,
\* getGroupedEventMarkets.
Grouped(read) == read.found

\* getMarketPriceHistoryScope
Scope(read) == IF Grouped(read) THEN "event" ELSE "market"

Binary == <<"yes", "no">>

\* getSeedOutcomes
Names(read) == IF Grouped(read) THEN read.order ELSE Binary

\* normalizeSeedOutcomeNames: two are always called yes and no.
SeedNames(read) == IF Len(Names(read)) <= 2 THEN Binary ELSE Names(read)

\* The markets of the event, in whatever order the upstream's volumes give.
Event == IF group = "pair" THEN SubSeq(Labels, 1, 2) ELSE Labels
Swapped == <<Event[2], Event[1]>> \o SubSeq(Event, 3, Len(Event))

Reads ==
    {[found |-> FALSE, order |-> Event]} \cup {[found |-> TRUE, order |-> o] : o \in {Event, Swapped}}

ListPoints(scope) == {p \in points : p.scope = scope}

Newest(rows) == {p \in rows : \A q \in rows : q.at <= p.at}

Prices(names, prices) == [i \in DOMAIN names |-> [name |-> names[i], price |-> prices[i]]]

\* A point's outcome of that name, else the one at that place.
PulseOutcome(point, name, i) ==
    IF \E o \in ToSet(point.outcomes) : o.name = name
    THEN (CHOOSE o \in ToSet(point.outcomes) : o.name = name).price
    ELSE IF i \in DOMAIN point.outcomes THEN point.outcomes[i].price ELSE None

\* applyPulsePricesToOutcomes, applyPulsePricesToGroupMarkets; what no point
\* prices has the upstream's even odds.
PulseOdds(names, point) ==
    [n \in ToSet(names) |->
        LET price == PulseOutcome(point, n, CHOOSE i \in DOMAIN names : names[i] = n)
        IN  IF price = None THEN <<1, 2>> ELSE <<price, Unit>>]

Small == 1      \* the volume of a seeded point
Large == 2      \* the volume built into the code for the race

\* buildDemocraticNominee2028HistoryPoints: the last of them.
RacePoint(read) ==
    [scope |-> "event", source |-> "pulse_seed", made |-> clock, at |-> clock, by |-> None,
     outcomes |-> Prices(Labels, BasePrices(Len(Labels))), volume |-> Large, fixed |-> TRUE]

\* (mutant) Only the built-in points are protected.
OnlyFixed(p) == p.fixed

\* isProtectedDemocraticNominee2028HistoryPoint
Protected(p) == p.source = "admin" \/ p.fixed

\* isDemocraticNominee2028HistoryTarget
Race(read) == Grouped(read) /\ group = "race"

\* shouldReplaceDemocraticNominee2028PulseHistory
Replaced(read, latest) ==
    Race(read) /\ ~(\E p \in ListPoints("event") : Protected(p)) /\ latest.volume < Large

\* applyPulsePriceHistory: the last point of the chart, or none.  Rows of the
\* same time come in any order.
PulsePoints(read) ==
    LET rows == ListPoints(Scope(read)) IN
    IF rows = {} THEN {IF Race(read) THEN RacePoint(read) ELSE None}
    ELSE {IF Replaced(read, p) THEN RacePoint(read) ELSE p : p \in Newest(rows)}

\* What normalizeMarketDetail gives before any point or trade.
EvenOdds(names) ==
    [n \in ToSet(names) |-> <<1, 2>>]

\* The odds of the service's own trades.
OwnStats(read, trades) ==
    IF Grouped(read) THEN Odds(read.order)!BuildGroupedMarketStats(trades).price
    ELSE Odds(Binary)!BuildOwnMarketStats(Reverse(trades)).price

\* buildOwnMarketHistory never returns an empty chart, so the stored snapshots
\* and the synthetic points are never shown.  A group has a chart of its own
\* trades only once it has some.
OwnChart(read, trades) ==
    IF ~Grouped(read) THEN Last(Odds(Binary)!BuildOwnMarketHistory(Reverse(trades))).price
    ELSE IF trades = <<>> THEN EvenOdds(read.order)
    ELSE Last(Odds(read.order)!BuildGroupedMarketHistory(trades)).price

\* shouldPreserveDemocraticNominee2028Aggregate
Preserved(read, latest) == Race(read) /\ latest # None /\ latest.volume = Large

\* listOwnTrades: of the group, or of the one market that is read.
OwnTrades(read, trades) ==
    IF Grouped(read) THEN trades ELSE SelectSeq(trades, LAMBDA t : t.market = Labels[1])

\* getMarketDetail, given one order of the rows: the odds of the market or the
\* group, and the prices the chart ends with.
Detail(read, latest, trades) ==
    LET names == Names(read)
        base == IF latest = None THEN EvenOdds(names) ELSE PulseOdds(names, latest)
        traded == trades # <<>> /\ ~Preserved(read, latest)
    IN  [odds |-> IF traded THEN OwnStats(read, trades) ELSE base,
         chart |-> IF latest = None \/ (traded /\ Grouped(read)) THEN OwnChart(read, trades) ELSE base]

-----------------------------------------------------------------------------
(* Requests of administrators                                              *)

Idle == [at |-> "idle", force |-> FALSE, valid |-> TRUE, read |-> None, left |-> <<>>]
Ended == [Idle EXCEPT !.at = "over"]

Init ==
    /\ group \in {"pair", "group", "race"}
    /\ points = {} /\ jobs = [a \in Admins |-> Idle] /\ clock = 2 /\ broken = FALSE

\* (mutant) Timestamps are rounded up to whole hours.
ToHour(t) == ((t + 119) \div 120) * 120

\* roundTimestamp: to the nearest minute.
RoundTimestamp(t) == ((t + 1) \div 2) * 2

\* A seeding and an override both begin by reading the market.
Seed(a) ==
    /\ jobs[a] = Idle
    /\ \E force, valid \in BOOLEAN, read \in Reads :
          jobs' = [jobs EXCEPT ![a] =
                      [at |-> "list", force |-> force, valid |-> valid, read |-> read, left |-> <<>>]]
    /\ UNCHANGED <<group, points, clock, broken>>

SeedPoint(read, a, prices, t, volume) ==
    [scope |-> Scope(read), source |-> "pulse_seed", made |-> clock, at |-> RoundTimestamp(t), by |-> a,
     outcomes |-> Prices(SeedNames(read), prices), volume |-> volume, fixed |-> FALSE]

\* (mutant) The last point is perturbed like the others.
EndsAnywhere(read, a) ==
    LET n == Len(SeedNames(read)) IN
    <<SeedPoint(read, a, PerturbPrices(n), clock - 2, 0), SeedPoint(read, a, PerturbPrices(n), clock, Small)>>

\* generateSeedOddsHistory: one point for all the earlier ones, and the last.
GenerateSeedOddsHistory(read, a) ==
    LET n == Len(SeedNames(read)) IN
    <<SeedPoint(read, a, PerturbPrices(n), clock - 2, 0), SeedPoint(read, a, BasePrices(n), clock, Small)>>

Seeds(read) == {p \in ListPoints(Scope(read)) : p.source = "pulse_seed"}

\* Options are parsed after the points were listed and deleted.
Generate(a) ==
    IF ~jobs[a].valid THEN jobs' = [jobs EXCEPT ![a] = Ended]
    ELSE jobs' = [jobs EXCEPT ![a].at = "save",
                     ![a].left = GenerateSeedOddsHistory(jobs[a].read, a)]

ListSeeds(a) ==
    /\ jobs[a].at = "list"
    /\ IF jobs[a].force THEN jobs' = [jobs EXCEPT ![a].at = "delete"]
       ELSE IF Seeds(jobs[a].read) # {} THEN jobs' = [jobs EXCEPT ![a] = Ended]
       ELSE Generate(a)
    /\ UNCHANGED <<group, points, clock, broken>>

DeletePoints(a) ==
    /\ jobs[a].at = "delete"
    /\ points' = points \ Seeds(jobs[a].read)
    /\ Generate(a)
    /\ UNCHANGED <<group, clock, broken>>

\* savePoints: one insert after the other, not in a transaction.
SavePoint(a) ==
    /\ jobs[a].at = "save"
    /\ \/ /\ points' = points \cup {Head(jobs[a].left)}
          /\ jobs' = [jobs EXCEPT ![a] =
                         IF Len(@.left) = 1 THEN Ended ELSE [@ EXCEPT !.left = Tail(@)]]
          /\ UNCHANGED broken
       \/ /\ jobs' = [jobs EXCEPT ![a] = Ended] /\ broken' = TRUE /\ UNCHANGED points
    /\ UNCHANGED <<group, clock>>

\* The prices an administrator may send: of every outcome or not, of another
\* one, in any order, and summing to one or not.
Bodies(read) ==
    LET names == Names(read)
        evenly == NormalizePrices([i \in DOMAIN names |-> i])
    IN  {Prices(names, evenly), Prices(Reverse(names), evenly), Tail(Prices(names, evenly)),
         Prices(names, evenly) \o Prices(<<"other">>, <<0>>),
         Prices(names, [i \in DOMAIN names |-> 0]), Prices([i \in DOMAIN names |-> names[1]], evenly)}

\* validateOverrideOutcomes
ValidOverride(read, body) ==
    /\ body # <<>>
    /\ \A i, j \in DOMAIN body : i # j => body[i].name # body[j].name
    /\ {o.name : o \in ToSet(body)} = ToSet(Names(read))
    /\ SumFunction([i \in DOMAIN body |-> body[i].price]) = Unit

\* sortOutcomesLikeExpected
SortLikeExpected(read, body) ==
    [i \in DOMAIN Names(read) |-> CHOOSE o \in ToSet(body) : o.name = Names(read)[i]]

\* overrideOdds: the volume is that of the last point, else of the page.
Override(a) ==
    /\ jobs[a] = Idle
    /\ \E read \in Reads, body \in UNION {Bodies(r) : r \in Reads} :
          jobs' = [jobs EXCEPT ![a] =
             IF ~ValidOverride(read, body) THEN Ended
             ELSE [Idle EXCEPT !.at = "set", !.read = read,
                               !.left = SortLikeExpected(read, body)]]
    /\ UNCHANGED <<group, points, clock, broken>>

OverridePoint(a, volume) ==
    [scope |-> Scope(jobs[a].read), source |-> "admin", made |-> clock, at |-> clock, by |-> a,
     outcomes |-> jobs[a].left, volume |-> volume, fixed |-> FALSE]

SaveOverride(a) ==
    /\ jobs[a].at = "set"
    /\ LET rows == ListPoints(Scope(jobs[a].read)) IN
       \E volume \in IF rows # {} THEN {p.volume : p \in Newest(rows)}
                     ELSE {IF Race(jobs[a].read) THEN Large ELSE 0} :
          points' = points \cup {OverridePoint(a, volume)}
    /\ jobs' = [jobs EXCEPT ![a].at = "over"]
    /\ UNCHANGED <<group, clock, broken>>

Tick ==
    /\ clock < MaxClock /\ clock' = clock + 1
    /\ UNCHANGED <<group, points, jobs, broken>>

Next ==
    \/ \E a \in Admins :
          Seed(a) \/ ListSeeds(a) \/ DeletePoints(a) \/ SavePoint(a) \/ Override(a) \/ SaveOverride(a)
    \/ Tick

-----------------------------------------------------------------------------
(* Properties                                                              *)

Shown(read, trades) == {Detail(read, p, OwnTrades(read, trades)) : p \in PulsePoints(read)}

\* Whatever the weights, the prices made of them sum to one, and none is
\* negative.
PricesSumToOne ==
    \A n \in 2 .. Len(Labels) : \A w \in [1 .. n -> 0 .. MaxWeight] :
        LET prices == NormalizePrices(w) IN
        SumFunction(prices) = Unit /\ \A i \in 1 .. n : prices[i] >= 0

\* Odds add up to one.
AddsUp(odds) ==
    LET whole == (CHOOSE f \in {odds[n] : n \in DOMAIN odds} : TRUE)[2]
    IN  /\ \A n \in DOMAIN odds : odds[n][2] = whole
        /\ MapThenSumSet(LAMBDA n : odds[n][1], DOMAIN odds) = whole

Priced(read, trades) == ~Grouped(read) \/ trades # <<>> \/ None \notin PulsePoints(read)

\* The odds of a page add up, and are those its chart ends with; only where the
\* points of a market that stands alone are charted although it has trades of
\* its own do the two differ.  In whatever order the upstream lists a group of
\* more than two, each of its markets keeps its odds.
OddsOfThePage(trades) ==
    \A read \in Reads : \A shown \in Shown(read, trades) :
        /\ Priced(read, trades) => AddsUp(shown.odds)
        /\ Grouped(read) \/ OwnTrades(read, trades) = <<>> \/ PulsePoints(read) = {None} =>
              shown.odds = shown.chart
        /\ group # "pair" => shown \in Shown([read EXCEPT !.order = Event], trades)

Overrode(a) == jobs[a].at = "over" /\ \E p \in points : p.by = a /\ p.source = "admin"

\* What an administrator was told is set is what the page shows, whatever was
\* seeded before and in whatever order outcomes were sent, unless there are
\* trades, or it was seeded or set again later, or seeded less than a minute
\* before.
OverrideIsShown ==
    \A a \in Admins : Overrode(a) =>
        LET mine == CHOOSE p \in points : p.by = a
            later == {p \in ListPoints(mine.scope) \ {mine} : p.made > mine.at - 2}
        IN  later = {} =>
                \A shown \in Shown(jobs[a].read, <<>>) :
                    \A o \in ToSet(mine.outcomes) : shown.odds[o.name] = <<o.price, Unit>>

\* Seedings that overlap, or delete each other's points, leave a history that
\* ends at the prices of the scope, if none of them failed half-way.
SeedsEndAtTheBase ==
    ~broken /\ (\A a \in Admins : jobs[a].at # "save") =>
        \A scope \in {"market", "event"} :
            \A p \in Newest({q \in ListPoints(scope) : q.source = "pulse_seed"}) :
                [i \in DOMAIN p.outcomes |-> p.outcomes[i].price] = BasePrices(Len(p.outcomes))
=============================================================================
