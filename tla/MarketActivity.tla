--------------------------- MODULE MarketActivity ---------------------------
(* The feeds of a market page and of the platform: comments and trades,    *)
(* newest first, with who holds what. The four lists of a market page are  *)
(* read by four queries side by side, while people comment and trade. What *)
(* the seeds of early versions left behind is still stored; a page reads   *)
(* the newest rows first and leaves the seeds' out afterwards.             *)
EXTENDS Naturals, Sequences, FiniteSets, SequencesExt

CONSTANTS
    None,
    Markets,
    GroupOf,                \* the markets the upstream groups with a market
    Traders,
    DemoTraders,            \* the users of the seeds
    CommentsLimit, HoldersLimit, PositionsLimit, TradesLimit,
    PlatformLimit,          \* the most the platform's feed shows
    MaxRows                 \* bounds comments and trades together

MarketActivityAssumption ==
    /\ DemoTraders \subseteq Traders
    /\ GroupOf \in [Markets -> SUBSET Markets]
    /\ {CommentsLimit, HoldersLimit, PositionsLimit, TradesLimit, PlatformLimit} \subseteq Nat \ {0}
    /\ MaxRows \in Nat

VARIABLES
    rows,                   \* comments and trades in the order they were created
    committed,              \* the indices of the rows that others can see
    positions,              \* in the order they were last updated
    feed                    \* the request that is answered

activityVars == <<rows, committed, positions, feed>>

-----------------------------------------------------------------------------
(* Queries                                                                 *)

FirstOf(list, limit) == SubSeq(list, 1, IF Len(list) < limit THEN Len(list) ELSE limit)
Newest(ids, limit) == FirstOf(SetToSortSeq(ids, >), limit)

\* (mutant) The newest comments of all markets are read, and the market's shown.
CommentsOfAll(market) ==
    SelectSeq(Newest({i \in committed : rows[i].kind = "comment"}, CommentsLimit),
              LAMBDA i : rows[i].market = market)

ListComments(market) ==
    Newest({i \in committed : rows[i].kind = "comment" /\ rows[i].market = market}, CommentsLimit)

ListTradesForMarkets(markets) ==
    Newest({i \in committed : rows[i].kind = "trade" /\ rows[i].market \in markets}, TradesLimit)

OfMarket(market) == {i \in DOMAIN positions : positions[i].market = market /\ positions[i].shares > 0}

ListPositions(market) ==
    LET ids == Newest(OfMarket(market), PositionsLimit) IN [k \in DOMAIN ids |-> positions[ids[k]]]

SharesOf(market, user) ==
    FoldSeq(LAMBDA p, sum : IF p.market = market /\ p.user = user THEN sum + p.shares ELSE sum,
            0, positions)

\* Traders with the same shares come in some order.
ListTopHolders(market) ==
    LET holders == {[user |-> positions[i].user, shares |-> SharesOf(market, positions[i].user)] :
                       i \in OfMarket(market)}
    IN  FirstOf(SetToSortSeq(holders, LAMBDA x, y : x.shares > y.shares), HoldersLimit)

\* The platform's feed asks for public trades only, so that none is left out later.
ListRecent(limit) ==
    Newest({i \in committed : rows[i].kind = "trade" /\ rows[i].public},
           IF limit < 1 THEN 1 ELSE IF limit > PlatformLimit THEN PlatformLimit ELSE limit)

IsLegacyDemo(record) == record.demo
DemoUser(record) == record.user \in DemoTraders

-----------------------------------------------------------------------------
(* Comments, trades and requests                                           *)

Init ==
    /\ rows = <<>> /\ committed = {} /\ positions = <<>>
    /\ feed = None

Create(row) == Len(rows) < MaxRows /\ rows' = Append(rows, row)

CreateComment(market, demo) ==
    /\ Create([kind |-> "comment", market |-> market, demo |-> demo])
    /\ committed' = committed \cup {Len(rows) + 1}
    /\ UNCHANGED positions

\* A trade is dated, by the venue or the server, before its transaction commits.
\* One for Coins is not public, an earlier one is unless it was seeded otherwise.
CreateTrade(market, user, side, action, public) ==
    /\ Create([kind |-> "trade", market |-> market, demo |-> user \in DemoTraders,
               user |-> user, side |-> side, action |-> action, public |-> public])
    /\ UNCHANGED <<committed, positions, feed>>

\* It is stored together with the position it makes: a purchase adds a share, a
\* sale takes one.
CommitTrade(i) ==
    /\ i \in DOMAIN rows \ committed
    /\ LET trade == rows[i]
           Same(p) == p.market = trade.market /\ p.user = trade.user /\ p.side = trade.side
           held == SelectSeq(positions, Same)
           before == IF held = <<>> THEN 0 ELSE held[1].shares
           others == SelectSeq(positions, LAMBDA p : ~Same(p))
           After(n) == Append(others, [market |-> trade.market, user |-> trade.user,
                                       side |-> trade.side, shares |-> n])
       IN  \/ trade.action = "buy" /\ positions' = After(before + 1)
           \/ trade.action = "sell" /\ before > 0 /\ positions' = After(before - 1)
    /\ committed' = committed \cup {i}
    /\ UNCHANGED <<rows, feed>>

AnyoneComments(market, demo) == CreateComment(market, demo) /\ UNCHANGED feed

Asked(market, asked, wrote, status) ==
    [route |-> "market", market |-> market, asked |-> asked, wrote |-> wrote, start |-> committed,
     comments |-> None, holders |-> None, positions |-> None, trades |-> None, status |-> status]

\* The page asks for a market, and perhaps names the markets it shows with it.
Ask(market, asked) ==
    /\ feed = None
    /\ feed' = Asked(market, IF asked = {} THEN {} ELSE asked \cup {market}, 0, "resolving")
    /\ UNCHANGED <<rows, committed, positions>>

\* A comment is answered with the feed that it is now part of.
Comment(market, asked, demo) ==
    /\ feed = None
    /\ CreateComment(market, demo)
    /\ feed' = Asked(market, IF asked = {} THEN {} ELSE asked \cup {market}, Len(rows) + 1, "resolving")

\* The group is asked for unless the page named it; failing that, the market alone.
Resolve ==
    /\ feed # None /\ feed.status = "resolving"
    /\ LET group == GroupOf[feed.market]
           found == IF Cardinality(group) > 1 THEN group ELSE {feed.market}
       IN  \E ids \in IF feed.asked # {} THEN {feed.asked} ELSE {found, {feed.market}} :
              feed' = [feed EXCEPT !.asked = ids, !.status = "reading"]
    /\ UNCHANGED <<rows, committed, positions>>

ListOf(list) ==
    IF list = "comments" THEN ListComments(feed.market)
    ELSE IF list = "holders" THEN ListTopHolders(feed.market)
    ELSE IF list = "positions" THEN ListPositions(feed.market)
    ELSE ListTradesForMarkets(feed.asked)

Read(list) ==
    /\ feed # None /\ feed.status = "reading" /\ feed[list] = None
    /\ feed' = [feed EXCEPT ![list] = ListOf(list)]
    /\ UNCHANGED <<rows, committed, positions>>

\* (mutant) Comments after trades, each of them newest first.
TradesFirst(trades, comments) == trades \o comments

Together(trades, comments) == SetToSortSeq(ToSet(trades) \cup ToSet(comments), >)

Answer ==
    /\ feed # None /\ feed.status = "reading"
    /\ None \notin {feed.comments, feed.holders, feed.positions, feed.trades}
    /\ LET Shown(list) == SelectSeq(list, LAMBDA i : ~IsLegacyDemo(rows[i]))
           Real(list) == SelectSeq(list, LAMBDA x : ~DemoUser(x))
       IN  feed' = [feed EXCEPT !.comments = Shown(@), !.holders = Real(@), !.positions = Real(@),
                                !.trades = Together(Shown(@), Shown(feed.comments)),
                                !.status = "done"]
    /\ UNCHANGED <<rows, committed, positions>>

Platform(limit) ==
    /\ feed = None
    /\ feed' = [route |-> "platform", trades |-> ListRecent(limit), limit |-> limit,
                start |-> committed, status |-> "done"]
    /\ UNCHANGED <<rows, committed, positions>>

Sides == {"yes", "no"}

Answering ==
    \/ Resolve
    \/ \E list \in {"comments", "holders", "positions", "trades"} : Read(list)
    \/ Answer
    \/ \E limit \in 0 .. PlatformLimit + 1 : Platform(limit)

Next ==
    \/ \E market \in Markets, demo \in BOOLEAN : AnyoneComments(market, demo)
    \/ \E market \in Markets, user \in Traders, side \in Sides,
          action \in {"buy", "sell"}, public \in BOOLEAN :
             CreateTrade(market, user, side, action, public)
    \/ \E i \in DOMAIN rows : CommitTrade(i)
    \/ \E market \in Markets, asked \in SUBSET Markets : Ask(market, asked)
    \/ \E market \in Markets, asked \in SUBSET Markets, demo \in BOOLEAN :
          Comment(market, asked, demo)
    \/ Answering

Spec == Init /\ [][Next]_activityVars

-----------------------------------------------------------------------------
(* Properties                                                              *)

Answered(route) == feed # None /\ feed.status = "done" /\ feed.route = route

\* Rows of one kind on the feed's markets that were created after a row.
NewerThan(i, kind, markets) ==
    {j \in committed : j > i /\ rows[j].kind = kind /\ rows[j].market \in markets}

\* Whatever was stored when the page was asked for is on it, the reader's own
\* comment above all, unless the seeds made it or a whole list of newer rows hides
\* it; and nothing else, newest first.
FeedIsComplete ==
    Answered("market") =>
        /\ \A i \in feed.start \cup ({feed.wrote} \ {0}) :
              LET comment == rows[i].kind = "comment"
                  markets == IF comment THEN {feed.market} ELSE feed.asked
                  limit == IF comment THEN CommentsLimit ELSE TradesLimit IN
              /\ rows[i].market \in markets /\ ~rows[i].demo
              /\ Cardinality(NewerThan(i, rows[i].kind, markets)) < limit
              => i \in ToSet(feed.trades)
        /\ \A n \in DOMAIN feed.trades : feed.trades[n] \in committed /\ ~rows[feed.trades[n]].demo
        /\ \A n \in 1 .. Len(feed.trades) - 1 : feed.trades[n] > feed.trades[n + 1]

\* Who is shown as a holder holds what the positions next to it add up to, when
\* nothing was stored meanwhile and the positions are all there.
HoldersAgree ==
    /\ Answered("market") /\ committed = feed.start \cup ({feed.wrote} \ {0})
    /\ Cardinality(OfMarket(feed.market)) <= PositionsLimit
    => \A n \in DOMAIN feed.holders :
          /\ feed.holders[n].user \notin DemoTraders
          /\ feed.holders[n].shares =
                FoldSeq(LAMBDA p, sum : IF p.user = feed.holders[n].user THEN sum + p.shares ELSE sum,
                        0, feed.positions)

\* The platform's feed shows as many public trades as it was asked for, or all.
PlatformIsFull ==
    Answered("platform") =>
        LET public == {i \in feed.start : rows[i].kind = "trade" /\ rows[i].public}
            asked == IF feed.limit > PlatformLimit THEN PlatformLimit ELSE feed.limit IN
        /\ ToSet(feed.trades) \subseteq public
        /\ Len(feed.trades) >= asked \/ ToSet(feed.trades) = public

FeedIsHonest == FeedIsComplete /\ HoldersAgree /\ PlatformIsFull
=============================================================================
