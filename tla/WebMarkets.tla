----------------------------- MODULE WebMarkets -----------------------------
(***************************************************************************)
(* The list of markets a page of the web client shows.                     *)
(*                                                                         *)
(* Its filters (src/web/src/lib/discovery.ts) are kept in the URL only:    *)
(* every choice reads them from it, merges a patch into them and navigates. *)
(* A text that a user has typed is a word and whether there are blanks     *)
(* around it; a volume and a date stand for the four such filters.         *)
(*                                                                         *)
(* The list itself (src/web/src/hooks/useMarkets.ts): one effect loads the *)
(* first page of the filters that are asked for, loadMore adds the next    *)
(* page to what is shown, a timer prefetches it, and all of them share     *)
(* requests through a cache of pages the whole client has in common.       *)
(* What the server sends may change once between any two requests (a new   *)
(* market comes first), and its own caches may send either list from then  *)
(* on.  A market is [f, n]: number n of those that pass the filters f.  A  *)
(* request id (requestIdRef) that is no longer the current one is a wait   *)
(* that was given up.                                                      *)
(***************************************************************************)
EXTENDS Integers, SequencesExt, FiniteSetsExt

CONSTANTS
    None,
    Words, Categories, Topics,      \* those of the upstream's tags
    Dates,
    Filters,            \* what the user may ask for
    Size,               \* how many markets pass each
    PageSize,
    PagesKept,          \* marketPageCacheLimit
    MaxFetches          \* bound: requests in flight

\* The empty text, which also stands for a filter that is not set.
Empty == ""

WebMarketsAssumption ==
    /\ {Empty, None} \cap (Words \cup Categories \cup Topics \cup Dates) = {}
    /\ Dates # {}
    /\ {"sports", "social"} \subseteq Topics /\ "all" \notin Topics
    /\ None \notin Filters \cup Nat \cup {"first", "more"}
    /\ Size \in Nat /\ PageSize \in Nat \ {0} /\ PagesKept \in Nat \ {0} /\ MaxFetches \in Nat \ {0}

-----------------------------------------------------------------------------
(* Filters                                                                 *)

Text(word, padded) == [word |-> word, padded |-> padded]
Blank == Text(Empty, FALSE)
Trim(t) == Text(t.word, FALSE)
Typed == [word : Words \cup {Empty}, padded : BOOLEAN]

Sorts == {"trending", "closing_soon"}
Statuses == {"all", "live", "upcoming", "closed"}

\* defaultMarketFilters
Default ==
    [search |-> Blank, category |-> Empty, topic |-> "all", sort |-> "trending", status |-> "live",
     volume |-> Blank, closing |-> None]

\* A patch is a function from some of the filters; to take one away is Empty.
Has(patch, f) == f \in DOMAIN patch

\* (mutant) The topic stays when a category is chosen.
TopicKept(filters, patch) == IF Has(patch, "topic") THEN patch["topic"] ELSE filters.topic

\* mergeDiscoveryFilters, of the topic.
TopicOf(filters, patch) ==
    IF Has(patch, "category") /\ patch["category"] # Empty THEN "all"
    ELSE IF Has(patch, "topic") THEN patch["topic"]
    ELSE filters.topic

MergeDiscoveryFilters(filters, patch) ==
    [f \in DOMAIN filters |->
        IF f = "topic" THEN TopicOf(filters, patch) ELSE IF Has(patch, f) THEN patch[f] ELSE filters[f]]

\* The texts of the links and of the tags.
Plain(words) == [word : words, padded : {FALSE}]

\* primaryNav: chosen with nothing else.
PrimaryNav ==
    [category : Categories \cup {Empty}, topic : {"all"}, sort : Sorts]
    \cup [category : {Empty}, topic : Topics, sort : {"trending"}]
    \cup [category : Categories, topic : {"all"}, sort : {"trending"}, search : Plain(Words)]

\* topicTabs, and those of the tags (buildTopicTabsFromTags).
TopicTabs ==
    [category : Categories \cup {Empty}, topic : {"all"}, search : Plain(Words \cup {Empty})]
    \cup [category : {Empty}, topic : Topics, search : {Blank}, status : {"all"}]

\* updateFilter of the page, and the search of the header.
UpdateFilter ==
    [search : Typed] \cup [category : Categories \cup {Empty}] \cup [sort : Sorts] \cup [status : Statuses]

-----------------------------------------------------------------------------
(* The URL: a path and the parameters that are set                         *)

\* getDiscoveryPath
GetDiscoveryPath(filters) ==
    IF filters.category # Empty THEN <<"category", filters.category>>
    ELSE IF filters.topic # "all" THEN <<"topic", filters.topic>>
    ELSE <<"markets">>

Param(name, value) == <<name, value>>
SetIf(set, name, value) == IF set THEN {Param(name, value)} ELSE {}

\* getDiscoverySearch
GetDiscoverySearch(filters) ==
    UNION {SetIf(Trim(filters.search) # Blank, "search", Trim(filters.search)),
           SetIf(filters.sort # Default.sort, "sort", filters.sort),
           SetIf(filters.status # Default.status, "status", filters.status),
           SetIf(Trim(filters.volume) # Blank, "volume", Trim(filters.volume)),
           SetIf(filters.closing # None, "closing", filters.closing)}

\* getDiscoveryUrl
GetDiscoveryUrl(filters) == [path |-> GetDiscoveryPath(filters), params |-> GetDiscoverySearch(filters)]

Read(url, name, default) ==
    IF \E p \in url.params : p[1] = name
    THEN (CHOOSE p \in url.params : p[1] = name)[2] ELSE default

\* getFiltersFromUrl
GetFiltersFromUrl(url) ==
    [search |-> Read(url, "search", Blank),
     category |-> IF url.path[1] = "category" THEN url.path[2] ELSE Read(url, "category", Empty),
     topic |-> IF url.path[1] = "topic" THEN url.path[2] ELSE Read(url, "topic", Default.topic),
     sort |-> Read(url, "sort", Default.sort),
     status |-> Read(url, "status", Default.status),
     volume |-> Read(url, "volume", Blank),
     closing |-> Read(url, "closing", None)]

-----------------------------------------------------------------------------
(* The request                                                             *)

\* getBackendCategory
GetBackendCategory(topic) == IF topic \in {"sports", "culture", "weather"} THEN topic ELSE Empty

\* buildMarketSearchParams, without the limit and the offset.
BuildMarketSearchParams(filters) ==
    LET category == IF filters.category # Empty THEN filters.category ELSE GetBackendCategory(filters.topic)
        topic == IF filters.topic = "social" THEN "all" ELSE filters.topic
        search == IF Trim(filters.search) # Blank THEN Trim(filters.search)
                  ELSE IF filters.topic = "social" THEN Text("during", FALSE) ELSE Blank
    IN  UNION {{Param("sort", filters.sort)},
               SetIf(category # Empty, "category", category),
               SetIf(search # Blank, "search", search),
               SetIf(topic # "all", "topic", topic),
               SetIf(filters.status # "all", "status", filters.status),
               SetIf(filters.status \in {"live", "upcoming"}, "active", TRUE),
               SetIf(filters.status \in {"live", "upcoming", "closed"}, "closed", filters.status = "closed"),
               SetIf(Trim(filters.volume) # Blank, "volume", Trim(filters.volume)),
               SetIf(filters.closing # None, "closing", filters.closing)}

-----------------------------------------------------------------------------
(* The state of the list                                                   *)

VARIABLES
    asked,              \* deferredFilters
    shown,              \* the state of the hook
    pageCache,          \* marketPageCache
    fetches,            \* the requests in flight, of loadMarkets
    waits,              \* who waits for which, and is not given up
    armed,              \* the timer of the prefetch
    changed             \* the server has one more market

vars == <<asked, shown, pageCache, fetches, waits, armed, changed>>

\* buildMarketSearchParams, as far as one list and its pages go.
Key(f, offset) == [f |-> f, offset |-> offset]

Market(f, n) == [f |-> f, n |-> n]
Ids == 1 .. MaxFetches

State(status, data, next, more) == [status |-> status, data |-> data, next |-> next, more |-> more]
Loading == State("loading", <<>>, None, FALSE)
Failed == State("error", <<>>, None, FALSE)

Init ==
    /\ asked = None
    /\ shown = Loading
    /\ pageCache = <<>>
    /\ fetches = {} /\ waits = {}
    /\ armed = FALSE
    /\ changed = FALSE

-----------------------------------------------------------------------------
(* What the server sends                                                   *)

Feed(f, new) == [i \in 1 .. Size + (IF new THEN 1 ELSE 0) |-> Market(f, IF new THEN i - 1 ELSE i)]

\* getNextOffset
NextOffset(offset, received, total) ==
    IF received > 0 /\ offset + received < total THEN offset + received ELSE None

\* dedupeMarkets
Dedupe(markets) ==
    FoldLeft(LAMBDA kept, m : IF Contains(kept, m) THEN kept ELSE Append(kept, m), <<>>, markets)

\* toMarketsPage, of what is sent for a key.
ToMarketsPage(key, new) ==
    LET feed == Feed(key.f, new)
        sent == SubSeq(feed, key.offset + 1, Min({key.offset + PageSize, Len(feed)}))
    IN  [data |-> Dedupe(sent), next |-> NextOffset(key.offset, Len(sent), Len(feed))]

-----------------------------------------------------------------------------
(* The cache of pages.  Its ages: 0 is up to marketPageRevalidateMs, 1 is   *)
(* up to marketPageCacheMaxAgeMs, and 2 beyond.                            *)

Kept == DOMAIN pageCache
Entry(value, age, promise) == [value |-> value, age |-> age, promise |-> promise]

\* readMarketsPageCache, shouldRevalidateMarketsPage
Readable(key) == key \in Kept /\ pageCache[key].value # None /\ pageCache[key].age < 2
ShouldRevalidate(key) == key \notin Kept \/ pageCache[key].value = None \/ pageCache[key].age > 0

\* An entry without a page has updatedAt 0.
Rank(e) == IF e.value = None THEN 3 ELSE e.age

\* rememberMarketsPage: the page replaces the entry, the promise with it, and
\* the entry updated longest ago goes when there are too many.
Remember(key, page) ==
    LET all == [k \in Kept \cup {key} |-> IF k = key THEN Entry(page, 0, None) ELSE pageCache[k]]
        others == DOMAIN all \ {key}
    IN  IF Cardinality(DOMAIN all) <= PagesKept THEN pageCache' = all
        ELSE \E out \in {k \in others : \A o \in others : Rank(all[o]) <= Rank(all[k])} :
                 pageCache' = [k \in DOMAIN all \ {out} |-> all[k]]

\* (mutant) A request that failed stays in the cache as the one to wait for.
ForgetOnSuccess(key, id) == UNCHANGED pageCache

\* finally: the promise is taken out, unless another one has taken its place.
Forget(key, id) ==
    IF key \in Kept /\ pageCache[key].promise = id THEN pageCache' = [pageCache EXCEPT ![key].promise = None]
    ELSE UNCHANGED pageCache

Waiting(id, who) == IF who = None THEN {} ELSE {[id |-> id, who |-> who]}

\* requestMarketsPage: wait for the request that runs, or send one.
Request(key, who, others) ==
    IF key \in Kept /\ pageCache[key].promise # None
    THEN /\ waits' = others \cup Waiting(pageCache[key].promise, who)
         /\ UNCHANGED <<pageCache, fetches>>
    ELSE \E id \in Ids :
         /\ \A r \in fetches : r.id # id
         /\ fetches' = fetches \cup {[id |-> id, key |-> key]}
         /\ waits' = others \cup Waiting(id, who)
         /\ pageCache' = [k \in Kept \cup {key} |->
                         IF k # key THEN pageCache[k]
                         ELSE IF key \in Kept THEN [pageCache[key] EXCEPT !.promise = id]
                         ELSE Entry(None, 2, id)]

-----------------------------------------------------------------------------
(* The hook                                                                *)

\* The effect of the prefetch runs again when the filters, the next offset or
\* the status have changed.
Arm ==
    armed' = IF <<asked', shown'.next, shown'.status>> = <<asked, shown.next, shown.status>> THEN armed
             ELSE shown'.status = "ready" /\ shown'.next # None /\ ShouldRevalidate(Key(asked', shown'.next))

\* (mutant) The answers that the filters before are waiting for still count.
StillAwaited == waits

\* requestIdRef: those who wait for the filters before are given up.
Awaited == {}

\* The effect on the filters.
Ask(f) ==
    /\ f # asked /\ asked' = f
    /\ LET key == Key(f, 0) IN
       /\ shown' = IF Readable(key)
                   THEN State("ready", pageCache[key].value.data, pageCache[key].value.next, FALSE)
                   ELSE Loading
       /\ IF Readable(key) /\ ~ShouldRevalidate(key)
          THEN waits' = Awaited /\ UNCHANGED <<pageCache, fetches>>
          ELSE Request(key, "first", Awaited)
    /\ Arm
    /\ UNCHANGED changed

LoadMore ==
    /\ shown.next # None /\ ~shown.more /\ shown.status # "loading"
    /\ shown' = [shown EXCEPT !.more = TRUE]
    /\ Request(Key(asked, shown.next), "more", waits)
    /\ UNCHANGED <<asked, armed, changed>>

Prefetch ==
    /\ armed /\ armed' = FALSE
    /\ Request(Key(asked, shown.next), None, waits)
    /\ UNCHANGED <<asked, shown, changed>>

WaitsFor(r, who) == [id |-> r.id, who |-> who] \in waits
Answered(r) ==
    /\ fetches' = fetches \ {r}
    /\ waits' = {w \in waits : w.id # r.id}

\* What the first page and the next one become.
First(page) == State("ready", page.data, page.next, FALSE)
More(page) == State("ready", Dedupe(shown.data \o page.data), page.next, FALSE)

Succeed(r) ==
    /\ \E new \in {FALSE, changed} :
         LET page == ToMarketsPage(r.key, new) IN
         /\ Remember(r.key, page)
         /\ shown' = IF WaitsFor(r, "first") THEN First(page)
                     ELSE IF WaitsFor(r, "more") THEN More(page)
                     ELSE shown
    /\ Answered(r)
    /\ UNCHANGED <<asked, changed>>
    /\ Arm

\* Without the next page the list stays.
NoMore == [shown EXCEPT !.status = "error", !.more = FALSE]

Fail(r) ==
    /\ Forget(r.key, r.id)
    /\ shown' = IF WaitsFor(r, "first") THEN Failed ELSE IF WaitsFor(r, "more") THEN NoMore ELSE shown
    /\ Answered(r)
    /\ UNCHANGED <<asked, changed>>
    /\ Arm

\* Time passes: the pages get older.
GrowOld ==
    /\ \E k \in Kept : pageCache[k].value # None /\ pageCache[k].age < 2
    /\ pageCache' = [k \in Kept |-> [pageCache[k] EXCEPT !.age = IF @ < 2 THEN @ + 1 ELSE @]]
    /\ UNCHANGED <<asked, shown, fetches, waits, armed, changed>>

Publish ==
    /\ ~changed /\ changed' = TRUE
    /\ UNCHANGED <<asked, shown, pageCache, fetches, waits, armed>>

Serve == LoadMore \/ Prefetch \/ \E r \in fetches : Succeed(r)

\* What a configuration bounds.
Disturb == GrowOld \/ Publish \/ (\E f \in Filters : Ask(f)) \/ (\E r \in fetches : Fail(r))

Next == Serve \/ Disturb

-----------------------------------------------------------------------------
(* Properties                                                              *)

Trimmed(filters) == [filters EXCEPT !.search = Trim(@), !.volume = Trim(@)]

\* Whatever is chosen on a page with these filters, the page that the URL leads
\* to has exactly the filters that were merged, but for the blanks.
UrlKeepsFilters(filters) ==
    \A patch \in PrimaryNav \cup TopicTabs \cup UpdateFilter :
        \A from \in {filters, Default} :
            LET merged == MergeDiscoveryFilters(from, patch) IN
            GetFiltersFromUrl(GetDiscoveryUrl(merged)) = Trimmed(merged)

\* Two pages that differ in a filter ask for different lists, and so do not
\* share a page of the cache, whose key is the request: all but those of the
\* social topic, which is a search for everything that happens "during".
KeysTellListsApart(filters) ==
    \A patch \in PrimaryNav \cup TopicTabs \cup UpdateFilter :
        LET other == Trimmed(MergeDiscoveryFilters(filters, patch)) IN
        BuildMarketSearchParams(other) = BuildMarketSearchParams(filters) =>
            other = Trimmed(filters) \/ "social" \in {other.topic, filters.topic}
\* The list holds markets of the filters that are asked for and no others,
\* whatever answers late, and none of them twice; and while the server has the
\* same ones it does not end before the last.  (It may leave some out: a first
\* page that is loaded again and comes late replaces what loadMore has added
\* since, and the next page, if it was asked for before, is added behind it.)
ListIsOfTheFilters ==
    /\ \A i \in DOMAIN shown.data : shown.data[i].f = asked
    /\ IsInjective(shown.data)
    /\ ~changed /\ Size > 0 /\ shown.status = "ready" /\ shown.next = None =>
           Contains(shown.data, Market(asked, Size))

\* A page that says it is loading waits for a request that is in flight, and so
\* does whoever finds a promise in the cache: nobody waits for nothing.
NobodyWaitsForNothing ==
    LET awaited(who) == \E r \in fetches : WaitsFor(r, who) IN
    /\ asked # None /\ shown.status = "loading" => awaited("first")
    /\ shown.more => awaited("more")
    /\ \A k \in Kept : pageCache[k].promise # None => [id |-> pageCache[k].promise, key |-> k] \in fetches
=============================================================================
