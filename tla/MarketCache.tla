---------------------------- MODULE MarketCache ----------------------------
(***************************************************************************)
(* The two levels of cached market data (src/marketDataService.ts and      *)
(* src/cache.ts): the finished list of markets, and the feeds of the       *)
(* upstream it is built from, both through loadWithStaleFallback.  An      *)
(* entry that is too old is still served, while one refresh runs in the    *)
(* background; without an entry callers wait for one load together.        *)
(*                                                                         *)
(* The upstream publishes one change, so that its data is "old" or "new";  *)
(* "empty" is what a feed that may fail contributes then.  An entry is the *)
(* time since it was set, and its value: the version of every feed in it,  *)
(* the age of the oldest data in it, and whether it was built from an      *)
(* answer that was itself stale (isStale of the list's meta).              *)
(***************************************************************************)
EXTENDS Integers, FiniteSetsExt

CONSTANTS
    None,
    Feeds,              \* the upstream queries of one list
    Tolerant,           \* those with a fallback: the events, not the markets
    TTL,                \* how long an entry is fresh
    LoadTime            \* polymarketRequestTimeoutMs: the longest a request takes

\* The oldest data a list that is not marked stale may hold.
Recent == 2 * (TTL - 1) + 2 * LoadTime

\* What is held of some feeds, and since when; a greater age does not matter.
Versions == {"empty", "old", "new"}
Values(feeds) == [versions : [feeds -> Versions], age : 0 .. Recent + 1, stale : BOOLEAN]
Entries(feeds) == [since : 0 .. TTL, value : Values(feeds)]

MarketCacheAssumption ==
    /\ Tolerant \subseteq Feeds /\ Feeds # {}
    /\ TTL \in Nat \ {0} /\ LoadTime \in Nat
    /\ "list" \notin Feeds
    /\ None \notin Values(Feeds) \cup Entries(Feeds)
    /\ \A f \in Feeds : None \notin Values({f}) \cup Entries({f})

VARIABLES
    up,                 \* the upstream answers, in time
    published,          \* the version the upstream has
    entry,              \* MemoryCacheStore.entries
    loads,              \* the loaders that run
    foreground,         \* foregroundCacheLoads
    background,         \* backgroundCacheRefreshes
    answer              \* the last list a client was given

vars == <<up, published, entry, loads, foreground, background, answer>>

EntryKeys == Feeds \cup {"list"}

Older(age) == IF age > Recent THEN age ELSE age + 1

Value(versions, age, stale) == [versions |-> versions, age |-> age, stale |-> stale]
Fetched(f, version) == Value([g \in {f} |-> version], 0, FALSE)
Empty(f) == Value([g \in {f} |-> "empty"], 0, TRUE)

Init ==
    /\ up = TRUE
    /\ published = "old"
    /\ entry = [k \in EntryKeys |-> None]
    /\ loads = {}
    /\ foreground = {} /\ background = {}
    /\ answer = None

-----------------------------------------------------------------------------
(* Reading through the cache                                               *)

\* getEntry(key).isStale
Expired(k) == entry[k].since >= TTL

\* set
Store(k, value) == entry' = [entry EXCEPT ![k] = [since |-> 0, value |-> value]]

Loader(k, mode, got, run) == [key |-> k, mode |-> mode, got |-> got, run |-> run]

\* What loadWithStaleFallback finds of a feed: its value, or that it must wait.
\* A value from an entry that has expired is marked stale (buildCacheMeta).
Found(f) ==
    IF entry[f] = None THEN None
    ELSE [entry[f].value EXCEPT !.stale = @ \/ Expired(f)]

\* The feeds a list finds without an entry, and those it finds expired.
Missing == {f \in Feeds : entry[f] = None}
OutOfDate == {f \in Feeds \ Missing : Expired(f)}

\* (mutant) A refresh is started whether or not one is running.
EveryRefresh(ks) == ks

\* refreshCacheInBackground: nothing if a refresh of the key is running.
ToRefresh(ks) == ks \ background

\* buildMarketList asks for all feeds before it waits for any of them.
StartList(mode) ==
    LET toLoad == Missing \ foreground
        toRefresh == ToRefresh(OutOfDate)
    IN  /\ loads' = loads \cup {Loader("list", mode, [f \in Feeds |-> Found(f)], 0)}
                          \cup {Loader(f, "foreground", None, 0) : f \in toLoad}
                          \cup {Loader(f, "background", None, 0) : f \in toRefresh}
        /\ foreground' = foreground \cup toLoad \cup (IF mode = "foreground" THEN {"list"} ELSE {})
        /\ background' = background \cup toRefresh \cup (IF mode = "background" THEN {"list"} ELSE {})

Answer(value, stale) == answer' = [age |-> value.age, stale |-> value.stale \/ stale,
                                   empty |-> "empty" \in {value.versions[f] : f \in Feeds}]

\* listMarkets, with loadWithStaleFallback and withListCacheMeta.
AskFresh ==
    /\ entry["list"] # None /\ ~Expired("list")
    /\ Answer(entry["list"].value, FALSE)
    /\ UNCHANGED <<up, published, entry, loads, foreground, background>>

AskStale ==
    /\ entry["list"] # None /\ Expired("list")
    /\ Answer(entry["list"].value, TRUE)
    /\ IF ToRefresh({"list"}) = {}
       THEN UNCHANGED <<loads, foreground, background>>
       ELSE StartList("background")
    /\ UNCHANGED <<up, published, entry>>

\* Without an entry the caller waits for the load that runs, or for its own.
AskNothing ==
    /\ entry["list"] = None /\ "list" \notin foreground
    /\ StartList("foreground")
    /\ UNCHANGED <<up, published, entry, answer>>

Ask == AskFresh \/ AskStale \/ AskNothing

-----------------------------------------------------------------------------
(* Loading                                                                 *)

\* polymarketClient.request: the upstream has answered, the body is on its way.
Respond(l) ==
    /\ l.key \in Feeds /\ l.got = None /\ up
    /\ loads' = (loads \ {l}) \cup {[l EXCEPT !.got = Fetched(l.key, published)]}
    /\ UNCHANGED <<up, published, entry, foreground, background, answer>>

\* (mutant) The key of a refresh that failed is never taken out again.
ReleasedUnlessFailed(l, succeeded) ==
    /\ foreground' = IF l.mode = "foreground" THEN foreground \ {l.key} ELSE foreground
    /\ background' = IF l.mode = "background" /\ succeeded THEN background \ {l.key} ELSE background

\* finally: the key may be loaded again, whatever became of the load.
Released(l, succeeded) ==
    /\ foreground' = IF l.mode = "foreground" THEN foreground \ {l.key} ELSE foreground
    /\ background' = IF l.mode = "background" THEN background \ {l.key} ELSE background

\* The lists that wait for a feed go on with what it gives them.
WaitFor(f) == {w \in loads : w.key = "list" /\ w.got[f] = None}
GoOn(f, value) ==
    IF WaitFor(f) = {} THEN loads
    ELSE (loads \ WaitFor(f)) \cup {[w EXCEPT !.got[f] = value] : w \in WaitFor(f)}

FinishFeed(l) ==
    /\ l.key \in Feeds /\ l.got # None
    /\ Store(l.key, l.got)
    /\ loads' = (IF l.mode = "foreground" THEN GoOn(l.key, l.got) ELSE loads) \ {l}
    /\ Released(l, TRUE)
    /\ UNCHANGED <<up, published, answer>>

\* The request fails or times out, or its answer breaks off: a list waiting
\* for it goes on without it.
FailFeed(l) ==
    /\ l.key \in Tolerant
    /\ ~up
    /\ loads' = (IF l.mode = "foreground" THEN GoOn(l.key, Empty(l.key)) ELSE loads) \ {l}
    /\ Released(l, FALSE)
    /\ UNCHANGED <<up, published, entry, answer>>

\* Of a feed without a fallback: the lists waiting for it fail with it.  Who
\* asked for one is given the stored markets, marked stale (buildStoredMarketList).
FailRequired(l) ==
    LET failing == IF l.mode = "foreground" THEN WaitFor(l.key) ELSE {}
        modes == {w.mode : w \in failing}
    IN  /\ l.key \in Feeds \ Tolerant
        /\ ~up
        /\ loads' = loads \ (failing \cup {l})
        /\ foreground' = (IF l.mode = "foreground" THEN foreground \ {l.key} ELSE foreground)
                            \ (IF "foreground" \in modes THEN {"list"} ELSE {})
        /\ background' = (IF l.mode = "background" THEN background \ {l.key} ELSE background)
                            \ (IF "background" \in modes THEN {"list"} ELSE {})
        /\ IF "foreground" \in modes
           THEN answer' = [age |-> Recent + 1, stale |-> TRUE, empty |-> FALSE]
           ELSE UNCHANGED answer
        /\ UNCHANGED <<up, published, entry>>

\* (mutant) A list is as fresh as the newest of its feeds says.
MergeAny(got) == \A f \in Feeds : got[f].stale

\* mergeSourceMeta: stale if one of them is.
Merge(got) == \E f \in Feeds : got[f].stale

Ready(l) == l.key = "list" /\ \A f \in Feeds : l.got[f] # None

Built(l) == Value([f \in Feeds |-> l.got[f].versions[f]],
                  Max({l.got[f].age : f \in Feeds}), Merge(l.got))

\* buildMarketList has all its feeds; those who wait for it are answered.
FinishList(l) ==
    /\ Ready(l)
    /\ Store("list", Built(l))
    /\ loads' = loads \ {l}
    /\ Released(l, TRUE)
    /\ IF l.mode = "foreground" THEN Answer(Built(l), FALSE) ELSE UNCHANGED answer
    /\ UNCHANGED <<up, published>>

Finish == \E l \in loads : FinishFeed(l) \/ FailFeed(l) \/ FailRequired(l) \/ FinishList(l)

-----------------------------------------------------------------------------
(* The upstream and the clock                                              *)

Publish ==
    /\ published = "old" /\ published' = "new"
    /\ UNCHANGED <<up, entry, loads, foreground, background, answer>>

Outage ==
    /\ up' = ~up
    /\ UNCHANGED <<published, entry, loads, foreground, background, answer>>

\* Time passes, but not beyond the timeout of a request; what is left to do
\* of a list once its feeds are there takes no time.
Aged(value) == [value EXCEPT !.age = Older(@)]
Tick ==
    /\ \A l \in loads : l.run < LoadTime /\ ~Ready(l)
    /\ entry' = [k \in EntryKeys |-> IF entry[k] = None THEN None
                    ELSE [since |-> IF Expired(k) THEN entry[k].since ELSE entry[k].since + 1,
                          value |-> Aged(entry[k].value)]]
    /\ loads' = {IF l.key = "list"
                 THEN [l EXCEPT !.got = [f \in Feeds |->
                          IF @[f] = None THEN None ELSE Aged(@[f])]]
                 ELSE [l EXCEPT !.run = @ + 1,
                          !.got = IF @ = None THEN None ELSE Aged(@)] : l \in loads}
    /\ UNCHANGED <<up, published, foreground, background, answer>>

Next ==
    \/ Ask
    \/ \E l \in loads : Respond(l)
    \/ Finish
    \/ Publish \/ Outage \/ Tick

\* Requests time out, time passes, and readers of the list keep coming.
Fairness == WF_vars(Finish) /\ WF_vars(Tick) /\ WF_vars(Ask)
                /\ \A f \in Feeds : WF_vars(\E l \in loads : l.key = f /\ Respond(l))

Spec == Init /\ [][Next]_vars /\ Fairness

-----------------------------------------------------------------------------
(* Properties                                                              *)

\* A list that is not marked stale is complete and recent, though it may be
\* built from cached feeds and be cached itself: its oldest data was fetched
\* at most two lifetimes and two requests ago.
HonestAnswers ==
    answer # None /\ ~answer.stale => answer.age <= Recent /\ ~answer.empty

\* What an entry holds of a feed is never replaced by something the upstream
\* had before: loads that overlap do not overtake one another.
Rank(version) == IF version = "empty" THEN 0 ELSE IF version = "old" THEN 1 ELSE 2
NeverBack ==
    [][\A k \in EntryKeys : entry[k] # None =>
         /\ entry'[k] # None
         /\ \A f \in DOMAIN entry[k].value.versions :
                Rank(entry'[k].value.versions[f]) >= Rank(entry[k].value.versions[f])]_vars

\* After every outage, and however many refreshes failed in it, what the
\* upstream has published is shown by the list in the end.
ShownEventually ==
    <>[](up /\ published = "new") =>
        <>[](entry["list"] # None /\ \A f \in Feeds : entry["list"].value.versions[f] = "new")
=============================================================================
