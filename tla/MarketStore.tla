----------------------------- MODULE MarketStore -----------------------------
(***************************************************************************)
(* The copy of a market the service keeps for when the upstream is down:   *)
(* collectMarketSnapshot of src/marketDataService.ts, run by the schedule  *)
(* and by an administrator's request, over src/marketRepository.ts.  Each  *)
(* statement commits by itself: the market is upserted, its outcomes are   *)
(* deleted and inserted one by one, and a snapshot is added.  An outcome's *)
(* place in its market is unique, so an insert into a taken place fails    *)
(* and ends the collection.  Any other statement may fail too, and the     *)
(* process may stop: nothing takes back what was committed before.         *)
(***************************************************************************)
EXTENDS Integers

CONSTANTS
    None,
    Collectors,
    Outcomes        \* how many outcomes the market has

VARIABLES
    known,          \* a row of the market exists
    outcomeRows,           \* who inserted the outcome at each place, or None
    snapshots,      \* whose snapshots were saved, with the market they name
    doing,          \* what each collector does next, or how it ended
    stopped,        \* the collectors that were cut off, before what they do next
    emptiedBy       \* (history) who deleted the outcomes last, or None

storeVars == <<known, outcomeRows, snapshots, doing, stopped, emptiedBy>>

MarketStoreAssumption == Outcomes \in Nat \ {0} /\ None \notin Collectors

Places == 1 .. Outcomes

Step(at, next) == [at |-> at, next |-> next]

Init ==
    /\ known = FALSE /\ outcomeRows = [i \in Places |-> None] /\ snapshots = {}
    /\ doing = [c \in Collectors |-> Step("fetch", 1)]
    /\ stopped = {} /\ emptiedBy = None

At(c, stage) == doing[c].at = stage /\ c \notin stopped

\* polymarket.getMarket: the market, or an answer of 404 or 503.
Fetch(c) ==
    /\ At(c, "fetch")
    /\ doing' = [doing EXCEPT ![c].at = "upsert"] \/ doing' = [doing EXCEPT ![c].at = "refused"]
    /\ UNCHANGED <<known, outcomeRows, snapshots, stopped, emptiedBy>>

UpsertMarket(c) ==
    /\ At(c, "upsert")
    /\ known' = TRUE
    /\ doing' = [doing EXCEPT ![c].at = "delete"]
    /\ UNCHANGED <<outcomeRows, snapshots, stopped, emptiedBy>>

DeleteOutcomes(c) ==
    /\ At(c, "delete")
    /\ outcomeRows' = [i \in Places |-> None]
    /\ doing' = [doing EXCEPT ![c] = Step("insert", 1)]
    /\ emptiedBy' = c
    /\ UNCHANGED <<known, snapshots, stopped>>

After(i) == IF i = Outcomes THEN Step("snapshot", 1) ELSE Step("insert", i + 1)

\* (mutant) A collection that fails takes what it inserted back.
TakeBack(c, i) ==
    IF outcomeRows[i] = None
    THEN outcomeRows' = [outcomeRows EXCEPT ![i] = c] /\ doing' = [doing EXCEPT ![c] = After(i)]
    ELSE /\ outcomeRows' = [j \in Places |-> IF outcomeRows[j] = c THEN None ELSE outcomeRows[j]]
         /\ doing' = [doing EXCEPT ![c].at = "refused"]

Insert(c, i) ==
    IF outcomeRows[i] = None
    THEN outcomeRows' = [outcomeRows EXCEPT ![i] = c] /\ doing' = [doing EXCEPT ![c] = After(i)]
    ELSE outcomeRows' = outcomeRows /\ doing' = [doing EXCEPT ![c].at = "refused"]

InsertOutcome(c) ==
    /\ At(c, "insert")
    /\ Insert(c, doing[c].next)
    /\ UNCHANGED <<known, snapshots, stopped, emptiedBy>>

\* on conflict (source_snapshot_id) do nothing
SaveSnapshot(c) ==
    /\ At(c, "snapshot")
    /\ snapshots' = snapshots \cup {[by |-> c, named |-> known]}
    /\ doing' = [doing EXCEPT ![c].at = "saved"]
    /\ UNCHANGED <<known, outcomeRows, stopped, emptiedBy>>

\* The next statement fails, with its connection or for another reason than a
\* taken place, or the process stops before it.
CutOff(c) ==
    /\ \E stage \in {"upsert", "delete", "insert", "snapshot"} : At(c, stage)
    /\ stopped' = stopped \cup {c}
    /\ UNCHANGED <<known, outcomeRows, snapshots, doing, emptiedBy>>

Next ==
    \E c \in Collectors :
        \/ Fetch(c) \/ UpsertMarket(c) \/ DeleteOutcomes(c) \/ InsertOutcome(c) \/ SaveSnapshot(c)
        \/ CutOff(c)

Spec == Init /\ [][Next]_storeVars

-----------------------------------------------------------------------------
\* A collection that deletes before it inserts into the place, or inserts there
\* next or later.
StillToFill(c, i) ==
    doing[c].at = "delete" \/ (doing[c].at = "insert" /\ doing[c].next <= i)

\* Collections of one market that overlap delete each other's outcomes and run
\* into each other's places.  However they do, an outcome of a stored market is
\* missing only while a collection is on its way to insert it, or because one was
\* cut off on that way: that collections refuse each other never leaves one
\* missing.  A collection that deleted last and came to its end has every outcome
\* there and its own, whatever those cut off before had left; and a saved
\* snapshot names the market's row.
StoredAsCollected ==
    /\ \A i \in Places : known /\ outcomeRows[i] = None => \E c \in Collectors : StillToFill(c, i)
    /\ \A c \in Collectors : emptiedBy = c /\ doing[c].at \in {"snapshot", "saved"} =>
          \A i \in Places : outcomeRows[i] = c
    /\ \A s \in snapshots : s.named
=============================================================================
