-------------------------- MODULE MoneyOutboxProofs --------------------------
(***************************************************************************)
(* The outbox for any number of events, drains, runners and attempts: at   *)
(* most one claim of an event can still change its row, no event is        *)
(* delivered more often than it was tried, and the whole implements        *)
(* OutboxDelivery.                                                         *)
(***************************************************************************)
EXTENDS MoneyOutbox, FiniteSetTheorems, TLAPS

USE OutboxAssumption

\* A claim is drawn once: its token is the attempt it began ...
TokensSpent == \A d \in Drains : \A c \in Holding(d) : c.token <= row[c.event].attempts

\* ... so no two drains ever hold the same one ...
OwnedOnce == \A d1, d2 \in Drains : \A c \in Holding(d1) \cap Holding(d2) : d1 = d2

\* ... nor does a drain give it to two runners.
TakenOnce == \A d \in Drains : \A c \in queue[d] : <<c, "handle">> \notin inflight[d]

MarkedIsAccepted ==
    \A d \in Drains, c \in Claims : <<c, "mark">> \in inflight[d] => accepted[c.event] > 0

\* Every claim that is worked on has a live runner.
RunnersBusy ==
    \A d \in Drains : IsFiniteSet(inflight[d]) /\ Cardinality(inflight[d]) <= runners[d]

Claim(e, t) == [event |-> e, token |-> t]

\* The claims of an event that no handler has seen yet.
Undelivered(e) ==
    {t \in Tokens : \E d \in Drains : \/ Claim(e, t) \in queue[d]
                                     \/ <<Claim(e, t), "handle">> \in inflight[d]}

TriesLeft == \A e \in Events : accepted[e] + Cardinality(Undelivered(e)) <= row[e].attempts

OInv ==
    /\ TypeOK
    /\ TokensSpent
    /\ OwnedOnce
    /\ TakenOnce
    /\ MarkedIsAccepted
    /\ RunnersBusy
    /\ TriesLeft

-----------------------------------------------------------------------------
LEMMA RowFields ==
    ASSUME NEW r \in Rows, NEW status \in Statuses
    PROVE  /\ Unlocked(r, status) \in Rows
           /\ Unlocked(r, status).attempts = r.attempts /\ Unlocked(r, status).status = status
           /\ Failed(r) \in Rows /\ Failed(r).attempts = r.attempts
           /\ Failed(r).status = IF r.attempts >= MaxAttempts THEN "dead_letter" ELSE "failed"
  BY DEF Unlocked, Failed, DeadLettered, Rows, Statuses, Tokens

LEMMA ClaimedFields ==
    ASSUME NEW r \in Rows, Claimable(r)
    PROVE  /\ Claimed(r) \in Rows
           /\ Claimed(r).attempts = r.attempts + 1 /\ Claimed(r).token = r.attempts + 1
           /\ Claimed(r).status = "processing"
  BY DEF Claimed, Claimable, Rows, Statuses, Tokens

LEMMA UndeliveredFinite ==
    ASSUME NEW e \in Events
    PROVE  /\ IsFiniteSet(Undelivered(e)) /\ Cardinality(Undelivered(e)) \in Nat
           /\ IsFiniteSet(Undelivered(e)') /\ Cardinality(Undelivered(e)') \in Nat
<1>1. IsFiniteSet(Tokens)
  BY FS_Interval DEF Tokens
<1>2. Undelivered(e) \in SUBSET Tokens /\ Undelivered(e)' \in SUBSET Tokens
  BY DEF Undelivered
<1>3. IsFiniteSet(Undelivered(e)) /\ IsFiniteSet(Undelivered(e)')
  BY <1>1, <1>2, FS_Subset
<1> QED
  BY <1>3, FS_CardinalityType

\* A claim of a set that goes, or goes on to another stage.
LEMMA Replaced ==
    ASSUME NEW d \in Drains, RunnersBusy, TypeOK, NEW i \in inflight[d], NEW j
    PROVE  /\ IsFiniteSet(inflight[d] \ {i})
           /\ Cardinality(inflight[d] \ {i}) <= runners[d] - 1 /\ runners[d] > 0
           /\ IsFiniteSet((inflight[d] \ {i}) \cup {j})
           /\ Cardinality((inflight[d] \ {i}) \cup {j}) <= runners[d]
<1>1. /\ IsFiniteSet(inflight[d]) /\ Cardinality(inflight[d]) \in Nat /\ runners[d] \in Nat
      /\ Cardinality(inflight[d]) <= runners[d]
  BY FS_CardinalityType DEF RunnersBusy, TypeOK
<1>2. /\ IsFiniteSet(inflight[d] \ {i})
      /\ Cardinality(inflight[d] \ {i}) = Cardinality(inflight[d]) - 1
  BY <1>1, FS_RemoveElement
<1>3. Cardinality(inflight[d] \ {i}) \in Nat
  BY <1>2, FS_CardinalityType
<1>4. /\ IsFiniteSet((inflight[d] \ {i}) \cup {j})
      /\ Cardinality((inflight[d] \ {i}) \cup {j})
           \in {Cardinality(inflight[d] \ {i}), Cardinality(inflight[d] \ {i}) + 1}
  BY <1>2, FS_AddElement, Zenon
<1> QED
  BY <1>1, <1>2, <1>3, <1>4

\* A step that claims nothing, hands nothing to a handler and delivers nothing.
LEMMA NoNewClaim ==
    ASSUME OInv,
           row' \in [Events -> Rows], \A e \in Events : row'[e].attempts = row[e].attempts,
           phase' \in [Drains -> {"idle", "claim", "deliver"}],
           queue' \in [Drains -> SUBSET Claims],
           inflight' \in [Drains -> SUBSET (Claims \X {"handle", "mark", "fail"})],
           runners' \in [Drains -> 0 .. Concurrency],
           accepted' = accepted, RunnersBusy',
           \A d \in Drains : queue'[d] \subseteq queue[d] /\ Holding(d)' \subseteq Holding(d),
           \A d \in Drains, c \in Claims, s \in {"handle", "mark"} :
               <<c, s>> \in inflight'[d] => <<c, s>> \in inflight[d]
    PROVE  OInv'
<1>1. TypeOK'
  BY DEF OInv, TypeOK
<1>2. \A d \in Drains : \A c \in Holding(d) : c \in Claims
  BY DEF Holding, OInv, TypeOK
<1>3. TokensSpent'
  BY <1>2 DEF OInv, TokensSpent, Claims
<1>4. OwnedOnce'
  BY DEF OInv, OwnedOnce
<1>5. TakenOnce' /\ MarkedIsAccepted'
  BY DEF OInv, TakenOnce, MarkedIsAccepted, TypeOK
<1>6. TriesLeft'
  <2> SUFFICES ASSUME NEW e \in Events
               PROVE  accepted'[e] + Cardinality(Undelivered(e)') <= row'[e].attempts
    BY DEF TriesLeft
  <2>1. Undelivered(e)' \subseteq Undelivered(e)
    BY DEF Undelivered, Claim, Claims
  <2>2. Cardinality(Undelivered(e)') <= Cardinality(Undelivered(e))
    BY <2>1, UndeliveredFinite, FS_Subset
  <2> QED
    BY <2>2, UndeliveredFinite DEF OInv, TypeOK, TriesLeft, Rows
<1> QED
  BY <1>1, <1>3, <1>4, <1>5, <1>6 DEF OInv

LEMMA OutboxInit == Init => OInv
<1> SUFFICES ASSUME Init PROVE OInv
  OBVIOUS
<1>1. TypeOK
  BY DEF Init, Absent, Untried, TypeOK, Rows, Statuses
<1>2. \A d \in Drains : queue[d] = {} /\ inflight[d] = {} /\ Holding(d) = {}
  BY DEF Init, Holding
<1>3. \A e \in Events : Undelivered(e) = {}
  BY <1>2 DEF Undelivered
<1>4. TriesLeft
  <2>1. \A e \in Events : accepted[e] = 0 /\ row[e].attempts = 0
    BY DEF Init, Absent, Untried
  <2>2. \A e \in Events : Cardinality(Undelivered(e)) = 0
    BY <1>3, FS_EmptySet
  <2> QED
    BY <2>1, <2>2 DEF TriesLeft
<1> QED
  BY <1>1, <1>2, <1>4, FS_EmptySet
  DEF Init, OInv, TokensSpent, OwnedOnce, TakenOnce, MarkedIsAccepted, RunnersBusy

\* A claim raises the attempts to its own token: it is new, and it has a try to
\* spend.
LEMMA ClaimBatchStep ==
    ASSUME OInv, NEW d \in Drains, ClaimBatch(d) PROVE OInv'
<1>1. PICK batch \in Batches(Claimable) :
          /\ row' = [e \in Events |-> IF e \in batch THEN Claimed(row[e]) ELSE row[e]]
          /\ queue' = [queue EXCEPT ![d] =
                          {[event |-> e, token |-> row'[e].token] : e \in batch}]
  BY DEF ClaimBatch, Change
<1>2. batch \subseteq Events /\ \A e \in batch : Claimable(row[e])
  BY DEF Batches
<1>3. row \in [Events -> Rows]
  BY DEF OInv, TypeOK
<1>4. /\ row' \in [Events -> Rows]
      /\ \A e \in batch : /\ row'[e].attempts = row[e].attempts + 1
                           /\ row'[e].token = row[e].attempts + 1
                           /\ row[e].attempts < MaxAttempts
      /\ \A e \in Events \ batch : row'[e] = row[e]
  BY <1>1, <1>2, <1>3, ClaimedFields DEF Claimable
<1>5. queue' = [queue EXCEPT ![d] = {Claim(e, row[e].attempts + 1) : e \in batch}]
  <2>1. \A e \in batch :
            [event |-> e, token |-> row'[e].token] = Claim(e, row[e].attempts + 1)
    BY <1>4 DEF Claim
  <2>2. {[event |-> e, token |-> row'[e].token] : e \in batch}
          = {Claim(e, row[e].attempts + 1) : e \in batch}
    BY <2>1
  <2> QED
    BY <1>1, <2>2
<1>6. \A e \in Events : row[e].attempts \in Nat /\ row[e].attempts <= row'[e].attempts
  BY <1>3, <1>4 DEF Rows
<1>7. \A e \in batch : Claim(e, row[e].attempts + 1) \in Claims
  BY <1>2, <1>4, <1>6 DEF Claim, Claims, Tokens
<1>8. TypeOK'
  <2>1. /\ queue' \in [Drains -> SUBSET Claims]
        /\ inflight' \in [Drains -> SUBSET (Claims \X {"handle", "mark", "fail"})]
    BY <1>5, <1>7 DEF OInv, TypeOK, ClaimBatch
  <2>2. /\ phase' \in [Drains -> {"idle", "claim", "deliver"}]
        /\ runners' \in [Drains -> 0 .. Concurrency] /\ accepted' \in [Events -> Nat]
    BY DEF OInv, TypeOK, ClaimBatch
  <2> QED
    BY <1>4, <2>1, <2>2 DEF TypeOK
<1>9. /\ \A f \in Drains : \A c \in Holding(f)' :
            c \in Holding(f) \/ (f = d /\ \E e \in batch : c = Claim(e, row[e].attempts + 1))
      /\ inflight' = inflight
  BY <1>5 DEF Holding, ClaimBatch, OInv, TypeOK
<1>10. \A e \in batch, f \in Drains : Claim(e, row[e].attempts + 1) \notin Holding(f)
  BY <1>2, <1>6 DEF OInv, TokensSpent, Claim
<1>11. TokensSpent'
  <2> SUFFICES ASSUME NEW f \in Drains, NEW c \in Holding(f)'
               PROVE  c.token <= row'[c.event].attempts
    BY DEF TokensSpent
  <2>1. CASE c \in Holding(f)
    <3>1. c \in Claims
      BY <2>1 DEF Holding, OInv, TypeOK
    <3> QED
      BY <1>6, <1>4, <2>1, <3>1 DEF OInv, TokensSpent, Claims, Tokens, Rows
  <2>2. ASSUME NEW e \in batch, c = Claim(e, row[e].attempts + 1)
        PROVE  c.token <= row'[c.event].attempts
    BY <1>2, <1>4, <1>6, <2>2 DEF Claim
  <2> QED
    BY <1>9, <2>1, <2>2
<1>12. OwnedOnce'
  BY <1>9, <1>10 DEF OInv, OwnedOnce
<1>13. TakenOnce'
  <2>1. \A f \in Drains, c \in Claims : <<c, "handle">> \in inflight[f] => c \in Holding(f)
    BY DEF Holding
  <2>2. \A f \in Drains : \A c \in queue'[f] :
            \/ c \in queue[f]
            \/ c \in Claims /\ c \notin Holding(f)
    BY <1>5, <1>7, <1>10 DEF OInv, TypeOK
  <2> QED
    BY <1>9, <2>1, <2>2 DEF OInv, TakenOnce
<1>14. MarkedIsAccepted'
  BY <1>9 DEF OInv, MarkedIsAccepted, ClaimBatch
<1>16. RunnersBusy'
  <2>1. phase[d] = "claim" /\ runners' = [runners EXCEPT ![d] = Concurrency]
    BY DEF ClaimBatch
  <2>2. \A f \in Drains : /\ Cardinality(inflight[f]) \in Nat /\ runners[f] \in 0 .. Concurrency
                          /\ runners'[f] \in {runners[f], Concurrency}
    BY <2>1, FS_CardinalityType DEF OInv, RunnersBusy, TypeOK
  <2> QED
    BY <1>9, <2>2 DEF OInv, RunnersBusy
<1>15. TriesLeft'
  <2> SUFFICES ASSUME NEW e \in Events
               PROVE  accepted'[e] + Cardinality(Undelivered(e)') <= row'[e].attempts
    BY DEF TriesLeft
  <2>1. accepted' = accepted /\ accepted[e] \in Nat
    BY DEF ClaimBatch, OInv, TypeOK
  <2>2. accepted[e] + Cardinality(Undelivered(e)) <= row[e].attempts
    BY DEF OInv, TriesLeft
  <2>3. CASE e \in batch
    <3>1. Undelivered(e)' \in SUBSET (Undelivered(e) \cup {row[e].attempts + 1})
      BY <1>5, <1>9 DEF Undelivered, Claim, OInv, TypeOK
    <3>2. IsFiniteSet(Undelivered(e))
      BY UndeliveredFinite
    <3>3. /\ IsFiniteSet(Undelivered(e) \cup {row[e].attempts + 1})
          /\ Cardinality(Undelivered(e) \cup {row[e].attempts + 1})
               \in {Cardinality(Undelivered(e)), Cardinality(Undelivered(e)) + 1}
      BY <3>2, FS_AddElement, Zenon
    <3>4. Cardinality(Undelivered(e)')
             <= Cardinality(Undelivered(e) \cup {row[e].attempts + 1})
      BY <3>1, <3>3, FS_Subset
    <3> QED
      BY <1>4, <1>6, <2>1, <2>2, <2>3, <3>3, <3>4, UndeliveredFinite
  <2>4. CASE e \notin batch
    <3>1. Undelivered(e)' \subseteq Undelivered(e)
      BY <1>5, <1>9, <2>4 DEF Undelivered, Claim, OInv, TypeOK
    <3>2. Cardinality(Undelivered(e)') <= Cardinality(Undelivered(e))
      BY <3>1, UndeliveredFinite, FS_Subset
    <3> QED
      BY <1>4, <1>6, <2>1, <2>2, <2>4, <3>2, UndeliveredFinite
  <2> QED
    BY <2>3, <2>4
<1> QED
  BY <1>8, <1>11, <1>12, <1>13, <1>14, <1>15, <1>16 DEF OInv

\* A claim moves from the queue of its drain into the hands of a runner.
LEMMA StartDeliveryStep ==
    ASSUME OInv, NEW d \in Drains, NEW c \in Claims, StartDelivery(d, c) PROVE OInv'
<1>1. /\ UNCHANGED <<row, phase, runners, accepted>> /\ c \in queue[d]
      /\ queue' = [queue EXCEPT ![d] = queue[d] \ {c}]
      /\ inflight' = [inflight EXCEPT ![d] = inflight[d] \cup {<<c, "handle">>}]
  BY DEF StartDelivery
<1>8. RunnersBusy'
  <2>1. Cardinality(inflight[d]) < runners[d] /\ IsFiniteSet(inflight[d])
    BY DEF StartDelivery, OInv, RunnersBusy
  <2>2. /\ IsFiniteSet(inflight[d] \cup {<<c, "handle">>})
        /\ Cardinality(inflight[d] \cup {<<c, "handle">>})
             \in {Cardinality(inflight[d]), Cardinality(inflight[d]) + 1}
    BY <2>1, FS_AddElement, Zenon
  <2>3. Cardinality(inflight[d]) \in Nat /\ runners[d] \in Nat
    BY <2>1, FS_CardinalityType DEF OInv, TypeOK
  <2> QED
    BY <1>1, <2>1, <2>2, <2>3 DEF OInv, RunnersBusy, TypeOK
<1>2. TypeOK'
  BY <1>1 DEF OInv, TypeOK
<1>3. \A f \in Drains : Holding(f)' \subseteq Holding(f)
  BY <1>1 DEF Holding, OInv, TypeOK
<1>4. TokensSpent' /\ OwnedOnce'
  BY <1>1, <1>3 DEF OInv, TokensSpent, OwnedOnce
<1>5. TakenOnce' /\ MarkedIsAccepted'
  BY <1>1 DEF OInv, TakenOnce, MarkedIsAccepted, TypeOK
<1>6. \A e \in Events : Undelivered(e)' \subseteq Undelivered(e)
  BY <1>1 DEF Undelivered, OInv, TypeOK
<1>7. TriesLeft'
  <2> SUFFICES ASSUME NEW e \in Events
               PROVE  accepted'[e] + Cardinality(Undelivered(e)') <= row'[e].attempts
    BY DEF TriesLeft
  <2>1. Cardinality(Undelivered(e)') <= Cardinality(Undelivered(e))
    BY <1>6, UndeliveredFinite, FS_Subset
  <2> QED
    BY <1>1, <2>1, UndeliveredFinite DEF OInv, TypeOK, TriesLeft, Rows
<1> QED
  BY <1>2, <1>4, <1>5, <1>7, <1>8 DEF OInv

\* A handler answers: the try that the claim stood for is spent.
LEMMA HandleStep ==
    ASSUME OInv, NEW d \in Drains, NEW c \in Claims, Handle(d, c) PROVE OInv'
<1>1. PICK to \in {"mark", "fail"} :
          /\ <<c, "handle">> \in inflight[d]
          /\ inflight' = [inflight EXCEPT ![d] =
                              (inflight[d] \ {<<c, "handle">>}) \cup {<<c, to>>}]
          /\ to = "mark" => accepted' = [accepted EXCEPT ![c.event] = accepted[c.event] + 1]
  BY DEF Handle, Moves
<1>2. /\ UNCHANGED <<row, phase, queue, runners>>
      /\ accepted' \in {accepted, [accepted EXCEPT ![c.event] = accepted[c.event] + 1]}
  BY DEF Handle
<1>3. c.event \in Events /\ c = Claim(c.event, c.token) /\ c.token \in Tokens
  BY DEF Claims, Claim
<1>10. RunnersBusy'
  BY <1>1, <1>2, Replaced DEF OInv, RunnersBusy, TypeOK
<1>4. TypeOK'
  BY <1>1, <1>2, <1>3 DEF OInv, TypeOK
<1>5. \A f \in Drains : Holding(f)' \subseteq Holding(f)
  BY <1>1, <1>2 DEF Holding, OInv, TypeOK
<1>6. TokensSpent' /\ OwnedOnce'
  BY <1>2, <1>5 DEF OInv, TokensSpent, OwnedOnce
<1>7. TakenOnce'
  BY <1>1, <1>2 DEF OInv, TakenOnce, TypeOK
<1>8. MarkedIsAccepted'
  <2> SUFFICES ASSUME NEW f \in Drains, NEW b \in Claims, <<b, "mark">> \in inflight'[f]
               PROVE  accepted'[b.event] > 0
    BY DEF MarkedIsAccepted
  <2>1. \A e \in Events : /\ accepted[e] \in Nat /\ accepted'[e] \in Nat
                           /\ accepted'[e] >= accepted[e]
    BY <1>2, <1>3 DEF OInv, TypeOK
  <2>2. CASE <<b, "mark">> \in inflight[f]
    BY <2>1, <2>2 DEF OInv, MarkedIsAccepted, Claims
  <2>3. CASE b = c /\ to = "mark"
    BY <1>1, <1>3, <2>1, <2>3 DEF OInv, TypeOK
  <2> QED
    BY <1>1, <2>2, <2>3 DEF OInv, TypeOK
<1>9. TriesLeft'
  <2> SUFFICES ASSUME NEW e \in Events
               PROVE  accepted'[e] + Cardinality(Undelivered(e)') <= row'[e].attempts
    BY DEF TriesLeft
  <2>1. /\ accepted[e] + Cardinality(Undelivered(e)) <= row[e].attempts /\ row' = row
        /\ accepted[e] \in Nat /\ row[e].attempts \in Nat
    BY <1>2 DEF OInv, TriesLeft, TypeOK, Rows
  <2>2. Undelivered(e)' \subseteq Undelivered(e)
    BY <1>1, <1>2 DEF Undelivered, OInv, TypeOK
  <2>3. CASE e # c.event
    <3>1. Cardinality(Undelivered(e)') <= Cardinality(Undelivered(e))
      BY <2>2, UndeliveredFinite, FS_Subset
    <3>2. accepted'[e] = accepted[e]
      BY <1>2, <2>3 DEF OInv, TypeOK
    <3> QED
      BY <2>1, <3>1, <3>2, UndeliveredFinite
  <2>4. CASE e = c.event
    <3>1. c.token \in Undelivered(e)
      BY <1>1, <1>3, <2>4 DEF Undelivered
    <3>2. c.token \notin Undelivered(e)'
      <4>1. \A f \in Drains : f # d => c \notin Holding(f)
        BY <1>1 DEF OInv, OwnedOnce, Holding
      <4>2. \A f \in Drains : c \notin queue'[f] /\ <<c, "handle">> \notin inflight'[f]
        BY <1>1, <1>2, <4>1 DEF Holding, OInv, TakenOnce, TypeOK
      <4> QED
        BY <1>3, <2>4, <4>2 DEF Undelivered
    <3>3. Undelivered(e)' \in SUBSET (Undelivered(e) \ {c.token})
      BY <2>2, <3>2
    <3>4. /\ IsFiniteSet(Undelivered(e) \ {c.token})
          /\ Cardinality(Undelivered(e) \ {c.token}) = Cardinality(Undelivered(e)) - 1
      BY <3>1, UndeliveredFinite, FS_RemoveElement
    <3>5. Cardinality(Undelivered(e)') <= Cardinality(Undelivered(e) \ {c.token})
      BY <3>3, <3>4, FS_Subset
    <3>6. accepted'[e] <= accepted[e] + 1 /\ accepted'[e] \in Nat
      BY <1>2, <2>1, <2>4 DEF OInv, TypeOK
    <3> QED
      BY <2>1, <3>4, <3>5, <3>6, UndeliveredFinite
  <2> QED
    BY <2>3, <2>4
<1> QED
  BY <1>4, <1>6, <1>7, <1>8, <1>9, <1>10 DEF OInv

\* The steps of a drain that end a claim, or all of them.
LEMMA EndStep ==
    ASSUME OInv, NEW d \in Drains,
           \/ \E c \in Claims : MarkSent(d, c) \/ RecordFailure(d, c)
           \/ Finish(d) \/ Crash(d)
    PROVE  OInv'
<1>1. ASSUME NEW c \in Claims, MarkSent(d, c) \/ RecordFailure(d, c) PROVE OInv'
  <2>1. /\ row[c.event] \in Rows /\ c.event \in Events
        /\ \/ row' = row
           \/ row' = [row EXCEPT ![c.event] = Unlocked(row[c.event], "sent")]
           \/ row' = [row EXCEPT ![c.event] = Failed(row[c.event])]
    BY <1>1 DEF MarkSent, MarkSentRow, RecordFailure, RecordFailureRow, OInv, TypeOK, Claims
  <2>2. row' \in [Events -> Rows] /\ \A e \in Events : row'[e].attempts = row[e].attempts
    BY <2>1, RowFields DEF OInv, TypeOK, Statuses
  <2>3. /\ UNCHANGED <<phase, queue, accepted>>
        /\ runners' \in {runners, [runners EXCEPT ![d] = runners[d] - 1]}
    BY <1>1 DEF MarkSent, RecordFailure
  <2>4. \E from \in {"mark", "fail"} : Ends(d, c, from) \/ (from = "mark" /\ Moves(d, c, from, "fail"))
    BY <1>1 DEF MarkSent, RecordFailure
  <2>5. /\ inflight' \in [Drains -> SUBSET (Claims \X {"handle", "mark", "fail"})]
        /\ \A f \in Drains, b \in Claims, s \in {"handle", "mark"} :
               <<b, s>> \in inflight'[f] => <<b, s>> \in inflight[f]
        /\ \A f \in Drains : Holding(f)' \subseteq Holding(f)
    BY <2>3, <2>4 DEF Ends, Moves, Holding, OInv, TypeOK
  <2>6. runners' \in [Drains -> 0 .. Concurrency] /\ RunnersBusy'
    <3>1. PICK from \in {"mark", "fail"} :
              /\ <<c, from>> \in inflight[d]
              /\ \/ inflight' = [inflight EXCEPT ![d] = inflight[d] \ {<<c, from>>}]
                 \/ /\ inflight' = [inflight EXCEPT ![d] =
                                       (inflight[d] \ {<<c, from>>}) \cup {<<c, "fail">>}]
                    /\ runners' = runners
      BY <1>1 DEF MarkSent, RecordFailure, Ends, Moves
    <3>2. /\ IsFiniteSet(inflight'[d]) /\ Cardinality(inflight'[d]) <= runners'[d]
          /\ runners'[d] \in 0 .. Concurrency
      <4> DEFINE left == inflight[d] \ {<<c, from>>}
                 moved == left \cup {<<c, "fail">>}
      <4>1. inflight'[d] = left \/ (inflight'[d] = moved /\ runners'[d] = runners[d])
        BY <3>1 DEF OInv, TypeOK
      <4>2. runners[d] \in 0 .. Concurrency /\ runners'[d] \in {runners[d], runners[d] - 1}
        BY <2>3 DEF OInv, TypeOK
      <4>3. /\ IsFiniteSet(left) /\ Cardinality(left) <= runners[d] - 1 /\ runners[d] > 0
            /\ IsFiniteSet(moved) /\ Cardinality(moved) <= runners[d]
        BY <3>1, Replaced DEF OInv
      <4>4. Cardinality(left) \in Nat
        BY <4>3, FS_CardinalityType
      <4> HIDE DEF left, moved
      <4>5. CASE inflight'[d] = left
        BY <4>2, <4>3, <4>4, <4>5
      <4>6. CASE inflight'[d] = moved /\ runners'[d] = runners[d]
        BY <4>2, <4>3, <4>6
      <4> QED
        BY <4>1, <4>5, <4>6
    <3> QED
      BY <2>3, <3>1, <3>2 DEF OInv, RunnersBusy, TypeOK
  <2> QED
    BY <2>2, <2>3, <2>5, <2>6, NoNewClaim DEF OInv, TypeOK
<1>2. ASSUME Finish(d) \/ Crash(d) PROVE OInv'
  <2>1. Gone(d)
    BY <1>2 DEF Finish, Crash
  <2>2. /\ \A f \in Drains : queue'[f] \subseteq queue[f] /\ inflight'[f] \subseteq inflight[f]
        /\ queue' \in [Drains -> SUBSET Claims]
        /\ inflight' \in [Drains -> SUBSET (Claims \X {"handle", "mark", "fail"})]
        /\ phase' \in [Drains -> {"idle", "claim", "deliver"}]
        /\ runners' \in [Drains -> 0 .. Concurrency]
        /\ UNCHANGED <<row, accepted>>
    BY <2>1 DEF Gone, OInv, TypeOK
  <2>3. \A f \in Drains : Holding(f)' \subseteq Holding(f)
    BY <2>2 DEF Holding
  <2>4. RunnersBusy'
    BY <2>1, FS_EmptySet DEF Gone, OInv, RunnersBusy, TypeOK
  <2> QED
    BY <2>2, <2>3, <2>4, NoNewClaim DEF OInv, TypeOK
<1> QED
  BY <1>1, <1>2

\* The steps that touch rows only.
LEMMA RowStep ==
    ASSUME OInv,
           \/ \E e \in Events : Enqueue(e) \/ ExpireLease(e) \/ BecomeDue(e)
           \/ \E d \in Drains : DeadLetterExhausted(d)
    PROVE  OInv'
<1>1. row' \in [Events -> Rows] /\ \A e \in Events : row'[e].attempts = row[e].attempts
  <2>1. ASSUME NEW e \in Events, Enqueue(e) \/ ExpireLease(e) \/ BecomeDue(e)
        PROVE  row' \in [Events -> Rows] /\ \A f \in Events : row'[f].attempts = row[f].attempts
    <3>1. row[e] \in Rows
      BY DEF OInv, TypeOK
    <3>2. CASE Enqueue(e)
      BY <3>1, <3>2 DEF Enqueue, Absent, Untried, Rows, Statuses, OInv, TypeOK
    <3>3. CASE ExpireLease(e)
      BY <3>1, <3>3 DEF ExpireLease, Rows, OInv, TypeOK
    <3>4. CASE BecomeDue(e)
      BY <3>1, <3>4 DEF BecomeDue, Rows, OInv, TypeOK
    <3> QED
      BY <2>1, <3>2, <3>3, <3>4
  <2>2. ASSUME NEW d \in Drains, DeadLetterExhausted(d)
        PROVE  row' \in [Events -> Rows] /\ \A e \in Events : row'[e].attempts = row[e].attempts
    BY <2>2, RowFields DEF DeadLetterExhausted, Change, DeadLettered, OInv, TypeOK, Statuses
  <2> QED
    BY <2>1, <2>2
<1>2. /\ UNCHANGED <<queue, inflight, runners, accepted>>
      /\ phase' \in [Drains -> {"idle", "claim", "deliver"}]
  BY DEF Enqueue, ExpireLease, BecomeDue, DeadLetterExhausted, drainVars, OInv, TypeOK
<1>3. RunnersBusy' /\ \A d \in Drains : Holding(d)' = Holding(d)
  BY <1>2 DEF Holding, OInv, RunnersBusy
<1> QED
  BY <1>1, <1>2, <1>3, NoNewClaim DEF OInv, TypeOK

LEMMA OutboxNext == OInv /\ [Next]_vars => OInv'
<1> SUFFICES ASSUME OInv, [Next]_vars PROVE OInv'
  OBVIOUS
<1>1. CASE UNCHANGED vars
  <2>1. RunnersBusy' /\ \A d \in Drains : Holding(d)' = Holding(d)
    BY <1>1 DEF vars, Holding, OInv, RunnersBusy
  <2> QED
    BY <1>1, <2>1, NoNewClaim DEF vars, OInv, TypeOK
<1> QED
  BY <1>1, RowStep, ClaimBatchStep, StartDeliveryStep, HandleStep, EndStep DEF Next

LEMMA OutboxInvariant == Spec => []OInv
  BY OutboxInit, OutboxNext, PTL DEF Spec

-----------------------------------------------------------------------------
\* The fencing of markSent and recordFailure: whatever slow, overtaken and
\* restarted drains still hold, one claim of an event can change its row.
THEOREM AtMostOneHolder == Spec => []OneHolder
<1>1. OInv => OneHolder
  <2> SUFFICES ASSUME OInv, NEW d1 \in Drains, NEW d2 \in Drains,
                      NEW c1 \in Holding(d1), NEW c2 \in Holding(d2),
                      c1.event = c2.event,
                      StillHeld(row[c1.event], c1.token), StillHeld(row[c2.event], c2.token)
               PROVE  d1 = d2 /\ c1 = c2
    BY DEF OneHolder
  <2>1. c1 \in Claims /\ c2 \in Claims /\ c1.token = c2.token
    BY DEF Holding, StillHeld, OInv, TypeOK
  <2>2. c1 = c2
    BY <2>1 DEF Claims
  <2> QED
    BY <2>2 DEF OInv, OwnedOnce
<1> QED
  BY <1>1, OutboxInvariant, PTL

\* At least once, but not more often than it was tried: no crash, lost lease or
\* failed query makes a handler see a claim again.
THEOREM DeliveryIsBounded == Spec => []BoundedDelivery
<1>1. OInv => BoundedDelivery
  BY UndeliveredFinite DEF OInv, TypeOK, TriesLeft, Rows, BoundedDelivery
<1> QED
  BY <1>1, OutboxInvariant, PTL

-----------------------------------------------------------------------------
(* The refinement.  Only a change of a row or an answer of a handler is    *)
(* seen through the mapping; leases, tokens and drains are not.            *)

Outcomes == [e \in Events |-> Outcome(row[e].status)]
Tries == [e \in Events |-> row[e].attempts]

LEMMA DeliveryInit == Init => Delivery!Init
  BY DEF Init, Delivery!Init, Absent, Untried, Outcome

\* Rows that stay as open, or as settled, as they were.
LEMMA Unseen ==
    ASSUME OInv, accepted' = accepted,
           \A e \in Events : /\ row'[e].attempts = row[e].attempts
                            /\ Outcome(row'[e].status) = Outcome(row[e].status)
    PROVE  UNCHANGED Delivery!vars
<1>1. Outcomes' = Outcomes /\ Tries' = Tries
  BY DEF Outcomes, Tries
<1> QED
  BY <1>1 DEF Outcomes, Tries, Delivery!vars

\* Rows that are dead-lettered have used their tries.
LEMMA DeadLetterRefines ==
    ASSUME OInv, NEW batch \in SUBSET Events, accepted' = accepted,
           \A e \in batch : /\ Outcome(row[e].status) = "open"
                           /\ row[e].attempts >= MaxAttempts,
           row' \in [Events -> Rows],
           \A e \in batch : row'[e].status = "dead_letter" /\ row'[e].attempts = row[e].attempts,
           \A e \in Events \ batch : row'[e] = row[e]
    PROVE  Delivery!GiveUp(batch)
<1>1. ASSUME NEW e \in batch PROVE row[e].attempts = MaxAttempts
  <2>1. row[e].attempts \in 0 .. MaxAttempts
    BY DEF OInv, TypeOK, Rows
  <2> QED
    BY <2>1
<1>2. Outcomes' = [e \in Events |-> IF e \in batch THEN "dead" ELSE Outcomes[e]]
  BY DEF Outcomes, Outcome
<1>3. Tries' = Tries
  BY DEF Tries
<1> QED
  BY <1>1, <1>2, <1>3 DEF Outcomes, Tries, Delivery!GiveUp

LEMMA ClaimRefines ==
    ASSUME OInv, NEW d \in Drains, ClaimBatch(d)
    PROVE  \E batch \in SUBSET Events : Delivery!Try(batch)
<1>1. PICK batch \in Batches(Claimable) :
          row' = [e \in Events |-> IF e \in batch THEN Claimed(row[e]) ELSE row[e]]
  BY DEF ClaimBatch, Change
<1>2. batch \in SUBSET Events /\ \A e \in batch : Claimable(row[e]) /\ row[e] \in Rows
  BY DEF Batches, OInv, TypeOK
<1>3. \A e \in batch : /\ Outcome(row[e].status) = "open" /\ row[e].attempts < MaxAttempts
                       /\ Outcome(row'[e].status) = "open"
                       /\ row'[e].attempts = row[e].attempts + 1
  BY <1>1, <1>2, ClaimedFields DEF Claimable, Outcome
<1>4. \A e \in Events \ batch : row'[e] = row[e]
  BY <1>1
<1>5. Outcomes' = Outcomes
  BY <1>2, <1>3, <1>4 DEF Outcomes
<1>6. Tries' = [e \in Events |-> IF e \in batch THEN Tries[e] + 1 ELSE Tries[e]]
  BY <1>2, <1>3, <1>4 DEF Tries
<1>7. accepted' = accepted
  BY DEF ClaimBatch
<1>8. Delivery!Try(batch)
  BY <1>2, <1>3, <1>5, <1>6, <1>7 DEF Outcomes, Tries, Delivery!Try
<1> QED
  BY <1>2, <1>8

LEMMA HandleRefines ==
    ASSUME OInv, OInv', NEW d \in Drains, NEW c \in Claims, Handle(d, c)
    PROVE  Delivery!Accept(c.event) \/ UNCHANGED Delivery!vars
<1>1. row' = row /\ c.event \in Events
  BY DEF Handle, Claims
<1>2. CASE accepted' = accepted
  BY <1>1, <1>2, Unseen
<1>3. CASE accepted' = [accepted EXCEPT ![c.event] = accepted[c.event] + 1]
  <2>1. accepted'[c.event] <= row'[c.event].attempts
    BY <1>1, UndeliveredFinite DEF OInv, TypeOK, TriesLeft, Rows
  <2>2. accepted[c.event] < row[c.event].attempts
    BY <1>1, <1>3, <2>1 DEF OInv, TypeOK, Rows
  <2> QED
    BY <1>1, <1>3, <2>2 DEF Delivery!Accept
<1> QED
  BY <1>2, <1>3 DEF Handle

\* markSent changes the row of an event that was accepted, or none.
LEMMA MarkSentRefines ==
    ASSUME OInv, NEW d \in Drains, NEW c \in Claims, MarkSent(d, c)
    PROVE  Delivery!Sent(c.event) \/ UNCHANGED Delivery!vars
<1>1. /\ accepted' = accepted /\ <<c, "mark">> \in inflight[d]
      /\ c.event \in Events /\ row[c.event] \in Rows
  BY DEF MarkSent, Ends, Moves, Claims, OInv, TypeOK
<1>2. CASE row' = row
  BY <1>1, <1>2, Unseen
<1>3. CASE /\ StillHeld(row[c.event], c.token)
           /\ row' = [row EXCEPT ![c.event] = Unlocked(row[c.event], "sent")]
  <2>1. accepted[c.event] > 0
    BY <1>1 DEF OInv, MarkedIsAccepted
  <2>2. /\ Outcome(row[c.event].status) = "open"
        /\ Outcome(row'[c.event].status) = "sent"
        /\ row'[c.event].attempts = row[c.event].attempts
    BY <1>1, <1>3, RowFields DEF StillHeld, Outcome, Statuses, OInv, TypeOK
  <2>3. \A e \in Events : e # c.event => row'[e] = row[e]
    BY <1>3 DEF OInv, TypeOK
  <2>4. Outcomes' = [Outcomes EXCEPT ![c.event] = "sent"] /\ Tries' = Tries
    BY <1>1, <2>2, <2>3 DEF Outcomes, Tries
  <2> QED
    BY <1>1, <2>1, <2>2, <2>4 DEF Outcomes, Tries, Delivery!Sent, Delivery!Settle
<1> QED
  BY <1>2, <1>3 DEF MarkSent, MarkSentRow

\* recordFailure leaves an event open, or gives up one without tries left.
LEMMA RecordFailureRefines ==
    ASSUME OInv, NEW d \in Drains, NEW c \in Claims, RecordFailure(d, c)
    PROVE  Delivery!GiveUp({c.event}) \/ UNCHANGED Delivery!vars
<1>1. accepted' = accepted /\ c.event \in Events /\ row[c.event] \in Rows
  BY DEF RecordFailure, Claims, OInv, TypeOK
<1>2. CASE row' = row
  BY <1>1, <1>2, Unseen
<1>3. CASE /\ StillHeld(row[c.event], c.token)
           /\ row' = [row EXCEPT ![c.event] = Failed(row[c.event])]
  <2>1. /\ row' \in [Events -> Rows] /\ Outcome(row[c.event].status) = "open"
        /\ row'[c.event] = Failed(row[c.event])
        /\ row'[c.event].attempts = row[c.event].attempts
        /\ \A e \in Events \ {c.event} : row'[e] = row[e]
    BY <1>1, <1>3, RowFields DEF StillHeld, Outcome, Statuses, OInv, TypeOK
  <2>2. CASE row[c.event].attempts >= MaxAttempts
    <3>1. row'[c.event].status = "dead_letter"
      BY <1>1, <2>1, <2>2, RowFields DEF Statuses
    <3> QED
      BY <1>1, <2>1, <2>2, <3>1, DeadLetterRefines
  <2>3. CASE ~(row[c.event].attempts >= MaxAttempts)
    <3>1. row'[c.event].status = "failed"
      BY <1>1, <2>1, <2>3, RowFields DEF Statuses
    <3> QED
      BY <1>1, <2>1, <3>1, Unseen DEF Outcome
  <2> QED
    BY <2>2, <2>3
<1> QED
  BY <1>2, <1>3 DEF RecordFailure, RecordFailureRow

LEMMA EnqueueRefines ==
    ASSUME OInv, NEW e \in Events, Enqueue(e) PROVE Delivery!Record(e)
<1>1. /\ accepted' = accepted /\ row[e] = Absent
      /\ row' = [row EXCEPT ![e] = Untried("pending", TRUE)]
  BY DEF Enqueue
<1>2. /\ row'[e].status = "pending" /\ row'[e].attempts = 0
      /\ row[e].status = "absent" /\ row[e].attempts = 0
      /\ \A f \in Events : f # e => row'[f] = row[f]
  BY <1>1 DEF Absent, Untried, OInv, TypeOK
<1>3. /\ Outcomes' = [Outcomes EXCEPT ![e] = "open"] /\ Outcomes[e] = "none"
      /\ Tries' = Tries
  BY <1>2 DEF Outcomes, Tries, Outcome
<1> QED
  BY <1>1, <1>3 DEF Outcomes, Tries, Delivery!Record, Delivery!Settle

LEMMA ExhaustedRefines ==
    ASSUME OInv, NEW d \in Drains, DeadLetterExhausted(d)
    PROVE  \E batch \in SUBSET Events : Delivery!GiveUp(batch)
<1>1. PICK batch \in Batches(Exhausted) :
          row' = [e \in Events |-> IF e \in batch THEN DeadLettered(row[e]) ELSE row[e]]
  BY DEF DeadLetterExhausted, Change
<1>2. batch \in SUBSET Events /\ \A e \in batch : Exhausted(row[e]) /\ row[e] \in Rows
  BY DEF Batches, OInv, TypeOK
<1>3. /\ accepted' = accepted
      /\ \A e \in batch : Outcome(row[e].status) = "open" /\ row[e].attempts >= MaxAttempts
      /\ row' \in [Events -> Rows]
      /\ \A e \in batch : /\ row'[e].status = "dead_letter"
                           /\ row'[e].attempts = row[e].attempts
      /\ \A e \in Events \ batch : row'[e] = row[e]
  BY <1>1, <1>2, RowFields
  DEF DeadLetterExhausted, DeadLettered, Exhausted, Outcome, Statuses, OInv, TypeOK
<1>4. Delivery!GiveUp(batch)
  BY <1>2, <1>3, DeadLetterRefines
<1> QED
  BY <1>2, <1>4

LEMMA StepRefines == OInv /\ OInv' /\ [Next]_vars => [Delivery!Next]_Delivery!vars
<1> SUFFICES ASSUME OInv, OInv', [Next]_vars PROVE Delivery!Next \/ UNCHANGED Delivery!vars
  OBVIOUS
<1>1. ASSUME NEW e \in Events, ExpireLease(e) \/ BecomeDue(e) PROVE UNCHANGED Delivery!vars
  <2>1. \A f \in Events : /\ row'[f].attempts = row[f].attempts
                         /\ row'[f].status = row[f].status
    <3>1. CASE ExpireLease(e)
      BY <3>1 DEF ExpireLease, Rows, OInv, TypeOK
    <3>2. CASE BecomeDue(e)
      BY <3>2 DEF BecomeDue, Rows, OInv, TypeOK
    <3> QED
      BY <1>1, <3>1, <3>2
  <2> QED
    BY <1>1, <2>1, Unseen DEF ExpireLease, BecomeDue
<1>2. ASSUME NEW d \in Drains,
             Finish(d) \/ Crash(d) \/ \E c \in Claims : StartDelivery(d, c)
      PROVE  UNCHANGED Delivery!vars
  BY <1>2, Unseen DEF Finish, Crash, Gone, StartDelivery
<1>3. CASE UNCHANGED vars
  BY <1>3, Unseen DEF vars
<1>4. \A c \in Claims : c.event \in Events
  BY DEF Claims
<1> QED
  BY <1>1, <1>2, <1>3, <1>4, EnqueueRefines, ExhaustedRefines, ClaimRefines, HandleRefines,
     MarkSentRefines, RecordFailureRefines DEF Next, Delivery!Next

\* What the outbox promises its producers holds of the leased, crashing and
\* retried one for every number of events, drains and attempts.
THEOREM OutboxDelivers == Spec => ImplementsDelivery
  BY DeliveryInit, StepRefines, OutboxInvariant, PTL DEF Spec, ImplementsDelivery, Delivery!Spec
=============================================================================
