----------------------------- MODULE MoneyOutbox -----------------------------
(***************************************************************************)
(* The money outbox (src/moneyOutbox.ts): business transactions insert     *)
(* events, and any number of drains (runs of MoneyOutboxWorker.runOnce, of *)
(* the loop, of the cron endpoint, of several processes) deliver them:     *)
(*                                                                         *)
(*   deadLetterExhausted; claimBatch; then, a few at a time, for each      *)
(*   claimed event: handler; markSent, or recordFailure on any error       *)
(*                                                                         *)
(* A claim is a lease of limited duration; markSent and recordFailure      *)
(* present the lock token of their claim.  Every repository call is one    *)
(* statement, so one action; a call can also fail, before or after its     *)
(* statement committed.  A drain whose process dies is gone with all its   *)
(* claims.  A drain that rejected (recordFailure threw) counts as running  *)
(* until its other runners are done, while the loop may start the next.    *)
(*                                                                         *)
(* Each claim adds one to the attempts and draws a new uuid: the attempt   *)
(* number stands for the lock token, 0 for null.  Time is what it decides: *)
(* whether a lease has run out ("stale") and an event is "due".  Which     *)
(* eligible rows a limited query picks (oldest first) is left open.        *)
(***************************************************************************)
EXTENDS Naturals, FiniteSets

CONSTANTS
    Events,
    Drains,         \* runs of runOnce that may be under way at once
    BatchSize,
    Concurrency,    \* runners of one drain
    MaxAttempts

ASSUME OutboxAssumption ==
    /\ IsFiniteSet(Events)
    /\ BatchSize \in Nat \ {0}
    /\ Concurrency \in 1 .. BatchSize
    /\ MaxAttempts \in Nat \ {0}

VARIABLES
    row,            \* money_outbox_events
    phase,          \* of each drain
    queue,          \* claims of the drain no runner has taken
    inflight,       \* claims its runners are working on, and how far they are
    runners,        \* its runners that are still alive
    accepted        \* history: how often a handler accepted the event

vars == <<row, phase, queue, inflight, runners, accepted>>

Tokens == 1 .. MaxAttempts
Statuses == {"absent", "pending", "processing", "sent", "failed", "dead_letter"}

Rows == [status : Statuses, attempts : 0 .. MaxAttempts, token : {0} \cup Tokens,
         stale : BOOLEAN, due : BOOLEAN]

Claims == [event : Events, token : Tokens]

Untried(status, due) ==
    [status |-> status, attempts |-> 0, token |-> 0, stale |-> FALSE, due |-> due]

Absent == Untried("absent", FALSE)

TypeOK ==
    /\ row \in [Events -> Rows]
    /\ phase \in [Drains -> {"idle", "claim", "deliver"}]
    /\ queue \in [Drains -> SUBSET Claims]
    /\ inflight \in [Drains -> SUBSET (Claims \X {"handle", "mark", "fail"})]
    /\ runners \in [Drains -> 0 .. Concurrency]
    /\ accepted \in [Events -> Nat]

Init ==
    /\ row = [e \in Events |-> Absent]
    /\ phase = [d \in Drains |-> "idle"]
    /\ queue = [d \in Drains |-> {}]
    /\ inflight = [d \in Drains |-> {}]
    /\ runners = [d \in Drains |-> 0]
    /\ accepted = [e \in Events |-> 0]

drainVars == <<phase, queue, inflight, runners>>

-----------------------------------------------------------------------------
(* Producers and the clock                                                 *)

\* Committed with the business transaction; a repeated key does nothing.
Enqueue(e) ==
    /\ row[e] = Absent
    /\ row' = [row EXCEPT ![e] = Untried("pending", TRUE)]
    /\ UNCHANGED <<drainVars, accepted>>

ExpireLease(e) ==
    /\ row[e].status = "processing" /\ ~row[e].stale
    /\ row' = [row EXCEPT ![e].stale = TRUE]
    /\ UNCHANGED <<drainVars, accepted>>

BecomeDue(e) ==
    /\ row[e].status = "failed" /\ ~row[e].due
    /\ row' = [row EXCEPT ![e].due = TRUE]
    /\ UNCHANGED <<drainVars, accepted>>

-----------------------------------------------------------------------------
(* Statements on the table                                                 *)

Exhausted(r) ==
    /\ r.attempts >= MaxAttempts
    /\ r.status \in {"pending", "failed"} \/ (r.status = "processing" /\ r.stale)

\* (mutant) A lease that ran out is not claimed again.
ClaimableUnleased(r) ==
    r.attempts < MaxAttempts /\ r.status \in {"pending", "failed"} /\ r.due

Claimable(r) ==
    /\ r.attempts < MaxAttempts
    /\ \/ r.status \in {"pending", "failed"} /\ r.due
       \/ r.status = "processing" /\ r.stale

Unlocked(r, status) == [r EXCEPT !.status = status, !.token = 0, !.stale = FALSE]

DeadLettered(r) == Unlocked(r, "dead_letter")

\* (mutant) A claim keeps the lock token it finds.
ClaimedOldToken(r) == [r EXCEPT !.status = "processing", !.attempts = @ + 1,
                                !.token = IF @ = 0 THEN r.attempts + 1 ELSE @,
                                !.stale = FALSE]

Claimed(r) == [status |-> "processing", attempts |-> r.attempts + 1,
               token |-> r.attempts + 1, stale |-> FALSE, due |-> r.due]

\* (mutant) There is none.
Unfenced(r, token) == r.status # "absent"

\* The fencing condition of markSent and recordFailure.
StillHeld(r, token) == r.status = "processing" /\ r.token = token

Failed(r) ==
    IF r.attempts >= MaxAttempts
    THEN DeadLettered(r)
    ELSE [Unlocked(r, "failed") EXCEPT !.due = FALSE]

Change(batch, Op(_)) == row' = [e \in Events |-> IF e \in batch THEN Op(row[e]) ELSE row[e]]

\* The rows a query limited to BatchSize picks among the eligible ones.
Batches(Eligible(_)) ==
    LET all == {e \in Events : Eligible(row[e])}
    IN  IF Cardinality(all) <= BatchSize
        THEN {all}
        ELSE {b \in SUBSET all : Cardinality(b) = BatchSize}

-----------------------------------------------------------------------------
(* A drain                                                                 *)

DeadLetterExhausted(d) ==
    /\ phase[d] = "idle"
    /\ \E batch \in Batches(Exhausted) : Change(batch, DeadLettered)
    /\ phase' = [phase EXCEPT ![d] = "claim"]
    /\ UNCHANGED <<queue, inflight, runners, accepted>>

ClaimBatch(d) ==
    /\ phase[d] = "claim"
    /\ \E batch \in Batches(Claimable) :
          /\ Change(batch, Claimed)
          /\ queue' = [queue EXCEPT ![d] =
                          {[event |-> e, token |-> row'[e].token] : e \in batch}]
    /\ phase' = [phase EXCEPT ![d] = "deliver"]
    /\ runners' = [runners EXCEPT ![d] = Concurrency]
    /\ UNCHANGED <<inflight, accepted>>

StartDelivery(d, c) ==
    /\ c \in queue[d]
    /\ Cardinality(inflight[d]) < runners[d]
    /\ queue' = [queue EXCEPT ![d] = @ \ {c}]
    /\ inflight' = [inflight EXCEPT ![d] = @ \cup {<<c, "handle">>}]
    /\ UNCHANGED <<row, phase, runners, accepted>>

Moves(d, c, from, to) ==
    /\ <<c, from>> \in inflight[d]
    /\ inflight' = [inflight EXCEPT ![d] = (@ \ {<<c, from>>}) \cup {<<c, to>>}]

Ends(d, c, from) ==
    /\ <<c, from>> \in inflight[d]
    /\ inflight' = [inflight EXCEPT ![d] = @ \ {<<c, from>>}]

\* The handler resolves, or rejects (perhaps after it took effect).
Handle(d, c) ==
    /\ \/ /\ Moves(d, c, "handle", "mark")
          /\ accepted' = [accepted EXCEPT ![c.event] = @ + 1]
       \/ /\ Moves(d, c, "handle", "fail")
          /\ accepted' \in {accepted, [accepted EXCEPT ![c.event] = @ + 1]}
    /\ UNCHANGED <<row, phase, queue, runners>>

MarkSentRow(c) ==
    IF StillHeld(row[c.event], c.token)
    THEN row' = [row EXCEPT ![c.event] = Unlocked(@, "sent")]
    ELSE UNCHANGED row      \* lease lost

\* A query error, with or without the update behind it, is a delivery failure.
MarkSent(d, c) ==
    /\ \/ Ends(d, c, "mark") /\ MarkSentRow(c)
       \/ Moves(d, c, "mark", "fail") /\ (MarkSentRow(c) \/ UNCHANGED row)
    /\ UNCHANGED <<phase, queue, runners, accepted>>

RecordFailureRow(c) ==
    IF StillHeld(row[c.event], c.token)
    THEN row' = [row EXCEPT ![c.event] = Failed(@)]
    ELSE UNCHANGED row      \* lease lost

\* A query error here ends the runner, and rejects the drain.
RecordFailure(d, c) ==
    /\ Ends(d, c, "fail")
    /\ \/ RecordFailureRow(c) /\ UNCHANGED runners
       \/ /\ RecordFailureRow(c) \/ UNCHANGED row
          /\ runners' = [runners EXCEPT ![d] = @ - 1]
    /\ UNCHANGED <<phase, queue, accepted>>

Gone(d) ==
    /\ phase' = [phase EXCEPT ![d] = "idle"]
    /\ queue' = [queue EXCEPT ![d] = {}]
    /\ inflight' = [inflight EXCEPT ![d] = {}]
    /\ runners' = [runners EXCEPT ![d] = 0]
    /\ UNCHANGED <<row, accepted>>

\* Every runner is done, or dead; claims no runner took stay leased.
Finish(d) ==
    /\ phase[d] = "deliver"
    /\ inflight[d] = {}
    /\ queue[d] = {} \/ runners[d] = 0
    /\ Gone(d)

Crash(d) == phase[d] # "idle" /\ Gone(d)

Next ==
    \/ \E e \in Events : Enqueue(e) \/ ExpireLease(e) \/ BecomeDue(e)
    \/ \E d \in Drains :
          \/ DeadLetterExhausted(d)
          \/ ClaimBatch(d)
          \/ \E c \in Claims :
                StartDelivery(d, c) \/ Handle(d, c) \/ MarkSent(d, c) \/ RecordFailure(d, c)
          \/ Finish(d)
          \/ Crash(d)

Spec == Init /\ [][Next]_vars

\* The clock advances, drains are started again and again (by the loop or by
\* cron) and come to their end, and not every one of them dies before it claims.
Fairness ==
    /\ \A e \in Events : WF_vars(ExpireLease(e)) /\ WF_vars(BecomeDue(e))
    /\ \A d \in Drains :
          /\ WF_vars(DeadLetterExhausted(d))
          /\ SF_vars(ClaimBatch(d))
          /\ WF_vars(Finish(d))
          /\ \A c \in Claims : /\ WF_vars(StartDelivery(d, c))
                               /\ WF_vars(Handle(d, c))
                               /\ WF_vars(MarkSent(d, c))
                               /\ WF_vars(RecordFailure(d, c))

FairSpec == Spec /\ Fairness

-----------------------------------------------------------------------------
(* Properties                                                              *)

Holding(d) == queue[d] \cup {i[1] : i \in inflight[d]}

\* The fence: of all the claims of an event that slow, overtaken and restarted
\* drains still hold, at most one can still change the row.
OneHolder ==
    \A d1, d2 \in Drains :
        \A c1 \in Holding(d1), c2 \in Holding(d2) :
            /\ c1.event = c2.event
            /\ StillHeld(row[c1.event], c1.token)
            /\ StillHeld(row[c2.event], c2.token)
            => d1 = d2 /\ c1 = c2

\* A handler sees an event at most once per claim, so at most MaxAttempts times
\* in all, whatever fails, crashes or is retried.
BoundedDelivery ==
    \A e \in Events : accepted[e] <= row[e].attempts /\ row[e].attempts <= MaxAttempts

\* Every recorded event is sent in the end, or dead-lettered: none is forgotten
\* in a lost lease, a crashed drain or a failed bookkeeping query.
EventuallySettled ==
    \A e \in Events :
        row[e].status = "pending" ~> row[e].status \in {"sent", "dead_letter"}

Outcome(status) ==
    IF status = "absent" THEN "none"
    ELSE IF status = "dead_letter" THEN "dead"
    ELSE IF status = "sent" THEN "sent" ELSE "open"

\* The leased, crashing, retried outbox implements the promise: an event is
\* settled once, sent only when accepted, given up only when its tries are used.
Delivery == INSTANCE OutboxDelivery WITH
                outcome <- [e \in Events |-> Outcome(row[e].status)],
                tries <- [e \in Events |-> row[e].attempts],
                accepted <- accepted
ImplementsDelivery == Delivery!Spec
=============================================================================
