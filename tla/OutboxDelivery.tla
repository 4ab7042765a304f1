---------------------------- MODULE OutboxDelivery ----------------------------
(***************************************************************************)
(* What the money outbox promises its producers: a recorded event is       *)
(* settled once and for all, as sent only if a handler accepted it, and    *)
(* given up only after MaxAttempts tries.  Delivery is at least once, and  *)
(* a slow worker's delivery may even arrive after the event was settled.   *)
(***************************************************************************)
EXTENDS Naturals

CONSTANTS Events, MaxAttempts

VARIABLES outcome, tries, accepted

vars == <<outcome, tries, accepted>>

Init ==
    /\ outcome = [e \in Events |-> "none"]
    /\ tries = [e \in Events |-> 0]
    /\ accepted = [e \in Events |-> 0]

Settle(e, from, to) ==
    /\ outcome[e] = from
    /\ outcome' = [outcome EXCEPT ![e] = to]
    /\ UNCHANGED <<tries, accepted>>

Record(e) == Settle(e, "none", "open")

\* A batch of events is taken up for one more try each.
Try(batch) ==
    /\ \A e \in batch : outcome[e] = "open" /\ tries[e] < MaxAttempts
    /\ tries' = [e \in Events |-> IF e \in batch THEN tries[e] + 1 ELSE tries[e]]
    /\ UNCHANGED <<outcome, accepted>>

\* A handler accepts an event: at most once per try.
Accept(e) ==
    /\ accepted[e] < tries[e]
    /\ accepted' = [accepted EXCEPT ![e] = @ + 1]
    /\ UNCHANGED <<outcome, tries>>

Sent(e) == accepted[e] > 0 /\ Settle(e, "open", "sent")

\* Events whose tries are used up are given up, one or several at a time.
GiveUp(batch) ==
    /\ \A e \in batch : outcome[e] = "open" /\ tries[e] = MaxAttempts
    /\ outcome' = [e \in Events |-> IF e \in batch THEN "dead" ELSE outcome[e]]
    /\ UNCHANGED <<tries, accepted>>

Next ==
    \/ \E e \in Events : Record(e) \/ Accept(e) \/ Sent(e)
    \/ \E batch \in SUBSET Events : Try(batch) \/ GiveUp(batch)

Spec == Init /\ [][Next]_vars
=============================================================================
