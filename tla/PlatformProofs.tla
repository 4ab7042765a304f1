--------------------------- MODULE PlatformProofs ---------------------------
(***************************************************************************)
(* The components of the server that MCPlatform composes, for any values   *)
(* of its constants: each of them keeps its promise in every behaviour.    *)
(* WebProofs has the routes of the server and what calls them.             *)
(***************************************************************************)
EXTENDS MCPlatform, MoneyProofs

USE PlatformAssumption

\* Whatever component a behaviour runs, it is a behaviour of every component: the
\* others stutter.
LEMMA EveryComponentRuns ==
    Spec => Acc!Spec /\ Com!Spec /\ Lim!Spec /\ Wal!Spec /\ Tra!Spec
<1>1. Init => Acc!Init /\ Com!Init /\ Lim!Init /\ Wal!Init /\ Tra!Init
  BY DEF Init
<1>2. [Next]_vars => /\ [Acc!Next]_(Acc!vars) /\ [Com!Next]_(Com!vars)
                     /\ [Lim!Next]_(Lim!vars)
                     /\ [Wal!Next]_(Wal!vars) /\ [Tra!Next]_(Tra!vars)
  <2> SUFFICES ASSUME [Next]_vars
               PROVE  /\ Acc!Next \/ UNCHANGED accounts
                      /\ Com!Next \/ UNCHANGED compliance
                      /\ Lim!Next \/ UNCHANGED limit
                      /\ Wal!Next \/ UNCHANGED oldWallet
                      /\ Tra!Next \/ UNCHANGED oldTrading
    BY DEF accounts, compliance, limit, oldWallet, oldTrading,
           Acc!vars, Com!vars, Lim!vars, Wal!vars, Tra!vars
  <2> QED
    BY DEF Next, vars, people, oldMoney, RunAccounts, RunCompliance, RunLimit, RunMoney, RunWallet,
           RunTrading, RunStore, RunCache, RunRates, RunEvents, Change, RunHttp, RunAccount,
           RunTicket, RunList, Navigate, Wal!Next
<1> QED
  BY <1>1, <1>2, PTL DEF Spec, Acc!Spec, Com!Spec, Lim!Spec, Wal!Spec, Tra!Spec

LEMMA EveryServiceRuns ==
    Spec => /\ Store!Spec
            /\ Cache!Init /\ [][Cache!Next]_(Cache!vars)
            /\ Rates!Init /\ [][Rates!Next]_(Rates!vars)
            /\ Events!Init /\ [][Events!Next]_(Events!vars)
<1>1. Init => /\ Store!Init /\ Cache!Init /\ Rates!Init /\ Events!Init
  BY DEF Init
<1>2. [Next]_vars => /\ [Store!Next]_(Store!storeVars)
                     /\ [Cache!Next]_(Cache!vars) /\ [Rates!Next]_(Rates!vars)
                     /\ [Events!Next]_(Events!vars)
  <2> SUFFICES ASSUME [Next]_vars
               PROVE  /\ Store!Next \/ UNCHANGED store
                      /\ Cache!Next \/ UNCHANGED cache
                      /\ Rates!Next \/ UNCHANGED rates
                      /\ Events!Next \/ UNCHANGED events
    BY DEF store, cache, rates, events,
           Store!storeVars, Cache!vars, Rates!vars, Events!vars
  <2> QED
    BY DEF Next, vars, data, server, RunAccounts, RunCompliance, RunLimit,
           RunMoney, RunWallet, RunTrading, RunStore, RunCache, RunRates, RunEvents, Change,
           RunHttp, RunAccount, RunTicket, RunList, Navigate
<1> QED
  BY <1>1, <1>2, PTL DEF Spec, Store!Spec

-----------------------------------------------------------------------------
(* The limit on attempts.  An attempt under way that no key has refused    *)
(* yet is as good as admitted: the invariant counts it for every key that  *)
(* counts it.                                                              *)

AttemptRows == [busy : BOOLEAN, incr : SUBSET Keys, expire : SUBSET Keys,
                limited : BOOLEAN, counted : SUBSET Keys]

Pending(k) == {a \in Attempts : k \in attempt[a].counted /\ ~attempt[a].limited}

Within(k) ==
    /\ admitted[k] + Cardinality(Pending(k)) <= count[k]
    /\ admitted[k] + Cardinality(Pending(k)) <= Max

LimitInv ==
    /\ count \in [Keys -> Nat] /\ admitted \in [Keys -> Nat]
    /\ attempt \in [Attempts -> AttemptRows]
    /\ \A k \in Keys : Within(k)

LEMMA PendingFinite ==
    ASSUME Lim!RateLimitAssumption, NEW k \in Keys
    PROVE  /\ IsFiniteSet(Pending(k)) /\ Cardinality(Pending(k)) \in Nat
           /\ IsFiniteSet(Pending(k)') /\ Cardinality(Pending(k)') \in Nat
<1>1. Pending(k) \in SUBSET Attempts /\ Pending(k)' \in SUBSET Attempts
  BY DEF Pending
<1>2. IsFiniteSet(Pending(k)) /\ IsFiniteSet(Pending(k)')
  <2>1. IsFiniteSet(Attempts)
    BY DEF Lim!RateLimitAssumption, Lim!IsFiniteSet, IsFiniteSet
  <2> QED
    BY <1>1, <2>1, FS_Subset
<1> QED
  BY <1>2, FS_CardinalityType

\* A key that no more attempts wait for, and that admits no more, stays within.
LEMMA FewerPending ==
    ASSUME Lim!RateLimitAssumption, LimitInv, NEW k \in Keys,
           Pending(k)' \subseteq Pending(k),
           admitted'[k] = admitted[k], count'[k] \in Nat, count'[k] >= count[k]
    PROVE  Within(k)'
<1>1. Cardinality(Pending(k)') <= Cardinality(Pending(k))
  BY PendingFinite, FS_Subset
<1> QED
  BY <1>1, PendingFinite DEF LimitInv, Within, Lim!RateLimitAssumption

LEMMA LimitInit ==
    ASSUME Lim!RateLimitAssumption, Lim!Init PROVE LimitInv
<1>1. attempt \in [Attempts -> AttemptRows]
  BY DEF Lim!Init, Lim!Idle, Lim!Record, AttemptRows
<1>2. ASSUME NEW k \in Keys PROVE Within(k)
  <2>1. Pending(k) = {}
    BY DEF Lim!Init, Lim!Idle, Lim!Record, Pending
  <2> QED
    BY <2>1, FS_EmptySet DEF Lim!Init, Within, Lim!RateLimitAssumption
<1> QED
  BY <1>1, <1>2 DEF Lim!Init, LimitInv

\* The clock forgets a counter together with all it counted.
LEMMA LimitTick ==
    ASSUME Lim!RateLimitAssumption, LimitInv, Lim!Tick PROVE LimitInv'
<1>1. /\ count' \in [Keys -> Nat] /\ admitted' \in [Keys -> Nat]
      /\ attempt' \in [Attempts -> AttemptRows]
  BY DEF Lim!Tick, LimitInv, AttemptRows
<1>2. ASSUME NEW k \in Keys, Lim!Expired(k, now + 1) PROVE Within(k)'
  <2>1. Pending(k)' = {} /\ count'[k] = 0 /\ admitted'[k] = 0
    BY <1>2 DEF Lim!Tick, Pending, LimitInv, AttemptRows
  <2> QED
    BY <2>1, FS_EmptySet DEF Within, Lim!RateLimitAssumption
<1>3. ASSUME NEW k \in Keys, ~Lim!Expired(k, now + 1) PROVE Within(k)'
  <2>1. Pending(k)' \subseteq Pending(k) /\ count'[k] = count[k] /\ admitted'[k] = admitted[k]
    BY <1>3 DEF Lim!Tick, Pending, LimitInv, AttemptRows
  <2> QED
    BY <2>1, FewerPending DEF LimitInv
<1> QED
  BY <1>1, <1>2, <1>3 DEF LimitInv

\* The limiter in memory admits under all its keys, or under none.
LEMMA LimitCheck ==
    ASSUME Lim!RateLimitAssumption, LimitInv, NEW K \in SUBSET Keys, Lim!Check(K) PROVE LimitInv'
<1>1. /\ count' \in [Keys -> Nat] /\ admitted' \in [Keys -> Nat] /\ attempt' = attempt
  BY DEF Lim!Check, Lim!Admit, LimitInv
<1>2. ASSUME NEW k \in Keys PROVE Within(k)'
  <2>1. Pending(k)' = Pending(k)
    BY <1>1 DEF Pending
  <2>2. CASE count' = count /\ admitted' = admitted
    BY <2>1, <2>2 DEF LimitInv, Within
  <2>3. CASE /\ ~ \E j \in K : Lim!Limited(j)
             /\ count' = [j \in Keys |-> count[j] + IF j \in K THEN 1 ELSE 0]
             /\ Lim!Admit(K)
    BY <2>1, <2>3, PendingFinite DEF Lim!Limited, Lim!Admit, LimitInv, Within, Lim!RateLimitAssumption
  <2> QED
    BY <2>2, <2>3 DEF Lim!Check
<1> QED
  BY <1>1, <1>2 DEF LimitInv

\* The counter that an attempt raises to n was below n: it is within the limit
\* with the attempt, or the attempt is refused.
LEMMA LimitIncr ==
    ASSUME Lim!RateLimitAssumption, LimitInv, NEW a \in Attempts, NEW k \in Keys, Lim!Incr(a, k)
    PROVE  LimitInv'
<1>1. /\ count' \in [Keys -> Nat] /\ admitted' = admitted
      /\ attempt' \in [Attempts -> AttemptRows]
  BY DEF Lim!Incr, LimitInv, AttemptRows
<1>2. \A j \in Keys : Pending(j)' \subseteq Pending(j) \cup (IF j = k THEN {a} ELSE {})
  BY DEF Lim!Incr, Pending, LimitInv, AttemptRows
<1>3. Lim!Over(count[k] + 1) => a \notin Pending(k)'
  BY DEF Lim!Incr, Pending, LimitInv, AttemptRows
<1>4. ASSUME NEW j \in Keys, j # k \/ a \notin Pending(k)' PROVE Within(j)'
  <2>1. Pending(j)' \subseteq Pending(j)
    BY <1>2, <1>4
  <2>2. count'[j] >= count[j]
    BY DEF Lim!Incr, LimitInv
  <2> QED
    BY <1>1, <2>1, <2>2, FewerPending
<1>5. ASSUME a \in Pending(k)' PROVE Within(k)'
  <2>1. Cardinality(Pending(k)') <= Cardinality(Pending(k)) + 1
    <3>1. Pending(k)' \in SUBSET (Pending(k) \cup {a})
      BY <1>2
    <3>2. /\ IsFiniteSet(Pending(k) \cup {a})
          /\ Cardinality(Pending(k) \cup {a}) \in {Cardinality(Pending(k)), Cardinality(Pending(k)) + 1}
      <4>1. IsFiniteSet(Pending(k))
        BY PendingFinite
      <4> QED
        BY <4>1, FS_AddElement, Zenon
    <3>3. Cardinality(Pending(k) \cup {a}) \in Nat
      BY <3>2, FS_CardinalityType
    <3>4. Cardinality(Pending(k)') <= Cardinality(Pending(k) \cup {a})
      BY <3>1, <3>2, FS_Subset
    <3> QED
      BY <3>2, <3>3, <3>4, PendingFinite
  <2>2. count'[k] = count[k] + 1 /\ count[k] + 1 <= Max
    BY <1>3, <1>5 DEF Lim!Incr, LimitInv, Lim!Over, Lim!RateLimitAssumption
  <2> QED
    BY <1>1, <2>1, <2>2, PendingFinite DEF LimitInv, Within, Lim!RateLimitAssumption
<1> QED
  BY <1>1, <1>4, <1>5 DEF LimitInv

\* The attempt that is admitted was pending under every key that counted it.
LEMMA LimitDecide ==
    ASSUME Lim!RateLimitAssumption, LimitInv, NEW a \in Attempts, Lim!Decide(a) PROVE LimitInv'
<1>1. /\ count' = count /\ admitted' \in [Keys -> Nat]
      /\ attempt' \in [Attempts -> AttemptRows]
  BY DEF Lim!Decide, Lim!Admit, Lim!Idle, Lim!Record, LimitInv, AttemptRows
<1>2. \A k \in Keys : Pending(k)' = Pending(k) \ {a}
  BY DEF Lim!Decide, Lim!Idle, Lim!Record, Pending, LimitInv, AttemptRows
<1>3. ASSUME NEW k \in Keys, a \notin Pending(k) PROVE Within(k)'
  <2>1. admitted'[k] = admitted[k]
    BY <1>3 DEF Lim!Decide, Lim!Admit, Pending, LimitInv
  <2> QED
    BY <1>1, <1>2, <2>1, FewerPending DEF LimitInv
<1>4. ASSUME NEW k \in Keys, a \in Pending(k) PROVE Within(k)'
  <2>1. admitted'[k] = admitted[k] + 1
    BY <1>4 DEF Lim!Decide, Lim!Admit, Pending, LimitInv
  <2>2. Cardinality(Pending(k)') = Cardinality(Pending(k)) - 1
    BY <1>2, <1>4, PendingFinite, FS_RemoveElement
  <2> QED
    BY <1>1, <2>1, <2>2, PendingFinite DEF LimitInv, Within, Lim!RateLimitAssumption
<1> QED
  BY <1>1, <1>3, <1>4 DEF LimitInv

\* A step of one attempt that neither counts nor admits.
LEMMA LimitQuiet ==
    ASSUME Lim!RateLimitAssumption, LimitInv, NEW a \in Attempts, NEW r \in AttemptRows,
           attempt' = [attempt EXCEPT ![a] = r], UNCHANGED <<count, admitted>>,
           r.counted = {} \/ (r.counted = attempt[a].counted /\ r.limited = attempt[a].limited)
    PROVE  LimitInv'
<1>1. attempt' \in [Attempts -> AttemptRows]
  BY DEF LimitInv
<1>2. \A k \in Keys : Pending(k)' \subseteq Pending(k)
  BY DEF Pending, LimitInv
<1> QED
  BY <1>1, <1>2, FewerPending DEF LimitInv

LEMMA LimitNext ==
    ASSUME Lim!RateLimitAssumption, LimitInv, [Lim!Next]_(Lim!vars) PROVE LimitInv'
<1>1. ASSUME NEW a \in Attempts, NEW K \in SUBSET Keys, Lim!Begin(a, K) PROVE LimitInv'
  BY <1>1, LimitQuiet DEF Lim!Begin, Lim!Record, AttemptRows
<1>2. ASSUME NEW a \in Attempts, NEW k \in Keys, Lim!PExpire(a, k) PROVE LimitInv'
  <2>1. attempt' = [attempt EXCEPT ![a] = [attempt[a] EXCEPT !.expire = attempt[a].expire \ {k}]]
    BY <1>2 DEF Lim!PExpire, LimitInv, AttemptRows
  <2>2. PICK r : r = [attempt[a] EXCEPT !.expire = attempt[a].expire \ {k}]
    OBVIOUS
  <2>3. attempt[a] \in AttemptRows
    BY DEF LimitInv
  <2>4. r \in AttemptRows /\ r.counted = attempt[a].counted /\ r.limited = attempt[a].limited
    BY <2>2, <2>3 DEF AttemptRows
  <2>5. attempt' = [attempt EXCEPT ![a] = r] /\ UNCHANGED <<count, admitted>>
    BY <1>2, <2>1, <2>2 DEF Lim!PExpire
  <2> QED
    BY <2>4, <2>5, LimitQuiet
<1>3. ASSUME NEW a \in Attempts, Lim!Die(a) PROVE LimitInv'
  BY <1>3, LimitQuiet DEF Lim!Die, Lim!Idle, Lim!Record, AttemptRows
<1>4. CASE UNCHANGED Lim!vars
  BY <1>4 DEF Lim!vars, LimitInv, Within, Pending
<1> QED
  BY <1>1, <1>2, <1>3, <1>4, LimitTick, LimitCheck, LimitIncr, LimitDecide DEF Lim!Next

\* Somebody sees to it that a counter without an expiry gets one, or died.
Watched(k) == k \in orphaned \/ \E a \in Attempts : k \in attempt[a].expire

ExpiryInv ==
    /\ now \in Nat /\ resetAt \in [Keys -> Nat]
    /\ \A a \in Attempts : ~attempt[a].busy => attempt[a].incr = {} /\ attempt[a].expire = {}
    /\ \A k \in Keys : count[k] > 0 /\ resetAt[k] = 0 => Watched(k)

LEMMA ExpiryNext ==
    ASSUME Lim!RateLimitAssumption, LimitInv, ExpiryInv, [Lim!Next]_(Lim!vars)
    PROVE  ExpiryInv'
<1>1. /\ count \in [Keys -> Nat] /\ attempt \in [Attempts -> AttemptRows]
      /\ WindowMs \in Nat \ {0}
  BY DEF LimitInv, Lim!RateLimitAssumption
<1>2. CASE Lim!Tick
  <2>1. /\ now' \in Nat /\ resetAt' \in [Keys -> Nat] /\ orphaned' = orphaned
        /\ \A k \in Keys : \/ count'[k] = 0
                           \/ count'[k] = count[k] /\ resetAt'[k] = resetAt[k]
    BY <1>1, <1>2 DEF Lim!Tick, ExpiryInv
  <2>2. \A a \in Attempts : /\ attempt'[a].busy = attempt[a].busy
                            /\ attempt'[a].incr = attempt[a].incr
                            /\ attempt'[a].expire = attempt[a].expire
    BY <1>1, <1>2 DEF Lim!Tick, AttemptRows
  <2> QED
    BY <2>1, <2>2 DEF ExpiryInv, Watched
<1>3. ASSUME NEW K \in SUBSET Keys, Lim!Check(K) PROVE ExpiryInv'
  <2>1. /\ now' = now /\ attempt' = attempt /\ orphaned' = orphaned
        /\ resetAt' = [k \in Keys |-> IF k \in K /\ resetAt[k] = 0 THEN now + WindowMs
                                                                  ELSE resetAt[k]]
        /\ \A k \in Keys \ K : count'[k] = count[k]
    BY <1>1, <1>3 DEF Lim!Check
  <2>2. resetAt' \in [Keys -> Nat] /\ \A k \in K : resetAt'[k] # 0
    BY <1>1, <2>1 DEF ExpiryInv
  <2> QED
    BY <1>1, <2>1, <2>2 DEF ExpiryInv, Watched
<1>4. ASSUME NEW a \in Attempts, NEW K \in SUBSET Keys, Lim!Begin(a, K) PROVE ExpiryInv'
  <2>1. UNCHANGED <<now, count, resetAt, orphaned>> /\ attempt[a].expire = {}
    BY <1>4 DEF Lim!Begin, ExpiryInv
  <2>2. /\ attempt'[a].busy
        /\ \A b \in Attempts \ {a} : attempt'[b] = attempt[b]
    BY <1>1, <1>4 DEF Lim!Begin, Lim!Record
  <2> QED
    BY <2>1, <2>2 DEF ExpiryInv, Watched
<1>5. ASSUME NEW a \in Attempts, NEW k \in Keys, Lim!Incr(a, k) PROVE ExpiryInv'
  <2>1. /\ UNCHANGED <<now, resetAt, orphaned>>
        /\ \A j \in Keys : count'[j] = IF j = k THEN count[k] + 1 ELSE count[j]
    BY <1>1, <1>5 DEF Lim!Incr
  <2>2. \A b \in Attempts \ {a} : attempt'[b] = attempt[b]
    BY <1>1, <1>5 DEF Lim!Incr
  <2>3. /\ attempt'[a].busy = attempt[a].busy
        /\ attempt'[a].expire = IF count[k] + 1 = 1 THEN attempt[a].expire \cup {k}
                                                   ELSE attempt[a].expire
    BY <1>1, <1>5 DEF Lim!Incr, Lim!NeedsExpiry
  <2>4. attempt[a].busy
    BY <1>5 DEF Lim!Incr, ExpiryInv
  <2>5. ASSUME NEW j \in Keys, count'[j] > 0, resetAt'[j] = 0 PROVE Watched(j)'
    <3>1. CASE j = k /\ count[k] = 0
      BY <2>3, <3>1 DEF Watched
    <3>2. CASE count[j] > 0
      <4>1. Watched(j)
        BY <2>1, <2>5, <3>2 DEF ExpiryInv
      <4> QED
        BY <2>1, <2>2, <2>3, <4>1 DEF Watched
    <3> QED
      BY <1>1, <2>1, <2>5, <3>1, <3>2
  <2> QED
    BY <1>1, <2>1, <2>2, <2>3, <2>4, <2>5 DEF ExpiryInv
<1>6. ASSUME NEW a \in Attempts, NEW k \in Keys, Lim!PExpire(a, k) PROVE ExpiryInv'
  <2>1. /\ UNCHANGED <<now, count, orphaned>>
        /\ \A j \in Keys : resetAt'[j] = IF j = k THEN now + WindowMs ELSE resetAt[j]
        /\ resetAt' \in [Keys -> Nat]
    BY <1>1, <1>6 DEF Lim!PExpire, ExpiryInv
  <2>2. /\ \A b \in Attempts \ {a} : attempt'[b] = attempt[b]
        /\ attempt'[a].busy = attempt[a].busy /\ attempt'[a].incr = attempt[a].incr
        /\ attempt'[a].expire = attempt[a].expire \ {k}
    BY <1>1, <1>6 DEF Lim!PExpire, AttemptRows
  <2>3. now \in Nat /\ now + WindowMs # 0
    BY <1>1 DEF ExpiryInv
  <2> QED
    BY <2>1, <2>2, <2>3 DEF ExpiryInv, Watched
<1>7. ASSUME NEW a \in Attempts, Lim!Decide(a) \/ Lim!Die(a) PROVE ExpiryInv'
  <2>1. /\ UNCHANGED <<now, count, resetAt>>
        /\ orphaned \subseteq orphaned' /\ attempt[a].expire \subseteq orphaned'
    BY <1>7 DEF Lim!Decide, Lim!Die
  <2>2. /\ \A b \in Attempts \ {a} : attempt'[b] = attempt[b]
        /\ attempt'[a].incr = {} /\ attempt'[a].expire = {}
    BY <1>1, <1>7 DEF Lim!Decide, Lim!Die, Lim!Idle, Lim!Record
  <2> QED
    BY <2>1, <2>2 DEF ExpiryInv, Watched
<1>8. CASE UNCHANGED Lim!vars
  BY <1>8 DEF Lim!vars, ExpiryInv, Watched
<1> QED
  BY <1>2, <1>3, <1>4, <1>5, <1>6, <1>7, <1>8 DEF Lim!Next

\* The limit holds for any number of keys, of attempts under way and of attempts per
\* window, and no counter is left without an expiry, also when processes die between
\* the commands of a check.
THEOREM LimitAlwaysKept == Spec => []AtMostMaxAdmitted
<1>1. Lim!RateLimitAssumption
  OBVIOUS
<1>2. Lim!Init => LimitInv /\ ExpiryInv
  <2>1. Lim!Init => LimitInv
    BY <1>1, LimitInit
  <2>2. Lim!Init => ExpiryInv
    BY DEF Lim!Init, Lim!Idle, Lim!Record, ExpiryInv
  <2> QED
    BY <2>1, <2>2
<1>3. LimitInv /\ ExpiryInv /\ [Lim!Next]_(Lim!vars) => LimitInv' /\ ExpiryInv'
  BY <1>1, LimitNext, ExpiryNext
<1>4. LimitInv /\ ExpiryInv => AtMostMaxAdmitted
  <2>1. LimitInv => Lim!AtMostMaxAdmitted
    BY <1>1, PendingFinite DEF LimitInv, Within, Lim!AtMostMaxAdmitted, Lim!RateLimitAssumption
  <2>2. ExpiryInv => Lim!CountersExpire
    BY DEF ExpiryInv, Watched, Lim!CountersExpire
  <2> QED
    BY <2>1, <2>2 DEF AtMostMaxAdmitted
<1> QED
  BY <1>2, <1>3, <1>4, EveryComponentRuns, PTL DEF Lim!Spec

-----------------------------------------------------------------------------
(* Compliance.  What a request has read may be out of date, but it was     *)
(* stored once; a refusal can only become obsolete by coming of age, and   *)
(* consents are never withdrawn.                                           *)

RequestRows == [op : {"none", "me", "eligibility", "update", "accept"},
          stage : {"idle", "read", "create", "write", "consents", "answered", "consent"},
          patch : Com!Patches \cup {None}, read : Com!Profiles \cup {None},
          todo : SUBSET Com!ConsentTypes, answer : {"none", "yes", "no"}]

\* The statuses that are stored with a profile say whether it is refused.
Derived(p) ==
    /\ Com!Refused(p) => p.risk = "blocked" /\ p.kyc = "rejected"
    /\ p.aml = "blocked" <=> p.country \in Blocked
    /\ p.risk = "low" => ~Com!Refused(p)

\* What a request holds at the stage it is at.
Consistent(r) ==
    /\ r.op = "update" /\ r.stage \in {"read", "create"} => r.patch \in Com!Patches
    /\ r.stage \in {"write", "consents"} => r.read \in Com!Profiles
    /\ r.stage = "write" => Derived(r.read)
    /\ r.answer # "none" => r.stage = "answered"

ProfileInv ==
    /\ Com!TypeOK /\ grown \in BOOLEAN
    /\ request \in [Calls -> RequestRows]
    /\ \A c \in Calls : Consistent(request[c])
    /\ Com!RefusalIsStored /\ Com!EligibleHasConsented

LEMMA StatusesDerived ==
    ASSUME NEW p \in Com!Profiles
    PROVE  Com!DeriveComplianceStatuses(p) \in Com!Profiles
           /\ Derived(Com!DeriveComplianceStatuses(p))
<1>1. PICK q : q = Com!DeriveComplianceStatuses(p)
  OBVIOUS
<1>2. /\ q \in Com!Profiles
      /\ q.country = p.country /\ q.birth = p.birth
      /\ q.kyc = (IF Com!Refused(p) THEN "rejected" ELSE "not_started")
      /\ q.aml = (IF p.country \in Blocked THEN "blocked" ELSE "clear")
      /\ q.risk = (IF Com!Refused(p) THEN "blocked" ELSE "low")
  BY <1>1 DEF Com!DeriveComplianceStatuses, Com!Profiles
<1>3. Com!Refused(q) <=> Com!Refused(p)
  BY <1>2 DEF Com!Refused
<1> QED
  BY <1>1, <1>2, <1>3 DEF Derived

LEMMA EmptyIsClear ==
    Com!EmptyProfile \in Com!Profiles /\ Derived(Com!EmptyProfile)
  BY DEF Com!EmptyProfile, Com!Profiles, Com!Refused, Com!UnderAge, Com!ComplianceAssumption, Derived

\* What a request does with the profile it was given.
LEMMA GivenProfile ==
    ASSUME NEW r \in RequestRows, Consistent(r), r.stage \in {"read", "create"},
           NEW p \in Com!Profiles
    PROVE  LET g == Com!Given(r, p) IN g \in RequestRows /\ Consistent(g) /\ g.answer = "none"
<1>1. CASE r.op = "update"
  <2>1. r.patch \in Com!Patches
    BY <1>1 DEF Consistent
  <2>2. PICK q : q = Com!Patched(p, r.patch)
    OBVIOUS
  <2>3. q \in Com!Profiles
    BY <2>1, <2>2 DEF Com!Patched, Com!Patches, Com!Profiles
  <2>4. PICK d : d = Com!DeriveComplianceStatuses(q)
    OBVIOUS
  <2>5. d \in Com!Profiles /\ Derived(d)
    BY <2>3, <2>4, StatusesDerived
  <2>6. PICK g : g = [Com!Idle EXCEPT !.op = r.op, !.stage = "write", !.read = d]
    OBVIOUS
  <2>7. Com!Given(r, p) = g
    BY <1>1, <2>2, <2>4, <2>6 DEF Com!Given
  <2>8. g \in RequestRows /\ g.stage = "write" /\ g.read = d /\ g.answer = "none"
    BY <2>5, <2>6 DEF Com!Idle, RequestRows
  <2> QED
    BY <2>5, <2>7, <2>8 DEF Consistent
<1>2. CASE r.op # "update"
  <2>1. PICK g : g = [Com!Idle EXCEPT !.op = r.op, !.stage = "consents", !.read = p]
    OBVIOUS
  <2>2. Com!Given(r, p) = g
    BY <1>2, <2>1 DEF Com!Given
  <2>3. g \in RequestRows /\ g.stage = "consents" /\ g.read = p /\ g.answer = "none"
    BY <2>1 DEF Com!Idle, RequestRows
  <2> QED
    BY <2>2, <2>3 DEF Consistent
<1> QED
  BY <1>1, <1>2

\* A request moves on, and the row and the consents stay as they are.
LEMMA OnlyRequest ==
    ASSUME ProfileInv, NEW c \in Calls, NEW r \in RequestRows, Com!Become(c, r),
           UNCHANGED <<row, consents, grown>>, Consistent(r),
           r.answer = "yes" => consents = Com!ConsentTypes /\ ~Com!Refused(r.read)
    PROVE  ProfileInv'
<1>1. \A d \in Calls : request'[d] = IF d = c THEN r ELSE request[d]
  BY DEF ProfileInv, Com!Become
<1>2. request' \in [Calls -> RequestRows]
  BY DEF ProfileInv, Com!Become
<1>3. \A d \in Calls : Consistent(request[d])'
  BY <1>1 DEF ProfileInv, Consistent, Derived, Com!Refused, Com!UnderAge
<1>4. Com!TypeOK' /\ grown' \in BOOLEAN /\ Com!RefusalIsStored'
  BY DEF ProfileInv, Com!TypeOK, Com!RefusalIsStored, Com!Refused, Com!UnderAge
<1>5. Com!EligibleHasConsented'
  BY <1>1 DEF ProfileInv, Com!EligibleHasConsented, Com!Refused, Com!UnderAge
<1> QED
  BY <1>2, <1>3, <1>4, <1>5 DEF ProfileInv

\* A request stores a profile whose statuses are right.
LEMMA RowStored ==
    ASSUME ProfileInv, NEW c \in Calls, NEW r \in RequestRows, Com!Become(c, r), Consistent(r),
           r.answer = "none", NEW p \in Com!Profiles, Derived(p), row' = p, UNCHANGED <<consents, grown>>
    PROVE  ProfileInv'
<1>1. \A d \in Calls : request'[d] = IF d = c THEN r ELSE request[d]
  BY DEF ProfileInv, Com!Become
<1>2. request' \in [Calls -> RequestRows]
  BY DEF ProfileInv, Com!Become
<1>3. \A d \in Calls : Consistent(request[d])'
  BY <1>1 DEF ProfileInv, Consistent, Derived, Com!Refused, Com!UnderAge
<1>4. Com!TypeOK' /\ grown' \in BOOLEAN
  BY DEF ProfileInv, Com!TypeOK
<1>5. Com!RefusalIsStored'
  BY DEF Derived, Com!RefusalIsStored, Com!Refused, Com!UnderAge
<1>6. Com!EligibleHasConsented'
  BY <1>1 DEF ProfileInv, Com!EligibleHasConsented, Com!Refused, Com!UnderAge
<1> QED
  BY <1>2, <1>3, <1>4, <1>5, <1>6 DEF ProfileInv

LEMMA ReadProfileStep ==
    ASSUME ProfileInv, NEW c \in Calls, Com!ReadProfile(c) PROVE ProfileInv'
<1>1. /\ request[c] \in RequestRows /\ Consistent(request[c]) /\ request[c].stage = "read"
      /\ row \in Com!Profiles \cup {None} /\ UNCHANGED <<row, consents, grown>>
  BY DEF ProfileInv, Com!TypeOK, Com!ReadProfile, Com!At
<1>2. CASE row = None
  <2>1. PICK r : r = [request[c] EXCEPT !.stage = "create"]
    OBVIOUS
  <2>2. r \in RequestRows /\ Consistent(r) /\ r.answer = "none"
    BY <1>1, <2>1 DEF RequestRows, Consistent
  <2>3. Com!Become(c, r)
    BY <1>2, <2>1 DEF Com!ReadProfile
  <2> QED
    BY <1>1, <2>2, <2>3, OnlyRequest
<1>3. CASE row # None
  <2>1. PICK r : r = Com!Given(request[c], row)
    OBVIOUS
  <2>2. r \in RequestRows /\ Consistent(r) /\ r.answer = "none"
    BY <1>1, <1>3, <2>1, GivenProfile
  <2>3. Com!Become(c, r)
    BY <1>3, <2>1 DEF Com!ReadProfile
  <2> QED
    BY <1>1, <2>2, <2>3, OnlyRequest
<1> QED
  BY <1>2, <1>3

LEMMA CreateProfileStep ==
    ASSUME ProfileInv, NEW c \in Calls, Com!CreateProfile(c) PROVE ProfileInv'
<1>1. request[c] \in RequestRows /\ Consistent(request[c]) /\ request[c].stage = "create"
  BY DEF ProfileInv, Com!CreateProfile, Com!At
<1>2. PICK p : p = Com!EmptyProfile
  OBVIOUS
<1>3. p \in Com!Profiles /\ Derived(p)
  BY <1>2, EmptyIsClear
<1>4. PICK r : r = Com!Given(request[c], p)
  OBVIOUS
<1>5. r \in RequestRows /\ Consistent(r) /\ r.answer = "none"
  BY <1>1, <1>3, <1>4, GivenProfile
<1>6. Com!Become(c, r) /\ row' = p /\ UNCHANGED <<consents, grown>>
  BY <1>2, <1>4 DEF Com!CreateProfile
<1> QED
  BY <1>3, <1>5, <1>6, RowStored

LEMMA WriteProfileStep ==
    ASSUME ProfileInv, NEW c \in Calls, Com!WriteProfile(c) PROVE ProfileInv'
<1>1. request[c] \in RequestRows /\ Consistent(request[c]) /\ request[c].stage = "write"
  BY DEF ProfileInv, Com!WriteProfile, Com!At
<1>2. PICK p : p = request[c].read
  OBVIOUS
<1>3. p \in Com!Profiles /\ Derived(p)
  BY <1>1, <1>2 DEF Consistent
<1>4. PICK r : r = [Com!Idle EXCEPT !.op = "me", !.stage = "read"]
  OBVIOUS
<1>5. r \in RequestRows /\ Consistent(r) /\ r.answer = "none"
  BY <1>4 DEF Com!Idle, RequestRows, Consistent
<1>6. Com!Become(c, r) /\ row' = p /\ UNCHANGED <<consents, grown>>
  BY <1>2, <1>4 DEF Com!WriteProfile
<1> QED
  BY <1>3, <1>5, <1>6, RowStored

LEMMA ReadConsentsStep ==
    ASSUME ProfileInv, NEW c \in Calls, Com!ReadConsents(c) PROVE ProfileInv'
<1>1. request[c] \in RequestRows /\ Consistent(request[c]) /\ request[c].stage = "consents"
  BY DEF ProfileInv, Com!ReadConsents, Com!At
<1>2. UNCHANGED <<row, consents, grown>>
  BY DEF Com!ReadConsents
<1>3. PICK a : a = IF Com!CanTrade(request[c].read, consents) THEN "yes" ELSE "no"
  OBVIOUS
<1>4. a = "yes" => consents = Com!ConsentTypes /\ ~Com!Refused(request[c].read)
  BY <1>3 DEF Com!CanTrade, Com!HasAllLegalConsents
<1>5. CASE Com!Become(c, Com!Idle)
  <2>1. Com!Idle \in RequestRows /\ Consistent(Com!Idle) /\ Com!Idle.answer = "none"
    BY DEF Com!Idle, RequestRows, Consistent
  <2> QED
    BY <1>2, <1>5, <2>1, OnlyRequest
<1>6. CASE Com!Become(c, [Com!Idle EXCEPT !.op = request[c].op, !.stage = "answered",
                              !.read = request[c].read, !.answer = a])
  <2>1. PICK r : r = [Com!Idle EXCEPT !.op = request[c].op, !.stage = "answered",
                          !.read = request[c].read, !.answer = a]
    OBVIOUS
  <2>2. r \in RequestRows /\ r.answer = a /\ r.read = request[c].read /\ r.stage = "answered"
    BY <1>1, <1>3, <2>1 DEF Com!Idle, RequestRows
  <2>3. Consistent(r)
    BY <2>2 DEF Consistent
  <2>4. r.answer = "yes" => consents = Com!ConsentTypes /\ ~Com!Refused(r.read)
    BY <1>4, <2>2
  <2> QED
    BY <1>2, <1>6, <2>1, <2>2, <2>3, <2>4, OnlyRequest
<1> QED
  BY <1>3, <1>5, <1>6 DEF Com!ReadConsents

LEMMA ConsentStep ==
    ASSUME ProfileInv, NEW c \in Calls, NEW type \in Com!ConsentTypes,
           Com!UpsertLegalConsent(c, type)
    PROVE  ProfileInv'
<1>1. request[c] \in RequestRows /\ Consistent(request[c]) /\ request[c].stage = "consent"
  BY DEF ProfileInv, Com!UpsertLegalConsent, Com!At
<1>2. /\ consents' = consents \cup {type} /\ UNCHANGED <<row, grown>>
      /\ consents \subseteq Com!ConsentTypes
  BY DEF ProfileInv, Com!TypeOK, Com!UpsertLegalConsent
<1>3. PICK r : r = IF request[c].todo = {type} THEN Com!Idle
                   ELSE [request[c] EXCEPT !.todo = @ \ {type}]
  OBVIOUS
<1>4. r \in RequestRows /\ Consistent(r) /\ r.answer = "none"
  <2>1. request[c].answer = "none"
    BY <1>1 DEF RequestRows, Consistent
  <2>2. Com!Idle \in RequestRows /\ Consistent(Com!Idle) /\ Com!Idle.answer = "none"
    BY DEF Com!Idle, RequestRows, Consistent
  <2>3. CASE r = [request[c] EXCEPT !.todo = @ \ {type}]
    BY <1>1, <2>1, <2>3 DEF RequestRows, Consistent
  <2> QED
    BY <1>3, <2>2, <2>3
<1>5. request' = [request EXCEPT ![c] = r]
  BY <1>3 DEF Com!UpsertLegalConsent, Com!Become
<1>6. \A d \in Calls : request'[d] = IF d = c THEN r ELSE request[d]
  BY <1>5 DEF ProfileInv
<1>7. request' \in [Calls -> RequestRows] /\ \A d \in Calls : Consistent(request[d])'
  BY <1>2, <1>4, <1>5, <1>6 DEF ProfileInv, Consistent, Derived, Com!Refused, Com!UnderAge
<1>8. Com!TypeOK' /\ grown' \in BOOLEAN /\ Com!RefusalIsStored'
  BY <1>2 DEF ProfileInv, Com!TypeOK, Com!RefusalIsStored, Com!Refused, Com!UnderAge
<1>9. Com!EligibleHasConsented'
  BY <1>2, <1>4, <1>6 DEF ProfileInv, Com!EligibleHasConsented, Com!Refused, Com!UnderAge
<1> QED
  BY <1>7, <1>8, <1>9 DEF ProfileInv

LEMMA ProfileNext ==
    ASSUME ProfileInv, [Com!Next]_(Com!vars) PROVE ProfileInv'
<1>1. ASSUME NEW c \in Calls, NEW op \in {"me", "eligibility", "update"},
             NEW patch \in Com!Patches \cup {None}, op = "update" => patch \in Com!Patches,
             Com!Begin(c, op, patch)
      PROVE  ProfileInv'
  <2>1. PICK r : r = [Com!Idle EXCEPT !.op = op, !.stage = "read", !.patch = patch]
    OBVIOUS
  <2>2. r \in RequestRows /\ Consistent(r) /\ r.answer = "none"
    BY <1>1, <2>1 DEF Com!Idle, RequestRows, Consistent
  <2>3. Com!Become(c, r) /\ UNCHANGED <<row, consents, grown>>
    BY <1>1, <2>1 DEF Com!Begin
  <2> QED
    BY <2>2, <2>3, OnlyRequest
<1>2. ASSUME NEW c \in Calls, Com!AcceptTerms(c) PROVE ProfileInv'
  <2>1. PICK r : r = [Com!Idle EXCEPT !.op = "accept", !.stage = "consent",
                          !.todo = Com!ConsentTypes]
    OBVIOUS
  <2>2. r \in RequestRows /\ Consistent(r) /\ r.answer = "none"
    BY <2>1 DEF Com!Idle, RequestRows, Consistent
  <2>3. Com!Become(c, r) /\ UNCHANGED <<row, consents, grown>>
    BY <1>2, <2>1 DEF Com!AcceptTerms
  <2> QED
    BY <2>2, <2>3, OnlyRequest
<1>3. ASSUME NEW c \in Calls, Com!Finish(c) PROVE ProfileInv'
  <2>1. Com!Idle \in RequestRows /\ Consistent(Com!Idle) /\ Com!Idle.answer = "none"
    BY DEF Com!Idle, RequestRows, Consistent
  <2>2. Com!Become(c, Com!Idle) /\ UNCHANGED <<row, consents, grown>>
    BY <1>3 DEF Com!Finish
  <2> QED
    BY <2>1, <2>2, OnlyRequest
<1>4. CASE Com!ComeOfAge
  <2>1. UNCHANGED <<row, consents, request>> /\ grown' = TRUE
    BY <1>4 DEF Com!ComeOfAge
  <2>2. \A p : Com!Refused(p)' => Com!Refused(p)
    BY <1>4, <2>1 DEF Com!Refused, Com!UnderAge, Com!ComeOfAge
  <2>3. \A d \in Calls : Consistent(request[d])'
    BY <2>1, <2>2 DEF ProfileInv, Consistent, Derived
  <2> QED
    BY <2>1, <2>2, <2>3 DEF ProfileInv, Com!TypeOK, Com!RefusalIsStored, Com!EligibleHasConsented
<1>5. CASE UNCHANGED Com!vars
  BY <1>5 DEF Com!vars, ProfileInv, Com!TypeOK, Com!RefusalIsStored, Com!EligibleHasConsented,
              Consistent, Derived, Com!Refused, Com!UnderAge
<1> QED
  BY <1>1, <1>2, <1>3, <1>4, <1>5, ReadProfileStep, CreateProfileStep, WriteProfileStep,
     ReadConsentsStep, ConsentStep DEF Com!Next

\* However many requests overwrite each other's profiles and fail half-way: a stored
\* profile that must be refused carries its refusal, and whoever is told that they may
\* trade has consented to all three texts and was not refused.
THEOREM EligibleAlwaysConsented == Spec => []EligibleHasConsented
<1>1. Com!Init => ProfileInv
  <2>1. Com!Idle \in RequestRows /\ Consistent(Com!Idle) /\ Com!Idle.answer = "none"
    BY DEF Com!Idle, RequestRows, Consistent
  <2> QED
    BY <2>1 DEF Com!Init, ProfileInv, Com!TypeOK, Com!RefusalIsStored, Com!EligibleHasConsented
<1>2. ProfileInv /\ [Com!Next]_(Com!vars) => ProfileInv'
  BY ProfileNext
<1>3. ProfileInv => EligibleHasConsented
  BY DEF ProfileInv, EligibleHasConsented
<1> QED
  BY <1>1, <1>2, <1>3, EveryComponentRuns, PTL DEF Com!Spec

-----------------------------------------------------------------------------
(* Accounts.  What a request has read of a row may have been overwritten   *)
(* since, but what it proves does not go away: a secret for which a code   *)
(* was shown stays proven, and a token that was used stays used.           *)

UserOps == {"none", "register", "login", "forgotten", "verify", "reset", "logout",
            "revoke_others", "revoke_all", "resend", "setup", "confirm", "disable", "regenerate"}

\* Stages at which a request acts for a user it has looked up.
UserStages == {"status", "code", "session", "mail", "resetMail", "revoke", "setup", "confirm",
               "enable", "disable", "regenerate", "spend", "switchOff", "latest", "newCodes"}

CallRows ==
    [op : UserOps,
     stage : UserStages \cup {"idle", "create", "token", "verified", "password", "purge"},
     email : Emails \cup {None}, user : Acc!UserIds \cup {None}, item : Nat,
     read : Acc!FactorRows]

\* A token mailed to the user for this purpose was used.
Spent(u, kind) ==
    \E t \in Acc!TokenIds : token[t].kind = kind /\ token[t].user = u /\ token[t].state = "used"

\* What a request knows at the stage it is at.
Honest(r) ==
    /\ r.stage \in UserStages => r.user \in Acc!UserIds
    /\ r.stage = "status" => r.op = "login"
    /\ r.stage \in {"code", "spend"} => r.op \in {"login", "disable", "regenerate"}
    /\ r.stage \in {"disable", "regenerate"} => r.op = r.stage
    /\ r.read.enabled => r.read.secret \in proven
    /\ r.stage = "enable" => r.read.secret \in proven
    /\ r.stage = "spend" => r.read.codes # 0
    /\ r.stage = "token" =>
          /\ r.item \in Acc!TokenIds /\ r.op \in {"verify", "reset"}
          /\ token[r.item].kind = r.op /\ token[r.item].user = r.user
    /\ r.stage = "verified" => Spent(r.user, "verify")
    /\ r.stage = "password" => Spent(r.user, "reset")

FactorsProven == \A u \in Acc!UserIds : factor[u].enabled => factor[u].secret \in proven

UsersProven ==
    \A u \in Acc!UserIds : /\ user[u].verified => Spent(u, "verify")
                           /\ user[u].epoch > 0 => Spent(u, "reset")

AccountInv ==
    /\ Acc!TypeOK /\ call \in [Calls -> CallRows]
    /\ \A c \in Calls : Honest(call[c])
    /\ FactorsProven /\ UsersProven

\* Secrets stay proven, tokens keep what they are for, and used ones stay used.
Remembered ==
    /\ proven \subseteq proven'
    /\ \A t \in Acc!TokenIds : token[t].kind # "new" =>
          /\ token'[t].kind = token[t].kind /\ token'[t].user = token[t].user
          /\ token[t].state = "used" => token'[t].state = "used"

LEMMA FirstIn ==
    ASSUME NEW S \in SUBSET Nat, S # {}
    PROVE  Acc!First(S) \in S
<1>1. \E x \in S : \A y \in S : <<y, x>> \notin OpToRel(<, Nat)
  BY WFMin, NatLessThanWellFounded, Zenon
<1>2. PICK x \in S : \A y \in S : <<y, x>> \notin OpToRel(<, Nat)
  BY <1>1
<1>3. \A y \in S : y \in Nat /\ x \in Nat /\ ~(y < x)
  BY <1>2, Zenon DEF OpToRel
<1>4. \A y \in S : x <= y
  BY <1>3
<1> QED
  BY <1>4 DEF Acc!First

LEMMA IdsTyped ==
    /\ Acc!UserIds \subseteq Nat /\ Acc!SessionIds \subseteq Nat /\ Acc!TokenIds \subseteq Nat
    /\ {MaxUsers, MaxSessions, MaxTokens, MaxSecrets, MaxEpoch, BackupCodes} \subseteq Nat
    /\ 1 .. MaxSecrets \subseteq Nat
  BY DEF Acc!AccountsAssumption, Acc!UserIds, Acc!SessionIds, Acc!TokenIds

LEMMA IdleHonest == Acc!Idle \in CallRows /\ Honest(Acc!Idle) /\ Acc!NoFactor \in Acc!FactorRows
<1>1. Acc!NoFactor \in Acc!FactorRows /\ ~Acc!NoFactor.enabled
  BY IdsTyped DEF Acc!NoFactor, Acc!FactorRows
<1> QED
  BY <1>1 DEF Acc!Idle, CallRows, UserOps, UserStages, Honest

LEMMA HonestStays ==
    ASSUME Remembered
    PROVE  /\ \A u, kind : kind # "new" /\ Spent(u, kind) => Spent(u, kind)'
           /\ \A r : Honest(r) => Honest(r)'
<1>1. \A u, kind : kind # "new" /\ Spent(u, kind) => Spent(u, kind)'
  BY DEF Remembered, Spent
<1>2. ASSUME NEW r, Honest(r) PROVE Honest(r)'
  BY <1>1, <1>2 DEF Honest, Remembered
<1> QED
  BY <1>1, <1>2

\* A request moves on, while what is proven is remembered.
LEMMA AccountStep ==
    ASSUME AccountInv, Remembered, Acc!TypeOK', NEW c \in Calls, NEW r \in CallRows,
           call' = [call EXCEPT ![c] = r], Honest(r)',
           FactorsProven',
           \A u \in Acc!UserIds :
               /\ user'[u].verified => user[u].verified \/ Spent(u, "verify")'
               /\ user'[u].epoch > 0 => user[u].epoch > 0 \/ Spent(u, "reset")'
    PROVE  AccountInv'
<1>1. \A d \in Calls : call'[d] = IF d = c THEN r ELSE call[d]
  BY DEF AccountInv
<1>2. call' \in [Calls -> CallRows]
  BY DEF AccountInv
<1>3. \A d \in Calls : Honest(call[d])'
  <2> TAKE d \in Calls
  <2>1. CASE d = c
    BY <1>1, <2>1 DEF Honest, Spent
  <2>2. CASE d # c
    <3>1. PICK q : q = call[d] /\ q = call'[d]
      BY <1>1, <2>2
    <3>2. Honest(q)
      BY <3>1 DEF AccountInv
    <3>3. Honest(q)'
      BY <3>2, HonestStays
    <3> QED
      BY <3>1, <3>3 DEF Honest, Spent
  <2> QED
    BY <2>1, <2>2
<1>4. UsersProven'
  BY HonestStays DEF AccountInv, UsersProven
<1> QED
  BY <1>2, <1>3, <1>4 DEF AccountInv

\* A request that writes neither users, tokens nor two-factor rows.
LEMMA OnlyCall ==
    ASSUME AccountInv, UNCHANGED <<user, token, factor>>, proven \subseteq proven',
           proven' \subseteq 1 .. MaxSecrets,
           session' \in [Acc!SessionIds -> Acc!SessionRows],
           NEW c \in Calls, NEW r \in CallRows, Acc!Become(c, r), Honest(r)'
    PROVE  AccountInv'
<1>1. Remembered
  BY DEF Remembered
<1>2. Acc!TypeOK' /\ FactorsProven'
  BY DEF AccountInv, Acc!TypeOK, FactorsProven
<1> QED
  BY <1>1, <1>2, AccountStep DEF Acc!Become

\* A request begins, for a user it has found or for none yet.
LEMMA BeginCall ==
    ASSUME AccountInv, UNCHANGED <<user, session, token, factor, proven>>, NEW c \in Calls,
           NEW op \in UserOps, NEW stage, NEW e \in Emails \cup {None},
           NEW u \in Acc!UserIds \cup {None}, NEW n \in Nat,
           stage \in UserStages \cup {"create", "token"},
           NEW r, Acc!Become(c, r),
           /\ r.op = op /\ r.stage = stage /\ r.email = e /\ r.user = u /\ r.item = n
           /\ r.read = Acc!NoFactor /\ r = [op |-> r.op, stage |-> r.stage, email |-> r.email,
                                            user |-> r.user, item |-> r.item, read |-> r.read],
           stage \in UserStages => u \in Acc!UserIds,
           stage = "status" => op = "login",
           stage \notin {"code", "spend", "enable"},
           stage \in {"disable", "regenerate"} => op = stage,
           stage = "token" => /\ n \in Acc!TokenIds /\ op \in {"verify", "reset"}
                              /\ token[n].kind = op /\ token[n].user = u
    PROVE  AccountInv'
<1>1. r \in CallRows
  BY IdleHonest DEF CallRows
<1>2. Honest(r)
  <2>1. ~r.read.enabled
    BY DEF Acc!NoFactor
  <2> QED
    BY <2>1 DEF Honest, UserStages
<1>3. Remembered
  BY DEF Remembered
<1>4. Honest(r)'
  BY <1>2, <1>3, HonestStays
<1>5. session' \in [Acc!SessionIds -> Acc!SessionRows]
  BY DEF AccountInv, Acc!TypeOK
<1>6. proven \subseteq proven' /\ proven' \subseteq 1 .. MaxSecrets
  BY DEF AccountInv, Acc!TypeOK
<1>7. UNCHANGED <<user, token, factor>>
  OBVIOUS
<1> QED
  BY <1>1, <1>4, <1>5, <1>6, <1>7, OnlyCall

\* A request ends, or goes to a stage that needs no more than it knows.
LEMMA EndCall ==
    ASSUME AccountInv, UNCHANGED <<user, token, factor, proven>>, NEW c \in Calls,
           session' \in [Acc!SessionIds -> Acc!SessionRows], Acc!Done(c)
    PROVE  AccountInv'
<1>1. Remembered
  BY DEF Remembered
<1>2. Acc!Idle \in CallRows /\ Honest(Acc!Idle)'
  BY <1>1, IdleHonest, HonestStays
<1>3. proven \subseteq proven' /\ proven' \subseteq 1 .. MaxSecrets
  BY DEF AccountInv, Acc!TypeOK
<1>4. Acc!Become(c, Acc!Idle) /\ UNCHANGED <<user, token, factor>>
  BY DEF Acc!Done
<1> QED
  BY <1>2, <1>3, <1>4, OnlyCall

\* The same request at another stage.
LEMMA StageMoved ==
    ASSUME NEW r \in CallRows, NEW stage, NEW h, h = [r EXCEPT !.stage = stage],
           stage \in UserStages \cup {"idle", "create", "token", "verified", "password", "purge"}
    PROVE  /\ h \in CallRows /\ h.stage = stage /\ h.op = r.op /\ h.user = r.user
           /\ h.email = r.email /\ h.item = r.item /\ h.read = r.read
  BY DEF CallRows

\* A row of the sessions is inserted for a user, or some are deleted.
LEMMA SessionsKept ==
    ASSUME AccountInv,
           \/ \E u \in Acc!UserIds : Acc!InsertSession(u)
           \/ \E gone : Acc!DeleteSessions(gone)
           \/ UNCHANGED session
    PROVE  session' \in [Acc!SessionIds -> Acc!SessionRows]
<1>1. session \in [Acc!SessionIds -> Acc!UserIds \cup {None}]
  BY DEF AccountInv, Acc!TypeOK, Acc!SessionRows
<1>2. ASSUME NEW u \in Acc!UserIds, Acc!InsertSession(u)
      PROVE  session' \in [Acc!SessionIds -> Acc!SessionRows]
  <2>1. PICK s : session' = [session EXCEPT ![s] = u]
    BY <1>2 DEF Acc!InsertSession
  <2> QED
    BY <1>1, <2>1 DEF Acc!SessionRows
<1>3. ASSUME NEW gone, Acc!DeleteSessions(gone)
      PROVE  session' \in [Acc!SessionIds -> Acc!SessionRows]
  BY <1>1, <1>3 DEF Acc!DeleteSessions, Acc!SessionRows
<1> QED
  BY <1>1, <1>2, <1>3 DEF Acc!SessionRows

LEMMA ClockStep ==
    ASSUME AccountInv,
           \/ \E s \in Acc!SessionIds : Acc!ExpireSession(s)
           \/ \E t \in Acc!TokenIds : Acc!ExpireToken(t)
           \/ UNCHANGED Acc!vars
    PROVE  AccountInv'
<1>1. /\ UNCHANGED <<user, factor, call, proven>>
      /\ session' \in [Acc!SessionIds -> Acc!SessionRows]
  BY SessionsKept DEF Acc!ExpireSession, Acc!ExpireToken, Acc!vars
<1>2. Remembered /\ token' \in [Acc!TokenIds -> Acc!TokenRows]
  <2>1. token \in [Acc!TokenIds -> Acc!TokenRows]
    BY DEF AccountInv, Acc!TypeOK
  <2>2. CASE UNCHANGED token
    BY <1>1, <2>1, <2>2 DEF Remembered
  <2>3. CASE \E t \in Acc!TokenIds : Acc!ExpireToken(t)
    <3>1. PICK t \in Acc!TokenIds : Acc!ExpireToken(t)
      BY <2>3
    <3>2. PICK h : h = [token[t] EXCEPT !.state = "gone"]
      OBVIOUS
    <3>3. /\ h \in Acc!TokenRows /\ h.kind = token[t].kind /\ h.user = token[t].user
          /\ token' = [token EXCEPT ![t] = h] /\ token[t].state = "fresh"
      BY <2>1, <3>1, <3>2 DEF Acc!ExpireToken, Acc!TokenRows
    <3> QED
      BY <1>1, <2>1, <3>3 DEF Remembered
  <2> QED
    BY <2>2, <2>3 DEF Acc!ExpireSession, Acc!vars
<1>3. Acc!TypeOK' /\ call' \in [Calls -> CallRows]
  BY <1>1, <1>2 DEF AccountInv, Acc!TypeOK
<1>4. \A c \in Calls : Honest(call[c])'
  <2> TAKE c \in Calls
  <2>1. PICK r : r = call[c] /\ r = call'[c]
    BY <1>1
  <2>2. Honest(r)'
    BY <1>2, <2>1, HonestStays DEF AccountInv
  <2> QED
    BY <2>1, <2>2 DEF Honest, Spent
<1>5. FactorsProven' /\ UsersProven'
  BY <1>1, <1>2, HonestStays DEF AccountInv, FactorsProven, UsersProven
<1> QED
  BY <1>1, <1>3, <1>4, <1>5 DEF AccountInv

\* Requests that begin.
LEMMA BeginningSteps ==
    ASSUME AccountInv, NEW c \in Calls,
           \/ \E e \in Emails : Acc!Register(c, e) \/ Acc!RequestReset(c, e)
           \/ \E u \in Acc!UserIds : Acc!Login(c, u)
           \/ \E t \in Acc!TokenIds : Acc!PresentToken(c, t)
           \/ \E s \in Acc!SessionIds : \E op \in Acc!SessionOps : Acc!Authenticate(c, s, op)
    PROVE  AccountInv'
<1>1. ASSUME NEW e \in Emails, Acc!Register(c, e) PROVE AccountInv'
  <2>1. PICK r : r = [Acc!Idle EXCEPT !.op = "register", !.stage = "create", !.email = e]
    OBVIOUS
  <2>2. /\ r.op = "register" /\ r.stage = "create" /\ r.email = e /\ r.user = None
        /\ r.item = 0 /\ r.read = Acc!NoFactor
        /\ r = [op |-> r.op, stage |-> r.stage, email |-> r.email,
                user |-> r.user, item |-> r.item, read |-> r.read]
    BY <2>1 DEF Acc!Idle
  <2>3. Acc!Become(c, r) /\ UNCHANGED <<user, session, token, factor, proven>>
    BY <1>1, <2>1 DEF Acc!Register
  <2>4. "register" \in UserOps /\ "create" \notin UserStages
    BY DEF UserOps, UserStages
  <2> QED
    BY <2>2, <2>3, <2>4, BeginCall
<1>2. ASSUME NEW u \in Acc!UserIds, NEW op \in {"login", "forgotten"},
             NEW stage \in {"status", "resetMail"}, stage = "status" => op = "login",
             Acc!Become(c, [Acc!Idle EXCEPT !.op = op, !.stage = stage, !.user = u]),
             UNCHANGED <<user, session, token, factor, proven>>
      PROVE  AccountInv'
  <2>1. PICK r : r = [Acc!Idle EXCEPT !.op = op, !.stage = stage, !.user = u]
    OBVIOUS
  <2>2. /\ r.op = op /\ r.stage = stage /\ r.email = None /\ r.user = u
        /\ r.item = 0 /\ r.read = Acc!NoFactor
        /\ r = [op |-> r.op, stage |-> r.stage, email |-> r.email,
                user |-> r.user, item |-> r.item, read |-> r.read]
    BY <2>1 DEF Acc!Idle
  <2>3. Acc!Become(c, r)
    BY <1>2, <2>1
  <2>4. op \in UserOps /\ stage \in UserStages
    BY DEF UserOps, UserStages
  <2> QED
    BY <1>2, <2>2, <2>3, <2>4, BeginCall
<1>3. ASSUME NEW u \in Acc!UserIds, Acc!Login(c, u) PROVE AccountInv'
  BY <1>2, <1>3 DEF Acc!Login
<1>4. ASSUME NEW e \in Emails, Acc!RequestReset(c, e) PROVE AccountInv'
  BY <1>2, <1>4 DEF Acc!RequestReset, Acc!ByEmail
<1>5. ASSUME NEW t \in Acc!TokenIds, Acc!PresentToken(c, t) PROVE AccountInv'
  <2>1. PICK r : r = [Acc!Idle EXCEPT !.op = token[t].kind, !.stage = "token", !.item = t,
                          !.user = token[t].user]
    OBVIOUS
  <2>2. /\ token[t].kind \in {"verify", "reset"} /\ token[t].user \in Acc!UserIds \cup {None}
        /\ t \in Nat
    BY <1>5, IdsTyped DEF AccountInv, Acc!TypeOK, Acc!TokenRows, Acc!PresentToken, Acc!Usable
  <2>3. /\ r.op = token[t].kind /\ r.stage = "token" /\ r.email = None
        /\ r.user = token[t].user /\ r.item = t /\ r.read = Acc!NoFactor
        /\ r = [op |-> r.op, stage |-> r.stage, email |-> r.email,
                user |-> r.user, item |-> r.item, read |-> r.read]
    BY <2>1 DEF Acc!Idle
  <2>4. Acc!Become(c, r) /\ UNCHANGED <<user, session, token, factor, proven>>
    BY <1>5, <2>1 DEF Acc!PresentToken
  <2>5. token[t].kind \in UserOps /\ "token" \notin UserStages
    BY <2>2 DEF UserOps, UserStages
  <2> QED
    BY <2>2, <2>3, <2>4, <2>5, BeginCall
<1>6. ASSUME NEW s \in Acc!SessionIds, NEW op \in Acc!SessionOps, Acc!Authenticate(c, s, op)
      PROVE  AccountInv'
  <2>1. PICK stage : stage = Acc!StageOf(op)
    OBVIOUS
  <2>2. /\ op \in UserOps /\ stage \in UserStages
        /\ stage \notin {"status", "code", "spend", "enable", "token"}
        /\ stage \in {"disable", "regenerate"} => op = stage
    BY <2>1 DEF Acc!StageOf, Acc!SessionOps, UserOps, UserStages
  <2>3. session[s] \in Acc!UserIds /\ s \in Nat
    BY <1>6, IdsTyped DEF AccountInv, Acc!TypeOK, Acc!SessionRows, Acc!Authenticate
  <2>4. PICK n : n = IF op \in {"logout", "revoke_others"} THEN s ELSE 0
    OBVIOUS
  <2>5. PICK r : r = [Acc!Idle EXCEPT !.op = op, !.stage = stage, !.user = session[s], !.item = n]
    OBVIOUS
  <2>6. /\ r.op = op /\ r.stage = stage /\ r.email = None
        /\ r.user = session[s] /\ r.item = n /\ r.read = Acc!NoFactor /\ n \in Nat
        /\ r = [op |-> r.op, stage |-> r.stage, email |-> r.email,
                user |-> r.user, item |-> r.item, read |-> r.read]
    BY <2>3, <2>4, <2>5 DEF Acc!Idle
  <2>7. Acc!Become(c, r) /\ UNCHANGED <<user, session, token, factor, proven>>
    BY <1>6, <2>1, <2>4, <2>5 DEF Acc!Authenticate
  <2> QED
    BY <2>2, <2>3, <2>6, <2>7, BeginCall
<1> QED
  BY <1>1, <1>3, <1>4, <1>5, <1>6

\* What a request in progress is known to be.
LEMMA CallKnown ==
    ASSUME AccountInv, NEW c \in Calls
    PROVE  /\ call[c] \in CallRows /\ Honest(call[c])
           /\ call[c].stage \in UserStages =>
                 /\ call[c].user \in Acc!UserIds
                 /\ factor[call[c].user] \in Acc!FactorRows
                 /\ factor[call[c].user].enabled => factor[call[c].user].secret \in proven
  BY DEF AccountInv, Acc!TypeOK, Honest, FactorsProven

LEMMA CreateUserStep ==
    ASSUME AccountInv, NEW c \in Calls, Acc!CreateUser(c) PROVE AccountInv'
<1>1. UNCHANGED <<session, token, factor, proven>>
  BY DEF Acc!CreateUser
<1>2. session' \in [Acc!SessionIds -> Acc!SessionRows]
  BY <1>1, SessionsKept
<1>3. CASE UNCHANGED user /\ Acc!Done(c)
  BY <1>1, <1>2, <1>3, EndCall
<1>4. CASE /\ Acc!InsertUser(call[c].email)
           /\ Acc!Become(c, [Acc!Idle EXCEPT !.op = "register", !.stage = "session",
                                             !.user = Acc!First(Acc!ByEmail(None))])
  <2>1. PICK u : u = Acc!First(Acc!ByEmail(None))
    OBVIOUS
  <2>2. u \in Acc!UserIds
    <3>1. Acc!ByEmail(None) \in SUBSET Nat /\ Acc!ByEmail(None) # {}
          /\ Acc!ByEmail(None) \subseteq Acc!UserIds
      BY <1>4, IdsTyped DEF Acc!InsertUser, Acc!ByEmail
    <3> QED
      BY <2>1, <3>1, FirstIn
  <2>3. PICK r : r = [Acc!Idle EXCEPT !.op = "register", !.stage = "session", !.user = u]
    OBVIOUS
  <2>4. r \in CallRows /\ Honest(r)
    BY <2>2, <2>3, IdleHonest DEF Acc!Idle, Acc!NoFactor, CallRows, Honest, UserOps, UserStages
  <2>5. Remembered
    BY <1>1 DEF Remembered
  <2>6. Honest(r)'
    BY <2>4, <2>5, HonestStays
  <2>7. call[c].email \in Emails \cup {None} /\ user \in [Acc!UserIds -> Acc!UserRows]
    BY CallKnown DEF CallRows, AccountInv, Acc!TypeOK
  <2>8. PICK fresh : fresh = [user[u] EXCEPT !.email = call[c].email]
    OBVIOUS
  <2>9. /\ fresh \in Acc!UserRows /\ fresh.verified = user[u].verified /\ fresh.epoch = user[u].epoch
        /\ user' = [user EXCEPT ![u] = fresh]
    BY <1>4, <2>1, <2>2, <2>7, <2>8 DEF Acc!UserRows, Acc!InsertUser
  <2>10. /\ user' \in [Acc!UserIds -> Acc!UserRows]
         /\ \A v \in Acc!UserIds : user'[v].verified = user[v].verified
                                   /\ user'[v].epoch = user[v].epoch
    BY <2>7, <2>9
  <2>11. Acc!TypeOK' /\ FactorsProven'
    BY <1>1, <2>10 DEF AccountInv, Acc!TypeOK, FactorsProven
  <2>12. call' = [call EXCEPT ![c] = r]
    BY <1>4, <2>1, <2>3 DEF Acc!Become
  <2> QED
    BY <1>2, <2>4, <2>5, <2>6, <2>10, <2>11, <2>12, AccountStep
<1> QED
  BY <1>3, <1>4 DEF Acc!CreateUser

\* A request goes to another stage that asks for nothing new.
LEMMA Onward ==
    ASSUME AccountInv, UNCHANGED <<user, token, factor>>, proven \subseteq proven',
           proven' \subseteq 1 .. MaxSecrets,
           session' \in [Acc!SessionIds -> Acc!SessionRows],
           NEW c \in Calls, NEW stage \in UserStages, Acc!Goto(c, stage),
           call[c].stage \in UserStages,
           stage \notin {"status", "disable", "regenerate", "enable", "spend"},
           stage = "code" => call[c].op \in {"login", "disable", "regenerate"}
    PROVE  AccountInv'
<1>1. PICK r : r = [call[c] EXCEPT !.stage = stage]
  OBVIOUS
<1>2. /\ call[c] \in CallRows /\ Honest(call[c])
  BY CallKnown
<1>3. /\ r \in CallRows /\ r.stage = stage /\ r.op = call[c].op /\ r.user = call[c].user
      /\ r.email = call[c].email /\ r.item = call[c].item /\ r.read = call[c].read
  BY <1>1, <1>2, StageMoved
<1>4. Honest(r)
  BY <1>2, <1>3 DEF Honest, UserStages
<1>5. Remembered
  BY DEF Remembered
<1>6. Honest(r)' /\ Acc!Become(c, r)
  BY <1>1, <1>4, <1>5, HonestStays DEF Acc!Goto
<1> QED
  BY <1>3, <1>6, OnlyCall

\* A two-factor row is written while a request moves on.
LEMMA FactorWritten ==
    ASSUME AccountInv, UNCHANGED <<user, session, token, proven>>,
           NEW c \in Calls, NEW r \in CallRows, Acc!Become(c, r), Honest(r),
           NEW u \in Acc!UserIds, NEW f \in Acc!FactorRows, f.enabled => f.secret \in proven,
           factor' = [factor EXCEPT ![u] = f]
    PROVE  AccountInv'
<1>1. Remembered
  BY DEF Remembered
<1>2. \A v \in Acc!UserIds : factor'[v] = IF v = u THEN f ELSE factor[v]
  BY DEF AccountInv, Acc!TypeOK
<1>3. Acc!TypeOK' /\ FactorsProven'
  BY <1>2 DEF AccountInv, Acc!TypeOK, FactorsProven
<1>4. Honest(r)'
  BY <1>1, HonestStays
<1> QED
  BY <1>1, <1>3, <1>4, AccountStep DEF Acc!Become

LEMMA CheckSteps ==
    ASSUME AccountInv, NEW c \in Calls,
           Acc!CheckStatus(c) \/ Acc!CheckEnabled(c) \/ Acc!OpenSession(c)
    PROVE  AccountInv'
<1>1. call[c] \in CallRows /\ Honest(call[c])
  BY CallKnown
<1>2. proven' \subseteq 1 .. MaxSecrets /\ UNCHANGED <<user, token, factor, proven>>
  BY DEF AccountInv, Acc!TypeOK, Acc!CheckStatus, Acc!CheckEnabled, Acc!OpenSession
<1>3. CASE Acc!CheckStatus(c)
  <2>1. PICK stage : stage = IF factor[call[c].user].enabled THEN "code" ELSE "session"
    OBVIOUS
  <2>2. stage \in {"code", "session"} /\ stage \in UserStages
    BY <2>1 DEF UserStages
  <2>3. Acc!Goto(c, stage) /\ UNCHANGED session /\ call[c].stage = "status"
    BY <1>3, <2>1 DEF Acc!CheckStatus, Acc!At
  <2>4. call[c].op = "login" /\ call[c].stage \in UserStages
    BY <1>1, <2>3 DEF Honest, UserStages
  <2>5. session' \in [Acc!SessionIds -> Acc!SessionRows]
    BY <2>3, SessionsKept
  <2> QED
    BY <1>2, <2>2, <2>3, <2>4, <2>5, Onward
<1>4. CASE Acc!CheckEnabled(c)
  <2>1. Acc!Goto(c, "code") /\ UNCHANGED session /\ call[c].stage \in {"disable", "regenerate"}
    BY <1>4 DEF Acc!CheckEnabled, Acc!At
  <2>2. /\ call[c].op \in {"login", "disable", "regenerate"}
        /\ call[c].stage \in UserStages /\ "code" \in UserStages
    BY <1>1, <2>1 DEF Honest, UserStages
  <2>3. session' \in [Acc!SessionIds -> Acc!SessionRows]
    BY <2>1, SessionsKept
  <2> QED
    BY <1>2, <2>1, <2>2, <2>3, Onward
<1>5. CASE Acc!OpenSession(c)
  <2>1. call[c].stage = "session" /\ Acc!InsertSession(call[c].user)
        /\ (Acc!Goto(c, "mail") \/ Acc!Done(c))
    BY <1>5 DEF Acc!OpenSession, Acc!At
  <2>2. call[c].stage \in UserStages /\ "mail" \in UserStages /\ call[c].user \in Acc!UserIds
    BY <1>1, <2>1 DEF Honest, UserStages
  <2>3. session' \in [Acc!SessionIds -> Acc!SessionRows]
    BY <2>1, <2>2, SessionsKept
  <2>4. CASE Acc!Goto(c, "mail")
    BY <1>2, <2>2, <2>3, <2>4, Onward
  <2> QED
    BY <1>2, <2>1, <2>3, <2>4, EndCall
<1> QED
  BY <1>3, <1>4, <1>5

LEMMA SessionSteps ==
    ASSUME AccountInv, NEW c \in Calls,
           \/ Acc!PurgeSessions(c) \/ Acc!Revoke(c) \/ Acc!Fail(c)
           \/ \E s \in Acc!SessionIds : Acc!RevokeOne(c, s)
    PROVE  AccountInv'
<1>1. /\ UNCHANGED <<user, token, factor, proven>> /\ Acc!Done(c)
      /\ UNCHANGED session \/ \E gone : Acc!DeleteSessions(gone)
  BY DEF Acc!PurgeSessions, Acc!Revoke, Acc!Fail, Acc!RevokeOne
<1>2. session' \in [Acc!SessionIds -> Acc!SessionRows]
  BY <1>1, SessionsKept
<1> QED
  BY <1>1, <1>2, EndCall

\* A token is mailed: only a row that did not exist yet is written.
LEMMA SendTokenStep ==
    ASSUME AccountInv, NEW c \in Calls, Acc!SendToken(c) PROVE AccountInv'
<1>1. /\ UNCHANGED <<user, session, factor, proven>> /\ Acc!Done(c)
      /\ call[c].stage \in {"mail", "resetMail"}
  BY DEF Acc!SendToken, Acc!At
<1>2. call[c].user \in Acc!UserIds
  BY <1>1, CallKnown DEF UserStages
<1>3. PICK kind \in {"verify", "reset"} : Acc!InsertToken(call[c].user, kind)
  BY DEF Acc!SendToken
<1>4. PICK t : t = Acc!First({i \in Acc!TokenIds : token[i].kind = "new"})
  OBVIOUS
<1>5. t \in Acc!TokenIds /\ token[t].kind = "new"
  <2>1. {i \in Acc!TokenIds : token[i].kind = "new"} \in SUBSET Nat
        /\ {i \in Acc!TokenIds : token[i].kind = "new"} # {}
    BY <1>3, IdsTyped DEF Acc!InsertToken
  <2>2. t \in {i \in Acc!TokenIds : token[i].kind = "new"}
    BY <1>4, <2>1, FirstIn
  <2> QED
    BY <2>2
<1>6. PICK h : h = [kind |-> kind, user |-> call[c].user, state |-> "fresh"]
  OBVIOUS
<1>7. h \in Acc!TokenRows /\ token' = [token EXCEPT ![t] = h]
  BY <1>2, <1>3, <1>4, <1>6 DEF Acc!TokenRows, Acc!InsertToken
<1>8. Remembered
  BY <1>1, <1>5, <1>7 DEF Remembered, AccountInv, Acc!TypeOK
<1>9. Acc!TypeOK' /\ FactorsProven'
  BY <1>1, <1>7 DEF AccountInv, Acc!TypeOK, FactorsProven
<1>10. Acc!Idle \in CallRows /\ Honest(Acc!Idle)'
  BY <1>8, IdleHonest, HonestStays
<1>11. call' = [call EXCEPT ![c] = Acc!Idle]
  BY <1>1 DEF Acc!Done, Acc!Become
<1> QED
  BY <1>1, <1>8, <1>9, <1>10, <1>11, AccountStep

LEMMA MarkUsedStep ==
    ASSUME AccountInv, NEW c \in Calls, Acc!MarkUsed(c) PROVE AccountInv'
<1>1. call[c] \in CallRows /\ Honest(call[c]) /\ call[c].stage = "token"
  BY CallKnown DEF Acc!MarkUsed, Acc!At
<1>2. PICK t : t = call[c].item
  OBVIOUS
<1>3. /\ t \in Acc!TokenIds /\ call[c].op \in {"verify", "reset"}
      /\ token[t].kind = call[c].op /\ token[t].user = call[c].user
  BY <1>1, <1>2 DEF Honest
<1>4. UNCHANGED <<user, session, factor, proven>>
  BY DEF Acc!MarkUsed
<1>5. token \in [Acc!TokenIds -> Acc!TokenRows]
  BY DEF AccountInv, Acc!TypeOK
<1>6. PICK h : h = Acc!Used(token[t])
  OBVIOUS
<1>7. /\ h \in Acc!TokenRows /\ h.kind = token[t].kind /\ h.user = token[t].user
      /\ h.state = "used"
  BY <1>3, <1>5, <1>6 DEF Acc!Used, Acc!TokenRows
<1>8. token' = [token EXCEPT ![t] = h]
  BY <1>2, <1>6 DEF Acc!MarkUsed
<1>9. \A i \in Acc!TokenIds : token'[i] = IF i = t THEN h ELSE token[i]
  BY <1>5, <1>8
<1>10. Remembered
  BY <1>4, <1>7, <1>9 DEF Remembered
<1>11. PICK u : u = call[c].user
  OBVIOUS
<1>12. PICK kind : kind = call[c].op
  OBVIOUS
<1>13. Spent(u, kind)'
  BY <1>3, <1>7, <1>9, <1>11, <1>12 DEF Spent
<1>14. PICK stage : stage = IF call[c].op = "verify" THEN "verified" ELSE "password"
  OBVIOUS
<1>15. PICK r : r = [call[c] EXCEPT !.stage = stage]
  OBVIOUS
<1>16. /\ r \in CallRows /\ r.stage = stage /\ r.op = kind /\ r.user = u
       /\ r.email = call[c].email /\ r.item = call[c].item /\ r.read = call[c].read
  BY <1>1, <1>11, <1>12, <1>14, <1>15, StageMoved
<1>17. call' = [call EXCEPT ![c] = r]
  BY <1>14, <1>15 DEF Acc!MarkUsed, Acc!Goto, Acc!Become
<1>18. PICK q : q = call[c]
  OBVIOUS
<1>19. Honest(q)'
  BY <1>1, <1>10, <1>18, HonestStays
<1>20. Honest(r)'
  <2>1. /\ r.read = q.read /\ stage \in {"verified", "password"}
        /\ stage = "verified" => kind = "verify"
        /\ stage = "password" => kind = "reset"
    BY <1>3, <1>12, <1>14, <1>16, <1>18
  <2> QED
    BY <1>13, <1>16, <1>19, <2>1 DEF Honest, UserStages
<1>21. Acc!TypeOK' /\ FactorsProven'
  BY <1>4, <1>5, <1>7, <1>8 DEF AccountInv, Acc!TypeOK, FactorsProven
<1> QED
  BY <1>4, <1>10, <1>16, <1>17, <1>20, <1>21, AccountStep

\* A user's row is written by a request whose token was used.
LEMMA UserWritten ==
    ASSUME AccountInv, UNCHANGED <<session, token, factor, proven>>,
           NEW c \in Calls, NEW r \in CallRows, Acc!Become(c, r), Honest(r),
           NEW u \in Acc!UserIds, NEW h \in Acc!UserRows, user' = [user EXCEPT ![u] = h],
           h.verified => user[u].verified \/ Spent(u, "verify"),
           h.epoch > 0 => user[u].epoch > 0 \/ Spent(u, "reset")
    PROVE  AccountInv'
<1>1. Remembered
  BY DEF Remembered
<1>2. Acc!TypeOK' /\ FactorsProven'
  BY DEF AccountInv, Acc!TypeOK, FactorsProven
<1>3. Honest(r)'
  BY <1>1, HonestStays
<1>4. \A v, kind : Spent(v, kind) => Spent(v, kind)'
  BY DEF Spent
<1>5. \A v \in Acc!UserIds :
         /\ user'[v].verified => user[v].verified \/ Spent(v, "verify")'
         /\ user'[v].epoch > 0 => user[v].epoch > 0 \/ Spent(v, "reset")'
  <2> TAKE v \in Acc!UserIds
  <2>1. user'[v] = IF v = u THEN h ELSE user[v]
    BY DEF AccountInv, Acc!TypeOK
  <2> QED
    BY <1>4, <2>1
<1> QED
  BY <1>1, <1>2, <1>3, <1>5, AccountStep DEF Acc!Become

LEMMA MarkVerifiedStep ==
    ASSUME AccountInv, NEW c \in Calls, Acc!MarkVerified(c) PROVE AccountInv'
<1>1. Honest(call[c]) /\ call[c].stage = "verified"
  BY CallKnown DEF Acc!MarkVerified, Acc!At
<1>2. PICK u : u = call[c].user
  OBVIOUS
<1>3. Spent(u, "verify") /\ UNCHANGED <<session, token, factor, proven>> /\ Acc!Done(c)
  BY <1>1, <1>2 DEF Honest, Acc!MarkVerified
<1>4. user \in [Acc!UserIds -> Acc!UserRows]
  BY DEF AccountInv, Acc!TypeOK
<1>5. PICK h : h = [user[u] EXCEPT !.verified = TRUE]
  OBVIOUS
<1>6. user' = [user EXCEPT ![u] = h]
  BY <1>2, <1>5 DEF Acc!MarkVerified
<1>7. CASE u \in Acc!UserIds
  <2>1. h \in Acc!UserRows /\ h.epoch = user[u].epoch
    BY <1>4, <1>5, <1>7 DEF Acc!UserRows
  <2>2. Acc!Idle \in CallRows /\ Honest(Acc!Idle) /\ Acc!Become(c, Acc!Idle)
    BY <1>3, IdleHonest DEF Acc!Done
  <2> QED
    BY <1>3, <1>6, <1>7, <2>1, <2>2, UserWritten
<1>8. CASE u \notin Acc!UserIds
  <2>1. UNCHANGED user
    BY <1>4, <1>6, <1>8
  <2>2. session' \in [Acc!SessionIds -> Acc!SessionRows]
    BY <1>3, SessionsKept
  <2> QED
    BY <1>3, <2>1, <2>2, EndCall
<1> QED
  BY <1>7, <1>8

LEMMA UpdatePasswordStep ==
    ASSUME AccountInv, NEW c \in Calls, Acc!UpdatePassword(c) PROVE AccountInv'
<1>1. call[c] \in CallRows /\ Honest(call[c]) /\ call[c].stage = "password"
  BY CallKnown DEF Acc!UpdatePassword, Acc!At
<1>2. PICK u : u = call[c].user
  OBVIOUS
<1>3. /\ Spent(u, "reset") /\ UNCHANGED <<session, token, factor, proven>>
      /\ Acc!Goto(c, "purge") /\ user[u].epoch < MaxEpoch
  BY <1>1, <1>2 DEF Honest, Acc!UpdatePassword
<1>4. user \in [Acc!UserIds -> Acc!UserRows]
  BY DEF AccountInv, Acc!TypeOK
<1>5. PICK h : h = [user[u] EXCEPT !.epoch = @ + 1]
  OBVIOUS
<1>6. user' = [user EXCEPT ![u] = h]
  BY <1>2, <1>5 DEF Acc!UpdatePassword
<1>7. PICK r : r = [call[c] EXCEPT !.stage = "purge"]
  OBVIOUS
<1>8. /\ r \in CallRows /\ r.stage = "purge" /\ r.op = call[c].op /\ r.user = u
      /\ r.email = call[c].email /\ r.item = call[c].item /\ r.read = call[c].read
  BY <1>1, <1>2, <1>7, StageMoved
<1>9. Honest(r) /\ Acc!Become(c, r)
  BY <1>1, <1>3, <1>7, <1>8 DEF Honest, UserStages, Acc!Goto
<1>10. CASE u \in Acc!UserIds
  <2>1. h \in Acc!UserRows /\ h.verified = user[u].verified
    BY <1>3, <1>4, <1>5, <1>10, IdsTyped DEF Acc!UserRows
  <2> QED
    BY <1>3, <1>6, <1>8, <1>9, <1>10, <2>1, UserWritten
<1>11. CASE u \notin Acc!UserIds
  <2>1. UNCHANGED user
    BY <1>4, <1>6, <1>11
  <2>2. session' \in [Acc!SessionIds -> Acc!SessionRows]
    BY <1>3, SessionsKept
  <2>3. Remembered /\ proven \subseteq proven' /\ proven' \subseteq 1 .. MaxSecrets
    BY <1>3, <2>1 DEF Remembered, AccountInv, Acc!TypeOK
  <2>4. Honest(r)'
    BY <1>9, <2>3, HonestStays
  <2> QED
    BY <1>3, <1>8, <1>9, <2>1, <2>2, <2>3, <2>4, OnlyCall
<1> QED
  BY <1>10, <1>11

\* A new secret, not yet switched on.
LEMMA StartSetupStep ==
    ASSUME AccountInv, NEW c \in Calls, Acc!StartSetup(c) PROVE AccountInv'
<1>1. PICK free : free = (1 .. MaxSecrets)
           \ ({factor[v].secret : v \in Acc!UserIds} \cup {call[d].read.secret : d \in Calls}
                  \cup proven)
  OBVIOUS
<1>2. PICK u : u = call[c].user
  OBVIOUS
<1>3. PICK f : f = [secret |-> Acc!First(free), codes |-> BackupCodes, enabled |-> FALSE]
  OBVIOUS
<1>4. /\ call[c].stage = "setup" /\ free # {} /\ Acc!Done(c)
      /\ UNCHANGED <<user, session, token, proven>>
      /\ factor' = [factor EXCEPT ![u] = f]
  BY <1>1, <1>2, <1>3 DEF Acc!StartSetup, Acc!At, Acc!UpsertFactor
<1>5. u \in Acc!UserIds
  BY <1>2, <1>4, CallKnown DEF UserStages
<1>6. f \in Acc!FactorRows /\ ~f.enabled
  <2>1. free \in SUBSET Nat
    BY <1>1
  <2>2. Acc!First(free) \in free
    BY <1>4, <2>1, FirstIn
  <2>3. Acc!First(free) \in 0 .. MaxSecrets /\ BackupCodes \in 0 .. BackupCodes
    BY <1>1, <2>2, IdsTyped
  <2> QED
    BY <1>3, <2>3 DEF Acc!FactorRows
<1>7. Acc!Idle \in CallRows /\ Honest(Acc!Idle) /\ Acc!Become(c, Acc!Idle)
  BY <1>4, IdleHonest DEF Acc!Done
<1> QED
  BY <1>4, <1>5, <1>6, <1>7, FactorWritten

LEMMA AfterCodeStage ==
    ASSUME NEW c PROVE Acc!AfterCode(c) \in {"session", "switchOff", "latest"}
  BY DEF Acc!AfterCode

\* Requests that read a two-factor row, and compare a code with its secret.
LEMMA CodeSteps ==
    ASSUME AccountInv, NEW c \in Calls,
           Acc!ConfirmCode(c) \/ Acc!VerifyCode(c) \/ Acc!ReadLatest(c)
    PROVE  AccountInv'
<1>1. call[c] \in CallRows /\ Honest(call[c])
  BY CallKnown
<1>2. /\ UNCHANGED <<user, session, token, factor>>
      /\ call[c].stage \in {"confirm", "code", "latest"} /\ call[c].stage \in UserStages
  BY DEF Acc!ConfirmCode, Acc!VerifyCode, Acc!ReadLatest, Acc!At, UserStages
<1>3. session' \in [Acc!SessionIds -> Acc!SessionRows]
  BY <1>2, SessionsKept
<1>4. PICK f : f = factor[call[c].user]
  OBVIOUS
<1>5. f \in Acc!FactorRows /\ (f.enabled => f.secret \in proven)
  BY <1>2, <1>4, CallKnown
<1>6. f.secret # 0 => f.secret \in 1 .. MaxSecrets
  BY <1>5, IdsTyped DEF Acc!FactorRows
<1>7. proven \subseteq 1 .. MaxSecrets
  BY DEF AccountInv, Acc!TypeOK
<1>8. ASSUME NEW stage \in {"enable", "spend", "newCodes"},
             proven \subseteq proven', proven' \subseteq 1 .. MaxSecrets,
             stage = "enable" => f.secret \in proven',
             stage = "spend" => f.codes # 0 /\ call[c].stage = "code",
             Acc!Become(c, [call[c] EXCEPT !.stage = stage, !.read = f])
      PROVE  AccountInv'
  <2>1. PICK r : r = [call[c] EXCEPT !.stage = stage, !.read = f]
    OBVIOUS
  <2>2. /\ r \in CallRows /\ r.stage = stage /\ r.op = call[c].op /\ r.user = call[c].user
        /\ r.item = call[c].item /\ r.read = f
    BY <1>1, <1>5, <2>1 DEF CallRows, UserStages
  <2>3. PICK q : q = call[c]
    OBVIOUS
  <2>4. Remembered
    BY <1>2, <1>8 DEF Remembered
  <2>5. Honest(q)'
    BY <1>1, <2>3, <2>4, HonestStays
  <2>6. /\ r.user \in Acc!UserIds
        /\ f.enabled => f.secret \in proven'
        /\ stage = "spend" => r.op \in {"login", "disable", "regenerate"}
    BY <1>1, <1>2, <1>5, <1>8, <2>2 DEF Honest
  <2>7. Honest(r)'
    BY <1>8, <2>2, <2>6 DEF Honest
  <2>8. Acc!Become(c, r) /\ UNCHANGED <<user, token, factor>>
    BY <1>2, <1>8, <2>1
  <2> QED
    BY <1>3, <1>8, <2>2, <2>7, <2>8, OnlyCall
<1>9. ASSUME proven \subseteq proven', proven' \subseteq 1 .. MaxSecrets,
             Acc!Goto(c, Acc!AfterCode(c))
      PROVE  AccountInv'
  <2>1. PICK stage : stage = Acc!AfterCode(c)
    OBVIOUS
  <2>2. stage \in {"session", "switchOff", "latest"} /\ stage \in UserStages
    BY <2>1, AfterCodeStage DEF UserStages
  <2>3. Acc!Goto(c, stage) /\ UNCHANGED <<user, token, factor>>
    BY <1>2, <1>9, <2>1
  <2> QED
    BY <1>2, <1>3, <1>9, <2>2, <2>3, Onward
<1>10. CASE Acc!ConfirmCode(c)
  <2>1. /\ f.secret # 0 /\ proven' = proven \cup {f.secret}
        /\ Acc!Become(c, [call[c] EXCEPT !.stage = "enable", !.read = f])
    BY <1>4, <1>10 DEF Acc!ConfirmCode
  <2> QED
    BY <1>6, <1>7, <1>8, <2>1
<1>11. CASE Acc!ReadLatest(c)
  <2>1. /\ proven' = proven
        /\ Acc!Become(c, [call[c] EXCEPT !.stage = "newCodes", !.read = f])
    BY <1>4, <1>11 DEF Acc!ReadLatest
  <2> QED
    BY <1>7, <1>8, <2>1
<1>12. CASE Acc!VerifyCode(c)
  <2>1. call[c].stage = "code"
    BY <1>12 DEF Acc!VerifyCode, Acc!At
  <2>2. CASE Acc!Goto(c, Acc!AfterCode(c))
              /\ (proven' = proven \/ (f.enabled /\ proven' = proven \cup {f.secret}))
    <3>1. proven \subseteq proven' /\ proven' \subseteq 1 .. MaxSecrets
      BY <1>5, <1>7, <2>2
    <3> QED
      BY <1>9, <2>2, <3>1
  <2>3. CASE /\ f.codes > 0 /\ proven' = proven
             /\ Acc!Become(c, [call[c] EXCEPT !.stage = "spend", !.read = f])
    <3>1. f.codes # 0
      BY <1>5, <2>3, IdsTyped DEF Acc!FactorRows
    <3> QED
      BY <1>7, <1>8, <2>1, <2>3, <3>1
  <2> QED
    BY <1>4, <1>12, <2>2, <2>3 DEF Acc!VerifyCode
<1> QED
  BY <1>10, <1>11, <1>12

\* Requests that write a two-factor row, from what they read of it before.
LEMMA FactorSteps ==
    ASSUME AccountInv, NEW c \in Calls,
           \/ Acc!Enable(c) \/ Acc!SpendCode(c) \/ Acc!SwitchOff(c) \/ Acc!RegenerateCodes(c)
    PROVE  AccountInv'
<1>1. call[c] \in CallRows /\ Honest(call[c])
  BY CallKnown
<1>2. PICK u : u = call[c].user
  OBVIOUS
<1>3. PICK f : f = call[c].read
  OBVIOUS
<1>4. /\ UNCHANGED <<user, session, token, proven>>
      /\ call[c].stage \in {"enable", "spend", "switchOff", "newCodes"}
  BY DEF Acc!Enable, Acc!SpendCode, Acc!SwitchOff, Acc!RegenerateCodes, Acc!At
<1>5. /\ u \in Acc!UserIds /\ factor[u] \in Acc!FactorRows
      /\ factor[u].enabled => factor[u].secret \in proven
  BY <1>2, <1>4, CallKnown DEF UserStages
<1>6. f \in Acc!FactorRows /\ (f.enabled => f.secret \in proven)
  BY <1>1, <1>3 DEF CallRows, Honest
<1>7. ASSUME NEW g \in Acc!FactorRows, g.enabled => g.secret \in proven,
             factor' = [factor EXCEPT ![u] = g], Acc!Done(c)
      PROVE  AccountInv'
  <2>1. Acc!Idle \in CallRows /\ Honest(Acc!Idle) /\ Acc!Become(c, Acc!Idle)
    BY <1>7, IdleHonest DEF Acc!Done
  <2> QED
    BY <1>4, <1>5, <1>7, <2>1, FactorWritten
<1>8. CASE Acc!Enable(c)
  <2>1. PICK g : g = [f EXCEPT !.enabled = TRUE]
    OBVIOUS
  <2>2. f.secret \in proven
    BY <1>1, <1>3, <1>8 DEF Honest, Acc!Enable, Acc!At
  <2>3. g \in Acc!FactorRows /\ g.secret = f.secret
    BY <1>6, <2>1 DEF Acc!FactorRows
  <2>4. factor' = [factor EXCEPT ![u] = g] /\ Acc!Done(c)
    BY <1>2, <1>3, <1>8, <2>1 DEF Acc!Enable, Acc!UpsertFactor
  <2> QED
    BY <1>7, <2>2, <2>3, <2>4
<1>9. CASE Acc!RegenerateCodes(c)
  <2>1. PICK g : g = [f EXCEPT !.codes = BackupCodes]
    OBVIOUS
  <2>2. g \in Acc!FactorRows /\ g.secret = f.secret /\ g.enabled = f.enabled
    BY <1>6, <2>1, IdsTyped DEF Acc!FactorRows
  <2>3. factor' = [factor EXCEPT ![u] = g] /\ Acc!Done(c)
    BY <1>2, <1>3, <1>9, <2>1 DEF Acc!RegenerateCodes, Acc!UpsertFactor
  <2> QED
    BY <1>6, <1>7, <2>2, <2>3
<1>10. CASE Acc!SwitchOff(c)
  <2>1. PICK g : g = [factor[u] EXCEPT !.enabled = FALSE]
    OBVIOUS
  <2>2. g \in Acc!FactorRows /\ ~g.enabled
    BY <1>5, <2>1 DEF Acc!FactorRows
  <2>3. factor' = [factor EXCEPT ![u] = g] /\ Acc!Done(c)
    BY <1>2, <1>10, <2>1 DEF Acc!SwitchOff
  <2> QED
    BY <1>7, <2>2, <2>3
<1>11. CASE Acc!SpendCode(c)
  <2>1. call[c].stage = "spend" /\ f.codes # 0
    BY <1>1, <1>3, <1>11 DEF Honest, Acc!SpendCode, Acc!At
  <2>2. PICK g : g = [f EXCEPT !.codes = @ - 1]
    OBVIOUS
  <2>3. g \in Acc!FactorRows /\ g.secret = f.secret /\ g.enabled = f.enabled
    BY <1>6, <2>1, <2>2, IdsTyped DEF Acc!FactorRows
  <2>4. PICK stage : stage = Acc!AfterCode(c)
    OBVIOUS
  <2>5. stage \in {"session", "switchOff", "latest"}
    BY <2>4, AfterCodeStage
  <2>6. PICK r : r = [call[c] EXCEPT !.stage = stage, !.read = Acc!NoFactor]
    OBVIOUS
  <2>7. /\ r \in CallRows /\ r.stage = stage /\ r.op = call[c].op /\ r.user = u
        /\ r.item = call[c].item /\ ~r.read.enabled
    BY <1>1, <1>2, <2>5, <2>6, IdleHonest DEF CallRows, UserStages, Acc!NoFactor
  <2>8. Honest(r)
    BY <1>5, <2>5, <2>7 DEF Honest
  <2>9. factor' = [factor EXCEPT ![u] = g] /\ Acc!Become(c, r)
    BY <1>2, <1>3, <1>11, <2>2, <2>4, <2>6 DEF Acc!SpendCode, Acc!UpsertFactor
  <2>10. g.enabled => g.secret \in proven
    BY <1>6, <2>3
  <2> QED
    BY <1>4, <1>5, <2>3, <2>7, <2>8, <2>9, <2>10, FactorWritten
<1> QED
  BY <1>8, <1>9, <1>10, <1>11

LEMMA AccountNext ==
    ASSUME AccountInv, [Acc!Next]_(Acc!vars) PROVE AccountInv'
<1>1. CASE \E c \in Calls :
              \/ \E e \in Emails : Acc!Register(c, e) \/ Acc!RequestReset(c, e)
              \/ \E u \in Acc!UserIds : Acc!Login(c, u)
              \/ \E t \in Acc!TokenIds : Acc!PresentToken(c, t)
              \/ \E s \in Acc!SessionIds : \E op \in Acc!SessionOps : Acc!Authenticate(c, s, op)
  BY <1>1, BeginningSteps
<1>2. CASE \E c \in Calls :
              \/ Acc!CreateUser(c) \/ Acc!CheckStatus(c) \/ Acc!CheckEnabled(c)
              \/ Acc!OpenSession(c) \/ Acc!SendToken(c) \/ Acc!MarkUsed(c)
              \/ Acc!MarkVerified(c) \/ Acc!UpdatePassword(c)
  BY <1>2, CreateUserStep, CheckSteps, SendTokenStep, MarkUsedStep, MarkVerifiedStep,
     UpdatePasswordStep
<1>3. CASE \E c \in Calls :
              \/ Acc!PurgeSessions(c) \/ Acc!Revoke(c) \/ Acc!Fail(c)
              \/ \E s \in Acc!SessionIds : Acc!RevokeOne(c, s)
  BY <1>3, SessionSteps
<1>4. CASE \E c \in Calls :
              \/ Acc!StartSetup(c) \/ Acc!ConfirmCode(c) \/ Acc!VerifyCode(c)
              \/ Acc!ReadLatest(c) \/ Acc!Enable(c) \/ Acc!SpendCode(c)
              \/ Acc!SwitchOff(c) \/ Acc!RegenerateCodes(c)
  BY <1>4, StartSetupStep, CodeSteps, FactorSteps
<1>5. CASE \/ \E s \in Acc!SessionIds : Acc!ExpireSession(s)
           \/ \E t \in Acc!TokenIds : Acc!ExpireToken(t)
           \/ UNCHANGED Acc!vars
  BY <1>5, ClockStep
<1> QED
  BY <1>1, <1>2, <1>3, <1>4, <1>5, Zenon DEF Acc!Next

\* However many requests of an account overlap, overwrite each other's rows and die
\* half-way: two-factor authentication is only ever on with a secret whose owner has
\* shown a code for it, and an address is verified, and a password replaced, only
\* after a token mailed for that to that user was used.
THEOREM CredentialsAlwaysProven == Spec => []CredentialsProven
<1>1. Acc!Init => AccountInv
  <2> SUFFICES ASSUME Acc!Init PROVE AccountInv
    OBVIOUS
  <2>1. Acc!Idle \in CallRows /\ Honest(Acc!Idle)
    BY IdleHonest
  <2>2. Acc!TypeOK
    <3>1. /\ [email |-> None, verified |-> FALSE, epoch |-> 0] \in Acc!UserRows
          /\ None \in Acc!SessionRows /\ Acc!NoToken \in Acc!TokenRows
          /\ Acc!NoFactor \in Acc!FactorRows
      BY IdsTyped DEF Acc!UserRows, Acc!SessionRows, Acc!NoToken, Acc!TokenRows,
                      Acc!NoFactor, Acc!FactorRows
    <3> QED
      BY <3>1 DEF Acc!Init, Acc!TypeOK
  <2>3. call \in [Calls -> CallRows] /\ \A c \in Calls : Honest(call[c])
    BY <2>1 DEF Acc!Init
  <2>4. FactorsProven /\ UsersProven
    BY DEF Acc!Init, FactorsProven, UsersProven, Acc!NoFactor
  <2> QED
    BY <2>2, <2>3, <2>4 DEF AccountInv
<1>2. AccountInv /\ [Acc!Next]_(Acc!vars) => AccountInv'
  BY AccountNext
<1>3. AccountInv => CredentialsProven
  BY DEF AccountInv, FactorsProven, UsersProven, Spent, CredentialsProven, Acc!CredentialsProven
<1> QED
  BY <1>1, <1>2, <1>3, EveryComponentRuns, PTL DEF Acc!Spec
-----------------------------------------------------------------------------
(* The wallet before Coins.  A webhook call works on a row it read earlier: *)
(* the row has moved on since, but never back to where it was detected or   *)
(* rejected once it was confirmed, and never to another transfer.           *)

DeliveryRows ==
    [step : {"idle", "record", "conflict", "confirm", "credit", "mark"},
     payload : Payloads \cup {None}, conf : 0 .. MaxConfirmations,
     existing : Wal!EventRows \cup {None}, event : Wal!EventRows \cup {None}]

\* The transfer may be credited: its wallet and asset are known.
Supported(payload) == payload \in Valid /\ wallet

Confirmed(er) == er.status = "confirmed" => Supported(er.payload) /\ er.conf >= DepositMinConfirmations

\* A row some call holds is the event's row, of now or of earlier.
WasEvent(er) ==
    /\ er \in Wal!EventRows /\ event \in Wal!EventRows /\ er.payload = event.payload
    /\ Confirmed(er)
    /\ er.status = "confirmed" => event.status \notin {"detected", "rejected"}

\* What a webhook call knows at the step it is at.
Informed(w) ==
    /\ w.step = "record" => w.payload \in Payloads
    /\ w.existing # None => WasEvent(w.existing)
    /\ w.step \notin {"idle", "record"} => WasEvent(w.event)
    /\ w.step = "confirm" => Supported(w.event.payload) /\ w.conf >= DepositMinConfirmations
    /\ w.step \in {"credit", "mark"} => w.event.status = "confirmed"
    /\ w.step = "mark" => entry # None

EventKept ==
    /\ wallet \in BOOLEAN /\ event \in Wal!EventRows \cup {None}
    /\ entry \in Wal!Entries \cup {None}
    /\ event # None => /\ WasEvent(event)
                       /\ event.status = "credited" \/ event.credited => entry # None
    /\ entry # None =>
         /\ event # None /\ Supported(event.payload)
         /\ entry.amount = Transferred[event.payload] /\ entry.conf >= DepositMinConfirmations
         /\ event.status \notin {"detected", "rejected"}

WebhookInv ==
    /\ EventKept
    /\ delivery \in [Deliveries -> DeliveryRows]
    /\ \A d \in Deliveries : Informed(delivery[d])

\* What calls know stays true: wallets and entries stay, and the event's row keeps its
\* payload and does not become detected or rejected again.
EventGoesOn ==
    /\ wallet => wallet'
    /\ entry # None => entry' # None
    /\ event # None =>
         /\ event' \in Wal!EventRows /\ event'.payload = event.payload
         /\ event.status \notin {"detected", "rejected"}
              => event'.status \notin {"detected", "rejected"}

LEMMA WalletTyped ==
    /\ None \notin Wal!EventRows /\ None \notin Wal!Entries /\ None \notin Payloads
    /\ DepositMinConfirmations \in Nat /\ MaxConfirmations \in Nat
    /\ Transferred \in [Payloads -> Nat \ {0}] /\ Valid \subseteq Payloads
  BY DEF Wal!LegacyWalletAssumption

LEMMA InformedStays ==
    ASSUME EventGoesOn
    PROVE  /\ \A er : WasEvent(er) => WasEvent(er)'
           /\ \A w : Informed(w) => Informed(w)'
<1>1. ASSUME NEW er, WasEvent(er) PROVE WasEvent(er)'
  <2>1. event # None
    BY <1>1, WalletTyped DEF WasEvent
  <2> QED
    BY <1>1, <2>1 DEF WasEvent, EventGoesOn, Confirmed, Supported
<1>2. ASSUME NEW w, Informed(w) PROVE Informed(w)'
  <2>1. Supported(w.event.payload) => Supported(w.event.payload)'
    BY DEF EventGoesOn, Supported
  <2>2. /\ WasEvent(w.existing) => WasEvent(w.existing)'
        /\ WasEvent(w.event) => WasEvent(w.event)'
    BY <1>1
  <2> QED
    BY <1>2, <2>1, <2>2 DEF Informed, EventGoesOn
<1> QED
  BY <1>1, <1>2

LEMMA WebhookStep ==
    ASSUME WebhookInv, EventGoesOn, EventKept', NEW d \in Deliveries, NEW w \in DeliveryRows,
           delivery' = [delivery EXCEPT ![d] = w], Informed(w)'
    PROVE  WebhookInv'
<1>1. \A i \in Deliveries : delivery'[i] = IF i = d THEN w ELSE delivery[i]
  BY DEF WebhookInv
<1>2. delivery' \in [Deliveries -> DeliveryRows]
  BY DEF WebhookInv
<1>3. \A i \in Deliveries : Informed(delivery[i])'
  <2> TAKE i \in Deliveries
  <2>1. PICK q : q = delivery'[i]
    OBVIOUS
  <2>2. Informed(q)'
    BY <1>1, <2>1, InformedStays DEF WebhookInv
  <2> QED
    BY <2>1, <2>2 DEF Informed, WasEvent, Confirmed, Supported
<1> QED
  BY <1>2, <1>3 DEF WebhookInv

LEMMA IdleInformed == Wal!Idle \in DeliveryRows /\ Informed(Wal!Idle)
  BY WalletTyped DEF Wal!Idle, DeliveryRows, Informed

\* A call goes on with a row it holds.
LEMMA CallGoesOn ==
    ASSUME WebhookInv, EventGoesOn, EventKept', NEW d \in Deliveries,
           NEW er, WasEvent(er)', NEW step \in {"conflict", "confirm", "credit", "mark"},
           Wal!GoTo(d, step, er),
           step = "confirm" =>
               Supported(er.payload)' /\ delivery[d].conf >= DepositMinConfirmations,
           step \in {"credit", "mark"} => er.status = "confirmed",
           step = "mark" => entry' # None
    PROVE  WebhookInv'
<1>1. PICK n : n = IF step \in {"conflict", "confirm"} THEN delivery[d].conf ELSE 0
  OBVIOUS
<1>2. n \in 0 .. MaxConfirmations
  BY <1>1, WalletTyped DEF WebhookInv, DeliveryRows
<1>3. PICK h : h = [Wal!Idle EXCEPT !.step = step, !.event = er, !.conf = n]
  OBVIOUS
<1>4. /\ h \in DeliveryRows /\ h.step = step /\ h.existing = None /\ h.event = er
      /\ h.conf = n
  BY <1>2, <1>3 DEF Wal!Idle, DeliveryRows, WasEvent
<1>5. delivery' = [delivery EXCEPT ![d] = h]
  BY <1>1, <1>3 DEF Wal!GoTo
<1>6. Informed(h)'
  BY <1>1, <1>4 DEF Informed
<1> QED
  BY <1>4, <1>5, <1>6, WebhookStep

\* What is left to do of a row, once the event holds it.
LEMMA Continued ==
    ASSUME WebhookInv, EventGoesOn, EventKept', NEW d \in Deliveries,
           NEW er, WasEvent(er)', NEW mine \in BOOLEAN, Wal!Continue(d, er, mine),
           delivery[d].step # "idle", mine => delivery[d].existing = None,
           ~mine /\ delivery[d].existing # None => er = delivery[d].existing,
           UNCHANGED wallet
    PROVE  WebhookInv'
<1>1. PICK w : w = delivery[d]
  OBVIOUS
<1>2. w \in DeliveryRows /\ Informed(w)' /\ w.step # "idle"
  BY <1>1, InformedStays DEF WebhookInv
<1>3. PICK step : step = Wal!NextStep(d, er, mine)
  OBVIOUS
<1>4. CASE step = "done"
  <2>1. delivery' = [delivery EXCEPT ![d] = Wal!Idle]
    BY <1>3, <1>4 DEF Wal!Continue, Wal!Done
  <2>2. Informed(Wal!Idle)'
    BY IdleInformed, InformedStays
  <2> QED
    BY <2>1, <2>2, IdleInformed, WebhookStep
<1>5. CASE step # "done"
  <2>1. Wal!GoTo(d, step, er)
    BY <1>3, <1>5 DEF Wal!Continue
  <2>2. /\ step \in {"conflict", "confirm", "credit"}
        /\ step = "confirm" => /\ mine \/ er.payload = w.payload
                               /\ w.existing # None /\ ~Wal!Rejected(w.payload)
                               /\ w.conf >= DepositMinConfirmations
        /\ step = "credit" => er.status = "confirmed"
    BY <1>1, <1>3, <1>5 DEF Wal!NextStep
  <2>3. step = "confirm" => Supported(er.payload)' /\ w.conf >= DepositMinConfirmations
    BY <1>1, <2>2 DEF Wal!Rejected, Supported
  <2> QED
    BY <1>1, <2>1, <2>2, <2>3, CallGoesOn
<1> QED
  BY <1>4, <1>5

LEMMA RecordStep ==
    ASSUME WebhookInv, NEW d \in Deliveries, Wal!Record(d) PROVE WebhookInv'
<1>1. PICK w : w = delivery[d]
  OBVIOUS
<1>2. w \in DeliveryRows /\ Informed(w) /\ w.step = "record" /\ w.payload \in Payloads
  BY <1>1 DEF WebhookInv, Informed, Wal!Record
<1>3. UNCHANGED <<wallet, entry>>
  BY DEF Wal!Record
<1>4. PICK new : new = [payload |-> w.payload, conf |-> w.conf, credited |-> FALSE,
                        status |-> Wal!InitialStatus(w.payload, w.conf)]
  OBVIOUS
<1>5. /\ new \in Wal!EventRows /\ new.payload = w.payload /\ new.conf = w.conf
      /\ ~new.credited /\ new.status = Wal!InitialStatus(w.payload, w.conf)
  <2>1. Wal!InitialStatus(w.payload, w.conf) \in Wal!Statuses
    BY DEF Wal!InitialStatus, Wal!Statuses
  <2> QED
    BY <1>2, <1>4, <2>1 DEF Wal!EventRows, DeliveryRows
<1>6. new.status # "credited" /\ Confirmed(new)
  BY <1>5 DEF Wal!InitialStatus, Wal!Rejected, Confirmed, Supported
<1>7. CASE w.existing # None /\ Wal!Continue(d, w.existing, FALSE) /\ UNCHANGED event
  <2>1. EventGoesOn /\ EventKept'
    BY <1>3, <1>7 DEF WebhookInv, EventKept, EventGoesOn, WasEvent, Confirmed, Supported
  <2>2. PICK er : er = w.existing
    OBVIOUS
  <2>3. WasEvent(er)'
    BY <1>2, <1>7, <2>1, <2>2, InformedStays DEF Informed
  <2> QED
    BY <1>1, <1>2, <1>3, <1>7, <2>1, <2>2, <2>3, Continued
<1>8. CASE w.existing = None /\ event = None /\ event' = new /\ Wal!Continue(d, new, TRUE)
  <2>1. entry = None
    BY <1>8 DEF WebhookInv, EventKept
  <2>2. EventGoesOn
    BY <1>3, <1>8 DEF EventGoesOn
  <2>3. WasEvent(new)'
    BY <1>3, <1>5, <1>6, <1>8 DEF WasEvent, Confirmed, Supported
  <2>4. EventKept'
    BY <1>3, <1>5, <1>6, <1>8, <2>1, <2>3 DEF EventKept, WebhookInv, WasEvent, Confirmed,
                                              Supported
  <2> QED
    BY <1>1, <1>2, <1>3, <1>8, <2>2, <2>3, <2>4, Continued
<1>9. CASE w.existing = None /\ event # None /\ Wal!Continue(d, event, FALSE) /\ UNCHANGED event
  <2>1. EventGoesOn /\ EventKept'
    BY <1>3, <1>9 DEF WebhookInv, EventKept, EventGoesOn, WasEvent, Confirmed, Supported
  <2>2. PICK er : er = event
    OBVIOUS
  <2>3. WasEvent(er)
    BY <1>9, <2>2 DEF WebhookInv, EventKept
  <2>4. WasEvent(er)' /\ Wal!Continue(d, er, FALSE)
    BY <1>9, <2>1, <2>2, <2>3, InformedStays
  <2> QED
    BY <1>1, <1>2, <1>3, <1>9, <2>1, <2>4, Continued
<1> QED
  BY <1>1, <1>4, <1>7, <1>8, <1>9 DEF Wal!Record

\* The event's row is written over, by a call that ends or goes on.
LEMMA EventWritten ==
    ASSUME WebhookInv, event # None, NEW er \in Wal!EventRows, event' = er,
           UNCHANGED <<wallet, entry>>,
           er.payload = event.payload, er.credited => event.credited \/ entry # None,
           er.status \notin {"detected", "rejected"}, er.status = "credited" => entry # None,
           Confirmed(er)
    PROVE  EventGoesOn /\ EventKept' /\ WasEvent(er)'
<1>1. EventGoesOn
  BY DEF EventGoesOn
<1>2. WasEvent(er)'
  BY DEF WasEvent, Confirmed, Supported
<1>3. EventKept'
  <2>1. er.status = "credited" \/ er.credited => entry # None
    BY DEF WebhookInv, EventKept
  <2>2. wallet' \in BOOLEAN /\ event' \in Wal!EventRows /\ entry' \in Wal!Entries \cup {None}
    BY DEF WebhookInv, EventKept
  <2>3. entry # None => /\ Supported(event.payload)
                        /\ entry.amount = Transferred[event.payload]
                        /\ entry.conf >= DepositMinConfirmations
    BY DEF WebhookInv, EventKept
  <2>4. event' # None
    BY <2>2, WalletTyped
  <2>5. WasEvent(event)'
    BY <1>2 DEF WasEvent, Confirmed, Supported
  <2> QED
    BY <2>1, <2>2, <2>3, <2>4, <2>5 DEF EventKept, Supported
<1> QED
  BY <1>1, <1>2, <1>3

LEMMA WebhookNext ==
    ASSUME WebhookInv, [Wal!Next]_(Wal!vars) PROVE WebhookInv'
<1>1. ASSUME UNCHANGED <<event, entry, delivery>>, wallet => wallet', wallet' \in BOOLEAN
      PROVE  WebhookInv'
  <2>1. EventGoesOn
    BY <1>1 DEF EventGoesOn, WebhookInv, EventKept, WasEvent
  <2>2. EventKept'
    BY <1>1 DEF WebhookInv, EventKept, WasEvent, Confirmed, Supported
  <2>3. \A d \in Deliveries : Informed(delivery[d])'
    <3> TAKE d \in Deliveries
    <3>1. PICK q : q = delivery[d] /\ q = delivery'[d]
      BY <1>1
    <3>2. Informed(q)'
      BY <2>1, <3>1, InformedStays DEF WebhookInv
    <3> QED
      BY <3>1, <3>2 DEF Informed, WasEvent, Confirmed, Supported
  <2> QED
    BY <1>1, <2>2, <2>3 DEF WebhookInv
<1>2. CASE Wal!CreateWallet \/ Wal!Decide \/ Wal!RequestNext \/ UNCHANGED Wal!vars
  <2>1. UNCHANGED <<event, entry, delivery>> /\ (UNCHANGED wallet \/ wallet' = TRUE)
    BY <1>2 DEF Wal!CreateWallet, Wal!Decide, Wal!RequestNext, Wal!Request, Wal!LookUp,
                Wal!Insert, Wal!Review, Wal!vars
  <2> QED
    BY <1>1, <2>1 DEF WebhookInv, EventKept
<1>3. ASSUME UNCHANGED <<wallet, event, entry>> PROVE EventGoesOn /\ EventKept'
  BY <1>3 DEF WebhookInv, EventKept, EventGoesOn, WasEvent, Confirmed, Supported
<1>4. ASSUME NEW d \in Deliveries, Wal!Done(d), EventGoesOn, EventKept' PROVE WebhookInv'
  <2>1. delivery' = [delivery EXCEPT ![d] = Wal!Idle]
    BY <1>4 DEF Wal!Done
  <2>2. Informed(Wal!Idle)'
    BY <1>4, IdleInformed, InformedStays
  <2> QED
    BY <1>4, <2>1, <2>2, IdleInformed, WebhookStep
<1>5. ASSUME NEW d \in Deliveries, NEW p \in Payloads, NEW conf \in 0 .. MaxConfirmations,
             Wal!Receive(d, p, conf)
      PROVE  WebhookInv'
  <2>1. PICK w : w = [step |-> "record", payload |-> p, conf |-> conf,
                      existing |-> event, event |-> event]
    OBVIOUS
  <2>2. delivery' = [delivery EXCEPT ![d] = w] /\ UNCHANGED <<wallet, event, entry>>
    BY <1>5, <2>1 DEF Wal!Receive
  <2>3. EventGoesOn /\ EventKept'
    BY <1>3, <2>2
  <2>4. event \in Wal!EventRows \cup {None} /\ (event # None => WasEvent(event))
    BY DEF WebhookInv, EventKept
  <2>5. w \in DeliveryRows /\ Informed(w)
    BY <2>1, <2>4 DEF DeliveryRows, Informed
  <2>6. Informed(w)'
    BY <2>3, <2>5, InformedStays
  <2> QED
    BY <2>2, <2>3, <2>5, <2>6, WebhookStep
<1>6. ASSUME NEW d \in Deliveries, Wal!MarkConflict(d) PROVE WebhookInv'
  <2>1. PICK n : n = Wal!Max({delivery[d].event.conf, delivery[d].conf})
    OBVIOUS
  <2>2. WasEvent(delivery[d].event) /\ delivery[d] \in DeliveryRows
    BY <1>6 DEF WebhookInv, Informed, Wal!MarkConflict
  <2>3. event \in Wal!EventRows /\ event # None
    BY <2>2, WalletTyped DEF WasEvent
  <2>4. n \in 0 .. MaxConfirmations
    <3>1. PICK a : a = delivery[d].event.conf
      OBVIOUS
    <3>2. PICK b : b = delivery[d].conf
      OBVIOUS
    <3>3. a \in 0 .. MaxConfirmations /\ b \in 0 .. MaxConfirmations
      BY <2>2, <3>1, <3>2 DEF WasEvent, DeliveryRows, Wal!EventRows
    <3>4. n = CHOOSE x \in {a, b} : \A y \in {a, b} : x >= y
      BY <2>1, <3>1, <3>2 DEF Wal!Max
    <3>5. \E x \in {a, b} : \A y \in {a, b} : x >= y
      BY <3>3, WalletTyped
    <3> QED
      BY <3>3, <3>4, <3>5
  <2>5. PICK er : er = [event EXCEPT !.status = "manual_review", !.conf = n]
    OBVIOUS
  <2>6. /\ er \in Wal!EventRows /\ er.payload = event.payload /\ er.credited = event.credited
        /\ er.status = "manual_review"
    BY <2>3, <2>4, <2>5 DEF Wal!EventRows, Wal!Statuses
  <2>7. event' = er /\ UNCHANGED <<wallet, entry>> /\ Wal!Done(d)
    BY <1>6, <2>1, <2>5 DEF Wal!MarkConflict
  <2>8. Confirmed(er)
    BY <2>6 DEF Confirmed
  <2>9. EventGoesOn /\ EventKept'
    BY <2>3, <2>6, <2>7, <2>8, EventWritten
  <2> QED
    BY <1>4, <2>7, <2>9
<1>7. ASSUME NEW d \in Deliveries, Wal!Confirm(d) PROVE WebhookInv'
  <2>1. PICK w : w = delivery[d]
    OBVIOUS
  <2>2. w \in DeliveryRows /\ Informed(w) /\ w.step = "confirm"
    BY <1>7, <2>1 DEF WebhookInv, Wal!Confirm
  <2>3. /\ event \in Wal!EventRows /\ event # None
        /\ Supported(event.payload) /\ w.conf >= DepositMinConfirmations
    BY <2>2, WalletTyped DEF Informed, WasEvent
  <2>4. PICK er : er = [event EXCEPT !.status = "confirmed", !.conf = w.conf]
    OBVIOUS
  <2>5. /\ er \in Wal!EventRows /\ er.payload = event.payload /\ er.credited = event.credited
        /\ er.status = "confirmed" /\ er.conf = w.conf
    BY <2>2, <2>3, <2>4 DEF Wal!EventRows, Wal!Statuses, DeliveryRows
  <2>6. Confirmed(er)
    BY <2>3, <2>5 DEF Confirmed
  <2>7. event' = er /\ UNCHANGED <<wallet, entry>> /\ Wal!GoTo(d, "credit", er)
    BY <1>7, <2>1, <2>4 DEF Wal!Confirm
  <2>8. EventGoesOn /\ EventKept' /\ WasEvent(er)'
    BY <2>3, <2>5, <2>6, <2>7, EventWritten
  <2> QED
    BY <2>5, <2>7, <2>8, CallGoesOn
<1>8. ASSUME NEW d \in Deliveries, Wal!Credit(d) PROVE WebhookInv'
  <2>1. PICK w : w = delivery[d]
    OBVIOUS
  <2>2. PICK er : er = w.event
    OBVIOUS
  <2>3. w \in DeliveryRows /\ Informed(w) /\ w.step = "credit" /\ UNCHANGED <<wallet, event>>
    BY <1>8, <2>1 DEF WebhookInv, Wal!Credit
  <2>4. WasEvent(er) /\ er.status = "confirmed"
    BY <2>2, <2>3 DEF Informed
  <2>5. CASE Wal!Done(d) /\ UNCHANGED entry
    BY <1>3, <1>4, <2>3, <2>5
  <2>6. CASE entry' = Wal!NewEntry(er) /\ Wal!GoTo(d, "mark", er)
             /\ entry \in {None, Wal!NewEntry(er)}
    <3>1. PICK n : n = Wal!NewEntry(er)
      OBVIOUS
    <3>2. /\ n \in Wal!Entries /\ n # None /\ n.amount = Transferred[er.payload]
          /\ n.conf = er.conf
      BY <2>4, <3>1, WalletTyped DEF Wal!NewEntry, Wal!Entries, WasEvent, Wal!EventRows
    <3>3. EventGoesOn
      BY <2>3, <2>4, <2>6, <3>1, <3>2 DEF EventGoesOn, WasEvent
    <3>4. EventKept'
      BY <2>3, <2>4, <2>6, <3>1, <3>2, WalletTyped DEF EventKept, WebhookInv, WasEvent,
                                                       Confirmed, Supported
    <3>5. WasEvent(er)' /\ entry' # None
      BY <2>4, <2>6, <3>1, <3>2, <3>3, InformedStays
    <3> QED
      BY <2>4, <2>6, <3>3, <3>4, <3>5, CallGoesOn
  <2> QED
    BY <1>8, <2>1, <2>2, <2>5, <2>6 DEF Wal!Credit
<1>9. ASSUME NEW d \in Deliveries, Wal!Mark(d) PROVE WebhookInv'
  <2>1. WasEvent(delivery[d].event) /\ entry # None
    BY <1>9 DEF WebhookInv, Informed, Wal!Mark
  <2>2. event \in Wal!EventRows /\ event # None
    BY <2>1, WalletTyped DEF WasEvent
  <2>3. PICK er : er = [event EXCEPT !.status = "credited", !.credited = TRUE]
    OBVIOUS
  <2>4. /\ er \in Wal!EventRows /\ er.payload = event.payload /\ er.status = "credited"
    BY <2>2, <2>3 DEF Wal!EventRows, Wal!Statuses
  <2>5. event' = er /\ UNCHANGED <<wallet, entry>> /\ Wal!Done(d)
    BY <1>9, <2>3 DEF Wal!Mark
  <2>6. Confirmed(er)
    BY <2>4 DEF Confirmed
  <2>7. EventGoesOn /\ EventKept'
    BY <2>1, <2>2, <2>4, <2>5, <2>6, EventWritten
  <2> QED
    BY <1>4, <2>5, <2>7
<1>10. ASSUME NEW d \in Deliveries, Wal!Die(d) PROVE WebhookInv'
  BY <1>3, <1>4, <1>10 DEF Wal!Die
<1> QED
  BY <1>2, <1>5, <1>6, <1>7, <1>8, <1>9, <1>10, RecordStep
     DEF Wal!Next, Wal!DepositNext, Wal!Deliver, Wal!Step
-----------------------------------------------------------------------------
(* Withdrawal requests of that time: an answer is the one row of the key.  *)

Decisions == {"pending_review", "rejected", "approved_for_review"}

WithdrawalRows == [id : Requests, body : Payloads, status : Decisions]

AnswerRows == [step : {"idle", "insert", "answered", "refused"},
               answer : WithdrawalRows \cup {None}]

RequestInv ==
    /\ withdrawal \in [Requests -> AnswerRows]
    /\ rows \subseteq WithdrawalRows
    /\ Wal!LegacyRequestsTruthful
    /\ \A r \in Requests : withdrawal[r].step = "answered" => rows # {}

\* One request moves on; if it is answered, then with the row.
LEMMA OneAnswered ==
    ASSUME RequestInv, NEW r \in Requests, NEW a \in AnswerRows,
           withdrawal' = [withdrawal EXCEPT ![r] = a], rows' \subseteq WithdrawalRows,
           \A wr, other \in rows' : wr = other, rows \subseteq rows',
           a.step = "answered" => /\ rows' # {}
                                  /\ \A wr \in rows' : a.answer.id = wr.id /\ wr.body = Asked[r]
    PROVE  RequestInv'
<1>1. \A q \in Requests : withdrawal'[q] = IF q = r THEN a ELSE withdrawal[q]
  BY DEF RequestInv
<1>2. withdrawal' \in [Requests -> AnswerRows]
  BY DEF RequestInv
<1>3. ASSUME NEW q \in Requests, withdrawal'[q].step = "answered"
      PROVE  /\ rows' # {}
             /\ \A wr \in rows' : withdrawal'[q].answer.id = wr.id /\ wr.body = Asked[q]
  BY <1>1, <1>3 DEF RequestInv, Wal!LegacyRequestsTruthful
<1> QED
  BY <1>2, <1>3 DEF RequestInv, Wal!LegacyRequestsTruthful

LEMMA RequestSteps ==
    ASSUME RequestInv, [Wal!Next]_(Wal!vars) PROVE RequestInv'
<1>1. CASE UNCHANGED <<rows, withdrawal>>
  BY <1>1 DEF RequestInv, Wal!LegacyRequestsTruthful
<1>2. ASSUME NEW r \in Requests, NEW wr \in rows', rows \subseteq rows', rows' \subseteq WithdrawalRows,
             \A one, other \in rows' : one = other, Wal!Answer(r, wr)
      PROVE  RequestInv'
  <2>1. PICK a : a = IF wr.body = Asked[r] THEN [step |-> "answered", answer |-> wr]
                     ELSE [step |-> "refused", answer |-> None]
    OBVIOUS
  <2>2. a \in AnswerRows /\ withdrawal' = [withdrawal EXCEPT ![r] = a]
    BY <1>2, <2>1 DEF AnswerRows, Wal!Answer
  <2>3. a.step = "answered" => a.answer = wr /\ wr.body = Asked[r]
    BY <2>1
  <2> QED
    BY <1>2, <2>2, <2>3, OneAnswered
<1>3. ASSUME NEW r \in Requests, Wal!LookUp(r) PROVE RequestInv'
  <2>1. UNCHANGED rows /\ rows \subseteq WithdrawalRows /\ (\A one, other \in rows : one = other)
    BY <1>3 DEF Wal!LookUp, RequestInv, Wal!LegacyRequestsTruthful
  <2>2. CASE withdrawal' = [withdrawal EXCEPT ![r].step = "insert"]
    <3>1. PICK a : a = [withdrawal[r] EXCEPT !.step = "insert"]
      OBVIOUS
    <3>2. a \in AnswerRows /\ a.step = "insert" /\ withdrawal' = [withdrawal EXCEPT ![r] = a]
      BY <2>2, <3>1 DEF RequestInv, AnswerRows
    <3> QED
      BY <2>1, <3>2, OneAnswered
  <2>3. CASE \E wr \in rows : Wal!Answer(r, wr)
    BY <1>2, <2>1, <2>3
  <2> QED
    BY <1>3, <2>2, <2>3 DEF Wal!LookUp
<1>4. ASSUME NEW r \in Requests, Wal!Insert(r) PROVE RequestInv'
  <2>1. rows \subseteq WithdrawalRows /\ (\A one, other \in rows : one = other)
    BY DEF RequestInv, Wal!LegacyRequestsTruthful
  <2>2. CASE UNCHANGED rows /\ \E wr \in rows : Wal!Answer(r, wr)
    BY <1>2, <2>1, <2>2
  <2>3. PICK new : new = [id |-> r, body |-> Asked[r], status |-> "pending_review"]
    OBVIOUS
  <2>4. CASE rows = {} /\ rows' = {new} /\ Wal!Answer(r, new)
    <3>1. new \in WithdrawalRows
      BY <2>3 DEF WithdrawalRows, Decisions, Wal!LegacyWalletAssumption
    <3> QED
      BY <1>2, <2>4, <3>1
  <2> QED
    BY <1>4, <2>2, <2>3, <2>4 DEF Wal!Insert
<1>5. ASSUME NEW status \in {"rejected", "approved_for_review"}, Wal!Review(status)
      PROVE  RequestInv'
  <2> DEFINE Reviewed(wr) == [wr EXCEPT !.status = status]
  <2>1. \A wr \in WithdrawalRows :
           Reviewed(wr) \in WithdrawalRows /\ Reviewed(wr).id = wr.id /\ Reviewed(wr).body = wr.body
    BY DEF WithdrawalRows, Decisions
  <2>2. rows' = {Reviewed(wr) : wr \in rows} /\ UNCHANGED withdrawal
    BY <1>5 DEF Wal!Review
  <2> HIDE DEF Reviewed
  <2>3. \A new \in rows' : /\ new \in WithdrawalRows
                           /\ \E wr \in rows : /\ new = Reviewed(wr)
                                               /\ new.id = wr.id /\ new.body = wr.body
    BY <2>1, <2>2 DEF RequestInv
  <2>4. \A new, other \in rows' : new = other
    BY <2>3 DEF RequestInv, Wal!LegacyRequestsTruthful
  <2>5. rows # {} => rows' # {}
    BY <2>2
  <2> QED
    BY <2>2, <2>3, <2>4, <2>5 DEF RequestInv, Wal!LegacyRequestsTruthful
<1>6. UNCHANGED <<rows, withdrawal>> \/ Wal!RequestNext
  BY DEF Wal!Next, Wal!DepositNext, Wal!vars, Wal!CreateWallet, Wal!Decide, Wal!Deliver,
         Wal!Receive, Wal!Step, Wal!Record, Wal!MarkConflict, Wal!Confirm, Wal!Credit,
         Wal!Mark, Wal!Die
<1> QED
  BY <1>1, <1>3, <1>4, <1>5, <1>6 DEF Wal!RequestNext, Wal!Request

\* However the reports of one transfer overlap, repeat and contradict each other, and
\* wherever a call dies: only a supported, confirmed transfer to a wallet is credited,
\* for the amount first recorded, and no row claims a credit that is not there; and
\* withdrawal requests that race under one key leave one row and true answers.
THEOREM LegacyDepositsAlwaysSound == Spec => []LegacyDepositSound
<1>1. Wal!Init => WebhookInv /\ RequestInv
  <2> SUFFICES ASSUME Wal!Init PROVE WebhookInv /\ RequestInv
    OBVIOUS
  <2>1. WebhookInv
    BY IdleInformed DEF Wal!Init, WebhookInv, EventKept
  <2>2. [step |-> "idle", answer |-> None] \in AnswerRows
    BY DEF AnswerRows
  <2>3. RequestInv
    BY <2>2 DEF Wal!Init, RequestInv, Wal!LegacyRequestsTruthful
  <2> QED
    BY <2>1, <2>3
<1>2. WebhookInv /\ RequestInv /\ [Wal!Next]_(Wal!vars) => WebhookInv' /\ RequestInv'
  BY WebhookNext, RequestSteps
<1>3. WebhookInv /\ RequestInv => LegacyDepositSound
  BY WalletTyped DEF WebhookInv, EventKept, Supported, RequestInv, LegacyDepositSound,
                     Wal!LegacyDepositSound
<1> QED
  BY <1>1, <1>2, <1>3, EveryComponentRuns, PTL DEF Wal!Spec
-----------------------------------------------------------------------------
(* Trading before Coins: the pool.  Shares are rounded down, so together   *)
(* they are at most the pool, and the largest takes what is left over.     *)

Holdings == [shares : Int, cost : Int]
Accounted == Users \X Sides

LEMMA SameSum ==
    ASSUME NEW f
    PROVE  /\ \A S : Tra!SumFunctionOnSet(f, S) = SumFunctionOnSet(f, S)
           /\ Tra!SumFunction(f) = SumFunctionOnSet(f, DOMAIN f)
  BY DEF SumFunctionOnSet, FoldFunctionOnSet, MapThenFoldSet, Tra!SumFunction,
         Tra!SumFunctionOnSet, Tra!FoldFunctionOnSet, Tra!MapThenFoldSet

LEMMA TradingTyped ==
    /\ IsFiniteSet(Users) /\ IsFiniteSet(Sides) /\ IsFiniteSet(Accounted)
    /\ KeyOf \in [Orders -> STRING] /\ OwnerOf \in [Orders -> Users]
    /\ SideOf \in [Orders -> Sides] /\ AmountOf \in [Orders -> Nat \ {0}]
    /\ SharesOf \in [Orders -> Nat \ {0}] /\ VenueFee \in Nat /\ InitialBalance \in Nat
    /\ FeePercent \in 0 .. 100 /\ OutcomeOf \in [Settlers -> Sides \cup {None}]
    /\ "settlement" \notin Users /\ "settlement" \notin Orders /\ None \notin Tra!Plans
<1>1. IsFiniteSet(Users) /\ IsFiniteSet(Sides)
  BY DEF Tra!LegacyTradingAssumption, Tra!IsFiniteSet, IsFiniteSet
<1>2. IsFiniteSet(Accounted)
  BY <1>1, FS_Product DEF Accounted
<1> QED
  BY <1>1, <1>2 DEF Tra!LegacyTradingAssumption

\* What is rounded down and what is left over are together exactly the total.
LEMMA AllocatedExactly ==
    ASSUME NEW S, S # {}, IsFiniteSet(S), NEW weights \in [S -> Nat \ {0}], NEW total \in Nat
    PROVE  /\ Tra!AllocateRoundedAmounts(weights, total) \in [S -> Nat]
           /\ SumFunctionOnSet(Tra!AllocateRoundedAmounts(weights, total), S) = total
<1>1. DOMAIN weights = S /\ (\A p \in S : weights[p] \in Nat /\ weights[p] \in Int /\ weights[p] > 0)
  OBVIOUS
<1>2. PICK all : all = SumFunctionOnSet(weights, S)
  OBVIOUS
<1>3. all \in Nat /\ all > 0
  <2>1. all \in Nat /\ \A p \in S : weights[p] <= all
    BY <1>1, <1>2, SumNonNegative
  <2>2. PICK p \in S : TRUE
    OBVIOUS
  <2> QED
    BY <1>1, <2>1, <2>2
<1>4. PICK floors : floors = [p \in S |-> (weights[p] * total) \div all]
  OBVIOUS
<1>5. \A p \in S : floors[p] \in Nat /\ floors[p] * all <= weights[p] * total
  <2> TAKE p \in S
  <2>1. PICK n : n = weights[p] * total
    OBVIOUS
  <2>2. n \in Nat
    BY <1>1, <2>1
  <2>3. all \in Nat \ {0}
    BY <1>3
  <2>4. n \div all \in Nat /\ (n \div all) * all <= n
    BY <2>2, <2>3, DivisionBounds
  <2> QED
    BY <1>4, <2>1, <2>4
<1>6. PICK low : low = SumFunctionOnSet(floors, S)
  OBVIOUS
<1>7. low \in Nat
  BY <1>5, <1>6, SumNonNegative
<1>8. low <= total
  <2>1. PICK d : d = [p \in S |-> total * weights[p] - all * floors[p]]
    OBVIOUS
  <2>2. \A p \in S : /\ weights[p] \in Int /\ floors[p] \in Int
                     /\ d[p] = total * weights[p] - all * floors[p]
    BY <1>1, <1>5, <2>1
  <2>3. \A p \in S : d[p] \in Nat
    <3> TAKE p \in S
    <3>1. PICK x, y : x = weights[p] /\ y = floors[p]
      OBVIOUS
    <3>2. x \in Nat /\ y \in Nat /\ y * all <= x * total /\ d[p] = total * x - all * y
      BY <1>1, <1>5, <2>2, <3>1
    <3>3. y * all = all * y /\ x * total = total * x /\ total * x \in Int /\ all * y \in Int
      BY <1>3, <3>2
    <3> QED
      BY <3>2, <3>3
  <2>4. SumFunctionOnSet(d, S) = total * all - all * low
    <3>1. total \in Int /\ all \in Int
      BY <1>3
    <3>2. SumFunctionOnSet(d, S)
            = total * SumFunctionOnSet(weights, S) - all * SumFunctionOnSet(floors, S)
      <4>1. \A p \in S : /\ weights[p] \in Int /\ floors[p] \in Int
                         /\ d[p] = Less(total, weights[p], all, floors[p])
        BY <2>2 DEF Less
      <4>2. SumFunctionOnSet(d, S)
              = Less(total, SumFunctionOnSet(weights, S), all, SumFunctionOnSet(floors, S))
        BY <3>1, <4>1, SumCombined
      <4> QED
        BY <4>2 DEF Less
    <3> QED
      BY <1>2, <1>6, <3>2
  <2>5. SumFunctionOnSet(d, S) \in Nat
    BY <2>3, SumNonNegative
  <2>6. low * all < total * all + all
    <3>1. total * all - all * low >= 0
      BY <2>4, <2>5
    <3>2. all * low = low * all /\ all * low \in Int /\ total * all \in Int
      BY <1>3, <1>7
    <3> QED
      BY <1>3, <3>1, <3>2
  <2> QED
    BY <1>3, <1>7, <2>6, SmallerFactor
<1>9. PICK largest : largest = CHOOSE p \in S : \A q \in S : weights[q] <= weights[p]
  OBVIOUS
<1>10. largest \in S
  <2>1. \E p \in S : \A q \in S : weights[q] <= weights[p]
    <3> DEFINE tops == {weights[p] : p \in S}
    <3>1. \A n \in tops : n \in Nat /\ n <= all
      BY <1>1, <1>2, SumNonNegative
    <3>2. tops # {} /\ tops \subseteq Nat
      BY <3>1
    <3> DEFINE gaps == {all - n : n \in tops}
    <3>3. gaps \subseteq Nat /\ gaps # {}
      BY <1>3, <3>1, <3>2
    <3> HIDE DEF gaps
    <3>4. \E n \in gaps : \A m \in gaps : <<m, n>> \notin OpToRel(<, Nat)
      BY <3>3, WFMin, NatLessThanWellFounded, Zenon
    <3>5. PICK n \in gaps : \A m \in gaps : <<m, n>> \notin OpToRel(<, Nat)
      BY <3>4
    <3>6. \A m \in gaps : m \in Nat /\ n \in Nat /\ ~(m < n)
      BY <3>3, <3>5, Zenon DEF OpToRel
    <3>7. PICK p \in S : n = all - weights[p]
      BY <3>5 DEF gaps
    <3>8. \A q \in S : all - weights[q] \in gaps
      BY DEF gaps
    <3> QED
      BY <1>1, <1>3, <3>6, <3>7, <3>8
  <2> QED
    BY <1>9, <2>1
<1>11. PICK pay : pay = [floors EXCEPT ![largest] = @ + total - low]
  OBVIOUS
<1>12. Tra!AllocateRoundedAmounts(weights, total) = pay
  <2>1. Tra!SumFunction(weights) = all
    BY <1>1, <1>2, SameSum
  <2>2. Tra!SumFunction(floors) = low
    <3>1. DOMAIN floors = S
      BY <1>4
    <3> QED
      BY <1>6, <3>1, SameSum
  <2> QED
    BY <1>1, <1>4, <1>9, <1>11, <2>1, <2>2 DEF Tra!AllocateRoundedAmounts
<1>13. \A p \in S : pay[p] = IF p = largest THEN floors[p] + total - low ELSE floors[p]
  BY <1>4, <1>11
<1>14. pay \in [S -> Nat]
  <2>1. DOMAIN pay = S /\ pay = [p \in S |-> pay[p]]
    BY <1>4, <1>11
  <2>2. \A p \in S : pay[p] \in Nat
    BY <1>5, <1>7, <1>8, <1>13
  <2> QED
    BY <2>1, <2>2
<1>15. SumFunctionOnSet(pay, S) = SumFunctionOnSet(floors, S) + pay[largest] - floors[largest]
  <2>1. pay[largest] \in Int /\ \A p \in S : floors[p] \in Int /\ (p # largest => pay[p] = floors[p])
    BY <1>5, <1>10, <1>13, <1>14
  <2> QED
    BY <1>10, <2>1, SumUpdated
<1> QED
  BY <1>5, <1>6, <1>7, <1>10, <1>12, <1>13, <1>14, <1>15

\* A plan pays the whole pool, less the fee, to some of the users.
LEMMA PlanPaysPool ==
    ASSUME NEW read \in [Accounted -> Holdings], NEW winner
    PROVE  /\ Tra!PlanFor(read, winner) \in Tra!Plans
           /\ DOMAIN Tra!PlanFor(read, winner).payouts \subseteq Accounted
           /\ SumFunctionOnSet(Tra!PlanFor(read, winner).payouts,
                               DOMAIN Tra!PlanFor(read, winner).payouts)
                  + Tra!PlanFor(read, winner).fee = Tra!PlanFor(read, winner).total
           /\ \A p \in DOMAIN Tra!PlanFor(read, winner).payouts :
                  Tra!PlanFor(read, winner).payouts[p] \in Nat
<1> DEFINE S == {p \in Accounted : read[p].cost > 0}
<1>1. S \subseteq Accounted /\ IsFiniteSet(S)
  BY TradingTyped, FS_Subset
<1>2. Tra!Stakes(read) = S
  BY DEF Tra!Stakes
<1>3. PICK stakes : stakes = [p \in S |-> read[p].cost]
  OBVIOUS
<1>4. stakes \in [S -> Nat \ {0}]
  BY <1>1, <1>3 DEF Holdings
<1>5. Tra!Restrict([p \in DOMAIN read |-> read[p].cost], Tra!Stakes(read)) = stakes
  BY <1>1, <1>2, <1>3 DEF Tra!Restrict
<1>6. PICK total : total = SumFunctionOnSet(stakes, S)
  OBVIOUS
<1> HIDE DEF S
<1>7. total \in Nat
  <2>1. \A p \in S : stakes[p] \in Nat
    BY <1>4
  <2> QED
    BY <1>1, <1>6, <2>1, SumNonNegative
<1>8. Tra!SumFunction(stakes) = total /\ DOMAIN stakes = S
  BY <1>4, <1>6, SameSum
<1>9. PICK winners : winners = {p \in S : p[2] = winner}
  OBVIOUS
<1>10. PICK fee : fee = IF winners = {} THEN 0 ELSE Tra!RoundedPercent(total)
  OBVIOUS
<1>11. fee \in Nat /\ fee <= total
  <2>1. PICK n : n = total * FeePercent + 50
    OBVIOUS
  <2>2. FeePercent \in Nat /\ FeePercent <= 100
    BY TradingTyped
  <2>3. n \in Nat /\ n <= total * 100 + 50
    <3>1. PICK k \in Nat : 100 = FeePercent + k
      <4>1. 100 - FeePercent \in Nat /\ 100 = FeePercent + (100 - FeePercent)
        BY <2>2
      <4> QED
        BY <4>1
    <3>2. total * 100 = total * FeePercent + total * k /\ total * k \in Nat
          /\ total * FeePercent \in Nat
      BY <1>7, <2>2, <3>1
    <3> QED
      BY <2>1, <3>2
  <2>4. n \div 100 \in Nat /\ (n \div 100) * 100 <= n
    BY <2>3, DivisionBounds
  <2>5. n \div 100 <= total
    BY <1>7, <2>3, <2>4
  <2>6. Tra!RoundedPercent(total) = n \div 100
    BY <2>1 DEF Tra!RoundedPercent
  <2> QED
    BY <1>7, <1>10, <2>4, <2>5, <2>6
<1>12. PICK payouts : payouts = IF winners = {} THEN stakes
                                ELSE Tra!AllocateRoundedAmounts(Tra!Restrict(stakes, winners), total - fee)
  OBVIOUS
<1>13. Tra!PlanFor(read, winner) = [total |-> total, fee |-> fee, payouts |-> payouts]
  BY <1>5, <1>8, <1>9, <1>10, <1>12 DEF Tra!PlanFor
<1>14. \E T \in SUBSET Accounted : payouts \in [T -> Nat] /\ SumFunctionOnSet(payouts, T) = total - fee
  <2>1. CASE winners = {}
    <3>1. payouts \in [S -> Nat] /\ SumFunctionOnSet(payouts, S) = total - fee
      BY <1>4, <1>6, <1>7, <1>10, <1>12, <2>1
    <3> QED
      BY <1>1, <3>1
  <2>2. CASE winners # {}
    <3>1. winners \subseteq S /\ IsFiniteSet(winners)
      BY <1>1, <1>9, FS_Subset
    <3>2. PICK weights : weights = Tra!Restrict(stakes, winners)
      OBVIOUS
    <3>3. weights \in [winners -> Nat \ {0}]
      BY <1>4, <3>1, <3>2 DEF Tra!Restrict
    <3>4. total - fee \in Nat
      BY <1>7, <1>11
    <3>5. /\ Tra!AllocateRoundedAmounts(weights, total - fee) \in [winners -> Nat]
          /\ SumFunctionOnSet(Tra!AllocateRoundedAmounts(weights, total - fee), winners)
                 = total - fee
      BY <2>2, <3>1, <3>3, <3>4, AllocatedExactly
    <3> QED
      BY <1>1, <1>12, <2>2, <3>1, <3>2, <3>5
  <2> QED
    BY <2>1, <2>2
<1>15. PICK T \in SUBSET Accounted :
          payouts \in [T -> Nat] /\ SumFunctionOnSet(payouts, T) = total - fee
  BY <1>14
<1>16. PICK plan : plan = [total |-> total, fee |-> fee, payouts |-> payouts]
  OBVIOUS
<1>17. plan.total = total /\ plan.fee = fee /\ plan.payouts = payouts /\ DOMAIN payouts = T
  BY <1>15, <1>16
<1>18. plan \in Tra!Plans
  BY <1>7, <1>11, <1>15, <1>16 DEF Tra!Plans, Accounted
<1>19. SumFunctionOnSet(payouts, T) + fee = total
  BY <1>7, <1>11, <1>15
<1>20. \A p \in T : payouts[p] \in Nat
  BY <1>15
<1>21. Tra!PlanFor(read, winner) = plan
  BY <1>13, <1>16
<1> QED
  BY <1>17, <1>18, <1>19, <1>20, <1>21
-----------------------------------------------------------------------------
(* The ledger of that time: every user's entries only grow, one to a key,  *)
(* and none is a payout before the market is settled.                      *)

LedgerKeys ==
    {"local-init", "order", "local-reset", "settlement"}
        \X ({""} \cup {KeyOf[o] : o \in Orders} \cup Sides)

EntryRows ==
    [key : LedgerKeys, type : {"credit", "debit", "trade_credit", "trade_debit"},
     amount : Nat, ref : Users \cup Orders \cup {"settlement"}]

Effects(entries) == [e \in entries |-> Tra!Effect(e)]

\* An entry that may stand in the ledger: only a payout looks like one.
Postable(e) ==
    /\ e \in EntryRows
    /\ e.ref = "settlement" <=> e.key[1] = "settlement"
    /\ e.ref = "settlement" => e.type = "credit"

Booked(entries) ==
    /\ IsFiniteSet(entries)
    /\ \A e \in entries : Postable(e)
    /\ \A e, f \in entries : e.key = f.key => e = f
    /\ Tra!BalanceOf(entries) >= 0

LedgerBooked == ledger \in [Users -> SUBSET EntryRows] /\ \A u \in Users : Booked(ledger[u])

\* What was credited from the pool.
PoolCredits == UNION {{<<u, e>> : e \in {f \in ledger[u] : f.ref = "settlement"}} : u \in Users}

PoolSum == SumFunctionOnSet([c \in PoolCredits |-> c[2].amount], PoolCredits)

PoolPaid ==
    /\ settlement \in Tra!Plans \cup {None}
    /\ settlement = None => PoolCredits = {}
    /\ settlement # None => PoolSum + settlement.fee = settlement.total

LEMMA EffectTyped ==
    ASSUME NEW e \in EntryRows
    PROVE  /\ Tra!Effect(e) \in Int
           /\ e.type \in {"credit", "trade_credit"} => Tra!Effect(e) = e.amount
           /\ e.type \in {"debit", "trade_debit"} => Tra!Effect(e) = 0 - e.amount
  BY DEF EntryRows, Tra!Effect, Tra!Credits

LEMMA BalanceIsSum ==
    ASSUME NEW entries, IsFiniteSet(entries), entries \subseteq EntryRows
    PROVE  /\ Tra!BalanceOf(entries) = SumFunctionOnSet(Effects(entries), entries)
           /\ Tra!BalanceOf(entries) \in Int
           /\ \A e \in entries : Effects(entries)[e] \in Int /\ Effects(entries)[e] = Tra!Effect(e)
<1>1. PICK f : f = Effects(entries)
  OBVIOUS
<1>2. Tra!BalanceOf(entries) = Tra!SumFunctionOnSet(f, entries)
  BY <1>1 DEF Tra!BalanceOf, Effects
<1>3. \A e \in entries : f[e] \in Int /\ f[e] = Tra!Effect(e)
  BY <1>1, EffectTyped DEF Effects
<1>4. Tra!SumFunctionOnSet(f, entries) = SumFunctionOnSet(f, entries)
  BY SameSum
<1>5. SumFunctionOnSet(f, entries) \in Int
  BY <1>3, SumType
<1> QED
  BY <1>1, <1>2, <1>3, <1>4, <1>5

\* Entries of other keys add what they add.
LEMMA BalanceAdds ==
    ASSUME NEW old, NEW new, IsFiniteSet(old), IsFiniteSet(new), old \cap new = {},
           old \subseteq EntryRows, new \subseteq EntryRows
    PROVE  Tra!BalanceOf(old \cup new) = Tra!BalanceOf(old) + Tra!BalanceOf(new)
<1>1. PICK all : all = old \cup new
  OBVIOUS
<1>2. IsFiniteSet(all) /\ all \subseteq EntryRows
  BY <1>1, FS_Union
<1>3. PICK f : f = Effects(all)
  OBVIOUS
<1>4. Tra!BalanceOf(all) = SumFunctionOnSet(f, all) /\ \A e \in all : f[e] \in Int /\ f[e] = Tra!Effect(e)
  BY <1>2, <1>3, BalanceIsSum
<1>5. SumFunctionOnSet(f, all) = SumFunctionOnSet(f, old) + SumFunctionOnSet(f, new)
  <2>1. \A e \in old \cup new : f[e] \in Int
    BY <1>1, <1>4
  <2>2. SumFunctionOnSet(f, old \cup new) = SumFunctionOnSet(f, old) + SumFunctionOnSet(f, new)
    BY <2>1, SumOfUnion
  <2> QED
    BY <1>1, <2>2
<1>6. ASSUME NEW part0 \in {old, new} PROVE SumFunctionOnSet(f, part0) = Tra!BalanceOf(part0)
  <2>1. IsFiniteSet(part0) /\ part0 \subseteq EntryRows /\ part0 \subseteq all
    BY <1>1
  <2>2. PICK h : h = Effects(part0)
    OBVIOUS
  <2>3. /\ Tra!BalanceOf(part0) = SumFunctionOnSet(h, part0)
        /\ \A e \in part0 : h[e] \in Int /\ h[e] = Tra!Effect(e)
    BY <2>1, <2>2, BalanceIsSum
  <2>4. \A e \in part0 : h[e] \in Int /\ f[e] = h[e]
    BY <1>4, <2>1, <2>3
  <2>5. SumFunctionOnSet(f, part0) = SumFunctionOnSet(h, part0)
    BY <2>1, <2>4, SumOfEqual
  <2> QED
    BY <2>3, <2>5
<1>7. /\ SumFunctionOnSet(f, old) = Tra!BalanceOf(old)
      /\ SumFunctionOnSet(f, new) = Tra!BalanceOf(new)
  BY <1>6
<1> QED
  BY <1>1, <1>4, <1>5, <1>7

LEMMA BalanceOfOne ==
    ASSUME NEW e \in EntryRows
    PROVE  Tra!BalanceOf({e}) = Tra!Effect(e)
<1>1. IsFiniteSet({e}) /\ {e} \subseteq EntryRows
  BY FS_Singleton
<1>2. PICK f : f = Effects({e})
  OBVIOUS
<1>3. /\ Tra!BalanceOf({e}) = SumFunctionOnSet(f, {e})
      /\ \A x \in {e} : f[x] \in Int /\ f[x] = Tra!Effect(x)
  BY <1>1, <1>2, BalanceIsSum
<1>4. /\ SumFunctionOnSet(f, {e} \ {e}) \in Int
      /\ SumFunctionOnSet(f, {e}) = SumFunctionOnSet(f, {e} \ {e}) + f[e]
  BY <1>1, <1>3, SumStep
<1>5. f[e] \in Int /\ f[e] = Tra!Effect(e)
  BY <1>3
<1>6. {e} \ {e} = {}
  OBVIOUS
<1>7. SumFunctionOnSet(f, {e} \ {e}) = 0
  BY <1>6, SumOfNone
<1> QED
  BY <1>3, <1>4, <1>5, <1>7

\* An entry that is there, or one of a new key that the balance covers.
LEMMA EntryBooked ==
    ASSUME NEW entries, Booked(entries), NEW e, Postable(e),
           e \in entries \/ Tra!OfKey(entries, e.key) = {},
           Tra!BalanceOf(entries \cup {e}) >= 0
    PROVE  Booked(entries \cup {e})
<1>1. IsFiniteSet(entries \cup {e})
  BY FS_AddElement DEF Booked
<1>2. \A x \in entries \cup {e} : Postable(x)
  BY DEF Booked
<1>3. \A x, y \in entries \cup {e} : x.key = y.key => x = y
  BY DEF Booked, Tra!OfKey
<1> QED
  BY <1>1, <1>2, <1>3 DEF Booked

\* One user's entries grow by what is no payout.
LEMMA OneLedgerGrows ==
    ASSUME LedgerBooked, PoolPaid, NEW u \in Users, NEW entries, Booked(entries),
           ledger[u] \subseteq entries,
           \A e \in entries : e \in ledger[u] \/ e.ref # "settlement",
           ledger' = [ledger EXCEPT ![u] = entries], settlement' = settlement
    PROVE  /\ LedgerBooked' /\ PoolPaid'
           /\ \A v \in Users : ledger[v] \subseteq ledger'[v]
<1>1. \A v \in Users : ledger'[v] = IF v = u THEN entries ELSE ledger[v]
  BY DEF LedgerBooked
<1>2. \A e \in entries : e \in EntryRows
  BY DEF Booked, Postable
<1>3. LedgerBooked'
  <2>1. ledger' \in [Users -> SUBSET EntryRows]
    BY <1>1, <1>2 DEF LedgerBooked
  <2>2. \A v \in Users : Booked(ledger'[v])
    BY <1>1 DEF LedgerBooked
  <2> QED
    BY <2>1, <2>2 DEF LedgerBooked
<1>4. \A v \in Users :
          {e \in ledger'[v] : e.ref = "settlement"} = {e \in ledger[v] : e.ref = "settlement"}
  BY <1>1
<1>5. PoolCredits' = PoolCredits
  BY <1>4 DEF PoolCredits
<1>6. PoolPaid'
  BY <1>5 DEF PoolPaid, PoolSum
<1> QED
  BY <1>1, <1>3, <1>6
-----------------------------------------------------------------------------
(* Orders of that time.                                                    *)

TradeRows == [id : Orders, user : Users, key : {KeyOf[o] : o \in Orders}, amount : Nat]

OrderRows ==
    [step : {"new", "read", "venue", "commit", "answered", "refused"},
     read : [Sides -> Holdings] \cup {None}, trade : TradeRows \cup {None}, fee : Nat]

TradePaid(t) ==
    \E e \in ledger[t.user] : e.key = <<"order", t.key>> /\ e.ref = t.id /\ e.amount = t.amount

\* An answer names a trade whose entry stands under the order's key.
AnswerPaid(o) ==
    \E e \in ledger[OwnerOf[o]] : e.key = <<"order", KeyOf[o]>> /\ e.ref = order[o].trade.id

OrderSound(o) ==
    /\ order[o].step \in {"read", "commit"} => order[o].read \in [Sides -> Holdings]
    /\ order[o].step = "answered" => AnswerPaid(o)

OrdersSound ==
    /\ order \in [Orders -> OrderRows] /\ trades \subseteq TradeRows
    /\ position \in [Accounted -> Holdings]
    /\ \A t \in trades : TradePaid(t)
    /\ \A o \in Orders : OrderSound(o)

SettlersSound ==
    /\ settler \in [Settlers -> [step : {"new", "commit", "refused", "settled"},
                                 read : [Accounted -> Holdings] \cup {None}]]
    /\ \A a \in Settlers :
          settler[a].step = "commit" => settler[a].read \in [Accounted -> Holdings]

TradingInv == LedgerBooked /\ PoolPaid /\ OrdersSound /\ SettlersSound

LedgersGrow == \A v \in Users : ledger[v] \subseteq ledger'[v]

\* While ledgers grow, what was paid stays paid.
LEMMA PaidStaysPaid ==
    ASSUME LedgersGrow, trades \subseteq TradeRows, \A t \in trades : TradePaid(t)
    PROVE  \A t \in trades : TradePaid(t)'
<1> SUFFICES ASSUME NEW t \in trades PROVE TradePaid(t)'
  OBVIOUS
<1>1. t.user \in Users
  BY DEF TradeRows
<1>2. PICK e \in ledger[t.user] : e.key = <<"order", t.key>> /\ e.ref = t.id /\ e.amount = t.amount
  BY DEF TradePaid
<1>3. e \in ledger'[t.user]
  BY <1>1, <1>2 DEF LedgersGrow
<1> QED
  BY <1>2, <1>3 DEF TradePaid

LEMMA AnswerStaysPaid ==
    ASSUME LedgersGrow, NEW o \in Orders, order'[o].trade = order[o].trade, AnswerPaid(o)
    PROVE  AnswerPaid(o)'
<1>1. OwnerOf[o] \in Users
  BY TradingTyped
<1>2. PICK e \in ledger[OwnerOf[o]] : e.key = <<"order", KeyOf[o]>> /\ e.ref = order[o].trade.id
  BY DEF AnswerPaid
<1>3. e \in ledger'[OwnerOf[o]]
  BY <1>1, <1>2 DEF LedgersGrow
<1> QED
  BY <1>2, <1>3 DEF AnswerPaid

\* A step of one order leaves the others as they were.
LEMMA OneOrderMoves ==
    ASSUME OrdersSound, LedgersGrow, NEW o \in Orders, NEW r \in OrderRows,
           order' = [order EXCEPT ![o] = r], OrderSound(o)',
           trades' \subseteq TradeRows, position' \in [Accounted -> Holdings],
           \A t \in trades' : t \in trades \/ TradePaid(t)'
    PROVE  OrdersSound'
<1>1. order' \in [Orders -> OrderRows]
  BY DEF OrdersSound
<1>2. \A t \in trades' : TradePaid(t)'
  BY PaidStaysPaid DEF OrdersSound
<1>3. ASSUME NEW x \in Orders PROVE OrderSound(x)'
  <2>1. CASE x = o
    BY <2>1
  <2>2. CASE x # o
    <3>1. order'[x] = order[x]
      BY <2>2 DEF OrdersSound
    <3>2. OrderSound(x)
      BY DEF OrdersSound
    <3>3. order[x].step = "answered" => AnswerPaid(x)'
      BY <3>1, <3>2, AnswerStaysPaid DEF OrderSound
    <3> QED
      BY <3>1, <3>2, <3>3 DEF OrderSound
  <2> QED
    BY <2>1, <2>2
<1> QED
  BY <1>1, <1>2, <1>3 DEF OrdersSound

LEMMA LedgersStand ==
    ASSUME LedgerBooked, PoolPaid, UNCHANGED <<ledger, settlement>>
    PROVE  LedgerBooked' /\ PoolPaid' /\ LedgersGrow
<1>1. PoolCredits' = PoolCredits
  BY DEF PoolCredits
<1>2. PoolPaid'
  BY <1>1 DEF PoolPaid, PoolSum
<1>3. LedgerBooked' /\ LedgersGrow
  BY DEF LedgerBooked, LedgersGrow
<1> QED
  BY <1>2, <1>3

LEMMA PositionsTyped ==
    ASSUME position \in [Accounted -> Holdings], NEW u \in Users
    PROVE  Tra!PositionsOf(u) \in [Sides -> Holdings]
  BY DEF Tra!PositionsOf, Accounted

LEMMA ReadStateSound ==
    ASSUME TradingInv, NEW o \in Orders, Tra!ReadState(o)
    PROVE  TradingInv'
<1>1. PICK read : read = Tra!PositionsOf(OwnerOf[o])
  OBVIOUS
<1>2. read \in [Sides -> Holdings]
  BY <1>1, PositionsTyped, TradingTyped DEF TradingInv, OrdersSound
<1>3. order[o] \in OrderRows
  BY DEF TradingInv, OrdersSound
<1>4. PICK r : r = [order[o] EXCEPT !.step = "read", !.read = read]
  OBVIOUS
<1>5. r \in OrderRows /\ r.step = "read" /\ r.read = read
  BY <1>2, <1>3, <1>4 DEF OrderRows
<1>6. order' = [order EXCEPT ![o] = r]
  BY <1>1, <1>3, <1>4 DEF Tra!ReadState, TradingInv, OrdersSound, OrderRows
<1>7. order'[o] = r
  BY <1>6 DEF TradingInv, OrdersSound
<1>8. OrderSound(o)'
  BY <1>2, <1>5, <1>7 DEF OrderSound
<1>9. UNCHANGED <<ledger, trades, position, settlement, settler>>
  BY DEF Tra!ReadState
<1>10. LedgerBooked' /\ PoolPaid' /\ LedgersGrow
  BY <1>9, LedgersStand DEF TradingInv
<1>11. OrdersSound'
  <2>1. /\ trades' \subseteq TradeRows /\ position' \in [Accounted -> Holdings]
        /\ \A t \in trades' : t \in trades \/ TradePaid(t)'
    BY <1>9 DEF TradingInv, OrdersSound
  <2> QED
    BY <1>5, <1>6, <1>8, <1>10, <2>1, OneOrderMoves DEF TradingInv
<1>12. SettlersSound'
  BY <1>9 DEF TradingInv, SettlersSound
<1> QED
  BY <1>10, <1>11, <1>12 DEF TradingInv

LEMMA ExecuteSound ==
    ASSUME TradingInv, NEW o \in Orders, NEW filled \in BOOLEAN, NEW fee \in {0, VenueFee},
           Tra!Execute(o, filled, fee)
    PROVE  TradingInv'
<1>1. PICK read : read = Tra!PositionsOf(OwnerOf[o])
  OBVIOUS
<1>2. read \in [Sides -> Holdings] /\ fee \in Nat
  BY <1>1, PositionsTyped, TradingTyped DEF TradingInv, OrdersSound
<1>3. order[o] \in OrderRows
  BY DEF TradingInv, OrdersSound
<1>4. PICK r : r = IF filled THEN [order[o] EXCEPT !.step = "commit", !.read = read, !.fee = fee]
                   ELSE [step |-> "refused", read |-> None, trade |-> None, fee |-> 0]
  OBVIOUS
<1>5. /\ r \in OrderRows
      /\ r.step \in {"commit", "refused"}
      /\ r.step = "commit" => r.read = read
  BY <1>2, <1>3, <1>4 DEF OrderRows
<1>6. order' = [order EXCEPT ![o] = r]
  BY <1>1, <1>3, <1>4 DEF Tra!Execute, Tra!GoTo, TradingInv, OrdersSound, OrderRows
<1>7. order'[o] = r
  BY <1>6 DEF TradingInv, OrdersSound
<1>8. OrderSound(o)'
  BY <1>2, <1>5, <1>7 DEF OrderSound
<1>9. UNCHANGED <<ledger, trades, position, settlement, settler>>
  BY DEF Tra!Execute
<1>10. LedgerBooked' /\ PoolPaid' /\ LedgersGrow
  BY <1>9, LedgersStand DEF TradingInv
<1>11. OrdersSound'
  <2>1. /\ trades' \subseteq TradeRows /\ position' \in [Accounted -> Holdings]
        /\ \A t \in trades' : t \in trades \/ TradePaid(t)'
    BY <1>9 DEF TradingInv, OrdersSound
  <2> QED
    BY <1>5, <1>6, <1>8, <1>10, <2>1, OneOrderMoves DEF TradingInv
<1>12. SettlersSound'
  BY <1>9 DEF TradingInv, SettlersSound
<1> QED
  BY <1>10, <1>11, <1>12 DEF TradingInv

\* The initial balance is credited once, to a ledger without entries.
LEMMA InitialBalanceBooked ==
    ASSUME LedgerBooked, NEW u \in Users
    PROVE  /\ Booked(Tra!WithInitialBalance(u))
           /\ ledger[u] \subseteq Tra!WithInitialBalance(u)
           /\ \A e \in Tra!WithInitialBalance(u) : e \in ledger[u] \/ e.ref # "settlement"
<1>1. CASE ledger[u] # {}
  BY <1>1 DEF LedgerBooked, Tra!WithInitialBalance
<1>2. CASE ledger[u] = {}
  <2>1. PICK e : e = Tra!InitialCredit(u)
    OBVIOUS
  <2>2. /\ e = [key |-> <<"local-init", "">>, type |-> "credit", amount |-> InitialBalance, ref |-> u]
        /\ u # "settlement" /\ InitialBalance \in Nat
    BY <2>1, TradingTyped DEF Tra!InitialCredit, Tra!Entry
  <2>3. /\ e.key = <<"local-init", "">> /\ e.type = "credit" /\ e.amount = InitialBalance
        /\ e.ref = u
    BY <2>2
  <2>4. <<"local-init", "">> \in LedgerKeys
    BY DEF LedgerKeys
  <2>5. e \in EntryRows
    BY <2>2, <2>4 DEF EntryRows
  <2>6. Postable(e)
    BY <2>2, <2>3, <2>5 DEF Postable
  <2>7. Tra!BalanceOf({e}) = InitialBalance
    BY <2>3, <2>5, BalanceOfOne, EffectTyped
  <2>8. Booked({e})
    <3>1. IsFiniteSet({e})
      BY FS_Singleton
    <3>2. Tra!BalanceOf({e}) >= 0
      <4>1. InitialBalance >= 0
        BY TradingTyped
      <4> QED
        BY <2>7, <4>1
    <3>3. \A x \in {e} : Postable(x)
      BY <2>6
    <3>4. \A x, y \in {e} : x.key = y.key => x = y
      OBVIOUS
    <3> QED
      BY <3>1, <3>2, <3>3, <3>4 DEF Booked
  <2>9. Tra!WithInitialBalance(u) = {e}
    BY <1>2, <2>1 DEF Tra!WithInitialBalance
  <2> QED
    BY <1>2, <2>2, <2>3, <2>8, <2>9
<1> QED
  BY <1>1, <1>2

LEMMA QuoteSound ==
    ASSUME TradingInv, NEW o \in Orders, Tra!Quote(o)
    PROVE  TradingInv'
<1>1. PICK u : u = OwnerOf[o]
  OBVIOUS
<1>2. u \in Users
  BY <1>1, TradingTyped
<1>3. order[o] \in OrderRows /\ order[o].step = "read" /\ order[o].read \in [Sides -> Holdings]
  BY DEF TradingInv, OrdersSound, OrderSound, Tra!Quote
<1>4. UNCHANGED <<trades, position, settlement, settler>>
  BY DEF Tra!Quote
<1>5. /\ trades' \subseteq TradeRows /\ position' \in [Accounted -> Holdings]
      /\ \A t \in trades' : t \in trades \/ TradePaid(t)'
  BY <1>4 DEF TradingInv, OrdersSound
<1>6. SettlersSound'
  BY <1>4 DEF TradingInv, SettlersSound
<1>7. CASE Tra!TradesOf(u, KeyOf[o]) # {}
  <2>1. Tra!AnswerPrevious(o) /\ ledger' = ledger
    BY <1>1, <1>7 DEF Tra!Quote
  <2>2. PICK t \in Tra!TradesOf(u, KeyOf[o]) : Tra!Answer(o, t)
    BY <1>1, <2>1 DEF Tra!AnswerPrevious
  <2>3. t \in trades /\ t.user = u /\ t.key = KeyOf[o]
    BY <2>2 DEF Tra!TradesOf
  <2>4. t \in TradeRows /\ TradePaid(t)
    BY <2>3 DEF TradingInv, OrdersSound
  <2>5. PICK r : r = [step |-> "answered", read |-> None, trade |-> t, fee |-> 0]
    OBVIOUS
  <2>6. r \in OrderRows /\ r.step = "answered" /\ r.trade = t
    BY <2>4, <2>5 DEF OrderRows
  <2>7. order' = [order EXCEPT ![o] = r]
    BY <2>2, <2>5 DEF Tra!Answer
  <2>8. order'[o] = r
    BY <2>7 DEF TradingInv, OrdersSound
  <2>9. PICK e \in ledger[u] : e.key = <<"order", t.key>> /\ e.ref = t.id
    BY <2>3, <2>4 DEF TradePaid
  <2>10. AnswerPaid(o)'
    BY <1>1, <2>1, <2>3, <2>6, <2>8, <2>9 DEF AnswerPaid
  <2>11. OrderSound(o)'
    BY <2>6, <2>8, <2>10 DEF OrderSound
  <2>12. LedgerBooked' /\ PoolPaid' /\ LedgersGrow
    BY <1>4, <2>1, LedgersStand DEF TradingInv
  <2>13. OrdersSound'
    BY <1>5, <2>6, <2>7, <2>11, <2>12, OneOrderMoves DEF TradingInv
  <2> QED
    BY <1>6, <2>12, <2>13 DEF TradingInv
<1>8. CASE Tra!TradesOf(u, KeyOf[o]) = {}
  <2>1. PICK entries : entries = IF o \in Real THEN ledger[u] ELSE Tra!WithInitialBalance(u)
    OBVIOUS
  <2>2. /\ ledger' = [ledger EXCEPT ![u] = entries]
        /\ \E step \in {"refused", "venue", "commit"} : Tra!GoTo(o, step)
    BY <1>1, <1>8, <2>1 DEF Tra!Quote
  <2>3. PICK step \in {"refused", "venue", "commit"} : Tra!GoTo(o, step)
    BY <2>2
  <2>4. PICK r : r = [step |-> step, read |-> IF step = "commit" THEN order[o].read ELSE None,
                      trade |-> None, fee |-> 0]
    OBVIOUS
  <2>5. /\ r \in OrderRows /\ r.step \in {"refused", "venue", "commit"}
        /\ r.step = "commit" => r.read \in [Sides -> Holdings]
    BY <1>3, <2>4 DEF OrderRows
  <2>6. order' = [order EXCEPT ![o] = r]
    BY <2>3, <2>4 DEF Tra!GoTo
  <2>7. order'[o] = r
    BY <2>6 DEF TradingInv, OrdersSound
  <2>8. OrderSound(o)'
    BY <2>5, <2>7 DEF OrderSound
  <2>9. /\ Booked(entries) /\ ledger[u] \subseteq entries
        /\ \A e \in entries : e \in ledger[u] \/ e.ref # "settlement"
    BY <1>2, <2>1, InitialBalanceBooked DEF TradingInv, LedgerBooked
  <2>10. LedgerBooked' /\ PoolPaid' /\ LedgersGrow
    BY <1>2, <1>4, <2>2, <2>9, OneLedgerGrows DEF TradingInv, LedgersGrow
  <2>11. OrdersSound'
    BY <1>5, <2>5, <2>6, <2>8, <2>10, OneOrderMoves DEF TradingInv
  <2> QED
    BY <1>6, <2>10, <2>11 DEF TradingInv
<1> QED
  BY <1>7, <1>8

\* What a trade leaves of a position is a position.
LEMMA TradedTyped ==
    ASSUME NEW o \in Orders, NEW held \in Holdings
    PROVE  Tra!Traded(o, held) \in Holdings
<1>1. /\ held.shares \in Int /\ held.cost \in Int
      /\ SharesOf[o] \in Nat \ {0} /\ AmountOf[o] \in Nat \ {0}
  BY TradingTyped DEF Holdings
<1>2. PICK n : n = held.cost * SharesOf[o]
  OBVIOUS
<1>3. n \in Int
  BY <1>1, <1>2
<1>4. held.shares > SharesOf[o] => n \div held.shares \in Int
  BY <1>1, <1>3
<1> QED
  BY <1>1, <1>2, <1>4 DEF Tra!Traded, Tra!NoPosition, Holdings

LEMMA TradeEntryPostable ==
    ASSUME OrdersSound, NEW o \in Orders
    PROVE  /\ Postable(Tra!TradeEntry(o))
           /\ Tra!TradeEntry(o).key = <<"order", KeyOf[o]>>
           /\ Tra!TradeEntry(o).ref = o /\ o # "settlement"
           /\ Tra!TradeEntry(o).amount \in Nat
<1>1. order[o].fee \in Nat /\ AmountOf[o] \in Nat /\ AmountOf[o] + order[o].fee \in Nat
  BY TradingTyped DEF OrdersSound, OrderRows
<1>2. PICK e : e = Tra!TradeEntry(o)
  OBVIOUS
<1>3. PICK sum, type :
        /\ sum \in Nat /\ type \in {"trade_debit", "trade_credit"}
        /\ e = [key |-> <<"order", KeyOf[o]>>, type |-> type, amount |-> sum, ref |-> o]
  BY <1>1, <1>2 DEF Tra!TradeEntry, Tra!Entry, Tra!OrderKey
<1>4. <<"order", KeyOf[o]>> \in LedgerKeys
  BY DEF LedgerKeys
<1>5. o # "settlement"
  BY TradingTyped
<1>6. /\ e \in EntryRows /\ e.key = <<"order", KeyOf[o]>> /\ e.ref = o /\ e.type = type
      /\ e.amount = sum
  BY <1>3, <1>4 DEF EntryRows
<1>7. Postable(e)
  BY <1>5, <1>6 DEF Postable
<1> QED
  BY <1>2, <1>3, <1>5, <1>6, <1>7

LEMMA CommitTradeSound ==
    ASSUME TradingInv, NEW o \in Orders, Tra!CommitTrade(o)
    PROVE  TradingInv'
<1>1. PICK u : u = OwnerOf[o]
  OBVIOUS
<1>2. u \in Users
  BY <1>1, TradingTyped
<1>3. PICK e : e = Tra!TradeEntry(o)
  OBVIOUS
<1>4. /\ Postable(e) /\ e.key = <<"order", KeyOf[o]>> /\ e.ref = o /\ o # "settlement"
      /\ e.amount \in Nat
  BY <1>3, TradeEntryPostable DEF TradingInv
<1>5. /\ order[o] \in OrderRows /\ order[o].step = "commit"
      /\ order[o].read \in [Sides -> Holdings]
  BY DEF TradingInv, OrdersSound, OrderSound, Tra!CommitTrade
<1>6. UNCHANGED <<settlement, settler>>
  BY DEF Tra!CommitTrade
<1>7. SettlersSound'
  BY <1>6 DEF TradingInv, SettlersSound
<1>8. CASE ~Tra!CanPost(u, e)
  <2>1. Tra!GoTo(o, "refused") /\ UNCHANGED <<ledger, trades, position>>
    BY <1>1, <1>3, <1>8 DEF Tra!CommitTrade
  <2>2. PICK r : r = [step |-> "refused", read |-> None, trade |-> None, fee |-> 0]
    OBVIOUS
  <2>3. r \in OrderRows /\ r.step = "refused"
    BY <2>2 DEF OrderRows
  <2>4. order' = [order EXCEPT ![o] = r]
    BY <2>1, <2>2 DEF Tra!GoTo
  <2>5. order'[o] = r
    BY <2>4 DEF TradingInv, OrdersSound
  <2>6. OrderSound(o)'
    BY <2>3, <2>5 DEF OrderSound
  <2>7. LedgerBooked' /\ PoolPaid' /\ LedgersGrow
    BY <1>6, <2>1, LedgersStand DEF TradingInv
  <2>8. /\ trades' \subseteq TradeRows /\ position' \in [Accounted -> Holdings]
        /\ \A t \in trades' : t \in trades \/ TradePaid(t)'
    BY <2>1 DEF TradingInv, OrdersSound
  <2>9. OrdersSound'
    BY <2>3, <2>4, <2>6, <2>7, <2>8, OneOrderMoves DEF TradingInv
  <2> QED
    BY <1>7, <2>7, <2>9 DEF TradingInv
<1>9. CASE Tra!CanPost(u, e)
  <2>1. PICK trade : trade = [id |-> o, user |-> u, key |-> KeyOf[o], amount |-> e.amount]
    OBVIOUS
  <2>2. /\ trade.id = o /\ trade.user = u /\ trade.key = KeyOf[o] /\ trade.amount = e.amount
        /\ trade \in TradeRows
    BY <1>2, <1>4, <2>1 DEF TradeRows
  <2>3. PICK entries : entries = ledger[u] \cup {e}
    OBVIOUS
  <2>4. PICK both : both = [order[o].read EXCEPT ![SideOf[o]]
                                = Tra!Traded(o, order[o].read[SideOf[o]])]
    OBVIOUS
  <2>5. both \in [Sides -> Holdings]
    <3>1. SideOf[o] \in Sides
      BY TradingTyped
    <3>2. Tra!Traded(o, order[o].read[SideOf[o]]) \in Holdings
      BY <1>5, <3>1, TradedTyped
    <3> QED
      BY <1>5, <2>4, <3>1, <3>2
  <2>6. /\ ledger' = [ledger EXCEPT ![u] = entries]
        /\ trades' = trades \cup {trade}
        /\ position' = [p \in DOMAIN position |-> IF p[1] = u THEN both[p[2]] ELSE position[p]]
        /\ Tra!Answer(o, trade)
    BY <1>1, <1>3, <1>9, <2>1, <2>3, <2>4 DEF Tra!CommitTrade
  <2>7. PICK r : r = [step |-> "answered", read |-> None, trade |-> trade, fee |-> 0]
    OBVIOUS
  <2>8. r \in OrderRows /\ r.step = "answered" /\ r.trade = trade
    BY <2>2, <2>7 DEF OrderRows
  <2>9. order' = [order EXCEPT ![o] = r]
    BY <2>6, <2>7 DEF Tra!Answer
  <2>10. order'[o] = r
    BY <2>9 DEF TradingInv, OrdersSound
  <2>11. Booked(entries)
    <3>1. Booked(ledger[u])
      BY <1>2 DEF TradingInv, LedgerBooked
    <3>2. e \in ledger[u] \/ Tra!OfKey(ledger[u], e.key) = {}
      BY <1>9 DEF Tra!CanPost
    <3>3. Tra!BalanceOf(ledger[u] \cup {e}) >= 0
      <4>1. CASE Tra!OfKey(ledger[u], e.key) = {}
        BY <1>9, <4>1 DEF Tra!CanPost
      <4>2. CASE e \in ledger[u]
        <5>1. ledger[u] \cup {e} = ledger[u]
          BY <4>2
        <5> QED
          BY <3>1, <5>1 DEF Booked
      <4> QED
        BY <3>2, <4>1, <4>2
    <3> QED
      BY <1>4, <2>3, <3>1, <3>2, <3>3, EntryBooked
  <2>12. /\ ledger[u] \subseteq entries
         /\ \A x \in entries : x \in ledger[u] \/ x.ref # "settlement"
    BY <1>4, <2>3
  <2>13. LedgerBooked' /\ PoolPaid' /\ LedgersGrow
    BY <1>2, <1>6, <2>6, <2>11, <2>12, OneLedgerGrows DEF TradingInv, LedgersGrow
  <2>14. e \in ledger'[u]
    BY <1>2, <2>3, <2>6 DEF TradingInv, LedgerBooked
  <2>15. TradePaid(trade)'
    BY <1>4, <2>2, <2>14 DEF TradePaid
  <2>16. AnswerPaid(o)'
    BY <1>1, <1>4, <2>2, <2>8, <2>10, <2>14 DEF AnswerPaid
  <2>17. OrderSound(o)'
    BY <2>8, <2>10, <2>16 DEF OrderSound
  <2>18. trades' \subseteq TradeRows
    BY <2>2, <2>6 DEF TradingInv, OrdersSound
  <2>19. \A t \in trades' : t \in trades \/ TradePaid(t)'
    BY <2>6, <2>15
  <2>20. position' \in [Accounted -> Holdings]
    BY <2>5, <2>6 DEF TradingInv, OrdersSound, Accounted
  <2>21. OrdersSound'
    BY <2>8, <2>9, <2>13, <2>17, <2>18, <2>19, <2>20, OneOrderMoves DEF TradingInv
  <2> QED
    BY <1>7, <2>13, <2>21 DEF TradingInv
<1> QED
  BY <1>8, <1>9

\* Where no order moves, ledgers grow and trades may go.
LEMMA OrdersStand ==
    ASSUME OrdersSound, LedgersGrow, order' = order, trades' \subseteq trades,
           position' \in [Accounted -> Holdings]
    PROVE  OrdersSound'
<1>1. \A t \in trades' : TradePaid(t)'
  BY PaidStaysPaid DEF OrdersSound
<1>2. ASSUME NEW o \in Orders PROVE OrderSound(o)'
  <2>1. OrderSound(o)
    BY DEF OrdersSound
  <2>2. order'[o].step = "answered" => AnswerPaid(o)'
    BY <2>1, AnswerStaysPaid DEF OrderSound
  <2> QED
    BY <2>1, <2>2 DEF OrderSound
<1>3. trades' \subseteq TradeRows
  BY DEF OrdersSound
<1> QED
  BY <1>1, <1>2, <1>3 DEF OrdersSound

\* A reset posts what is missing to the initial balance, or what is too much.
LEMMA ResetSound ==
    ASSUME TradingInv, NEW u \in Users, Tra!Reset(u)
    PROVE  TradingInv'
<1>1. PICK delta : delta = InitialBalance - Tra!BalanceOf(ledger[u])
  OBVIOUS
<1>2. PICK e : e = Tra!Entry(Tra!ResetKey, IF delta > 0 THEN "credit" ELSE "debit",
                             IF delta > 0 THEN delta ELSE 0 - delta, u)
  OBVIOUS
<1>3. PICK entries : entries = IF delta = 0 THEN ledger[u] ELSE ledger[u] \cup {e}
  OBVIOUS
<1>4. /\ Tra!OfKey(ledger[u], Tra!ResetKey) = {}
      /\ trades' = {t \in trades : t.user # u}
      /\ position' = [p \in DOMAIN position |-> IF p[1] = u THEN Tra!NoPosition ELSE position[p]]
      /\ UNCHANGED <<order, settlement, settler>>
  BY DEF Tra!Reset
<1>5. ledger' = [ledger EXCEPT ![u] = entries]
  BY <1>1, <1>2, <1>3 DEF Tra!Reset
<1>6. Booked(ledger[u])
  BY DEF TradingInv, LedgerBooked
<1>7. IsFiniteSet(ledger[u]) /\ ledger[u] \subseteq EntryRows
  BY <1>6 DEF Booked, Postable
<1>8. /\ Tra!BalanceOf(ledger[u]) \in Int /\ InitialBalance \in Nat /\ u # "settlement"
      /\ delta \in Int
  BY <1>1, <1>7, BalanceIsSum, TradingTyped
<1>9. PICK type : type = IF delta > 0 THEN "credit" ELSE "debit"
  OBVIOUS
<1>10. PICK sum : sum = IF delta > 0 THEN delta ELSE 0 - delta
  OBVIOUS
<1>11. /\ e = [key |-> <<"local-reset", "">>, type |-> type, amount |-> sum, ref |-> u]
       /\ sum \in Nat /\ type \in {"credit", "debit"}
  <2>1. e = Tra!Entry(Tra!ResetKey, type, sum, u)
    BY <1>2, <1>9, <1>10
  <2>2. sum \in Nat
    BY <1>8, <1>10
  <2>3. type \in {"credit", "debit"}
    BY <1>9
  <2> QED
    BY <2>1, <2>2, <2>3 DEF Tra!Entry, Tra!ResetKey
<1>12. <<"local-reset", "">> \in LedgerKeys
  BY DEF LedgerKeys
<1>13. /\ e \in EntryRows /\ e.key = <<"local-reset", "">> /\ e.type = type /\ e.amount = sum
       /\ e.ref = u
  BY <1>12, <1>11 DEF EntryRows
<1>14. Postable(e)
  BY <1>8, <1>11, <1>13 DEF Postable
<1>15. Tra!OfKey(ledger[u], e.key) = {} /\ ledger[u] \cap {e} = {}
  BY <1>4, <1>13 DEF Tra!OfKey, Tra!ResetKey
<1>16. Tra!Effect(e) = delta
  <2>1. /\ type = "credit" => Tra!Effect(e) = sum
        /\ type = "debit" => Tra!Effect(e) = 0 - sum
    BY <1>13, EffectTyped
  <2> QED
    BY <1>8, <1>9, <1>10, <2>1
<1>17. Tra!BalanceOf(ledger[u] \cup {e}) = InitialBalance
  <2>1. IsFiniteSet({e}) /\ {e} \subseteq EntryRows
    BY <1>13, FS_Singleton
  <2>2. Tra!BalanceOf(ledger[u] \cup {e}) = Tra!BalanceOf(ledger[u]) + Tra!BalanceOf({e})
    BY <1>7, <1>15, <2>1, BalanceAdds
  <2>3. Tra!BalanceOf({e}) = delta
    BY <1>13, <1>16, BalanceOfOne
  <2> QED
    BY <1>1, <1>8, <2>2, <2>3
<1>18. Booked(entries)
  <2>1. Tra!BalanceOf(ledger[u] \cup {e}) >= 0
    BY <1>8, <1>17
  <2>2. Booked(ledger[u] \cup {e})
    BY <1>6, <1>14, <1>15, <2>1, EntryBooked
  <2> QED
    BY <1>3, <1>6, <2>2
<1>19. /\ ledger[u] \subseteq entries
       /\ \A x \in entries : x \in ledger[u] \/ x.ref # "settlement"
  BY <1>3, <1>8, <1>13
<1>20. LedgerBooked' /\ PoolPaid' /\ LedgersGrow
  BY <1>4, <1>5, <1>18, <1>19, OneLedgerGrows DEF TradingInv, LedgersGrow
<1>21. position' \in [Accounted -> Holdings]
  BY <1>4 DEF TradingInv, OrdersSound, Tra!NoPosition, Holdings
<1>22. OrdersSound'
  BY <1>4, <1>20, <1>21, OrdersStand DEF TradingInv
<1>23. SettlersSound'
  BY <1>4 DEF TradingInv, SettlersSound
<1> QED
  BY <1>20, <1>22, <1>23 DEF TradingInv
-----------------------------------------------------------------------------
(* Settlement of that time.                                                *)

LEMMA PlanSettlementSound ==
    ASSUME TradingInv, NEW a \in Settlers, Tra!PlanSettlement(a)
    PROVE  TradingInv'
<1>1. UNCHANGED <<ledger, trades, position, order, settlement>>
  BY DEF Tra!PlanSettlement
<1>2. LedgerBooked' /\ PoolPaid' /\ LedgersGrow
  BY <1>1, LedgersStand DEF TradingInv
<1>3. OrdersSound'
  <2>1. position' \in [Accounted -> Holdings]
    BY <1>1 DEF TradingInv, OrdersSound
  <2> QED
    BY <1>1, <1>2, <2>1, OrdersStand DEF TradingInv
<1>4. SettlersSound'
  <2>1. position \in [Accounted -> Holdings]
    BY DEF TradingInv, OrdersSound
  <2>2. settler \in [Settlers -> [step : {"new", "commit", "refused", "settled"},
                                 read : [Accounted -> Holdings] \cup {None}]]
    BY DEF TradingInv, SettlersSound
  <2>3. CASE settler' = [settler EXCEPT ![a] = [step |-> "commit", read |-> position]]
    <3>1. PICK next : next = [step |-> "commit", read |-> position]
      OBVIOUS
    <3>2. /\ next \in [step : {"new", "commit", "refused", "settled"},
                      read : [Accounted -> Holdings] \cup {None}]
          /\ next.read \in [Accounted -> Holdings]
      BY <2>1, <3>1
    <3>3. settler' = [settler EXCEPT ![a] = next]
      BY <2>3, <3>1
    <3> QED
      BY <2>2, <3>2, <3>3 DEF TradingInv, SettlersSound
  <2>4. CASE settler' = [settler EXCEPT ![a] = [step |-> "refused", read |-> None]]
    <3>1. PICK next : next = [step |-> "refused", read |-> None]
      OBVIOUS
    <3>2. /\ next \in [step : {"new", "commit", "refused", "settled"},
                      read : [Accounted -> Holdings] \cup {None}]
          /\ next.step # "commit"
      BY <3>1
    <3>3. settler' = [settler EXCEPT ![a] = next]
      BY <2>4, <3>1
    <3> QED
      BY <2>2, <3>2, <3>3 DEF TradingInv, SettlersSound
  <2> QED
    BY <2>3, <2>4 DEF Tra!PlanSettlement
<1> QED
  BY <1>2, <1>3, <1>4 DEF TradingInv

PayoutsOf(plan) == {p \in DOMAIN plan.payouts : plan.payouts[p] > 0}

PayoutsTo(plan, u) == {Tra!Payout(plan, p) : p \in {q \in PayoutsOf(plan) : q[1] = u}}

LEMMA FiniteImage ==
    ASSUME NEW S, NEW T, NEW phi \in [S -> T], IsFiniteSet(S),
           \A y \in T : \E x \in S : phi[x] = y
    PROVE  IsFiniteSet(T)
<1>1. phi \in Surjection(S, T)
  BY DEF Surjection
<1> QED
  BY <1>1, FS_Surjection

LEMMA PayoutPostable ==
    ASSUME NEW plan, DOMAIN plan.payouts \subseteq Accounted,
           \A p \in DOMAIN plan.payouts : plan.payouts[p] \in Nat,
           NEW p \in PayoutsOf(plan)
    PROVE  /\ Postable(Tra!Payout(plan, p))
           /\ Tra!Payout(plan, p).key = <<"settlement", p[2]>>
           /\ Tra!Payout(plan, p).ref = "settlement"
           /\ Tra!Payout(plan, p).amount = plan.payouts[p]
           /\ Tra!Payout(plan, p).type = "credit"
           /\ p \in Accounted /\ plan.payouts[p] \in Nat
<1>1. p \in Accounted /\ plan.payouts[p] \in Nat
  BY DEF PayoutsOf
<1>2. PICK sum : sum = plan.payouts[p]
  OBVIOUS
<1>3. PICK e : e = Tra!Payout(plan, p)
  OBVIOUS
<1>4. e = [key |-> <<"settlement", p[2]>>, type |-> "credit", amount |-> sum, ref |-> "settlement"]
  BY <1>2, <1>3 DEF Tra!Payout, Tra!Entry
<1>5. <<"settlement", p[2]>> \in LedgerKeys
  BY <1>1 DEF LedgerKeys, Accounted
<1>6. e \in EntryRows
  BY <1>1, <1>2, <1>4, <1>5 DEF EntryRows
<1>7. Postable(e)
  BY <1>4, <1>6 DEF Postable
<1> QED
  BY <1>1, <1>2, <1>3, <1>4, <1>7

\* The payouts to one user are credits of one side each.
LEMMA PayoutsBooked ==
    ASSUME NEW plan, DOMAIN plan.payouts \subseteq Accounted,
           \A p \in DOMAIN plan.payouts : plan.payouts[p] \in Nat,
           NEW u \in Users, NEW entries, Booked(entries),
           \A e \in entries : e.ref # "settlement"
    PROVE  Booked(entries \cup PayoutsTo(plan, u))
<1>1. PICK new : new = PayoutsTo(plan, u)
  OBVIOUS
<1>2. \A e \in new : \E p \in PayoutsOf(plan) : p[1] = u /\ e = Tra!Payout(plan, p)
  BY <1>1 DEF PayoutsTo
<1>3. \A e \in new : Postable(e) /\ e.ref = "settlement" /\ e.type = "credit"
  <2> SUFFICES ASSUME NEW e \in new
               PROVE  Postable(e) /\ e.ref = "settlement" /\ e.type = "credit"
    OBVIOUS
  <2>1. PICK p \in PayoutsOf(plan) : p[1] = u /\ e = Tra!Payout(plan, p)
    BY <1>2
  <2> QED
    BY <2>1, PayoutPostable
<1>4. \A e, f \in new : e.key = f.key => e = f
  <2> SUFFICES ASSUME NEW e \in new, NEW f \in new, e.key = f.key PROVE e = f
    OBVIOUS
  <2>1. PICK p \in PayoutsOf(plan) : p[1] = u /\ e = Tra!Payout(plan, p)
    BY <1>2
  <2>2. PICK q \in PayoutsOf(plan) : q[1] = u /\ f = Tra!Payout(plan, q)
    BY <1>2
  <2>3. p \in Accounted /\ e.key = <<"settlement", p[2]>>
    BY <2>1, PayoutPostable
  <2>4. q \in Accounted /\ f.key = <<"settlement", q[2]>>
    BY <2>2, PayoutPostable
  <2>5. p = q
    BY <2>1, <2>2, <2>3, <2>4 DEF Accounted
  <2> QED
    BY <2>1, <2>2, <2>5
<1>5. IsFiniteSet(new)
  <2>1. PICK mine : mine = {q \in PayoutsOf(plan) : q[1] = u}
    OBVIOUS
  <2>2. mine \subseteq Accounted
    BY <2>1 DEF PayoutsOf
  <2>3. IsFiniteSet(mine)
    BY <2>2, TradingTyped, FS_Subset
  <2>4. new = {Tra!Payout(plan, p) : p \in mine}
    BY <1>1, <2>1 DEF PayoutsTo
  <2>5. PICK phi : phi = [p \in mine |-> Tra!Payout(plan, p)]
    OBVIOUS
  <2>6. phi \in [mine -> new] /\ \A e \in new : \E p \in mine : phi[p] = e
    BY <2>4, <2>5
  <2> QED
    BY <2>3, <2>6, FiniteImage
<1>6. /\ IsFiniteSet(entries) /\ entries \subseteq EntryRows /\ new \subseteq EntryRows
      /\ entries \cap new = {} /\ Tra!BalanceOf(entries) >= 0
  BY <1>3 DEF Booked, Postable
<1>7. Tra!BalanceOf(new) \in Nat
  <2>1. PICK f : f = Effects(new)
    OBVIOUS
  <2>2. /\ Tra!BalanceOf(new) = SumFunctionOnSet(f, new)
        /\ \A e \in new : f[e] = Tra!Effect(e)
    BY <1>5, <1>6, <2>1, BalanceIsSum
  <2>3. \A e \in new : f[e] \in Nat
    <3> SUFFICES ASSUME NEW e \in new PROVE f[e] \in Nat
      OBVIOUS
    <3>1. e \in EntryRows /\ e.type = "credit" /\ e.amount \in Nat
      BY <1>3, <1>6 DEF EntryRows
    <3> QED
      BY <2>2, <3>1, EffectTyped
  <2> QED
    BY <1>5, <2>2, <2>3, SumNonNegative
<1>8. Tra!BalanceOf(entries \cup new) >= 0
  <2>1. Tra!BalanceOf(entries) \in Int
    BY <1>6, BalanceIsSum
  <2>2. Tra!BalanceOf(entries \cup new) = Tra!BalanceOf(entries) + Tra!BalanceOf(new)
    BY <1>5, <1>6, BalanceAdds
  <2> QED
    BY <1>6, <1>7, <2>1, <2>2
<1>9. IsFiniteSet(entries \cup new)
  BY <1>5, <1>6, FS_Union
<1>10. \A e, f \in entries \cup new : e.key = f.key => e = f
  <2>1. \A e \in entries : e.key[1] # "settlement"
    BY DEF Booked, Postable
  <2>2. \A e \in new : e.key[1] = "settlement"
    BY <1>3 DEF Postable
  <2> QED
    BY <1>4, <2>1, <2>2 DEF Booked
<1>11. \A e \in entries \cup new : Postable(e)
  BY <1>3 DEF Booked
<1> QED
  BY <1>1, <1>8, <1>9, <1>10, <1>11 DEF Booked

\* What a plan pays is its pool less its fee, however it is counted.
LEMMA PoolIsPaid ==
    ASSUME NEW plan, DOMAIN plan.payouts \subseteq Accounted,
           \A p \in DOMAIN plan.payouts : plan.payouts[p] \in Nat,
           NEW credited,
           \A c : c \in credited <=> \E p \in PayoutsOf(plan) : c = <<p[1], Tra!Payout(plan, p)>>
    PROVE  SumFunctionOnSet([c \in credited |-> c[2].amount], credited)
               = SumFunctionOnSet(plan.payouts, DOMAIN plan.payouts)
<1>1. PICK h : h = plan.payouts
  OBVIOUS
<1>2. PICK paid : paid = PayoutsOf(plan)
  OBVIOUS
<1>3. PICK unpaid : unpaid = {p \in DOMAIN h : ~(h[p] > 0)}
  OBVIOUS
<1>4. PICK f : f = [c \in credited |-> c[2].amount]
  OBVIOUS
<1>5. PICK phi : phi = [p \in paid |-> <<p[1], Tra!Payout(plan, p)>>]
  OBVIOUS
<1>6. /\ paid \cup unpaid = DOMAIN h /\ paid \cap unpaid = {} /\ paid \subseteq Accounted
      /\ unpaid \subseteq Accounted
  BY <1>1, <1>2, <1>3 DEF PayoutsOf
<1>7. IsFiniteSet(paid) /\ IsFiniteSet(unpaid)
  BY <1>6, TradingTyped, FS_Subset
<1>8. \A p \in paid : /\ p \in Accounted /\ h[p] \in Nat /\ Tra!Payout(plan, p).amount = h[p]
                      /\ Tra!Payout(plan, p).key = <<"settlement", p[2]>>
  BY <1>1, <1>2, PayoutPostable
<1>9. phi \in [paid -> credited] /\ \A c \in credited : \E p \in paid : phi[p] = c
  BY <1>2, <1>5
<1>10. \A p, q \in paid : phi[p] = phi[q] => p = q
  <2> SUFFICES ASSUME NEW p \in paid, NEW q \in paid, phi[p] = phi[q] PROVE p = q
    OBVIOUS
  <2>1. p[1] = q[1] /\ Tra!Payout(plan, p) = Tra!Payout(plan, q)
    BY <1>5
  <2>2. p[2] = q[2]
    BY <1>8, <2>1
  <2> QED
    BY <1>8, <2>1, <2>2 DEF Accounted
<1>11. IsFiniteSet(credited)
  BY <1>7, <1>9, FiniteImage
<1>12. \A p \in paid : h[p] = f[phi[p]]
  BY <1>4, <1>5, <1>8, <1>9
<1>13. \A c \in credited : f[c] \in Int
  <2> SUFFICES ASSUME NEW c \in credited PROVE f[c] \in Int
    OBVIOUS
  <2>1. PICK p \in paid : phi[p] = c
    BY <1>9
  <2> QED
    BY <1>8, <1>12, <2>1
<1>14. SumFunctionOnSet(f, credited) = SumFunctionOnSet(h, paid)
  BY <1>7, <1>9, <1>10, <1>11, <1>12, <1>13, SumReindexed
<1>15. SumFunctionOnSet(h, paid \cup unpaid)
           = SumFunctionOnSet(h, paid) + SumFunctionOnSet(h, unpaid)
  <2>1. \A p \in paid \cup unpaid : h[p] \in Int
    BY <1>1, <1>6
  <2> QED
    BY <1>6, <1>7, <2>1, SumOfUnion
<1>16. SumFunctionOnSet(h, unpaid) = 0
  <2>1. \A p \in unpaid : h[p] = 0
    BY <1>1, <1>3
  <2> QED
    BY <1>7, <2>1, SumOfZeros
<1>17. SumFunctionOnSet(h, paid) \in Int
  <2>1. \A p \in paid : h[p] \in Int
    BY <1>8
  <2> QED
    BY <1>7, <2>1, SumType
<1>18. SumFunctionOnSet(f, credited) = SumFunctionOnSet(h, DOMAIN h)
  <2>1. SumFunctionOnSet(h, DOMAIN h) = SumFunctionOnSet(h, paid \cup unpaid)
    BY <1>6
  <2> QED
    BY <1>14, <1>15, <1>16, <1>17, <2>1
<1> QED
  BY <1>1, <1>4, <1>18

LEMMA CommitSettlementSound ==
    ASSUME TradingInv, NEW a \in Settlers, Tra!CommitSettlement(a)
    PROVE  TradingInv'
<1>1. /\ settler[a].step = "commit" /\ settler[a].read \in [Accounted -> Holdings]
      /\ UNCHANGED <<trades, order>>
  BY DEF TradingInv, SettlersSound, Tra!CommitSettlement
<1>2. SettlersSound'
  BY DEF TradingInv, SettlersSound, Tra!CommitSettlement
<1>3. CASE settlement # None
  <2>1. UNCHANGED <<ledger, position, settlement>>
    BY <1>3 DEF Tra!CommitSettlement
  <2>2. LedgerBooked' /\ PoolPaid' /\ LedgersGrow
    BY <2>1, LedgersStand DEF TradingInv
  <2>3. OrdersSound'
    <3>1. position' \in [Accounted -> Holdings]
      BY <2>1 DEF TradingInv, OrdersSound
    <3> QED
      BY <1>1, <2>2, <3>1, OrdersStand DEF TradingInv
  <2> QED
    BY <1>2, <2>2, <2>3 DEF TradingInv
<1>4. CASE settlement = None
  <2>1. PICK plan : plan = Tra!PlanFor(settler[a].read, OutcomeOf[a])
    OBVIOUS
  <2>2. /\ plan \in Tra!Plans /\ DOMAIN plan.payouts \subseteq Accounted
        /\ SumFunctionOnSet(plan.payouts, DOMAIN plan.payouts) + plan.fee = plan.total
        /\ \A p \in DOMAIN plan.payouts : plan.payouts[p] \in Nat
    BY <1>1, <2>1, PlanPaysPool
  <2>3. /\ settlement' = plan
        /\ ledger' = [u \in Users |-> ledger[u] \cup PayoutsTo(plan, u)]
        /\ position' = [p \in DOMAIN position |-> Tra!NoPosition]
    BY <1>4, <2>1 DEF Tra!CommitSettlement, PayoutsTo, PayoutsOf
  <2>4. \A u \in Users : \A e \in ledger[u] : e.ref # "settlement"
    <3> SUFFICES ASSUME NEW u \in Users, NEW e \in ledger[u], e.ref = "settlement" PROVE FALSE
      OBVIOUS
    <3>1. PICK mine : mine = {<<u, f>> : f \in {x \in ledger[u] : x.ref = "settlement"}}
      OBVIOUS
    <3>2. <<u, e>> \in mine
      BY <3>1
    <3>3. mine \subseteq PoolCredits
      BY <3>1 DEF PoolCredits
    <3> QED
      BY <1>4, <3>2, <3>3 DEF TradingInv, PoolPaid
  <2>5. \A u \in Users : Booked(ledger'[u])
    <3> SUFFICES ASSUME NEW u \in Users PROVE Booked(ledger'[u])
      OBVIOUS
    <3>1. Booked(ledger[u]) /\ \A e \in ledger[u] : e.ref # "settlement"
      BY <2>4 DEF TradingInv, LedgerBooked
    <3>2. Booked(ledger[u] \cup PayoutsTo(plan, u))
      BY <2>2, <3>1, PayoutsBooked
    <3> QED
      BY <2>3, <3>2
  <2>6. LedgerBooked' /\ LedgersGrow
    <3>1. \A u \in Users : ledger'[u] \subseteq EntryRows
      BY <2>5 DEF Booked, Postable
    <3> QED
      BY <2>3, <2>5, <3>1 DEF LedgerBooked, LedgersGrow
  <2>7. PoolPaid'
    <3>1. PICK credited : credited = PoolCredits'
      OBVIOUS
    <3>2. \A u \in Users : \A e : e \in PayoutsTo(plan, u)
              <=> e \in ledger'[u] /\ e.ref = "settlement"
      <4> SUFFICES ASSUME NEW u \in Users, NEW e
                   PROVE  e \in PayoutsTo(plan, u)
                              <=> e \in ledger'[u] /\ e.ref = "settlement"
        OBVIOUS
      <4>1. ASSUME e \in PayoutsTo(plan, u) PROVE e.ref = "settlement"
        <5>1. PICK p \in PayoutsOf(plan) : e = Tra!Payout(plan, p)
          BY <4>1 DEF PayoutsTo
        <5> QED
          BY <2>2, <5>1, PayoutPostable
      <4> QED
        BY <2>3, <2>4, <4>1
    <3>3. \A c : c \in credited <=> \E u \in Users : \E e \in PayoutsTo(plan, u) : c = <<u, e>>
      BY <3>1, <3>2 DEF PoolCredits
    <3>4. \A c : c \in credited <=> \E p \in PayoutsOf(plan) : c = <<p[1], Tra!Payout(plan, p)>>
      <4> SUFFICES ASSUME NEW c
                   PROVE  c \in credited
                              <=> \E p \in PayoutsOf(plan) : c = <<p[1], Tra!Payout(plan, p)>>
        OBVIOUS
      <4>1. ASSUME c \in credited
            PROVE  \E p \in PayoutsOf(plan) : c = <<p[1], Tra!Payout(plan, p)>>
        BY <3>3, <4>1 DEF PayoutsTo
      <4>2. ASSUME NEW p \in PayoutsOf(plan), c = <<p[1], Tra!Payout(plan, p)>>
            PROVE  c \in credited
        <5>1. p \in Accounted
          BY <2>2 DEF PayoutsOf
        <5>2. p[1] \in Users
          BY <5>1 DEF Accounted
        <5>3. Tra!Payout(plan, p) \in PayoutsTo(plan, p[1])
          BY DEF PayoutsTo
        <5> QED
          BY <3>3, <4>2, <5>2, <5>3
      <4> QED
        BY <4>1, <4>2
    <3>5. SumFunctionOnSet([c \in credited |-> c[2].amount], credited)
              = SumFunctionOnSet(plan.payouts, DOMAIN plan.payouts)
      BY <2>2, <3>4, PoolIsPaid
    <3>6. PoolSum' = SumFunctionOnSet(plan.payouts, DOMAIN plan.payouts)
      BY <3>1, <3>5 DEF PoolSum
    <3>7. plan # None
      BY <2>2, TradingTyped
    <3> QED
      BY <2>2, <2>3, <3>6, <3>7 DEF PoolPaid
  <2>8. OrdersSound'
    <3>1. position' \in [Accounted -> Holdings]
      BY <2>3 DEF TradingInv, OrdersSound, Tra!NoPosition, Holdings
    <3> QED
      BY <1>1, <2>6, <3>1, OrdersStand DEF TradingInv
  <2> QED
    BY <1>2, <2>6, <2>7, <2>8 DEF TradingInv
<1> QED
  BY <1>3, <1>4

LEMMA TradingStep ==
    ASSUME TradingInv, [Tra!Next]_(Tra!vars)
    PROVE  TradingInv'
<1>1. CASE UNCHANGED Tra!vars
  <2>1. UNCHANGED <<ledger, trades, position, order, settlement, settler>>
    BY <1>1 DEF Tra!vars
  <2>2. LedgerBooked' /\ PoolPaid' /\ LedgersGrow
    BY <2>1, LedgersStand DEF TradingInv
  <2>3. OrdersSound'
    <3>1. position' \in [Accounted -> Holdings]
      BY <2>1 DEF TradingInv, OrdersSound
    <3> QED
      BY <2>1, <2>2, <3>1, OrdersStand DEF TradingInv
  <2>4. SettlersSound'
    BY <2>1 DEF TradingInv, SettlersSound
  <2> QED
    BY <2>2, <2>3, <2>4 DEF TradingInv
<1>2. CASE \E o \in Orders : Tra!Place(o)
  <2>1. PICK o \in Orders : Tra!Place(o)
    BY <1>2
  <2>2. CASE Tra!ReadState(o)
    BY <2>2, ReadStateSound
  <2>3. CASE Tra!Quote(o)
    BY <2>3, QuoteSound
  <2>4. CASE Tra!CommitTrade(o)
    BY <2>4, CommitTradeSound
  <2>5. CASE \E filled \in BOOLEAN, fee \in {0, VenueFee} : Tra!Execute(o, filled, fee)
    BY <2>5, ExecuteSound
  <2> QED
    BY <2>1, <2>2, <2>3, <2>4, <2>5 DEF Tra!Place
<1>3. CASE \E u \in Users : Tra!Reset(u)
  BY <1>3, ResetSound
<1>4. CASE \E a \in Settlers : Tra!Settle(a)
  BY <1>4, PlanSettlementSound, CommitSettlementSound DEF Tra!Settle
<1> QED
  BY <1>1, <1>2, <1>3, <1>4 DEF Tra!Next

LEMMA TradingStarts ==
    ASSUME Tra!Init
    PROVE  TradingInv
<1>1. \A u \in Users : Booked({})
  <2>1. IsFiniteSet({}) /\ {} \subseteq EntryRows
    BY FS_EmptySet
  <2>2. PICK f : f = Effects({})
    OBVIOUS
  <2>3. Tra!BalanceOf({}) = SumFunctionOnSet(f, {})
    BY <2>1, <2>2, BalanceIsSum
  <2>4. Tra!BalanceOf({}) = 0
    BY <2>3, SumOfNone
  <2> QED
    BY <2>1, <2>4 DEF Booked
<1>2. LedgerBooked
  BY <1>1 DEF Tra!Init, LedgerBooked
<1>3. \A u \in Users : {f \in ledger[u] : f.ref = "settlement"} = {}
  BY DEF Tra!Init
<1>4. PoolCredits = {}
  BY <1>3 DEF PoolCredits
<1>5. PoolPaid
  BY <1>4 DEF Tra!Init, PoolPaid
<1>6. OrdersSound
  <2>1. [step |-> "new", read |-> None, trade |-> None, fee |-> 0] \in OrderRows
    BY DEF OrderRows
  <2>2. Tra!NoPosition \in Holdings
    BY DEF Tra!NoPosition, Holdings
  <2> QED
    BY <2>1, <2>2 DEF Tra!Init, OrdersSound, OrderSound, Accounted
<1>7. SettlersSound
  BY DEF Tra!Init, SettlersSound
<1> QED
  BY <1>2, <1>5, <1>6, <1>7 DEF TradingInv

LEMMA TradingIsSound ==
    ASSUME TradingInv
    PROVE  LegacyTradingSound
<1>1. Tra!LegacyTradesPaid
  <2>1. \A u \in Users : /\ Tra!BalanceOf(ledger[u]) >= 0
                         /\ \A e, f \in ledger[u] : e.key = f.key => e = f
    BY DEF TradingInv, LedgerBooked, Booked
  <2>2. \A t \in trades : \E e \in Tra!OfKey(ledger[t.user], <<"order", t.key>>) :
                              e.ref = t.id /\ e.amount = t.amount
    <3> SUFFICES ASSUME NEW t \in trades
                 PROVE  \E e \in Tra!OfKey(ledger[t.user], <<"order", t.key>>) :
                            e.ref = t.id /\ e.amount = t.amount
      OBVIOUS
    <3>1. PICK e \in ledger[t.user] :
              e.key = <<"order", t.key>> /\ e.ref = t.id /\ e.amount = t.amount
      BY DEF TradingInv, OrdersSound, TradePaid
    <3> QED
      BY <3>1 DEF Tra!OfKey
  <2>3. \A o \in Orders : order[o].step = "answered" =>
            \E e \in Tra!OfKey(ledger[OwnerOf[o]], Tra!OrderKey(o)) : e.ref = order[o].trade.id
    <3> SUFFICES ASSUME NEW o \in Orders, order[o].step = "answered"
                 PROVE  \E e \in Tra!OfKey(ledger[OwnerOf[o]], Tra!OrderKey(o)) :
                            e.ref = order[o].trade.id
      OBVIOUS
    <3>1. PICK e \in ledger[OwnerOf[o]] :
              e.key = <<"order", KeyOf[o]>> /\ e.ref = order[o].trade.id
      BY DEF TradingInv, OrdersSound, OrderSound, AnswerPaid
    <3> QED
      BY <3>1 DEF Tra!OfKey, Tra!OrderKey
  <2> QED
    BY <2>1, <2>2, <2>3 DEF Tra!LegacyTradesPaid
<1>2. Tra!LegacyPoolPaidOut
  <2>1. PICK f : f = [c \in PoolCredits |-> c[2].amount]
    OBVIOUS
  <2>2. Tra!SumFunctionOnSet(f, PoolCredits) = PoolSum
    BY <2>1, SameSum DEF PoolSum
  <2> QED
    BY <2>1, <2>2 DEF TradingInv, PoolPaid, PoolCredits, Tra!LegacyPoolPaidOut
<1> QED
  BY <1>1, <1>2 DEF LegacyTradingSound

\* LegacyTradingSound: for any number of users, orders and settlement calls, balances
\* stay above zero, keys are used once, trades and answers have their ledger entry,
\* and what the settlement credits with its fee is exactly the pool.
THEOREM LegacyTradingAlwaysSound == Spec => []LegacyTradingSound
<1>1. Tra!Init => TradingInv
  BY TradingStarts
<1>2. TradingInv /\ [Tra!Next]_(Tra!vars) => TradingInv'
  BY TradingStep
<1>3. TradingInv => LegacyTradingSound
  BY TradingIsSound
<1> QED
  BY <1>1, <1>2, <1>3, EveryComponentRuns, PTL DEF Tra!Spec

-----------------------------------------------------------------------------
(* Amounts.  Whatever integers are formatted and stored, at the scales the *)
(* runs use: an instance of the theorems of MoneyProofs.                   *)

AmountsTyped == amount \in Int /\ part \in Int

LEMMA SmallPowers == PowerOf10(2) = 100 /\ PowerOf10(3) = 1000
<1>1. PowerOf10(0 + 1) = 10
  BY PowerStep
<1>2. PowerOf10(1 + 1) = 100
  BY <1>1, PowerStep
<1>3. PowerOf10(2 + 1) = 1000
  BY <1>2, PowerStep
<1> QED
  BY <1>2, <1>3

LEMMA EveryAmountComesBack == AmountsTyped => DecimalRoundTrip
<1> SUFFICES ASSUME AmountsTyped PROVE DecimalRoundTrip
  OBVIOUS
<1>1. PICK value \in Int : value = amount * MaxAmount - part
  BY DEF AmountsTyped
<1>2. FormattedParses
  <2>1. PICK d : d = FormatAtomic(value, 3)
    OBVIOUS
  <2>2. Parsable(d, 3) /\ ParseDecimalToAtomic(d, 3) = value
    BY <2>1, FormattedAlwaysParses
  <2> QED
    BY <1>1, <2>1, <2>2 DEF FormattedParses
<1>3. StoredValueIsNeverCut
  <2>1. PICK size \in Nat : size = IF value < 0 THEN -value ELSE value
    <3>1. CASE value < 0
      <4>1. -value \in Nat
        BY <3>1
      <4> QED
        BY <3>1, <4>1
    <3>2. CASE ~(value < 0)
      <4>1. value \in Nat
        BY <3>2
      <4> QED
        BY <3>2, <4>1
    <3> QED
      BY <3>1, <3>2
  <2>2. (IF value < 0 THEN -1 ELSE 1) * value = size
    BY <2>1
  <2> DEFINE written == [negative |-> value < 0, whole |-> size \div 1000,
                         fraction |-> Digits(size % 1000, 3)]
  <2> HIDE DEF written
  <2>3. PICK d : d = written
    OBVIOUS
  <2>4. d = [negative |-> value < 0, whole |-> size \div PowerOf10(2 + 1),
             fraction |-> Digits(size % PowerOf10(2 + 1), 2 + 1)]
    BY <2>3, SmallPowers DEF written
  <2>5. StoredParsable(d, 2) => ParseStoredDecimalToAtomic(d, 2) * 10 = value
    BY <2>1, <2>4, StoredIsNeverCut
  <2> QED
    BY <1>1, <2>2, <2>3, <2>5 DEF StoredValueIsNeverCut, written
<1> QED
  BY <1>2, <1>3 DEF DecimalRoundTrip

\* DecimalRoundTrip: whatever amount is formatted parses as itself, and a stored
\* decimal with a digit too many keeps its value or is refused.
THEOREM DecimalsAlwaysRoundTrip == Spec => []DecimalRoundTrip
<1>1. Init => AmountsTyped
  BY DEF Init, AmountsTyped
<1>2. AmountsTyped /\ [Next]_vars => AmountsTyped'
  <2> SUFFICES ASSUME AmountsTyped, [Next]_vars PROVE AmountsTyped'
    OBVIOUS
  <2>1. Count \/ UNCHANGED money
    BY DEF Next, vars, people, RunAccounts, RunCompliance, RunLimit, RunMoney, RunWallet,
           RunTrading, RunStore, RunCache, RunRates, RunEvents, Change, RunHttp, RunAccount,
           RunTicket, RunList, Navigate
  <2> QED
    BY <2>1 DEF Count, money, AmountsTyped
<1>3. AmountsTyped => DecimalRoundTrip
  BY EveryAmountComesBack
<1> QED
  BY <1>1, <1>2, <1>3, PTL DEF Spec

-----------------------------------------------------------------------------
(* The stored copy of a market.  While a place of a known market is empty, *)
(* a collector is still to come past it and will find it empty, unless it  *)
(* was cut off: it is about to delete them all, or has only empty places   *)
(* between the one it inserts next and this one.  Who deleted last finds   *)
(* its own outcomes in the places behind it.                               *)

CollectorStages == {"fetch", "upsert", "delete", "insert", "snapshot", "saved", "refused"}

Fills(c, i) ==
    \/ doing[c].at = "delete"
    \/ /\ doing[c].at = "insert" /\ doing[c].next <= i
       /\ \A j \in Store!Places : doing[c].next <= j /\ j <= i => outcomeRows[j] = None

Keeps(c) ==
    /\ doing[c].at \in {"insert", "snapshot", "saved", "refused"}
    /\ doing[c].at = "insert" => \A i \in Store!Places : i < doing[c].next => outcomeRows[i] = c
    /\ doing[c].at \in {"snapshot", "saved"} => \A i \in Store!Places : outcomeRows[i] = c

StoreInv ==
    /\ known \in BOOLEAN /\ outcomeRows \in [Store!Places -> Collectors \cup {None}]
    /\ doing \in [Collectors -> [at : CollectorStages, next : Store!Places]]
    /\ \A s \in snapshots : s.named
    /\ \A c \in Collectors : doing[c].at \in {"delete", "insert", "snapshot"} => known
    /\ \A i \in Store!Places : known /\ outcomeRows[i] = None => \E c \in Collectors : Fills(c, i)
    /\ \A c \in Collectors : emptiedBy = c => Keeps(c)

LEMMA StoreInit ==
    ASSUME Store!MarketStoreAssumption, Store!Init PROVE StoreInv
<1>1. doing = [c \in Collectors |-> [at |-> "fetch", next |-> 1]]
  BY DEF Store!Init, Store!Step
<1>2. 1 \in Store!Places
  BY DEF Store!Places, Store!MarketStoreAssumption
<1>3. doing \in [Collectors -> [at : CollectorStages, next : Store!Places]]
  BY <1>1, <1>2 DEF CollectorStages
<1>4. \A c \in Collectors : doing[c].at = "fetch"
  BY <1>1
<1>5. outcomeRows \in [Store!Places -> Collectors \cup {None}]
  BY DEF Store!Init
<1> QED
  BY <1>3, <1>4, <1>5 DEF Store!Init, StoreInv, Store!MarketStoreAssumption

\* A collector that fills nothing moves on to where it fills nothing either.
LEMMA IdleStep ==
    ASSUME StoreInv, NEW c \in Collectors, Store!Fetch(c) \/ Store!SaveSnapshot(c) PROVE StoreInv'
<1>1. /\ known' = known /\ outcomeRows' = outcomeRows /\ emptiedBy' = emptiedBy
      /\ \A s \in snapshots' : s.named
  BY DEF Store!Fetch, Store!SaveSnapshot, Store!At, StoreInv
<1>2. doing' \in [Collectors -> [at : CollectorStages, next : Store!Places]]
  BY DEF Store!Fetch, Store!SaveSnapshot, Store!At, StoreInv, CollectorStages
<1>3. \A d \in Collectors \ {c} : doing'[d] = doing[d]
  BY DEF Store!Fetch, Store!SaveSnapshot, Store!At, StoreInv
<1>4. \/ doing[c].at = "fetch" /\ doing'[c].at \in {"upsert", "refused"}
      \/ doing[c].at = "snapshot" /\ doing'[c].at = "saved"
  BY DEF Store!Fetch, Store!SaveSnapshot, Store!At, StoreInv
<1>5. \A d \in Collectors, i \in Store!Places : Fills(d, i) => Fills(d, i)'
  BY <1>1, <1>3, <1>4 DEF Fills
<1>6. \A d \in Collectors : emptiedBy = d => Keeps(d)'
  BY <1>1, <1>3, <1>4 DEF Keeps, StoreInv
<1> QED
  BY <1>1, <1>2, <1>3, <1>4, <1>5, <1>6 DEF StoreInv

\* Who is cut off stays where it was, and so does what it inserted.
LEMMA CutOffStep ==
    ASSUME StoreInv, NEW c \in Collectors, Store!CutOff(c) PROVE StoreInv'
BY DEF Store!CutOff, StoreInv, Fills, Keeps

LEMMA UpsertStep ==
    ASSUME StoreInv, NEW c \in Collectors, Store!UpsertMarket(c) PROVE StoreInv'
<1>1. /\ known' = TRUE /\ outcomeRows' = outcomeRows /\ snapshots' = snapshots
      /\ emptiedBy' = emptiedBy /\ doing[c].at = "upsert" /\ doing'[c].at = "delete"
      /\ doing' \in [Collectors -> [at : CollectorStages, next : Store!Places]]
  BY DEF Store!UpsertMarket, Store!At, StoreInv, CollectorStages
<1>2. \A d \in Collectors \ {c} : doing'[d] = doing[d]
  BY DEF Store!UpsertMarket, StoreInv
<1>3. \A d \in Collectors : emptiedBy = d => Keeps(d)'
  BY <1>1, <1>2 DEF Keeps, StoreInv
<1> QED
  BY <1>1, <1>2, <1>3 DEF StoreInv, Fills

LEMMA DeleteStep ==
    ASSUME Store!MarketStoreAssumption, StoreInv, NEW c \in Collectors, Store!DeleteOutcomes(c)
    PROVE  StoreInv'
<1>1. /\ known /\ known' = known /\ snapshots' = snapshots /\ emptiedBy' = c
      /\ outcomeRows' = [i \in Store!Places |-> None]
  BY DEF Store!DeleteOutcomes, Store!At, StoreInv
<1>2. /\ doing' \in [Collectors -> [at : CollectorStages, next : Store!Places]]
      /\ doing'[c].at = "insert" /\ doing'[c].next = 1
  BY DEF Store!DeleteOutcomes, StoreInv, Store!Step, CollectorStages, Store!Places, Store!MarketStoreAssumption
<1>3. \A i \in Store!Places : Fills(c, i)'
  BY <1>1, <1>2 DEF Fills, Store!Places, Store!MarketStoreAssumption
<1>4. Keeps(c)'
  BY <1>2 DEF Keeps, Store!Places, Store!MarketStoreAssumption
<1>5. \A d \in Collectors \ {c} : doing'[d] = doing[d]
  BY DEF Store!DeleteOutcomes, StoreInv
<1> QED
  BY <1>1, <1>2, <1>3, <1>4, <1>5 DEF StoreInv

\* Whoever fills a place overtakes the others that were to come past it: they
\* will be refused there, and what lies behind it is the overtaker's to fill.
LEMMA InsertStep ==
    ASSUME Store!MarketStoreAssumption, StoreInv, NEW c \in Collectors, Store!InsertOutcome(c)
    PROVE  StoreInv'
<1> DEFINE i == doing[c].next
<1>1. /\ doing[c].at = "insert" /\ i \in Store!Places /\ known
      /\ known' = known /\ snapshots' = snapshots /\ emptiedBy' = emptiedBy
  BY DEF Store!InsertOutcome, Store!At, StoreInv
<1>2. \A d \in Collectors \ {c} : doing'[d] = doing[d]
  BY DEF Store!InsertOutcome, Store!Insert, Store!After, StoreInv
<1>3. doing' \in [Collectors -> [at : CollectorStages, next : Store!Places]]
  <2>1. PICK next : next = Store!After(i)
    OBVIOUS
  <2>2. next \in [at : CollectorStages, next : Store!Places]
    BY <1>1, <2>1 DEF Store!After, Store!Step, CollectorStages, Store!Places, Store!MarketStoreAssumption
  <2>3. \/ doing' = [doing EXCEPT ![c] = next]
        \/ doing' = [doing EXCEPT ![c].at = "refused"]
    BY <2>1 DEF Store!InsertOutcome, Store!Insert
  <2> QED
    BY <2>2, <2>3 DEF StoreInv, CollectorStages
<1>4. outcomeRows' \in [Store!Places -> Collectors \cup {None}]
  BY DEF Store!InsertOutcome, Store!Insert, StoreInv
<1>5. ASSUME NEW j \in Store!Places, outcomeRows'[j] = None PROVE \E d \in Collectors : Fills(d, j)'
  <2>1. outcomeRows[j] = None
    BY <1>1, <1>5 DEF Store!InsertOutcome, Store!Insert, StoreInv, Store!MarketStoreAssumption
  <2>2. PICK d \in Collectors : Fills(d, j)
    BY <1>1, <2>1 DEF StoreInv
  <2>3. CASE outcomeRows[i] # None
    <3>1. outcomeRows' = outcomeRows
      BY <2>3 DEF Store!InsertOutcome, Store!Insert
    <3>2. d # c
      BY <1>1, <2>2, <2>3 DEF Fills, Store!Places, Store!MarketStoreAssumption
    <3> QED
      BY <1>2, <2>2, <3>1, <3>2 DEF Fills
  <2>4. CASE outcomeRows[i] = None
    <3>1. /\ outcomeRows' = [outcomeRows EXCEPT ![i] = c]
          /\ doing' = [doing EXCEPT ![c] = Store!After(i)]
      BY <2>4 DEF Store!InsertOutcome, Store!Insert
    <3>2. j # i /\ outcomeRows'[j] = outcomeRows[j]
      BY <1>1, <1>5, <3>1 DEF StoreInv, Store!MarketStoreAssumption
    <3>3. CASE doing[d].at = "insert" /\ doing[d].next <= i /\ i <= j
      <4>1. i # Outcomes /\ doing'[c].at = "insert" /\ doing'[c].next = i + 1
        BY <1>1, <3>1, <3>2, <3>3 DEF Store!After, Store!Step, StoreInv, Store!Places, Store!MarketStoreAssumption
      <4>2. \A k \in Store!Places : i + 1 <= k /\ k <= j => outcomeRows'[k] = None
        BY <1>1, <2>2, <3>1, <3>3 DEF Fills, StoreInv, Store!Places, Store!MarketStoreAssumption
      <4> QED
        BY <1>1, <3>2, <3>3, <4>1, <4>2 DEF Fills, Store!Places, Store!MarketStoreAssumption
    <3>4. CASE ~(doing[d].at = "insert" /\ doing[d].next <= i /\ i <= j)
      <4>1. d # c
        BY <1>1, <2>2, <3>4 DEF Fills, StoreInv, Store!Places, Store!MarketStoreAssumption
      <4>2. \A k \in Store!Places : k # i => outcomeRows'[k] = outcomeRows[k]
        BY <3>1 DEF StoreInv
      <4> QED
        BY <1>1, <1>2, <2>2, <3>4, <4>1, <4>2 DEF Fills, StoreInv, Store!Places, Store!MarketStoreAssumption
    <3> QED
      BY <3>3, <3>4
  <2> QED
    BY <2>3, <2>4
<1>6. ASSUME NEW d \in Collectors, emptiedBy = d PROVE Keeps(d)'
  <2>1. Keeps(d)
    BY <1>6 DEF StoreInv
  <2>2. CASE outcomeRows[i] # None
    BY <1>1, <1>2, <2>1, <2>2 DEF Keeps, Store!InsertOutcome, Store!Insert, StoreInv
  <2>3. CASE outcomeRows[i] = None
    <3>1. /\ outcomeRows' = [outcomeRows EXCEPT ![i] = c]
          /\ doing' = [doing EXCEPT ![c] = Store!After(i)]
      BY <2>3 DEF Store!InsertOutcome, Store!Insert
    <3>2. CASE d = c
      BY <1>1, <2>1, <3>1, <3>2
         DEF Keeps, Store!After, Store!Step, StoreInv, Store!Places, Store!MarketStoreAssumption
    <3>3. CASE d # c
      <4>1. /\ doing[d].at = "insert" => i >= doing[d].next
            /\ doing[d].at \notin {"snapshot", "saved"}
        BY <1>1, <2>1, <2>3, <3>3 DEF Keeps, StoreInv, Store!Places, Store!MarketStoreAssumption
      <4> QED
        BY <1>1, <1>2, <2>1, <3>1, <3>3, <4>1 DEF Keeps, StoreInv, Store!Places, Store!MarketStoreAssumption
    <3> QED
      BY <3>2, <3>3
  <2> QED
    BY <2>2, <2>3
<1> QED
  BY <1>1, <1>2, <1>3, <1>4, <1>5, <1>6 DEF StoreInv

\* Any number of collections of a market of any number of outcomes, however they
\* overlap and wherever they are refused or cut off, leave an outcome missing only
\* where one is still to insert it or was cut off before it did; and a collection
\* that deleted last and ended put every outcome there.
THEOREM StoreAlwaysAsCollected == Spec => []Store!StoredAsCollected
<1>0. Store!MarketStoreAssumption
  OBVIOUS
<1>1. Store!Init => StoreInv
  BY <1>0, StoreInit
<1>2. StoreInv /\ [Store!Next]_(Store!storeVars) => StoreInv'
  <2>1. StoreInv /\ UNCHANGED Store!storeVars => StoreInv'
    BY DEF StoreInv, Store!storeVars, Fills, Keeps
  <2> QED
    BY <1>0, <2>1, IdleStep, UpsertStep, DeleteStep, InsertStep, CutOffStep DEF Store!Next
<1>3. StoreInv => Store!StoredAsCollected
  BY DEF StoreInv, Store!StoredAsCollected, Store!StillToFill, Fills, Keeps
<1> QED
  BY <1>1, <1>2, <1>3, EveryServiceRuns, PTL DEF Store!Spec

-----------------------------------------------------------------------------
(* The dollar rate of a quote, from the provider's digits to its last use. *)

LEMMA DigitsAreDigits ==
    ASSUME Rates!RateQuotesAssumption, NEW text \in Said, NEW i \in Nat \ {0}
    PROVE  Rates!Digit(text.fraction, i) \in 0 .. 9
<1>1. text.fraction \in Seq(0 .. 9)
  BY DEF Rates!RateQuotesAssumption
<1> QED
  BY <1>1 DEF Rates!Digit

\* Reading the digits one by one ends in a natural number.
LEMMA NanosIsNat ==
    ASSUME Rates!RateQuotesAssumption, NEW text \in Said
    PROVE  Rates!Nanos(text) \in Nat
<1> DEFINE R == RateDigits
           w == text.whole
           D(i) == Rates!Digit(text.fraction, i)
           Reads(g) == g = [i \in 0 .. R |-> IF i = 0 THEN w ELSE 10 * g[i - 1] + D(i)]
<1>1. R \in Nat /\ w \in Nat
  BY DEF Rates!RateQuotesAssumption
<1>2. \A i \in 1 .. R : D(i) \in Nat
  BY <1>1, DigitsAreDigits
<1> HIDE DEF R, w, D
<1>3. \E g \in [0 .. R -> Nat] : Reads(g)
  <2> DEFINE ReadTo(g, m) == g[0] = w /\ \A i \in 1 .. m : g[i] = 10 * g[i - 1] + D(i)
             S == {m \in 0 .. R : \E g \in [0 .. R -> Nat] : ReadTo(g, m)}
  <2>1. 0 \in S
    <3>1. PICK g \in [0 .. R -> Nat] : g = [i \in 0 .. R |-> w]
      BY <1>1
    <3>2. ReadTo(g, 0)
      BY <1>1, <3>1
    <3> HIDE DEF ReadTo
    <3> QED
      BY <1>1, <3>2
  <2>2. ASSUME NEW m \in 1 .. R, m - 1 \in S
        PROVE  m \in S
    <3>1. PICK g \in [0 .. R -> Nat] : ReadTo(g, m - 1)
      BY <2>2
    <3>2. PICK v \in Nat : v = 10 * g[m - 1] + D(m)
      <4>1. m - 1 \in 0 .. R
        BY <1>1
      <4> QED
        BY <1>2, <4>1
    <3>3. PICK h \in [0 .. R -> Nat] : h[m] = v /\ \A i \in 0 .. (m - 1) : h[i] = g[i]
      <4>1. PICK h \in [0 .. R -> Nat] : h = [g EXCEPT ![m] = v]
        BY <1>1
      <4>2. h[m] = v /\ \A i \in 0 .. (m - 1) : h[i] = g[i]
        BY <1>1, <4>1
      <4> QED
        BY <4>2
    <3>4. ReadTo(h, m)
      <4>1. h[0] = w
        BY <3>1, <3>3, <1>1
      <4>2. ASSUME NEW i \in 1 .. m PROVE h[i] = 10 * h[i - 1] + D(i)
        <5>1. CASE i = m
          BY <3>2, <3>3, <5>1, <1>1
        <5>2. CASE i # m
          <6>1. i \in 1 .. (m - 1) /\ i \in 0 .. (m - 1) /\ i - 1 \in 0 .. (m - 1)
            BY <5>2, <1>1
          <6> QED
            BY <3>1, <3>3, <6>1
        <5> QED
          BY <5>1, <5>2
      <4> QED
        BY <4>1, <4>2
    <3> HIDE DEF ReadTo
    <3> QED
      BY <3>4
  <2>3. R \in S
    <3> HIDE DEF S
    <3> QED
      BY <1>1, <2>1, <2>2, UpTo
  <2>4. PICK g \in [0 .. R -> Nat] : ReadTo(g, R)
    BY <2>3
  <2>5. Reads(g)
    <3>1. ASSUME NEW i \in 0 .. R PROVE g[i] = IF i = 0 THEN w ELSE 10 * g[i - 1] + D(i)
      BY <2>4, <1>1
    <3> QED
      BY <3>1
  <2> QED
    BY <2>5
<1> DEFINE value == CHOOSE g : Reads(g)
<1>4. Reads(value)
  <2> HIDE DEF Reads
  <2> QED
    BY <1>3
<1>5. Rates!Nanos(text) = value[R]
  BY DEF Rates!Nanos, R, w, D
<1>6. 0 .. R \subseteq {i \in 0 .. R : value[i] \in Nat}
  <2> HIDE DEF value
  <2> DEFINE T == {i \in 0 .. R : value[i] \in Nat}
  <2>1. value[0] \in Nat
    BY <1>1, <1>4
  <2>2. ASSUME NEW i \in 1 .. R, value[i - 1] \in Nat
        PROVE  value[i] \in Nat
    <3>1. value[i] = 10 * value[i - 1] + D(i)
      BY <1>1, <1>4
    <3> QED
      BY <1>2, <2>2, <3>1
  <2>3. 0 \in T /\ \A i \in 1 .. R : i - 1 \in T => i \in T
    BY <1>1, <2>1, <2>2
  <2> HIDE DEF T
  <2>4. 0 .. R \subseteq T
    BY <1>1, <2>3, UpTo
  <2> QED
    BY <2>4 DEF T
<1> HIDE DEF value
<1> QED
  BY <1>1, <1>5, <1>6

\* A rate is within half a unit of what the provider said.
LEMMA RateIsRounded ==
    ASSUME Rates!RateQuotesAssumption, NEW text \in Said
    PROVE  /\ Rates!ParseProviderUsdRate(text) \in Nat
           /\ 10 * Rates!ParseProviderUsdRate(text) - Rates!Exact(text) \in -4 .. 5
<1>1. RateDigits + 1 \in Nat \ {0}
  BY DEF Rates!RateQuotesAssumption
<1>2. Rates!Nanos(text) \in Nat /\ Rates!Digit(text.fraction, RateDigits + 1) \in 0 .. 9
  BY <1>1, NanosIsNat, DigitsAreDigits
<1> QED
  BY <1>2 DEF Rates!ParseProviderUsdRate, Rates!Exact

\* What a quote still is when it is used, and when it was used.
Promised(q) ==
    /\ q.purpose = ask.purpose /\ q.amount = ask.amount
    /\ q.said \in Said /\ q.rate = Rates!ParseProviderUsdRate(q.said) /\ q.rate > 0
    /\ q.quotedAt \in Nat /\ q.expiresAt = q.quotedAt + Ttl

RatesInv ==
    /\ rateNow \in Nat
    /\ DOMAIN ask = {"stage", "purpose", "amount", "since", "quote", "usedAt", "usedFor"}
    /\ ask = [stage |-> ask.stage, purpose |-> ask.purpose, amount |-> ask.amount, since |-> ask.since,
              quote |-> ask.quote, usedAt |-> ask.usedAt, usedFor |-> ask.usedFor]
    /\ ask.stage \in {"quoted", "stored"} => Promised(ask.quote) /\ ask.quote.quotedAt <= rateNow
    /\ ask.stage = "used" =>
           /\ Promised(ask.quote) /\ ask.usedFor = ask.amount
           /\ ask.purpose # "withdrawal_final" =>
                  ask.usedAt \in ask.quote.quotedAt .. (ask.quote.quotedAt + Ttl - 1)

LEMMA RatesStep ==
    ASSUME Rates!RateQuotesAssumption, RatesInv, [Rates!Next]_(Rates!vars)
    PROVE  RatesInv'
<1>0. Ttl \in Nat \ {0}
  BY DEF Rates!RateQuotesAssumption
<1>a. ASSUME NEW stage, stage \notin {"quoted", "used"}, Rates!Ended(stage), rateNow' = rateNow,
             stage = "stored" => ask.stage = "quoted"
      PROVE  RatesInv'
  <2>1. /\ ask'.stage = stage /\ ask'.purpose = ask.purpose /\ ask'.amount = ask.amount
        /\ ask'.quote = ask.quote /\ DOMAIN ask' = DOMAIN ask
        /\ ask' = [stage |-> stage, purpose |-> ask.purpose, amount |-> ask.amount, since |-> ask.since,
                   quote |-> ask.quote, usedAt |-> ask.usedAt, usedFor |-> ask.usedFor]
    BY <1>a DEF Rates!Ended, RatesInv
  <2> QED
    BY <1>a, <2>1 DEF RatesInv, Promised
<1>b. ASSUME NEW usdt, Rates!Used(usdt), rateNow' = rateNow, usdt = ask.amount,
             ask.stage \in {"quoted", "stored"},
             ask.purpose # "withdrawal_final" => rateNow < ask.quote.expiresAt
      PROVE  RatesInv'
  <2>1. /\ ask'.stage = "used" /\ ask'.purpose = ask.purpose /\ ask'.amount = ask.amount
        /\ ask'.quote = ask.quote /\ DOMAIN ask' = DOMAIN ask
        /\ ask'.usedFor = usdt /\ ask'.usedAt = rateNow
        /\ ask' = [stage |-> "used", purpose |-> ask.purpose, amount |-> ask.amount, since |-> ask.since,
                   quote |-> ask.quote, usedAt |-> rateNow, usedFor |-> usdt]
    BY <1>b DEF Rates!Used, RatesInv
  <2>2. ask.quote.quotedAt \in Nat /\ ask.quote.quotedAt <= rateNow /\ rateNow \in Nat
        /\ ask.quote.expiresAt = ask.quote.quotedAt + Ttl
    BY <1>b DEF RatesInv, Promised
  <2>3. ask.purpose # "withdrawal_final" =>
            rateNow \in ask.quote.quotedAt .. (ask.quote.quotedAt + Ttl - 1)
    BY <1>0, <1>b, <2>2
  <2> QED
    BY <1>b, <2>1, <2>3 DEF RatesInv, Promised
<1>1. CASE Rates!Tick
  BY <1>1, <1>0 DEF Rates!Tick, RatesInv, Promised
<1>2. ASSUME NEW purpose, NEW usdt, Rates!GetUsdQuote(purpose, usdt)
      PROVE  RatesInv'
  <2>1. /\ rateNow' = rateNow /\ ask'.stage = "asked" /\ DOMAIN ask' = DOMAIN ask
        /\ ask' = [stage |-> ask'.stage, purpose |-> ask'.purpose, amount |-> ask'.amount,
                   since |-> ask'.since, quote |-> ask'.quote, usedAt |-> ask'.usedAt,
                   usedFor |-> ask'.usedFor]
    BY <1>2 DEF Rates!GetUsdQuote, RatesInv
  <2> QED
    BY <2>1 DEF RatesInv
<1>3. CASE Rates!Answered
  BY <1>a, <1>3 DEF Rates!Answered
<1>4. CASE Rates!Unavailable
  BY <1>a, <1>4 DEF Rates!Unavailable
<1>5. ASSUME NEW text \in Said, Rates!Answer(text)
      PROVE  RatesInv'
  <2>1. CASE Rates!Ended("refused")
    BY <1>5, <1>a, <2>1 DEF Rates!Answer
  <2>2. CASE ~Rates!Ended("refused")
    <3>1. PICK q : q = Rates!Quoted(text)
      OBVIOUS
    <3>2. /\ ask' = [ask EXCEPT !.stage = "quoted", !.quote = q]
          /\ Rates!ParseProviderUsdRate(text) > 0 /\ rateNow' = rateNow
      BY <1>5, <2>2, <3>1 DEF Rates!Answer
    <3>3. /\ q.purpose = ask.purpose /\ q.amount = ask.amount /\ q.said = text
          /\ q.rate = Rates!ParseProviderUsdRate(text)
          /\ q.quotedAt = rateNow /\ q.expiresAt = rateNow + Ttl
      BY <3>1 DEF Rates!Quoted
    <3>4. /\ ask'.stage = "quoted" /\ ask'.purpose = ask.purpose /\ ask'.amount = ask.amount
          /\ ask'.quote = q /\ DOMAIN ask' = DOMAIN ask
          /\ ask' = [stage |-> "quoted", purpose |-> ask.purpose, amount |-> ask.amount,
                     since |-> ask.since, quote |-> q, usedAt |-> ask.usedAt, usedFor |-> ask.usedFor]
      BY <3>2 DEF RatesInv
    <3>5. rateNow \in Nat
      BY DEF RatesInv
    <3>6. Promised(ask.quote)' /\ ask'.quote.quotedAt <= rateNow'
      BY <3>2, <3>3, <3>4, <3>5 DEF Promised
    <3> QED
      BY <3>2, <3>4, <3>5, <3>6 DEF RatesInv
  <2> QED
    BY <2>1, <2>2
<1>6. ASSUME NEW usdt, Rates!CreditDeposit(usdt)
      PROVE  RatesInv'
  <2>1. CASE Rates!Creditable(usdt)
    <3>1. /\ ask.quote.amount = usdt /\ rateNow < ask.quote.expiresAt
      BY <2>1 DEF Rates!Creditable, Rates!ValidateUsdQuote
    <3>2. Rates!Used(usdt) /\ rateNow' = rateNow /\ ask.stage = "quoted"
      BY <1>6, <2>1 DEF Rates!CreditDeposit
    <3>3. usdt = ask.amount
      BY <3>1, <3>2 DEF RatesInv, Promised
    <3> QED
      BY <1>b, <3>1, <3>2, <3>3
  <2>2. CASE ~Rates!Creditable(usdt)
    BY <1>6, <1>a, <2>2 DEF Rates!CreditDeposit
  <2> QED
    BY <2>1, <2>2
<1>7. CASE Rates!StoreWithdrawalQuote
  BY <1>a, <1>7 DEF Rates!StoreWithdrawalQuote
<1>8. CASE Rates!ConfirmWithdrawal
  <2>1. CASE ask.quote.expiresAt <= rateNow
    BY <1>8, <1>a, <2>1 DEF Rates!ConfirmWithdrawal
  <2>2. CASE ~(ask.quote.expiresAt <= rateNow)
    <3>1. ask.quote.expiresAt \in Int /\ rateNow \in Int
      BY <1>0, <1>8 DEF Rates!ConfirmWithdrawal, RatesInv, Promised
    <3>2. rateNow < ask.quote.expiresAt
      BY <2>2, <3>1
    <3> QED
      BY <1>8, <1>b, <2>2, <3>2 DEF Rates!ConfirmWithdrawal
  <2> QED
    BY <2>1, <2>2
<1>9. CASE Rates!CompareOutcome
  BY <1>9, <1>b DEF Rates!CompareOutcome
<1>10. CASE UNCHANGED Rates!vars
  BY <1>10 DEF Rates!vars, RatesInv, Promised
<1> QED
  BY <1>1, <1>2, <1>3, <1>4, <1>5, <1>6, <1>7, <1>8, <1>9, <1>10 DEF Rates!Next

\* For any digits a provider may send, any lifetime and time-out: a deposit is
\* credited and a withdrawal confirmed only at a positive rate that was asked for
\* it, is within its lifetime and half a unit from what was said
\* (exchangeRates.ts, coinWallets.ts).
THEOREM RatesAlwaysFresh == Spec => []RatesUsedAreFresh
<1>0. Rates!RateQuotesAssumption
  OBVIOUS
<1>1. Rates!Init => RatesInv
  BY DEF Rates!Init, Rates!Idle, RatesInv
<1>2. RatesInv /\ [Rates!Next]_(Rates!vars) => RatesInv'
  BY <1>0, RatesStep
<1>3. ASSUME RatesInv
      PROVE  RatesUsedAreFresh
  <2> SUFFICES ASSUME ask.stage = "used"
               PROVE  /\ ask.quote.purpose = ask.purpose /\ ask.quote.amount = ask.usedFor
                      /\ ask.quote.rate > 0
                      /\ 10 * ask.quote.rate - Rates!Exact(ask.quote.said) \in -4 .. 5
                      /\ ask.purpose # "withdrawal_final" =>
                             ask.usedAt \in ask.quote.quotedAt .. (ask.quote.quotedAt + Ttl - 1)
    BY DEF RatesUsedAreFresh, Rates!RatesUsedAreFresh
  <2>1. Promised(ask.quote)
    BY <1>3 DEF RatesInv
  <2>2. 10 * ask.quote.rate - Rates!Exact(ask.quote.said) \in -4 .. 5
    BY <1>0, <2>1, RateIsRounded DEF Promised
  <2> QED
    BY <1>3, <2>1, <2>2 DEF RatesInv, Promised
<1> QED
  BY <1>1, <1>2, <1>3, EveryServiceRuns, PTL

-----------------------------------------------------------------------------
(* The notifications of the custody provider: a payload is stored under    *)
(* its own id or, for good, as a conflict with whoever has that id.        *)

KeptUnder(e) ==
    \/ e.id = Events!ProviderEventId(e.payload)
    \/ /\ e.id = Events!ConflictId(e.payload)
       /\ \E f \in stored : f.id = Events!ProviderEventId(e.payload) /\ f.payload # e.payload

EventsInv ==
    /\ \A e \in stored : e = [id |-> e.id, payload |-> e.payload] /\ KeptUnder(e)
    /\ \A e, f \in stored : e.id = f.id => e = f
    /\ \A p \in committed : \E e \in stored : e.payload = p

LEMMA IdsDiffer ==
    ASSUME NEW p, NEW q
    PROVE  /\ Events!ConflictId(p) # Events!ProviderEventId(q)
           /\ Events!ConflictId(p) = Events!ConflictId(q) => p = q
<1>1. PICK i, j : i = Events!ProviderEventId(p) /\ j = Events!ProviderEventId(q)
  OBVIOUS
<1>2. j[1] \in {"event", "unidentified"}
  BY <1>1 DEF Events!ProviderEventId
<1>3. Events!ConflictId(p) = <<"conflict", i, p>> /\ Events!ConflictId(q) = <<"conflict", j, q>>
  BY <1>1 DEF Events!ConflictId
<1> QED
  BY <1>1, <1>2, <1>3

\* A row that was inserted under a free id, or was there before.
LEMMA InsertKeepsEvents ==
    ASSUME EventsInv, NEW p, NEW id, stored' = Events!Inserted(id, p), committed' = committed \cup {p},
           id \in Events!Ids => \E e \in stored : e.payload = p,
           \/ id = Events!ProviderEventId(p)
           \/ /\ id = Events!ConflictId(p)
              /\ \E f \in stored : f.id = Events!ProviderEventId(p) /\ f.payload # p
    PROVE  EventsInv'
<1>1. CASE id \in Events!Ids
  <2>1. stored' = stored
    BY <1>1 DEF Events!Inserted
  <2> QED
    BY <1>1, <2>1 DEF EventsInv, KeptUnder
<1>2. CASE id \notin Events!Ids
  <2>1. PICK new : new = [id |-> id, payload |-> p]
    OBVIOUS
  <2>2. stored' = stored \cup {new} /\ new.id = id /\ new.payload = p
    BY <1>2, <2>1 DEF Events!Inserted
  <2>3. \A e \in stored : e.id # id
    BY <1>2 DEF Events!Ids
  <2>4. \A e \in stored' : e = [id |-> e.id, payload |-> e.payload]
    BY <2>1, <2>2 DEF EventsInv
  <2>5. \A e \in stored : KeptUnder(e)'
    BY <2>2 DEF EventsInv, KeptUnder
  <2>6. KeptUnder(new)'
    BY <2>2 DEF KeptUnder
  <2>7. \A e, f \in stored' : e.id = f.id => e = f
    BY <2>2, <2>3 DEF EventsInv
  <2>8. \A q \in committed' : \E e \in stored' : e.payload = q
    BY <2>2 DEF EventsInv
  <2> QED
    BY <2>2, <2>4, <2>5, <2>6, <2>7, <2>8 DEF EventsInv
<1> QED
  BY <1>1, <1>2

LEMMA EventsStep ==
    ASSUME EventsInv, [Events!Next]_(Events!vars)
    PROVE  EventsInv'
<1>1. ASSUME NEW p, Events!Process(p)
      PROVE  EventsInv'
  <2>1. CASE Events!Conflicts(p)
    <3>1. /\ stored' = Events!Inserted(Events!ConflictId(p), p) /\ committed' = committed \cup {p}
          /\ \E f \in stored : f.id = Events!ProviderEventId(p) /\ f.payload # p
      BY <1>1, <2>1 DEF Events!Process, Events!Conflicts
    <3>2. ASSUME NEW e \in stored, e.id = Events!ConflictId(p)
          PROVE  e.payload = p
      <4>1. e.id # Events!ProviderEventId(e.payload)
        BY <3>2, IdsDiffer
      <4>2. e.id = Events!ConflictId(e.payload)
        BY <4>1 DEF EventsInv, KeptUnder
      <4> QED
        BY <3>2, <4>2, IdsDiffer
    <3>3. Events!ConflictId(p) \in Events!Ids => \E e \in stored : e.payload = p
      BY <3>2 DEF Events!Ids
    <3> QED
      BY <3>1, <3>3, InsertKeepsEvents
  <2>2. CASE ~Events!Conflicts(p)
    <3>1. /\ stored' = Events!Inserted(Events!ProviderEventId(p), p) /\ committed' = committed \cup {p}
          /\ \A f \in stored : f.id = Events!ProviderEventId(p) => f.payload = p
      BY <1>1, <2>2 DEF Events!Process, Events!Conflicts
    <3>2. Events!ProviderEventId(p) \in Events!Ids => \E e \in stored : e.payload = p
      BY <3>1 DEF Events!Ids
    <3> QED
      BY <3>1, <3>2, InsertKeepsEvents
  <2> QED
    BY <2>1, <2>2
<1>2. CASE UNCHANGED Events!vars
  BY <1>2 DEF Events!vars, EventsInv, KeptUnder
<1> QED
  BY <1>1, <1>2 DEF Events!Next, Events!Deliver

LEMMA PayloadsToldApart == Events!TransfersToldApart
<1>1. ASSUME NEW p \in Notices, NEW q \in Notices, Events!Where(p) = Events!Where(q)
      PROVE  \/ p.hash # None /\ p.hash = q.hash /\ p.index # None /\ p.index = q.index
             \/ Events!ProviderEventId(p) = Events!ProviderEventId(q)
  <2>1. /\ Events!Coordinate(p, p.hash) = Events!Coordinate(q, q.hash)
        /\ Events!Coordinate(p, p.index) = Events!Coordinate(q, q.index)
    BY <1>1 DEF Events!Where
  <2>2. ASSUME NEW v, NEW w, Events!Coordinate(p, v) = Events!Coordinate(q, w)
        PROVE  \/ v # None /\ v = w
               \/ Events!ProviderEventId(p) = Events!ProviderEventId(q)
    <3>1. PICK i, j : i = Events!ProviderEventId(p) /\ j = Events!ProviderEventId(q)
      OBVIOUS
    <3>2. /\ Events!Coordinate(p, v) = IF v # None THEN <<"chain", v, None>> ELSE <<"missing", i, None>>
          /\ Events!Coordinate(q, w) = IF w # None THEN <<"chain", w, None>> ELSE <<"missing", j, None>>
      BY <3>1 DEF Events!Coordinate, Events!Missing
    <3>3. CASE v # None /\ w # None
      <4>1. <<"chain", v, None>> = <<"chain", w, None>>
        BY <2>2, <3>2, <3>3
      <4>2. v = w
        BY <4>1
      <4> QED
        BY <3>3, <4>2
    <3>4. CASE v = None /\ w = None
      <4>1. <<"missing", i, None>> = <<"missing", j, None>>
        BY <2>2, <3>2, <3>4
      <4>2. i = j
        BY <4>1
      <4> QED
        BY <3>1, <4>2
    <3>5. <<"chain", v, None>> # <<"missing", j, None>> /\ <<"missing", i, None>> # <<"chain", w, None>>
      OBVIOUS
    <3> QED
      BY <2>2, <3>2, <3>3, <3>4, <3>5
  <2> QED
    BY <2>1, <2>2
<1>2. ASSUME NEW p \in Notices, Events!Creditable(p)
      PROVE  /\ {p.hash, p.index, p.contract, p.destination} \cap {None} = {}
             /\ Events!ProviderEventId(p)[2] # None
             /\ Events!CalculateNetUsdt(p) \in 0 .. p.gross
  <2> DEFINE issues ==
        {<<"INVALID_GROSS_USDT_AMOUNT", Events!GrossIssue(p.gross)>>,
         <<"INVALID_NETWORK_FEE", Events!FeeIssue(p.networkFee)>>,
         <<"INVALID_PROVIDER_FEE", Events!FeeIssue(p.providerFee)>>,
         <<"EVENT_INDEX_REQUIRED", p.index = None>>,
         <<"TX_HASH_REQUIRED", p.hash = None>>,
         <<"INVALID_DESTINATION_ADDRESS", p.destination \in {None, "malformed"}>>,
         <<"TOKEN_CONTRACT_REQUIRED", p.contract = None>>,
         <<"PROVIDER_EVENT_ID_REQUIRED", Events!ProviderEventId(p)[1] = "unidentified">>,
         <<"UNSUPPORTED_ASSET", p.asset # "USDT">>,
         <<"UNSUPPORTED_NETWORK", p.network # "TRON">>,
         <<"USDT_CONTRACT_NOT_CONFIGURED", Contract = None>>,
         <<"TOKEN_CONTRACT_MISMATCH", Contract # None /\ p.contract # Contract>>}
  <2>1. \A i \in issues : ~i[2]
    BY <1>2, Zenon DEF Events!Creditable, Events!ValidationIssues
  <2>2. /\ ~Events!GrossIssue(p.gross) /\ p.index # None /\ p.hash # None
        /\ p.destination \notin {None, "malformed"} /\ p.contract # None
        /\ Events!ProviderEventId(p)[1] # "unidentified"
    BY <2>1
  <2>3. p.gross \in Nat \ {0}
    BY <2>2 DEF Events!GrossIssue
  <2>4. Events!ProviderEventId(p)[2] # None
    BY <2>2 DEF Events!ProviderEventId
  <2>5. Events!Amount(p.gross) = p.gross
        /\ Events!Amount(p.networkFee) \in Nat /\ Events!Amount(p.providerFee) \in Nat
    BY <2>3 DEF Events!Amount
  <2>6. Events!CalculateNetUsdt(p) \in 0 .. p.gross
    BY <2>3, <2>5 DEF Events!CalculateNetUsdt
  <2> QED
    BY <2>2, <2>4, <2>6
<1> QED
  BY <1>1, <1>2 DEF Events!TransfersToldApart

\* For any payloads and deliveries, repeated and in any order: what was acted upon
\* is stored once, two transfers are never taken for one, and what a rate is asked
\* for names all of its transfer (storeProviderEvent and parseFireblocksDeposit of
\* coinWallets.ts).
THEOREM NotificationsAlwaysKept == Spec => []NotificationsKept
<1>1. Events!Init => EventsInv
  BY DEF Events!Init, EventsInv
<1>2. EventsInv /\ [Events!Next]_(Events!vars) => EventsInv'
  BY EventsStep
<1>3. ASSUME EventsInv
      PROVE  Events!EveryPayloadKept
  <2> SUFFICES ASSUME NEW e \in stored, NEW f \in stored, e.payload = f.payload
               PROVE  e = f
    BY <1>3 DEF Events!EveryPayloadKept, EventsInv
  <2> DEFINE p == e.payload
  <2>1. ASSUME NEW g \in stored, NEW h \in stored, g.payload = h.payload,
               g.id = Events!ProviderEventId(g.payload)
        PROVE  g = h
    BY <1>3, <2>1 DEF EventsInv, KeptUnder
  <2>2. CASE e.id = Events!ConflictId(p) /\ f.id = Events!ConflictId(p)
    BY <1>3, <2>2 DEF EventsInv
  <2> QED
    BY <1>3, <2>1, <2>2 DEF EventsInv, KeptUnder
<1>4. EventsInv => NotificationsKept
  BY <1>3, PayloadsToldApart DEF NotificationsKept
<1> QED
  BY <1>1, <1>2, <1>4, EveryServiceRuns, PTL

-----------------------------------------------------------------------------
(* The configuration: when real money moves, and what an accepted          *)
(* environment is started with.  Both are about functions, so that there   *)
(* is no behaviour in these theorems.                                      *)

\* What is configured on or off; anything else is any value.
SwitchesSet(e) ==
    /\ {e.database, e.redis, e.ca, e.secret, e.origins, e.cronSecret, e.webhook} \subseteq BOOLEAN
    /\ {e.contract, e.depositCredits, e.withdrawals, e.trading, e.worker, e.drain} \subseteq BOOLEAN
    /\ {e.cutover, e.testDatabase} \subseteq BOOLEAN
    /\ {e.ssl, e.cookieSecure} \subseteq BOOLEAN \cup {None}

EnvironmentKept(e, marker) ==
    /\ Ready!AcceptedConfigIsKept(e, marker)
    /\ ~Ready!GetConfigRefuses(e) => ~Ready!RealRuntime(Ready!GetConfig(e), [status |-> "verified"])

\* Whatever is set in the environment, a configuration that getConfig accepts is
\* one the server starts with, keeps and reports ready; and it moves no real money
\* (config.ts, app.ts, coinFeatures.ts, the guard of the production cutover).
THEOREM AnyEnvironmentKept ==
    ASSUME Ready!ReadinessAssumption, NEW e, SwitchesSet(e), NEW marker
    PROVE  EnvironmentKept(e, marker)
<1> SUFFICES ASSUME ~Ready!GetConfigRefuses(e)
             PROVE  /\ Ready!AcceptedConfigIsKept(e, marker)
                    /\ ~Ready!RealRuntime(Ready!GetConfig(e), [status |-> "verified"])
  BY DEF EnvironmentKept, Ready!AcceptedConfigIsKept
<1>0. /\ e.database \in BOOLEAN /\ e.origins \in BOOLEAN /\ e.cronSecret \in BOOLEAN /\ e.contract \in BOOLEAN
      /\ e.depositCredits \in BOOLEAN /\ e.withdrawals \in BOOLEAN /\ e.trading \in BOOLEAN
      /\ e.worker \in BOOLEAN /\ e.drain \in BOOLEAN /\ e.cutover \in BOOLEAN /\ e.webhook \in BOOLEAN
      /\ e.ssl \in BOOLEAN \cup {None} /\ e.cookieSecure \in BOOLEAN \cup {None}
  BY DEF SwitchesSet
<1> DEFINE c == Ready!GetConfig(e)
           app == Ready!BuildApp(c)
           features == Ready!BuildCoinFeatures(c)
<1>1. /\ Ready!OrElse(e.appMode, "local") = "local" /\ ~Ready!RateLimitRefused(e)
      /\ ~Ready!FeatureGateRefuses(e) /\ ~Ready!OutboxRefused(e)
      /\ ~Ready!CutoverRefused(e) /\ ~Ready!ProductionRefused(e)
  BY DEF Ready!GetConfigRefuses
<1>2. /\ c.appMode = "local" /\ c.nodeEnv = Ready!OrElse(e.nodeEnv, "development")
      /\ c.productionDeployment = (Ready!Production(e) \/ e.vercel = "production")
      /\ c.database = e.database /\ c.databaseSsl = Ready!DatabaseSsl(e)
      /\ c.rateLimit = Ready!RateLimitBackend(e) /\ c.cookieSecure = Ready!CookieSecure(e)
      /\ c.origins = e.origins
      /\ c.admin = (IF e.admin = None /\ ~Ready!Production(e) THEN "default" ELSE e.admin)
  BY <1>1 DEF Ready!GetConfig
<1>3. /\ c.depositCredits = e.depositCredits /\ c.withdrawals = e.withdrawals /\ c.trading = e.trading
      /\ c.webhook = e.webhook /\ c.depositProvider = e.depositProvider
      /\ c.rates = Ready!OrElse(e.rates, "disabled") /\ c.contract = e.contract
      /\ c.worker = e.worker /\ c.drain = e.drain /\ c.delivery = Ready!OrElse(e.delivery, "disabled")
      /\ c.cutover = e.cutover /\ c.cronSecret = e.cronSecret
  BY DEF Ready!GetConfig
<1> HIDE DEF c
<1>4. c.nodeEnv = "production" <=> Ready!Production(e)
  BY <1>2 DEF Ready!OrElse, Ready!Production, Ready!ReadinessAssumption
<1>5. Ready!Production(e) =>
          /\ e.database /\ c.cookieSecure /\ e.origins /\ c.rateLimit # "memory" /\ c.admin # "default"
  BY <1>1, <1>2 DEF Ready!ProductionRefused
<1>6. e.worker \/ e.drain => e.database /\ c.delivery = "structured_log"
  BY <1>1, <1>3 DEF Ready!OutboxRefused, Ready!OrElse, Ready!ReadinessAssumption
<1>7. e.drain => e.cronSecret
  BY <1>1 DEF Ready!OutboxRefused
<1>8. e.cutover => /\ Ready!Production(e) /\ e.vercel = "production" /\ e.database
                   /\ c.databaseSsl /\ e.cronSecret
  BY <1>1, <1>2 DEF Ready!CutoverRefused
<1>9. ~Ready!BuildAppRefuses(c) /\ Ready!ConfigurationReady(c) /\ Ready!PreflightPasses(e)
  <2>1. ~Ready!BuildAppRefuses(c)
    BY <1>0, <1>2, <1>3, <1>4, <1>5, <1>6 DEF Ready!BuildAppRefuses
  <2>2. Ready!ConfigurationReady(c)
    BY <1>2, <1>4, <1>5 DEF Ready!ConfigurationReady
  <2> QED
    BY <2>1, <2>2 DEF Ready!PreflightPasses
<1>10. /\ features.deposits = (Ready!DepositBlock(c, FALSE) = None)
       /\ features.withdrawals = (Ready!WithdrawalBlock(c) = None)
  BY DEF Ready!BuildCoinFeatures
<1>11. /\ e.depositCredits => features.deposits
       /\ e.withdrawals => features.withdrawals
  <2>1. /\ e.depositCredits => Ready!BuildCoinFeatures(e).deposits
        /\ e.withdrawals => Ready!BuildCoinFeatures(e).withdrawals
    BY <1>1 DEF Ready!FeatureGateRefuses
  <2>2. e.withdrawals => Ready!WithdrawalBlock(e) = None
    BY <2>1 DEF Ready!BuildCoinFeatures
  <2>3. Ready!DepositBlock(e, FALSE) # None
    BY DEF Ready!DepositBlock, Ready!ReadinessAssumption
  <2>4. ~e.depositCredits
    BY <2>1, <2>3 DEF Ready!BuildCoinFeatures
  <2>5. e.withdrawals => e.rates = "coinbase"
    BY <2>2 DEF Ready!WithdrawalBlock, Ready!ReadinessAssumption
  <2>6. e.withdrawals => Ready!WithdrawalBlock(c) = None
    BY <1>3, <2>5 DEF Ready!WithdrawalBlock, Ready!OrElse, Ready!ReadinessAssumption
  <2> QED
    BY <1>10, <2>4, <2>6
<1>12. /\ app.persistent = e.database /\ app.outboxWorker = (e.worker \/ e.drain)
       /\ app.cronRoute = e.drain /\ app.cutoverRoute = e.cutover
  BY <1>2, <1>3 DEF Ready!BuildApp
<1> HIDE DEF app, features
<1>13. app.cutoverRoute /\ Ready!GuardRuns(e, marker) => e.target = marker.fingerprint
  BY DEF Ready!GuardRuns, Ready!GuardRefuses
<1>14. app.cronRoute => Ready!CronAuthorized(c, [bearer |-> TRUE])
  BY <1>3, <1>7, <1>12 DEF Ready!CronAuthorized
<1>15. PICK post : post = [method |-> "POST", url |-> "cutover", signed |-> FALSE, bearer |-> TRUE]
  OBVIOUS
<1>16. app.cutoverRoute = (Ready!PassesCsrf(c, TRUE, post) /\ Ready!CutoverAuthorized(c, e.vercel, post))
  BY <1>0, <1>3, <1>8, <1>12, <1>15
     DEF Ready!PassesCsrf, Ready!CutoverAuthorized, Ready!CronAuthorized
<1>17. Ready!AcceptedConfigIsKept(e, marker)
  <2>1. app.outboxWorker => app.persistent
    BY <1>6, <1>12
  <2>2. Ready!Production(e) => app.persistent /\ c.rateLimit # "memory" /\ c.admin # "default"
    BY <1>5, <1>12
  <2>3. app.cutoverRoute => app.persistent /\ c.databaseSsl /\ c.productionDeployment
    BY <1>2, <1>8, <1>12
  <2> QED
    BY <1>9, <1>11, <1>13, <1>14, <1>15, <1>16, <2>1, <2>2, <2>3, Zenon
       DEF Ready!AcceptedConfigIsKept, c, app, features
<1>18. ~Ready!RealRuntime(Ready!GetConfig(e), [status |-> "verified"])
  BY <1>2 DEF Ready!RealRuntime, c
<1> QED
  BY <1>17, <1>18

\* What is switched on or off in a deployment.
DeploymentSet(c) == {c.productionDeployment, c.webhook, c.manualApproval} \subseteq BOOLEAN

LEMMA ClassifiedCredits ==
    ASSUME NEW p, NEW e, Ready!IsBalanceCredit(e), Ready!PolicyAllowsEntry(p, e),
           \A s \in Ready!LocalSources \cup {"unknown_balance_credit"} : ~Ready!LedgerAllows(p, s)
    PROVE  Ready!ClassifySource(e) \in Ready!RealSources
<1>1. Ready!ClassifySource(e) \in
          Ready!LocalSources \cup Ready!RealSources \cup {"unknown_balance_credit"}
  BY DEF Ready!ClassifySource, Ready!LocalSources, Ready!RealSources
<1> QED
  BY <1>1 DEF Ready!PolicyAllowsEntry

LEMMA VerifiedInfrastructure ==
    ASSUME NEW c, NEW reg, Ready!BuildRealMoneyInfrastructure(c, reg).status = "verified",
           NEW code \in Ready!Codes
    PROVE  Ready!FindVerified(reg, code, Ready!ProviderOf(c, code))
<1> DEFINE status == [k \in Ready!Codes |-> Ready!RequirementStatus(c, reg, k)]
<1>1. PICK all : all = {status[k] : k \in Ready!Codes}
  OBVIOUS
<1>2. Ready!BuildRealMoneyInfrastructure(c, reg).status =
          IF "invalid" \in all THEN "invalid"
          ELSE IF all = {"missing"} THEN "not_configured"
          ELSE IF all = {"verified"} THEN "verified"
          ELSE "declared_unverified"
  BY <1>1 DEF Ready!BuildRealMoneyInfrastructure
<1>3. all = {"verified"}
  BY <1>2
<1>4. Ready!RequirementStatus(c, reg, code) = "verified"
  BY <1>1, <1>3
<1> QED
  BY <1>4 DEF Ready!RequirementStatus

LEMMA SoundIsVerified ==
    ASSUME NEW reg, NEW i \in Ready!Sound(reg)
    PROVE  reg[i].verified
<1>1. Ready!AdapterIssues(reg[i]) = {}
  BY DEF Ready!Sound
<1>2. ~reg[i].verified => "ADAPTER_NOT_VERIFIED" \in Ready!AdapterIssues(reg[i])
  BY Zenon DEF Ready!AdapterIssues
<1> QED
  BY <1>1, <1>2

\* Verified adapters of one requirement and one provider, said in two ways.
LEMMA MatchingIsSameKey ==
    ASSUME NEW reg, NEW code, NEW provider
    PROVE  Ready!Matching(reg, code, provider) =
               {j \in Ready!Sound(reg) : Ready!SameKey(reg[j], [code |-> code, provider |-> provider])}
BY SoundIsVerified DEF Ready!Matching, Ready!SameKey

\* For any deployment, registry, ledger policy and entries: without blockers real
\* money and only real money moves; with any of it, every provider is verified by
\* one adapter and no local source of balances is left; and a production ledger
\* accepts credits of real sources only (moneyMovement.ts, trading.ts, ledger.ts,
\* realMoneyProviderAdapters.ts).
THEOREM AnyDeploymentRealMoneyOnly ==
    ASSUME Ready!ReadinessAssumption, NEW c, NEW reg, NEW p, NEW entries, DeploymentSet(c)
    PROVE  Ready!RealMoneyOnly(c, reg, p, entries)
<1> DEFINE movement == Ready!BuildMoneyMovement(c, reg)
           trading == Ready!BuildTradingMode(c, reg)
           infra == Ready!BuildRealMoneyInfrastructure(c, reg)
<1>1. /\ movement.realMoney = Ready!RealRuntime(c, infra)
      /\ movement.localWebhook = Ready!LocalSurface(c, c.webhook)
      /\ movement.manualApproval = Ready!LocalSurface(c, c.manualApproval)
  BY DEF Ready!BuildMoneyMovement
<1>2. /\ trading.realMoney = (Ready!RealRuntime(c, infra) /\ Ready!BuildLaunchApproval(c).approved)
      /\ trading.simulated = (~trading.realMoney /\ ~Ready!SimulationBlocked(c))
  BY DEF Ready!BuildTradingMode
<1> HIDE DEF movement, trading, infra
<1>3. ASSUME Ready!Blockers(c, reg, p) = {}
      PROVE  /\ movement.realMoney /\ trading.realMoney
             /\ \A e \in entries : Ready!IsBalanceCredit(e) /\ Ready!PolicyAllowsEntry(p, e) =>
                    Ready!ClassifySource(e) \in Ready!RealSources
  <2>1. /\ Ready!MoneyMovementBlockers(movement) = {} /\ Ready!TradingBlockers(trading) = {}
        /\ Ready!LedgerBlockers(p) = {}
    BY <1>3 DEF Ready!Blockers, movement, trading
  <2>2. movement.realMoney
    BY <2>1 DEF Ready!MoneyMovementBlockers
  <2>3. trading.realMoney
    BY <2>1 DEF Ready!TradingBlockers
  <2>4. \A s \in Ready!LocalSources \cup {"unknown_balance_credit"} : ~Ready!LedgerAllows(p, s)
    BY <2>1 DEF Ready!LedgerBlockers
  <2> QED
    BY <2>2, <2>3, <2>4, ClassifiedCredits
<1>4. ASSUME movement.realMoney \/ trading.realMoney
      PROVE  /\ ~movement.localWebhook /\ ~movement.manualApproval /\ ~trading.simulated
             /\ Ready!UncoveredCodes(reg) = {}
             /\ \A code \in Ready!Codes : \E i \in Ready!Sound(reg) :
                    {j \in Ready!Sound(reg) :
                        Ready!SameKey(reg[j], [code |-> code, provider |-> Ready!ProviderOf(c, code)])} = {i}
  <2>1. c.appMode = "real_money" /\ Ready!IsProduction(c) /\ infra.status = "verified"
    BY <1>1, <1>2, <1>4 DEF Ready!RealRuntime, Ready!IsProduction
  <2>2. ~movement.localWebhook /\ ~movement.manualApproval
    BY <1>1, <2>1 DEF Ready!LocalSurface
  <2>3. Ready!SimulationBlocked(c)
    BY <2>1 DEF Ready!SimulationBlocked, Ready!ReadinessAssumption
  <2>4. ASSUME NEW code \in Ready!Codes
        PROVE  \E i \in Ready!Sound(reg) :
                   /\ reg[i].code = code
                   /\ {j \in Ready!Sound(reg) :
                          Ready!SameKey(reg[j], [code |-> code, provider |-> Ready!ProviderOf(c, code)])} = {i}
    <3>1. Ready!FindVerified(reg, code, Ready!ProviderOf(c, code))
      BY <2>1, VerifiedInfrastructure DEF infra
    <3>2. PICK i \in DOMAIN reg : Ready!Matching(reg, code, Ready!ProviderOf(c, code)) = {i}
      BY <3>1 DEF Ready!FindVerified
    <3>3. i \in Ready!Sound(reg) /\ reg[i].code = code
      BY <3>2 DEF Ready!Matching
    <3> QED
      BY <3>2, <3>3, MatchingIsSameKey
  <2>5. Ready!UncoveredCodes(reg) = {}
    BY <2>4 DEF Ready!UncoveredCodes
  <2> QED
    BY <1>2, <2>2, <2>3, <2>4, <2>5
<1>5. ASSUME Ready!Audit(reg) = {}, NEW code \in Ready!Codes
      PROVE  \E i \in DOMAIN reg : Ready!FindVerified(reg, code, reg[i].provider)
  <2>1. Ready!UncoveredCodes(reg) = {} /\ Ready!RegistryIssues(reg) = {}
    BY <1>5 DEF Ready!Audit
  <2>2. PICK i \in Ready!Sound(reg) : reg[i].code = code
    BY <2>1 DEF Ready!UncoveredCodes
  <2>3. ASSUME NEW j \in Ready!Sound(reg) \ {i}
        PROVE  ~Ready!SameKey(reg[i], reg[j])
    BY <2>1 DEF Ready!RegistryIssues
  <2>4. Ready!Matching(reg, code, reg[i].provider) = {i}
    BY <2>2, <2>3, SoundIsVerified DEF Ready!Matching, Ready!SameKey
  <2>5. i \in DOMAIN reg
    BY DEF Ready!Sound
  <2> QED
    BY <2>4, <2>5 DEF Ready!FindVerified
<1>6. ASSUME Ready!IsProduction(p), NEW e \in entries, Ready!IsBalanceCredit(e), Ready!PolicyAllowsEntry(p, e)
      PROVE  Ready!ClassifySource(e) \in Ready!RealSources
  <2>1. \A s \in Ready!LocalSources \cup {"unknown_balance_credit"} : ~Ready!LedgerAllows(p, s)
    BY <1>6 DEF Ready!LedgerAllows, Ready!LocalCredit, Ready!LocalSources, Ready!RealSources
  <2> QED
    BY <1>6, <2>1, ClassifiedCredits
<1> QED
  BY <1>3, <1>4, <1>5, <1>6 DEF Ready!RealMoneyOnly, movement, trading

\* What behaviours set keeps the switches of a deployment, and of an environment,
\* on or off.
DeploymentSwitches == {"productionDeployment", "webhook", "manualApproval"}
EnvSwitches ==
    {"database", "redis", "ca", "secret", "origins", "cronSecret", "webhook", "contract",
     "depositCredits", "withdrawals", "trading", "worker", "drain", "cutover", "testDatabase"}
EnvFlags == {"ssl", "cookieSecure"}

ConfigInv ==
    /\ focus = "deployment" =>
           /\ DeploymentSwitches \subseteq DOMAIN config
           /\ \A f \in DeploymentSwitches : config[f] \in BOOLEAN
    /\ focus = "environment" =>
           /\ EnvSwitches \cup EnvFlags \subseteq DOMAIN config
           /\ \A f \in EnvSwitches : config[f] \in BOOLEAN
           /\ \A f \in EnvFlags : config[f] \in BOOLEAN \cup {None}

LEMMA ConfigInit == Init => ConfigInv
<1> SUFFICES ASSUME Init PROVE ConfigInv
  OBVIOUS
<1>1. CASE focus = "deployment"
  <2>1. config = LiveDeployment \/ config = LocalDeployment
    BY <1>1 DEF Init
  <2>2. /\ DeploymentSwitches \subseteq DOMAIN LiveDeployment
        /\ \A f \in DeploymentSwitches : LiveDeployment[f] \in BOOLEAN
    BY DEF LiveDeployment, DeploymentSwitches
  <2>3. /\ DOMAIN LocalDeployment = DOMAIN LiveDeployment
        /\ \A f \in DeploymentSwitches : LocalDeployment[f] \in {LiveDeployment[f], FALSE}
    <3> HIDE DEF LiveDeployment
    <3> QED
      BY <2>2 DEF LocalDeployment, DeploymentSwitches
  <2> QED
    BY <1>1, <2>1, <2>2, <2>3 DEF ConfigInv
<1>2. CASE focus = "environment"
  <2>1. config = ProductionEnv \/ config = DevelopmentEnv
    BY <1>2 DEF Init
  <2>2. /\ EnvSwitches \cup EnvFlags \subseteq DOMAIN ProductionEnv
        /\ \A f \in EnvSwitches : ProductionEnv[f] \in BOOLEAN
        /\ \A f \in EnvFlags : ProductionEnv[f] \in BOOLEAN \cup {None}
    BY DEF ProductionEnv, EnvSwitches, EnvFlags
  <2>3. /\ EnvSwitches \cup EnvFlags \subseteq DOMAIN DevelopmentEnv
        /\ \A f \in EnvSwitches : DevelopmentEnv[f] \in {ProductionEnv[f], FALSE}
        /\ \A f \in EnvFlags : DevelopmentEnv[f] \in {ProductionEnv[f], FALSE, None}
    BY <2>2 DEF DevelopmentEnv, EnvSwitches, EnvFlags
  <2> QED
    BY <1>2, <2>1, <2>2, <2>3 DEF ConfigInv
<1> QED
  BY <1>1, <1>2 DEF ConfigInv

LEMMA ConfigStep == ConfigInv /\ [Next]_vars => ConfigInv'
<1> SUFFICES ASSUME ConfigInv, [Next]_vars PROVE ConfigInv'
  OBVIOUS
<1>1. focus' = focus /\ (config' = config \/ Change)
  BY DEF Next, vars, server, settings, On, RunAccounts, RunCompliance, RunLimit, RunMoney,
         RunWallet, RunTrading, RunStore, RunCache, RunRates, RunEvents, Change, RunHttp,
         RunAccount, RunTicket, RunList, Navigate
<1>2. ASSUME Change, focus = "deployment" PROVE ConfigInv'
  <2>1. PICK f \in DOMAIN Choices : \E v \in Choices[f] : config' = [config EXCEPT ![f] = v]
    BY <1>2 DEF Change, On
  <2>2. f \in DeploymentSwitches => Choices[f] = BOOLEAN
    <3>1. /\ Choices.productionDeployment = BOOLEAN /\ Choices.webhook = BOOLEAN
          /\ Choices.manualApproval = BOOLEAN
      BY DEF Choices
    <3> QED
      BY <3>1 DEF DeploymentSwitches
  <2> QED
    BY <1>1, <1>2, <2>1, <2>2 DEF ConfigInv
<1>3. ASSUME Change, focus = "environment" PROVE ConfigInv'
  <2>1. PICK f \in DOMAIN EnvChoices :
            \E v \in EnvChoices[f] : config' = [config EXCEPT ![f] = v]
    BY <1>3 DEF Change, On
  <2>2. /\ f \in EnvSwitches => EnvChoices[f] = BOOLEAN
        /\ f \in EnvFlags => EnvChoices[f] = {None, FALSE}
    <3>1. /\ EnvChoices.database = BOOLEAN /\ EnvChoices.redis = BOOLEAN
          /\ EnvChoices.ca = BOOLEAN /\ EnvChoices.secret = BOOLEAN
          /\ EnvChoices.origins = BOOLEAN /\ EnvChoices.cronSecret = BOOLEAN
          /\ EnvChoices.depositCredits = BOOLEAN /\ EnvChoices.withdrawals = BOOLEAN
          /\ EnvChoices.worker = BOOLEAN /\ EnvChoices.drain = BOOLEAN
          /\ EnvChoices.cutover = BOOLEAN
          /\ EnvChoices.ssl = {None, FALSE} /\ EnvChoices.cookieSecure = {None, FALSE}
      BY DEF EnvChoices
    <3>2. f \notin {"webhook", "contract", "trading", "testDatabase"}
      BY <2>1 DEF EnvChoices
    <3> QED
      BY <3>1, <3>2 DEF EnvSwitches, EnvFlags
  <2> QED
    BY <1>1, <1>3, <2>1, <2>2 DEF ConfigInv
<1> QED
  BY <1>1, <1>2, <1>3 DEF ConfigInv

\* AcceptedConfigIsKept and RealMoneyOnly, for the environments, deployments and
\* registries that behaviours go through.
THEOREM AcceptedConfigAlwaysKept == Spec => []AcceptedConfigIsKept
<1>1. ConfigInv => AcceptedConfigIsKept
  <2> SUFFICES ASSUME ConfigInv, focus = "environment"
               PROVE  EnvironmentKept(config, Marker)
    BY DEF AcceptedConfigIsKept, EnvironmentKept
  <2>1. SwitchesSet(config)
    BY DEF ConfigInv, SwitchesSet, EnvSwitches, EnvFlags
  <2>2. Ready!ReadinessAssumption
    OBVIOUS
  <2> QED
    BY <2>1, <2>2, AnyEnvironmentKept
<1> QED
  BY <1>1, ConfigInit, ConfigStep, PTL DEF Spec

THEOREM RealMoneyAlwaysOnly == Spec => []RealMoneyOnly
<1>0. Ready!ReadinessAssumption
  OBVIOUS
<1>1. ConfigInv => RealMoneyOnly
  <2> SUFFICES ASSUME ConfigInv PROVE RealMoneyOnly
    OBVIOUS
  <2>1. DeploymentSet(LiveDeployment)
    BY DEF DeploymentSet, LiveDeployment
  <2>2. Ready!RealMoneyOnly(LiveDeployment, config, LiveDeployment, LedgerEntries)
    BY <1>0, <2>1, AnyDeploymentRealMoneyOnly
  <2>3. ASSUME focus = "deployment"
        PROVE  Ready!RealMoneyOnly(config, LiveRegistry, config, LedgerEntries)
    <3>1. DeploymentSet(config)
      BY <2>3 DEF ConfigInv, DeploymentSet, DeploymentSwitches
    <3> QED
      BY <1>0, <3>1, AnyDeploymentRealMoneyOnly
  <2> QED
    BY <2>2, <2>3 DEF RealMoneyOnly
<1> QED
  BY <1>1, ConfigInit, ConfigStep, PTL DEF Spec

-----------------------------------------------------------------------------
(* The cache of market data.  One load of a key runs at a time, in the     *)
(* foreground exactly while the key has no entry.  A list waits for the    *)
(* feeds it lacks, and what it has got meanwhile is no older than the load *)
(* it waits for lets it be.                                                *)

\* A fresh entry of a feed holds data of at most this age.
FeedAge == TTL - 1 + LoadTime

Modes == {"foreground", "background"}

\* Whether a key has an entry, and the version of a feed in its entry and in the list's.
Has(k) == cacheEntry[k] # None
Held(f) == cacheEntry[f].value.versions[f]
Shown(f) == cacheEntry["list"].value.versions[f]

\* What a load fetched is complete and not behind the entry it will replace.
FetchedSound(l) ==
    l.got # None =>
        /\ ~l.got.stale /\ l.got.age <= l.run /\ l.got.versions[l.key] \in {"old", "new"}
        /\ Cache!Rank(l.got.versions[l.key]) <= Cache!Rank(published)
        /\ Has(l.key) => Cache!Rank(Held(l.key)) <= Cache!Rank(l.got.versions[l.key])

FeedLoad(l) ==
    /\ l.key \in Feeds
    /\ l \in [key : {l.key}, mode : Modes, got : Cache!Values({l.key}) \cup {None}, run : 0 .. LoadTime]
    /\ FetchedSound(l)

Bounded(w, age) == \A f \in Feeds : w.got[f] # None /\ ~w.got[f].stale => w.got[f].age <= age

\* A list is no further than its feeds and not behind the list it will replace.
GotSound(w, f) ==
    w.got[f] # None =>
        /\ w.got[f].versions[f] = "empty" => w.got[f].stale
        /\ w.got[f].versions[f] # "empty" =>
               (Has(f) /\ Cache!Rank(w.got[f].versions[f]) <= Cache!Rank(Held(f)))
        /\ Has("list") => Cache!Rank(Shown(f)) <= Cache!Rank(w.got[f].versions[f])

ListLoad(w) ==
    /\ w.key = "list"
    /\ w = [key |-> w.key, mode |-> w.mode, got |-> w.got, run |-> w.run]
    /\ w.mode \in Modes /\ w.run = 0
    /\ w.got = [f \in Feeds |-> w.got[f]]
    /\ \A f \in Feeds : w.got[f] \in Cache!Values({f}) \cup {None}
    /\ \A f \in Feeds : GotSound(w, f)
    /\ (\A f \in Feeds : w.got[f] # None) => Bounded(w, FeedAge + LoadTime)

\* Whom a list waits for.
WaitedOn(w, f) ==
    \E l \in cacheLoads : l.key = f /\ l.mode = "foreground" /\ Bounded(w, FeedAge + l.run)

FeedEntrySound(f) ==
    /\ cacheEntry[f] \in Cache!Entries({f}) \cup {None}
    /\ Has(f) => /\ ~cacheEntry[f].value.stale /\ Held(f) \in {"old", "new"}
                 /\ Cache!Rank(Held(f)) <= Cache!Rank(published)
                 /\ cacheEntry[f].since < TTL =>
                        cacheEntry[f].value.age <= cacheEntry[f].since + LoadTime

ListEntrySound ==
    /\ cacheEntry["list"] \in Cache!Entries(Feeds) \cup {None}
    /\ Has("list") =>
           /\ ~cacheEntry["list"].value.stale =>
                  /\ \A f \in Feeds : Shown(f) # "empty"
                  /\ cacheEntry["list"].since < TTL =>
                         cacheEntry["list"].value.age <= FeedAge + LoadTime + cacheEntry["list"].since
           /\ \A f \in Feeds :
                  Shown(f) # "empty" => (Has(f) /\ Cache!Rank(Shown(f)) <= Cache!Rank(Held(f)))

EntriesSound ==
    /\ published \in {"old", "new"}
    /\ cacheEntry = [k \in Cache!EntryKeys |-> cacheEntry[k]]
    /\ \A f \in Feeds : FeedEntrySound(f)
    /\ ListEntrySound

\* Loads exclude each other, and are registered while they run.
LoadsAlone == \A l, m \in cacheLoads : l.key = m.key => l = m

Registered(l) ==
    /\ l.mode = "foreground" => l.key \in foreground /\ ~Has(l.key)
    /\ l.mode = "background" => l.key \in background /\ Has(l.key)

LoadsSound ==
    /\ \A l \in cacheLoads : FeedLoad(l) \/ ListLoad(l)
    /\ \A l \in cacheLoads : Registered(l)
    /\ LoadsAlone
    /\ \A f \in foreground \cap Feeds : \E l \in cacheLoads : l.key = f /\ l.mode = "foreground"
    /\ \A w \in cacheLoads : w.key = "list" =>
           \A f \in Feeds : w.got[f] = None => WaitedOn(w, f)

CacheInv == EntriesSound /\ LoadsSound /\ Cache!HonestAnswers

-----------------------------------------------------------------------------
LEMMA CacheConstants ==
    ASSUME Cache!MarketCacheAssumption
    PROVE  /\ TTL \in Nat \ {0} /\ LoadTime \in Nat /\ FeedAge \in Nat
           /\ Cache!Recent \in Nat /\ FeedAge + LoadTime <= Cache!Recent
           /\ Cache!Recent = FeedAge + LoadTime + (TTL - 1) /\ LoadTime <= FeedAge
           /\ "list" \notin Feeds /\ Feeds # {} /\ Cache!EntryKeys = Feeds \cup {"list"}
BY DEF Cache!MarketCacheAssumption, FeedAge, Cache!Recent, Cache!EntryKeys

LEMMA ValueOfFeed ==
    ASSUME Cache!MarketCacheAssumption, NEW f, NEW v \in Cache!Values({f})
    PROVE  /\ v.versions[f] \in {"empty", "old", "new"} /\ v.age \in Nat /\ v.stale \in BOOLEAN
           /\ v.age <= Cache!Recent + 1
BY CacheConstants DEF Cache!Values, Cache!Versions

\* What the invariant says of one load.
LEMMA LoadsOfFeeds ==
    ASSUME Cache!MarketCacheAssumption, LoadsSound, NEW l \in cacheLoads
    PROVE  /\ l.key \in Feeds => FeedLoad(l)
           /\ l.key = "list" => ListLoad(l)
           /\ l.key \in Feeds \cup {"list"}
           /\ l.mode \in Modes /\ l.run \in 0 .. LoadTime
           /\ Registered(l)
<1>1. FeedLoad(l) \/ ListLoad(l)
  BY DEF LoadsSound
<1>2. CASE FeedLoad(l)
  <2>1. l.key \in Feeds /\ l.mode \in Modes /\ l.run \in 0 .. LoadTime
    BY <1>2 DEF FeedLoad
  <2> QED
    BY <1>2, <2>1, CacheConstants DEF LoadsSound
<1>3. CASE ListLoad(l)
  <2>1. l.key = "list" /\ l.mode \in Modes /\ l.run \in 0 .. LoadTime
    BY <1>3, CacheConstants DEF ListLoad
  <2> QED
    BY <1>3, <2>1, CacheConstants DEF LoadsSound
<1> QED
  BY <1>1, <1>2, <1>3

LEMMA EntryOfFeed ==
    ASSUME Cache!MarketCacheAssumption, EntriesSound, NEW f \in Feeds, Has(f)
    PROVE  /\ cacheEntry[f] \in Cache!Entries({f})
           /\ cacheEntry[f].value \in Cache!Values({f}) /\ cacheEntry[f].since \in 0 .. TTL
           /\ ~cacheEntry[f].value.stale /\ Held(f) \in {"old", "new"}
           /\ Cache!Rank(Held(f)) <= Cache!Rank(published)
           /\ cacheEntry[f].since < TTL => cacheEntry[f].value.age <= cacheEntry[f].since + LoadTime
<1>1. cacheEntry[f] \in Cache!Entries({f})
  BY DEF EntriesSound, FeedEntrySound, Has
<1> QED
  BY <1>1 DEF EntriesSound, FeedEntrySound, Cache!Entries

\* What a list finds of a feed when it starts.
LEMMA FoundOfFeed ==
    ASSUME Cache!MarketCacheAssumption, EntriesSound, NEW f \in Feeds
    PROVE  /\ Cache!Found(f) \in Cache!Values({f}) \cup {None}
           /\ Cache!Found(f) = None <=> ~Has(f)
           /\ Has(f) => /\ Cache!Found(f).versions[f] = Held(f)
                        /\ ~Cache!Found(f).stale => Cache!Found(f).age <= FeedAge
<1>1. CASE ~Has(f)
  BY <1>1 DEF Has, Cache!Found
<1>2. CASE Has(f)
  <2>1. PICK v \in Cache!Values({f}), n \in 0 .. TTL : cacheEntry[f].value = v /\ cacheEntry[f].since = n
    BY <1>2, EntryOfFeed
  <2>2. Cache!Found(f) = [v EXCEPT !.stale = v.stale \/ Cache!Expired(f)]
    BY <1>2, <2>1 DEF Cache!Found, Has
  <2>3. /\ Cache!Expired(f) \in BOOLEAN
        /\ ~Cache!Expired(f) => n < TTL
    BY <2>1, CacheConstants DEF Cache!Expired
  <2>4. /\ Cache!Found(f) \in Cache!Values({f})
        /\ Cache!Found(f).versions = v.versions /\ Cache!Found(f).age = v.age
        /\ Cache!Found(f).stale = (v.stale \/ Cache!Expired(f))
    BY <2>2, <2>3 DEF Cache!Values
  <2>5. Cache!Found(f) # None
    BY <2>4 DEF Cache!MarketCacheAssumption
  <2>6. n < TTL => v.age <= n + LoadTime
    BY <1>2, <2>1, EntryOfFeed
  <2>7. v.age \in Nat
    BY ValueOfFeed
  <2>8. ~Cache!Found(f).stale => Cache!Found(f).age <= FeedAge
    BY <2>3, <2>4, <2>6, <2>7, CacheConstants DEF FeedAge
  <2> QED
    BY <1>2, <2>1, <2>4, <2>5, <2>8 DEF Held
<1> QED
  BY <1>1, <1>2

LEMMA StartListKeepsLoads ==
    ASSUME Cache!MarketCacheAssumption, EntriesSound, LoadsSound, NEW mode \in Modes,
           mode = "foreground" => "list" \notin foreground /\ ~Has("list"),
           mode = "background" => "list" \notin background /\ Has("list"),
           Cache!StartList(mode), UNCHANGED <<published, cacheEntry>>
    PROVE  LoadsSound'
<1> DEFINE toLoad == Cache!Missing \ foreground
           toRefresh == Cache!ToRefresh(Cache!OutOfDate)
<1>1. PICK got : got = [f \in Feeds |-> Cache!Found(f)]
  OBVIOUS
<1>2. PICK new : new = [key |-> "list", mode |-> mode, got |-> got, run |-> 0]
  OBVIOUS
<1>3. /\ cacheLoads' = cacheLoads \cup {new}
             \cup {Cache!Loader(f, "foreground", None, 0) : f \in toLoad}
             \cup {Cache!Loader(f, "background", None, 0) : f \in toRefresh}
      /\ foreground' = foreground \cup toLoad \cup (IF mode = "foreground" THEN {"list"} ELSE {})
      /\ background' = background \cup toRefresh \cup (IF mode = "background" THEN {"list"} ELSE {})
  BY <1>1, <1>2 DEF Cache!StartList, Cache!Loader
<1>4. /\ \A f \in toLoad : f \in Feeds /\ ~Has(f) /\ f \notin foreground
      /\ \A f \in toRefresh : f \in Feeds /\ Has(f) /\ f \notin background
      /\ \A f \in Feeds : ~Has(f) /\ f \notin foreground => f \in toLoad
  BY DEF Cache!Missing, Cache!OutOfDate, Cache!ToRefresh, Has
<1> HIDE DEF toLoad, toRefresh
<1> DEFINE Loads(f, m) == [key |-> f, mode |-> m, got |-> None, run |-> 0]
<1>5. \A l \in cacheLoads' : \/ l \in cacheLoads \/ l = new
                             \/ \E f \in toLoad : l = Loads(f, "foreground")
                             \/ \E f \in toRefresh : l = Loads(f, "background")
  BY <1>3 DEF Cache!Loader
<1>6. /\ cacheLoads \subseteq cacheLoads' /\ new \in cacheLoads'
      /\ \A f \in toLoad : Loads(f, "foreground") \in cacheLoads'
  BY <1>3 DEF Cache!Loader
<1>7. new.key = "list" /\ new.mode = mode /\ new.got = got /\ new.run = 0 /\ "list" \notin Feeds
  BY <1>2, CacheConstants
<1>8. ASSUME NEW f \in Feeds
      PROVE  /\ got[f] = Cache!Found(f) /\ got[f] \in Cache!Values({f}) \cup {None}
             /\ got[f] = None <=> ~Has(f)
             /\ Has(f) => got[f].versions[f] = Held(f) /\ (~got[f].stale => got[f].age <= FeedAge)
  BY <1>1, FoundOfFeed
<1>9. \A n \in Nat : Bounded(new, FeedAge + n)
  <2> SUFFICES ASSUME NEW n \in Nat, NEW f \in Feeds, got[f] # None, ~got[f].stale
               PROVE  got[f].age <= FeedAge + n
    BY <1>7 DEF Bounded
  <2>1. got[f].age \in Nat /\ got[f].age <= FeedAge
    BY <1>8, ValueOfFeed
  <2> QED
    BY <2>1, CacheConstants
<1>10. ListLoad(new)'
  <2>1. \A f \in Feeds : GotSound(new, f)'
    <3> SUFFICES ASSUME NEW f \in Feeds, got[f] # None
                 PROVE  GotSound(new, f)'
      BY <1>7 DEF GotSound
    <3>1. Has(f) /\ Held(f) \in {"old", "new"} /\ got[f].versions[f] = Held(f)
      BY <1>8 DEF EntriesSound, FeedEntrySound
    <3>2. Has("list") => Shown(f) = "empty" \/ Cache!Rank(Shown(f)) <= Cache!Rank(Held(f))
      BY DEF EntriesSound, ListEntrySound
    <3> QED
      BY <1>7, <3>1, <3>2 DEF GotSound, Has, Held, Shown, Cache!Rank
  <2>2. new = [key |-> new.key, mode |-> new.mode, got |-> new.got, run |-> new.run]
    BY <1>2
  <2>3. got = [f \in Feeds |-> got[f]]
    BY <1>1
  <2> QED
    BY <1>7, <1>8, <1>9, <2>1, <2>2, <2>3, CacheConstants DEF ListLoad
<1>11. \A f \in toLoad : FeedLoad(Loads(f, "foreground"))'
  BY <1>4, CacheConstants DEF FeedLoad, FetchedSound, Modes
<1>12. \A f \in toRefresh : FeedLoad(Loads(f, "background"))'
  BY <1>4, CacheConstants DEF FeedLoad, FetchedSound, Modes
<1>13. ASSUME NEW l \in cacheLoads
       PROVE  (FeedLoad(l) \/ ListLoad(l))' /\ Registered(l)'
  <2>1. Registered(l)'
    <3>1. foreground \subseteq foreground' /\ background \subseteq background'
      BY <1>3
    <3> QED
      BY <3>1, LoadsOfFeeds DEF Registered, Has
  <2>2. CASE FeedLoad(l)
    BY <2>1, <2>2 DEF FeedLoad, FetchedSound, Has, Held
  <2>3. CASE ListLoad(l)
    <3>1. \A f \in Feeds : GotSound(l, f)'
      BY <2>3 DEF ListLoad, GotSound, Has, Held, Shown
    <3> QED
      BY <2>1, <2>3, <3>1 DEF ListLoad, Bounded
  <2> QED
    BY <2>1, <2>2, <2>3 DEF LoadsSound
<1>14. \A l \in cacheLoads' : (FeedLoad(l) \/ ListLoad(l))'
  BY <1>5, <1>10, <1>11, <1>12, <1>13
<1>15. \A l \in cacheLoads' : Registered(l)'
  <2>1. Registered(new)'
    BY <1>3, <1>7 DEF Registered, Has, Modes
  <2>2. \A f \in toLoad : Registered(Loads(f, "foreground"))'
    BY <1>3, <1>4 DEF Registered, Has
  <2>3. \A f \in toRefresh : Registered(Loads(f, "background"))'
    BY <1>3, <1>4 DEF Registered, Has
  <2> QED
    BY <1>5, <1>13, <2>1, <2>2, <2>3
<1>16. LoadsAlone'
  <2>1. ASSUME NEW l \in cacheLoads, NEW f \in toLoad PROVE l.key # f
    BY <1>4, <2>1, LoadsOfFeeds DEF Registered, Modes
  <2>2. ASSUME NEW l \in cacheLoads, NEW f \in toRefresh PROVE l.key # f
    BY <1>4, <2>2, LoadsOfFeeds DEF Registered, Modes
  <2>3. ASSUME NEW l \in cacheLoads PROVE l.key # "list"
    <3>1. l.mode \in Modes /\ Registered(l)
      BY LoadsOfFeeds
    <3> QED
      BY <3>1 DEF Registered, Modes
  <2>4. toLoad \cap toRefresh = {} /\ "list" \notin toLoad \cup toRefresh
    BY <1>4, <1>7
  <2> QED
    BY <1>5, <1>7, <2>1, <2>2, <2>3, <2>4 DEF LoadsAlone, LoadsSound
<1>17. ASSUME NEW f \in foreground' \cap Feeds
       PROVE  \E l \in cacheLoads' : l.key = f /\ l.mode = "foreground"
  <2>1. CASE f \in foreground
    BY <1>6, <2>1 DEF LoadsSound
  <2>2. CASE f \in toLoad
    <3>1. PICK l : l = Loads(f, "foreground")
      OBVIOUS
    <3> QED
      BY <1>6, <2>2, <3>1
  <2> QED
    BY <1>3, <1>7, <2>1, <2>2
<1>18. ASSUME NEW w \in cacheLoads', w.key = "list", NEW f \in Feeds, w.got[f] = None
       PROVE  WaitedOn(w, f)'
  <2>1. CASE w \in cacheLoads
    BY <1>6, <1>18, <2>1 DEF LoadsSound, WaitedOn, Bounded
  <2>2. CASE w = new
    <3>1. PICK l \in cacheLoads' : l.key = f /\ l.mode = "foreground" /\ l.run \in Nat
      <4>1. ~Has(f)
        BY <1>7, <1>8, <1>18, <2>2
      <4>2. CASE f \in foreground
        <5>1. PICK l \in cacheLoads : l.key = f /\ l.mode = "foreground"
          BY <4>2 DEF LoadsSound
        <5> QED
          BY <1>6, <5>1, LoadsOfFeeds
      <4>3. CASE f \in toLoad
        <5>1. PICK l : l = Loads(f, "foreground")
          OBVIOUS
        <5> QED
          BY <1>6, <4>3, <5>1
      <4> QED
        BY <1>4, <4>1, <4>2, <4>3
    <3>2. Bounded(w, FeedAge + l.run)
      BY <1>9, <2>2, <3>1
    <3> QED
      BY <3>1, <3>2 DEF WaitedOn, Bounded
  <2> QED
    BY <1>5, <1>7, <1>18, <1>4, <2>1, <2>2
<1> QED
  BY <1>14, <1>15, <1>16, <1>17, <1>18 DEF LoadsSound

\* What a step may never do to an entry (NeverBack).
Forward ==
    \A k \in Cache!EntryKeys : cacheEntry[k] # None =>
        /\ cacheEntry'[k] # None
        /\ \A f \in DOMAIN cacheEntry[k].value.versions :
               Cache!Rank(cacheEntry'[k].value.versions[f]) >= Cache!Rank(cacheEntry[k].value.versions[f])

LEMMA RankIsNumber == \A version : Cache!Rank(version) \in 0 .. 2
BY DEF Cache!Rank

LEMMA EntryOfList ==
    ASSUME Cache!MarketCacheAssumption, EntriesSound, Has("list")
    PROVE  /\ cacheEntry["list"] \in Cache!Entries(Feeds)
           /\ cacheEntry["list"].value \in Cache!Values(Feeds)
           /\ cacheEntry["list"].since \in 0 .. TTL /\ cacheEntry["list"].value.age \in Nat
           /\ cacheEntry["list"].value.stale \in BOOLEAN
           /\ \A f \in Feeds : Shown(f) \in {"empty", "old", "new"}
<1>1. cacheEntry["list"] \in Cache!Entries(Feeds)
  BY DEF EntriesSound, ListEntrySound, Has
<1>2. /\ cacheEntry["list"].value \in Cache!Values(Feeds)
      /\ cacheEntry["list"].since \in 0 .. TTL
  BY <1>1 DEF Cache!Entries
<1> QED
  BY <1>1, <1>2, CacheConstants DEF Cache!Values, Cache!Versions, Shown

\* A step that leaves the entries alone.
LEMMA EntriesUnchanged ==
    ASSUME Cache!MarketCacheAssumption, EntriesSound, cacheEntry' = cacheEntry,
           published' \in {"old", "new"}, Cache!Rank(published) <= Cache!Rank(published')
    PROVE  EntriesSound' /\ Forward
<1>1. ASSUME NEW f \in Feeds PROVE FeedEntrySound(f)'
  <2>1. CASE Has(f)
    <3>1. Cache!Rank(Held(f)) <= Cache!Rank(published')
      <4>1. Cache!Rank(Held(f)) <= Cache!Rank(published)
      BY <2>1, EntryOfFeed
    <4>2. /\ Cache!Rank(Held(f)) \in 0 .. 2 /\ Cache!Rank(published) \in 0 .. 2
          /\ Cache!Rank(published') \in 0 .. 2
      BY RankIsNumber
    <4> QED
      BY <4>1, <4>2
    <3> QED
      BY <2>1, <3>1 DEF EntriesSound, FeedEntrySound, Has, Held
  <2>2. CASE ~Has(f)
    BY <2>2 DEF EntriesSound, FeedEntrySound, Has
  <2> QED
    BY <2>1, <2>2
<1>2. ListEntrySound'
  BY DEF EntriesSound, ListEntrySound, Has, Held, Shown
<1>3. EntriesSound'
  BY <1>1, <1>2 DEF EntriesSound
<1>4. Forward
  BY DEF Forward, Cache!Rank
<1> QED
  BY <1>3, <1>4

\* A load that a step leaves alone.
LEMMA LoadKept ==
    ASSUME Cache!MarketCacheAssumption, LoadsSound, NEW l \in cacheLoads,
           cacheEntry' = cacheEntry, Cache!Rank(published) <= Cache!Rank(published')
    PROVE  (FeedLoad(l) \/ ListLoad(l))'
<1>1. CASE FeedLoad(l)
  <2>1. FetchedSound(l)'
    <3> SUFFICES ASSUME l.got # None
                 PROVE  FetchedSound(l)'
      BY DEF FetchedSound
    <3>1. Cache!Rank(l.got.versions[l.key]) <= Cache!Rank(published')
      BY <1>1, RankIsNumber DEF FeedLoad, FetchedSound
    <3> QED
      BY <1>1, <3>1 DEF FeedLoad, FetchedSound, Has, Held
  <2> QED
    BY <1>1, <2>1 DEF FeedLoad
<1>2. CASE ListLoad(l)
  <2>1. \A f \in Feeds : GotSound(l, f)'
    BY <1>2 DEF ListLoad, GotSound, Has, Held, Shown
  <2> QED
    BY <1>2, <2>1 DEF ListLoad, Bounded
<1> QED
  BY <1>1, <1>2 DEF LoadsSound

LEMMA LoadsUnchanged ==
    ASSUME Cache!MarketCacheAssumption, LoadsSound, cacheEntry' = cacheEntry,
           UNCHANGED <<cacheLoads, foreground, background>>,
           Cache!Rank(published) <= Cache!Rank(published')
    PROVE  LoadsSound'
<1>1. ASSUME NEW l \in cacheLoads
      PROVE  (FeedLoad(l) \/ ListLoad(l))' /\ Registered(l)'
  <2>1. (FeedLoad(l) \/ ListLoad(l))'
    BY LoadKept
  <2> QED
    BY <2>1 DEF LoadsSound, Registered, Has
<1>2. ASSUME NEW w \in cacheLoads, w.key = "list", NEW f \in Feeds, w.got[f] = None
      PROVE  WaitedOn(w, f)'
  BY <1>2 DEF LoadsSound, WaitedOn, Bounded
<1>3. LoadsAlone' /\ \A f \in foreground \cap Feeds :
                       \E l \in cacheLoads : l.key = f /\ l.mode = "foreground"
  BY DEF LoadsSound, LoadsAlone
<1> QED
  BY <1>1, <1>2, <1>3 DEF LoadsSound

LEMMA CacheInit ==
    ASSUME Cache!MarketCacheAssumption, Cache!Init PROVE CacheInv
<1>1. ~Has("list") /\ \A f \in Feeds : ~Has(f)
  BY CacheConstants DEF Cache!Init, Has
<1>2. EntriesSound
  BY <1>1, CacheConstants DEF Cache!Init, EntriesSound, FeedEntrySound, ListEntrySound, Has
<1>3. LoadsSound
  BY DEF Cache!Init, LoadsSound, LoadsAlone
<1> QED
  BY <1>2, <1>3 DEF CacheInv, Cache!Init, Cache!HonestAnswers

\* A list that is answered from its entry.
LEMMA AskFreshKeeps ==
    ASSUME Cache!MarketCacheAssumption, CacheInv, Cache!AskFresh PROVE CacheInv' /\ Forward
<1>1. EntriesSound' /\ Forward
  BY EntriesUnchanged DEF CacheInv, EntriesSound, Cache!AskFresh, Cache!Rank
<1>2. LoadsSound'
  BY LoadsUnchanged DEF CacheInv, Cache!AskFresh, Cache!Rank
<1>3. Cache!HonestAnswers'
  <2>1. Has("list") /\ cacheEntry["list"].since < TTL
    <3>1. Has("list")
      BY DEF Cache!AskFresh, Has
    <3> QED
      BY <3>1, EntryOfList, CacheConstants DEF CacheInv, Cache!AskFresh, Cache!Expired
  <2>2. PICK v \in Cache!Values(Feeds) : cacheEntry["list"].value = v
    BY <2>1, EntryOfList DEF CacheInv
  <2>3. /\ answer'.age = v.age /\ (answer'.stale = (v.stale \/ FALSE))
        /\ answer'.empty = ("empty" \in {v.versions[f] : f \in Feeds})
    BY <2>2 DEF Cache!AskFresh, Cache!Answer
  <2>4. ~v.stale => /\ \A f \in Feeds : v.versions[f] # "empty"
                    /\ v.age <= FeedAge + LoadTime + cacheEntry["list"].since
    BY <2>1, <2>2 DEF CacheInv, EntriesSound, ListEntrySound, Shown
  <2>5. ~v.stale => v.age <= Cache!Recent
    BY <2>1, <2>2, <2>4, EntryOfList, CacheConstants DEF CacheInv
  <2> QED
    BY <2>3, <2>4, <2>5 DEF Cache!HonestAnswers
<1> QED
  BY <1>1, <1>2, <1>3 DEF CacheInv

\* A list that is answered although it is too old, and refreshed meanwhile.
LEMMA AskStaleKeeps ==
    ASSUME Cache!MarketCacheAssumption, CacheInv, Cache!AskStale PROVE CacheInv' /\ Forward
<1>1. EntriesSound' /\ Forward
  BY EntriesUnchanged DEF CacheInv, EntriesSound, Cache!AskStale, Cache!Rank
<1>2. LoadsSound'
  <2>1. CASE Cache!ToRefresh({"list"}) = {}
    BY <2>1, LoadsUnchanged DEF CacheInv, Cache!AskStale, Cache!Rank
  <2>2. CASE Cache!ToRefresh({"list"}) # {}
    <3>1. "list" \notin background /\ Has("list")
      BY <2>2 DEF Cache!ToRefresh, Cache!AskStale, Has
    <3> QED
      BY <2>2, <3>1, StartListKeepsLoads DEF CacheInv, Cache!AskStale, Modes
  <2> QED
    BY <2>1, <2>2
<1>3. Cache!HonestAnswers'
  BY DEF Cache!HonestAnswers, Cache!AskStale, Cache!Answer
<1> QED
  BY <1>1, <1>2, <1>3 DEF CacheInv

LEMMA AskNothingKeeps ==
    ASSUME Cache!MarketCacheAssumption, CacheInv, Cache!AskNothing PROVE CacheInv' /\ Forward
<1>1. EntriesSound' /\ Forward
  BY EntriesUnchanged DEF CacheInv, EntriesSound, Cache!AskNothing, Cache!Rank
<1>2. LoadsSound'
  <2>1. "list" \notin foreground /\ ~Has("list")
    BY DEF Cache!AskNothing, Has
  <2> QED
    BY <2>1, StartListKeepsLoads DEF CacheInv, Cache!AskNothing, Modes
<1> QED
  BY <1>1, <1>2 DEF CacheInv, Cache!AskNothing, Cache!HonestAnswers

\* The upstream answers with what it has now.
LEMMA RespondKeeps ==
    ASSUME Cache!MarketCacheAssumption, CacheInv, NEW l \in cacheLoads, Cache!Respond(l)
    PROVE  CacheInv' /\ Forward
<1>1. EntriesSound' /\ Forward
  BY EntriesUnchanged DEF CacheInv, EntriesSound, Cache!Respond, Cache!Rank
<1>2. PICK f \in Feeds : f = l.key
  BY DEF Cache!Respond
<1>3. PICK got : got = Cache!Fetched(f, published)
  OBVIOUS
<1>4. PICK m : m = [l EXCEPT !.got = got]
  OBVIOUS
<1>5. FeedLoad(l)
  BY <1>2, LoadsOfFeeds DEF CacheInv
<1>6. /\ m.key = f /\ m.mode = l.mode /\ m.got = got /\ m.run = l.run
      /\ m = [key |-> f, mode |-> l.mode, got |-> got, run |-> l.run]
  BY <1>2, <1>4, <1>5 DEF FeedLoad
<1>7. cacheLoads' = (cacheLoads \ {l}) \cup {m} /\ UNCHANGED <<published, cacheEntry, foreground, background>>
  BY <1>2, <1>3, <1>4 DEF Cache!Respond
<1>8. FeedLoad(m)'
  <2>1. /\ got \in Cache!Values({f})
        /\ got.stale = FALSE /\ got.age = 0 /\ got.versions[f] = published
    BY <1>3, CacheConstants DEF Cache!Fetched, Cache!Value, Cache!Values, Cache!Versions,
                                CacheInv, EntriesSound
  <2>2. m \in [key : {m.key}, mode : Modes, got : Cache!Values({m.key}) \cup {None}, run : 0 .. LoadTime]
    BY <1>2, <1>5, <1>6, <2>1 DEF FeedLoad
  <2>3. FetchedSound(m)'
    <3>1. l.run \in Nat /\ published \in {"old", "new"}
      BY LoadsOfFeeds, CacheConstants DEF CacheInv, EntriesSound
    <3>2. Has(f) => Cache!Rank(Held(f)) <= Cache!Rank(published)
      BY EntryOfFeed DEF CacheInv
    <3> QED
      BY <1>6, <1>7, <2>1, <3>1, <3>2 DEF FetchedSound, Has, Held, Cache!Rank
  <2> QED
    BY <1>6, <1>7, <2>2, <2>3 DEF FeedLoad
<1>9. LoadsSound'
  <2>1. ASSUME NEW k \in cacheLoads
        PROVE  (FeedLoad(k) \/ ListLoad(k))' /\ Registered(k)'
    <3>1. (FeedLoad(k) \/ ListLoad(k))'
      BY <1>7, LoadKept DEF CacheInv, Cache!Rank
    <3> QED
      BY <1>7, <3>1 DEF CacheInv, LoadsSound, Registered, Has
  <2>2. Registered(m)'
    BY <1>2, <1>6, <2>1 DEF Registered, Has
  <2>3. LoadsAlone'
    BY <1>2, <1>6, <1>7 DEF CacheInv, LoadsSound, LoadsAlone
  <2>4. \A g \in foreground' \cap Feeds : \E k \in cacheLoads' : k.key = g /\ k.mode = "foreground"
    BY <1>2, <1>6, <1>7 DEF CacheInv, LoadsSound
  <2>5. ASSUME NEW w \in cacheLoads', w.key = "list", NEW g \in Feeds, w.got[g] = None
        PROVE  WaitedOn(w, g)'
    <3>1. w \in cacheLoads
      BY <1>6, <1>7, <2>5, CacheConstants
    <3>2. PICK k \in cacheLoads : k.key = g /\ k.mode = "foreground" /\ Bounded(w, FeedAge + k.run)
      BY <2>5, <3>1 DEF CacheInv, LoadsSound, WaitedOn
    <3> QED
      BY <1>2, <1>6, <1>7, <3>2 DEF WaitedOn, Bounded
  <2> QED
    BY <1>7, <1>8, <2>1, <2>2, <2>3, <2>4, <2>5 DEF LoadsSound
<1> QED
  BY <1>1, <1>9 DEF CacheInv, Cache!Respond, Cache!HonestAnswers

\* A step that changes at most what is held of one feed, to something no older.
Advanced(f) ==
    /\ published' = published
    /\ \A k \in Cache!EntryKeys \ {f} : cacheEntry'[k] = cacheEntry[k]
    /\ Has(f) => (Has(f)' /\ Cache!Rank(Held(f)) <= Cache!Rank(Held(f)'))

LEMMA OtherLoadKept ==
    ASSUME Cache!MarketCacheAssumption, CacheInv, NEW f \in Feeds, Advanced(f),
           NEW k \in cacheLoads, k.key # f
    PROVE  (FeedLoad(k) \/ ListLoad(k))'
<1>1. CASE k.key \in Feeds
  <2>1. FeedLoad(k) /\ cacheEntry'[k.key] = cacheEntry[k.key]
    BY <1>1, LoadsOfFeeds, CacheConstants DEF CacheInv, Advanced
  <2>2. FetchedSound(k)'
    BY <2>1 DEF FeedLoad, FetchedSound, Has, Held, Advanced
  <2> QED
    BY <2>1, <2>2 DEF FeedLoad
<1>2. CASE k.key = "list"
  <2>1. ListLoad(k) /\ cacheEntry'["list"] = cacheEntry["list"]
    BY <1>2, LoadsOfFeeds, CacheConstants DEF CacheInv, Advanced
  <2>2. ASSUME NEW g \in Feeds PROVE GotSound(k, g)'
    <3>1. GotSound(k, g)
      BY <2>1 DEF ListLoad
    <3>2. CASE g # f
      <4>1. cacheEntry'[g] = cacheEntry[g]
        BY <3>2, CacheConstants DEF Advanced
      <4> QED
        BY <2>1, <3>1, <4>1 DEF GotSound, Has, Held, Shown
    <3>3. CASE g = f
      <4> SUFFICES ASSUME k.got[f] # None
                   PROVE  GotSound(k, f)'
        BY <3>3 DEF GotSound
      <4>1. k.got[f].versions[f] # "empty" =>
                (Has(f)' /\ Cache!Rank(k.got[f].versions[f]) <= Cache!Rank(Held(f)'))
        <5>1. /\ Cache!Rank(k.got[f].versions[f]) \in 0 .. 2
              /\ Cache!Rank(Held(f)) \in 0 .. 2 /\ Cache!Rank(Held(f)') \in 0 .. 2
          BY RankIsNumber
        <5> QED
          BY <3>1, <3>3, <5>1 DEF GotSound, Advanced
      <4>2. (Has("list") <=> Has("list")') /\ Shown(f) = Shown(f)'
        BY <2>1 DEF Has, Shown
      <4> QED
        BY <3>1, <3>3, <4>1, <4>2 DEF GotSound
    <3> QED
      BY <3>2, <3>3
  <2> QED
    BY <2>1, <2>2 DEF ListLoad, Bounded
<1> QED
  BY <1>1, <1>2, LoadsOfFeeds DEF CacheInv

LEMMA OtherStaysRegistered ==
    ASSUME Cache!MarketCacheAssumption, CacheInv, NEW f \in Feeds, Advanced(f),
           NEW k \in cacheLoads, k.key # f,
           foreground \ {f} \subseteq foreground', background \ {f} \subseteq background'
    PROVE  Registered(k)'
<1>1. cacheEntry'[k.key] = cacheEntry[k.key]
  BY LoadsOfFeeds, CacheConstants DEF CacheInv, Advanced
<1> QED
  BY <1>1, LoadsOfFeeds DEF CacheInv, Registered, Has

\* A list that waited, with what it was given.
GoesOn(w, f, v, u) ==
    /\ u = [w EXCEPT !.got[f] = v]
    /\ u = [key |-> "list", mode |-> w.mode, got |-> u.got, run |-> 0]
    /\ u.key = "list" /\ u.mode = w.mode /\ u.run = 0
    /\ u.got = [g \in Feeds |-> u.got[g]]
    /\ u.got[f] = v
    /\ \A g \in Feeds \ {f} : u.got[g] = w.got[g]

ComesFrom(k, f, v, j) ==
    /\ j.key = k.key
    /\ k = IF j \in Cache!WaitFor(f) THEN [j EXCEPT !.got[f] = v] ELSE j

LEMMA WaiterGoesOn ==
    ASSUME NEW w, ListLoad(w), NEW f \in Feeds, NEW v
    PROVE  \E u : GoesOn(w, f, v, u)
<1>1. PICK got : got = [g \in Feeds |-> IF g = f THEN v ELSE w.got[g]]
  OBVIOUS
<1>2. [w.got EXCEPT ![f] = v] = got
  BY <1>1 DEF ListLoad
<1>3. PICK u : u = [key |-> "list", mode |-> w.mode, got |-> got, run |-> 0]
  OBVIOUS
<1>4. u = [w EXCEPT !.got[f] = v]
  BY <1>2, <1>3 DEF ListLoad
<1>5. got = [g \in Feeds |-> got[g]] /\ got[f] = v /\ \A g \in Feeds \ {f} : got[g] = w.got[g]
  BY <1>1
<1>6. GoesOn(w, f, v, u)
  BY <1>3, <1>4, <1>5 DEF GoesOn
<1> QED
  BY <1>6

\* A refresh of a feed ends; it had an entry and keeps one.
LEMMA RefreshEnds ==
    ASSUME Cache!MarketCacheAssumption, CacheInv, NEW l \in cacheLoads, NEW f \in Feeds,
           l.key = f, l.mode = "background", Advanced(f), cacheLoads' = cacheLoads \ {l},
           foreground' = foreground, background' = background \ {f}
    PROVE  LoadsSound'
<1>1. ASSUME NEW k \in cacheLoads' PROVE (FeedLoad(k) \/ ListLoad(k))' /\ Registered(k)'
  <2>1. k \in cacheLoads /\ k.key # f
    BY DEF CacheInv, LoadsSound, LoadsAlone
  <2>2. (FeedLoad(k) \/ ListLoad(k))'
    BY <2>1, OtherLoadKept
  <2>3. Registered(k)'
    BY <2>1, OtherStaysRegistered
  <2> QED
    BY <2>2, <2>3
<1>2. LoadsAlone'
  BY DEF CacheInv, LoadsSound, LoadsAlone
<1>3. \A g \in foreground' \cap Feeds : \E k \in cacheLoads' : k.key = g /\ k.mode = "foreground"
  BY DEF CacheInv, LoadsSound
<1>4. ASSUME NEW w \in cacheLoads', w.key = "list", NEW g \in Feeds, w.got[g] = None
      PROVE  WaitedOn(w, g)'
  <2>1. PICK k \in cacheLoads : k.key = g /\ k.mode = "foreground" /\ Bounded(w, FeedAge + k.run)
    BY <1>4 DEF CacheInv, LoadsSound, WaitedOn
  <2> QED
    BY <2>1 DEF WaitedOn, Bounded
<1> QED
  BY <1>1, <1>2, <1>3, <1>4 DEF LoadsSound

\* A load in the foreground ends, and gives those who waited a value.
LEMMA WaitEnds ==
    ASSUME Cache!MarketCacheAssumption, CacheInv, NEW l \in cacheLoads, NEW f \in Feeds,
           l.key = f, l.mode = "foreground", Advanced(f), NEW v \in Cache!Values({f}),
           cacheLoads' = Cache!GoOn(f, v) \ {l},
           foreground' = foreground \ {f}, background' = background,
           v.versions[f] = "empty" => v.stale,
           v.versions[f] # "empty" =>
               (Has(f)' /\ Cache!Rank(v.versions[f]) <= Cache!Rank(Held(f)')),
           ~v.stale => v.age <= l.run
    PROVE  LoadsSound'
<1>1. ~Has(f) /\ l.run \in 0 .. LoadTime /\ "list" \notin Feeds
  BY LoadsOfFeeds, CacheConstants DEF CacheInv, Registered
<1>2. v # None /\ v.age \in Nat
  BY ValueOfFeed DEF Cache!MarketCacheAssumption
<1>3. ASSUME NEW k \in cacheLoads'
      PROVE  \/ k \in cacheLoads /\ k.key # f /\ k \notin Cache!WaitFor(f)
             \/ \E w \in Cache!WaitFor(f) : k = [w EXCEPT !.got[f] = v]
  BY DEF CacheInv, LoadsSound, LoadsAlone, Cache!GoOn
<1>4. ASSUME NEW k \in cacheLoads, k.key # f, k \notin Cache!WaitFor(f)
      PROVE  k \in cacheLoads'
  BY <1>4 DEF Cache!GoOn
<1>5. ASSUME NEW w \in Cache!WaitFor(f), NEW u, GoesOn(w, f, v, u)
      PROVE  /\ ListLoad(u)' /\ Registered(u)'
             /\ \A g \in Feeds : u.got[g] = None => WaitedOn(u, g)'
  <2>0. /\ u.key = "list" /\ u.mode = w.mode /\ u.run = 0
        /\ u = [key |-> "list", mode |-> w.mode, got |-> u.got, run |-> 0]
        /\ u.got = [g \in Feeds |-> u.got[g]]
        /\ u.got[f] = v /\ \A g \in Feeds \ {f} : u.got[g] = w.got[g]
    BY <1>5 DEF GoesOn
  <2>1. w \in cacheLoads /\ w.key = "list" /\ w.got[f] = None /\ ListLoad(w)
    BY LoadsOfFeeds DEF Cache!WaitFor, CacheInv
  <2>2. ListLoad(w)' /\ Registered(w)'
    <3>1. w.key # f
      BY <1>1, <2>1
    <3>2. (FeedLoad(w) \/ ListLoad(w))'
      BY <2>1, <3>1, OtherLoadKept
    <3>3. Registered(w)'
      BY <2>1, <3>1, OtherStaysRegistered
    <3> QED
      BY <1>1, <2>1, <3>2, <3>3 DEF FeedLoad
  <2>3. ASSUME NEW n \in Nat, Bounded(w, FeedAge + n) PROVE Bounded(u, FeedAge + n)
    <3>1. v.stale \/ v.age <= FeedAge + n
      BY <1>1, <1>2, CacheConstants
    <3> QED
      BY <2>0, <2>3, <3>1 DEF Bounded
  <2>4. Bounded(w, FeedAge + l.run)
    <3>1. PICK k \in cacheLoads : k.key = f /\ Bounded(w, FeedAge + k.run)
      BY <2>1 DEF CacheInv, LoadsSound, WaitedOn
    <3>2. k = l
      BY <3>1 DEF CacheInv, LoadsSound, LoadsAlone
    <3> QED
      BY <3>1, <3>2
  <2>5. Bounded(u, FeedAge + LoadTime)
    <3>1. Bounded(u, FeedAge + l.run)
      BY <1>1, <2>3, <2>4, CacheConstants
    <3>2. ASSUME NEW g \in Feeds, u.got[g] # None PROVE u.got[g].age \in Nat
      <4>1. CASE g = f
        BY <1>2, <2>0, <4>1
      <4>2. CASE g # f
        <5>1. u.got[g] \in Cache!Values({g})
          BY <2>0, <2>1, <3>2, <4>2 DEF ListLoad
        <5> QED
          BY <5>1, ValueOfFeed
      <4> QED
        BY <4>1, <4>2
    <3> QED
      BY <1>1, <3>1, <3>2, CacheConstants DEF Bounded
  <2>6. ASSUME NEW g \in Feeds PROVE GotSound(u, g)'
    <3>1. CASE g # f
      BY <2>0, <2>2, <3>1 DEF ListLoad, GotSound
    <3>2. CASE g = f
      <4>1. Has("list")' => Cache!Rank(Shown(f)') <= Cache!Rank(v.versions[f])
        <5>1. cacheEntry'["list"] = cacheEntry["list"]
          BY <1>1, CacheConstants DEF Advanced
        <5>2. Has("list") => Shown(f) = "empty"
          BY <1>1 DEF CacheInv, EntriesSound, ListEntrySound
        <5> QED
          BY <5>1, <5>2, RankIsNumber DEF Has, Shown, Cache!Rank
      <4> QED
        BY <2>0, <3>2, <4>1 DEF GotSound
    <3> QED
      BY <3>1, <3>2
  <2>7. \A g \in Feeds : u.got[g] \in Cache!Values({g}) \cup {None}
    BY <2>0, <2>1 DEF ListLoad
  <2>8. ListLoad(u)'
    BY <2>0, <2>1, <2>5, <2>6, <2>7 DEF ListLoad, Bounded
  <2>9. ASSUME NEW g \in Feeds, u.got[g] = None PROVE WaitedOn(u, g)'
    <3>1. g # f /\ w.got[g] = None
      BY <1>2, <2>0, <2>9
    <3>2. PICK k \in cacheLoads : k.key = g /\ k.mode = "foreground" /\ Bounded(w, FeedAge + k.run)
      BY <2>1, <3>1 DEF CacheInv, LoadsSound, WaitedOn
    <3>3. k \in cacheLoads' /\ k.run \in Nat
      BY <1>1, <1>4, <3>1, <3>2, LoadsOfFeeds DEF CacheInv, Cache!WaitFor
    <3>4. Bounded(u, FeedAge + k.run)
      BY <2>3, <3>2, <3>3
    <3> QED
      BY <3>2, <3>3, <3>4 DEF WaitedOn, Bounded
  <2> QED
    BY <2>0, <2>1, <2>2, <2>8, <2>9 DEF Registered
<1>6. ASSUME NEW k \in cacheLoads'
      PROVE  /\ (FeedLoad(k) \/ ListLoad(k))' /\ Registered(k)'
             /\ k.key = "list" => \A g \in Feeds : k.got[g] = None => WaitedOn(k, g)'
             /\ k.key # f
             /\ \E j \in cacheLoads : ComesFrom(k, f, v, j)
  <2>1. CASE k \in cacheLoads /\ k.key # f /\ k \notin Cache!WaitFor(f)
    <3>1. (FeedLoad(k) \/ ListLoad(k))'
      BY <2>1, OtherLoadKept
    <3>2. Registered(k)'
      BY <2>1, OtherStaysRegistered
    <3>3. ASSUME k.key = "list", NEW g \in Feeds, k.got[g] = None PROVE WaitedOn(k, g)'
      <4>1. PICK j \in cacheLoads : j.key = g /\ j.mode = "foreground" /\ Bounded(k, FeedAge + j.run)
        BY <2>1, <3>3 DEF CacheInv, LoadsSound, WaitedOn
      <4>2. g # f
        BY <2>1, <3>3 DEF Cache!WaitFor
      <4>3. j \in cacheLoads'
        BY <1>1, <1>4, <4>1, <4>2 DEF Cache!WaitFor
      <4> QED
        BY <4>1, <4>3 DEF WaitedOn, Bounded
    <3>4. ComesFrom(k, f, v, k)
      BY <2>1 DEF ComesFrom
    <3> QED
      BY <2>1, <3>1, <3>2, <3>3, <3>4
  <2>2. CASE \E w \in Cache!WaitFor(f) : k = [w EXCEPT !.got[f] = v]
    <3>1. PICK w \in Cache!WaitFor(f) : k = [w EXCEPT !.got[f] = v]
      BY <2>2
    <3>2. w \in cacheLoads /\ w.key = "list" /\ ListLoad(w)
      BY LoadsOfFeeds DEF Cache!WaitFor, CacheInv
    <3>3. PICK u : GoesOn(w, f, v, u)
      BY <3>2, WaiterGoesOn
    <3>4. k = u /\ u.key = "list"
      BY <3>1, <3>3 DEF GoesOn
    <3>5. ListLoad(u)' /\ Registered(u)' /\ \A g \in Feeds : u.got[g] = None => WaitedOn(u, g)'
      BY <1>5, <3>3
    <3>6. ComesFrom(k, f, v, w)
      BY <3>1, <3>2, <3>4 DEF ComesFrom
    <3>7. (FeedLoad(k) \/ ListLoad(k))' /\ Registered(k)'
      BY <3>4, <3>5
    <3>8. k.key = "list" /\ k.key # f /\ \A g \in Feeds : k.got[g] = None => WaitedOn(k, g)'
      BY <1>1, <3>4, <3>5
    <3> QED
      BY <3>2, <3>6, <3>7, <3>8
  <2> QED
    BY <1>3, <2>1, <2>2
<1>7. LoadsAlone'
  <2> SUFFICES ASSUME NEW k \in cacheLoads', NEW m \in cacheLoads', k.key = m.key
               PROVE  k = m
    BY DEF LoadsAlone
  <2>1. PICK j \in cacheLoads : ComesFrom(k, f, v, j)
    BY <1>6
  <2>2. PICK i \in cacheLoads : ComesFrom(m, f, v, i)
    BY <1>6
  <2>3. i = j
    BY <2>1, <2>2 DEF CacheInv, LoadsSound, LoadsAlone, ComesFrom
  <2> QED
    BY <2>1, <2>2, <2>3 DEF ComesFrom
<1>8. ASSUME NEW g \in foreground' \cap Feeds
      PROVE  \E k \in cacheLoads' : k.key = g /\ k.mode = "foreground"
  <2>1. g # f /\ g \in foreground
    OBVIOUS
  <2>2. PICK k \in cacheLoads : k.key = g /\ k.mode = "foreground"
    BY <2>1 DEF CacheInv, LoadsSound
  <2> QED
    BY <1>1, <1>4, <2>1, <2>2 DEF Cache!WaitFor
<1> QED
  BY <1>6, <1>7, <1>8 DEF LoadsSound

\* A feed is stored, and given to who waited for it.
LEMMA FinishFeedKeeps ==
    ASSUME Cache!MarketCacheAssumption, CacheInv, NEW l \in cacheLoads, Cache!FinishFeed(l)
    PROVE  CacheInv' /\ Forward
<1>1. PICK f \in Feeds : f = l.key
  BY DEF Cache!FinishFeed
<1>2. PICK v : v = l.got
  OBVIOUS
<1>3. /\ FeedLoad(l) /\ Registered(l) /\ l.mode \in Modes /\ l.run \in 0 .. LoadTime
      /\ v # None /\ v \in Cache!Values({f}) /\ "list" \notin Feeds
  <2>1. FeedLoad(l)
    BY <1>1, LoadsOfFeeds DEF CacheInv
  <2> QED
    BY <1>1, <1>2, <2>1, LoadsOfFeeds, CacheConstants DEF CacheInv, Cache!FinishFeed, FeedLoad
<1>4. /\ ~v.stale /\ v.age <= l.run /\ v.versions[f] \in {"old", "new"}
      /\ Cache!Rank(v.versions[f]) <= Cache!Rank(published)
      /\ Has(f) => Cache!Rank(Held(f)) <= Cache!Rank(v.versions[f])
  BY <1>1, <1>2, <1>3 DEF FeedLoad, FetchedSound
<1>5. PICK e : e = [since |-> 0, value |-> v]
  OBVIOUS
<1>6. e.since = 0 /\ e.value = v /\ e \in Cache!Entries({f}) /\ e # None
  <2>1. e.since = 0 /\ e.value = v /\ e \in Cache!Entries({f})
    BY <1>3, <1>5, CacheConstants DEF Cache!Entries
  <2> QED
    BY <2>1 DEF Cache!MarketCacheAssumption
<1>7. /\ cacheEntry' = [k \in Cache!EntryKeys |-> IF k = f THEN e ELSE cacheEntry[k]]
      /\ published' = published /\ answer' = answer
  BY <1>1, <1>2, <1>5 DEF Cache!FinishFeed, Cache!Store, CacheInv, EntriesSound
<1>8. /\ cacheEntry'[f] = e /\ \A k \in Cache!EntryKeys \ {f} : cacheEntry'[k] = cacheEntry[k]
      /\ Has(f)' /\ Held(f)' = v.versions[f]
  <2>1. cacheEntry'[f] = e /\ \A k \in Cache!EntryKeys \ {f} : cacheEntry'[k] = cacheEntry[k]
    BY <1>7, CacheConstants
  <2> QED
    BY <1>6, <2>1 DEF Has, Held
<1>9. Advanced(f)
  BY <1>4, <1>7, <1>8 DEF Advanced
<1>10. EntriesSound'
  <2>1. FeedEntrySound(f)'
    <3>1. v.age <= LoadTime
      <4>1. v.age \in Nat
        BY <1>3, ValueOfFeed
      <4> QED
        BY <1>3, <1>4, <4>1, CacheConstants
    <3> QED
      BY <1>4, <1>6, <1>7, <1>8, <3>1, CacheConstants DEF FeedEntrySound
  <2>2. ASSUME NEW g \in Feeds, g # f PROVE FeedEntrySound(g)'
    <3>1. cacheEntry'[g] = cacheEntry[g]
      BY <1>8, <2>2, CacheConstants
    <3> QED
      BY <1>7, <3>1 DEF CacheInv, EntriesSound, FeedEntrySound, Has, Held
  <2>3. ListEntrySound'
    <3>1. cacheEntry'["list"] = cacheEntry["list"]
      BY <1>3, <1>8, CacheConstants
    <3>2. ASSUME Has("list"), NEW g \in Feeds, Shown(g) # "empty"
          PROVE  Has(g)' /\ Cache!Rank(Shown(g)) <= Cache!Rank(Held(g)')
      <4>1. Has(g) /\ Cache!Rank(Shown(g)) <= Cache!Rank(Held(g))
        BY <3>2 DEF CacheInv, EntriesSound, ListEntrySound
      <4>2. CASE g # f
        <5>1. cacheEntry'[g] = cacheEntry[g]
          BY <1>8, <4>2, CacheConstants
        <5> QED
          BY <4>1, <5>1 DEF Has, Held
      <4>3. CASE g = f
        <5>1. /\ Cache!Rank(Shown(f)) \in 0 .. 2 /\ Cache!Rank(Held(f)) \in 0 .. 2
              /\ Cache!Rank(v.versions[f]) \in 0 .. 2
          BY RankIsNumber
        <5>2. Cache!Rank(Shown(f)) <= Cache!Rank(v.versions[f])
          BY <1>4, <4>1, <4>3, <5>1
        <5> QED
          BY <1>8, <4>3, <5>2
      <4> QED
        BY <4>2, <4>3
    <3>3. (Has("list") <=> Has("list")') /\ \A g \in Feeds : Shown(g)' = Shown(g)
      BY <3>1 DEF Has, Shown
    <3> QED
      BY <3>1, <3>2, <3>3 DEF CacheInv, EntriesSound, ListEntrySound
  <2>4. cacheEntry' = [k \in Cache!EntryKeys |-> cacheEntry'[k]]
    BY <1>7
  <2> QED
    BY <1>7, <2>1, <2>2, <2>3, <2>4 DEF CacheInv, EntriesSound
<1>11. LoadsSound'
  <2>1. CASE l.mode = "foreground"
    <3>1. /\ cacheLoads' = Cache!GoOn(f, v) \ {l}
          /\ foreground' = foreground \ {f} /\ background' = background
      BY <1>1, <1>2, <2>1 DEF Cache!FinishFeed, Cache!Released
    <3>2. v.versions[f] # "empty" => (Has(f)' /\ Cache!Rank(v.versions[f]) <= Cache!Rank(Held(f)'))
      BY <1>8, RankIsNumber DEF Cache!Rank
    <3> QED
      BY <1>1, <1>3, <1>4, <1>9, <2>1, <3>1, <3>2, WaitEnds
  <2>2. CASE l.mode = "background"
    <3>1. /\ cacheLoads' = cacheLoads \ {l}
          /\ foreground' = foreground /\ background' = background \ {f}
      BY <1>1, <2>2 DEF Cache!FinishFeed, Cache!Released
    <3> QED
      BY <1>1, <1>9, <2>2, <3>1, RefreshEnds
  <2> QED
    BY <1>3, <2>1, <2>2 DEF Modes
<1>12. Forward
  <2> SUFFICES ASSUME NEW k \in Cache!EntryKeys, Has(k)
               PROVE  /\ Has(k)'
                      /\ \A g \in DOMAIN cacheEntry[k].value.versions :
                             Cache!Rank(cacheEntry'[k].value.versions[g])
                                 >= Cache!Rank(cacheEntry[k].value.versions[g])
    BY DEF Forward, Has
  <2>1. CASE k # f
    BY <1>8, <2>1 DEF Has, Cache!Rank
  <2>2. CASE k = f
    <3>1. DOMAIN cacheEntry[f].value.versions = {f}
      BY <2>2, EntryOfFeed DEF CacheInv, Cache!Values
    <3>2. Cache!Rank(Held(f)') >= Cache!Rank(Held(f))
      <4>1. Cache!Rank(Held(f)) \in 0 .. 2 /\ Cache!Rank(v.versions[f]) \in 0 .. 2
        BY RankIsNumber
      <4> QED
        BY <1>4, <1>8, <2>2, <4>1
    <3> QED
      BY <1>8, <2>2, <3>1, <3>2 DEF Held
  <2> QED
    BY <2>1, <2>2
<1> QED
  BY <1>7, <1>10, <1>11, <1>12 DEF CacheInv, Cache!HonestAnswers

\* A feed that may fail does, and a list goes on without it.
LEMMA FailFeedKeeps ==
    ASSUME Cache!MarketCacheAssumption, CacheInv, NEW l \in cacheLoads, Cache!FailFeed(l)
    PROVE  CacheInv' /\ Forward
<1>1. PICK f \in Feeds : f = l.key
  BY DEF Cache!FailFeed, Cache!MarketCacheAssumption
<1>2. PICK v : v = Cache!Empty(f)
  OBVIOUS
<1>3. v \in Cache!Values({f}) /\ v.versions[f] = "empty" /\ v.stale = TRUE
  BY <1>2, CacheConstants DEF Cache!Empty, Cache!Value, Cache!Values, Cache!Versions
<1>4. UNCHANGED <<published, cacheEntry, answer>>
  BY DEF Cache!FailFeed
<1>5. Advanced(f)
  BY <1>4 DEF Advanced, Has, Held, Cache!Rank
<1>6. EntriesSound' /\ Forward
  BY <1>4, EntriesUnchanged DEF CacheInv, EntriesSound, Cache!Rank
<1>7. LoadsSound'
  <2>1. CASE l.mode = "foreground"
    <3>1. /\ cacheLoads' = Cache!GoOn(f, v) \ {l}
          /\ foreground' = foreground \ {f} /\ background' = background
      BY <1>1, <1>2, <2>1 DEF Cache!FailFeed, Cache!Released
    <3> QED
      BY <1>1, <1>3, <1>5, <2>1, <3>1, WaitEnds
  <2>2. CASE l.mode = "background"
    <3>1. /\ cacheLoads' = cacheLoads \ {l}
          /\ foreground' = foreground /\ background' \subseteq background
          /\ background \ {f} \subseteq background'
      BY <1>1, <2>2 DEF Cache!FailFeed, Cache!Released
    <3>2. background' = background \ {f}
      BY <1>1, <2>2 DEF Cache!FailFeed, Cache!Released
    <3> QED
      BY <1>1, <1>5, <2>2, <3>1, <3>2, RefreshEnds
  <2> QED
    BY <2>1, <2>2, LoadsOfFeeds DEF CacheInv, Modes
<1> QED
  BY <1>4, <1>6, <1>7 DEF CacheInv, Cache!HonestAnswers

\* A feed that may not fail does: the lists that wait for it end.
LEMMA FailRequiredKeeps ==
    ASSUME Cache!MarketCacheAssumption, CacheInv, NEW l \in cacheLoads, Cache!FailRequired(l)
    PROVE  CacheInv' /\ Forward
<1>1. PICK f \in Feeds : f = l.key
  BY DEF Cache!FailRequired
<1>2. PICK failing : failing = IF l.mode = "foreground" THEN Cache!WaitFor(f) ELSE {}
  OBVIOUS
<1>3. UNCHANGED <<published, cacheEntry>> /\ cacheLoads' = cacheLoads \ (failing \cup {l})
  BY <1>1, <1>2 DEF Cache!FailRequired
<1>4. EntriesSound' /\ Forward
  BY <1>3, EntriesUnchanged DEF CacheInv, EntriesSound, Cache!Rank
<1>5. /\ \A w \in failing : w \in cacheLoads /\ w.key = "list" /\ w.got[f] = None
      /\ l.mode = "foreground" =>
             \A w \in cacheLoads : w.key = "list" /\ w.got[f] = None => w \in failing
  BY <1>2 DEF Cache!WaitFor
<1>6. "list" \notin Feeds /\ l.mode \in Modes
  BY LoadsOfFeeds, CacheConstants DEF CacheInv
<1>7. /\ foreground' \subseteq foreground /\ background' \subseteq background
      /\ l.mode = "foreground" => f \notin foreground'
      /\ foreground \ {f, "list"} \subseteq foreground' /\ background \ {f, "list"} \subseteq background'
      /\ "list" \in foreground \ foreground' => \E w \in failing : TRUE
      /\ "list" \in background \ background' => \E w \in failing : TRUE
      /\ l.mode = "background" => foreground' = foreground
  <2>1. PICK modes : modes = {w.mode : w \in failing}
    OBVIOUS
  <2>2. /\ foreground' = (IF l.mode = "foreground" THEN foreground \ {f} ELSE foreground)
                            \ (IF "foreground" \in modes THEN {"list"} ELSE {})
        /\ background' = (IF l.mode = "background" THEN background \ {f} ELSE background)
                            \ (IF "background" \in modes THEN {"list"} ELSE {})
    BY <1>1, <1>2, <2>1 DEF Cache!FailRequired
  <2>3. modes # {} => \E w \in failing : TRUE
    BY <2>1
  <2>4. l.mode = "background" => modes = {}
    BY <1>2, <2>1
  <2> QED
    BY <1>1, <1>6, <2>2, <2>3, <2>4
<1>8. ASSUME NEW k \in cacheLoads'
      PROVE  (FeedLoad(k) \/ ListLoad(k))' /\ Registered(k)'
  <2>1. k \in cacheLoads /\ k # l /\ k \notin failing
    BY <1>3
  <2>2. (FeedLoad(k) \/ ListLoad(k))'
    BY <1>3, <2>1, LoadKept DEF CacheInv, Cache!Rank
  <2>3. k.key # f
    BY <1>1, <2>1 DEF CacheInv, LoadsSound, LoadsAlone
  <2>4. (k.key \in foreground => k.key \in foreground') /\ (k.key \in background => k.key \in background')
    <3>1. CASE k.key = "list"
      <4>1. ~ \E w \in failing : TRUE
        BY <1>5, <2>1, <3>1 DEF CacheInv, LoadsSound, LoadsAlone
      <4> QED
        BY <1>7, <3>1, <4>1
    <3>2. CASE k.key # "list"
      BY <1>7, <2>3, <3>2
    <3> QED
      BY <3>1, <3>2
  <2> QED
    BY <1>3, <2>1, <2>2, <2>4 DEF CacheInv, LoadsSound, Registered, Has
<1>9. LoadsAlone'
  BY <1>3 DEF CacheInv, LoadsSound, LoadsAlone
<1>10. ASSUME NEW g \in foreground' \cap Feeds
       PROVE  \E k \in cacheLoads' : k.key = g /\ k.mode = "foreground"
  <2>1. PICK k \in cacheLoads : k.key = g /\ k.mode = "foreground"
    BY <1>7 DEF CacheInv, LoadsSound
  <2>2. k # l /\ k \notin failing
    BY <1>1, <1>5, <1>6, <1>7, <2>1
  <2> QED
    BY <1>3, <2>1, <2>2
<1>11. ASSUME NEW w \in cacheLoads', w.key = "list", NEW g \in Feeds, w.got[g] = None
       PROVE  WaitedOn(w, g)'
  <2>1. PICK k \in cacheLoads : k.key = g /\ k.mode = "foreground" /\ Bounded(w, FeedAge + k.run)
    BY <1>3, <1>11 DEF CacheInv, LoadsSound, WaitedOn
  <2>2. k # l /\ k \notin failing
    <3>1. k \notin failing
      BY <1>5, <1>6, <2>1
    <3>2. ASSUME k = l PROVE FALSE
      BY <1>1, <1>3, <1>5, <1>11, <2>1, <3>2
    <3> QED
      BY <3>1, <3>2
  <2> QED
    BY <1>3, <2>1, <2>2 DEF WaitedOn, Bounded
<1>12. LoadsSound'
  BY <1>8, <1>9, <1>10, <1>11 DEF LoadsSound
<1>13. Cache!HonestAnswers'
  <2>1. \/ answer' = answer
        \/ answer' = [age |-> Cache!Recent + 1, stale |-> TRUE, empty |-> FALSE]
    BY DEF Cache!FailRequired
  <2> QED
    BY <2>1 DEF CacheInv, Cache!HonestAnswers
<1> QED
  BY <1>4, <1>12, <1>13 DEF CacheInv

\* What a list is built of is as sound as what it got.
LEMMA BuiltSound ==
    ASSUME Cache!MarketCacheAssumption, CacheInv, NEW l \in cacheLoads, Cache!Ready(l)
    PROVE  /\ Cache!Built(l) \in Cache!Values(Feeds)
           /\ \A f \in Feeds : Cache!Built(l).versions[f] = l.got[f].versions[f]
           /\ ~Cache!Built(l).stale =>
                  /\ \A f \in Feeds : Cache!Built(l).versions[f] # "empty"
                  /\ Cache!Built(l).age <= FeedAge + LoadTime
<1>1. ListLoad(l) /\ \A f \in Feeds : l.got[f] # None
  BY LoadsOfFeeds DEF CacheInv, Cache!Ready
<1>2. \A f \in Feeds : l.got[f] \in Cache!Values({f})
  BY <1>1 DEF ListLoad
<1>3. ASSUME NEW f \in Feeds
      PROVE  /\ l.got[f].versions[f] \in {"empty", "old", "new"}
             /\ l.got[f].age \in 0 .. Cache!Recent + 1 /\ l.got[f].stale \in BOOLEAN
  <2>1. PICK v \in Cache!Values({f}) : v = l.got[f]
    BY <1>2
  <2>2. /\ v.versions[f] \in {"empty", "old", "new"} /\ v.age \in Nat /\ v.stale \in BOOLEAN
        /\ v.age <= Cache!Recent + 1
    BY ValueOfFeed
  <2> QED
    BY <2>1, <2>2, CacheConstants
<1>4. PICK ages : ages = {l.got[f].age : f \in Feeds}
  OBVIOUS
<1>5. ages \in SUBSET (0 .. Cache!Recent + 1) /\ ages # {}
  BY <1>3, <1>4, CacheConstants
<1>6. \E m \in ages : \A n \in ages : m >= n
  <2>1. PICK B \in Nat : B = Cache!Recent + 1
    BY CacheConstants
  <2>2. ages \in SUBSET (0 .. B)
    BY <1>5, <2>1
  <2> QED
    BY <1>5, <2>2, LargestExists
<1>7. PICK max : max = Cache!Max(ages)
  OBVIOUS
<1>8. max \in ages
  BY <1>6, <1>7, Zenon DEF Cache!Max
<1>9. PICK versions : versions = [f \in Feeds |-> l.got[f].versions[f]]
  OBVIOUS
<1>10. PICK stale : stale = Cache!Merge(l.got)
  OBVIOUS
<1>11. Cache!Built(l) = [versions |-> versions, age |-> max, stale |-> stale]
  BY <1>4, <1>7, <1>9, <1>10 DEF Cache!Built, Cache!Value
<1>12. /\ stale \in BOOLEAN /\ max \in 0 .. Cache!Recent + 1
       /\ versions \in [Feeds -> Cache!Versions]
       /\ \A f \in Feeds : versions[f] = l.got[f].versions[f]
  BY <1>3, <1>5, <1>8, <1>9, <1>10 DEF Cache!Merge, Cache!Versions
<1>13. ASSUME ~stale PROVE (\A f \in Feeds : versions[f] # "empty") /\ max <= FeedAge + LoadTime
  <2>1. \A f \in Feeds : ~l.got[f].stale
    BY <1>10, <1>13 DEF Cache!Merge
  <2>2. PICK f \in Feeds : max = l.got[f].age
    BY <1>4, <1>8
  <2> QED
    BY <1>1, <1>12, <2>1, <2>2 DEF ListLoad, Bounded, GotSound
<1> QED
  BY <1>11, <1>12, <1>13 DEF Cache!Values

\* The list is stored, and answered to those who waited for it.
LEMMA FinishListKeeps ==
    ASSUME Cache!MarketCacheAssumption, CacheInv, NEW l \in cacheLoads, Cache!FinishList(l)
    PROVE  CacheInv' /\ Forward
<1>1. l.key = "list" /\ Cache!Ready(l) /\ ListLoad(l) /\ l.mode \in Modes /\ "list" \notin Feeds
  BY LoadsOfFeeds, CacheConstants DEF CacheInv, Cache!FinishList, Cache!Ready
<1>2. PICK v : v = Cache!Built(l)
  OBVIOUS
<1>3. /\ v \in Cache!Values(Feeds)
      /\ \A f \in Feeds : v.versions[f] = l.got[f].versions[f]
      /\ ~v.stale => (\A f \in Feeds : v.versions[f] # "empty") /\ v.age <= FeedAge + LoadTime
  BY <1>1, <1>2, BuiltSound
<1>4. PICK e : e = [since |-> 0, value |-> v]
  OBVIOUS
<1>5. e.since = 0 /\ e.value = v /\ e \in Cache!Entries(Feeds) /\ e # None
  <2>1. e.since = 0 /\ e.value = v /\ e \in Cache!Entries(Feeds)
    BY <1>3, <1>4, CacheConstants DEF Cache!Entries
  <2> QED
    BY <2>1 DEF Cache!MarketCacheAssumption
<1>6. /\ cacheEntry' = [k \in Cache!EntryKeys |-> IF k = "list" THEN e ELSE cacheEntry[k]]
      /\ published' = published /\ cacheLoads' = cacheLoads \ {l}
      /\ foreground' = IF l.mode = "foreground" THEN foreground \ {"list"} ELSE foreground
      /\ background' = IF l.mode = "background" THEN background \ {"list"} ELSE background
  BY <1>1, <1>2, <1>4 DEF Cache!FinishList, Cache!Store, Cache!Released, CacheInv, EntriesSound
<1>7. /\ cacheEntry'["list"] = e /\ \A f \in Feeds : cacheEntry'[f] = cacheEntry[f]
      /\ \A f \in Feeds : /\ Has(f)' <=> Has(f)
                          /\ Held(f)' = Held(f) /\ Shown(f)' = v.versions[f]
  <2>1. cacheEntry'["list"] = e /\ \A f \in Feeds : cacheEntry'[f] = cacheEntry[f]
    BY <1>1, <1>6, CacheConstants
  <2> QED
    BY <1>5, <2>1 DEF Has, Held, Shown
<1>8. ASSUME NEW f \in Feeds
      PROVE  /\ v.versions[f] # "empty" => (Has(f) /\ Cache!Rank(v.versions[f]) <= Cache!Rank(Held(f)))
             /\ Has("list") => Cache!Rank(Shown(f)) <= Cache!Rank(v.versions[f])
  <2>1. GotSound(l, f) /\ l.got[f] # None
    BY <1>1 DEF ListLoad, Cache!Ready
  <2> QED
    BY <1>3, <2>1 DEF GotSound
<1>9. EntriesSound'
  <2>1. ASSUME NEW f \in Feeds PROVE FeedEntrySound(f)'
    BY <1>6, <1>7 DEF CacheInv, EntriesSound, FeedEntrySound, Has, Held
  <2>2. ListEntrySound'
    <3>1. ~v.stale => v.age <= FeedAge + LoadTime + 0
      <4>1. v.age \in Nat
        BY <1>3, CacheConstants DEF Cache!Values
      <4> QED
        BY <1>3, <4>1, CacheConstants
    <3> QED
      BY <1>3, <1>5, <1>7, <1>8, <3>1 DEF ListEntrySound
  <2>3. cacheEntry' = [k \in Cache!EntryKeys |-> cacheEntry'[k]]
    BY <1>6
  <2> QED
    BY <1>6, <2>1, <2>2, <2>3 DEF CacheInv, EntriesSound
<1>10. ASSUME NEW k \in cacheLoads'
       PROVE  k \in cacheLoads /\ k.key \in Feeds /\ FeedLoad(k)' /\ Registered(k)'
  <2>1. k \in cacheLoads /\ k.key \in Feeds
    BY <1>1, <1>6, LoadsOfFeeds DEF CacheInv, LoadsSound, LoadsAlone
  <2>2. FeedLoad(k)
    BY <2>1, LoadsOfFeeds DEF CacheInv
  <2>3. FetchedSound(k)'
    BY <1>6, <1>7, <2>1, <2>2 DEF FeedLoad, FetchedSound
  <2>4. Registered(k)'
    BY <1>1, <1>6, <1>7, <2>1 DEF CacheInv, LoadsSound, Registered
  <2> QED
    BY <2>1, <2>2, <2>3, <2>4 DEF FeedLoad
<1>11. LoadsSound'
  <2>1. LoadsAlone'
    BY <1>6 DEF CacheInv, LoadsSound, LoadsAlone
  <2>2. \A g \in foreground' \cap Feeds : \E k \in cacheLoads' : k.key = g /\ k.mode = "foreground"
    BY <1>1, <1>6 DEF CacheInv, LoadsSound
  <2> QED
    BY <1>1, <1>10, <2>1, <2>2 DEF LoadsSound
<1>12. Cache!HonestAnswers'
  <2>1. \/ answer' = answer
        \/ /\ answer'.age = v.age /\ answer'.stale = (v.stale \/ FALSE)
           /\ answer'.empty = ("empty" \in {v.versions[f] : f \in Feeds})
    BY <1>2 DEF Cache!FinishList, Cache!Answer
  <2>2. ~v.stale => v.age <= Cache!Recent
    <3>1. v.age \in Nat
      BY <1>3, CacheConstants DEF Cache!Values
    <3> QED
      BY <1>3, <3>1, CacheConstants
  <2> QED
    BY <1>3, <2>1, <2>2 DEF CacheInv, Cache!HonestAnswers
<1>13. Forward
  <2> SUFFICES ASSUME NEW k \in Cache!EntryKeys, Has(k)
               PROVE  /\ Has(k)'
                      /\ \A g \in DOMAIN cacheEntry[k].value.versions :
                             Cache!Rank(cacheEntry'[k].value.versions[g])
                                 >= Cache!Rank(cacheEntry[k].value.versions[g])
    BY DEF Forward, Has
  <2>1. CASE k # "list"
    BY <1>7, <2>1, CacheConstants DEF Has, Cache!Rank
  <2>2. CASE k = "list"
    <3>1. DOMAIN cacheEntry["list"].value.versions = Feeds
      BY <2>2, EntryOfList DEF CacheInv, Cache!Values
    <3>2. ASSUME NEW g \in Feeds
          PROVE  Cache!Rank(Shown(g)') >= Cache!Rank(Shown(g))
      <4>1. Cache!Rank(Shown(g)) \in 0 .. 2 /\ Cache!Rank(v.versions[g]) \in 0 .. 2
        BY RankIsNumber
      <4> QED
        BY <1>7, <1>8, <2>2, <4>1
    <3>3. cacheEntry'["list"] # None
      BY <1>5, <1>7
    <3> QED
      BY <2>2, <3>1, <3>2, <3>3 DEF Shown, Has
  <2> QED
    BY <2>1, <2>2
<1> QED
  BY <1>9, <1>11, <1>12, <1>13 DEF CacheInv

LEMMA UpstreamKeeps ==
    ASSUME Cache!MarketCacheAssumption, CacheInv, Cache!Publish \/ Cache!Outage
    PROVE  CacheInv' /\ Forward
<1>1. /\ published' \in {"old", "new"} /\ Cache!Rank(published) <= Cache!Rank(published')
      /\ UNCHANGED <<cacheEntry, cacheLoads, foreground, background, answer>>
  BY DEF CacheInv, EntriesSound, Cache!Publish, Cache!Outage, Cache!Rank
<1>2. EntriesSound' /\ Forward
  BY <1>1, EntriesUnchanged DEF CacheInv
<1>3. LoadsSound'
  BY <1>1, LoadsUnchanged DEF CacheInv
<1> QED
  BY <1>1, <1>2, <1>3 DEF CacheInv, Cache!HonestAnswers

-----------------------------------------------------------------------------
(* The clock makes entries and loads older by one.                         *)

LEMMA AgedValue ==
    ASSUME Cache!MarketCacheAssumption, NEW feeds, NEW v \in Cache!Values(feeds)
    PROVE  /\ Cache!Aged(v) \in Cache!Values(feeds)
           /\ Cache!Aged(v).versions = v.versions /\ Cache!Aged(v).stale = v.stale
           /\ v.age \in Nat /\ Cache!Aged(v).age <= v.age + 1
<1>1. PICK age : age = Cache!Older(v.age)
  OBVIOUS
<1>2. v.age \in 0 .. Cache!Recent + 1
  BY DEF Cache!Values
<1>3. age \in 0 .. Cache!Recent + 1 /\ age <= v.age + 1 /\ v.age \in Nat
  BY <1>1, <1>2, CacheConstants DEF Cache!Older
<1>4. Cache!Aged(v) = [v EXCEPT !.age = age]
  BY <1>1 DEF Cache!Aged
<1> QED
  BY <1>3, <1>4 DEF Cache!Values

\* What a tick makes of an entry.
LEMMA AgedEntry ==
    ASSUME Cache!MarketCacheAssumption, Cache!Tick, NEW k \in Cache!EntryKeys, NEW feeds, Has(k),
           cacheEntry[k] \in Cache!Entries(feeds), None \notin Cache!Entries(feeds)
    PROVE  /\ Has(k)' /\ cacheEntry'[k] \in Cache!Entries(feeds)
           /\ cacheEntry'[k].value.versions = cacheEntry[k].value.versions
           /\ cacheEntry'[k].value.stale = cacheEntry[k].value.stale
           /\ cacheEntry[k].value.age \in Nat /\ cacheEntry'[k].value.age \in Nat
           /\ cacheEntry'[k].value.age <= cacheEntry[k].value.age + 1
           /\ cacheEntry[k].since \in Nat
           /\ cacheEntry'[k].since < TTL => cacheEntry[k].since < TTL
                                            /\ cacheEntry'[k].since = cacheEntry[k].since + 1
<1>1. PICK v \in Cache!Values(feeds), n \in 0 .. TTL : cacheEntry[k] = [since |-> n, value |-> v]
  BY DEF Cache!Entries
<1>2. PICK m : m = IF n >= TTL THEN n ELSE n + 1
  OBVIOUS
<1>3. PICK u : u = Cache!Aged(v)
  OBVIOUS
<1>4. cacheEntry'[k] = [since |-> m, value |-> u]
  <2>1. cacheEntry'[k] = [since |-> IF Cache!Expired(k) THEN cacheEntry[k].since
                                    ELSE cacheEntry[k].since + 1,
                          value |-> Cache!Aged(cacheEntry[k].value)]
    BY DEF Cache!Tick, Has
  <2>2. cacheEntry[k].since = n /\ cacheEntry[k].value = v
    BY <1>1
  <2>3. Cache!Expired(k) <=> n >= TTL
    BY <2>2 DEF Cache!Expired
  <2> QED
    BY <1>2, <1>3, <2>1, <2>2, <2>3
<1>5. /\ u \in Cache!Values(feeds) /\ u.versions = v.versions /\ u.stale = v.stale
      /\ v.age \in Nat /\ u.age <= v.age + 1
  BY <1>3, AgedValue
<1>6. m \in 0 .. TTL /\ (m < TTL => n < TTL /\ m = n + 1)
  BY <1>2, CacheConstants
<1>7. cacheEntry'[k] \in Cache!Entries(feeds)
  BY <1>4, <1>5, <1>6 DEF Cache!Entries
<1>8. u.age \in Nat
  BY <1>5, AgedValue
<1> QED
  BY <1>1, <1>4, <1>5, <1>6, <1>7, <1>8 DEF Has

LEMMA TickEntries ==
    ASSUME Cache!MarketCacheAssumption, CacheInv, Cache!Tick
    PROVE  /\ EntriesSound' /\ Forward
           /\ \A k \in Cache!EntryKeys : Has(k)' <=> Has(k)
           /\ \A f \in Feeds : Has(f) => Held(f)' = Held(f)
           /\ Has("list") => \A f \in Feeds : Shown(f)' = Shown(f)
<1>1. published' = published /\ cacheEntry' = [k \in Cache!EntryKeys |-> cacheEntry'[k]]
  BY DEF Cache!Tick
<1>2. ASSUME NEW k \in Cache!EntryKeys, ~Has(k) PROVE ~Has(k)' /\ cacheEntry'[k] = None
  BY <1>2 DEF Cache!Tick, Has
<1>3. ASSUME NEW f \in Feeds, Has(f)
      PROVE  /\ Has(f)' /\ FeedEntrySound(f)'
             /\ cacheEntry'[f].value.versions = cacheEntry[f].value.versions
  <2>1. cacheEntry[f] \in Cache!Entries({f}) /\ None \notin Cache!Entries({f}) /\ f \in Cache!EntryKeys
    BY <1>3, EntryOfFeed, CacheConstants DEF CacheInv, Cache!MarketCacheAssumption
  <2>2. /\ Has(f)' /\ cacheEntry'[f] \in Cache!Entries({f})
        /\ cacheEntry'[f].value.versions = cacheEntry[f].value.versions
        /\ cacheEntry'[f].value.stale = cacheEntry[f].value.stale
        /\ cacheEntry[f].value.age \in Nat /\ cacheEntry'[f].value.age \in Nat
        /\ cacheEntry'[f].value.age <= cacheEntry[f].value.age + 1
        /\ cacheEntry[f].since \in Nat
        /\ cacheEntry'[f].since < TTL => cacheEntry[f].since < TTL
                                         /\ cacheEntry'[f].since = cacheEntry[f].since + 1
    BY <1>3, <2>1, AgedEntry
  <2>3. cacheEntry'[f].since < TTL => cacheEntry'[f].value.age <= cacheEntry'[f].since + LoadTime
    <3>1. cacheEntry[f].since < TTL => cacheEntry[f].value.age <= cacheEntry[f].since + LoadTime
      BY <1>3, EntryOfFeed DEF CacheInv
    <3> QED
      BY <2>2, <3>1, CacheConstants
  <2>4. Held(f)' = Held(f)
    BY <2>2 DEF Held
  <2> QED
    BY <1>1, <1>3, <2>2, <2>3, <2>4, EntryOfFeed DEF CacheInv, FeedEntrySound
<1>4. ASSUME NEW f \in Feeds PROVE FeedEntrySound(f)' /\ (Has(f)' <=> Has(f)) /\ (Has(f) => Held(f)' = Held(f))
  <2>1. CASE Has(f)
    BY <1>3, <2>1 DEF Held
  <2>2. CASE ~Has(f)
    BY <1>2, <2>2, CacheConstants DEF FeedEntrySound, Has
  <2> QED
    BY <2>1, <2>2
<1>5. ASSUME Has("list")
      PROVE  /\ Has("list")' /\ ListEntrySound'
             /\ cacheEntry'["list"].value.versions = cacheEntry["list"].value.versions
  <2>1. /\ cacheEntry["list"] \in Cache!Entries(Feeds) /\ None \notin Cache!Entries(Feeds)
        /\ "list" \in Cache!EntryKeys
    BY <1>5, EntryOfList, CacheConstants DEF CacheInv, Cache!MarketCacheAssumption
  <2>2. /\ Has("list")' /\ cacheEntry'["list"] \in Cache!Entries(Feeds)
        /\ cacheEntry'["list"].value.versions = cacheEntry["list"].value.versions
        /\ cacheEntry'["list"].value.stale = cacheEntry["list"].value.stale
        /\ cacheEntry["list"].value.age \in Nat /\ cacheEntry'["list"].value.age \in Nat
        /\ cacheEntry'["list"].value.age <= cacheEntry["list"].value.age + 1
        /\ cacheEntry["list"].since \in Nat
        /\ cacheEntry'["list"].since < TTL => cacheEntry["list"].since < TTL
                                              /\ cacheEntry'["list"].since = cacheEntry["list"].since + 1
    BY <1>5, <2>1, AgedEntry
  <2>3. ListEntrySound
    BY DEF CacheInv, EntriesSound
  <2>4. ~cacheEntry["list"].value.stale =>
            (cacheEntry'["list"].since < TTL =>
                cacheEntry'["list"].value.age <= FeedAge + LoadTime + cacheEntry'["list"].since)
    <3> SUFFICES ASSUME ~cacheEntry["list"].value.stale, cacheEntry'["list"].since < TTL
                 PROVE  cacheEntry'["list"].value.age <= FeedAge + LoadTime + cacheEntry'["list"].since
      OBVIOUS
    <3>1. cacheEntry["list"].value.age <= FeedAge + LoadTime + cacheEntry["list"].since
      BY <1>5, <2>2, <2>3 DEF ListEntrySound
    <3> QED
      BY <2>2, <3>1, CacheConstants
  <2>5. \A f \in Feeds : Shown(f)' = Shown(f)
    BY <2>2 DEF Shown
  <2>6. ~cacheEntry["list"].value.stale => \A f \in Feeds : Shown(f)' # "empty"
    BY <1>5, <2>3, <2>5 DEF ListEntrySound
  <2>7. \A f \in Feeds : Shown(f)' # "empty" => (Has(f)' /\ Cache!Rank(Shown(f)') <= Cache!Rank(Held(f)'))
    BY <1>4, <1>5, <2>3, <2>5 DEF ListEntrySound
  <2> QED
    BY <2>2, <2>4, <2>6, <2>7 DEF ListEntrySound
<1>6. ListEntrySound'
  BY <1>2, <1>5, CacheConstants DEF ListEntrySound, Has
<1>7. EntriesSound'
  BY <1>1, <1>4, <1>6 DEF CacheInv, EntriesSound
<1>8. Forward
  BY <1>3, <1>5, CacheConstants DEF Forward, Has, Cache!Rank
<1>9. \A k \in Cache!EntryKeys : Has(k)' <=> Has(k)
  BY <1>2, <1>3, <1>5, CacheConstants
<1>10. Has("list") => \A f \in Feeds : Shown(f)' = Shown(f)
  BY <1>5 DEF Shown
<1> QED
  BY <1>4, <1>7, <1>8, <1>9, <1>10

AgedOrNone(got) == IF got = None THEN None ELSE Cache!Aged(got)

\* What a tick makes of a load.
Ticked(l) ==
    IF l.key = "list" THEN [l EXCEPT !.got = [f \in Feeds |-> AgedOrNone(@[f])]]
    ELSE [l EXCEPT !.run = @ + 1, !.got = AgedOrNone(@)]

LEMMA TickLoads ==
    ASSUME Cache!Tick
    PROVE  /\ cacheLoads' = {Ticked(l) : l \in cacheLoads}
           /\ \A l \in cacheLoads : l.run < LoadTime /\ ~Cache!Ready(l)
           /\ UNCHANGED <<published, foreground, background, answer>>
BY DEF Cache!Tick, Ticked, AgedOrNone

LEMMA TickedFeed ==
    ASSUME Cache!MarketCacheAssumption, CacheInv, Cache!Tick, NEW l \in cacheLoads, l.key \in Feeds
    PROVE  \E u : /\ u = Ticked(l) /\ u.key = l.key /\ u.mode = l.mode /\ u.run = l.run + 1
                  /\ FeedLoad(u)'
<1>1. /\ FeedLoad(l) /\ l.run < LoadTime /\ l.key # "list" /\ l.run \in 0 .. LoadTime
      /\ published' = published
  BY TickLoads, LoadsOfFeeds, CacheConstants DEF CacheInv
<1>2. PICK got : got = AgedOrNone(l.got)
  OBVIOUS
<1>3. PICK u : u = [key |-> l.key, mode |-> l.mode, got |-> got, run |-> l.run + 1]
  OBVIOUS
<1>4. u = Ticked(l)
  BY <1>1, <1>2, <1>3 DEF Ticked, FeedLoad
<1>5. CASE l.got = None
  <2>1. got = None
    BY <1>2, <1>5 DEF AgedOrNone
  <2>2. FeedLoad(u)'
    BY <1>1, <1>3, <2>1, CacheConstants DEF FeedLoad, FetchedSound
  <2> QED
    BY <1>3, <1>4, <2>2
<1>6. CASE l.got # None
  <2>1. PICK f \in Feeds : f = l.key
    OBVIOUS
  <2>2. PICK v \in Cache!Values({f}) : v = l.got
    BY <1>1, <1>6, <2>1 DEF FeedLoad
  <2>3. got = Cache!Aged(v)
    BY <1>2, <1>6, <2>2 DEF AgedOrNone
  <2>4. /\ got \in Cache!Values({f}) /\ got.versions = v.versions /\ got.stale = v.stale
        /\ v.age \in Nat /\ got.age <= v.age + 1
    BY <2>3, AgedValue
  <2>5. got.age \in Nat
    BY <2>4, AgedValue
  <2>6. v.age <= l.run
    BY <1>1, <1>6, <2>2 DEF FeedLoad, FetchedSound
  <2>7. got.age <= l.run + 1
    BY <1>1, <2>4, <2>5, <2>6
  <2>8. (Has(f)' <=> Has(f)) /\ (Has(f) => Held(f)' = Held(f))
    BY TickEntries, CacheConstants
  <2>9. FetchedSound(u)'
    BY <1>1, <1>3, <1>6, <2>1, <2>2, <2>4, <2>7, <2>8 DEF FeedLoad, FetchedSound
  <2>10. l.mode \in Modes /\ l.run + 1 \in 0 .. LoadTime
    BY <1>1, CacheConstants DEF FeedLoad
  <2>11. u \in [key : {u.key}, mode : Modes, got : Cache!Values({u.key}) \cup {None}, run : 0 .. LoadTime]
    BY <1>3, <2>1, <2>4, <2>10
  <2>12. FeedLoad(u)'
    BY <1>3, <2>9, <2>11 DEF FeedLoad
  <2> QED
    BY <1>3, <1>4, <2>12
<1> QED
  BY <1>5, <1>6

LEMMA TickedList ==
    ASSUME Cache!MarketCacheAssumption, CacheInv, Cache!Tick, NEW w \in cacheLoads, w.key = "list"
    PROVE  \E u : /\ u = Ticked(w) /\ u.key = "list" /\ u.mode = w.mode
                  /\ ListLoad(u)'
                  /\ \A f \in Feeds : u.got[f] = None <=> w.got[f] = None
                  /\ \A n \in Nat : Bounded(w, n) => Bounded(u, n + 1)
<1>1. /\ ListLoad(w) /\ ~Cache!Ready(w)
  BY TickLoads, LoadsOfFeeds DEF CacheInv
<1>2. PICK got : got = [f \in Feeds |-> AgedOrNone(w.got[f])]
  OBVIOUS
<1>3. PICK u : u = [key |-> "list", mode |-> w.mode, got |-> got, run |-> 0]
  OBVIOUS
<1>4. u = Ticked(w)
  BY <1>1, <1>2, <1>3 DEF Ticked, ListLoad
<1>5. u.key = "list" /\ u.mode = w.mode /\ u.got = got /\ u.run = 0
  BY <1>3
<1>6. ASSUME NEW f \in Feeds
      PROVE  /\ got[f] = None <=> w.got[f] = None
             /\ got[f] \in Cache!Values({f}) \cup {None}
             /\ w.got[f] # None => /\ got[f].versions[f] = w.got[f].versions[f]
                                   /\ got[f].stale = w.got[f].stale
                                   /\ w.got[f].age \in Nat /\ got[f].age \in Nat
                                   /\ got[f].age <= w.got[f].age + 1
  <2>1. CASE w.got[f] = None
    BY <1>2, <2>1 DEF AgedOrNone
  <2>2. CASE w.got[f] # None
    <3>1. PICK v \in Cache!Values({f}) : v = w.got[f]
      BY <1>1, <2>2 DEF ListLoad
    <3>2. PICK x : x = got[f]
      OBVIOUS
    <3>3. x = Cache!Aged(v)
      BY <1>2, <2>2, <3>1, <3>2 DEF AgedOrNone
    <3>4. /\ x \in Cache!Values({f}) /\ x.versions = v.versions /\ x.stale = v.stale
          /\ v.age \in Nat /\ x.age <= v.age + 1
      BY <3>3, AgedValue
    <3>5. x.age \in Nat
      BY <3>4, AgedValue
    <3>6. x # None
      BY <3>4 DEF Cache!MarketCacheAssumption
    <3> QED
      BY <2>2, <3>1, <3>2, <3>4, <3>5, <3>6
  <2> QED
    BY <2>1, <2>2
<1>7. ASSUME NEW n \in Nat, Bounded(w, n) PROVE Bounded(u, n + 1)
  <2> SUFFICES ASSUME NEW f \in Feeds, got[f] # None, ~got[f].stale
               PROVE  got[f].age <= n + 1
    BY <1>5 DEF Bounded
  <2>1. w.got[f] # None /\ ~w.got[f].stale /\ w.got[f].age \in Nat /\ got[f].age \in Nat
        /\ got[f].age <= w.got[f].age + 1
    BY <1>6
  <2>2. w.got[f].age <= n
    BY <1>7, <2>1 DEF Bounded
  <2> QED
    BY <2>1, <2>2
<1>8. ASSUME NEW f \in Feeds PROVE GotSound(u, f)'
  <2> SUFFICES ASSUME w.got[f] # None
               PROVE  GotSound(u, f)'
    BY <1>5, <1>6 DEF GotSound
  <2>1. GotSound(w, f)
    BY <1>1 DEF ListLoad
  <2>2. (Has(f)' <=> Has(f)) /\ (Has(f) => Held(f)' = Held(f))
    BY TickEntries, CacheConstants
  <2>3. (Has("list")' <=> Has("list")) /\ (Has("list") => Shown(f)' = Shown(f))
    BY TickEntries, CacheConstants
  <2> QED
    BY <1>5, <1>6, <2>1, <2>2, <2>3 DEF GotSound
<1>9. ~ \A f \in Feeds : got[f] # None
  BY <1>1, <1>6 DEF Cache!Ready, ListLoad
<1>10. got = [f \in Feeds |-> got[f]]
  BY <1>2
<1>11. u = [key |-> u.key, mode |-> u.mode, got |-> u.got, run |-> u.run]
  BY <1>3
<1>12. ListLoad(u)'
  BY <1>1, <1>5, <1>6, <1>8, <1>9, <1>10, <1>11 DEF ListLoad
<1>13. \A f \in Feeds : u.got[f] = None <=> w.got[f] = None
  BY <1>5, <1>6
<1> QED
  BY <1>4, <1>5, <1>7, <1>12, <1>13

LEMMA TickKeeps ==
    ASSUME Cache!MarketCacheAssumption, CacheInv, Cache!Tick PROVE CacheInv' /\ Forward
<1>1. ASSUME NEW l \in cacheLoads
      PROVE  \E u : /\ u = Ticked(l) /\ u.key = l.key /\ u.mode = l.mode
                    /\ (FeedLoad(u) \/ ListLoad(u))'
  BY TickedFeed, TickedList, LoadsOfFeeds DEF CacheInv
<1>2. ASSUME NEW k \in cacheLoads'
      PROVE  \E l \in cacheLoads : /\ k = Ticked(l) /\ k.key = l.key /\ k.mode = l.mode
                                   /\ (FeedLoad(k) \/ ListLoad(k))'
  BY <1>1, TickLoads
<1>3. \A l \in cacheLoads : Ticked(l) \in cacheLoads'
  BY TickLoads
<1>4. ASSUME NEW k \in cacheLoads' PROVE (FeedLoad(k) \/ ListLoad(k))' /\ Registered(k)'
  <2>1. PICK l \in cacheLoads : k.key = l.key /\ k.mode = l.mode
    BY <1>2
  <2>2. l.key \in Cache!EntryKeys /\ Registered(l)
    BY LoadsOfFeeds, CacheConstants DEF CacheInv
  <2>3. Has(l.key)' <=> Has(l.key)
    BY <2>2, TickEntries
  <2>4. Registered(k)'
    BY <2>1, <2>2, <2>3, TickLoads DEF Registered
  <2> QED
    BY <1>2, <2>4
<1>5. LoadsAlone'
  <2> SUFFICES ASSUME NEW k \in cacheLoads', NEW m \in cacheLoads', k.key = m.key
               PROVE  k = m
    BY DEF LoadsAlone
  <2>1. PICK l \in cacheLoads : k = Ticked(l) /\ k.key = l.key
    BY <1>2
  <2>2. PICK j \in cacheLoads : m = Ticked(j) /\ m.key = j.key
    BY <1>2
  <2>3. l = j
    BY <2>1, <2>2 DEF CacheInv, LoadsSound, LoadsAlone
  <2> QED
    BY <2>1, <2>2, <2>3
<1>6. ASSUME NEW g \in foreground' \cap Feeds
      PROVE  \E k \in cacheLoads' : k.key = g /\ k.mode = "foreground"
  <2>1. PICK l \in cacheLoads : l.key = g /\ l.mode = "foreground"
    BY TickLoads DEF CacheInv, LoadsSound
  <2>2. PICK u : u = Ticked(l) /\ u.key = l.key /\ u.mode = l.mode
    BY <1>1
  <2> QED
    BY <1>3, <2>1, <2>2
<1>7. ASSUME NEW k \in cacheLoads', k.key = "list", NEW g \in Feeds, k.got[g] = None
      PROVE  WaitedOn(k, g)'
  <2>1. PICK w \in cacheLoads : k = Ticked(w) /\ w.key = "list"
    BY <1>2, <1>7
  <2>2. /\ w.got[g] = None
        /\ \A n \in Nat : Bounded(w, n) => Bounded(k, n + 1)
    BY <1>7, <2>1, TickedList
  <2>3. PICK l \in cacheLoads : l.key = g /\ l.mode = "foreground" /\ Bounded(w, FeedAge + l.run)
    BY <2>1, <2>2 DEF CacheInv, LoadsSound, WaitedOn
  <2>4. PICK u : u = Ticked(l) /\ u.key = l.key /\ u.mode = l.mode /\ u.run = l.run + 1
    BY <2>3, TickedFeed
  <2>5. FeedAge + l.run \in Nat /\ FeedAge + u.run = (FeedAge + l.run) + 1
    BY <2>4, LoadsOfFeeds, CacheConstants DEF CacheInv
  <2>6. Bounded(k, FeedAge + u.run)
    BY <2>2, <2>3, <2>5
  <2>7. u \in cacheLoads' /\ u.key = g /\ u.mode = "foreground"
    BY <1>3, <2>3, <2>4
  <2> QED
    BY <2>6, <2>7 DEF WaitedOn, Bounded
<1>8. LoadsSound'
  BY <1>4, <1>5, <1>6, <1>7 DEF LoadsSound
<1> QED
  BY <1>8, TickEntries, TickLoads DEF CacheInv, Cache!HonestAnswers

\* One step of the cache.
LEMMA CacheStep ==
    ASSUME Cache!MarketCacheAssumption, CacheInv, [Cache!Next]_(Cache!vars)
    PROVE  CacheInv' /\ (Cache!Next => Forward)
<1>1. CASE UNCHANGED Cache!vars
  <2>1. UNCHANGED <<published, cacheEntry, cacheLoads, foreground, background, answer>>
    BY <1>1 DEF Cache!vars
  <2>2. EntriesSound' /\ Forward
    BY <2>1, EntriesUnchanged DEF CacheInv, EntriesSound, Cache!Rank
  <2>3. LoadsSound'
    BY <2>1, LoadsUnchanged DEF CacheInv, Cache!Rank
  <2> QED
    BY <2>1, <2>2, <2>3 DEF CacheInv, Cache!HonestAnswers
<1>2. CASE Cache!Next
  <2>1. CASE Cache!Ask
    BY <2>1, AskFreshKeeps, AskStaleKeeps, AskNothingKeeps DEF Cache!Ask
  <2>2. CASE \E l \in cacheLoads : Cache!Respond(l)
    BY <2>2, RespondKeeps
  <2>3. CASE Cache!Finish
    BY <2>3, FinishFeedKeeps, FailFeedKeeps, FailRequiredKeeps, FinishListKeeps DEF Cache!Finish
  <2>4. CASE Cache!Publish \/ Cache!Outage
    BY <2>4, UpstreamKeeps
  <2>5. CASE Cache!Tick
    BY <2>5, TickKeeps
  <2> QED
    BY <1>2, <2>1, <2>2, <2>3, <2>4, <2>5 DEF Cache!Next
<1> QED
  BY <1>1, <1>2

\* However readers, loads, refreshes, time-outs and outages interleave, for any feeds
\* and lifetimes, a list that is not marked stale is complete, and its oldest data
\* is at most two lifetimes and two requests old.
THEOREM ListsAlwaysHonest == Spec => []Cache!HonestAnswers
<1>0. Cache!MarketCacheAssumption
  OBVIOUS
<1>1. Cache!Init => CacheInv
  BY <1>0, CacheInit
<1>2. CacheInv /\ [Cache!Next]_(Cache!vars) => CacheInv'
  BY <1>0, CacheStep
<1>3. CacheInv => Cache!HonestAnswers
  BY DEF CacheInv
<1> QED
  BY <1>1, <1>2, <1>3, EveryServiceRuns, PTL

\* HonestAnswers: what is answered from the cache is marked for what it is, and
\* the stored copy lacks an outcome only by a collection that is under way or was
\* cut off.
THEOREM AnswersAlwaysHonest == Spec => []HonestAnswers
BY ListsAlwaysHonest, StoreAlwaysAsCollected, PTL DEF HonestAnswers

\* An entry is never replaced by something the upstream had before (NeverBack),
\* whichever loads overlap.
THEOREM EntriesNeverGoBack == Spec => NeverBack
<1>0. Cache!MarketCacheAssumption
  OBVIOUS
<1>1. Cache!Init => CacheInv
  BY <1>0, CacheInit
<1>2. CacheInv /\ [Cache!Next]_(Cache!vars) => CacheInv'
  BY <1>0, CacheStep
<1>3. CacheInv /\ [Cache!Next]_(Cache!vars) => [Forward]_(Cache!vars)
  BY <1>0, CacheStep
<1> QED
  BY <1>1, <1>2, <1>3, EveryServiceRuns, PTL DEF NeverBack, Cache!NeverBack, Forward
=============================================================================
