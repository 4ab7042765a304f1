----------------------------- MODULE MoneyProofs -----------------------------
(***************************************************************************)
(* Facts about the money operators that keep no state, for every account,  *)
(* every movement, every amount, every rate and every scale: one posting   *)
(* to the ledger, which the proofs about the machines that post rest on,   *)
(* and the fixed-point arithmetic.                                         *)
(***************************************************************************)
EXTENDS CoinPosting, MoneyArithmetic, SequenceTheorems, FiniteSetTheorems, TLAPS

-----------------------------------------------------------------------------
(* Lemmas about one posting, for every account and every movement.          *)

\* The empty account keeps the ledger's promise.
LEMMA EmptyAccountSound ==
    ASSUME NEW moves
    PROVE  /\ EmptyAccount \in Accounts(moves)
           /\ Sound(EmptyAccount)
           /\ \A acc \in Accounts(moves) : Continues(EmptyAccount, acc)
  BY MaxMicrosAssumption
     DEF EmptyAccount, Accounts, Sound, Chained, KeysUnique, Covered,
         AvailableAfter, ReservedAfter, Continues

\* What an account is made of.
LEMMA AccountTyped ==
    ASSUME NEW moves, NEW acc \in Accounts(moves)
    PROVE  /\ acc.available \in Int /\ acc.reserved \in Int
           /\ Len(acc.entries) \in Nat /\ DOMAIN acc.entries = 1 .. Len(acc.entries)
           /\ \A i \in DOMAIN acc.entries : acc.entries[i].move \in moves
<1> DEFINE E == [move : moves, availableAfter : Int, reservedAfter : Int]
<1>1. /\ acc.available \in Int /\ acc.reserved \in Int /\ acc.entries \in Seq(E)
  BY DEF Accounts
<1>2. \A e \in E : e.move \in moves
  OBVIOUS
<1> HIDE DEF E
<1>3. \A i \in DOMAIN acc.entries : acc.entries[i] \in E
  BY <1>1
<1> QED
  BY <1>1, <1>2, <1>3

\* Recording a movement with a fresh key and a sufficient balance keeps the
\* account sound, continues its history, and books exactly that movement.
LEMMA RecordSound ==
    ASSUME NEW moves, NEW acc \in Accounts(moves), NEW m \in moves,
           m.dA \in Int, m.dR \in Int,
           Sound(acc), ~HasKey(acc, m.key),
           Covers(acc.available, acc.reserved, m)
    PROVE  /\ Record(acc, m) \in Accounts(moves)
           /\ Sound(Record(acc, m))
           /\ Continues(acc, Record(acc, m))
           /\ HasKey(Record(acc, m), m.key)
           /\ SameMovement(Record(acc, m), m)
<1> DEFINE new == Record(acc, m)
           e == [move |-> m, availableAfter |-> acc.available + m.dA,
                 reservedAfter |-> acc.reserved + m.dR]
           E == [move : moves, availableAfter : Int, reservedAfter : Int]
           n == Len(acc.entries)
<1>1. /\ acc.entries \in Seq(E) /\ n \in Nat /\ DOMAIN acc.entries = 1 .. n
      /\ acc.available \in Int /\ acc.reserved \in Int /\ e \in E
  BY DEF Accounts
<1>2. /\ new.entries = Append(acc.entries, e)
      /\ new.available = acc.available + m.dA
      /\ new.reserved = acc.reserved + m.dR
  BY DEF Record
<1>3. /\ new.entries \in Seq(E)
      /\ Len(new.entries) = n + 1
      /\ DOMAIN new.entries = 1 .. (n + 1)
      /\ \A i \in 1 .. n : new.entries[i] = acc.entries[i]
      /\ new.entries[n + 1] = e
  BY <1>1, <1>2
<1>4. new \in Accounts(moves)
  BY <1>1, <1>3 DEF Accounts, Record
<1> HIDE DEF new, E, n
<1>5. Continues(acc, new)
  BY <1>1, <1>3 DEF Continues, n
<1>6. \A i \in 0 .. n : /\ AvailableAfter(new, i) = AvailableAfter(acc, i)
                        /\ ReservedAfter(new, i) = ReservedAfter(acc, i)
  BY <1>1, <1>3 DEF AvailableAfter, ReservedAfter
<1>7. /\ acc.available = AvailableAfter(acc, n)
      /\ acc.reserved = ReservedAfter(acc, n)
  BY DEF Sound, Chained, n
<1>8. /\ AvailableAfter(new, n + 1) = acc.available + m.dA
      /\ ReservedAfter(new, n + 1) = acc.reserved + m.dR
  BY <1>1, <1>3 DEF AvailableAfter, ReservedAfter
<1>9. Chained(new)
  <2>1. ASSUME NEW i \in DOMAIN new.entries
        PROVE  /\ AvailableAfter(new, i)
                    = AvailableAfter(new, i - 1) + new.entries[i].move.dA
               /\ ReservedAfter(new, i)
                    = ReservedAfter(new, i - 1) + new.entries[i].move.dR
    <3>1. CASE i \in 1 .. n
      <4>1. /\ AvailableAfter(acc, i)
                 = AvailableAfter(acc, i - 1) + acc.entries[i].move.dA
            /\ ReservedAfter(acc, i)
                 = ReservedAfter(acc, i - 1) + acc.entries[i].move.dR
        BY <1>1, <3>1 DEF Sound, Chained
      <4>2. i \in 0 .. n /\ i - 1 \in 0 .. n
        BY <1>1, <3>1
      <4>3. QED
        BY <1>3, <1>6, <3>1, <4>1, <4>2
    <3>2. CASE i = n + 1
      <4>1. i - 1 = n /\ n \in 0 .. n /\ e.move = m
        BY <1>1, <3>2
      <4>2. QED
        BY <1>3, <1>6, <1>7, <1>8, <3>2, <4>1
    <3>3. QED
      BY <1>1, <1>3, <3>1, <3>2
  <2>2. QED
    BY <1>2, <1>3, <1>8, <2>1 DEF Chained
<1>10. KeysUnique(new)
  <2>1. \A i \in 1 .. n : new.entries[i].move.key # m.key
    BY <1>1, <1>3 DEF HasKey
  <2>2. \A i, j \in 1 .. n :
           new.entries[i].move.key = new.entries[j].move.key => i = j
    BY <1>1, <1>3 DEF Sound, KeysUnique
  <2>3. new.entries[n + 1].move.key = m.key
    BY <1>3
  <2>4. QED
    BY <1>1, <1>3, <2>1, <2>2, <2>3 DEF KeysUnique
<1>11. Covered(new)
  BY <1>2 DEF Covers, Covered
<1>12. HasKey(new, m.key) /\ SameMovement(new, m)
  <2>1. \A i \in 1 .. n : new.entries[i].move.key # m.key
    BY <1>1, <1>3 DEF HasKey
  <2>2. n + 1 \in DOMAIN new.entries /\ new.entries[n + 1].move = m
    BY <1>1, <1>3
  <2>3. HasKey(new, m.key)
    BY <2>2 DEF HasKey
  <2>4. ASSUME NEW i \in DOMAIN new.entries, new.entries[i].move.key = m.key
        PROVE  new.entries[i].move = m
    BY <1>1, <1>3, <2>1, <2>2, <2>4
  <2>5. SameMovement(new, m)
    BY <2>4 DEF SameMovement
  <2> QED
    BY <2>3, <2>5
<1>13. QED
  BY <1>4, <1>5, <1>9, <1>10, <1>11, <1>12 DEF Sound, new

\* An accepted call, new or retried, keeps the account sound and continues it.
LEMMA PostSound ==
    ASSUME NEW moves, NEW acc \in Accounts(moves), NEW m \in moves,
           m.dA \in Int, m.dR \in Int, Sound(acc), CanPost(acc, m)
    PROVE  /\ Post(acc, m) \in Accounts(moves)
           /\ Sound(Post(acc, m))
           /\ Continues(acc, Post(acc, m))
           /\ HasKey(Post(acc, m), m.key)
           /\ SameMovement(Post(acc, m), m)
<1>1. CASE HasKey(acc, m.key)
  <2>1. Post(acc, m) = acc /\ SameMovement(acc, m)
    BY <1>1 DEF CanPost, Post
  <2>2. Len(acc.entries) \in Nat
    BY DEF Accounts
  <2>3. Continues(acc, acc)
    BY <2>2 DEF Continues
  <2>4. QED
    BY <1>1, <2>1, <2>3
<1>2. CASE ~HasKey(acc, m.key)
  BY <1>2, RecordSound DEF CanPost, Post
<1>3. QED
  BY <1>1, <1>2

\* An accepted call books its movement, and no other.
LEMMA PostBooks ==
    ASSUME NEW moves, NEW acc \in Accounts(moves), NEW m \in moves,
           m.dA \in Int, m.dR \in Int, CanPost(acc, m)
    PROVE  \A other : InBook(Post(acc, m), other) <=> InBook(acc, other) \/ other = m
<1>1. CASE HasKey(acc, m.key)
  <2>1. Post(acc, m) = acc /\ InBook(acc, m)
    BY <1>1 DEF CanPost, Post, HasKey, SameMovement, InBook
  <2> QED
    BY <2>1
<1>2. CASE ~HasKey(acc, m.key)
  <2> DEFINE new == Record(acc, m)
             n == Len(acc.entries)
             E == [move : moves, availableAfter : Int, reservedAfter : Int]
  <2>1. /\ acc.entries \in Seq(E) /\ n \in Nat /\ DOMAIN acc.entries = 1 .. n
        /\ acc.available \in Int /\ acc.reserved \in Int
    BY DEF Accounts
  <2>2. [move |-> m, availableAfter |-> acc.available + m.dA,
         reservedAfter |-> acc.reserved + m.dR] \in E
    BY <2>1
  <2>3. /\ DOMAIN new.entries = 1 .. n + 1
        /\ \A i \in 1 .. n : new.entries[i] = acc.entries[i]
        /\ new.entries[n + 1].move = m
    BY <2>1, <2>2 DEF Record
  <2>4. n + 1 \in 1 .. n + 1 /\ \A i \in 1 .. n + 1 : i \in 1 .. n \/ i = n + 1
    BY <2>1
  <2>5. 1 .. n \subseteq 1 .. n + 1
    BY <2>1
  <2> HIDE DEF new, n
  <2>6. \A other : InBook(new, other) <=> InBook(acc, other) \/ other = m
    BY <2>1, <2>3, <2>4, <2>5, Zenon DEF InBook
  <2> QED
    BY <1>2, <2>6 DEF Post, new
<1> QED
  BY <1>1, <1>2

LEMMA KeyInBook ==
    ASSUME NEW acc, NEW key
    PROVE  HasKey(acc, key) <=> \E m : InBook(acc, m) /\ m.key = key
  BY Zenon DEF HasKey, InBook

\* It adds its own key to the account, and no other.
LEMMA PostAddsKey ==
    ASSUME NEW moves, NEW acc \in Accounts(moves), NEW m \in moves,
           m.dA \in Int, m.dR \in Int, CanPost(acc, m)
    PROVE  \A key : HasKey(Post(acc, m), key) <=> HasKey(acc, key) \/ key = m.key
<1>1. \A other : InBook(Post(acc, m), other) <=> InBook(acc, other) \/ other = m
  BY PostBooks
<1> QED
  BY <1>1, KeyInBook, Zenon

\* Continuing is transitive: what one transaction may do after another.
LEMMA ContinuesTransitive ==
    ASSUME NEW moves, NEW a \in Accounts(moves), NEW b \in Accounts(moves),
           NEW c \in Accounts(moves), Continues(a, b), Continues(b, c)
    PROVE  Continues(a, c)
<1>1. /\ Len(a.entries) \in Nat /\ DOMAIN a.entries = 1 .. Len(a.entries)
      /\ Len(b.entries) \in Nat /\ DOMAIN b.entries = 1 .. Len(b.entries)
      /\ Len(c.entries) \in Nat
  BY DEF Accounts
<1>2. /\ Len(a.entries) <= Len(b.entries)
      /\ Len(b.entries) <= Len(c.entries)
      /\ \A i \in DOMAIN a.entries : b.entries[i] = a.entries[i]
      /\ \A i \in DOMAIN b.entries : c.entries[i] = b.entries[i]
  BY Zenon DEF Continues
<1>3. Len(a.entries) <= Len(c.entries)
  BY <1>1, <1>2
<1>4. ASSUME NEW i \in DOMAIN a.entries
      PROVE  c.entries[i] = a.entries[i]
  <2>1. i \in DOMAIN b.entries
    BY <1>1, <1>2
  <2>2. QED
    BY <1>2, <2>1
<1>5. QED
  BY <1>3, <1>4 DEF Continues

-----------------------------------------------------------------------------
(* Sums over finite sets.  What a fold computes does not depend on which   *)
(* element it picks first; that is shown for a sum that is described       *)
(* without picking any, by the smallest part on which the two would differ.*)

\* g is the sum of f over every part of S, whichever element is added last.
SumsOver(f, S, g) ==
    /\ g \in [SUBSET S -> Int]
    /\ g[{}] = 0
    /\ \A T \in SUBSET S : \A x \in S : x \notin T => g[T \cup {x}] = g[T] + f[x]

\* A finite set has one: the smallest part without one would have a part with one
\* that lacks a single element.
LEMMA SumsExist ==
    ASSUME NEW f, NEW A, IsFiniteSet(A), \A x \in A : f[x] \in Int
    PROVE  \E g : SumsOver(f, A, g)
<1> DEFINE Bad == {S \in SUBSET A : ~ \E g : SumsOver(f, S, g)}
<1>1. SUFFICES ASSUME Bad # {} PROVE FALSE
  <2>1. A \in SUBSET A
    OBVIOUS
  <2>2. QED
    BY <2>1
<1>2. IsWellFoundedOn(StrictSubsetOrdering(A), SUBSET A)
  BY FS_StrictSubsetOrderingWellFounded, FS_FiniteSubsetsOfFinite
<1>3. \E S \in Bad : \A T \in Bad : <<T, S>> \notin StrictSubsetOrdering(A)
  <2> HIDE DEF Bad
  <2>1. Bad \subseteq SUBSET A
    BY DEF Bad
  <2> QED
    BY <1>1, <1>2, <2>1, WFMin
<1>4. PICK S \in Bad : \A T \in Bad : <<T, S>> \notin StrictSubsetOrdering(A)
  BY <1>3
<1>5. \A T \in SUBSET S : T # S => \E g : SumsOver(f, T, g)
  BY <1>4 DEF StrictSubsetOrdering
<1>6. CASE S = {}
  <2> DEFINE g == [T \in SUBSET {} |-> 0]
  <2>1. SumsOver(f, {}, g)
    BY DEF SumsOver
  <2>2. QED
    BY <1>4, <1>6, <2>1
<1>7. CASE S # {}
  <2>1. PICK a \in S : TRUE
    BY <1>7
  <2>2. PICK h : SumsOver(f, S \ {a}, h)
    BY <1>5, <2>1
  <2> DEFINE g == [T \in SUBSET S |-> IF a \in T THEN h[T \ {a}] + f[a] ELSE h[T]]
  <2>3. /\ f[a] \in Int
        /\ \A T \in SUBSET S : h[T \ {a}] \in Int
        /\ \A T \in SUBSET S : a \notin T => T \ {a} = T /\ h[T] \in Int
    BY <1>4, <2>1, <2>2 DEF SumsOver
  <2>4. g \in [SUBSET S -> Int]
    <3>1. \A T \in SUBSET S : (IF a \in T THEN h[T \ {a}] + f[a] ELSE h[T]) \in Int
      BY <2>3
    <3>2. QED
      BY <3>1
  <2>5. g[{}] = 0
    BY <2>2 DEF SumsOver
  <2>6. ASSUME NEW T \in SUBSET S, NEW x \in S, x \notin T
        PROVE  g[T \cup {x}] = g[T] + f[x]
    <3>1. CASE x = a
      <4>1. (T \cup {x}) \ {a} = T /\ T \cup {x} \in SUBSET S
        BY <2>6, <3>1
      <4>2. QED
        BY <2>6, <3>1, <4>1
    <3>2. CASE x # a
      <4>1. /\ T \cup {x} \in SUBSET S /\ T \ {a} \in SUBSET (S \ {a})
            /\ x \in S \ {a} /\ x \notin T \ {a}
            /\ (T \cup {x}) \ {a} = (T \ {a}) \cup {x}
            /\ a \in T \cup {x} <=> a \in T
        BY <2>6, <3>2
      <4>2. h[(T \cup {x}) \ {a}] = h[T \ {a}] + f[x]
        BY <2>2, <4>1 DEF SumsOver
      <4>3. f[x] \in Int
        BY <1>4
      <4>4. h[T \ {a}] \in Int
        BY <2>3
      <4>5. CASE a \in T
        <5>1. g[T \cup {x}] = h[T \ {a}] + f[x] + f[a] /\ g[T] = h[T \ {a}] + f[a]
          BY <4>1, <4>2, <4>5
        <5>2. QED
          BY <2>3, <4>3, <4>4, <5>1
      <4>6. CASE a \notin T
        <5>1. T \ {a} = T /\ (T \cup {x}) \ {a} = T \cup {x}
          BY <4>1, <4>6
        <5>2. g[T \cup {x}] = h[T \cup {x}] /\ g[T] = h[T]
          BY <4>1, <4>6
        <5>3. QED
          BY <4>2, <5>1, <5>2
      <4>7. QED
        BY <4>5, <4>6
    <3>3. QED
      BY <3>1, <3>2
  <2>7. SumsOver(f, S, g)
    BY <2>4, <2>5, <2>6 DEF SumsOver
  <2>8. QED
    BY <1>4, <2>7
<1>8. QED
  BY <1>6, <1>7

\* The sum of the community modules is such a sum.
LEMMA SumIsASum ==
    ASSUME NEW f, NEW A, IsFiniteSet(A), \A x \in A : f[x] \in Int,
           NEW g, SumsOver(f, A, g)
    PROVE  SumFunctionOnSet(f, A) = g[A]
<1> DEFINE pick(s) == CHOOSE x \in s : TRUE
           Def(h) == [s \in SUBSET A |->
                        IF s = {} THEN 0 ELSE f[pick(s)] + h[s \ {pick(s)}]]
           iter == CHOOSE h : h = Def(h)
<1>1. SumFunctionOnSet(f, A) = iter[A]
  BY DEF SumFunctionOnSet, FoldFunctionOnSet, MapThenFoldSet
<1>2. \A s \in SUBSET A : s # {} =>
          /\ pick(s) \in s /\ s \ {pick(s)} \in SUBSET A
          /\ (s \ {pick(s)}) \cup {pick(s)} = s
          /\ f[pick(s)] \in Int
  OBVIOUS
<1>3. \A s \in SUBSET A : s # {} => g[s] = g[s \ {pick(s)}] + f[pick(s)]
  <2> SUFFICES ASSUME NEW s \in SUBSET A, s # {}
               PROVE  g[s] = g[s \ {pick(s)}] + f[pick(s)]
    OBVIOUS
  <2> DEFINE p == pick(s)
  <2>1. p \in s /\ p \in A /\ s \ {p} \in SUBSET A /\ (s \ {p}) \cup {p} = s /\ p \notin s \ {p}
    BY <1>2
  <2> HIDE DEF p
  <2>2. g[(s \ {p}) \cup {p}] = g[s \ {p}] + f[p]
    BY <2>1 DEF SumsOver
  <2>3. g[s] = g[s \ {p}] + f[p]
    BY <2>1, <2>2
  <2> QED
    BY <2>3 DEF p
<1>4. g = Def(g)
  <2>1. g = [s \in SUBSET A |-> g[s]]
    BY DEF SumsOver
  <2>2. \A s \in SUBSET A : g[s] = IF s = {} THEN 0 ELSE f[pick(s)] + g[s \ {pick(s)}]
    <3> SUFFICES ASSUME NEW s \in SUBSET A
                 PROVE  g[s] = IF s = {} THEN 0 ELSE f[pick(s)] + g[s \ {pick(s)}]
      OBVIOUS
    <3>1. CASE s = {}
      BY <3>1 DEF SumsOver
    <3>2. CASE s # {}
      <4>1. g[s \ {pick(s)}] \in Int /\ f[pick(s)] \in Int
        BY <1>2, <3>2 DEF SumsOver
      <4>2. g[s] = g[s \ {pick(s)}] + f[pick(s)]
        BY <1>3, <3>2
      <4> HIDE DEF pick
      <4>3. g[s] = f[pick(s)] + g[s \ {pick(s)}]
        BY <4>1, <4>2
      <4> QED
        BY <3>2, <4>3
    <3> QED
      BY <3>1, <3>2
  <2> HIDE DEF pick
  <2>3. QED
    BY <2>1, <2>2
<1>5. iter = Def(iter)
  <2> HIDE DEF Def
  <2> QED
    BY <1>4
<1> HIDE DEF iter
<1>6. /\ iter[{}] = 0
      /\ \A s \in SUBSET A : s # {} => iter[s] = f[pick(s)] + iter[s \ {pick(s)}]
  <2> HIDE DEF pick
  <2>1. \A s \in SUBSET A : iter[s] = IF s = {} THEN 0 ELSE f[pick(s)] + iter[s \ {pick(s)}]
    <3>1. iter = [s \in SUBSET A |-> IF s = {} THEN 0 ELSE f[pick(s)] + iter[s \ {pick(s)}]]
      BY <1>5
    <3> QED
      BY <3>1
  <2> QED
    BY <2>1
<1> DEFINE Bad == {s \in SUBSET A : iter[s] # g[s]}
<1>7. ASSUME Bad # {} PROVE FALSE
  <2>1. IsWellFoundedOn(StrictSubsetOrdering(A), SUBSET A)
    BY FS_StrictSubsetOrderingWellFounded, FS_FiniteSubsetsOfFinite
  <2>2. \E S \in Bad : \A T \in Bad : <<T, S>> \notin StrictSubsetOrdering(A)
    <3>1. Bad \subseteq SUBSET A
      OBVIOUS
    <3> HIDE DEF Bad
    <3> QED
      BY <1>7, <2>1, <3>1, WFMin
  <2>3. PICK S \in Bad : \A T \in Bad : <<T, S>> \notin StrictSubsetOrdering(A)
    BY <2>2
  <2>4. S # {}
    BY <1>6, <2>3 DEF SumsOver
  <2> DEFINE T == S \ {pick(S)}
  <2>5. T \in SUBSET A /\ T # S /\ T \subseteq S
    BY <1>2, <2>3, <2>4
  <2>6. iter[T] = g[T]
    BY <2>3, <2>5 DEF StrictSubsetOrdering
  <2>7. iter[S] = f[pick(S)] + g[T] /\ g[S] = g[T] + f[pick(S)]
    BY <1>3, <1>6, <2>3, <2>4, <2>6
  <2>8. g[T] \in Int /\ f[pick(S)] \in Int
    BY <1>2, <2>3, <2>4, <2>5 DEF SumsOver
  <2> QED
    BY <2>3, <2>7, <2>8
<1>8. QED
  BY <1>1, <1>7

\* No summands.
LEMMA SumOfNone ==
    ASSUME NEW f
    PROVE  SumFunctionOnSet(f, {}) = 0
<1> DEFINE g == [T \in SUBSET {} |-> 0]
<1>1. SumsOver(f, {}, g) /\ IsFiniteSet({})
  BY FS_EmptySet DEF SumsOver
<1> HIDE DEF g
<1>2. SumFunctionOnSet(f, {}) = g[{}]
  BY <1>1, SumIsASum
<1>3. QED
  BY <1>1, <1>2 DEF SumsOver

\* A sum loses with an element what the element adds.
LEMMA SumStep ==
    ASSUME NEW f, NEW S, IsFiniteSet(S), \A x \in S : f[x] \in Int, NEW x \in S
    PROVE  /\ SumFunctionOnSet(f, S) \in Int
           /\ SumFunctionOnSet(f, S \ {x}) \in Int
           /\ SumFunctionOnSet(f, S) = SumFunctionOnSet(f, S \ {x}) + f[x]
<1>1. PICK g : SumsOver(f, S, g)
  BY SumsExist
<1> DEFINE T == S \ {x}
           h == [U \in SUBSET T |-> g[U]]
<1>2. T \in SUBSET S /\ T \cup {x} = S /\ x \notin T /\ S \in SUBSET S
  OBVIOUS
<1>3. IsFiniteSet(T) /\ \A y \in T : f[y] \in Int
  BY FS_RemoveElement
<1>4. SumsOver(f, T, h)
  <2>1. h \in [SUBSET T -> Int] /\ h[{}] = 0
    BY <1>1 DEF SumsOver
  <2>2. ASSUME NEW U \in SUBSET T, NEW y \in T, y \notin U
        PROVE  h[U \cup {y}] = h[U] + f[y]
    BY <1>1, <2>2 DEF SumsOver
  <2>3. QED
    BY <2>1, <2>2 DEF SumsOver
<1>5. SumFunctionOnSet(f, S) = g[S]
  BY <1>1, SumIsASum
<1>6. SumFunctionOnSet(f, T) = g[T]
  <2>1. h[T] = g[T]
    OBVIOUS
  <2> HIDE DEF h, T
  <2>2. SumFunctionOnSet(f, T) = h[T]
    BY <1>3, <1>4, SumIsASum
  <2>3. QED
    BY <2>1, <2>2
<1>7. g[S] = g[T] + f[x] /\ g[S] \in Int /\ g[T] \in Int
  <2> HIDE DEF T
  <2>1. g[T \cup {x}] = g[T] + f[x] /\ g[T] \in Int /\ g[S] \in Int
    BY <1>1, <1>2 DEF SumsOver
  <2>2. QED
    BY <1>2, <2>1
<1>8. QED
  BY <1>5, <1>6, <1>7

\* Sums are integers.
LEMMA SumType ==
    ASSUME NEW f, NEW S, IsFiniteSet(S), \A x \in S : f[x] \in Int
    PROVE  SumFunctionOnSet(f, S) \in Int
<1>1. CASE S = {}
  BY <1>1, SumOfNone
<1>2. CASE S # {}
  BY <1>2, SumStep
<1>3. QED
  BY <1>1, <1>2

\* A sum depends on its summands only.
LEMMA SumOfEqual ==
    ASSUME NEW f, NEW h, NEW S, IsFiniteSet(S),
           \A x \in S : f[x] \in Int /\ h[x] = f[x]
    PROVE  SumFunctionOnSet(h, S) = SumFunctionOnSet(f, S)
<1>1. PICK g : SumsOver(f, S, g)
  BY SumsExist
<1>2. SumsOver(h, S, g)
  BY <1>1 DEF SumsOver
<1>3. QED
  BY <1>1, <1>2, SumIsASum

\* When one summand changes, the sum changes by as much.
LEMMA SumUpdated ==
    ASSUME NEW f, NEW h, NEW S, IsFiniteSet(S), NEW x \in S, h[x] \in Int,
           \A y \in S : f[y] \in Int /\ (y # x => h[y] = f[y])
    PROVE  /\ SumFunctionOnSet(f, S) \in Int
           /\ SumFunctionOnSet(h, S) = SumFunctionOnSet(f, S) + h[x] - f[x]
<1> DEFINE T == S \ {x}
<1>1. IsFiniteSet(T)
  BY FS_RemoveElement
<1>2. SumFunctionOnSet(h, T) = SumFunctionOnSet(f, T)
  <2>1. \A y \in T : f[y] \in Int /\ h[y] = f[y]
    OBVIOUS
  <2> HIDE DEF T
  <2>2. QED
    BY <1>1, <2>1, SumOfEqual
<1>3. /\ SumFunctionOnSet(f, S) = SumFunctionOnSet(f, T) + f[x]
      /\ SumFunctionOnSet(f, S) \in Int /\ SumFunctionOnSet(f, T) \in Int
  BY SumStep
<1>4. SumFunctionOnSet(h, S) = SumFunctionOnSet(h, T) + h[x]
  <2>1. \A y \in S : h[y] \in Int
    OBVIOUS
  <2>2. QED
    BY <2>1, SumStep
<1>5. f[x] \in Int
  OBVIOUS
<1>6. QED
  BY <1>2, <1>3, <1>4, <1>5

\* A sum of natural numbers is one, and at least each of them.
LEMMA SumNonNegative ==
    ASSUME NEW f, NEW S, IsFiniteSet(S), \A x \in S : f[x] \in Nat
    PROVE  /\ SumFunctionOnSet(f, S) \in Nat
           /\ \A x \in S : f[x] <= SumFunctionOnSet(f, S)
<1>1. PICK g : SumsOver(f, S, g)
  BY SumsExist
<1> DEFINE Bad == {T \in SUBSET S : g[T] < 0}
<1>2. Bad = {}
  <2>1. SUFFICES ASSUME Bad # {} PROVE FALSE
    OBVIOUS
  <2>2. IsWellFoundedOn(StrictSubsetOrdering(S), SUBSET S)
    BY FS_StrictSubsetOrderingWellFounded, FS_FiniteSubsetsOfFinite
  <2>3. \E T \in Bad : \A U \in Bad : <<U, T>> \notin StrictSubsetOrdering(S)
    <3>1. Bad \subseteq SUBSET S
      OBVIOUS
    <3> HIDE DEF Bad
    <3> QED
      BY <2>1, <2>2, <3>1, WFMin
  <2>4. PICK T \in Bad : \A U \in Bad : <<U, T>> \notin StrictSubsetOrdering(S)
    BY <2>3
  <2>5. PICK x \in T : TRUE
    <3>1. g[{}] = 0 /\ g[T] < 0
      BY <1>1, <2>4 DEF SumsOver
    <3>2. T # {}
      BY <3>1
    <3>3. QED
      BY <3>2
  <2>6. T \ {x} \in SUBSET S /\ x \notin T \ {x} /\ (T \ {x}) \cup {x} = T /\ x \in S
    BY <2>4
  <2>7. g[T] = g[T \ {x}] + f[x] /\ g[T \ {x}] \in Int
    <3> DEFINE U == T \ {x}
    <3> HIDE DEF U
    <3>1. g[U \cup {x}] = g[U] + f[x] /\ g[U] \in Int
      BY <1>1, <2>6 DEF SumsOver, U
    <3>2. QED
      BY <2>6, <3>1 DEF U
  <2>8. g[T \ {x}] >= 0
    <3>1. <<T \ {x}, T>> \in StrictSubsetOrdering(S)
      BY <2>4, <2>5, <2>6 DEF StrictSubsetOrdering
    <3>2. T \ {x} \notin Bad
      BY <2>4, <3>1
    <3>3. ~(g[T \ {x}] < 0)
      BY <2>6, <3>2
    <3>4. QED
      BY <2>7, <3>3
  <2>9. QED
    BY <2>4, <2>6, <2>7, <2>8
<1>3. \A T \in SUBSET S : g[T] \in Nat
  BY <1>1, <1>2 DEF SumsOver
<1>4. SumFunctionOnSet(f, S) = g[S]
  BY <1>1, SumIsASum
<1>5. ASSUME NEW x \in S
      PROVE  f[x] <= g[S]
  <2>1. S \ {x} \in SUBSET S /\ x \notin S \ {x} /\ (S \ {x}) \cup {x} = S
    OBVIOUS
  <2> DEFINE U == S \ {x}
  <2> HIDE DEF U
  <2>2. g[U \cup {x}] = g[U] + f[x] /\ g[U] \in Nat
    BY <1>1, <1>3, <2>1 DEF SumsOver, U
  <2>3. QED
    BY <2>1, <2>2 DEF U
<1>6. QED
  BY <1>3, <1>4, <1>5

\* A sum of zeros is zero.
LEMMA SumOfZeros ==
    ASSUME NEW f, NEW S, IsFiniteSet(S), \A x \in S : f[x] = 0
    PROVE  SumFunctionOnSet(f, S) = 0
<1>1. PICK g : SumsOver(f, S, g)
  <2>1. \A x \in S : f[x] \in Int
    OBVIOUS
  <2> QED
    BY <2>1, SumsExist
<1> DEFINE h == [T \in SUBSET S |-> 0]
<1>2. SumsOver(f, S, h)
  BY DEF SumsOver
<1>3. h[S] = 0
  OBVIOUS
<1> HIDE DEF h
<1>4. SumFunctionOnSet(f, S) = h[S]
  <2>1. \A x \in S : f[x] \in Int
    OBVIOUS
  <2> QED
    BY <1>2, <2>1, SumIsASum
<1> QED
  BY <1>3, <1>4

\* A sum over the parts of a set.
LEMMA SumOfUnion ==
    ASSUME NEW f, NEW S, NEW T, IsFiniteSet(S), IsFiniteSet(T), S \cap T = {},
           \A x \in S \cup T : f[x] \in Int
    PROVE  SumFunctionOnSet(f, S \cup T) = SumFunctionOnSet(f, S) + SumFunctionOnSet(f, T)
<1> DEFINE A == S \cup T
<1>1. IsFiniteSet(A)
  BY FS_Union
<1>2. \A x \in A : f[x] \in Int
  OBVIOUS
<1>3. PICK g : SumsOver(f, A, g)
  <2> HIDE DEF A
  <2> QED
    BY <1>1, <1>2, SumsExist
<1>4. SumFunctionOnSet(f, A) = g[A]
  <2> HIDE DEF A
  <2> QED
    BY <1>1, <1>2, <1>3, SumIsASum
<1> DEFINE h == [U \in SUBSET S |-> g[U]]
           k == [U \in SUBSET T |-> g[S \cup U] - g[S]]
<1>5. SumsOver(f, S, h)
  BY <1>3 DEF SumsOver
<1>6. SumsOver(f, T, k)
  <2>1. \A U \in SUBSET T : S \cup U \in SUBSET A
    OBVIOUS
  <2>2. \A U \in SUBSET T : g[S \cup U] \in Int /\ g[S] \in Int
    BY <1>3, <2>1 DEF SumsOver
  <2>3. k \in [SUBSET T -> Int] /\ k[{}] = 0
    <3>1. k \in [SUBSET T -> Int]
      <4> DEFINE rest(U) == g[S \cup U] - g[S]
      <4>1. \A U \in SUBSET T : rest(U) \in Int
        BY <2>2
      <4>2. k = [U \in SUBSET T |-> rest(U)]
        OBVIOUS
      <4> HIDE DEF rest, k
      <4> QED
        BY <4>1, <4>2
    <3>2. {} \in SUBSET T /\ S \cup {} = S /\ g[S] \in Int
      BY <2>2
    <3>3. k[{}] = g[S \cup {}] - g[S]
      BY <3>2
    <3>4. k[{}] = g[S] - g[S]
      BY <3>2, <3>3, Zenon
    <3> QED
      BY <3>1, <3>2, <3>4
  <2>4. ASSUME NEW U \in SUBSET T, NEW x \in T, x \notin U
        PROVE  k[U \cup {x}] = k[U] + f[x]
    <3>1. S \cup U \in SUBSET A /\ x \in A /\ x \notin S \cup U
      BY <2>4
    <3>2. PICK W : W = S \cup U
      OBVIOUS
    <3>3. g[W \cup {x}] = g[W] + f[x]
      BY <1>3, <3>1, <3>2 DEF SumsOver
    <3>4. PICK V : V = U \cup {x}
      OBVIOUS
    <3>5. W \cup {x} = S \cup V /\ V \in SUBSET T
      BY <3>2, <3>4
    <3>6. k[V] = g[S \cup V] - g[S] /\ k[U] = g[W] - g[S]
      BY <3>2, <3>5
    <3>7. g[S \cup V] = g[W] + f[x] /\ g[W] \in Int /\ g[S] \in Int /\ f[x] \in Int
      BY <1>2, <2>2, <3>1, <3>2, <3>3, <3>5
    <3> HIDE DEF k
    <3> QED
      BY <3>4, <3>6, <3>7
  <2> QED
    BY <2>3, <2>4 DEF SumsOver
<1>7. h[S] = g[S] /\ k[T] = g[A] - g[S] /\ g[A] \in Int /\ g[S] \in Int
  BY <1>3 DEF SumsOver
<1> HIDE DEF h, k
<1>8. SumFunctionOnSet(f, S) = h[S] /\ SumFunctionOnSet(f, T) = k[T]
  <2>1. (\A x \in S : f[x] \in Int) /\ (\A x \in T : f[x] \in Int)
    OBVIOUS
  <2> QED
    BY <1>5, <1>6, <2>1, SumIsASum
<1> HIDE DEF A
<1>9. SumFunctionOnSet(f, A) = SumFunctionOnSet(f, S) + SumFunctionOnSet(f, T)
  BY <1>4, <1>7, <1>8
<1> QED
  BY <1>9 DEF A

\* A sum does not depend on the names of its summands.
LEMMA SumReindexed ==
    ASSUME NEW A, NEW B, NEW phi \in [A -> B], NEW f, NEW h, IsFiniteSet(A), IsFiniteSet(B),
           \A x, y \in A : phi[x] = phi[y] => x = y,
           \A b \in B : \E x \in A : phi[x] = b,
           \A b \in B : f[b] \in Int, \A x \in A : h[x] = f[phi[x]]
    PROVE  SumFunctionOnSet(f, B) = SumFunctionOnSet(h, A)
<1>1. PICK g : SumsOver(f, B, g)
  BY SumsExist
<1> DEFINE Image(U) == {phi[x] : x \in U}
           k == [U \in SUBSET A |-> g[Image(U)]]
<1>2. /\ \A U \in SUBSET A : Image(U) \in SUBSET B
      /\ Image({}) = {} /\ Image(A) = B
  OBVIOUS
<1>3. ASSUME NEW U \in SUBSET A, NEW x \in A, x \notin U
      PROVE  Image(U \cup {x}) = Image(U) \cup {phi[x]} /\ phi[x] \notin Image(U)
  BY <1>3
<1> HIDE DEF Image
<1>4. SumsOver(h, A, k)
  <2>1. k \in [SUBSET A -> Int] /\ k[{}] = 0
    BY <1>1, <1>2 DEF SumsOver
  <2>2. ASSUME NEW U \in SUBSET A, NEW x \in A, x \notin U
        PROVE  k[U \cup {x}] = k[U] + h[x]
    <3>1. PICK W : W = Image(U)
      OBVIOUS
    <3>2. PICK b : b = phi[x]
      OBVIOUS
    <3>3. W \in SUBSET B /\ b \in B /\ b \notin W /\ Image(U \cup {x}) = W \cup {b}
      BY <1>2, <1>3, <2>2, <3>1, <3>2
    <3>4. g[W \cup {b}] = g[W] + f[b]
      BY <1>1, <3>3 DEF SumsOver
    <3>5. U \cup {x} \in SUBSET A
      OBVIOUS
    <3> QED
      BY <3>1, <3>2, <3>3, <3>4, <3>5
  <2> QED
    BY <2>1, <2>2 DEF SumsOver
<1>5. k[A] = g[B]
  BY <1>2
<1> HIDE DEF k
<1>6. SumFunctionOnSet(f, B) = g[B]
  BY <1>1, SumIsASum
<1>7. SumFunctionOnSet(h, A) = k[A]
  <2>1. \A x \in A : h[x] \in Int
    OBVIOUS
  <2> QED
    BY <1>4, <2>1, SumIsASum
<1> QED
  BY <1>5, <1>6, <1>7

Less(a, m, b, n) == a * m - b * n

\* A sum of differences of multiples.
LEMMA SumCombined ==
    ASSUME NEW f, NEW h, NEW d, NEW S, IsFiniteSet(S), NEW a \in Int, NEW b \in Int,
           \A x \in S : f[x] \in Int /\ h[x] \in Int /\ d[x] = Less(a, f[x], b, h[x])
    PROVE  SumFunctionOnSet(d, S)
               = Less(a, SumFunctionOnSet(f, S), b, SumFunctionOnSet(h, S))
<1>1. (\A x \in S : f[x] \in Int) /\ (\A x \in S : h[x] \in Int)
  OBVIOUS
<1>2. PICK g : SumsOver(f, S, g)
  BY <1>1, SumsExist
<1>3. PICK k : SumsOver(h, S, k)
  BY <1>1, SumsExist
<1> DEFINE c == [U \in SUBSET S |-> a * g[U] - b * k[U]]
<1>4. SumsOver(d, S, c)
  <2>1. c \in [SUBSET S -> Int] /\ c[{}] = 0
    <3>1. \A U \in SUBSET S : g[U] \in Int /\ k[U] \in Int
      BY <1>2, <1>3 DEF SumsOver
    <3>2. \A i, j \in Int : a * i - b * j \in Int
      OBVIOUS
    <3>3. \A U \in SUBSET S : a * g[U] - b * k[U] \in Int
      BY <3>1, <3>2
    <3>4. c \in [SUBSET S -> Int]
      BY <3>3
    <3>5. c[{}] = a * g[{}] - b * k[{}] /\ g[{}] = 0 /\ k[{}] = 0
      BY <1>2, <1>3 DEF SumsOver
    <3>6. c[{}] = a * 0 - b * 0
      BY <3>5
    <3> HIDE DEF c
    <3> QED
      BY <3>4, <3>6
  <2>2. ASSUME NEW U \in SUBSET S, NEW x \in S, x \notin U
        PROVE  c[U \cup {x}] = c[U] + d[x]
    <3>1. U \cup {x} \in SUBSET S
      OBVIOUS
    <3>2. PICK W : W = U \cup {x}
      OBVIOUS
    <3>3. g[W] = g[U] + f[x] /\ k[W] = k[U] + h[x] /\ g[U] \in Int /\ k[U] \in Int
      BY <1>2, <1>3, <2>2, <3>2 DEF SumsOver
    <3>4. PICK p, q, r, s : p = g[U] /\ q = k[U] /\ r = f[x] /\ s = h[x]
      OBVIOUS
    <3>5. p \in Int /\ q \in Int /\ r \in Int /\ s \in Int
      BY <1>1, <3>3, <3>4
    <3>6. a * (p + r) - b * (q + s) = (a * p - b * q) + (a * r - b * s)
      BY <3>5
    <3>7. c[W] = a * (p + r) - b * (q + s) /\ c[U] = a * p - b * q /\ d[x] = a * r - b * s
      BY <3>1, <3>2, <3>3, <3>4 DEF Less
    <3> QED
      BY <3>2, <3>6, <3>7
  <2> QED
    BY <2>1, <2>2 DEF SumsOver
<1>5. c[S] = a * g[S] - b * k[S]
  OBVIOUS
<1> HIDE DEF c
<1>6. SumFunctionOnSet(f, S) = g[S] /\ SumFunctionOnSet(h, S) = k[S]
  BY <1>1, <1>2, <1>3, SumIsASum
<1>7. \A x \in S : d[x] \in Int
  BY DEF Less
<1>8. SumFunctionOnSet(d, S) = c[S]
  BY <1>4, <1>7, SumIsASum
<1> QED
  BY <1>5, <1>6, <1>8 DEF Less

\* A sum over a sequence grows by what is appended.
LEMMA SumAppended ==
    ASSUME NEW n \in Nat, NEW f, NEW h, h[n + 1] \in Int,
           \A i \in 1 .. n : f[i] \in Int /\ h[i] = f[i]
    PROVE  /\ SumFunctionOnSet(f, 1 .. n) \in Int
           /\ SumFunctionOnSet(h, 1 .. n + 1) = SumFunctionOnSet(f, 1 .. n) + h[n + 1]
<1> DEFINE S == 1 .. n + 1
           T == 1 .. n
<1>1. /\ IsFiniteSet(S) /\ IsFiniteSet(T) /\ n + 1 \in S /\ S \ {n + 1} = T
      /\ \A i \in S : h[i] \in Int
  <2>1. IsFiniteSet(S) /\ IsFiniteSet(T)
    BY FS_Interval
  <2> QED
    BY <2>1
<1> HIDE DEF S
<1>2. /\ SumFunctionOnSet(h, S) = SumFunctionOnSet(h, S \ {n + 1}) + h[n + 1]
      /\ SumFunctionOnSet(h, S \ {n + 1}) \in Int
  BY <1>1, SumStep
<1>3. SumFunctionOnSet(h, T) = SumFunctionOnSet(f, T) /\ SumFunctionOnSet(f, T) \in Int
  <2> HIDE DEF T
  <2>1. \A i \in T : f[i] \in Int /\ h[i] = f[i]
    BY DEF T
  <2> QED
    BY <1>1, <2>1, SumOfEqual, SumType
<1> QED
  BY <1>1, <1>2, <1>3 DEF S

FirstOf(d, n) == [i \in 1 .. n |-> d[i]]

\* b runs from 0 and grows at each of N steps by what d says.
Grows(b, d, N) ==
    /\ b[0] = 0
    /\ \A i \in 1 .. N : d[i] \in Int /\ b[i] \in Int /\ b[i] = b[i - 1] + d[i]

\* Balances that grow by what is appended are the sums of what was appended: the
\* first that were not would follow one that is.
LEMMA RunningSums ==
    ASSUME NEW N \in Nat, NEW d, NEW b, Grows(b, d, N)
    PROVE  \A n \in 0 .. N : SumFunctionOnSet(FirstOf(d, n), 1 .. n) = b[n]
<1> DEFINE sum(n) == SumFunctionOnSet(FirstOf(d, n), 1 .. n)
           Bad == {S \in SUBSET (1 .. N) : \E n \in 0 .. N : S = 1 .. n /\ sum(n) # b[n]}
<1>0. /\ b[0] = 0
      /\ \A i \in 1 .. N : d[i] \in Int /\ b[i] \in Int /\ b[i] = b[i - 1] + d[i]
  BY DEF Grows
<1>1. SUFFICES ASSUME Bad # {} PROVE FALSE
  <2> SUFFICES ASSUME NEW n \in 0 .. N, sum(n) # b[n] PROVE Bad # {}
    OBVIOUS
  <2>1. 1 .. n \in SUBSET (1 .. N)
    OBVIOUS
  <2> QED
    BY <2>1
<1>2. \E S \in Bad : \A T \in Bad : <<T, S>> \notin StrictSubsetOrdering(1 .. N)
  <2>1. IsWellFoundedOn(StrictSubsetOrdering(1 .. N), SUBSET (1 .. N))
    <3>1. PICK U : U = 1 .. N /\ IsFiniteSet(U)
      BY FS_Interval
    <3>2. IsWellFoundedOn(StrictSubsetOrdering(U), SUBSET U)
      BY <3>1, FS_StrictSubsetOrderingWellFounded, FS_FiniteSubsetsOfFinite
    <3> QED
      BY <3>1, <3>2
  <2>2. Bad \subseteq SUBSET (1 .. N)
    OBVIOUS
  <2> HIDE DEF Bad
  <2> QED
    BY <1>1, <2>1, <2>2, WFMin
<1>3. PICK S \in Bad : \A T \in Bad : <<T, S>> \notin StrictSubsetOrdering(1 .. N)
  BY <1>2
<1>4. PICK n \in 0 .. N : S = 1 .. n /\ sum(n) # b[n]
  OBVIOUS
<1>5. n # 0
  <2>1. 1 .. 0 = {}
    OBVIOUS
  <2>2. SumFunctionOnSet(FirstOf(d, 0), {}) = 0
    BY SumOfNone
  <2>3. sum(0) = 0
    BY <2>1, <2>2
  <2> QED
    BY <1>0, <1>4, <2>3
<1>6. PICK m \in 0 .. N : n = m + 1
  <2>1. n - 1 \in 0 .. N /\ n = (n - 1) + 1
    BY <1>5
  <2> QED
    BY <2>1
<1>7. sum(m) = b[m]
  <2>1. 1 .. m \in SUBSET (1 .. N) /\ 1 .. m \subseteq S /\ n \in S /\ n \notin 1 .. m
    BY <1>4, <1>6
  <2>2. <<1 .. m, S>> \in StrictSubsetOrdering(1 .. N)
    BY <1>3, <2>1 DEF StrictSubsetOrdering
  <2>3. 1 .. m \notin Bad
    BY <1>3, <2>2
  <2> QED
    BY <2>1, <2>3
<1>8. sum(n) = sum(m) + d[n]
  <2> DEFINE f == FirstOf(d, m)
             h == FirstOf(d, n)
  <2>1. /\ \A i \in 1 .. m : f[i] \in Int /\ h[i] = f[i]
        /\ h[m + 1] = d[n] /\ d[n] \in Int /\ m \in Nat
    BY <1>0, <1>6 DEF FirstOf
  <2> HIDE DEF f, h
  <2>2. SumFunctionOnSet(h, 1 .. m + 1) = SumFunctionOnSet(f, 1 .. m) + h[m + 1]
    BY <2>1, SumAppended
  <2> QED
    BY <1>6, <2>1, <2>2 DEF f, h
<1>9. b[n] = b[m] + d[n]
  <2>1. n \in 1 .. N /\ n - 1 = m
    BY <1>6
  <2>2. b[n] = b[n - 1] + d[n]
    BY <1>0, <2>1
  <2> QED
    BY <2>1, <2>2
<1> QED
  BY <1>4, <1>7, <1>8, <1>9

\* The after-balances of a sound account are the sums of its entries.
LEMMA ChainedSums ==
    ASSUME NEW moves, \A m \in moves : m.dA \in Int /\ m.dR \in Int,
           NEW acc \in Accounts(moves), Chained(acc)
    PROVE  \A n \in 0 .. Len(acc.entries) :
              /\ SumFunctionOnSet([i \in 1 .. n |-> acc.entries[i].move.dA], 1 .. n)
                     = AvailableAfter(acc, n)
              /\ SumFunctionOnSet([i \in 1 .. n |-> acc.entries[i].move.dR], 1 .. n)
                     = ReservedAfter(acc, n)
<1> DEFINE E == [move : moves, availableAfter : Int, reservedAfter : Int]
<1>1. PICK N \in Nat : N = Len(acc.entries) /\ DOMAIN acc.entries = 1 .. N
  BY AccountTyped
<1>2. \A i \in 1 .. N : /\ acc.entries[i].move \in moves
                        /\ acc.entries[i].availableAfter \in Int
                        /\ acc.entries[i].reservedAfter \in Int
  <2>1. acc.entries \in Seq(E)
    BY DEF Accounts
  <2>2. \A e \in E : e.move \in moves /\ e.availableAfter \in Int /\ e.reservedAfter \in Int
    OBVIOUS
  <2> HIDE DEF E
  <2>3. \A i \in 1 .. N : acc.entries[i] \in E
    BY <1>1, <2>1
  <2> QED
    BY <2>2, <2>3
<1>3. PICK a, r : /\ a = [i \in 0 .. N |-> AvailableAfter(acc, i)]
                  /\ r = [i \in 0 .. N |-> ReservedAfter(acc, i)]
  OBVIOUS
<1>4. PICK d, e : /\ d = [i \in 1 .. N |-> acc.entries[i].move.dA]
                  /\ e = [i \in 1 .. N |-> acc.entries[i].move.dR]
  OBVIOUS
<1>5. a[0] = 0 /\ r[0] = 0
  BY <1>3 DEF AvailableAfter, ReservedAfter
<1>6. ASSUME NEW i \in 1 .. N
      PROVE  /\ d[i] \in Int /\ a[i] \in Int /\ a[i] = a[i - 1] + d[i]
             /\ e[i] \in Int /\ r[i] \in Int /\ r[i] = r[i - 1] + e[i]
  <2>1. /\ a[i] = AvailableAfter(acc, i) /\ a[i - 1] = AvailableAfter(acc, i - 1)
        /\ r[i] = ReservedAfter(acc, i) /\ r[i - 1] = ReservedAfter(acc, i - 1)
    BY <1>3
  <2>2. d[i] = acc.entries[i].move.dA /\ e[i] = acc.entries[i].move.dR
    BY <1>4
  <2>3. a[i] \in Int /\ r[i] \in Int
    BY <1>2, <2>1 DEF AvailableAfter, ReservedAfter
  <2>4. /\ AvailableAfter(acc, i) = AvailableAfter(acc, i - 1) + acc.entries[i].move.dA
        /\ ReservedAfter(acc, i) = ReservedAfter(acc, i - 1) + acc.entries[i].move.dR
    BY <1>1 DEF Chained
  <2>5. acc.entries[i].move.dA \in Int /\ acc.entries[i].move.dR \in Int
    BY <1>2
  <2> QED
    BY <2>1, <2>2, <2>3, <2>4, <2>5
<1>7. \A n \in 0 .. N : /\ SumFunctionOnSet(FirstOf(d, n), 1 .. n) = a[n]
                        /\ SumFunctionOnSet(FirstOf(e, n), 1 .. n) = r[n]
  <2>1. Grows(a, d, N)
    BY <1>5, <1>6 DEF Grows
  <2>2. \A n \in 0 .. N : SumFunctionOnSet(FirstOf(d, n), 1 .. n) = a[n]
    BY <2>1, RunningSums
  <2>3. Grows(r, e, N)
    BY <1>5, <1>6 DEF Grows
  <2>4. \A n \in 0 .. N : SumFunctionOnSet(FirstOf(e, n), 1 .. n) = r[n]
    BY <2>3, RunningSums
  <2> QED
    BY <2>2, <2>4
<1> SUFFICES ASSUME NEW n \in 0 .. N
             PROVE  /\ SumFunctionOnSet([i \in 1 .. n |-> acc.entries[i].move.dA], 1 .. n)
                           = AvailableAfter(acc, n)
                    /\ SumFunctionOnSet([i \in 1 .. n |-> acc.entries[i].move.dR], 1 .. n)
                           = ReservedAfter(acc, n)
  BY <1>1
<1>8. /\ FirstOf(d, n) = [i \in 1 .. n |-> acc.entries[i].move.dA]
      /\ FirstOf(e, n) = [i \in 1 .. n |-> acc.entries[i].move.dR]
  BY <1>4 DEF FirstOf
<1>9. a[n] = AvailableAfter(acc, n) /\ r[n] = ReservedAfter(acc, n)
  BY <1>3
<1> QED
  BY <1>7, <1>8, <1>9

-----------------------------------------------------------------------------
(* Induction over the numbers up to a bound.                               *)

\* What holds of 0 and of each successor holds up to N.
LEMMA UpTo ==
    ASSUME NEW N \in Nat, NEW S, 0 \in S, \A i \in 1 .. N : i - 1 \in S => i \in S
    PROVE  0 .. N \subseteq S
<1>1. SUFFICES ASSUME (0 .. N) \ S # {} PROVE FALSE
  OBVIOUS
<1>2. (0 .. N) \ S \in SUBSET Nat
  OBVIOUS
<1>3. PICK n \in (0 .. N) \ S : \A m \in (0 .. N) \ S : n <= m
  <2>1. PICK R : R = OpToRel(<, Nat) /\ IsWellFoundedOn(R, Nat)
    BY NatLessThanWellFounded
  <2>2. \A m, n \in Nat : m < n => <<m, n>> \in R
    BY <2>1 DEF OpToRel
  <2>3. PICK T : T = (0 .. N) \ S
    OBVIOUS
  <2>4. T \subseteq Nat /\ T # {}
    BY <1>1, <1>2, <2>3
  <2>5. PICK n \in T : \A m \in T : ~(<<m, n>> \in R)
    BY <2>1, <2>4, WFMin
  <2>6. \A m \in T : ~(m < n) /\ m \in Nat /\ n \in Nat
    BY <2>2, <2>4, <2>5
  <2> QED
    BY <2>3, <2>6
<1>4. n \in 1 .. N /\ n - 1 \in 0 .. N /\ ~(n <= n - 1)
  OBVIOUS
<1> QED
  BY <1>3, <1>4

\* The largest of some numbers that have a bound.
LEMMA LargestExists ==
    ASSUME NEW B \in Nat, NEW S \in SUBSET (0 .. B), S # {}
    PROVE  \E m \in S : \A n \in S : m >= n
<1> SUFFICES ASSUME \A m \in S : \E n \in S : ~(m >= n)
             PROVE  FALSE
  OBVIOUS
<1> DEFINE T == {b \in 0 .. B : \E m \in S : m >= b}
<1>1. 0 \in T
  <2>1. PICK m \in S : m \in 0 .. B
    OBVIOUS
  <2> QED
    BY <2>1
<1>2. ASSUME NEW b \in 1 .. B, b - 1 \in T
      PROVE  b \in T
  <2>1. PICK m \in S : m >= b - 1
    BY <1>2
  <2>2. PICK n \in S : ~(m >= n)
    OBVIOUS
  <2>3. n >= b
    BY <2>1, <2>2
  <2> QED
    BY <2>3
<1>3. 0 .. B \subseteq T
  <2> HIDE DEF T
  <2> QED
    BY <1>1, <1>2, UpTo
<1>4. PICK m \in S : m >= B
  BY <1>3
<1> QED
  BY <1>4

-----------------------------------------------------------------------------
(* Fixed-point arithmetic                                                  *)

\* What integer division is, without \div: the largest number of divisors.
LEMMA DivisionBounds ==
    ASSUME NEW n \in Nat, NEW d \in Nat \ {0}
    PROVE  /\ n \div d \in Nat
           /\ (n \div d) * d <= n
           /\ n < (n \div d) * d + d
           /\ n % d = n - (n \div d) * d
  OBVIOUS

\* A smaller multiple has the smaller factor.
LEMMA SmallerFactor ==
    ASSUME NEW x \in Nat, NEW y \in Nat, NEW d \in Nat \ {0}, x * d < y * d + d
    PROVE  x <= y
<1>1. SUFFICES ASSUME x >= y + 1 PROVE FALSE
  OBVIOUS
<1>2. PICK k \in Nat : x = y + 1 + k
  BY <1>1
<1>3. x * d = y * d + d + k * d
  BY <1>2
<1>4. k * d \in Nat /\ y * d \in Nat
  OBVIOUS
<1> QED
  BY <1>3, <1>4

\* Rounding down is plain division.
LEMMA RoundedDown ==
    ASSUME NEW value \in Nat, NEW multiplier \in Nat, NEW divisor \in Nat \ {0}
    PROVE  MultiplyDivide(value, multiplier, divisor, "down") = (value * multiplier) \div divisor
  BY DEF MultiplyDivide

\* Rounding up gives the least number of divisors that reaches the product.
LEMMA RoundedUp ==
    ASSUME NEW value \in Nat, NEW multiplier \in Nat, NEW divisor \in Nat \ {0}
    PROVE  /\ MultiplyDivide(value, multiplier, divisor, "up") \in Nat
           /\ value * multiplier <= MultiplyDivide(value, multiplier, divisor, "up") * divisor
           /\ MultiplyDivide(value, multiplier, divisor, "up") * divisor
                  < value * multiplier + divisor
<1> DEFINE n == value * multiplier
           q == n \div divisor
<1>1. n \in Nat
  OBVIOUS
<1> HIDE DEF n
<1>2. q \in Nat /\ q * divisor <= n /\ n < q * divisor + divisor
      /\ n % divisor = n - q * divisor
  BY <1>1, DivisionBounds
<1>3. q * divisor \in Nat /\ (q + 1) * divisor = q * divisor + divisor
  BY <1>2
<1> HIDE DEF q
<1>4. CASE n % divisor = 0
  <2>1. MultiplyDivide(value, multiplier, divisor, "up") = q
    BY <1>4 DEF MultiplyDivide, n, q
  <2> QED
    BY <2>1, <1>1, <1>2, <1>3, <1>4 DEF n
<1>5. CASE n % divisor # 0
  <2>1. MultiplyDivide(value, multiplier, divisor, "up") = q + 1
    BY <1>5 DEF MultiplyDivide, n, q
  <2> QED
    BY <2>1, <1>1, <1>2, <1>3, <1>5 DEF n
<1> QED
  BY <1>4, <1>5

-----------------------------------------------------------------------------
\* A user who converts USDT to Coins and back never gains, whatever the amount,
\* the rate and the scale (deposit and withdrawal of the same money).
THEOREM RoundTripLosesOrKeeps ==
    ASSUME NEW amount \in Nat, NEW rate \in Nat \ {0}
    PROVE  CoinMicrosToUsdt(UsdtToCoinMicros(amount, rate), rate) <= amount
<1> USE NanosAssumption
<1> DEFINE coins == (amount * rate) \div NanosScale
           back == (coins * NanosScale) \div rate
<1>1. amount * rate \in Nat
  OBVIOUS
<1>2. coins \in Nat /\ coins * NanosScale <= amount * rate
  BY <1>1, DivisionBounds
<1>3. coins * NanosScale \in Nat
  BY <1>2
<1>4. back \in Nat /\ back * rate <= coins * NanosScale
  BY <1>3, DivisionBounds
<1>5. UsdtToCoinMicros(amount, rate) = coins
  BY RoundedDown DEF UsdtToCoinMicros
<1>6. CoinMicrosToUsdt(coins, rate) = back
  BY <1>2, RoundedDown DEF CoinMicrosToUsdt
<1> HIDE DEF coins, back
<1>7. back * rate \in Nat /\ back * rate < amount * rate + rate
  BY <1>1, <1>2, <1>3, <1>4
<1>8. back <= amount
  BY <1>4, <1>7, SmallerFactor
<1> QED
  BY <1>5, <1>6, <1>8

\* The fee as a number: the least one that reaches its share of the amount.
LEMMA FeeBounds ==
    ASSUME NEW amount \in Nat, NEW basisPoints \in Nat
    PROVE  /\ CalculateFee(amount, basisPoints, 0) \in Nat
           /\ amount * basisPoints <= CalculateFee(amount, basisPoints, 0) * BasisPointsScale
           /\ CalculateFee(amount, basisPoints, 0) * BasisPointsScale
                  < amount * basisPoints + BasisPointsScale
<1>1. BasisPointsScale \in Nat \ {0}
  BY DEF BasisPointsScale
<1>2. /\ Proportional(amount, basisPoints) \in Nat
      /\ amount * basisPoints <= Proportional(amount, basisPoints) * BasisPointsScale
      /\ Proportional(amount, basisPoints) * BasisPointsScale
             < amount * basisPoints + BasisPointsScale
  BY <1>1, RoundedUp DEF Proportional
<1>3. CalculateFee(amount, basisPoints, 0) = Proportional(amount, basisPoints)
  BY <1>2 DEF CalculateFee
<1> QED
  BY <1>2, <1>3

\* An order in two pieces pays at least the fee of the whole order.
THEOREM SplittingSavesNothing ==
    ASSUME NEW amount \in Nat, NEW other \in Nat, NEW basisPoints \in Nat
    PROVE  CalculateFee(amount + other, basisPoints, 0)
               <= CalculateFee(amount, basisPoints, 0) + CalculateFee(other, basisPoints, 0)
<1> DEFINE whole == CalculateFee(amount + other, basisPoints, 0)
           first == CalculateFee(amount, basisPoints, 0)
           second == CalculateFee(other, basisPoints, 0)
<1>1. amount + other \in Nat
  OBVIOUS
<1>2. /\ whole \in Nat
      /\ whole * BasisPointsScale < (amount + other) * basisPoints + BasisPointsScale
  BY <1>1, FeeBounds
<1>3. /\ first \in Nat /\ amount * basisPoints <= first * BasisPointsScale
      /\ second \in Nat /\ other * basisPoints <= second * BasisPointsScale
  BY FeeBounds
<1> HIDE DEF whole, first, second
<1>4. (amount + other) * basisPoints = amount * basisPoints + other * basisPoints
      /\ amount * basisPoints \in Nat /\ other * basisPoints \in Nat
  OBVIOUS
<1>5. whole * BasisPointsScale < (first + second) * BasisPointsScale + BasisPointsScale
  BY <1>2, <1>3, <1>4 DEF BasisPointsScale
<1>6. whole <= first + second
  BY <1>2, <1>3, <1>5, SmallerFactor DEF BasisPointsScale
<1> QED
  BY <1>6 DEF whole, first, second

\* The reserve of a purchase, its stake with the fee on it, covers every fill of
\* at most the stake with the fee on that: the reserve is never exceeded.
THEOREM ReserveCoversFill ==
    ASSUME NEW stake \in Nat, NEW filled \in 0 .. stake
    PROVE  filled + TradingFee(filled) <= stake + TradingFee(stake)
<1> DEFINE F == CalculateFee(filled, 200, 0)
           S == CalculateFee(stake, 200, 0)
<1>0. filled \in Nat
  OBVIOUS
<1>1. /\ F \in Nat /\ F * BasisPointsScale < filled * 200 + BasisPointsScale
      /\ S \in Nat /\ stake * 200 <= S * BasisPointsScale
  <2>1. F \in Nat /\ F * BasisPointsScale < filled * 200 + BasisPointsScale
    BY <1>0, FeeBounds, ZenonT(30)
  <2>2. S \in Nat /\ stake * 200 <= S * BasisPointsScale
    BY FeeBounds, ZenonT(30)
  <2> QED
    BY <2>1, <2>2
<1>2. TradingFee(filled) = F /\ TradingFee(stake) = S
  BY DEF TradingFee
<1> HIDE DEF F, S
<1>3. F <= S
  BY <1>1 DEF BasisPointsScale
<1> QED
  BY <1>1, <1>2, <1>3

\* The fee of a sale never exceeds its proceeds.
THEOREM FeeWithinProceeds ==
    ASSUME NEW amount \in Nat
    PROVE  TradingFee(amount) \in 0 .. amount
<1> DEFINE F == CalculateFee(amount, 200, 0)
<1>1. F \in Nat /\ F * BasisPointsScale < amount * 200 + BasisPointsScale
  BY FeeBounds
<1>2. TradingFee(amount) = F
  BY DEF TradingFee
<1> HIDE DEF F
<1> QED
  BY <1>1, <1>2 DEF BasisPointsScale

\* A sale takes no more cost out of a position than there is in it, and a sale of
\* all shares takes all of it.
THEOREM BasisWithinCost ==
    ASSUME NEW cost \in Nat, NEW shares \in Nat \ {0}, NEW sold \in 0 .. shares
    PROVE  /\ CostBasis(cost, sold, shares) \in 0 .. cost
           /\ sold = shares => CostBasis(cost, sold, shares) = cost
<1> DEFINE basis == (cost * sold) \div shares
<1>1. sold \in Nat /\ cost * sold \in Nat
  OBVIOUS
<1>2. basis \in Nat /\ basis * shares <= cost * sold /\ cost * sold < basis * shares + shares
  BY <1>1, DivisionBounds
<1>3. CostBasis(cost, sold, shares) = basis
  BY <1>1, RoundedDown DEF CostBasis
<1> HIDE DEF basis
<1>4. PICK rest \in Nat : shares = sold + rest
  BY <1>1
<1>5. cost * shares = cost * sold + cost * rest /\ cost * rest \in Nat /\ cost * shares \in Nat
  BY <1>1, <1>4
<1>6. basis * shares \in Nat
  BY <1>2
<1>7. basis * shares < cost * shares + shares
  BY <1>1, <1>2, <1>5, <1>6
<1>8. basis <= cost
  BY <1>2, <1>7, SmallerFactor
<1>9. ASSUME sold = shares PROVE cost <= basis
  BY <1>2, <1>9, SmallerFactor
<1> QED
  BY <1>2, <1>3, <1>8, <1>9

-----------------------------------------------------------------------------
(* Decimals.  The powers of ten and the number that digits write are       *)
(* functions that refer to themselves: each is the only one of its kind.   *)

\* The powers of ten up to N.
Powers(g, N) == g \in [0 .. N -> Nat] /\ g[0] = 1 /\ \A i \in 1 .. N : g[i] = 10 * g[i - 1]

LEMMA PowersExist ==
    ASSUME NEW N \in Nat PROVE \E g : Powers(g, N)
<1> DEFINE S == {n \in 0 .. N : \E g : Powers(g, n)}
<1>1. 0 \in S
  <2>1. PICK g : g = [i \in 0 .. 0 |-> 1]
    OBVIOUS
  <2>2. Powers(g, 0)
    BY <2>1 DEF Powers
  <2> QED
    BY <2>2
<1>2. ASSUME NEW n \in 1 .. N, n - 1 \in S PROVE n \in S
  <2>1. PICK g : Powers(g, n - 1)
    BY <1>2
  <2>2. PICK h : h = [i \in 0 .. n |-> IF i = n THEN 10 * g[n - 1] ELSE g[i]]
    OBVIOUS
  <2>3. \A i \in 0 .. n : h[i] = IF i = n THEN 10 * g[n - 1] ELSE g[i]
    BY <2>2
  <2>4. g[n - 1] \in Nat /\ \A i \in 0 .. n - 1 : g[i] \in Nat
    BY <2>1 DEF Powers
  <2>5. h \in [0 .. n -> Nat]
    BY <2>2, <2>4
  <2>6. h[0] = 1
    BY <2>1, <2>3 DEF Powers
  <2>7. ASSUME NEW i \in 1 .. n PROVE h[i] = 10 * h[i - 1]
    <3>1. i - 1 \in 0 .. n /\ i - 1 # n /\ h[i - 1] = g[i - 1]
      BY <2>3
    <3>2. CASE i = n
      BY <2>3, <3>1, <3>2
    <3>3. CASE i # n
      BY <2>1, <2>3, <3>1, <3>3 DEF Powers
    <3> QED
      BY <3>2, <3>3
  <2>8. Powers(h, n)
    BY <2>5, <2>6, <2>7 DEF Powers
  <2> QED
    BY <2>8
<1>3. 0 .. N \subseteq S
  <2> HIDE DEF S
  <2> QED
    BY <1>1, <1>2, UpTo
<1> QED
  BY <1>3

LEMMA PowerIsPower ==
    ASSUME NEW N \in Nat, NEW g, Powers(g, N), NEW n \in 0 .. N
    PROVE  PowerOf10(n) = g[n]
<1> DEFINE Def(h) == [i \in 0 .. n |-> IF i = 0 THEN 1 ELSE 10 * h[i - 1]]
           power == CHOOSE h : h = Def(h)
<1>1. PowerOf10(n) = power[n]
  BY DEF PowerOf10
<1>2. PICK k : k = [i \in 0 .. n |-> g[i]]
  OBVIOUS
<1>3. k = Def(k)
  BY <1>2 DEF Powers
<1>4. power = Def(power)
  BY <1>3
<1>5. ASSUME NEW i \in 0 .. n PROVE power[i] = IF i = 0 THEN 1 ELSE 10 * power[i - 1]
  <2> HIDE DEF power
  <2> QED
    BY <1>4
<1> DEFINE S == {i \in 0 .. n : power[i] = g[i]}
<1> HIDE DEF power
<1>6. 0 \in S
  BY <1>5 DEF Powers
<1>7. ASSUME NEW i \in 1 .. n, i - 1 \in S PROVE i \in S
  <2>1. power[i] = 10 * power[i - 1]
    BY <1>5
  <2>2. g[i] = 10 * g[i - 1] /\ power[i - 1] = g[i - 1]
    BY <1>7 DEF Powers
  <2> QED
    BY <2>1, <2>2
<1>8. 0 .. n \subseteq S
  <2> HIDE DEF S
  <2> QED
    BY <1>6, <1>7, UpTo
<1> QED
  BY <1>1, <1>8

LEMMA PowerStep ==
    /\ PowerOf10(0) = 1
    /\ \A n \in Nat : PowerOf10(n) \in Nat \ {0} /\ PowerOf10(n + 1) = 10 * PowerOf10(n)
<1>1. PowerOf10(0) = 1
  <2>1. PICK g : Powers(g, 0)
    BY PowersExist
  <2>2. PowerOf10(0) = g[0]
    BY <2>1, PowerIsPower
  <2> QED
    BY <2>1, <2>2 DEF Powers
<1>2. ASSUME NEW n \in Nat
      PROVE  PowerOf10(n) \in Nat /\ PowerOf10(n + 1) = 10 * PowerOf10(n)
  <2>1. PICK m \in Nat : m = n + 1
    OBVIOUS
  <2>2. PICK g : Powers(g, m)
    BY PowersExist
  <2>3. PowerOf10(n) = g[n] /\ PowerOf10(m) = g[m]
    BY <2>1, <2>2, PowerIsPower
  <2> QED
    BY <2>1, <2>2, <2>3 DEF Powers
<1>3. ASSUME NEW N \in Nat PROVE PowerOf10(N) # 0
  <2> DEFINE S == {n \in 0 .. N : PowerOf10(n) # 0}
  <2>1. 0 \in S
    BY <1>1
  <2>2. ASSUME NEW n \in 1 .. N, n - 1 \in S PROVE n \in S
    <3>1. PICK m \in Nat : n = m + 1 /\ m = n - 1
      OBVIOUS
    <3>2. PowerOf10(m) \in Nat /\ PowerOf10(m) # 0 /\ PowerOf10(m + 1) = 10 * PowerOf10(m)
      BY <1>2, <2>2, <3>1
    <3>3. PowerOf10(m + 1) # 0
      BY <3>2
    <3> QED
      BY <3>1, <3>3
  <2>3. 0 .. N \subseteq S
    <3> HIDE DEF S
    <3> QED
      BY <2>1, <2>2, UpTo
  <2> QED
    BY <2>3
<1> QED
  BY <1>1, <1>2, <1>3

\* What digits write is what every function that adds them up says.
LEMMA NumberIsNumber ==
    ASSUME NEW digits, Len(digits) \in Nat, NEW g, g[0] = 0,
           \A i \in 1 .. Len(digits) : g[i] = g[i - 1] * 10 + digits[i]
    PROVE  NumberOf(digits) = g[Len(digits)]
<1> DEFINE Def(h) == [i \in 0 .. Len(digits) |-> IF i = 0 THEN 0 ELSE h[i - 1] * 10 + digits[i]]
           upTo == CHOOSE h : h = Def(h)
<1>1. NumberOf(digits) = upTo[Len(digits)]
  BY DEF NumberOf
<1>2. PICK N \in Nat : N = Len(digits)
  OBVIOUS
<1>3. PICK k : k = [i \in 0 .. N |-> g[i]]
  OBVIOUS
<1>4. k = Def(k)
  BY <1>2, <1>3
<1>5. upTo = Def(upTo)
  BY <1>4
<1> DEFINE S == {i \in 0 .. N : upTo[i] = g[i]}
<1> HIDE DEF upTo
<1>6. 0 \in S
  BY <1>2, <1>5
<1>7. ASSUME NEW i \in 1 .. N, i - 1 \in S PROVE i \in S
  BY <1>2, <1>5, <1>7
<1>8. 0 .. N \subseteq S
  <2> HIDE DEF S
  <2> QED
    BY <1>6, <1>7, UpTo
<1> QED
  BY <1>1, <1>2, <1>8

\* Dividing by p and then by ten is dividing by ten times p.
LEMMA NextDigit ==
    ASSUME NEW n \in Nat, NEW p \in Nat \ {0}
    PROVE  n \div p = (n \div (10 * p)) * 10 + ((n \div p) % 10)
<1>1. PICK q \in Nat : q = n \div p
  BY DivisionBounds
<1>2. PICK r \in Nat : r = q \div 10
  OBVIOUS
<1>3. PICK s \in Nat : s = n \div (10 * p)
  BY DivisionBounds
<1>4. q * p <= n /\ n < q * p + p
  BY <1>1, DivisionBounds
<1>5. r * 10 <= q /\ q <= r * 10 + 9 /\ q % 10 = q - r * 10
  BY <1>2
<1>6. s * (10 * p) <= n /\ n < s * (10 * p) + 10 * p
  <2>1. 10 * p \in Nat \ {0}
    OBVIOUS
  <2> QED
    BY <1>3, <2>1, DivisionBounds
<1>7. r * (10 * p) <= n /\ n < r * (10 * p) + 10 * p
  <2>1. PICK t \in 0 .. 9 : q = r * 10 + t
    BY <1>5
  <2>2. q * p = r * (10 * p) + t * p
    BY <2>1
  <2>3. t * p \in Nat /\ t * p <= 9 * p
    BY <2>1
  <2>4. q * p \in Nat /\ r * (10 * p) \in Nat
    OBVIOUS
  <2> QED
    BY <1>4, <2>2, <2>3, <2>4
<1>8. r = s
  <2>1. PICK d \in Nat \ {0} : d = 10 * p
    OBVIOUS
  <2>2. r * d < s * d + d /\ s * d < r * d + d
    BY <1>6, <1>7, <2>1
  <2>3. r <= s /\ s <= r
    BY <2>2, SmallerFactor
  <2> QED
    BY <2>3
<1> QED
  BY <1>1, <1>3, <1>5, <1>8

\* The first k digits of a number of at most w write what is left without the others.
LEMMA NumberOfFirstDigits ==
    ASSUME NEW w \in Nat, NEW n \in Nat, n < PowerOf10(w), NEW k \in 0 .. w,
           NEW digits, Len(digits) = k, \A i \in 1 .. k : digits[i] = Digits(n, w)[i]
    PROVE  NumberOf(digits) = n \div PowerOf10(w - k)
<1>1. PICK g : g = [i \in 0 .. k |-> n \div PowerOf10(w - i)]
  OBVIOUS
<1>2. g[0] = 0
  <2>1. PICK p \in Nat \ {0} : p = PowerOf10(w)
    BY PowerStep
  <2>2. n \div p = 0
    BY <2>1
  <2> QED
    BY <1>1, <2>1, <2>2
<1>3. ASSUME NEW i \in 1 .. k PROVE g[i] = g[i - 1] * 10 + digits[i]
  <2>1. PICK m \in Nat : m = w - i
    OBVIOUS
  <2>2. PICK p \in Nat \ {0} : p = PowerOf10(m)
    BY PowerStep
  <2>3. PowerOf10(w - (i - 1)) = 10 * p
    <3>1. w - (i - 1) = m + 1
      BY <2>1
    <3> QED
      BY <2>2, <3>1, PowerStep
  <2>4. digits[i] = (n \div p) % 10
    <3>1. i \in 1 .. w /\ digits[i] = Digits(n, w)[i]
      OBVIOUS
    <3>2. Digits(n, w)[i] = (n \div PowerOf10(w - i)) % 10
      BY <3>1 DEF Digits
    <3> QED
      BY <2>1, <2>2, <3>1, <3>2
  <2>5. g[i] = n \div p /\ g[i - 1] = n \div (10 * p)
    BY <1>1, <2>1, <2>2, <2>3
  <2>6. n \div p = (n \div (10 * p)) * 10 + ((n \div p) % 10)
    BY NextDigit
  <2> QED
    BY <2>4, <2>5, <2>6
<1>4. NumberOf(digits) = g[Len(digits)]
  <2>1. Len(digits) \in Nat
    OBVIOUS
  <2>2. \A i \in 1 .. Len(digits) : g[i] = g[i - 1] * 10 + digits[i]
    BY <1>3
  <2> QED
    BY <1>2, <2>1, <2>2, NumberIsNumber
<1> QED
  BY <1>1, <1>4

\* Only zeros are trimmed, and padding puts them back.
LEMMA TrimmedDigits ==
    ASSUME NEW w \in Nat, NEW d, d = [i \in 1 .. w |-> d[i]]
    PROVE  /\ Len(Trimmed(d)) \in 0 .. w
           /\ Padded(Trimmed(d), w) = d
<1> DEFINE kept == {i \in DOMAIN d : d[i] # 0}
<1>1. PICK m \in 0 .. w : /\ Trimmed(d) = SubSeq(d, 1, m)
                          /\ \A i \in 1 .. w : i > m => d[i] = 0
  <2>1. CASE kept = {}
    <3>1. Trimmed(d) = SubSeq(d, 1, 0)
      BY <2>1 DEF Trimmed
    <3>2. \A i \in 1 .. w : d[i] = 0
      BY <2>1
    <3>3. PICK m \in 0 .. w : m = 0
      OBVIOUS
    <3> QED
      BY <3>1, <3>2, <3>3
  <2>2. CASE kept # {}
    <3>1. PICK K : K = kept
      OBVIOUS
    <3>2. K \in SUBSET (0 .. w) /\ K \in SUBSET (1 .. w) /\ K # {}
      BY <2>2, <3>1
    <3>3. PICK top \in K : \A j \in K : top >= j
      BY <3>2, LargestExists
    <3>4. PICK m : m = CHOOSE i \in K : \A j \in K : j <= i
      OBVIOUS
    <3>5. top \in K /\ \A j \in K : j <= top
      BY <3>2, <3>3
    <3>6. m \in K /\ \A j \in K : j <= m
      BY <3>4, <3>5
    <3>7. Trimmed(d) = SubSeq(d, 1, m)
      BY <2>2, <3>1, <3>4 DEF Trimmed
    <3>8. \A j \in 1 .. w : j > m => d[j] = 0
      <4> SUFFICES ASSUME NEW j \in 1 .. w, j > m, d[j] # 0 PROVE FALSE
        OBVIOUS
      <4>1. j \in K
        BY <3>1
      <4> QED
        BY <3>2, <3>6, <4>1
    <3> QED
      BY <3>2, <3>6, <3>7, <3>8
  <2> QED
    BY <2>1, <2>2
<1>2. PICK t : t = SubSeq(d, 1, m)
  OBVIOUS
<1>3. t = [i \in 1 .. m |-> d[i]] /\ Len(t) = m
  BY <1>2
<1>4. Trimmed(d) = t
  BY <1>1, <1>2
<1>5. \A i \in 1 .. w : (IF i <= Len(t) THEN t[i] ELSE 0) = d[i]
  BY <1>1, <1>3
<1>6. Padded(t, w) = d
  BY <1>5 DEF Padded
<1> QED
  BY <1>3, <1>4, <1>6

\* The digits of a number below the scale, trimmed, padded and read again.
LEMMA FractionComesBack ==
    ASSUME NEW w \in Nat, NEW n \in Nat, n < PowerOf10(w)
    PROVE  /\ Len(Trimmed(Digits(n, w))) <= w
           /\ NumberOf(Padded(Trimmed(Digits(n, w)), w)) = n
<1>1. PICK d : d = Digits(n, w)
  OBVIOUS
<1>2. d = [i \in 1 .. w |-> d[i]] /\ Len(d) = w
  BY <1>1 DEF Digits
<1>3. Len(Trimmed(d)) \in 0 .. w /\ Padded(Trimmed(d), w) = d
  BY <1>2, TrimmedDigits
<1>4. NumberOf(d) = n
  <2>1. \A i \in 1 .. w : d[i] = Digits(n, w)[i]
    BY <1>1
  <2>2. w \in 0 .. w /\ w - w = 0
    OBVIOUS
  <2>3. NumberOf(d) = n \div PowerOf10(w - w)
    BY <1>2, <2>1, <2>2, NumberOfFirstDigits
  <2>4. PowerOf10(w - w) = 1
    BY <2>2, PowerStep
  <2>5. n \div 1 = n
    OBVIOUS
  <2> QED
    BY <2>3, <2>4, <2>5
<1> QED
  BY <1>1, <1>3, <1>4

\* Every amount, at every scale, is read back from what it is written as:
\* parseDecimalToAtomic after formatAtomic.
THEOREM FormattedAlwaysParses ==
    \A value \in Int, decimals \in Nat :
        LET d == FormatAtomic(value, decimals)
        IN  Parsable(d, decimals) /\ ParseDecimalToAtomic(d, decimals) = value
<1> SUFFICES ASSUME NEW value \in Int, NEW decimals \in Nat
             PROVE  /\ Parsable(FormatAtomic(value, decimals), decimals)
                    /\ ParseDecimalToAtomic(FormatAtomic(value, decimals), decimals) = value
  OBVIOUS
<1>1. PICK a \in Nat : a = (IF value < 0 THEN -value ELSE value)
  OBVIOUS
<1>2. PICK p \in Nat \ {0} : p = PowerOf10(decimals)
  BY PowerStep
<1>3. PICK n \in Nat : n = a % p /\ n < p
  OBVIOUS
<1>4. PICK f : f = Trimmed(Digits(n, decimals))
  OBVIOUS
<1>5. Len(f) <= decimals /\ NumberOf(Padded(f, decimals)) = n
  BY <1>2, <1>3, <1>4, FractionComesBack
<1>6. PICK d : d = FormatAtomic(value, decimals)
  OBVIOUS
<1>7. d.negative = (value < 0) /\ d.whole = a \div p /\ d.fraction = f
  BY <1>1, <1>2, <1>3, <1>4, <1>6 DEF FormatAtomic
<1>8. d.whole * p + NumberOf(Padded(d.fraction, decimals)) = a
  <2>1. PICK q \in Int : q = a \div p
    OBVIOUS
  <2>2. a = q * p + (a % p)
    BY <2>1
  <2> QED
    BY <1>3, <1>5, <1>7, <2>1, <2>2
<1>9. ParseDecimalToAtomic(d, decimals) = IF value < 0 THEN -a ELSE a
  BY <1>2, <1>7, <1>8 DEF ParseDecimalToAtomic
<1>10. Parsable(d, decimals)
  BY <1>5, <1>7 DEF Parsable
<1> QED
  BY <1>1, <1>6, <1>9, <1>10

\* A stored decimal of one digit more than the scale is read only if it loses
\* nothing: parseStoredDecimalToAtomic.
THEOREM StoredIsNeverCut ==
    \A value \in Int, scale \in Nat :
        LET size == IF value < 0 THEN -value ELSE value
            d == [negative |-> value < 0, whole |-> size \div PowerOf10(scale + 1),
                  fraction |-> Digits(size % PowerOf10(scale + 1), scale + 1)]
        IN  StoredParsable(d, scale) => ParseStoredDecimalToAtomic(d, scale) * 10 = value
<1> SUFFICES ASSUME NEW value \in Int, NEW scale \in Nat, NEW size \in Nat, NEW d,
                    size = IF value < 0 THEN -value ELSE value,
                    d = [negative |-> value < 0, whole |-> size \div PowerOf10(scale + 1),
                         fraction |-> Digits(size % PowerOf10(scale + 1), scale + 1)],
                    StoredParsable(d, scale)
             PROVE  ParseStoredDecimalToAtomic(d, scale) * 10 = value
  OBVIOUS
<1>1. PICK w \in Nat : w = scale + 1
  OBVIOUS
<1>2. PICK p \in Nat \ {0} : p = PowerOf10(scale) /\ PowerOf10(w) = 10 * p
  BY <1>1, PowerStep
<1>3. PICK P \in Nat \ {0} : P = 10 * p
  OBVIOUS
<1>4. PICK n \in Nat : n = size % P /\ n < P
  OBVIOUS
<1>5. PICK f : f = Digits(n, w)
  OBVIOUS
<1>6. d.negative = (value < 0) /\ d.whole = size \div P /\ d.fraction = f
  BY <1>1, <1>2, <1>3, <1>4, <1>5
<1>7. f = [i \in 1 .. w |-> (n \div PowerOf10(w - i)) % 10] /\ Len(f) = w
  BY <1>5 DEF Digits
<1>8. f[w] = n % 10
  <2>1. w \in 1 .. w /\ w - w = 0
    BY <1>1
  <2>2. PowerOf10(w - w) = 1 /\ n \div 1 = n
    BY <2>1, PowerStep
  <2>3. f[w] = (n \div PowerOf10(w - w)) % 10
    BY <1>7, <2>1
  <2> QED
    BY <2>2, <2>3
<1>9. n % 10 = 0
  <2>1. ~Parsable(d, scale)
    BY <1>1, <1>6, <1>7 DEF Parsable
  <2>2. ZeroExcess(d, scale)
    BY <2>1 DEF StoredParsable
  <2>3. w \in DOMAIN f /\ w > scale
    BY <1>1, <1>7
  <2>4. f[w] = 0
    BY <1>6, <2>2, <2>3 DEF ZeroExcess
  <2> QED
    BY <1>8, <2>4
<1>10. PICK g : g = SubSeq(f, 1, scale)
  OBVIOUS
<1>11. g = [i \in 1 .. scale |-> f[i]] /\ Len(g) = scale
  BY <1>1, <1>7, <1>10
<1>12. PICK e : e = [d EXCEPT !.fraction = SubSeq(@, 1, IF Len(@) < scale THEN Len(@) ELSE scale)]
  OBVIOUS
<1>13. e.negative = (value < 0) /\ e.whole = size \div P /\ e.fraction = g
  <2>1. PICK k \in Nat : k = (IF Len(f) < scale THEN Len(f) ELSE scale)
    BY <1>1, <1>7
  <2>2. k = scale
    BY <1>1, <1>7, <2>1
  <2>3. e = [d EXCEPT !.fraction = SubSeq(f, 1, k)]
    BY <1>6, <1>12, <2>1
  <2>4. e = [d EXCEPT !.fraction = g]
    BY <1>10, <2>2, <2>3
  <2>5. e.negative = d.negative /\ e.whole = d.whole
    BY <2>4
  <2>6. e.fraction = g
    BY <2>4
  <2> QED
    BY <1>6, <2>5, <2>6
<1>14. Padded(g, scale) = g
  BY <1>11 DEF Padded
<1>15. NumberOf(g) = n \div 10
  <2>1. \A i \in 1 .. scale : g[i] = Digits(n, w)[i]
    BY <1>5, <1>11
  <2>2. scale \in 0 .. w /\ w - scale = 0 + 1
    BY <1>1
  <2>3. n < PowerOf10(w)
    BY <1>2, <1>3, <1>4
  <2>4. Len(g) = scale
    BY <1>11
  <2>5. NumberOf(g) = n \div PowerOf10(w - scale)
    BY ONLY w \in Nat, n \in Nat, <2>1, <2>2, <2>3, <2>4, NumberOfFirstDigits
  <2>6. PowerOf10(0 + 1) = 10
    BY PowerStep
  <2> QED
    BY <2>2, <2>6, <2>5
<1>16. PICK u : u = (size \div P) * p + (n \div 10)
  OBVIOUS
<1>17. ParseStoredDecimalToAtomic(d, scale) = IF value < 0 THEN -u ELSE u
  BY <1>2, <1>12, <1>13, <1>14, <1>15, <1>16 DEF ParseStoredDecimalToAtomic, ParseDecimalToAtomic
<1>18. PICK q \in Nat : q = size \div P
  BY DivisionBounds
<1>19. size = q * P + n
  BY <1>4, <1>18
<1>20. PICK h \in Nat : h = n \div 10 /\ n = 10 * h
  BY <1>9
<1>21. (q * p + h) * 10 = q * P + 10 * h
  BY <1>3
<1>22. u \in Nat /\ u * 10 = size
  BY <1>3, <1>16, <1>18, <1>19, <1>20, <1>21
<1> QED
  BY <1>17, <1>22
=============================================================================
