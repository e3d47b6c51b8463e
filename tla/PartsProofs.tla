----------------------------- MODULE PartsProofs -----------------------------
(***************************************************************************)
(* Proofs about the parts that MCParts checks together.                    *)
(*                                                                         *)
(* Launch (lp/lp.c, RBlockSim.c): which thread of which process hosts an   *)
(* LP, for any numbers of LPs, processes and threads; and the shares of    *)
(* the hash power, with what they need of sums.  Its inductive invariant   *)
(* is PowerInv.                                                            *)
(*                                                                         *)
(* MsgHeap (datatypes/msg_queue.c), for any number of messages.  The       *)
(* inductive invariant is HInv.  The heap is in the order R when each      *)
(* parent may be above its child; climbing and descending keep any order   *)
(* that q_elem_is_before decides.  There are two: that of the times,       *)
(* always, and the whole one, as long as no ANTI bit is set.               *)
(*                                                                         *)
(* LpRollback (lib/retractable, gvt/termination.c), for any number of LPs, *)
(* any arity of the heap, any times and any checkpoints.  The inductive    *)
(* invariant is BooksInv: a log is in the order of times, each retractable *)
(* event in it is the one that was left before, and what is left is later  *)
(* than all of it; checkpoints hold what was left; an end is with a        *)
(* message of the log; and after a vote the ends are before the GVT.       *)
(*                                                                         *)
(* Transactions (RBlockSim/src/Transaction.c), for any transactions and    *)
(* chains: whatever chains a node takes and leaves, it has executed those  *)
(* of its main chain, once.  The inductive invariant is IInv.              *)
(*                                                                         *)
(* StatsFiles (log/stats.c), for any number of processes and threads.  The *)
(* inductive invariant is FilesInv: what process 0 has written is Received.*)
(***************************************************************************)
EXTENDS Launch, MsgHeap, LpRollback, Transactions, StatsFiles, NaturalsInduction,
  WellFoundedInduction, SequenceTheorems, FiniteSetTheorems, TLAPS

\* Sets of numbers have a least element.
LEMMA LeastIsThere ==
  ASSUME NEW S \in SUBSET Nat, S # {}
  PROVE  \E m \in S : \A y \in S : m <= y
<1>1. PICK m \in S : \A y \in S : <<y, m>> \notin OpToRel(<, Nat)
  BY NatLessThanWellFounded, WFMin
<1>2. \A y \in S : ~ (y < m)
  BY <1>1 DEF OpToRel
<1>3. QED
  BY <1>2

\* It is their minimum.
LEMMA MinIsLeast ==
  ASSUME NEW S \in SUBSET Nat, S # {}
  PROVE  Min(S) \in S /\ \A y \in S : Min(S) <= y
<1>1. PICK m \in S : \A y \in S : m <= y
  BY LeastIsThere
<1>2. QED
  BY <1>1 DEF Min

\* The maximum of a bounded set of naturals.
LEMMA MaxIsGreatest ==
  ASSUME NEW S \in SUBSET Nat, S # {}, NEW b \in Nat, \A x \in S : x <= b
  PROVE  Max(S) \in S /\ \A y \in S : y <= Max(S)
<1> DEFINE R == {b - x : x \in S}
<1>1. R \in SUBSET Nat /\ R # {}
  OBVIOUS
<1>2. Min(R) \in R /\ \A y \in R : Min(R) <= y
  BY <1>1, MinIsLeast
<1>3. PICK m \in S : Min(R) = b - m
  BY <1>2
<1>4. ASSUME NEW y \in S PROVE m >= y
  <2>1. b - y \in R
    OBVIOUS
  <2>2. b - m <= b - y
    BY <1>2, <1>3, <2>1
  <2>3. QED
    BY <2>2
<1>5. QED
  BY <1>4 DEF Max

\* A property of 0 that goes from each number to the next holds up to n.
LEMMA UpTo ==
  ASSUME NEW n \in Nat, NEW P, 0 \in P,
         \A i \in 0 .. n : i < n /\ i \in P => i + 1 \in P
  PROVE  \A i \in 0 .. n : i \in P
<1> DEFINE Bad == {i \in 0 .. n : i \notin P}
<1>1. ASSUME Bad # {} PROVE FALSE
  <2>1. Bad \in SUBSET Nat
    OBVIOUS
  <2>2. PICK k \in Bad : \A y \in Bad : k <= y
    <3> HIDE DEF Bad
    <3> QED
      BY <1>1, <2>1, MinIsLeast
  <2>3. k \in 0 .. n /\ k # 0
    BY <2>2
  <2>4. k - 1 \in 0 .. n /\ k - 1 < n /\ k - 1 + 1 = k
    BY <2>3
  <2>5. ~ (k <= k - 1)
    BY <2>3
  <2>6. k - 1 \in P
    BY <2>2, <2>4, <2>5
  <2>7. k \in P
    BY <2>4, <2>6
  <2>8. QED
    BY <2>2, <2>7
<1>2. QED
  BY <1>1

-----------------------------------------------------------------------------
(***************************************************************************)
(* Sums over a finite set.                                                 *)
(***************************************************************************)
Some(s) == CHOOSE x \in s : TRUE
IsSum(f, S, it) ==
  it = [s \in SUBSET S |-> IF s = {} THEN 0 ELSE f[Some(s)] + it[s \ {Some(s)}]]

\* The sum is what a recursive function over the subsets computes.
LEMMA SumIs ==
  ASSUME NEW f, NEW S
  PROVE  SumFunctionOnSet(f, S) = (CHOOSE it : IsSum(f, S, it))[S]
BY DEF SumFunctionOnSet, FoldFunctionOnSet, MapThenFoldSet, IsSum, Some

\* A set that is not empty has one element more than without the one chosen.
LEMMA WithoutSome ==
  ASSUME NEW s, IsFiniteSet(s), s # {}
  PROVE  /\ Some(s) \in s /\ IsFiniteSet(s \ {Some(s)})
         /\ Cardinality(s) \in Nat /\ Cardinality(s \ {Some(s)}) \in Nat
         /\ Cardinality(s) = Cardinality(s \ {Some(s)}) + 1
<1> DEFINE c == Some(s)
<1>1. c \in s
  BY DEF Some
<1> HIDE DEF c
<1>2. IsFiniteSet(s \ {c}) /\ Cardinality(s \ {c}) = Cardinality(s) - 1
  BY <1>1, FS_RemoveElement
<1>3. Cardinality(s) \in Nat /\ Cardinality(s \ {c}) \in Nat
  BY <1>2, FS_CardinalityType
<1>4. QED
  BY <1>1, <1>2, <1>3 DEF c

\* There is such a function,
LEMMA SumIsThere ==
  ASSUME NEW f, NEW S, IsFiniteSet(S)
  PROVE  \E it : IsSum(f, S, it)
<1> DEFINE Sets(k) == {s \in SUBSET S : Cardinality(s) <= k}
           Fits(k, it) == it = [s \in Sets(k) |-> IF s = {} THEN 0 ELSE f[Some(s)] + it[s \ {Some(s)}]]
           P == {k \in Nat : \E it : Fits(k, it)}
           n == Cardinality(S)
<1>1. n \in Nat /\ \A s \in SUBSET S : IsFiniteSet(s) /\ Cardinality(s) \in Nat /\ Cardinality(s) <= n
  BY FS_Subset, FS_CardinalityType
<1>2. 0 \in P
  <2>1. \A s \in Sets(0) : s = {}
    BY <1>1, FS_EmptySet
  <2>2. Fits(0, [s \in Sets(0) |-> 0])
    BY <2>1
  <2>3. QED
    BY <2>2
<1>3. ASSUME NEW k \in 0 .. n, k < n, k \in P PROVE k + 1 \in P
  <2>1. PICK u : Fits(k, u)
    BY <1>3
  <2> DEFINE v == [s \in Sets(k + 1) |-> IF s \in Sets(k) THEN u[s] ELSE f[Some(s)] + u[s \ {Some(s)}]]
  <2>2. ASSUME NEW s \in Sets(k + 1), s # {} PROVE s \ {Some(s)} \in Sets(k) /\ s \ {Some(s)} \in Sets(k + 1)
    <3>1. IsFiniteSet(s)
      BY <1>1, <2>2
    <3>2. QED
      BY <2>2, <3>1, WithoutSome
  <2>3. Sets(k) \subseteq Sets(k + 1)
    BY <1>1, <1>3
  <2>4. {} \in Sets(k)
    BY FS_EmptySet
  <2>5. ASSUME NEW s \in Sets(k + 1) PROVE v[s] = IF s = {} THEN 0 ELSE f[Some(s)] + v[s \ {Some(s)}]
    <3> HIDE DEF Sets
    <3>1. CASE s = {}
      BY <2>1, <2>4, <3>1
    <3>2. CASE s # {}
      <4>1. v[s \ {Some(s)}] = u[s \ {Some(s)}]
        BY <2>2, <3>2
      <4>2. s \in Sets(k) => u[s] = f[Some(s)] + u[s \ {Some(s)}]
        BY <2>1, <3>2
      <4>3. QED
        BY <3>2, <4>1, <4>2
    <3>3. QED
      BY <3>1, <3>2
  <2>6. v = [s \in Sets(k + 1) |-> v[s]]
    OBVIOUS
  <2> HIDE DEF v, Sets
  <2>7. Fits(k + 1, v)
    BY <2>5, <2>6
  <2>8. QED
    BY <1>3, <2>7
<1>4. n \in P
  <2> HIDE DEF P
  <2>1. n \in 0 .. n
    BY <1>1
  <2>2. QED
    BY <1>1, <1>2, <1>3, <2>1, UpTo
<1>5. Sets(n) = SUBSET S
  BY <1>1
<1>6. QED
  BY <1>4, <1>5 DEF IsSum

\* and its values do not depend on the set it is defined for, nor on the
\* function elsewhere.
LEMMA SumsAgree ==
  ASSUME NEW f, NEW S, IsFiniteSet(S), NEW g, NEW T \in SUBSET S, NEW a, NEW b,
         IsSum(f, S, a), IsSum(g, T, b), \A x \in T : f[x] = g[x]
  PROVE  \A s \in SUBSET T : a[s] = b[s]
<1> DEFINE n == Cardinality(S)
           P == {k \in Nat : \A s \in SUBSET T : Cardinality(s) = k => a[s] = b[s]}
<1>1. n \in Nat /\ \A s \in SUBSET T : IsFiniteSet(s) /\ Cardinality(s) \in 0 .. n
  BY FS_Subset, FS_CardinalityType
<1>2. \A s \in SUBSET T : /\ a[s] = IF s = {} THEN 0 ELSE f[Some(s)] + a[s \ {Some(s)}]
                          /\ b[s] = IF s = {} THEN 0 ELSE g[Some(s)] + b[s \ {Some(s)}]
  BY DEF IsSum
<1>3. 0 \in P
  BY <1>1, <1>2, FS_EmptySet
<1>4. ASSUME NEW k \in 0 .. n, k < n, k \in P PROVE k + 1 \in P
  <2>1. ASSUME NEW s \in SUBSET T, Cardinality(s) = k + 1 PROVE a[s] = b[s]
    <3>1. s # {} /\ IsFiniteSet(s)
      <4>1. Cardinality(s) # 0
        BY <1>4, <2>1
      <4>2. QED
        BY <1>1, <4>1, FS_EmptySet
    <3>2. Some(s) \in s /\ Cardinality(s \ {Some(s)}) = k /\ s \ {Some(s)} \in SUBSET T
      <4>1. /\ Some(s) \in s /\ Cardinality(s \ {Some(s)}) \in Nat
            /\ Cardinality(s) = Cardinality(s \ {Some(s)}) + 1
        BY <3>1, WithoutSome
      <4>2. QED
        BY <1>4, <2>1, <4>1
    <3>3. a[s \ {Some(s)}] = b[s \ {Some(s)}] /\ f[Some(s)] = g[Some(s)]
      BY <1>4, <3>2
    <3>4. QED
      BY <1>2, <3>1, <3>3
  <2>2. QED
    BY <1>4, <2>1
<1>5. \A k \in 0 .. n : k \in P
  <2> HIDE DEF P
  <2>1. QED
    BY <1>1, <1>3, <1>4, UpTo
<1>6. QED
  BY <1>1, <1>5

\* Sums of equal numbers are equal.
LEMMA SumSame ==
  ASSUME NEW f, NEW g, NEW S, IsFiniteSet(S), \A x \in S : f[x] = g[x]
  PROVE  SumFunctionOnSet(f, S) = SumFunctionOnSet(g, S)
<1> DEFINE a == CHOOSE it : IsSum(f, S, it)
           b == CHOOSE it : IsSum(g, S, it)
<1>1. IsSum(f, S, a) /\ IsSum(g, S, b)
  BY SumIsThere
<1>2. a[S] = b[S]
  <2> HIDE DEF a, b
  <2>1. QED
    BY <1>1, SumsAgree
<1>3. QED
  BY <1>2, SumIs

\* The sum, one element at a time.
LEMMA SumUnfolds ==
  ASSUME NEW f, NEW S, IsFiniteSet(S)
  PROVE  SumFunctionOnSet(f, S) =
           IF S = {} THEN 0 ELSE f[Some(S)] + SumFunctionOnSet(f, S \ {Some(S)})
<1> DEFINE T == S \ {Some(S)}
           a == CHOOSE it : IsSum(f, S, it)
           b == CHOOSE it : IsSum(f, T, it)
<1>1. IsFiniteSet(T)
  BY FS_Subset
<1>2. IsSum(f, S, a) /\ IsSum(f, T, b)
  <2> HIDE DEF T
  <2>1. QED
    BY <1>1, SumIsThere
<1>3. a[T] = b[T]
  <2> HIDE DEF a, b
  <2>1. QED
    BY <1>2, SumsAgree
<1>4. a[S] = IF S = {} THEN 0 ELSE f[Some(S)] + a[T]
  <2> HIDE DEF a, b
  <2>1. QED
    BY <1>2 DEF IsSum
<1>5. SumFunctionOnSet(f, S) = a[S] /\ SumFunctionOnSet(f, T) = b[T]
  BY SumIs
<1>6. QED
  BY <1>3, <1>4, <1>5

\* A sum of integers is one, and any element can be taken out.
LEMMA SumTells ==
  ASSUME NEW f, NEW S, IsFiniteSet(S), \A x \in S : f[x] \in Int
  PROVE  /\ SumFunctionOnSet(f, S) \in Int
         /\ \A y \in S : SumFunctionOnSet(f, S) = f[y] + SumFunctionOnSet(f, S \ {y})
<1> DEFINE n == Cardinality(S)
           Right(s) == /\ SumFunctionOnSet(f, s) \in Int
                       /\ \A y \in s : /\ SumFunctionOnSet(f, s \ {y}) \in Int
                                       /\ SumFunctionOnSet(f, s) = f[y] + SumFunctionOnSet(f, s \ {y})
           P == {k \in Nat : \A s \in SUBSET S : Cardinality(s) <= k => Right(s)}
<1>1. n \in Nat /\ \A s \in SUBSET S : IsFiniteSet(s) /\ Cardinality(s) \in 0 .. n
  BY FS_Subset, FS_CardinalityType
<1>2. 0 \in P
  <2>1. ASSUME NEW s \in SUBSET S, Cardinality(s) <= 0 PROVE Right(s)
    <3>1. s = {}
      BY <1>1, <2>1, FS_EmptySet
    <3>2. SumFunctionOnSet(f, s) = 0
      BY <3>1, SumUnfolds, FS_EmptySet
    <3>3. QED
      BY <3>1, <3>2
  <2> HIDE DEF Right
  <2>2. QED
    BY <2>1
<1>3. ASSUME NEW k \in 0 .. n, k < n, k \in P PROVE k + 1 \in P
  <2>1. ASSUME NEW s \in SUBSET S, Cardinality(s) <= k + 1 PROVE Right(s)
    <3>1. CASE Cardinality(s) <= k
      BY <1>3, <3>1
    <3>2. CASE Cardinality(s) = k + 1
      <4> DEFINE c == Some(s)
                 t == s \ {c}
      <4>1. s # {} /\ IsFiniteSet(s)
        <5>1. Cardinality(s) # 0
          BY <1>3, <3>2
        <5>2. QED
          BY <1>1, <5>1, FS_EmptySet
      <4>2. c \in s /\ Cardinality(t) <= k /\ t \in SUBSET S /\ f[c] \in Int
        BY <1>3, <3>2, <4>1, WithoutSome
      <4>3. SumFunctionOnSet(f, s) = f[c] + SumFunctionOnSet(f, t)
        BY <4>1, SumUnfolds
      <4> HIDE DEF c
      <4>4. Right(t)
        <5> HIDE DEF Right, t
        <5>1. QED
          BY <1>3, <4>2
      <4>5. ASSUME NEW y \in s, y # c
            PROVE  /\ SumFunctionOnSet(f, s \ {y}) = f[c] + SumFunctionOnSet(f, t \ {y})
                   /\ SumFunctionOnSet(f, t \ {y}) \in Int /\ f[y] \in Int
                   /\ SumFunctionOnSet(f, t) = f[y] + SumFunctionOnSet(f, t \ {y})
        <5>1. IsFiniteSet(s \ {y}) /\ Cardinality(s \ {y}) <= k /\ s \ {y} \in SUBSET S
          <6>1. IsFiniteSet(s \ {y}) /\ Cardinality(s \ {y}) = Cardinality(s) - 1
            BY <4>1, FS_RemoveElement
          <6>2. QED
            BY <1>3, <3>2, <6>1
        <5>2. Right(s \ {y})
          <6> HIDE DEF Right
          <6>1. QED
            BY <1>3, <5>1
        <5>3. c \in s \ {y} /\ (s \ {y}) \ {c} = t \ {y}
          BY <4>2, <4>5
        <5>4. SumFunctionOnSet(f, s \ {y}) = f[c] + SumFunctionOnSet(f, t \ {y})
          BY <5>2, <5>3
        <5>5. y \in t
          BY <4>5
        <5>6. QED
          BY <4>4, <5>4, <5>5
      <4>6. ASSUME NEW y \in s
            PROVE  /\ SumFunctionOnSet(f, s \ {y}) \in Int
                   /\ SumFunctionOnSet(f, s) = f[y] + SumFunctionOnSet(f, s \ {y})
        <5>1. CASE y = c
          BY <4>3, <4>4, <5>1
        <5>2. CASE y # c
          <6>1. /\ SumFunctionOnSet(f, s \ {y}) = f[c] + SumFunctionOnSet(f, t \ {y})
                /\ SumFunctionOnSet(f, t \ {y}) \in Int /\ f[y] \in Int
                /\ SumFunctionOnSet(f, t) = f[y] + SumFunctionOnSet(f, t \ {y})
            BY <4>5, <5>2
          <6>2. QED
            BY <4>2, <4>3, <6>1
        <5>3. QED
          BY <5>1, <5>2
      <4>7. QED
        BY <4>2, <4>3, <4>4, <4>6
    <3>3. QED
      BY <1>1, <1>3, <2>1, <3>1, <3>2
  <2> HIDE DEF Right
  <2>2. QED
    BY <1>3, <2>1
<1>4. n \in P
  <2> HIDE DEF P
  <2>1. n \in 0 .. n
    BY <1>1
  <2>2. QED
    BY <1>1, <1>2, <1>3, <2>1, UpTo
<1>5. Right(S)
  <2> HIDE DEF Right
  <2>1. QED
    BY <1>1, <1>4
<1>6. QED
  BY <1>5

\* When one number changes the sum changes by as much.
LEMMA SumChanges ==
  ASSUME NEW f, NEW g, NEW S, IsFiniteSet(S), NEW y \in S,
         \A x \in S : f[x] \in Int /\ g[x] \in Int /\ (x # y => f[x] = g[x])
  PROVE  /\ SumFunctionOnSet(f, S) \in Int /\ SumFunctionOnSet(g, S) \in Int
         /\ SumFunctionOnSet(g, S) = SumFunctionOnSet(f, S) + g[y] - f[y]
<1> DEFINE T == S \ {y}
<1>1. IsFiniteSet(T)
  BY FS_Subset
<1>2. SumFunctionOnSet(f, T) = SumFunctionOnSet(g, T) /\ SumFunctionOnSet(f, T) \in Int
  BY <1>1, SumSame, SumTells
<1>3. /\ SumFunctionOnSet(f, S) = f[y] + SumFunctionOnSet(f, T)
      /\ SumFunctionOnSet(g, S) = g[y] + SumFunctionOnSet(g, T)
  BY SumTells
<1> HIDE DEF T
<1>4. QED
  BY <1>2, <1>3

\* A sum of natural numbers is one; it is not less than any of them.
LEMMA SumOfNats ==
  ASSUME NEW f, NEW S, IsFiniteSet(S), \A x \in S : f[x] \in Nat
  PROVE  SumFunctionOnSet(f, S) \in Nat /\ \A y \in S : f[y] <= SumFunctionOnSet(f, S)
<1> DEFINE n == Cardinality(S)
           P == {k \in Nat : \A s \in SUBSET S : Cardinality(s) = k => SumFunctionOnSet(f, s) \in Nat}
<1>1. n \in Nat /\ \A s \in SUBSET S : IsFiniteSet(s) /\ Cardinality(s) \in 0 .. n
  BY FS_Subset, FS_CardinalityType
<1>2. 0 \in P
  <2>1. \A s \in SUBSET S : Cardinality(s) = 0 => s = {}
    BY <1>1, FS_EmptySet
  <2>2. SumFunctionOnSet(f, {}) = 0
    BY SumUnfolds, FS_EmptySet
  <2>3. QED
    BY <2>1, <2>2
<1>3. ASSUME NEW k \in 0 .. n, k < n, k \in P PROVE k + 1 \in P
  <2>1. ASSUME NEW s \in SUBSET S, Cardinality(s) = k + 1 PROVE SumFunctionOnSet(f, s) \in Nat
    <3>1. s # {} /\ IsFiniteSet(s)
      <4>1. Cardinality(s) # 0
        BY <1>3, <2>1
      <4>2. QED
        BY <1>1, <4>1, FS_EmptySet
    <3>2. Some(s) \in s /\ Cardinality(s \ {Some(s)}) = k /\ s \ {Some(s)} \in SUBSET S
      <4>1. /\ Some(s) \in s /\ Cardinality(s \ {Some(s)}) \in Nat
            /\ Cardinality(s) = Cardinality(s \ {Some(s)}) + 1
        BY <3>1, WithoutSome
      <4>2. QED
        BY <1>3, <2>1, <4>1
    <3>3. SumFunctionOnSet(f, s \ {Some(s)}) \in Nat /\ f[Some(s)] \in Nat
      BY <1>3, <3>2
    <3>4. SumFunctionOnSet(f, s) = f[Some(s)] + SumFunctionOnSet(f, s \ {Some(s)})
      BY <3>1, SumUnfolds
    <3>5. QED
      BY <3>3, <3>4
  <2>2. QED
    BY <1>3, <2>1
<1>4. \A k \in 0 .. n : k \in P
  <2> HIDE DEF P
  <2>1. QED
    BY <1>1, <1>2, <1>3, UpTo
<1>5. \A s \in SUBSET S : SumFunctionOnSet(f, s) \in Nat
  BY <1>1, <1>4
<1>6. ASSUME NEW y \in S PROVE f[y] <= SumFunctionOnSet(f, S)
  <2>1. SumFunctionOnSet(f, S) = f[y] + SumFunctionOnSet(f, S \ {y})
    BY SumTells
  <2>2. SumFunctionOnSet(f, S \ {y}) \in Nat /\ f[y] \in Nat
    BY <1>5
  <2>3. QED
    BY <2>1, <2>2
<1>7. QED
  BY <1>5, <1>6

\* A sum of zeros is zero.
LEMMA SumOfZeros ==
  ASSUME NEW f, NEW S, IsFiniteSet(S), \A x \in S : f[x] = 0
  PROVE  SumFunctionOnSet(f, S) = 0
<1> DEFINE n == Cardinality(S)
           P == {k \in Nat : \A s \in SUBSET S : Cardinality(s) = k => SumFunctionOnSet(f, s) = 0}
<1>1. n \in Nat /\ \A s \in SUBSET S : IsFiniteSet(s) /\ Cardinality(s) \in 0 .. n
  BY FS_Subset, FS_CardinalityType
<1>2. 0 \in P
  <2>1. \A s \in SUBSET S : Cardinality(s) = 0 => s = {}
    BY <1>1, FS_EmptySet
  <2>2. SumFunctionOnSet(f, {}) = 0
    BY SumUnfolds, FS_EmptySet
  <2>3. QED
    BY <2>1, <2>2
<1>3. ASSUME NEW k \in 0 .. n, k < n, k \in P PROVE k + 1 \in P
  <2>1. ASSUME NEW s \in SUBSET S, Cardinality(s) = k + 1 PROVE SumFunctionOnSet(f, s) = 0
    <3>1. s # {} /\ IsFiniteSet(s)
      <4>1. Cardinality(s) # 0
        BY <1>3, <2>1
      <4>2. QED
        BY <1>1, <4>1, FS_EmptySet
    <3>2. Some(s) \in s /\ Cardinality(s \ {Some(s)}) = k /\ s \ {Some(s)} \in SUBSET S
      <4>1. /\ Some(s) \in s /\ Cardinality(s \ {Some(s)}) \in Nat
            /\ Cardinality(s) = Cardinality(s \ {Some(s)}) + 1
        BY <3>1, WithoutSome
      <4>2. QED
        BY <1>3, <2>1, <4>1
    <3>3. SumFunctionOnSet(f, s \ {Some(s)}) = 0 /\ f[Some(s)] = 0
      BY <1>3, <3>2
    <3>4. SumFunctionOnSet(f, s) = f[Some(s)] + SumFunctionOnSet(f, s \ {Some(s)})
      BY <3>1, SumUnfolds
    <3>5. QED
      BY <3>3, <3>4
  <2>2. QED
    BY <1>3, <2>1
<1>4. \A k \in 0 .. n : k \in P
  <2> HIDE DEF P
  <2>1. QED
    BY <1>1, <1>2, <1>3, UpTo
<1>5. QED
  BY <1>1, <1>4

\* A common factor may be taken out.
Scaled(f, g, k, S) == \A x \in S : f[x] \in Int /\ g[x] = f[x] * k

LEMMA Distributes ==
  ASSUME NEW a \in Int, NEW b \in Int, NEW k \in Int
  PROVE  (a + b) * k = a * k + b * k
OBVIOUS

LEMMA SumOfTimes ==
  ASSUME NEW f, NEW g, NEW k \in Int, NEW S, IsFiniteSet(S), Scaled(f, g, k, S)
  PROVE  SumFunctionOnSet(f, S) \in Int /\ SumFunctionOnSet(g, S) = SumFunctionOnSet(f, S) * k
<1> DEFINE n == Cardinality(S)
           Right(s) == SumFunctionOnSet(f, s) \in Int /\ SumFunctionOnSet(g, s) = SumFunctionOnSet(f, s) * k
           P == {i \in Nat : \A s \in SUBSET S : Cardinality(s) = i => Right(s)}
<1>1. n \in Nat /\ \A s \in SUBSET S : IsFiniteSet(s) /\ Cardinality(s) \in 0 .. n
  BY FS_Subset, FS_CardinalityType
<1>2. 0 \in P
  <2>1. \A s \in SUBSET S : Cardinality(s) = 0 => s = {}
    BY <1>1, FS_EmptySet
  <2>2. SumFunctionOnSet(f, {}) = 0 /\ SumFunctionOnSet(g, {}) = 0
    BY SumUnfolds, FS_EmptySet
  <2>3. 0 * k = 0
    OBVIOUS
  <2>4. Right({})
    BY <2>2, <2>3
  <2> HIDE DEF Right
  <2>5. QED
    BY <2>1, <2>4
<1>3. ASSUME NEW i \in 0 .. n, i < n, i \in P PROVE i + 1 \in P
  <2>1. ASSUME NEW s \in SUBSET S, Cardinality(s) = i + 1 PROVE Right(s)
    <3> DEFINE c == Some(s)
               t == s \ {c}
    <3> HIDE DEF Right
    <3>1. s # {} /\ IsFiniteSet(s)
      <4>1. Cardinality(s) # 0
        BY <1>3, <2>1
      <4>2. QED
        BY <1>1, <4>1, FS_EmptySet
    <3>2. c \in s /\ Cardinality(t) = i /\ t \in SUBSET S
      <4>1. c \in s /\ Cardinality(t) \in Nat /\ Cardinality(s) = Cardinality(t) + 1
        BY <3>1, WithoutSome
      <4>2. QED
        BY <1>3, <2>1, <4>1
    <3>3. /\ SumFunctionOnSet(f, s) = f[c] + SumFunctionOnSet(f, t)
          /\ SumFunctionOnSet(g, s) = g[c] + SumFunctionOnSet(g, t)
      BY <3>1, SumUnfolds
    <3> HIDE DEF c, t
    <3>4. f[c] \in Int /\ g[c] = f[c] * k
      BY <3>2 DEF Scaled
    <3>5. SumFunctionOnSet(f, t) \in Int /\ SumFunctionOnSet(g, t) = SumFunctionOnSet(f, t) * k
      <4>1. Right(t)
        BY <1>3, <3>2
      <4>2. QED
        BY <4>1 DEF Right
    <3>6. (f[c] + SumFunctionOnSet(f, t)) * k = f[c] * k + SumFunctionOnSet(f, t) * k
      BY <3>4, <3>5, Distributes
    <3>7. SumFunctionOnSet(f, s) \in Int
      BY <3>3, <3>4, <3>5
    <3>8. SumFunctionOnSet(g, s) = SumFunctionOnSet(f, s) * k
      BY <3>3, <3>4, <3>5, <3>6
    <3>9. QED
      BY <3>7, <3>8 DEF Right
  <2> HIDE DEF Right
  <2>2. QED
    BY <1>3, <2>1
<1>4. \A i \in 0 .. n : i \in P
  <2> HIDE DEF P
  <2>1. QED
    BY <1>1, <1>2, <1>3, UpTo
<1>5. Right(S)
  <2> HIDE DEF Right
  <2>1. QED
    BY <1>1, <1>4
<1>6. QED
  BY <1>5

-----------------------------------------------------------------------------
\* Division, and products that grow.
LEMMA DivTells ==
  ASSUME NEW a \in Nat, NEW d \in Nat \ {0}
  PROVE  /\ a \div d \in Nat
         /\ (a \div d) * d <= a
         /\ a < ((a \div d) + 1) * d
OBVIOUS

\* Multiplication and division are monotonic.
LEMMA TimesGrows ==
  ASSUME NEW p \in Nat, NEW q \in Nat, NEW d \in Nat, p <= q
  PROVE  p * d \in Nat /\ q * d \in Nat /\ p * d <= q * d
<1>1. PICK k \in Nat : q = p + k
  BY q - p \in Nat
<1>2. k * d \in Nat /\ p * d \in Nat
  OBVIOUS
<1>3. q * d = p * d + k * d
  BY <1>1
<1>4. QED
  BY <1>2, <1>3

\* Division, by what DivTells says of it.
LEMMA DivGrows ==
  ASSUME NEW a \in Nat, NEW b \in Nat, NEW d \in Nat \ {0}, a <= b
  PROVE  a \div d <= b \div d
<1> DEFINE p == a \div d
           q == b \div d
<1>1. p \in Nat /\ q \in Nat /\ p * d <= a /\ b < (q + 1) * d
  BY DivTells
<1>2. SUFFICES ASSUME q + 1 <= p PROVE FALSE
  BY <1>1
<1>3. (q + 1) * d <= p * d /\ p * d \in Nat /\ (q + 1) * d \in Nat
  BY <1>1, <1>2, TimesGrows
<1>4. QED
  BY <1>1, <1>3

\* In c parts of 0 .. d - 1, x is in part (x * c) \div d; the numbering grows
\* with x and has only these parts.
LEMMA PartOf ==
  ASSUME NEW c \in Nat \ {0}, NEW d \in Nat \ {0}, NEW x \in 0 .. d
  PROVE  /\ (x * c) \div d \in 0 .. c
         /\ x < d => (x * c) \div d < c
         /\ x = d => (x * c) \div d = c
         /\ \A y \in 0 .. d : x <= y => (x * c) \div d <= (y * c) \div d
<1> DEFINE P(y) == (y * c) \div d
<1>1. \A y \in 0 .. d : y * c \in Nat /\ P(y) \in Nat /\ P(y) * d <= y * c
  BY DivTells
<1>2. ASSUME NEW y \in 0 .. d, x <= y PROVE P(x) <= P(y)
  <2>1. x * c \in Nat /\ y * c \in Nat /\ x * c <= y * c
    BY <1>2, TimesGrows
  <2>2. QED
    BY <2>1, DivGrows
<1>3. P(d) = c
  <2>1. d * c \in Nat /\ d * c = c * d
    OBVIOUS
  <2>2. P(d) \in Nat /\ P(d) * d <= c * d /\ c * d < (P(d) + 1) * d
    BY <2>1, DivTells
  <2>3. c + 1 <= P(d) => FALSE
    <3>1. c + 1 <= P(d) => (c + 1) * d <= P(d) * d
      BY <2>2, TimesGrows
    <3>2. (c + 1) * d = c * d + d
      OBVIOUS
    <3>3. P(d) * d \in Nat
      BY <2>2
    <3>4. QED
      BY <2>1, <2>2, <3>1, <3>2, <3>3
  <2>4. P(d) + 1 <= c => FALSE
    <3>1. P(d) + 1 <= c => (P(d) + 1) * d <= c * d
      BY <2>2, TimesGrows
    <3>2. (P(d) + 1) * d \in Nat
      BY <2>2
    <3>3. QED
      BY <2>1, <2>2, <3>1, <3>2
  <2>5. QED
    BY <2>2, <2>3, <2>4
<1>4. x < d => P(x) < c
  <2>1. SUFFICES ASSUME x < d, c <= P(x) PROVE FALSE
    BY <1>1
  <2>2. c * d <= P(x) * d /\ P(x) * d \in Nat
    BY <1>1, <2>1, TimesGrows
  <2>3. (x + 1) * c <= d * c /\ (x + 1) * c = x * c + c
    BY <2>1, TimesGrows
  <2>4. d * c = c * d /\ d * c \in Nat
    OBVIOUS
  <2>5. QED
    BY <1>1, <2>2, <2>3, <2>4
<1>5. d \in 0 .. d /\ x <= d
  OBVIOUS
<1>6. P(x) <= P(d)
  BY <1>2, <1>5
<1>7. QED
  BY <1>1, <1>2, <1>3, <1>4, <1>6

-----------------------------------------------------------------------------
\* partition_start: wherever the estimate lies, the search ends at the first
\* index of part p, or where that would be.
LEMMA PartitionTells ==
  ASSUME NEW cnt \in Nat \ {0}, NEW p \in 0 .. cnt, NEW start \in Nat, NEW tot \in Nat,
         NEW later \in SUBSET (start .. start + tot),
         start + tot \in later,
         \A x \in later, y \in start .. start + tot : x <= y => y \in later
  PROVE  LET g == PartitionStart(p, cnt, later, start, tot)
         IN  /\ g \in start .. start + tot
             /\ \A y \in start .. start + tot : y \in later <=> g <= y
<1> DEFINE estimate == start + ((p * tot) \div cnt)
           D == {start} \cup ((start .. estimate) \ later)
           down == Max(D)
           U == {g \in down .. start + tot : g \in later}
<1>1. estimate \in Nat /\ start <= estimate /\ estimate <= start + tot
  <2>1. p * tot \in Nat /\ p * tot <= cnt * tot
    BY TimesGrows
  <2>2. (p * tot) \div cnt <= (tot * cnt) \div cnt
    BY <2>1, DivGrows
  <2>3. (p * tot) \div cnt \in Nat
    BY <2>1, DivTells
  <2>4. (tot * cnt) \div cnt <= tot
    <3>1. CASE tot = 0
      BY <3>1, PartOf
    <3>2. CASE tot # 0
      BY <3>2, PartOf
    <3>3. QED
      BY <3>1, <3>2
  <2>5. QED
    BY <2>2, <2>3, <2>4
<1>2. down \in D /\ \A x \in D : x <= down
  <2>1. D \in SUBSET Nat /\ D # {} /\ \A x \in D : x <= start + tot
    BY <1>1
  <2>2. start + tot \in Nat
    OBVIOUS
  <2>3. QED
    BY <2>1, <2>2, MaxIsGreatest
<1>3. down \in start .. start + tot
  BY <1>1, <1>2
<1>4. \A x \in later : down <= x
  BY <1>2, <1>3
<1>5. U = later
  <2>1. \A x \in later : x \in Nat /\ x <= start + tot
    OBVIOUS
  <2>2. down \in Nat
    BY <1>3
  <2> HIDE DEF down
  <2>3. later \subseteq U
    BY <1>4, <2>1, <2>2
  <2>4. QED
    BY <2>3
<1>6. Min(later) \in later /\ \A y \in later : Min(later) <= y
  <2>1. later \in SUBSET Nat /\ later # {}
    OBVIOUS
  <2>2. QED
    BY <2>1, MinIsLeast
<1>7. PartitionStart(p, cnt, later, start, tot) = Min(later)
  BY <1>5 DEF PartitionStart
<1>8. QED
  BY <1>6, <1>7

-----------------------------------------------------------------------------
\* The numbers of LPs and processes: there is an LP for each process at least.
ConfOK ==
  /\ conf.lps \in Nat \ {0}
  /\ conf.n_nodes \in 1 .. conf.lps
  /\ conf.n_threads \in Nat \ {0}

\* The LPs of the processes before process n are those before LidNodeFirst(n).
LEMMA NodesTell ==
  ASSUME ConfOK, NEW n \in 0 .. conf.n_nodes
  PROVE  /\ LidNodeFirst(n) \in 0 .. conf.lps
         /\ \A lp \in 0 .. conf.lps : LidToNid(lp) >= n <=> LidNodeFirst(n) <= lp
<1> DEFINE L == conf.lps
           C == conf.n_nodes
           later == {lp \in 0 .. L : LidToNid(lp) >= n}
<1>1. L \in Nat \ {0} /\ C \in Nat \ {0} /\ n \in 0 .. C
  BY DEF ConfOK
<1>2. \A lp \in 0 .. L : /\ LidToNid(lp) \in 0 .. C
                         /\ lp = L => LidToNid(lp) = C
                         /\ \A y \in 0 .. L : lp <= y => LidToNid(lp) <= LidToNid(y)
  BY <1>1, PartOf DEF LidToNid
<1>3. \A x \in later, y \in 0 .. 0 + L : x <= y => y \in later
  BY <1>1, <1>2
<1>4. later \in SUBSET (0 .. 0 + L) /\ 0 + L \in later
  BY <1>1, <1>2
<1>5. LidNodeFirst(n) = PartitionStart(n, C, later, 0, L)
  BY DEF LidNodeFirst
<1>6. LidNodeFirst(n) \in 0 .. 0 + L /\ \A y \in 0 .. 0 + L : y \in later <=> LidNodeFirst(n) <= y
  <2> HIDE DEF later
  <2>1. L \in Nat /\ C \in Nat \ {0} /\ n \in 0 .. C /\ 0 \in Nat
    BY <1>1
  <2>2. LET g == PartitionStart(n, C, later, 0, L)
        IN  /\ g \in 0 .. 0 + L
            /\ \A y \in 0 .. 0 + L : y \in later <=> g <= y
    BY <1>3, <1>4, <2>1, PartitionTells
  <2>3. QED
    BY <1>5, <2>2
<1>7. QED
  BY <1>1, <1>6

\* A process has the LPs that are sent to it.
LEMMA NodeHas ==
  ASSUME ConfOK, NEW n \in 0 .. conf.n_nodes - 1
  PROVE  /\ NLpsNode(n) \in Nat
         /\ LidNodeFirst(n) \in Nat
         /\ LidNodeFirst(n + 1) = LidNodeFirst(n) + NLpsNode(n)
         /\ LidNodeFirst(n + 1) <= conf.lps
         /\ \A lp \in 0 .. conf.lps - 1 :
              lp \in LidNodeFirst(n) .. LidNodeFirst(n + 1) - 1 <=> LidToNid(lp) = n
<1>1. n \in 0 .. conf.n_nodes /\ n + 1 \in 0 .. conf.n_nodes /\ conf.lps \in Nat
  BY DEF ConfOK
<1>2. /\ LidNodeFirst(n) \in 0 .. conf.lps /\ LidNodeFirst(n + 1) \in 0 .. conf.lps
      /\ \A lp \in 0 .. conf.lps : LidToNid(lp) >= n <=> LidNodeFirst(n) <= lp
      /\ \A lp \in 0 .. conf.lps : LidToNid(lp) >= n + 1 <=> LidNodeFirst(n + 1) <= lp
  BY <1>1, NodesTell
<1>3. \A lp \in 0 .. conf.lps : LidToNid(lp) \in Nat
  BY PartOf DEF LidToNid, ConfOK
<1>4. LidNodeFirst(n) <= LidNodeFirst(n + 1)
  BY <1>1, <1>2, <1>3
<1>5. QED
  BY <1>1, <1>2, <1>3, <1>4 DEF NLpsNode

\* A process that has LPs has threads, and no more than LPs.
LEMMA ThreadsOfNode ==
  ASSUME ConfOK, NEW n \in 0 .. conf.n_nodes - 1
  PROVE  /\ NThreads(n) \in 0 .. NLpsNode(n)
         /\ NLpsNode(n) # 0 => NThreads(n) # 0
<1>1. {conf.n_threads, NLpsNode(n)} \in SUBSET Nat
  BY NodeHas DEF ConfOK
<1>2. NThreads(n) \in {conf.n_threads, NLpsNode(n)} /\ NThreads(n) <= NLpsNode(n)
  BY <1>1, MinIsLeast DEF NThreads
<1>3. QED
  BY <1>1, <1>2 DEF ConfOK

\* A thread has the LPs of its process that are sent to it.
LEMMA ThreadHas ==
  ASSUME ConfOK, NEW n \in 0 .. conf.n_nodes - 1, NEW r \in 0 .. NThreads(n) - 1
  PROVE  /\ LidThreadFirst(n, r) .. LidThreadFirst(n, r + 1) - 1 \subseteq 0 .. conf.lps - 1
         /\ \A lp \in 0 .. conf.lps - 1 :
              lp \in LidThreadFirst(n, r) .. LidThreadFirst(n, r + 1) - 1
                <=> LidToNid(lp) = n /\ LidToRid(n, lp) = r
<1> DEFINE first == LidNodeFirst(n)
           L == NLpsNode(n)
           T == NThreads(n)
<1>1. /\ first \in Nat /\ L \in Nat \ {0} /\ T \in Nat \ {0}
      /\ LidNodeFirst(n + 1) = first + L /\ first + L <= conf.lps /\ conf.lps \in Nat
  BY NodeHas, ThreadsOfNode DEF ConfOK
<1>2. \A lp \in first .. first + L :
        /\ LidToRid(n, lp) \in 0 .. T
        /\ lp = first + L => LidToRid(n, lp) = T
        /\ \A y \in first .. first + L : lp <= y => LidToRid(n, lp) <= LidToRid(n, y)
  <2> TAKE lp \in first .. first + L
  <2>1. lp - first \in 0 .. L /\ \A y \in first .. first + L : y - first \in 0 .. L
    BY <1>1
  <2>2. \A y \in first .. first + L : LidToRid(n, y) = ((y - first) * T) \div L
    BY DEF LidToRid
  <2> DEFINE x == lp - first
             part(z) == (z * T) \div L
  <2>3. /\ part(x) \in 0 .. T
        /\ x = L => part(x) = T
        /\ \A z \in 0 .. L : x <= z => part(x) <= part(z)
    BY <1>1, <2>1, PartOf
  <2>4. \A y \in first .. first + L : lp <= y => part(x) <= part(y - first)
    BY <1>1, <2>1, <2>3
  <2> HIDE DEF part
  <2>5. \A y \in first .. first + L : LidToRid(n, y) = part(y - first)
    BY <2>2 DEF part
  <2>6. QED
    BY <1>1, <2>1, <2>3, <2>4, <2>5
<1>3. ASSUME NEW k \in 0 .. T
      PROVE  /\ LidThreadFirst(n, k) \in first .. first + L
             /\ \A y \in first .. first + L :
                  LidToRid(n, y) >= k <=> LidThreadFirst(n, k) <= y
  <2> DEFINE later == {lp \in first .. first + L : LidToRid(n, lp) >= k}
  <2>1. \A x \in later, y \in first .. first + L : x <= y => y \in later
    BY <1>1, <1>2
  <2>2. later \in SUBSET (first .. first + L) /\ first + L \in later
    BY <1>1, <1>2
  <2>3. LidThreadFirst(n, k) = PartitionStart(k, T, later, first, L)
    BY <1>1 DEF LidThreadFirst
  <2>4. /\ LidThreadFirst(n, k) \in first .. first + L
        /\ \A y \in first .. first + L : y \in later <=> LidThreadFirst(n, k) <= y
    <3>1. T \in Nat \ {0} /\ k \in 0 .. T /\ first \in Nat /\ L \in Nat
      BY <1>1
    <3> HIDE DEF later, first, L, T
    <3>2. QED
      BY <2>1, <2>2, <2>3, <3>1, PartitionTells
  <2>5. QED
    BY <2>4
<1>4. r \in 0 .. T /\ r + 1 \in 0 .. T
  BY <1>1
<1>5. /\ LidThreadFirst(n, r) \in first .. first + L
      /\ LidThreadFirst(n, r + 1) \in first .. first + L
      /\ \A y \in first .. first + L : LidToRid(n, y) >= r <=> LidThreadFirst(n, r) <= y
      /\ \A y \in first .. first + L : LidToRid(n, y) >= r + 1 <=> LidThreadFirst(n, r + 1) <= y
  BY <1>3, <1>4
<1>6. \A lp \in 0 .. conf.lps - 1 : LidToNid(lp) = n <=> lp \in first .. first + L - 1
  BY <1>1, NodeHas
<1>7. QED
  BY <1>1, <1>2, <1>4, <1>5, <1>6

\* Among all threads, one has an LP.
LEMMA HostingTells ==
  ASSUME ConfOK, NEW lp \in LpIds
  PROVE  {h \in DOMAIN Hosting : lp \in Hosting[h]}
           = {<<LidToNid(lp), LidToRid(LidToNid(lp), lp)>>}
<1> DEFINE n == LidToNid(lp)
           r == LidToRid(n, lp)
<1>1. /\ conf.lps \in Nat \ {0} /\ conf.n_nodes \in Nat \ {0}
      /\ lp \in 0 .. conf.lps /\ lp < conf.lps /\ LpIds = 0 .. conf.lps - 1
      /\ Nodes = 0 .. conf.n_nodes - 1
  BY DEF ConfOK, LpIds, Nodes
<1>2. n \in Nodes
  BY SMTT(30), <1>1, PartOf DEF LidToNid
<1>3. r \in 0 .. NThreads(n) - 1
  <2>1. lp \in LidNodeFirst(n) .. LidNodeFirst(n + 1) - 1
    BY <1>1, <1>2, NodeHas
  <2>2. /\ NLpsNode(n) \in Nat \ {0} /\ lp - LidNodeFirst(n) \in 0 .. NLpsNode(n)
        /\ lp - LidNodeFirst(n) < NLpsNode(n)
    BY <1>1, <1>2, <2>1, NodeHas
  <2>3. NThreads(n) \in Nat \ {0}
    BY <1>1, <1>2, <2>2, ThreadsOfNode
  <2>4. r \in 0 .. NThreads(n) /\ r < NThreads(n)
    BY <2>2, <2>3, PartOf DEF LidToRid
  <2>5. QED
    BY <2>3, <2>4
<1>4. DOMAIN Hosting = UNION {{k} \X (0 .. NThreads(k) - 1) : k \in Nodes}
  BY DEF Hosting
<1>5. ASSUME NEW k \in Nodes, NEW s \in 0 .. NThreads(k) - 1
      PROVE  lp \in Hosting[<<k, s>>] <=> k = n /\ s = r
  <2>1. Hosting[<<k, s>>] = LidThreadFirst(k, s) .. LidThreadFirst(k, s + 1) - 1
    BY <1>4 DEF Hosting
  <2>2. lp \in Hosting[<<k, s>>] <=> LidToNid(lp) = k /\ LidToRid(k, lp) = s
    BY <1>1, <2>1, ThreadHas
  <2>3. QED
    BY <2>2
<1>6. QED
  BY <1>2, <1>3, <1>4, <1>5

-----------------------------------------------------------------------------
\* The inductive invariant: nothing changes the numbers, or who hosts what,
\* after RootsimInit has decided.
HostingIInv ==
  /\ conf \in [lps : Nat \ {0}, n_nodes : Nat \ {0}, n_threads : Nat]
  /\ conf.n_nodes <= conf.lps
  /\ stage = "run" => conf.n_threads # 0 /\ hosted = Hosting

\* Options and failed starts host nothing; what is hosted stays.
LEMMA StepHosting ==
  ASSUME HostingIInv, [LaunchNext]_launchVars
  PROVE  HostingIInv'
<1>1. CASE Option
  BY <1>1, LaunchAssumption DEF Option, HostingIInv, notYet
<1>2. CASE RootsimInit
  BY <1>2, LaunchAssumption DEF RootsimInit, HostingIInv
<1>3. CASE conf' = conf /\ hosted' = hosted /\ (stage' = "run" => stage = "run")
  <2>1. Hosting' = Hosting
    BY <1>3 DEF Hosting, Nodes, NThreads, NLpsNode, LidThreadFirst, LidNodeFirst, LidToNid,
       LidToRid
  <2>2. QED
    BY <1>3, <2>1 DEF HostingIInv
<1>4. QED
  BY <1>1, <1>2, <1>3 DEF LaunchNext, launchVars, notYet, EndOfOptions, InitAttackers,
     LpInit, LpFini, AfterInit, Report

\* Whatever the numbers of LPs, processes and threads, and whatever the
\* estimate of partition_start, each LP is hosted once, by the thread that
\* lid_to_nid and lid_to_rid say.
THEOREM HostedByOne == LaunchSpec => []HostedOnce
<1>1. LaunchInit => HostingIInv
  BY LaunchAssumption DEF LaunchInit, HostingIInv
<1>2. HostingIInv /\ [LaunchNext]_launchVars => HostingIInv'
  BY StepHosting
<1>3. HostingIInv => HostedOnce
  <2> SUFFICES ASSUME HostingIInv, stage = "run", NEW lp \in LpIds
               PROVE  {h \in DOMAIN hosted : lp \in hosted[h]}
                        = {<<LidToNid(lp), LidToRid(LidToNid(lp), lp)>>}
    BY DEF HostedOnce
  <2>1. ConfOK /\ hosted = Hosting
    BY DEF HostingIInv, ConfOK
  <2>2. QED
    BY <2>1, HostingTells
<1>4. QED
  BY <1>1, <1>2, <1>3, PTL DEF LaunchSpec

-----------------------------------------------------------------------------
(***************************************************************************)
(* The hash power, on one process.                                         *)
(***************************************************************************)
Attack == IF attackConfig.type = "none" THEN 0 ELSE attackConfig.hash

\* The inductive invariant: the total is the sum of what the LPs have drawn,
\* and nothing is drawn once the first LP has had its portion.
PowerIInv ==
  /\ attackConfig.hash \in Int
  /\ attackers \in SUBSET LpIds
  /\ stage \in {"options", "attackers"} => attackers = {}
  /\ stage \in {"init", "run"} \/ Started # {} =>
       IF attackConfig.type = "none" THEN attackers = {} ELSE \E a \in LpIds : attackers = {a}
  /\ stage \in {"options", "attackers", "init"} => inited = {} /\ Started = {}
  /\ inited \in SUBSET LpIds
  /\ Started # {} /\ Started # LpIds => inited = LpIds
  /\ hashPower \in [LpIds -> Nat]
  /\ \A a \in attackers : hashPower[a] = 0
  /\ Started = {} => \A lp \in LpIds \ inited : hashPower[lp] = 0
  /\ totalHashPower \in [Nodes -> Int]
  /\ totalHashPower[0] = SumFunctionOnSet(hashPower, LpIds)
  /\ portion \in [LpIds -> [num : Int, of : Int]]
  /\ \A lp \in Started : portion[lp] = Portion(lp)

PowerInv == HostingIInv /\ (conf.n_nodes = 1 => PowerIInv)

\* There is one process, and it hosts LPs only.
LEMMA OneProcess ==
  ASSUME HostingIInv, conf.n_nodes = 1
  PROVE  /\ conf.lps \in Nat \ {0} /\ LpIds = 0 .. conf.lps - 1 /\ Nodes = {0}
         /\ IsFiniteSet(LpIds)
         /\ \A lp \in LpIds : LidToNid(lp) = 0
         /\ stage = "run" => \A h \in DOMAIN hosted : h[1] = 0 /\ hosted[h] \subseteq LpIds
<1>1. conf.lps \in Nat \ {0} /\ LpIds = 0 .. conf.lps - 1 /\ Nodes = {0}
  BY DEF HostingIInv, LpIds, Nodes
<1>2. IsFiniteSet(LpIds)
  BY <1>1, FS_Interval
<1>3. ASSUME NEW lp \in LpIds PROVE LidToNid(lp) = 0
  <2>1. lp \in 0 .. conf.lps /\ lp # conf.lps
    BY <1>1
  <2>2. LidToNid(lp) = (lp * 1) \div conf.lps
    BY DEF LidToNid
  <2>3. lp * 1 = lp /\ lp \in Nat
    BY <2>1
  <2>4. lp \div conf.lps = 0
    BY <1>1, <2>1, <2>3
  <2>5. QED
    BY <2>2, <2>3, <2>4
<1>4. ASSUME stage = "run", NEW h \in DOMAIN hosted PROVE h[1] = 0 /\ hosted[h] \subseteq LpIds
  <2>1. ConfOK /\ hosted = Hosting
    BY <1>1, <1>4 DEF HostingIInv, ConfOK
  <2>2. DOMAIN Hosting = UNION {{n} \X (0 .. NThreads(n) - 1) : n \in Nodes}
    BY DEF Hosting
  <2>3. PICK n \in Nodes : h \in {n} \X (0 .. NThreads(n) - 1)
    BY <1>4, <2>1, <2>2
  <2>4. n = 0 /\ h[1] = 0 /\ h[2] \in 0 .. NThreads(n) - 1 /\ h = <<n, h[2]>>
    BY <1>1, <2>3
  <2>5. Hosting[h] = LidThreadFirst(n, h[2]) .. LidThreadFirst(n, h[2] + 1) - 1
    BY <1>4, <2>1, <2>4 DEF Hosting
  <2>6. n \in 0 .. conf.n_nodes - 1
    BY <2>4
  <2>7. QED
    BY <1>1, <2>1, <2>4, <2>5, <2>6, ThreadHas
<1>5. QED
  BY <1>1, <1>2, <1>3, <1>4

\* Nothing is drawn and no total is there before the first LP is initialized.
LEMMA PowerStarts == LaunchInit => PowerInv
<1> SUFFICES ASSUME LaunchInit PROVE PowerInv
  OBVIOUS
<1>1. HostingIInv
  BY LaunchAssumption DEF LaunchInit, HostingIInv
<1>2. ASSUME conf.n_nodes = 1 PROVE PowerIInv
  <2>1. LpIds = 0 .. conf.lps - 1 /\ Nodes = {0} /\ IsFiniteSet(LpIds)
    BY <1>1, <1>2, OneProcess
  <2>2. hashPower = [i \in LpIds |-> 0] /\ totalHashPower = [n \in Nodes |-> 0]
    BY DEF LaunchInit
  <2>3. SumFunctionOnSet(hashPower, LpIds) = 0
    BY <2>1, <2>2, SumOfZeros
  <2>4. Started = {} /\ portion \in [LpIds -> [num : Int, of : Int]]
    BY DEF LaunchInit, Started
  <2>5. attackConfig.hash \in Int /\ attackers = {} /\ stage = "options" /\ inited = {}
    BY DEF LaunchInit, NoAttack, Unset
  <2>6. QED
    BY <2>1, <2>2, <2>3, <2>4, <2>5 DEF PowerIInv
<1>3. QED
  BY <1>1, <1>2 DEF PowerInv

\* LP_INIT adds to the total what the LP draws.
LEMMA LpInitPower ==
  ASSUME HostingIInv, conf.n_nodes = 1, PowerIInv, NEW h \in DOMAIN hosted, LpInit(h[1], h[2]),
         h = <<h[1], h[2]>>
  PROVE  PowerIInv'
<1> DEFINE n == h[1]
           todo == hosted[h] \ inited
           lp == Min(todo)
<1>1. /\ stage = "run" /\ todo # {} /\ Started # LpIds
      /\ inited' = inited \cup {lp}
      /\ UNCHANGED <<stage, conf, attackConfig, attackers, hosted, portion, selfishStats>>
  BY DEF LpInit
<1>2. /\ LpIds = 0 .. conf.lps - 1 /\ Nodes = {0} /\ IsFiniteSet(LpIds) /\ conf.lps \in Nat
      /\ n = 0 /\ hosted[h] \subseteq LpIds
  BY <1>1, OneProcess
<1>3. lp \in LpIds \ inited
  <2>1. todo \in SUBSET Nat /\ todo # {}
    BY <1>1, <1>2
  <2> HIDE DEF todo
  <2>2. lp \in todo
    BY <2>1, MinIsLeast
  <2>3. QED
    BY <1>2, <2>2 DEF todo
<1>4. Started = {} /\ hashPower[lp] = 0
  BY <1>1, <1>3 DEF PowerIInv
<1>5. LpIds' = LpIds /\ Nodes' = Nodes /\ Started' = Started
  BY <1>1 DEF LpIds, Nodes, Started
<1>6. IF lp \in attackers
      THEN UNCHANGED <<hashPower, totalHashPower>>
      ELSE \E x \in HashPowers : hashPower' = [hashPower EXCEPT ![lp] = x] /\ AddToTotal(n, x)
  BY DEF LpInit
<1> HIDE DEF lp, todo
<1>7. CASE lp \in attackers
  BY <1>1, <1>2, <1>3, <1>4, <1>5, <1>6, <1>7 DEF PowerIInv
<1>8. CASE lp \notin attackers
  <2>1. PICK x \in HashPowers : hashPower' = [hashPower EXCEPT ![lp] = x] /\ AddToTotal(n, x)
    BY <1>6, <1>8
  <2>2. x \in Nat /\ hashPower \in [LpIds -> Nat]
    BY LaunchAssumption DEF PowerIInv
  <2>3. totalHashPower' = [totalHashPower EXCEPT ![0] = @ + x] /\ totalHashPower \in [Nodes -> Int]
    BY <1>2, <2>1 DEF AddToTotal, PowerIInv
  <2>4. hashPower' \in [LpIds -> Nat] /\ hashPower'[lp] = x /\ \A i \in LpIds : i # lp => hashPower'[i] = hashPower[i]
    BY <1>3, <2>1, <2>2
  <2>5. /\ SumFunctionOnSet(hashPower', LpIds) = SumFunctionOnSet(hashPower, LpIds) + x - 0
        /\ SumFunctionOnSet(hashPower, LpIds) \in Int
    <3>1. \A i \in LpIds : hashPower[i] \in Int /\ hashPower'[i] \in Int
      BY <2>2, <2>4
    <3>2. /\ SumFunctionOnSet(hashPower, LpIds) \in Int
          /\ SumFunctionOnSet(hashPower', LpIds)
               = SumFunctionOnSet(hashPower, LpIds) + hashPower'[lp] - hashPower[lp]
      <4>1. \A i \in LpIds : hashPower[i] \in Int /\ hashPower'[i] \in Int
                              /\ (i # lp => hashPower[i] = hashPower'[i])
        BY <2>4, <3>1
      <4>2. lp \in LpIds
        BY <1>3
      <4>3. IsFiniteSet(LpIds)
        BY <1>2
      <4> DEFINE drawn == hashPower'
      <4>4. \A i \in LpIds : hashPower[i] \in Int /\ drawn[i] \in Int
                              /\ (i # lp => hashPower[i] = drawn[i])
        BY <4>1
      <4> HIDE DEF drawn
      <4>5. /\ SumFunctionOnSet(hashPower, LpIds) \in Int
            /\ SumFunctionOnSet(drawn, LpIds)
                 = SumFunctionOnSet(hashPower, LpIds) + drawn[lp] - hashPower[lp]
        BY <4>2, <4>3, <4>4, SumChanges
      <4>6. QED
        BY <4>5 DEF drawn
    <3>3. QED
      BY <1>4, <2>4, <3>2
  <2>6. totalHashPower' \in [Nodes -> Int] /\ totalHashPower'[0] = totalHashPower[0] + x
    BY <1>2, <2>2, <2>3
  <2>7. totalHashPower'[0] = SumFunctionOnSet(hashPower', LpIds)
    BY <2>2, <2>5, <2>6 DEF PowerIInv
  <2>8. \A a \in attackers : hashPower'[a] = 0
    BY <1>8, <2>4 DEF PowerIInv
  <2>9. \A i \in LpIds \ inited' : hashPower'[i] = 0
    BY <1>1, <1>4, <2>4 DEF PowerIInv
  <2>10. inited' \in SUBSET LpIds /\ hashPower' \in [LpIds -> Nat]
    BY <1>1, <1>3, <2>4 DEF PowerIInv
  <2>11. QED
    BY <1>1, <1>2, <1>4, <1>5, <2>6, <2>7, <2>8, <2>9, <2>10 DEF PowerIInv
<1>9. QED
  BY <1>7, <1>8

\* RBLOCKSIM_INIT comes when the total is complete.
LEMMA AfterInitPower ==
  ASSUME HostingIInv, conf.n_nodes = 1, PowerIInv, NEW lp \in LpIds, AfterInit(lp)
  PROVE  PowerIInv'
<1>1. /\ stage = "run" /\ inited = LpIds /\ lp \in LpIds \ Started
      /\ portion' = [portion EXCEPT ![lp] = Portion(lp)]
      /\ UNCHANGED <<stage, conf, attackConfig, attackers, hosted, inited, hashPower,
                     totalHashPower, selfishStats>>
  BY DEF AfterInit
<1>2. LpIds' = LpIds /\ Nodes' = Nodes /\ \A i : Portion(i)' = Portion(i)
  BY <1>1 DEF LpIds, Nodes, Portion, LidToNid
<1>3. /\ \A i \in LpIds : LidToNid(i) = 0
      /\ Nodes = {0}
  BY OneProcess
<1>4. Portion(lp) \in [num : Int, of : Int]
  <2>1. Attack \in Int
    BY DEF Attack, PowerIInv
  <2>2. CASE lp \in attackers
    <3>1. Portion(lp) = [num |-> Attack, of |-> 1]
      BY <2>2 DEF Portion, Attack
    <3>2. QED
      BY <2>1, <3>1
  <2>3. CASE lp \notin attackers
    <3>1. Portion(lp) = [num |-> hashPower[lp] * (100 - Attack), of |-> totalHashPower[0]]
      BY <1>3, <2>3 DEF Portion, Attack
    <3>2. hashPower[lp] \in Int /\ totalHashPower[0] \in Int
      BY <1>3 DEF PowerIInv
    <3>3. hashPower[lp] * (100 - Attack) \in Int
      BY <2>1, <3>2
    <3>4. QED
      BY <3>1, <3>2, <3>3
  <2>4. QED
    BY <2>2, <2>3
<1>5. portion' \in [LpIds -> [num : Int, of : Int]]
  BY <1>1, <1>4 DEF PowerIInv
<1>6. Started' \subseteq LpIds /\ \A i \in Started' : portion'[i] = Portion(i)
  <2>1. Started' = {i \in LpIds : portion'[i].of # 0}
    BY <1>2 DEF Started
  <2>2. ASSUME NEW i \in Started' PROVE portion'[i] = Portion(i)
    <3>1. CASE i = lp
      BY <1>1, <3>1 DEF PowerIInv
    <3>2. CASE i # lp
      <4>1. portion'[i] = portion[i] /\ i \in LpIds
        BY <1>1, <2>1, <3>2 DEF PowerIInv
      <4>2. i \in Started
        BY <2>1, <4>1 DEF Started
      <4>3. QED
        BY <4>1, <4>2 DEF PowerIInv
    <3>3. QED
      BY <3>1, <3>2
  <2>3. QED
    BY <2>1, <2>2
<1>7. attackConfig' = attackConfig /\ attackers' = attackers /\ stage' = "run" /\ inited' = LpIds
  BY <1>1
<1>8. /\ hashPower' = hashPower /\ totalHashPower' = totalHashPower
  BY <1>1
<1>9. IF attackConfig.type = "none" THEN attackers = {} ELSE \E a \in LpIds : attackers = {a}
  BY <1>1 DEF PowerIInv
<1>10. \A i \in Started' : portion'[i] = Portion(i)'
  BY <1>2, <1>6
<1>11. QED
  BY <1>2, <1>5, <1>7, <1>8, <1>9, <1>10 DEF PowerIInv

\* The first events are the only steps that change hash powers or shares.
LEMMA StepPower ==
  ASSUME PowerInv, [LaunchNext]_launchVars
  PROVE  PowerInv'
<1>1. HostingIInv' /\ HostingIInv
  BY StepHosting DEF PowerInv
<1>2. conf'.n_nodes = conf.n_nodes /\ conf'.lps = conf.lps
  <2>1. CASE Option
    BY <2>1, <1>1 DEF Option, notYet, HostingIInv
  <2>2. CASE RootsimInit
    BY <2>2, <1>1 DEF RootsimInit, HostingIInv
  <2>3. CASE conf' = conf
    BY <2>3
  <2>4. QED
    BY <2>1, <2>2, <2>3 DEF LaunchNext, launchVars, notYet, EndOfOptions, InitAttackers,
       LpInit, LpFini, AfterInit, Report
<1>3. ASSUME conf.n_nodes = 1 PROVE PowerIInv'
  <2>1. PowerIInv
    BY <1>3 DEF PowerInv
  <2>2. LpIds' = LpIds /\ Nodes' = Nodes
    BY <1>2 DEF LpIds, Nodes
  <2>3. \A i : LidToNid(i)' = LidToNid(i)
    BY <1>2 DEF LidToNid
  <2> DEFINE Same == UNCHANGED <<inited, hashPower, totalHashPower, portion>>
  <2>4. ASSUME Same PROVE Started' = Started
    BY <2>2, <2>4 DEF Started
  <2>5. ASSUME Same, stage \in {"options", "attackers", "init"}, attackers' \in SUBSET LpIds,
               attackConfig'.hash \in Int,
               stage' \in {"options", "attackers"} => attackers' = {},
               stage' \in {"init", "run"} =>
                 IF attackConfig'.type = "none" THEN attackers' = {} ELSE \E a \in LpIds : attackers' = {a}
        PROVE  PowerIInv'
    <3>1. Started = {} /\ Started' = {} /\ inited = {} /\ inited' = {}
      BY <2>1, <2>4, <2>5 DEF PowerIInv
    <3>2. \A i \in LpIds : hashPower[i] = 0
      BY <2>1, <3>1 DEF PowerIInv
    <3>3. \A a \in attackers' : hashPower'[a] = 0
      BY <2>5, <3>2
    <3>4. QED
      BY <2>1, <2>2, <2>5, <3>1, <3>2, <3>3 DEF PowerIInv
  <2>6. CASE Option
    <3>1. Same /\ attackers' = attackers /\ stage = "options" /\ stage' \in {"options", "exit"}
      BY <2>6 DEF Option, notYet
    <3>2. attackConfig'.hash \in Int
      <4>1. CASE attackConfig' = attackConfig
        BY <2>1, <4>1 DEF PowerIInv
      <4>2. CASE \E a : Give("type", a) \/ Give("tolerance", a) \/ Give("depth", a)
        <5>1. PICK field, a : /\ field \in {"type", "tolerance", "depth"}
                              /\ attackConfig' = [attackConfig EXCEPT ![field] = a]
          BY <4>2 DEF Give
        <5>2. attackConfig'.hash = attackConfig.hash
          BY <5>1
        <5>3. QED
          BY <2>1, <5>2 DEF PowerIInv
      <4>3. CASE \E x \in HashOptions : Give("hash", x)
        <5>1. PICK x \in HashOptions : attackConfig' = [attackConfig EXCEPT !["hash"] = x]
          BY <4>3 DEF Give
        <5>2. x \in Int
          BY LaunchAssumption
        <5>3. attackConfig'.hash = attackConfig.hash \/ attackConfig'.hash = x
          BY <5>1
        <5>4. QED
          BY <2>1, <5>2, <5>3 DEF PowerIInv
      <4>4. QED
        BY <2>6, <4>1, <4>2, <4>3 DEF Option
    <3>3. attackers = {}
      BY <2>1, <3>1 DEF PowerIInv
    <3>4. QED
      BY <2>5, <3>1, <3>2, <3>3
  <2>7. CASE EndOfOptions
    <3>1. /\ Same /\ attackers' = attackers /\ stage = "options" /\ stage' \in {"attackers", "exit"}
          /\ attackConfig' = Settled(attackConfig)
      BY <2>7 DEF EndOfOptions, notYet
    <3>2. attackConfig'.hash \in Int
      <4>1. attackConfig.hash \in Int
        BY <2>1 DEF PowerIInv
      <4>2. CASE attackConfig.type = "none"
        BY <3>1, <4>1, <4>2 DEF Settled
      <4>3. CASE attackConfig.type # "none"
        <5>1. attackConfig'.hash = attackConfig.hash \/ attackConfig'.hash \in Int
          BY <3>1, <4>1, <4>3 DEF Settled, Or
        <5>2. QED
          BY <4>1, <5>1
      <4>4. QED
        BY <4>2, <4>3
    <3>3. attackers = {}
      BY <2>1, <3>1 DEF PowerIInv
    <3>4. QED
      BY <2>5, <3>1, <3>2, <3>3
  <2>8. CASE InitAttackers
    <3>1. Same /\ attackConfig' = attackConfig /\ stage = "attackers" /\ attackers = {}
      BY <2>1, <2>8 DEF InitAttackers, PowerIInv
    <3>2. CASE attackConfig.type = "none"
      BY <2>1, <2>5, <2>8, <3>1, <3>2 DEF InitAttackers, PowerIInv
    <3>3. CASE attackConfig.type # "none" /\ stage' = "exit" /\ attackers' = attackers
      BY <2>1, <2>5, <3>1, <3>3 DEF PowerIInv
    <3>4. CASE attackConfig.type # "none" /\ stage' = "init" /\ attackers' \in GeneratedAttackers(1)
      <4>1. attackers' \in SUBSET LpIds /\ Cardinality(attackers') = 1
        BY <3>4 DEF GeneratedAttackers
      <4>2. IsFiniteSet(attackers')
        BY <1>1, <1>3, <4>1, OneProcess, FS_Subset
      <4>3. \E a \in LpIds : attackers' = {a}
        BY <4>1, <4>2, FS_Singleton
      <4>4. QED
        BY <2>1, <2>5, <3>1, <3>4, <4>1, <4>3 DEF PowerIInv
    <3>5. QED
      BY <2>8, <3>2, <3>3, <3>4 DEF InitAttackers
  <2>9. CASE RootsimInit
    <3>1. /\ Same /\ attackConfig' = attackConfig /\ attackers' = attackers
          /\ stage = "init" /\ stage' \in {"run", "report"}
      BY <2>9 DEF RootsimInit
    <3>2. QED
      BY <2>1, <2>5, <3>1 DEF PowerIInv
  <2>10. ASSUME NEW h \in DOMAIN hosted, LpInit(h[1], h[2]) PROVE PowerIInv'
    <3>1. stage = "run"
      BY <2>10 DEF LpInit
    <3>2. h = <<h[1], h[2]>>
      BY <1>1, <2>10, <3>1 DEF HostingIInv, Hosting
    <3>3. QED
      BY <1>1, <1>3, <2>1, <2>10, <3>2, LpInitPower
  <2>11. ASSUME NEW lp \in LpIds, AfterInit(lp) PROVE PowerIInv'
    BY <1>1, <1>3, <2>1, <2>11, AfterInitPower
  <2>12. ASSUME UNCHANGED <<attackConfig, attackers, hashPower, totalHashPower, portion>>,
                conf' = conf, inited' \subseteq inited, Started = LpIds \/ inited' = inited,
                stage' = stage \/ stage' \in {"report", "exit"}
         PROVE  PowerIInv'
    <3>1. Started' = Started
      BY <2>2, <2>12 DEF Started
    <3>2. \A i : Portion(i)' = Portion(i)
      BY <2>3, <2>12 DEF Portion
    <3>3. LpIds # {}
      <4>1. conf.lps \in Nat \ {0} /\ LpIds = 0 .. conf.lps - 1
        BY <1>1, <1>3, OneProcess
      <4>2. 0 \in LpIds
        BY <4>1
      <4>3. QED
        BY <4>2
    <3>4. QED
      BY <2>1, <2>2, <2>12, <3>1, <3>2, <3>3 DEF PowerIInv
  <2>13. ASSUME NEW h \in DOMAIN hosted, LpFini(h[1], h[2]) PROVE PowerIInv'
    BY <2>12, <2>13 DEF LpFini
  <2>14. CASE Report
    BY <2>12, <2>14 DEF Report, notYet
  <2>15. CASE UNCHANGED launchVars
    BY <2>12, <2>15 DEF launchVars
  <2>16. QED
    BY <2>6, <2>7, <2>8, <2>9, <2>10, <2>11, <2>13, <2>14, <2>15 DEF LaunchNext
<1>4. QED
  BY <1>1, <1>2, <1>3 DEF PowerInv

\* For any options, hash powers and order of the LPs, the attacker's portion
\* and those that the honest nodes compute are the whole.
THEOREM PowerAddsUp == LaunchSpec => []PowerIsWhole
<1>1. LaunchInit => PowerInv
  BY PowerStarts
<1>2. PowerInv /\ [LaunchNext]_launchVars => PowerInv'
  BY StepPower
<1>3. PowerInv => PowerIsWhole
  <2> DEFINE honest == LpIds \ attackers
             num == [k \in LpIds |-> portion[k].num]
  <2> SUFFICES ASSUME PowerInv, conf.n_nodes = 1, Started = LpIds, NEW i \in honest
               PROVE  /\ \A j \in honest : portion[j].of = portion[i].of
                      /\ SumFunctionOnSet(num, honest)
                           = (100 - SumFunctionOnSet(num, attackers)) * portion[i].of
    BY DEF PowerIsWhole
  <2>1. PowerIInv /\ HostingIInv
    BY DEF PowerInv
  <2>2. /\ LpIds # {} /\ IsFiniteSet(LpIds) /\ Nodes = {0} /\ \A lp \in LpIds : LidToNid(lp) = 0
    BY <2>1, OneProcess
  <2>3. /\ Attack \in Int /\ hashPower \in [LpIds -> Nat] /\ totalHashPower[0] \in Int
        /\ attackers \in SUBSET LpIds
    BY <2>1, <2>2 DEF PowerIInv, Attack
  <2>4. /\ \A lp \in honest : /\ portion[lp].of = totalHashPower[0]
                              /\ num[lp] = hashPower[lp] * (100 - Attack)
        /\ \A lp \in attackers : num[lp] = Attack
    BY <2>1, <2>2 DEF PowerIInv, Portion, Attack
  <2>5. IsFiniteSet(honest) /\ IsFiniteSet(attackers)
    BY <2>2, <2>3, FS_Subset
  <2>6. /\ SumFunctionOnSet(num, honest) = SumFunctionOnSet(hashPower, honest) * (100 - Attack)
        /\ SumFunctionOnSet(hashPower, honest) \in Int
    <3>1. \A lp \in honest : hashPower[lp] \in Int
      BY <2>3
    <3>2. 100 - Attack \in Int
      BY <2>3
    <3> HIDE DEF num, honest
    <3>3. Scaled(hashPower, num, 100 - Attack, honest)
      BY <2>4, <3>1 DEF Scaled
    <3>4. QED
      BY <2>5, <3>2, <3>3, SumOfTimes
  <2>7. IF attackConfig.type = "none" THEN attackers = {} ELSE \E a \in LpIds : attackers = {a}
    BY <2>1, <2>2 DEF PowerIInv
  <2>8. CASE attackers = {}
    <3>1. Attack = 0
      BY <2>7, <2>8 DEF Attack
    <3>2. SumFunctionOnSet(num, attackers) = 0
      BY <2>5, <2>8, SumUnfolds
    <3>3. SumFunctionOnSet(hashPower, honest) = totalHashPower[0]
      BY <2>1, <2>8 DEF PowerIInv
    <3> HIDE DEF num
    <3>4. QED
      BY <2>3, <2>4, <2>6, <3>1, <3>2, <3>3
  <2>9. CASE attackers # {}
    <3>1. PICK a \in LpIds : attackers = {a}
      BY <2>7, <2>9
    <3>2. SumFunctionOnSet(num, {a}) = num[a] + SumFunctionOnSet(num, {a} \ {a})
      <4>1. IsFiniteSet({a}) /\ a \in {a} /\ \A x \in {a} : num[x] \in Int
        BY <2>3, <2>4, <2>5, <3>1
      <4> HIDE DEF num
      <4>2. QED
        BY <4>1, SumTells
    <3>3. SumFunctionOnSet(num, {a} \ {a}) = 0
      <4>1. {a} \ {a} = {}
        OBVIOUS
      <4>2. SumFunctionOnSet(num, {}) = 0
        BY SumUnfolds, FS_EmptySet
      <4>3. QED
        BY <4>1, <4>2
    <3>4. SumFunctionOnSet(num, attackers) = Attack
      <4>1. num[a] = Attack
        BY <2>4, <3>1
      <4> HIDE DEF num
      <4>2. QED
        BY <2>3, <3>1, <3>2, <3>3, <4>1
    <3>5. SumFunctionOnSet(hashPower, LpIds) = hashPower[a] + SumFunctionOnSet(hashPower, LpIds \ {a})
      <4>1. \A x \in LpIds : hashPower[x] \in Int
        BY <2>3
      <4>2. QED
        BY <2>2, <4>1, SumTells
    <3>6. hashPower[a] = 0
      BY <2>1, <3>1 DEF PowerIInv
    <3>7. SumFunctionOnSet(hashPower, honest) = totalHashPower[0]
      BY <2>1, <2>6, <3>1, <3>5, <3>6 DEF PowerIInv
    <3> HIDE DEF num
    <3>8. SumFunctionOnSet(num, honest) = totalHashPower[0] * (100 - Attack)
      BY <2>6, <3>7
    <3>9. totalHashPower[0] * (100 - Attack) = (100 - Attack) * totalHashPower[0]
      BY <2>3
    <3>10. QED
      BY <2>4, <3>4, <3>8, <3>9
  <2>10. QED
    BY <2>8, <2>9
<1>4. QED
  BY <1>1, <1>2, <1>3, PTL DEF LaunchSpec

-----------------------------------------------------------------------------
(***************************************************************************)
(* The queue: numbers, and arrays of messages.                             *)
(***************************************************************************)
\* Halves, as the heap takes them: the parent of i, and who has i for a parent.
LEMMA Halves ==
  /\ \A i \in Nat : i > 1 => i \div 2 \in 1 .. i - 1
  /\ \A i, j \in Nat : j \div 2 = i <=> j = 2 * i \/ j = 2 * i + 1
  OBVIOUS

\* What each index has when all before it have it, all have;
LEMMA AllFromBefore ==
  ASSUME NEW n \in Nat, NEW P, \A i \in 1 .. n : (\A j \in 1 .. i - 1 : j \in P) => i \in P
  PROVE  \A i \in 1 .. n : i \in P
<1> DEFINE Bad == {i \in 1 .. n : i \notin P}
<1>1. ASSUME Bad # {} PROVE FALSE
  <2>1. PICK k \in Bad : \A y \in Bad : k <= y
    <3>1. Bad \in SUBSET Nat
      OBVIOUS
    <3> HIDE DEF Bad
    <3>2. QED
      BY <1>1, <3>1, LeastIsThere
  <2>2. k \in 1 .. n /\ \A j \in 1 .. k - 1 : j \in 1 .. n /\ ~ (k <= j)
    OBVIOUS
  <2>3. \A j \in 1 .. k - 1 : j \in P
    BY <2>1, <2>2
  <2>4. k \in P
    BY <2>2, <2>3
  <2>5. QED
    BY <2>4
<1>2. QED
  BY <1>1

\* and when all after it.
LEMMA AllFromAfter ==
  ASSUME NEW n \in Nat, NEW P, \A i \in 1 .. n : (\A j \in i + 1 .. n : j \in P) => i \in P
  PROVE  \A i \in 1 .. n : i \in P
<1> DEFINE Q == {i \in 1 .. n : n + 1 - i \in P}
<1>1. ASSUME NEW i \in 1 .. n, \A j \in 1 .. i - 1 : j \in Q
      PROVE  i \in Q
  <2>1. n + 1 - i \in 1 .. n
    OBVIOUS
  <2>2. ASSUME NEW j \in (n + 1 - i) + 1 .. n PROVE j \in P
    <3>1. n + 1 - j \in 1 .. i - 1 /\ n + 1 - (n + 1 - j) = j
      OBVIOUS
    <3>2. n + 1 - j \in Q
      BY <1>1, <3>1
    <3>3. QED
      BY <3>1, <3>2
  <2>3. n + 1 - i \in P
    BY <2>1, <2>2
  <2>4. QED
    BY <2>3
<1>2. \A i \in 1 .. n : i \in Q
  <2> HIDE DEF Q
  <2> QED
    BY <1>1, AllFromBefore
<1>3. ASSUME NEW i \in 1 .. n PROVE i \in P
  <2>1. n + 1 - i \in 1 .. n /\ n + 1 - (n + 1 - i) = i
    OBVIOUS
  <2>2. n + 1 - i \in Q
    BY <1>2, <2>1
  <2>3. QED
    BY <2>1, <2>2
<1>4. QED
  BY <1>3

\* Induction from 0.
LEMMA NaturalsFromZero ==
  ASSUME NEW P, 0 \in P, \A k \in Nat : k \in P => k + 1 \in P
  PROVE  \A k \in Nat : k \in P
<1> DEFINE Bad == {k \in Nat : k \notin P}
<1>1. ASSUME Bad # {} PROVE FALSE
  <2>1. PICK k \in Bad : \A y \in Bad : k <= y
    <3>1. Bad \in SUBSET Nat
      OBVIOUS
    <3> HIDE DEF Bad
    <3>2. QED
      BY <1>1, <3>1, LeastIsThere
  <2>2. k \in Nat /\ k # 0
    OBVIOUS
  <2>3. k - 1 \in Nat /\ k - 1 + 1 = k /\ ~ (k <= k - 1)
    BY <2>2
  <2>4. k - 1 \in P
    BY <2>1, <2>3
  <2>5. QED
    BY <2>3, <2>4
<1>2. QED
  BY <1>1

-----------------------------------------------------------------------------
\* The heap is an array of messages.
Arr(m) == [1 .. m -> Messages]

\* which is a sequence of known length.
LEMMA ArraysAreSequences ==
  /\ \A m \in Nat : \A h \in Arr(m) : h \in Seq(Messages) /\ Len(h) = m
  /\ \A h \in Seq(Messages) : Len(h) \in Nat /\ h \in Arr(Len(h))
<1>1. ASSUME NEW m \in Nat, NEW h \in Arr(m) PROVE h \in Seq(Messages) /\ Len(h) = m
  <2>1. h \in Seq(Messages)
    BY SeqDef DEF Arr
  <2>2. DOMAIN h = 1 .. m
    BY DEF Arr
  <2>3. QED
    BY <2>1, <2>2
<1>2. ASSUME NEW h \in Seq(Messages) PROVE Len(h) \in Nat /\ h \in Arr(Len(h))
  BY DEF Arr
<1>3. QED
  BY <1>1, <1>2

\* Its elements up to m, none of which is there twice.
Img(h, m) == {h[i] : i \in 1 .. m}
Once(h, m) == \A i, j \in 1 .. m : h[i] = h[j] => i = j

\* The parent may be above its child.
IsHeap(R, h, m) == \A i \in 2 .. m : <<h[i \div 2], h[i]>> \in R

\* An order that q_elem_is_before decides.
IsOrder(R) ==
  /\ \A x, y, z \in Messages : <<x, y>> \in R /\ <<y, z>> \in R => <<x, z>> \in R
  /\ \A x, y \in Messages : IF QElemIsBefore(x, y) THEN <<x, y>> \in R ELSE <<y, x>> \in R

\* The order of times is one, whatever bits are set,
ByTime == {p \in Messages \X Messages : DestT(p[1]) <= DestT(p[2])}

\* and the whole order is one when none is.
ByAll == {p \in Messages \X Messages : ~ QElemIsBefore(p[2], p[1])}

\* Times are compared as numbers.
LEMMA TimesAreNumbers == \A m \in Messages : DestT(m) \in Nat /\ m \in Nat
BY SlotsAssumption DEF Messages, DestT

\* q_elem_is_before looks at the times first.
LEMMA OrderOfTimes == IsOrder(ByTime)
BY TimesAreNumbers DEF IsOrder, ByTime, QElemIsBefore

\* With no bit set it compares times and then types, which are all different.
LEMMA OrderOfAll ==
  ASSUME antis = {}
  PROVE  IsOrder(ByAll)
BY TimesAreNumbers DEF IsOrder, ByAll, QElemIsBefore

\* The first element of a heap may be above all.
LEMMA FirstIsLeast ==
  ASSUME NEW R, IsOrder(R), NEW m \in Nat, NEW h, \A i \in 1 .. m : h[i] \in Messages,
         IsHeap(R, h, m)
  PROVE  \A i \in 1 .. m : <<h[1], h[i]>> \in R
<1> DEFINE P == {i \in 1 .. m : <<h[1], h[i]>> \in R}
<1>1. ASSUME NEW i \in 1 .. m, \A j \in 1 .. i - 1 : j \in P PROVE i \in P
  <2>1. CASE i = 1
    BY <2>1 DEF IsOrder
  <2>2. CASE i > 1
    <3>1. i \div 2 \in 1 .. i - 1 /\ i \in 2 .. m /\ 1 \in 1 .. m
      BY <2>2, Halves
    <3>2. <<h[i \div 2], h[i]>> \in R /\ i \div 2 \in 1 .. m /\ <<h[1], h[i \div 2]>> \in R
      BY <1>1, <3>1 DEF IsHeap
    <3>3. <<h[1], h[i]>> \in R
      BY <3>1, <3>2 DEF IsOrder
    <3>4. QED
      BY <3>3
  <2>3. QED
    BY <2>1, <2>2
<1>2. \A i \in 1 .. m : i \in P
  <2> HIDE DEF P
  <2> QED
    BY <1>1, AllFromBefore
<1>3. QED
  BY <1>2

\* One element in the place of another.
LEMMA Replaced ==
  ASSUME NEW m \in Nat, NEW A, Once(A, m), NEW i \in 1 .. m,
         NEW B, B[i] \notin Img(A, m), \A k \in 1 .. m : k # i => B[k] = A[k]
  PROVE  Once(B, m) /\ Img(B, m) = (Img(A, m) \ {A[i]}) \cup {B[i]}
<1>1. Once(B, m)
  BY DEF Once, Img
<1>2. Img(B, m) = (Img(A, m) \ {A[i]}) \cup {B[i]}
  BY DEF Once, Img
<1>3. QED
  BY <1>1, <1>2

-----------------------------------------------------------------------------
(***************************************************************************)
(* heap_insert.                                                            *)
(***************************************************************************)
ClimbStep(h, e, C, i) ==
  IF i > 1 /\ QElemIsBefore(e, h[i \div 2]) THEN [C[i \div 2] EXCEPT ![i] = h[i \div 2]]
  ELSE [Append(h, e) EXCEPT ![i] = e]
IsClimb(h, e, n, C) == C = [i \in 1 .. n |-> ClimbStep(h, e, C, i)]

\* It is defined.
LEMMA ClimbIsThere ==
  ASSUME NEW h, NEW e, NEW n \in Nat
  PROVE  \E C : IsClimb(h, e, n, C)
<1> DEFINE P == {k \in Nat : \E C : IsClimb(h, e, k, C)}
<1>1. 0 \in P
  <2> DEFINE C == [i \in 1 .. 0 |-> e]
  <2>1. C = [i \in 1 .. 0 |-> ClimbStep(h, e, C, i)]
    OBVIOUS
  <2>2. IsClimb(h, e, 0, C)
    BY <2>1 DEF IsClimb
  <2>3. QED
    BY <2>2
<1>2. ASSUME NEW k \in P PROVE k + 1 \in P
  <2>1. PICK C : IsClimb(h, e, k, C)
    OBVIOUS
  <2> DEFINE D == [i \in 1 .. k + 1 |-> IF i = k + 1 THEN ClimbStep(h, e, C, i) ELSE C[i]]
  <2>2. \A i \in 1 .. k : D[i] = C[i] /\ C[i] = ClimbStep(h, e, C, i)
    <3>1. \A i \in 1 .. k : i \in 1 .. k + 1 /\ i # k + 1
      OBVIOUS
    <3>2. \A i \in 1 .. k : C[i] = ClimbStep(h, e, C, i)
      BY <2>1 DEF IsClimb
    <3>3. QED
      BY <3>1, <3>2
  <2>3. D[k + 1] = ClimbStep(h, e, C, k + 1)
    OBVIOUS
  <2>4. D = [i \in DOMAIN D |-> D[i]] /\ DOMAIN D = 1 .. k + 1
    OBVIOUS
  <2> HIDE DEF D
  <2>5. \A i \in 1 .. k + 1 : ClimbStep(h, e, D, i) = ClimbStep(h, e, C, i)
    <3>1. \A i \in 1 .. k + 1 : i > 1 => i \div 2 \in 1 .. k
      BY Halves
    <3>2. QED
      BY <2>2, <3>1 DEF ClimbStep
  <2>6. \A i \in 1 .. k + 1 : D[i] = ClimbStep(h, e, D, i)
    <3>1. \A i \in 1 .. k + 1 : i = k + 1 \/ i \in 1 .. k
      OBVIOUS
    <3>2. QED
      BY <2>2, <2>3, <2>5, <3>1
  <2>7. IsClimb(h, e, k + 1, D)
    BY <2>4, <2>6 DEF IsClimb
  <2>8. QED
    BY <2>7
<1>3. \A k \in Nat : k \in P
  <2>1. \A k \in Nat : k \in P => k + 1 \in P
    BY <1>2
  <2> HIDE DEF P
  <2>2. QED
    BY <1>1, <2>1, NaturalsFromZero
<1>4. QED
  BY <1>3

\* The array in which elem has come to i: it is there instead of what was, in order where
\* it may be above what was; what follows i is as before.
Climbed(h, e, m, C, i) ==
  /\ C[i] \in [1 .. m + 1 -> Messages]
  /\ \A j \in i + 1 .. m + 1 : C[i][j] = Append(h, e)[j]
  /\ C[i][i] = e \/ (i > 1 /\ QElemIsBefore(e, h[i \div 2]) /\ C[i][i] = h[i \div 2])
  /\ i <= m => /\ Once(C[i], m)
               /\ Img(C[i], m) = (Img(h, m) \ {h[i]}) \cup {e}

\* So it is at every index that elem comes to, as it was at the one it goes on to.
LEMMA ClimbTells ==
  ASSUME NEW m \in Nat, NEW h \in Arr(m), Once(h, m), NEW e \in Messages, e \notin Img(h, m),
         NEW C, IsClimb(h, e, m + 1, C)
  PROVE  \A i \in 1 .. m + 1 : Climbed(h, e, m, C, i)
<1> DEFINE P == {i \in 1 .. m + 1 : Climbed(h, e, m, C, i)}
           g == Append(h, e)
<1>1. h \in Seq(Messages) /\ Len(h) = m
  BY ArraysAreSequences
<1>2. g \in [1 .. m + 1 -> Messages] /\ g[m + 1] = e /\ \A i \in 1 .. m : g[i] = h[i]
  <2>1. g \in Seq(Messages) /\ Len(g) = m + 1
    BY <1>1
  <2>2. g \in [1 .. m + 1 -> Messages]
    BY <2>1, ArraysAreSequences DEF Arr
  <2>3. QED
    BY <1>1, <2>2
<1>3. Once(g, m) /\ Img(g, m) = Img(h, m)
  BY <1>2 DEF Once, Img
<1>4. \A i \in 1 .. m + 1 : C[i] = ClimbStep(h, e, C, i)
  BY DEF IsClimb
<1> HIDE DEF g
<1>5. ASSUME NEW i \in 1 .. m + 1, \A j \in 1 .. i - 1 : j \in P
      PROVE  i \in P
  <2>1. i \in Nat /\ m + 1 \in Nat /\ m <= m + 1
    OBVIOUS
  <2>2. CASE i > 1 /\ QElemIsBefore(e, h[i \div 2])
    <3> DEFINE q == i \div 2
    <3>1. q \in 1 .. i - 1 /\ q \in 1 .. m /\ q <= m
      BY <2>1, <2>2, Halves
    <3>2. C[i] = [C[q] EXCEPT ![i] = h[q]]
      BY <1>4, <2>2 DEF ClimbStep
    <3>3. /\ C[q] \in [1 .. m + 1 -> Messages] /\ \A j \in q + 1 .. m + 1 : C[q][j] = g[j]
          /\ Once(C[q], m) /\ Img(C[q], m) = (Img(h, m) \ {h[q]}) \cup {e}
      BY <1>5, <3>1 DEF Climbed, g
    <3>4. h[q] \in Messages /\ h[q] \in Img(h, m) /\ h[q] # e
      BY <3>1 DEF Arr, Img
    <3> HIDE DEF q
    <3>5. C[i] \in [1 .. m + 1 -> Messages] /\ C[i][i] = h[q]
      BY <3>2, <3>3, <3>4
    <3>6. \A j \in i + 1 .. m + 1 : C[i][j] = g[j]
      <4>1. \A j \in i + 1 .. m + 1 : j \in q + 1 .. m + 1 /\ j # i /\ j \in 1 .. m + 1
        BY <3>1
      <4>2. QED
        BY <3>2, <3>3, <4>1
    <3>7. ASSUME i <= m
          PROVE  Once(C[i], m) /\ Img(C[i], m) = (Img(h, m) \ {h[i]}) \cup {e}
      <4>1. i \in 1 .. m
        BY <3>7
      <4>2. h[q] \notin Img(C[q], m)
        BY <3>3, <3>4
      <4>3. Once(C[i], m) /\ Img(C[i], m) = (Img(C[q], m) \ {C[q][i]}) \cup {h[q]}
        <5>1. C[i][i] = h[q] /\ \A k \in 1 .. m : k # i => C[i][k] = C[q][k]
          <6>1. \A k \in 1 .. m : k \in 1 .. m + 1
            OBVIOUS
          <6>2. QED
            BY <3>2, <3>3, <3>5, <6>1
        <5>2. QED
          BY <3>3, <4>1, <4>2, <5>1, Replaced
      <4>4. C[q][i] = h[i]
        <5>1. i \in q + 1 .. m + 1
          BY <3>1, <4>1
        <5>2. QED
          BY <1>2, <3>3, <4>1, <5>1
      <4>5. h[i] # h[q] /\ h[i] \in Img(h, m)
        <5>1. i # q
          BY <3>1
        <5>2. QED
          BY <3>1, <4>1, <5>1 DEF Once, Img
      <4>6. Img(C[i], m) = (Img(h, m) \ {h[i]}) \cup {e}
        BY <3>3, <3>4, <4>3, <4>4, <4>5
      <4>7. QED
        BY <4>3, <4>6
    <3>8. QED
      BY <2>2, <3>5, <3>6, <3>7 DEF Climbed, q, g
  <2>3. CASE ~ (i > 1 /\ QElemIsBefore(e, h[i \div 2]))
    <3>1. C[i] = [g EXCEPT ![i] = e]
      BY <1>4, <2>3 DEF ClimbStep, g
    <3>2. C[i] \in [1 .. m + 1 -> Messages] /\ C[i][i] = e
      BY <1>2, <3>1
    <3>3. \A j \in i + 1 .. m + 1 : C[i][j] = g[j]
      <4>1. \A j \in i + 1 .. m + 1 : j # i /\ j \in 1 .. m + 1
        OBVIOUS
      <4>2. QED
        BY <1>2, <3>1, <4>1
    <3>4. ASSUME i <= m
          PROVE  Once(C[i], m) /\ Img(C[i], m) = (Img(h, m) \ {h[i]}) \cup {e}
      <4> DEFINE A == C[i]
      <4>1. i \in 1 .. m /\ e \notin Img(g, m) /\ A[i] = e /\ \A j \in 1 .. m : j # i => A[j] = g[j]
        <5>1. \A j \in 1 .. m : j \in 1 .. m + 1
          OBVIOUS
        <5>2. QED
          BY <1>2, <1>3, <3>1, <3>4, <5>1
      <4> HIDE DEF A
      <4>2. Once(A, m)
        BY <1>3, <4>1 DEF Once, Img
      <4>3. Img(A, m) = (Img(g, m) \ {g[i]}) \cup {e}
        BY <1>3, <4>1 DEF Once, Img
      <4>4. QED
        BY <1>2, <1>3, <4>1, <4>2, <4>3 DEF A
    <3>5. QED
      BY <3>2, <3>3, <3>4 DEF Climbed, g
  <2>4. QED
    BY <2>2, <2>3
<1>6. \A i \in 1 .. m + 1 : i \in P
  <2>1. m + 1 \in Nat
    OBVIOUS
  <2> HIDE DEF P
  <2>2. QED
    BY <1>5, <2>1, AllFromBefore
<1>7. QED
  BY <1>6

\* Order is kept on the way up: below the place that elem has come to is what was above.
LEMMA ClimbKeepsOrder ==
  ASSUME NEW m \in Nat, NEW h \in Arr(m), Once(h, m), NEW e \in Messages, e \notin Img(h, m),
         NEW C, IsClimb(h, e, m + 1, C), NEW R, IsOrder(R), IsHeap(R, h, m)
  PROVE  \A i \in 1 .. m : <<e, h[i]>> \in R => IsHeap(R, C[i], m)
<1> DEFINE P == {i \in 1 .. m : <<e, h[i]>> \in R => IsHeap(R, C[i], m)}
<1>1. \A i \in 1 .. m + 1 : Climbed(h, e, m, C, i) /\ C[i] = ClimbStep(h, e, C, i)
  BY ClimbTells DEF IsClimb
<1>2. Len(h) = m /\ h \in Seq(Messages) /\ \A i \in 1 .. m : h[i] \in Messages /\ Append(h, e)[i] = h[i]
  <2>1. h \in Seq(Messages) /\ Len(h) = m
    BY ArraysAreSequences
  <2>2. QED
    BY <2>1 DEF Arr
<1>3. ASSUME NEW i \in 1 .. m, \A j \in 1 .. i - 1 : j \in P, <<e, h[i]>> \in R
      PROVE  IsHeap(R, C[i], m)
  <2>0. i \in 1 .. m + 1 /\ i \in Nat
    OBVIOUS
  <2>1. CASE i > 1 /\ QElemIsBefore(e, h[i \div 2])
    <3> DEFINE q == i \div 2
               A == C[i]
               U == C[q]
    <3>1. q \in 1 .. i - 1 /\ q \in 1 .. m /\ q \in 1 .. m + 1
      BY <2>0, <2>1, Halves
    <3>2. A = [U EXCEPT ![i] = h[q]]
      BY <1>1, <2>0, <2>1 DEF ClimbStep
    <3>3. <<e, h[q]>> \in R
      <4>1. QElemIsBefore(e, h[q])
        BY <2>1
      <4>2. h[q] \in Messages
        BY <1>2, <3>1
      <4>3. \A x, y \in Messages : QElemIsBefore(x, y) => <<x, y>> \in R
        BY DEF IsOrder
      <4>4. QED
        BY <4>1, <4>2, <4>3
    <3>4. IsHeap(R, U, m)
      BY <1>3, <3>1, <3>3
    <3>5. /\ U \in [1 .. m + 1 -> Messages] /\ \A j \in q + 1 .. m + 1 : U[j] = Append(h, e)[j]
          /\ U[q] = e \/ (q > 1 /\ U[q] = h[q \div 2])
      BY <1>1, <3>1 DEF Climbed
    <3> HIDE DEF U, A
    <3>6. A[i] = h[q] /\ \A j \in 1 .. m : j # i => A[j] = U[j]
      BY <2>0, <3>2, <3>5
    <3>7. <<U[q], h[q]>> \in R
      <4>1. CASE q > 1 /\ U[q] = h[q \div 2]
        <5>1. q \in 2 .. m
          BY <3>1, <4>1
        <5>2. QED
          BY <4>1, <5>1 DEF IsHeap
      <4>2. QED
        BY <3>3, <3>5, <4>1
    <3>8. ASSUME NEW j \in 2 .. m PROVE <<A[j \div 2], A[j]>> \in R
      <4>1. j \div 2 \in 1 .. m /\ j \div 2 < j /\ j \in 1 .. m
        <5>1. j \in Nat /\ j > 1
          OBVIOUS
        <5>2. j \div 2 \in 1 .. j - 1
          BY <5>1, Halves
        <5>3. QED
          BY <5>2
      <4>2. CASE j = i
        <5>1. A[j \div 2] = U[q]
          BY <3>1, <3>6, <4>1, <4>2
        <5>2. QED
          BY <3>6, <3>7, <4>2, <5>1
      <4>3. CASE j # i /\ j \div 2 = i
        <5>1. A[j] = h[j]
          <6>1. j \in q + 1 .. m + 1
            BY <3>1, <4>1, <4>3
          <6>2. QED
            BY <1>2, <3>5, <3>6, <4>1, <4>3, <6>1
        <5>2. <<h[q], h[i]>> \in R /\ <<h[i], h[j]>> \in R
          <6>1. i \in 2 .. m
            BY <2>1
          <6>2. QED
            BY <4>3, <6>1 DEF IsHeap, q
        <5>3. <<h[q], h[j]>> \in R
          BY <1>2, <3>1, <4>1, <5>2 DEF IsOrder
        <5>4. QED
          BY <3>6, <4>3, <5>1, <5>3
      <4>4. CASE j # i /\ j \div 2 # i
        BY <3>4, <3>6, <4>1, <4>4 DEF IsHeap
      <4>5. QED
        BY <4>2, <4>3, <4>4
    <3>9. QED
      BY <3>8 DEF IsHeap, A
  <2>2. CASE ~ (i > 1 /\ QElemIsBefore(e, h[i \div 2]))
    <3> DEFINE A == C[i]
    <3>1. /\ A \in [1 .. m + 1 -> Messages] /\ A = [Append(h, e) EXCEPT ![i] = e]
      BY <1>1, <2>0, <2>2 DEF ClimbStep, Climbed
    <3>2. A[i] = e /\ \A j \in 1 .. m : j # i => A[j] = h[j]
      <4>1. Append(h, e) \in Arr(m + 1)
        <5>1. Append(h, e) \in Seq(Messages) /\ Len(Append(h, e)) = m + 1
          BY <1>2
        <5>2. QED
          BY <5>1, ArraysAreSequences
      <4>2. \A j \in 1 .. m : j \in 1 .. m + 1
        OBVIOUS
      <4>3. A[i] = e /\ \A j \in 1 .. m : j # i => A[j] = Append(h, e)[j]
        BY <2>0, <3>1, <4>1, <4>2 DEF Arr
      <4>4. QED
        BY <1>2, <4>3
    <3> HIDE DEF A
    <3>3. ASSUME NEW j \in 2 .. m PROVE <<A[j \div 2], A[j]>> \in R
      <4>1. j \div 2 \in 1 .. m /\ j \div 2 < j /\ j \in 1 .. m
        <5>1. j \in Nat /\ j > 1
          OBVIOUS
        <5>2. j \div 2 \in 1 .. j - 1
          BY <5>1, Halves
        <5>3. QED
          BY <5>2
      <4>2. <<h[j \div 2], h[j]>> \in R
        BY DEF IsHeap
      <4>3. CASE j = i
        <5>1. i > 1 /\ j \div 2 # i
          BY <4>1, <4>3
        <5>2. ~ QElemIsBefore(e, h[i \div 2])
          BY <2>2, <5>1
        <5>3. <<h[i \div 2], e>> \in R
          BY <1>2, <4>1, <4>3, <5>2 DEF IsOrder
        <5>4. QED
          BY <3>2, <4>1, <4>3, <5>1, <5>3
      <4>4. CASE j # i /\ j \div 2 = i
        <5>1. <<e, h[j]>> \in R
          BY <1>2, <1>3, <4>1, <4>2, <4>4 DEF IsOrder
        <5>2. QED
          BY <3>2, <4>1, <4>4, <5>1
      <4>5. CASE j # i /\ j \div 2 # i
        BY <3>2, <4>1, <4>2, <4>5
      <4>6. QED
        BY <4>3, <4>4, <4>5
    <3>4. QED
      BY <3>3 DEF IsHeap, A
  <2>3. QED
    BY <2>1, <2>2
<1>4. \A i \in 1 .. m : i \in P
  <2>1. \A i \in 1 .. m : (\A j \in 1 .. i - 1 : j \in P) => i \in P
    BY <1>3
  <2> HIDE DEF P
  <2>2. QED
    BY <2>1, AllFromBefore
<1>5. QED
  BY <1>4

\* What heap_insert returns: elem is in the heap too, once, and the order is kept.
LEMMA InsertTells ==
  ASSUME NEW m \in Nat, NEW h \in Arr(m), Once(h, m), NEW e \in Messages, e \notin Img(h, m)
  PROVE  /\ HeapInsertElem(h, e) \in Arr(m + 1)
         /\ Once(HeapInsertElem(h, e), m + 1)
         /\ Img(HeapInsertElem(h, e), m + 1) = Img(h, m) \cup {e}
         /\ \A R : IsOrder(R) /\ IsHeap(R, h, m) => IsHeap(R, HeapInsertElem(h, e), m + 1)
<1> DEFINE n == m + 1
           C == CHOOSE C : IsClimb(h, e, n, C)
           A == C[n]
           g == Append(h, e)
           q == n \div 2
<1>1. h \in Seq(Messages) /\ Len(h) = m
  BY ArraysAreSequences
<1>2. HeapInsertElem(h, e) = A
  BY <1>1 DEF HeapInsertElem, IsClimb, ClimbStep
<1>3. n \in Nat /\ n \in 1 .. m + 1 /\ n \notin 1 .. m /\ \A j \in 1 .. n : j = n \/ j \in 1 .. m
  OBVIOUS
<1>4. IsClimb(h, e, m + 1, C)
  BY <1>3, ClimbIsThere
<1> HIDE DEF C
<1>5. \A i \in 1 .. m + 1 : Climbed(h, e, m, C, i) /\ C[i] = ClimbStep(h, e, C, i)
  BY <1>4, ClimbTells DEF IsClimb
<1>6. g \in Arr(n) /\ g[n] = e /\ \A i \in 1 .. m : g[i] = h[i] /\ h[i] \in Messages
  <2>1. g \in Seq(Messages) /\ Len(g) = n
    BY <1>1
  <2>2. g \in Arr(n)
    BY <2>1, ArraysAreSequences
  <2>3. QED
    BY <1>1, <2>2 DEF Arr
<1>7. \A j \in 2 .. n : j \div 2 \in 1 .. m /\ (j # n => j \in 2 .. m)
  <2>1. ASSUME NEW j \in 2 .. n PROVE j \div 2 \in 1 .. m /\ (j # n => j \in 2 .. m)
    <3>1. j \in Nat /\ j > 1
      OBVIOUS
    <3>2. j \div 2 \in 1 .. j - 1
      BY <3>1, Halves
    <3>3. QED
      BY <3>2
  <2>2. QED
    BY <2>1
<1>8. CASE n > 1 /\ QElemIsBefore(e, h[q])
  <2> DEFINE U == C[q]
  <2>1. q \in 1 .. m /\ n \in 2 .. n
    BY <1>7, <1>8
  <2>2. A = [U EXCEPT ![n] = h[q]]
    BY <1>3, <1>5, <1>8 DEF ClimbStep
  <2>3. /\ U \in Arr(n) /\ Once(U, m) /\ Img(U, m) = (Img(h, m) \ {h[q]}) \cup {e}
        /\ U[q] = e \/ (q > 1 /\ U[q] = h[q \div 2])
    BY <1>5, <2>1 DEF Climbed, Arr
  <2>4. h[q] \in Messages /\ h[q] \in Img(h, m) /\ h[q] # e
    BY <1>6, <2>1 DEF Img
  <2>0. QElemIsBefore(e, h[q])
    BY <1>8
  <2> HIDE DEF U, A, q
  <2>5. A \in Arr(n) /\ A[n] = h[q] /\ \A j \in 1 .. m : A[j] = U[j]
    <3>1. A \in Arr(n) /\ A[n] = h[q] /\ \A j \in 1 .. n : j # n => A[j] = U[j]
      BY <1>3, <2>2, <2>3, <2>4 DEF Arr
    <3>2. \A j \in 1 .. m : j \in 1 .. n /\ j # n
      OBVIOUS
    <3>3. QED
      BY <3>1, <3>2
  <2> HIDE DEF n
  <2>6. Img(A, n) = Img(h, m) \cup {e}
    <3>1. Img(A, n) = Img(U, m) \cup {h[q]}
      <4>1. \A j \in 1 .. m : j \in 1 .. n
        BY DEF n
      <4>2. QED
        BY <1>3, <2>5, <4>1 DEF Img
    <3>2. QED
      BY <2>3, <2>4, <3>1
  <2>7. Once(A, n)
    <3>1. \A j \in 1 .. m : U[j] # h[q]
      BY <2>3, <2>4 DEF Img
    <3>2. QED
      BY <1>3, <2>3, <2>5, <3>1 DEF Once
  <2>8. ASSUME NEW R, IsOrder(R), IsHeap(R, h, m) PROVE IsHeap(R, A, n)
    <3>1. <<e, h[q]>> \in R
      BY <2>0, <2>4, <2>8 DEF IsOrder
    <3>2. IsHeap(R, U, m)
      BY <1>4, <2>1, <2>8, <3>1, ClimbKeepsOrder DEF U
    <3>3. <<U[q], h[q]>> \in R
      <4>1. CASE q > 1 /\ U[q] = h[q \div 2]
        <5>1. q \in 2 .. m
          BY <2>1, <4>1
        <5>2. QED
          BY <2>8, <4>1, <5>1 DEF IsHeap
      <4>2. QED
        BY <2>3, <3>1, <4>1
    <3>4. ASSUME NEW j \in 2 .. n PROVE <<A[j \div 2], A[j]>> \in R
      <4>1. CASE j = n
        BY <2>1, <2>5, <3>3, <4>1 DEF q
      <4>2. CASE j # n
        <5>1. j \in 2 .. m /\ j \div 2 \in 1 .. m /\ j \in 1 .. m
          BY <1>7, <4>2
        <5>2. QED
          BY <2>5, <3>2, <5>1 DEF IsHeap
      <4>3. QED
        BY <4>1, <4>2
    <3>5. QED
      BY <3>4 DEF IsHeap
  <2>9. QED
    BY <1>2, <2>5, <2>6, <2>7, <2>8 DEF A, n
<1>9. CASE ~ (n > 1 /\ QElemIsBefore(e, h[q]))
  <2>1. A = [g EXCEPT ![n] = e]
    BY <1>3, <1>5, <1>9 DEF ClimbStep
  <2>2. A \in Arr(n) /\ A[n] = e /\ \A j \in 1 .. m : A[j] = h[j]
    <3>1. A \in Arr(n) /\ A[n] = e /\ \A j \in 1 .. n : j # n => A[j] = g[j]
      BY <1>3, <1>6, <2>1 DEF Arr
    <3>2. \A j \in 1 .. m : j \in 1 .. n /\ j # n
      OBVIOUS
    <3>3. QED
      BY <1>6, <3>1, <3>2
  <2> HIDE DEF A
  <2>3. Img(A, n) = Img(h, m) \cup {e}
    <3>1. \A j \in 1 .. m : j \in 1 .. n
      BY DEF n
    <3> HIDE DEF n
    <3>2. QED
      BY <1>3, <2>2, <3>1 DEF Img
  <2> HIDE DEF n
  <2>4. Once(A, n)
    BY <1>3, <2>2 DEF Once, Img
  <2>5. ASSUME NEW R, IsOrder(R), IsHeap(R, h, m) PROVE IsHeap(R, A, n)
    <3>1. ASSUME NEW j \in 2 .. n PROVE <<A[j \div 2], A[j]>> \in R
      <4>1. CASE j = n
        <5>1. n > 1 /\ q \in 1 .. m
          BY <1>3, <1>7, <4>1
        <5>2. <<h[q], e>> \in R
          BY <1>6, <1>9, <2>5, <5>1 DEF IsOrder
        <5>3. QED
          BY <2>2, <4>1, <5>1, <5>2
      <4>2. CASE j # n
        <5>1. j \in 2 .. m /\ j \div 2 \in 1 .. m /\ j \in 1 .. m
          BY <1>7, <4>2
        <5>2. QED
          BY <2>2, <2>5, <5>1 DEF IsHeap
      <4>3. QED
        BY <4>1, <4>2
    <3>2. QED
      BY <3>1 DEF IsHeap
  <2>6. QED
    BY <1>2, <2>2, <2>3, <2>4, <2>5 DEF A, n
<1>10. QED
  BY <1>8, <1>9

-----------------------------------------------------------------------------
(***************************************************************************)
(* heap_extract.                                                           *)
(***************************************************************************)
DescendStep(h, l, cnt, D, i) ==
  IF 2 * i <= cnt /\ QElemIsBefore(h[HeapChild(h, i, cnt)], l)
  THEN [D[HeapChild(h, i, cnt)] EXCEPT ![i] = h[HeapChild(h, i, cnt)]]
  ELSE [Front(h) EXCEPT ![i] = l]
IsDescent(h, l, cnt, k, D) == D = [i \in k .. cnt |-> DescendStep(h, l, cnt, D, i)]

\* The child that moves up is one, and may be above the other.
LEMMA ChildTells ==
  ASSUME NEW cnt \in Nat, NEW h, NEW i \in 1 .. cnt, 2 * i <= cnt
  PROVE  /\ HeapChild(h, i, cnt) \in i + 1 .. cnt
         /\ HeapChild(h, i, cnt) \div 2 = i
         /\ 2 * i + 1 < 2 * HeapChild(h, i, cnt)
         /\ \A R : IsOrder(R) /\ (\A j \in 1 .. cnt : h[j] \in Messages) =>
              \A j \in 2 .. cnt : j \div 2 = i => <<h[HeapChild(h, i, cnt)], h[j]>> \in R
<1> DEFINE c == HeapChild(h, i, cnt)
<1>1. \/ c = 2 * i + 1 /\ 2 * i + 1 <= cnt /\ QElemIsBefore(h[2 * i + 1], h[2 * i])
      \/ c = 2 * i /\ ~ (2 * i + 1 <= cnt /\ QElemIsBefore(h[2 * i + 1], h[2 * i]))
  BY DEF HeapChild
<1> HIDE DEF c
<1>2. c \in i + 1 .. cnt /\ (c = 2 * i \/ c = 2 * i + 1) /\ 2 * i + 1 < 2 * c
  BY <1>1
<1>3. c \div 2 = i
  BY <1>2, Halves
<1>4. ASSUME NEW R, IsOrder(R), \A j \in 1 .. cnt : h[j] \in Messages, NEW j \in 2 .. cnt, j \div 2 = i
      PROVE  <<h[c], h[j]>> \in R
  <2>1. j = 2 * i \/ j = 2 * i + 1
    BY <1>4, Halves
  <2>2. h[c] \in Messages /\ h[j] \in Messages
    <3>1. j \in 1 .. cnt /\ c \in 1 .. cnt
      BY <1>2
    <3>2. QED
      BY <1>4, <3>1
  <2>3. CASE j = c
    <3>1. <<h[j], h[j]>> \in R
      BY <1>4, <2>2 DEF IsOrder
    <3>2. QED
      BY <2>3, <3>1
  <2>4. CASE j = 2 * i /\ c = 2 * i + 1
    <3>1. QElemIsBefore(h[c], h[j])
      BY <1>1, <2>4
    <3>2. QED
      BY <1>4, <2>2, <3>1 DEF IsOrder
  <2>5. CASE j = 2 * i + 1 /\ c = 2 * i
    <3>1. ~ QElemIsBefore(h[j], h[c])
      BY <1>1, <2>5
    <3>2. QED
      BY <1>4, <2>2, <3>1 DEF IsOrder
  <2>6. QED
    BY <1>2, <2>1, <2>3, <2>4, <2>5
<1>5. QED
  BY <1>2, <1>3, <1>4 DEF c

\* It is defined, as it goes to larger indexes.
LEMMA DescentIsThere ==
  ASSUME NEW cnt \in Nat, NEW h, NEW l
  PROVE  \E D : IsDescent(h, l, cnt, 1, D)
<1> DEFINE P == {k \in Nat : k <= cnt => \E D : IsDescent(h, l, cnt, cnt + 1 - k, D)}
<1>1. 0 \in P
  <2> DEFINE D == [i \in cnt + 1 .. cnt |-> l]
  <2>1. D = [i \in cnt + 1 .. cnt |-> DescendStep(h, l, cnt, D, i)]
    OBVIOUS
  <2>2. cnt + 1 - 0 = cnt + 1
    OBVIOUS
  <2>3. IsDescent(h, l, cnt, cnt + 1 - 0, D)
    BY <2>1, <2>2 DEF IsDescent
  <2>4. QED
    BY <2>3
<1>2. ASSUME NEW k \in P PROVE k + 1 \in P
  <2> DEFINE x == cnt - k
  <2>1. k \in Nat /\ k + 1 \in Nat /\ cnt + 1 - (k + 1) = x /\ cnt + 1 - k = x + 1
    OBVIOUS
  <2>2. ASSUME k + 1 <= cnt
        PROVE  \E D : IsDescent(h, l, cnt, x, D)
    <3>1. x \in 1 .. cnt /\ k <= cnt
      BY <2>2
    <3>2. PICK C : IsDescent(h, l, cnt, x + 1, C)
      BY <2>1, <3>1
    <3> DEFINE D == [i \in x .. cnt |-> IF i = x THEN DescendStep(h, l, cnt, C, i) ELSE C[i]]
    <3> HIDE DEF x
    <3>3. \A i \in x + 1 .. cnt : D[i] = C[i] /\ C[i] = DescendStep(h, l, cnt, C, i)
      <4>1. \A i \in x + 1 .. cnt : i \in x .. cnt /\ i # x
        BY <3>1
      <4>2. \A i \in x + 1 .. cnt : C[i] = DescendStep(h, l, cnt, C, i)
        BY <3>2 DEF IsDescent
      <4>3. QED
        BY <4>1, <4>2
    <3>4. D[x] = DescendStep(h, l, cnt, C, x) /\ \A i \in x .. cnt : i = x \/ i \in x + 1 .. cnt
      BY <3>1
    <3>5. D = [i \in DOMAIN D |-> D[i]] /\ DOMAIN D = x .. cnt
      OBVIOUS
    <3> HIDE DEF D
    <3>6. ASSUME NEW i \in x .. cnt
          PROVE  DescendStep(h, l, cnt, D, i) = DescendStep(h, l, cnt, C, i)
      <4>1. CASE 2 * i <= cnt
        <5>1. i \in 1 .. cnt
          BY <3>1
        <5>2. HeapChild(h, i, cnt) \in i + 1 .. cnt
          BY <4>1, <5>1, ChildTells
        <5>3. HeapChild(h, i, cnt) \in x + 1 .. cnt
          BY <3>1, <5>1, <5>2
        <5>4. QED
          BY <3>3, <5>3 DEF DescendStep
      <4>2. CASE ~ (2 * i <= cnt)
        BY <4>2 DEF DescendStep
      <4>3. QED
        BY <4>1, <4>2
    <3>7. \A i \in x .. cnt : D[i] = DescendStep(h, l, cnt, D, i)
      BY <3>3, <3>4, <3>6
    <3>8. IsDescent(h, l, cnt, x, D)
      BY <3>5, <3>7 DEF IsDescent
    <3>9. QED
      BY <3>8
  <2>3. QED
    BY <2>1, <2>2
<1>3. \A k \in Nat : k \in P
  <2>1. \A k \in Nat : k \in P => k + 1 \in P
    BY <1>2
  <2> HIDE DEF P
  <2>2. QED
    BY <1>1, <2>1, NaturalsFromZero
<1>4. cnt + 1 - cnt = 1 /\ cnt <= cnt /\ cnt \in P
  BY <1>3
<1>5. QED
  BY <1>4

\* The array without the last element.
LEMMA FrontTells ==
  ASSUME NEW cnt \in Nat, NEW h \in Arr(cnt + 1)
  PROVE  Front(h) \in Arr(cnt) /\ \A i \in 1 .. cnt : Front(h)[i] = h[i]
<1>1. h \in Seq(Messages) /\ Len(h) = cnt + 1
  BY ArraysAreSequences
<1>2. Front(h) = SubSeq(h, 1, cnt)
  BY <1>1 DEF Front
<1>3. Front(h) \in Seq(Messages) /\ Len(Front(h)) = cnt /\ \A i \in 1 .. cnt : Front(h)[i] = h[i]
  BY <1>1, <1>2
<1>4. QED
  BY <1>3, ArraysAreSequences

\* The array in which the last element l goes down from i: either it is at i, or a child of i
\* has come there; l is in the place of what was at i, and above the children of i nothing
\* else has changed.
Descended(h, l, cnt, D, i) ==
  /\ D[i] \in Arr(cnt)
  /\ \A j \in 1 .. cnt : j # i /\ j < 2 * i => D[i][j] = h[j]
  /\ D[i][i] = l \/ \E c \in 2 .. cnt : c \div 2 = i /\ D[i][i] = h[c]
  /\ Once(D[i], cnt)
  /\ Img(D[i], cnt) = (Img(h, cnt) \ {h[i]}) \cup {l}

\* So it is at every index that l comes to, as it was at the child it goes on to.
LEMMA DescendTells ==
  ASSUME NEW cnt \in Nat, NEW h \in Arr(cnt + 1), Once(h, cnt + 1), NEW l, l = h[cnt + 1],
         NEW D, IsDescent(h, l, cnt, 1, D)
  PROVE  \A i \in 1 .. cnt : Descended(h, l, cnt, D, i)
<1> DEFINE P == {i \in 1 .. cnt : Descended(h, l, cnt, D, i)}
           f == Front(h)
<1>1. f \in Arr(cnt) /\ \A i \in 1 .. cnt : f[i] = h[i] /\ h[i] \in Messages
  <2>1. \A i \in 1 .. cnt : i \in 1 .. cnt + 1
    OBVIOUS
  <2>2. QED
    BY <2>1, FrontTells DEF Arr
<1>2. l \in Messages /\ Once(h, cnt) /\ l \notin Img(h, cnt)
  <2>1. cnt + 1 \in 1 .. cnt + 1 /\ \A i \in 1 .. cnt : i \in 1 .. cnt + 1 /\ i # cnt + 1
    OBVIOUS
  <2>2. QED
    BY <2>1 DEF Arr, Once, Img
<1>3. \A i \in 1 .. cnt : D[i] = DescendStep(h, l, cnt, D, i)
  BY DEF IsDescent
<1> HIDE DEF f
<1>4. ASSUME NEW i \in 1 .. cnt, \A j \in i + 1 .. cnt : j \in P
      PROVE  i \in P
  <2>1. CASE 2 * i <= cnt /\ QElemIsBefore(h[HeapChild(h, i, cnt)], l)
    <3> DEFINE c == HeapChild(h, i, cnt)
               A == D[i]
               U == D[c]
    <3>1. c \in i + 1 .. cnt /\ c \div 2 = i
      BY <2>1, ChildTells
    <3>2. A = [U EXCEPT ![i] = h[c]]
      BY <1>3, <2>1 DEF DescendStep
    <3>3. /\ U \in Arr(cnt) /\ \A j \in 1 .. cnt : j # c /\ j < 2 * c => U[j] = h[j]
          /\ Once(U, cnt) /\ Img(U, cnt) = (Img(h, cnt) \ {h[c]}) \cup {l}
      BY <1>4, <3>1 DEF Descended
    <3> HIDE DEF c, A, U
    <3>4. c \in 1 .. cnt /\ c \in 2 .. cnt /\ c # i /\ c >= 2 * i /\ i < 2 * c
      BY <3>1, Halves
    <3>5. U[i] = h[i] /\ h[c] \in Messages /\ h[i] # h[c] /\ h[i] # l /\ h[c] # l
      BY <1>1, <1>2, <3>3, <3>4 DEF Once, Img
    <3>6. A[i] = h[c] /\ A \in Arr(cnt) /\ \A j \in 1 .. cnt : j # i => A[j] = U[j]
      BY <3>2, <3>3, <3>5 DEF Arr
    <3>7. \A j \in 1 .. cnt : j # i /\ j < 2 * i => A[j] = h[j]
      <4>1. \A j \in 1 .. cnt : j < 2 * i => j # c /\ j < 2 * c
        BY <3>4
      <4>2. QED
        BY <3>3, <3>6, <4>1
    <3>8. h[c] \notin Img(U, cnt) /\ h[c] \in Img(h, cnt)
      BY <3>3, <3>4, <3>5 DEF Img
    <3>9. Once(A, cnt)
      BY <3>3, <3>6, <3>8 DEF Once, Img
    <3>10. Img(A, cnt) = (Img(U, cnt) \ {U[i]}) \cup {h[c]}
      BY <3>3, <3>6, <3>8 DEF Once, Img
    <3>11. Img(A, cnt) = (Img(h, cnt) \ {h[i]}) \cup {l}
      BY <3>3, <3>5, <3>8, <3>10
    <3>12. QED
      BY <3>1, <3>4, <3>6, <3>7, <3>9, <3>11 DEF Descended, A
  <2>2. CASE ~ (2 * i <= cnt /\ QElemIsBefore(h[HeapChild(h, i, cnt)], l))
    <3> DEFINE A == D[i]
    <3>1. A = [f EXCEPT ![i] = l]
      BY <1>3, <2>2 DEF DescendStep, f
    <3> HIDE DEF A
    <3>2. A[i] = l /\ A \in Arr(cnt) /\ \A j \in 1 .. cnt : j # i => A[j] = h[j]
      BY <1>1, <1>2, <3>1 DEF Arr
    <3>3. Once(A, cnt)
      BY <1>2, <3>2 DEF Once, Img
    <3>4. Img(A, cnt) = (Img(h, cnt) \ {h[i]}) \cup {l}
      BY <1>2, <3>2 DEF Once, Img
    <3>5. QED
      BY <3>2, <3>3, <3>4 DEF Descended, A
  <2>3. QED
    BY <2>1, <2>2
<1>5. \A i \in 1 .. cnt : i \in P
  <2> HIDE DEF P
  <2> QED
    BY <1>4, AllFromAfter
<1>6. QED
  BY <1>5

\* Order is kept on the way down: what comes to a place may be above what follows there.
LEMMA DescendKeepsOrder ==
  ASSUME NEW cnt \in Nat, NEW h \in Arr(cnt + 1), Once(h, cnt + 1), NEW l, l = h[cnt + 1],
         NEW D, IsDescent(h, l, cnt, 1, D), NEW R, IsOrder(R), IsHeap(R, h, cnt)
  PROVE  \A i \in 1 .. cnt : <<h[i], l>> \in R => IsHeap(R, D[i], cnt)
<1> DEFINE P == {i \in 1 .. cnt : <<h[i], l>> \in R => IsHeap(R, D[i], cnt)}
<1>1. \A i \in 1 .. cnt : Descended(h, l, cnt, D, i) /\ D[i] = DescendStep(h, l, cnt, D, i)
  BY DescendTells DEF IsDescent
<1>2. l \in Messages /\ \A i \in 1 .. cnt : h[i] \in Messages /\ Front(h)[i] = h[i]
  <2>1. cnt + 1 \in 1 .. cnt + 1 /\ \A i \in 1 .. cnt : i \in 1 .. cnt + 1
    OBVIOUS
  <2>2. QED
    BY <2>1, FrontTells DEF Arr
<1>3. \A j \in 2 .. cnt : j \div 2 \in 1 .. cnt /\ j \div 2 < j /\ j \in 1 .. cnt
  <2>1. ASSUME NEW j \in 2 .. cnt PROVE j \div 2 \in 1 .. cnt /\ j \div 2 < j /\ j \in 1 .. cnt
    <3>1. j \in Nat /\ j > 1
      OBVIOUS
    <3>2. j \div 2 \in 1 .. j - 1
      BY <3>1, Halves
    <3>3. QED
      BY <3>2
  <2>2. QED
    BY <2>1
<1>4. ASSUME NEW i \in 1 .. cnt, \A j \in i + 1 .. cnt : j \in P, <<h[i], l>> \in R
      PROVE  IsHeap(R, D[i], cnt)
  <2>1. CASE 2 * i <= cnt /\ QElemIsBefore(h[HeapChild(h, i, cnt)], l)
    <3> DEFINE c == HeapChild(h, i, cnt)
               A == D[i]
               U == D[c]
    <3>1. /\ c \in i + 1 .. cnt /\ c \div 2 = i
          /\ \A j \in 2 .. cnt : j \div 2 = i => <<h[c], h[j]>> \in R
      BY <1>2, <1>4, <2>1, ChildTells
    <3>2. c \in 1 .. cnt /\ c \in 2 .. cnt /\ c # i /\ c >= 2 * i /\ c <= 2 * i + 1
      BY <3>1, Halves
    <3>3. A = [U EXCEPT ![i] = h[c]] /\ QElemIsBefore(h[c], l)
      BY <1>1, <2>1 DEF DescendStep
    <3>4. <<h[c], l>> \in R
      BY <1>2, <1>4, <3>2, <3>3 DEF IsOrder
    <3>5. IsHeap(R, U, cnt)
      BY <1>4, <3>1, <3>4
    <3>6. /\ U \in Arr(cnt) /\ \A j \in 1 .. cnt : j # c /\ j < 2 * c => U[j] = h[j]
          /\ U[c] = l \/ \E d \in 2 .. cnt : d \div 2 = c /\ U[c] = h[d]
      BY <1>1, <3>2 DEF Descended
    <3> HIDE DEF c, A, U
    <3>7. A[i] = h[c] /\ \A j \in 1 .. cnt : j # i => A[j] = U[j]
      BY <3>2, <3>3, <3>6 DEF Arr
    <3>8. <<h[c], U[c]>> \in R
      BY <3>4, <3>6 DEF IsHeap
    <3>9. ASSUME NEW j \in 2 .. cnt PROVE <<A[j \div 2], A[j]>> \in R
      <4>1. j \div 2 \in 1 .. cnt /\ j \div 2 < j /\ j \in 1 .. cnt
        BY <1>3
      <4>2. CASE j = i
        <5>1. A[j \div 2] = h[i \div 2]
          <6>1. i \div 2 # i /\ i \div 2 # c /\ i \div 2 < 2 * c
            BY <3>2, <4>1, <4>2
          <6>2. QED
            BY <3>6, <3>7, <4>1, <4>2, <6>1
        <5>2. <<h[i \div 2], h[i]>> \in R /\ <<h[i], h[c]>> \in R
          BY <3>1, <3>2, <4>2 DEF IsHeap
        <5>3. <<h[i \div 2], h[c]>> \in R
          BY <1>2, <3>2, <4>1, <4>2, <5>2 DEF IsOrder
        <5>4. QED
          BY <3>7, <4>2, <5>1, <5>3
      <4>3. CASE j \div 2 = i
        <5>1. CASE j = c
          BY <3>7, <3>8, <4>1, <4>3, <5>1
        <5>2. CASE j # c
          <6>1. j < 2 * c /\ j # i
            <7>1. j <= 2 * i + 1
              BY <4>3, Halves
            <7>2. QED
              BY <3>2, <4>1, <4>3, <7>1
          <6>2. A[j] = h[j]
            BY <3>6, <3>7, <4>1, <5>2, <6>1
          <6>3. QED
            BY <3>1, <3>7, <4>3, <6>2
        <5>3. QED
          BY <5>1, <5>2
      <4>4. CASE j # i /\ j \div 2 # i
        BY <3>5, <3>7, <4>1, <4>4 DEF IsHeap
      <4>5. QED
        BY <4>2, <4>3, <4>4
    <3>10. QED
      BY <3>9 DEF IsHeap, A
  <2>2. CASE ~ (2 * i <= cnt /\ QElemIsBefore(h[HeapChild(h, i, cnt)], l))
    <3> DEFINE A == D[i]
    <3>1. A = [Front(h) EXCEPT ![i] = l]
      BY <1>1, <2>2 DEF DescendStep
    <3> HIDE DEF A
    <3>2. A[i] = l /\ \A j \in 1 .. cnt : j # i => A[j] = h[j]
      BY <1>2, <3>1, FrontTells DEF Arr
    <3>3. ASSUME NEW j \in 2 .. cnt PROVE <<A[j \div 2], A[j]>> \in R
      <4>1. j \div 2 \in 1 .. cnt /\ j \div 2 < j /\ j \in 1 .. cnt /\ <<h[j \div 2], h[j]>> \in R
        BY <1>3 DEF IsHeap
      <4>2. CASE j = i
        <5>1. <<h[i \div 2], l>> \in R
          BY <1>2, <1>4, <4>1, <4>2 DEF IsOrder
        <5>2. QED
          BY <3>2, <4>1, <4>2, <5>1
      <4>3. CASE j \div 2 = i
        <5>0. j # i
          BY <4>1, <4>3
        <5>1. 2 * i <= cnt /\ HeapChild(h, i, cnt) \in 1 .. cnt
          <6>1. 2 * i <= cnt
            BY <4>3, Halves
          <6>2. HeapChild(h, i, cnt) \in i + 1 .. cnt
            BY <6>1, ChildTells
          <6>3. QED
            BY <6>1, <6>2
        <5>2. ~ QElemIsBefore(h[HeapChild(h, i, cnt)], l)
          BY <2>2, <5>1
        <5>3. <<l, h[HeapChild(h, i, cnt)]>> \in R
          BY <1>2, <1>4, <5>1, <5>2 DEF IsOrder
        <5>4. <<h[HeapChild(h, i, cnt)], h[j]>> \in R
          BY <1>2, <4>3, <5>1, ChildTells
        <5>5. <<l, h[j]>> \in R
          BY <1>2, <4>1, <5>1, <5>3, <5>4 DEF IsOrder
        <5>6. QED
          BY <3>2, <4>1, <4>3, <5>0, <5>5
      <4>4. CASE j # i /\ j \div 2 # i
        BY <3>2, <4>1, <4>4
      <4>5. QED
        BY <4>2, <4>3, <4>4
    <3>4. QED
      BY <3>3 DEF IsHeap, A
  <2>3. QED
    BY <2>1, <2>2
<1>5. \A i \in 1 .. cnt : i \in P
  <2>1. \A i \in 1 .. cnt : (\A j \in i + 1 .. cnt : j \in P) => i \in P
    BY <1>4
  <2> HIDE DEF P
  <2>2. QED
    BY <2>1, AllFromAfter
<1>6. QED
  BY <1>5

\* What heap_extract leaves: all but the first, in order.
LEMMA ExtractTells ==
  ASSUME NEW cnt \in Nat, NEW h \in Arr(cnt + 1), Once(h, cnt + 1)
  PROVE  /\ HeapWithoutMin(h) \in Arr(cnt)
         /\ Once(HeapWithoutMin(h), cnt)
         /\ Img(HeapWithoutMin(h), cnt) = Img(h, cnt + 1) \ {h[1]}
         /\ \A R : IsOrder(R) /\ IsHeap(R, h, cnt + 1) => IsHeap(R, HeapWithoutMin(h), cnt)
<1> DEFINE n == cnt + 1
           l == h[n]
           D == CHOOSE D : IsDescent(h, l, cnt, 1, D)
           A == D[1]
<1>1. Len(h) = n /\ n - 1 = cnt /\ n \in 1 .. n /\ 1 \in 1 .. n
      /\ \A i \in 1 .. n : i = n \/ i \in 1 .. cnt
  BY ArraysAreSequences
<1>2. \A i \in 1 .. n : h[i] \in Messages
  BY DEF Arr
<1>3. CASE cnt = 0
  <2>1. HeapWithoutMin(h) = <<>>
    BY <1>1, <1>3 DEF HeapWithoutMin
  <2>2. <<>> \in Seq(Messages) /\ Len(<<>>) = 0
    OBVIOUS
  <2>3. HeapWithoutMin(h) \in Arr(cnt)
    BY <1>3, <2>1, <2>2, ArraysAreSequences
  <2>4. Img(h, n) = {h[1]} /\ Img(HeapWithoutMin(h), cnt) = {} /\ Once(HeapWithoutMin(h), cnt)
    BY <1>3 DEF Img, Once
  <2>5. \A R : IsHeap(R, HeapWithoutMin(h), cnt)
    BY <1>3 DEF IsHeap
  <2>6. QED
    BY <2>3, <2>4, <2>5
<1>4. CASE cnt # 0
  <2>1. HeapWithoutMin(h) = A
    BY <1>1, <1>4 DEF HeapWithoutMin, IsDescent, DescendStep
  <2>2. IsDescent(h, l, cnt, 1, D)
    BY DescentIsThere
  <2>3. 1 \in 1 .. cnt
    BY <1>4
  <2> HIDE DEF D
  <2>4. Descended(h, l, cnt, D, 1)
    BY <2>2, <2>3, DescendTells
  <2>5. Img(h, n) = Img(h, cnt) \cup {l} /\ h[1] # l
    <3>1. \A i \in 1 .. cnt : i \in 1 .. n /\ i # n
      OBVIOUS
    <3>2. Img(h, n) = Img(h, cnt) \cup {l}
      BY <1>1, <3>1 DEF Img
    <3>3. QED
      BY <1>1, <2>3, <3>1, <3>2 DEF Once
  <2>6. Img(A, cnt) = Img(h, n) \ {h[1]}
    BY <2>4, <2>5 DEF Descended
  <2>7. ASSUME NEW R, IsOrder(R), IsHeap(R, h, n) PROVE IsHeap(R, A, cnt)
    <3>1. <<h[1], l>> \in R
      BY <1>1, <1>2, <2>7, FirstIsLeast
    <3>2. IsHeap(R, h, cnt)
      <4>1. \A i \in 2 .. cnt : i \in 2 .. n
        OBVIOUS
      <4>2. QED
        BY <2>7, <4>1 DEF IsHeap
    <3>3. QED
      BY <2>2, <2>3, <2>7, <3>1, <3>2, DescendKeepsOrder
  <2>8. QED
    BY <2>1, <2>4, <2>6, <2>7 DEF Descended
<1>5. QED
  BY <1>3, <1>4

-----------------------------------------------------------------------------
(***************************************************************************)
(* msg_queue_insert_queued: heap_insert for each element of the list.      *)
(***************************************************************************)
WithStep(h, q, W, i) == IF i = 0 THEN h ELSE HeapInsertElem(W[i - 1], q[i])
IsWith(h, q, k, W) == W = [i \in 0 .. k |-> WithStep(h, q, W, i)]

\* It is defined.
LEMMA WithIsThere ==
  ASSUME NEW h, NEW q, NEW n \in Nat
  PROVE  \E W : IsWith(h, q, n, W)
<1> DEFINE P == {k \in Nat : \E W : IsWith(h, q, k, W)}
<1>1. 0 \in P
  <2> DEFINE W == [i \in 0 .. 0 |-> h]
  <2>1. W = [i \in 0 .. 0 |-> WithStep(h, q, W, i)]
    BY DEF WithStep
  <2>2. IsWith(h, q, 0, W)
    BY <2>1 DEF IsWith
  <2>3. QED
    BY <2>2
<1>2. ASSUME NEW k \in P PROVE k + 1 \in P
  <2>1. PICK V : IsWith(h, q, k, V)
    OBVIOUS
  <2> DEFINE W == [i \in 0 .. k + 1 |-> IF i = k + 1 THEN WithStep(h, q, V, i) ELSE V[i]]
  <2>2. \A i \in 0 .. k : W[i] = V[i] /\ V[i] = WithStep(h, q, V, i)
    <3>1. \A i \in 0 .. k : i \in 0 .. k + 1 /\ i # k + 1
      OBVIOUS
    <3>2. \A i \in 0 .. k : V[i] = WithStep(h, q, V, i)
      BY <2>1 DEF IsWith
    <3>3. QED
      BY <3>1, <3>2
  <2>3. W[k + 1] = WithStep(h, q, V, k + 1)
    OBVIOUS
  <2>4. W = [i \in DOMAIN W |-> W[i]] /\ DOMAIN W = 0 .. k + 1
    OBVIOUS
  <2> HIDE DEF W
  <2>5. \A i \in 0 .. k + 1 : WithStep(h, q, W, i) = WithStep(h, q, V, i)
    <3>1. \A i \in 0 .. k + 1 : i # 0 => i - 1 \in 0 .. k
      OBVIOUS
    <3>2. QED
      BY <2>2, <3>1 DEF WithStep
  <2>6. \A i \in 0 .. k + 1 : W[i] = WithStep(h, q, W, i)
    <3>1. \A i \in 0 .. k + 1 : i = k + 1 \/ i \in 0 .. k
      OBVIOUS
    <3>2. QED
      BY <2>2, <2>3, <2>5, <3>1
  <2>7. IsWith(h, q, k + 1, W)
    BY <2>4, <2>6 DEF IsWith
  <2>8. QED
    BY <2>7
<1>3. \A k \in Nat : k \in P
  <2>1. \A k \in Nat : k \in P => k + 1 \in P
    BY <1>2
  <2> HIDE DEF P
  <2>2. QED
    BY <1>1, <2>1, NaturalsFromZero
<1>4. QED
  BY <1>3

\* The first i elements are in the heap with what was there.
WithThem(h, m, q, W, i) ==
  /\ W[i] \in Arr(m + i) /\ Once(W[i], m + i)
  /\ Img(W[i], m + i) = Img(h, m) \cup Img(q, i)
  /\ \A R : IsOrder(R) /\ IsHeap(R, h, m) => IsHeap(R, W[i], m + i)

\* So it is for all of them: the next one is new to the heap.
LEMMA WithTells ==
  ASSUME NEW m \in Nat, NEW h \in Arr(m), Once(h, m), NEW n \in Nat, NEW q \in Arr(n), Once(q, n),
         Img(h, m) \cap Img(q, n) = {}, NEW W, IsWith(h, q, n, W)
  PROVE  WithThem(h, m, q, W, n)
<1> DEFINE P == {i \in Nat : i <= n => WithThem(h, m, q, W, i)}
<1>1. 0 \in P
  <2>1. W[0] = h
    BY DEF IsWith, WithStep
  <2>2. Img(q, 0) = {} /\ m + 0 = m
    BY DEF Img
  <2>3. WithThem(h, m, q, W, 0)
    BY <2>1, <2>2 DEF WithThem
  <2>4. QED
    BY <2>3
<1>2. ASSUME NEW i \in P, i + 1 <= n
      PROVE  WithThem(h, m, q, W, i + 1)
  <2> DEFINE k == m + i
             e == q[i + 1]
             V == W[i]
             Z == W[i + 1]
  <2>1. WithThem(h, m, q, W, i) /\ k \in Nat /\ m + (i + 1) = k + 1
    BY <1>2
  <2>2. Z = HeapInsertElem(V, e)
    BY <1>2 DEF IsWith, WithStep
  <2>3. e \in Messages /\ e \notin Img(h, m) /\ e \notin Img(q, i) /\ Img(q, i + 1) = Img(q, i) \cup {e}
    <3>1. i + 1 \in 1 .. n /\ \A j \in 1 .. i : j \in 1 .. n /\ j # i + 1
      BY <1>2
    <3>2. e \in Messages /\ e \in Img(q, n) /\ e \notin Img(q, i)
      BY <3>1 DEF Arr, Img, Once
    <3>3. \A j : j \in 1 .. i + 1 <=> j \in 1 .. i \/ j = i + 1
      BY <1>2
    <3>4. Img(q, i + 1) = Img(q, i) \cup {e}
      BY <3>3 DEF Img
    <3>5. QED
      BY <3>2, <3>4
  <2>4. V \in Arr(k) /\ Once(V, k) /\ Img(V, k) = Img(h, m) \cup Img(q, i)
    BY <2>1 DEF WithThem
  <2>5. \A R : IsOrder(R) /\ IsHeap(R, h, m) => IsHeap(R, V, k)
    BY <2>1 DEF WithThem
  <2> HIDE DEF V, Z, k, e
  <2>6. e \notin Img(V, k)
    BY <2>3, <2>4
  <2>7. /\ Z \in Arr(k + 1) /\ Once(Z, k + 1) /\ Img(Z, k + 1) = Img(V, k) \cup {e}
        /\ \A R : IsOrder(R) /\ IsHeap(R, V, k) => IsHeap(R, Z, k + 1)
    BY <2>1, <2>2, <2>3, <2>4, <2>6, InsertTells
  <2>8. Img(Z, k + 1) = Img(h, m) \cup Img(q, i + 1)
    BY <2>3, <2>4, <2>7
  <2>9. \A R : IsOrder(R) /\ IsHeap(R, h, m) => IsHeap(R, Z, k + 1)
    BY <2>5, <2>7
  <2>10. QED
    BY <2>1, <2>7, <2>8, <2>9 DEF WithThem, Z
<1>3. \A i \in Nat : i \in P
  <2>1. \A i \in Nat : i \in P => i + 1 \in P
    BY <1>2
  <2> HIDE DEF P
  <2>2. QED
    BY <1>1, <2>1, NaturalsFromZero
<1>4. n \in P /\ n <= n
  BY <1>3
<1>5. QED
  BY <1>4

\* What extract sees: all that waits, in the order of the heap.
LEMMA InsertedTells ==
  ASSUME mqp \in Seq(Messages), list \in Seq(Messages), Once(mqp, Len(mqp)), Once(list, Len(list)),
         Img(mqp, Len(mqp)) \cap Img(list, Len(list)) = {}
  PROVE  /\ Inserted \in Arr(Len(mqp) + Len(list))
         /\ Once(Inserted, Len(mqp) + Len(list))
         /\ Img(Inserted, Len(mqp) + Len(list)) = Img(mqp, Len(mqp)) \cup Img(list, Len(list))
         /\ \A R : IsOrder(R) /\ IsHeap(R, mqp, Len(mqp)) => IsHeap(R, Inserted, Len(mqp) + Len(list))
<1> DEFINE m == Len(mqp)
           n == Len(list)
           W == CHOOSE W : IsWith(mqp, list, n, W)
<1>1. Inserted = W[n]
  BY DEF Inserted, IsWith, WithStep
<1>2. m \in Nat /\ n \in Nat /\ mqp \in Arr(m) /\ list \in Arr(n)
  BY ArraysAreSequences
<1>3. Once(mqp, m) /\ Once(list, n) /\ Img(mqp, m) \cap Img(list, n) = {}
  OBVIOUS
<1>4. IsWith(mqp, list, n, W)
  BY <1>2, WithIsThere
<1> HIDE DEF W, m, n
<1>5. WithThem(mqp, m, list, W, n)
  BY <1>2, <1>3, <1>4, WithTells
<1>6. QED
  BY <1>1, <1>5 DEF WithThem, m, n

-----------------------------------------------------------------------------
(***************************************************************************)
(* The steps of the queue.                                                 *)
(***************************************************************************)
\* Every message that waits is once in the heap or in the list; the heap is in the order of
\* times, and in the whole order as long as no bit was set.
HInv ==
  /\ mqp \in Seq(Messages) /\ list \in Seq(Messages)
  /\ waiting \subseteq Messages /\ antis \subseteq waiting /\ steady \in BOOLEAN
  /\ Once(mqp, Len(mqp)) /\ Once(list, Len(list))
  /\ Img(mqp, Len(mqp)) \cap Img(list, Len(list)) = {}
  /\ Img(mqp, Len(mqp)) \cup Img(list, Len(list)) = waiting
  /\ IsHeap(ByTime, mqp, Len(mqp))
  /\ steady => antis = {} /\ IsHeap(ByAll, mqp, Len(mqp))

\* The list with one more message.
LEMMA PushTells ==
  ASSUME NEW q \in Seq(Messages), Once(q, Len(q)), NEW x \in Messages, x \notin Img(q, Len(q))
  PROVE  /\ <<x>> \o q \in Seq(Messages)
         /\ Once(<<x>> \o q, Len(<<x>> \o q))
         /\ Img(<<x>> \o q, Len(<<x>> \o q)) = Img(q, Len(q)) \cup {x}
<1> DEFINE p == <<x>> \o q
           n == Len(q)
<1>1. n \in Nat /\ p \in Seq(Messages) /\ Len(p) = n + 1 /\ p[1] = x
  OBVIOUS
<1>2. \A i \in 1 .. n : p[i + 1] = q[i] /\ i + 1 \in 1 .. n + 1
  OBVIOUS
<1>3. \A i \in 1 .. n + 1 : i = 1 \/ (i - 1 \in 1 .. n /\ p[i] = q[i - 1])
  OBVIOUS
<1>4. 1 \in 1 .. n + 1
  BY <1>1
<1>5. Once(q, n) /\ x \notin Img(q, n)
  OBVIOUS
<1> HIDE DEF p, n
<1>6. Once(p, n + 1)
  <2>1. ASSUME NEW i \in 1 .. n + 1, NEW j \in 1 .. n + 1, p[i] = p[j] PROVE i = j
    <3>1. CASE i = 1 \/ j = 1
      BY <1>1, <1>3, <1>5, <2>1, <3>1 DEF Img
    <3>2. CASE i # 1 /\ j # 1
      <4>1. i - 1 = j - 1
        BY <1>3, <1>5, <2>1, <3>2 DEF Once
      <4>2. QED
        BY <1>1, <4>1
    <3>3. QED
      BY <3>1, <3>2
  <2>2. QED
    BY <2>1 DEF Once
<1>7. Img(p, n + 1) = Img(q, n) \cup {x}
  <2>1. ASSUME NEW y \in Img(p, n + 1) PROVE y \in Img(q, n) \cup {x}
    BY <1>1, <1>3 DEF Img
  <2>2. ASSUME NEW y \in Img(q, n) PROVE y \in Img(p, n + 1)
    BY <1>2 DEF Img
  <2>3. x \in Img(p, n + 1)
    BY <1>1, <1>4 DEF Img
  <2>4. QED
    BY <2>1, <2>2, <2>3
<1>8. QED
  BY <1>1, <1>6, <1>7 DEF p, n

\* Empty at first.
LEMMA HInitHolds == QueueInit => HInv
<1>1. ASSUME QueueInit PROVE HInv
  <2>1. mqp = <<>> /\ list = <<>> /\ Len(<<>>) = 0 /\ <<>> \in Seq(Messages)
    BY <1>1 DEF QueueInit
  <2>2. \A h : Img(h, 0) = {} /\ Once(h, 0)
    BY DEF Img, Once
  <2>3. \A R, h : IsHeap(R, h, 0)
    BY DEF IsHeap
  <2>4. QED
    BY <1>1, <2>1, <2>2, <2>3 DEF QueueInit, HInv
<1>2. QED
  BY <1>1

\* An insertion touches the list only.
LEMMA HInsert ==
  ASSUME HInv, NEW m \in Messages, QueueInsert(m)
  PROVE  HInv'
<1>1. m \notin waiting /\ list' = <<m>> \o list /\ waiting' = waiting \cup {m}
      /\ mqp' = mqp /\ antis' = antis /\ steady' = steady
  BY DEF QueueInsert
<1>2. /\ list' \in Seq(Messages) /\ Once(list', Len(list'))
      /\ Img(list', Len(list')) = Img(list, Len(list)) \cup {m}
  BY <1>1, PushTells DEF HInv
<1>3. ByTime' = ByTime /\ ByAll' = ByAll
  BY <1>1 DEF ByTime, ByAll, QElemIsBefore
<1>4. QED
  BY <1>1, <1>2, <1>3 DEF HInv

\* A bit changes no time.
LEMMA HAnti ==
  ASSUME HInv, NEW m \in Messages, SetAnti(m)
  PROVE  HInv'
<1>1. m \in waiting /\ antis' = antis \cup {m} /\ steady' = FALSE
      /\ mqp' = mqp /\ list' = list /\ waiting' = waiting
  BY DEF SetAnti
<1>2. ByTime' = ByTime
  BY DEF ByTime
<1>3. QED
  BY <1>1, <1>2 DEF HInv

\* An extraction moves the list into the heap and takes the first away; when nothing is left
\* to wait for, no bit is set and any order holds.
LEMMA HExtract ==
  ASSUME HInv, QueueExtract
  PROVE  HInv'
<1> DEFINE n == Len(mqp) + Len(list)
<1>1. /\ Inserted \in Arr(n) /\ Once(Inserted, n) /\ Img(Inserted, n) = waiting
      /\ \A R : IsOrder(R) /\ IsHeap(R, mqp, Len(mqp)) => IsHeap(R, Inserted, n)
  BY InsertedTells DEF HInv
<1>2. /\ list' = <<>> /\ Len(<<>>) = 0 /\ <<>> \in Seq(Messages)
      /\ Once(<<>>, 0) /\ Img(<<>>, 0) = {}
  BY DEF QueueExtract, Once, Img
<1>3. n \in Nat /\ Len(Inserted) = n /\ Len(mqp) \in Nat
  BY <1>1, ArraysAreSequences DEF HInv
<1>4. waiting \subseteq Messages /\ antis \subseteq waiting /\ steady \in BOOLEAN
      /\ (steady => antis = {} /\ IsHeap(ByAll, mqp, Len(mqp))) /\ IsHeap(ByTime, mqp, Len(mqp))
  BY DEF HInv
<1>5. ByTime' = ByTime /\ (antis = {} /\ antis' = {} => ByAll' = ByAll)
  BY DEF ByTime, ByAll, QElemIsBefore
<1>6. \A R, h : IsHeap(R, h, 0)
  BY DEF IsHeap
<1> HIDE DEF n
<1>7. CASE Inserted = <<>>
  <2>1. n = 0
    BY <1>2, <1>3, <1>7
  <2>2. waiting = {}
    BY <1>1, <2>1 DEF Img
  <2>3. mqp' = mqp /\ antis' = {} /\ waiting' = {} /\ steady' = TRUE
    BY <1>4, <1>7, <2>2 DEF QueueExtract
  <2>4. Len(mqp) = 0 /\ mqp \in Seq(Messages) /\ Once(mqp, 0) /\ Img(mqp, 0) = {}
    <3>1. Len(mqp) = 0
      BY <2>1 DEF n, HInv
    <3>2. QED
      BY <3>1 DEF HInv, Img
  <2>5. QED
    BY <1>2, <1>6, <2>3, <2>4 DEF HInv
<1>8. CASE Inserted # <<>>
  <2> DEFINE k == n - 1
             A == HeapWithoutMin(Inserted)
             x == Inserted[1]
  <2>1. k \in Nat /\ k + 1 = n
    <3>1. n # 0
      <4>1. Inserted \in Seq(Messages)
        BY <1>1, <1>3, ArraysAreSequences
      <4>2. QED
        BY <1>3, <1>8, <4>1
    <3>2. QED
      BY <1>3, <3>1
  <2>2. /\ mqp' = A /\ waiting' = waiting \ {x} /\ antis' = antis \ {x}
        /\ steady' = (steady \/ waiting' = {})
    BY <1>8 DEF QueueExtract
  <2> HIDE DEF k
  <2>3. /\ A \in Arr(k) /\ Once(A, k) /\ Img(A, k) = waiting \ {x}
        /\ \A R : IsOrder(R) /\ IsHeap(R, Inserted, n) => IsHeap(R, A, k)
    BY <1>1, <2>1, ExtractTells
  <2> HIDE DEF A, x
  <2>4. A \in Seq(Messages) /\ Len(A) = k
    BY <2>1, <2>3, ArraysAreSequences
  <2>5. \A R : IsOrder(R) /\ IsHeap(R, mqp, Len(mqp)) => IsHeap(R, A, k)
    BY <1>1, <2>3
  <2>6. IsHeap(ByTime, A, k)
    BY <1>4, <2>5, OrderOfTimes
  <2>7. ASSUME steady' PROVE antis' = {} /\ IsHeap(ByAll', A, k)
    <3>1. CASE steady
      <4>1. antis = {} /\ antis' = {}
        BY <1>4, <2>2, <3>1
      <4>2. IsHeap(ByAll, A, k)
        BY <1>4, <2>5, <3>1, <4>1, OrderOfAll
      <4>3. QED
        BY <1>5, <4>1, <4>2
    <3>2. CASE waiting' = {}
      <4>1. antis' = {} /\ Img(A, k) = {}
        BY <1>4, <2>2, <2>3, <3>2
      <4>2. k = 0
        <5>1. 1 \notin 1 .. k
          BY <4>1 DEF Img
        <5>2. QED
          BY <2>1, <5>1
      <4>3. QED
        BY <1>6, <4>1, <4>2
    <3>3. QED
      BY <2>2, <2>7, <3>1, <3>2
  <2>8. steady' \in BOOLEAN /\ waiting' \subseteq Messages /\ antis' \subseteq waiting'
    BY <1>4, <2>2
  <2>9. mqp' \in Seq(Messages) /\ Len(mqp') = k /\ Once(mqp', k) /\ Img(mqp', k) = waiting'
    BY <2>2, <2>3, <2>4
  <2>10. QED
    BY <1>2, <1>5, <2>2, <2>6, <2>7, <2>8, <2>9 DEF HInv
<1>9. QED
  BY <1>7, <1>8

\* The list moved into the heap.
LEMMA HMove ==
  ASSUME HInv, RetractableFirst
  PROVE  HInv'
<1> DEFINE n == Len(mqp) + Len(list)
<1>1. /\ Inserted \in Arr(n) /\ Once(Inserted, n) /\ Img(Inserted, n) = waiting
      /\ \A R : IsOrder(R) /\ IsHeap(R, mqp, Len(mqp)) => IsHeap(R, Inserted, n)
  BY InsertedTells DEF HInv
<1>2. /\ <<>> \in Seq(Messages) /\ Len(<<>>) = 0 /\ Once(<<>>, 0) /\ Img(<<>>, 0) = {}
  BY DEF Once, Img
<1>3. n \in Nat /\ Len(Inserted) = n /\ Inserted \in Seq(Messages)
  BY <1>1, ArraysAreSequences DEF HInv
<1>4. /\ waiting \subseteq Messages /\ antis \subseteq waiting /\ steady \in BOOLEAN
      /\ (steady => antis = {} /\ IsHeap(ByAll, mqp, Len(mqp))) /\ IsHeap(ByTime, mqp, Len(mqp))
  BY DEF HInv
<1>5. /\ mqp' = Inserted /\ list' = <<>>
      /\ antis' = antis /\ waiting' = waiting /\ steady' = steady
  BY DEF RetractableFirst
<1>6. ByTime' = ByTime /\ ByAll' = ByAll
  BY <1>5 DEF ByTime, ByAll, QElemIsBefore
<1> HIDE DEF n
<1>7. IsHeap(ByTime, Inserted, n)
  BY <1>1, <1>4, OrderOfTimes
<1>8. steady => antis = {} /\ IsHeap(ByAll, Inserted, n)
  BY <1>1, <1>4, OrderOfAll
<1>9. QED
  BY <1>1, <1>2, <1>3, <1>4, <1>5, <1>6, <1>7, <1>8 DEF HInv

\* The steps together.
LEMMA HNext ==
  ASSUME HInv, [QueueNext]_queueVars
  PROVE  HInv'
<1>1. CASE QueueExtract
  BY <1>1, HExtract
<1>2. ASSUME NEW m \in Messages, QueueInsert(m) PROVE HInv'
  BY <1>2, HInsert
<1>3. ASSUME NEW m \in Messages, SetAnti(m) PROVE HInv'
  BY <1>3, HAnti
<1>4. CASE UNCHANGED queueVars
  BY <1>4 DEF queueVars, HInv, ByTime, ByAll, QElemIsBefore
<1>5. CASE RetractableFirst
  BY <1>5, HMove
<1>6. QED
  BY <1>1, <1>2, <1>3, <1>4, <1>5 DEF QueueNext

\* In the heap with the list in it, the first may be above all, in both orders.
LEMMA HInvSuffices == HInv => HeapIsRight
<1> SUFFICES ASSUME HInv PROVE HeapIsRight
  OBVIOUS
<1> DEFINE m == Len(mqp)
           k == Len(list)
           n == m + k
<1>1. /\ m \in Nat /\ k \in Nat /\ mqp \in Arr(m) /\ list \in Arr(k)
      /\ mqp \in Seq(Messages) /\ list \in Seq(Messages)
  BY ArraysAreSequences DEF HInv
<1>2. /\ Once(mqp, m) /\ Once(list, k) /\ Img(mqp, m) \cap Img(list, k) = {}
      /\ Img(mqp, m) \cup Img(list, k) = waiting /\ waiting \subseteq Messages
      /\ IsHeap(ByTime, mqp, m) /\ (steady => antis = {} /\ IsHeap(ByAll, mqp, m))
  BY DEF HInv
<1>3. /\ Inserted \in Arr(n) /\ Img(Inserted, n) = waiting
      /\ \A R : IsOrder(R) /\ IsHeap(R, mqp, m) => IsHeap(R, Inserted, n)
  BY InsertedTells DEF HInv
<1>4. \A i \in 2 .. m : DestT(mqp[i \div 2]) <= DestT(mqp[i])
  BY <1>2 DEF IsHeap, ByTime
<1>5. ToSet(mqp) \cup ToSet(list) = waiting
  <2>1. DOMAIN mqp = 1 .. m /\ DOMAIN list = 1 .. k
    BY <1>1
  <2>2. QED
    BY <1>2, <2>1 DEF ToSet, Img
<1>6. IsInjective(mqp \o list)
  <2> DEFINE s == mqp \o list
  <2>1. DOMAIN s = 1 .. n
    BY <1>1
  <2>2. \A i \in 1 .. n : \/ i \in 1 .. m /\ s[i] = mqp[i]
                          \/ i - m \in 1 .. k /\ s[i] = list[i - m]
    BY <1>1
  <2>3. n \in Nat /\ \A i \in 1 .. n : i \in Int
    BY <1>1
  <2> HIDE DEF s, n, m, k
  <2>4. ASSUME NEW i \in 1 .. n, NEW j \in 1 .. n, s[i] = s[j] PROVE i = j
    <3>1. CASE i \in 1 .. m /\ s[i] = mqp[i] /\ j \in 1 .. m /\ s[j] = mqp[j]
      BY <1>2, <2>4, <3>1 DEF Once
    <3>2. CASE i - m \in 1 .. k /\ s[i] = list[i - m] /\ j - m \in 1 .. k /\ s[j] = list[j - m]
      <4>1. i - m = j - m
        BY <1>2, <2>4, <3>2 DEF Once
      <4>2. QED
        BY <1>1, <2>3, <4>1
    <3>3. CASE i \in 1 .. m /\ s[i] = mqp[i] /\ j - m \in 1 .. k /\ s[j] = list[j - m]
      BY <1>2, <2>4, <3>3 DEF Img
    <3>4. CASE i - m \in 1 .. k /\ s[i] = list[i - m] /\ j \in 1 .. m /\ s[j] = mqp[j]
      BY <1>2, <2>4, <3>4 DEF Img
    <3>5. QED
      BY <2>2, <3>1, <3>2, <3>3, <3>4
  <2>5. QED
    BY <2>1, <2>4 DEF IsInjective, s
<1>7. ASSUME waiting # {}
      PROVE  /\ \A x \in waiting : DestT(Inserted[1]) <= DestT(x)
             /\ steady => \A x \in waiting : ~ QElemIsBefore(x, Inserted[1])
  <2>1. n \in Nat /\ \A i \in 1 .. n : Inserted[i] \in Messages
    BY <1>1, <1>3 DEF Arr
  <2> HIDE DEF m, k, n
  <2>2. \A R : IsOrder(R) /\ IsHeap(R, mqp, m) => \A x \in waiting : <<Inserted[1], x>> \in R
    BY <1>3, <2>1, FirstIsLeast DEF Img
  <2>3. \A x \in waiting : <<Inserted[1], x>> \in ByTime
    BY <1>2, <2>2, OrderOfTimes
  <2>4. steady => \A x \in waiting : <<Inserted[1], x>> \in ByAll
    BY <1>2, <2>2, OrderOfAll
  <2>5. QED
    BY <2>3, <2>4 DEF ByTime, ByAll
<1>8. QED
  BY <1>4, <1>5, <1>6, <1>7 DEF HeapIsRight

\* Whatever the number of addresses: no message is lost or doubled between the list and the heap,
\* what comes out is one of the earliest, and the right one as long as no bit was set.
THEOREM QueueIsRight == QueueSpec => []HeapIsRight
<1>1. QueueSpec => []HInv
  BY HInitHolds, HNext, PTL DEF QueueSpec
<1>2. QED
  BY <1>1, HInvSuffices, PTL

-----------------------------------------------------------------------------
(***************************************************************************)
(* The heap of retractable events.                                         *)
(***************************************************************************)
\* The parent of i is before it.
LEMMA Parents == \A i \in Nat : i > 1 => ParentI(i) \in 1 .. i - 1
<1>1. ASSUME NEW i \in Nat, i > 1 PROVE ParentI(i) \in 1 .. i - 1
  <2> DEFINE d == (i - 2) \div HEAP_K
  <2>1. HEAP_K \in Nat \ {0} /\ i - 2 \in Nat
    BY <1>1, BooksAssumption
  <2>2. d \in Nat /\ d * HEAP_K <= i - 2
    BY <2>1, DivTells
  <2>3. 1 * d <= HEAP_K * d
    BY <2>1, <2>2, TimesGrows
  <2>4. HEAP_K * d = d * HEAP_K /\ 1 * d = d /\ d * HEAP_K \in Nat
    BY <2>1, <2>2
  <2>5. d <= i - 2
    BY <2>2, <2>3, <2>4
  <2>6. QED
    BY <1>1, <2>2, <2>5 DEF ParentI
<1>2. QED
  BY <1>1

\* Heaps with n entries.
Entries == [t : Nat, lp : LPs]
Heaps(n) == [q : [1 .. n -> Entries], pos : [LPs -> Nat]]

\* The LPs of the entries at D know where these are; the entries at D; an entry is not
\* before its parent.
Placed(h, D) == \A i \in D : h.pos[h.q[i].lp] = i
Held(h, D) == {h.q[i] : i \in D}
InOrder(h, n) == \A i \in 2 .. n : h.q[ParentI(i)].t <= h.q[i].t

\* The entries at D, but for the one at j, are not of the LP of x.
Others(U, D, j, x) == \A i \in D : i # j => U.q[i].lp # x.lp

\* upd_f after a write: x is at j, and the rest is as it was.
Written(n, U, D, j, x) ==
  /\ PutAt(U, j, x) \in Heaps(n)
  /\ PutAt(U, j, x).q[j] = x
  /\ \A i \in 1 .. n : i # j => PutAt(U, j, x).q[i] = U.q[i]
  /\ Placed(PutAt(U, j, x), D \cup {j})
  /\ Held(PutAt(U, j, x), D \cup {j}) = Held(U, D \ {j}) \cup {x}

(* An entry written at a place: what its LP then records, and who else is in the heap *)
LEMMA PutTells ==
  ASSUME NEW n \in Nat, NEW U \in Heaps(n), NEW D, D \subseteq 1 .. n, Placed(U, D),
         NEW j \in 1 .. n, NEW x \in Entries, Others(U, D, j, x)
  PROVE  Written(n, U, D, j, x)
<1> DEFINE A == PutAt(U, j, x)
           q == U.q
           pos == U.pos
<1>1. q \in [1 .. n -> Entries] /\ pos \in [LPs -> Nat] /\ x.lp \in LPs /\ j \in Nat
  BY DEF Heaps, Entries
<1>2. A.q = [q EXCEPT ![j] = x] /\ A.pos = [pos EXCEPT ![x.lp] = j]
  BY DEF PutAt
<1>3. A = [q |-> A.q, pos |-> A.pos]
  BY DEF PutAt
<1>4. A.q \in [1 .. n -> Entries] /\ A.pos \in [LPs -> Nat]
  BY <1>1, <1>2
<1>5. A.q[j] = x /\ (\A i \in 1 .. n : i # j => A.q[i] = q[i])
  BY <1>1, <1>2
<1>6. A.pos[x.lp] = j /\ (\A y \in LPs : y # x.lp => A.pos[y] = pos[y])
  BY <1>1, <1>2
<1>7. A \in Heaps(n)
  BY <1>3, <1>4 DEF Heaps
<1>8. \A i \in D : q[i] \in Entries /\ q[i].lp \in LPs /\ i \in 1 .. n
  BY <1>1 DEF Entries
<1> HIDE DEF A
<1>9. Placed(A, D \cup {j})
  BY <1>5, <1>6, <1>8 DEF Placed, Others
<1>10. Held(A, D \cup {j}) = Held(U, D \ {j}) \cup {x}
  <2>1. \A i \in D \ {j} : A.q[i] = U.q[i]
    BY <1>5, <1>8
  <2>2. QED
    BY <1>5, <2>1 DEF Held
<1>11. QED
  BY <1>5, <1>7, <1>9, <1>10 DEF A, Written

\* The entry at p, of the same LP as elem, is replaced.  So far elem is at j, and what was at
\* j somewhere else, except that the entry at p is not touched before the last step.
Moved(h, n, p, elem, j, A) ==
  /\ A \in Heaps(n)
  /\ Placed(A, ((1 .. n) \ {p}) \cup {j})
  /\ Held(A, ((1 .. n) \ {p}) \cup {j}) = (Held(h, (1 .. n) \ {p}) \ {h.q[j]}) \cup {elem}

\* At first elem is written at j;
LEMMA MoveStarts ==
  ASSUME NEW n \in Nat, NEW h \in Heaps(n), Placed(h, 1 .. n), NEW p \in 1 .. n, NEW elem \in Entries,
         elem.lp = h.q[p].lp, NEW j \in 1 .. n
  PROVE  Moved(h, n, p, elem, j, PutAt(h, j, elem))
<1> DEFINE D == (1 .. n) \ {p}
<1>1. D \subseteq 1 .. n /\ Placed(h, D)
  BY DEF Placed
<1>2. \A i \in 1 .. n : i # p => h.q[i].lp # elem.lp
  BY DEF Placed
<1>3. \A i \in 1 .. n, k \in 1 .. n : i # k => h.q[i] # h.q[k]
  BY DEF Placed
<1>4. Held(h, D \ {j}) = Held(h, D) \ {h.q[j]}
  BY <1>3 DEF Held
<1>5. Others(h, D, j, elem)
  BY <1>2 DEF Others
<1> HIDE DEF D
<1>6. Written(n, h, D, j, elem)
  BY <1>1, <1>5, PutTells
<1>7. QED
  BY <1>4, <1>6 DEF Moved, Written, D

\* then what is at k in h comes to j, for elem at k.
LEMMA MoveGoesOn ==
  ASSUME NEW n \in Nat, NEW h \in Heaps(n), Placed(h, 1 .. n), NEW p \in 1 .. n, NEW elem \in Entries,
         elem.lp = h.q[p].lp, NEW j \in 1 .. n, NEW k \in 1 .. n, k # j, k # p, NEW U,
         Moved(h, n, p, elem, k, U), U.q[j] = h.q[j]
  PROVE  Moved(h, n, p, elem, j, PutAt(U, j, h.q[k]))
<1> DEFINE D == (1 .. n) \ {p}
           G == Held(h, D)
           x == h.q[k]
<1>1. D \subseteq 1 .. n /\ D \cup {k} = D /\ k \in D
  OBVIOUS
<1>2. U \in Heaps(n) /\ Placed(U, D) /\ Held(U, D) = (G \ {x}) \cup {elem}
  BY <1>1 DEF Moved
<1>3. x \in Entries /\ x \in G
  BY <1>1 DEF Held, Heaps
<1>4. \A y \in G : y # x => y.lp # x.lp
  BY DEF Held, Placed
<1>5. \A y \in G : y.lp # elem.lp
  BY DEF Held, Placed
<1>6. \A i \in D : i # j => U.q[i] # U.q[j] \/ j \notin D
  BY <1>2 DEF Placed
<1>7. h.q[j] \in G \/ j = p
  BY DEF Held
<1>8. h.q[p] \notin G /\ h.q[j] # x
  BY <1>5 DEF Placed
<1> HIDE DEF D, G, x
<1>9. Others(U, D, j, x)
  <2>1. ASSUME NEW i \in D, i # j PROVE U.q[i].lp # x.lp
    <3>1. U.q[i] \in (G \ {x}) \cup {elem}
      BY <1>2 DEF Held
    <3>2. QED
      BY <1>3, <1>4, <1>5, <3>1
  <2>2. QED
    BY <2>1 DEF Others
<1>10. Written(n, U, D, j, x)
  BY <1>1, <1>2, <1>3, <1>9, PutTells
<1>11. Held(U, D \ {j}) \cup {x} = (G \ {h.q[j]}) \cup {elem}
  <2>1. CASE j \in D
    <3>1. Held(U, D \ {j}) = Held(U, D) \ {U.q[j]}
      BY <1>6, <2>1 DEF Held
    <3>2. h.q[j] \in G /\ h.q[j] # elem
      BY <1>5, <1>7, <2>1 DEF D
    <3>3. QED
      BY <1>2, <1>3, <1>8, <3>1, <3>2
  <2>2. CASE j \notin D
    <3>1. j = p /\ D \ {j} = D
      BY <2>2 DEF D
    <3>2. QED
      BY <1>2, <1>3, <1>8, <3>1
  <2>3. QED
    BY <2>1, <2>2
<1>12. QED
  BY <1>10, <1>11 DEF Moved, Written, D, G, x

\* An entry is written at j and the others stay.
LEMMA PutQ ==
  ASSUME NEW n \in Nat, NEW U \in Heaps(n), NEW j \in 1 .. n, NEW x \in Entries
  PROVE  PutAt(U, j, x).q = [U.q EXCEPT ![j] = x]
BY DEF PutAt

UpStep(h, e, U, j) ==
  IF j > 1 /\ e.t < h.q[ParentI(j)].t
  THEN PutAt(U[ParentI(j)], j, h.q[ParentI(j)]) ELSE PutAt(h, j, e)
IsUp(h, e, n, U) == U = [j \in 1 .. n |-> UpStep(h, e, U, j)]

\* The heaps of MovedUp are defined.
LEMMA UpIsThere ==
  ASSUME NEW h, NEW e, NEW n \in Nat
  PROVE  \E U : IsUp(h, e, n, U)
<1> DEFINE P == {k \in Nat : \E U : IsUp(h, e, k, U)}
<1>1. 0 \in P
  <2> DEFINE U == [i \in 1 .. 0 |-> e]
  <2>1. U = [i \in 1 .. 0 |-> UpStep(h, e, U, i)]
    OBVIOUS
  <2>2. IsUp(h, e, 0, U)
    BY <2>1 DEF IsUp
  <2>3. QED
    BY <2>2
<1>2. ASSUME NEW k \in P PROVE k + 1 \in P
  <2>1. PICK C : IsUp(h, e, k, C)
    OBVIOUS
  <2> DEFINE U == [i \in 1 .. k + 1 |-> IF i = k + 1 THEN UpStep(h, e, C, i) ELSE C[i]]
  <2>2. \A i \in 1 .. k : U[i] = C[i] /\ C[i] = UpStep(h, e, C, i)
    <3>1. \A i \in 1 .. k : i \in 1 .. k + 1 /\ i # k + 1
      OBVIOUS
    <3>2. \A i \in 1 .. k : C[i] = UpStep(h, e, C, i)
      BY <2>1 DEF IsUp
    <3>3. QED
      BY <3>1, <3>2
  <2>3. U[k + 1] = UpStep(h, e, C, k + 1)
    OBVIOUS
  <2>4. U = [i \in DOMAIN U |-> U[i]] /\ DOMAIN U = 1 .. k + 1
    OBVIOUS
  <2> HIDE DEF U
  <2>5. \A i \in 1 .. k + 1 : UpStep(h, e, U, i) = UpStep(h, e, C, i)
    <3>1. \A i \in 1 .. k + 1 : i > 1 => ParentI(i) \in 1 .. k
      <4>1. \A i \in 1 .. k + 1 : i \in Nat /\ i - 1 <= k
        OBVIOUS
      <4>2. \A i \in 1 .. k + 1 : i > 1 => ParentI(i) \in 1 .. i - 1
        BY <4>1, Parents
      <4>3. QED
        BY <4>1, <4>2
    <3>2. QED
      BY <2>2, <3>1 DEF UpStep
  <2>6. \A i \in 1 .. k + 1 : U[i] = UpStep(h, e, U, i)
    <3>1. \A i \in 1 .. k + 1 : i = k + 1 \/ i \in 1 .. k
      OBVIOUS
    <3>2. QED
      BY <2>2, <2>3, <2>5, <3>1
  <2>7. IsUp(h, e, k + 1, U)
    BY <2>4, <2>6 DEF IsUp
  <2>8. QED
    BY <2>7
<1>3. \A k \in Nat : k \in P
  <2>1. \A k \in Nat : k \in P => k + 1 \in P
    BY <1>2
  <2> HIDE DEF P
  <2>2. QED
    BY <1>1, <2>1, NaturalsFromZero
<1>4. QED
  BY <1>3

\* When elem has come up to j, nothing after j has changed, its old place p has not been
\* written unless j is p, and only at the children of j the order may be wrong.
Up(h, e, n, p, U, j) ==
  /\ Moved(h, n, p, e, j, U[j])
  /\ \A i \in 1 .. n : i > j => U[j].q[i] = h.q[i]
  /\ U[j].q[j] = e \/ (j > 1 /\ e.t < h.q[ParentI(j)].t /\ U[j].q[j] = h.q[ParentI(j)])
  /\ \A i \in 2 .. n : ParentI(i) # j => U[j].q[ParentI(i)].t <= U[j].q[i].t

\* elem, of the LP whose entry is at p, may be written into h.
MayMove(h, n, p, e) ==
  /\ n \in Nat /\ h \in Heaps(n) /\ Placed(h, 1 .. n) /\ InOrder(h, n)
  /\ p \in 1 .. n /\ e \in Entries /\ e.lp = h.q[p].lp

(* Going up, by induction from the place of the change towards the root *)
LEMMA UpTells ==
  ASSUME NEW n, NEW h, NEW p, NEW e, MayMove(h, n, p, e), NEW U, IsUp(h, e, n, U)
  PROVE  \A j \in 1 .. p : Up(h, e, n, p, U, j)
<1>1. /\ n \in Nat /\ h \in Heaps(n) /\ Placed(h, 1 .. n) /\ InOrder(h, n)
      /\ p \in 1 .. n /\ e \in Entries /\ e.lp = h.q[p].lp /\ e.t \in Nat
  BY DEF MayMove, Entries
<1>2. \A i \in 1 .. n : h.q[i] \in Entries /\ h.q[i].t \in Nat
  BY <1>1 DEF Heaps, Entries
<1>3. \A j \in 1 .. n : U[j] = UpStep(h, e, U, j)
  BY DEF IsUp
<1>4. \A i \in 2 .. n : i \in Nat /\ i > 1 /\ ParentI(i) \in 1 .. i - 1 /\ ParentI(i) \in 1 .. n
  <2>1. \A i \in 2 .. n : i \in Nat /\ i > 1 /\ i - 1 <= n
    BY <1>1
  <2>2. \A i \in 2 .. n : ParentI(i) \in 1 .. i - 1
    BY <2>1, Parents
  <2>3. QED
    BY <1>1, <2>1, <2>2
<1> DEFINE P == {j \in 1 .. p : Up(h, e, n, p, U, j)}
<1>5. ASSUME NEW j \in 1 .. p, \A i \in 1 .. j - 1 : i \in P
      PROVE  j \in P
  <2>1. j \in 1 .. n /\ j \in Nat /\ j <= p
    BY <1>1
  <2>2. CASE j > 1 /\ e.t < h.q[ParentI(j)].t
    <3> DEFINE k == ParentI(j)
               x == h.q[k]
               W == U[k]
    <3>1. j \in 2 .. n
      BY <2>1, <2>2
    <3>2. k \in 1 .. j - 1 /\ k \in 1 .. n /\ k \in 1 .. p /\ k # j /\ k # p /\ k < j
      <4>1. k \in 1 .. j - 1
        BY <1>4, <3>1
      <4> HIDE DEF k
      <4>2. QED
        BY <1>1, <2>1, <4>1
    <3>3. U[j] = PutAt(W, j, x)
      BY <1>3, <2>1, <2>2 DEF UpStep
    <3>4. Up(h, e, n, p, U, k)
      BY <1>5, <3>2
    <3>5. /\ Moved(h, n, p, e, k, W) /\ \A i \in 1 .. n : i > k => W.q[i] = h.q[i]
          /\ W.q[k] = e \/ (k > 1 /\ e.t < h.q[ParentI(k)].t /\ W.q[k] = h.q[ParentI(k)])
          /\ \A i \in 2 .. n : ParentI(i) # k => W.q[ParentI(i)].t <= W.q[i].t
      BY <3>4 DEF Up
    <3>6. x \in Entries /\ x.t \in Nat /\ e.t < x.t
      BY <1>2, <2>2, <3>2
    <3> HIDE DEF k, x, W
    <3>7. Moved(h, n, p, e, j, PutAt(W, j, x))
      <4>1. W.q[j] = h.q[j]
        BY <2>1, <3>2, <3>5
      <4>2. QED
        BY <1>1, <2>1, <3>2, <3>5, <4>1, MoveGoesOn DEF x
    <3>8. W \in Heaps(n) /\ U[j].q = [W.q EXCEPT ![j] = x]
      BY <1>1, <2>1, <3>3, <3>5, <3>6, PutQ DEF Moved
    <3>9. W.q \in [1 .. n -> Entries] /\ \A i \in 1 .. n : W.q[i].t \in Nat
      BY <3>8 DEF Heaps, Entries
    <3>10. U[j].q[j] = x /\ \A i \in 1 .. n : i # j => U[j].q[i] = W.q[i]
      BY <2>1, <3>8, <3>9
    <3>11. W.q[k].t <= x.t
      <4>1. CASE W.q[k] = e
        BY <1>1, <3>6, <4>1
      <4>2. CASE k > 1 /\ W.q[k] = h.q[ParentI(k)]
        <5>1. k \in 2 .. n
          BY <1>1, <3>2, <4>2
        <5>2. QED
          BY <1>1, <4>2, <5>1 DEF InOrder, x
      <4>3. QED
        BY <3>5, <4>1, <4>2
    <3>12. \A i \in 1 .. n : i > j => U[j].q[i] = h.q[i]
      BY <2>1, <3>2, <3>5, <3>10
    <3>13. ASSUME NEW i \in 2 .. n, ParentI(i) # j
           PROVE  U[j].q[ParentI(i)].t <= U[j].q[i].t
      <4>1. i \in 1 .. n /\ ParentI(i) \in 1 .. n /\ U[j].q[ParentI(i)] = W.q[ParentI(i)]
        <5>1. i \in 1 .. n /\ ParentI(i) \in 1 .. n
          BY <1>1, <1>4
        <5>2. QED
          BY <3>10, <3>13, <5>1
      <4>2. CASE i = j
        BY <3>10, <3>11, <4>1, <4>2 DEF k
      <4>3. CASE i # j /\ ParentI(i) = k
        <5>1. i > k
          BY <1>4, <3>2, <4>3
        <5>2. U[j].q[i] = h.q[i]
          BY <3>5, <3>10, <4>1, <4>3, <5>1
        <5>3. x.t <= h.q[i].t
          BY <1>1, <4>3 DEF InOrder, x
        <5>4. W.q[k].t \in Nat /\ x.t \in Nat /\ h.q[i].t \in Nat
          BY <1>2, <3>2, <3>6, <3>9, <4>1
        <5>5. QED
          BY <3>11, <4>1, <4>3, <5>2, <5>3, <5>4
      <4>4. CASE i # j /\ ParentI(i) # k
        BY <3>5, <3>10, <4>1, <4>4
      <4>5. QED
        BY <4>2, <4>3, <4>4
    <3>14. QED
      BY <2>2, <3>3, <3>7, <3>10, <3>12, <3>13 DEF Up, k, x
  <2>3. CASE ~ (j > 1 /\ e.t < h.q[ParentI(j)].t)
    <3>1. U[j] = PutAt(h, j, e)
      BY <1>3, <2>1, <2>3 DEF UpStep
    <3>2. Moved(h, n, p, e, j, U[j])
      BY <1>1, <2>1, <3>1, MoveStarts
    <3>3. U[j].q = [h.q EXCEPT ![j] = e]
      BY <1>1, <2>1, <3>1, PutQ
    <3>4. h.q \in [1 .. n -> Entries]
      BY <1>1 DEF Heaps
    <3>5. U[j].q[j] = e /\ \A i \in 1 .. n : i # j => U[j].q[i] = h.q[i]
      BY <2>1, <3>3, <3>4
    <3>6. \A i \in 1 .. n : i > j => U[j].q[i] = h.q[i]
      BY <2>1, <3>5
    <3>7. ASSUME NEW i \in 2 .. n, ParentI(i) # j
          PROVE  U[j].q[ParentI(i)].t <= U[j].q[i].t
      <4>1. i \in 1 .. n /\ ParentI(i) \in 1 .. n /\ U[j].q[ParentI(i)] = h.q[ParentI(i)]
        <5>1. i \in 1 .. n /\ ParentI(i) \in 1 .. n
          BY <1>1, <1>4
        <5>2. QED
          BY <3>5, <3>7, <5>1
      <4>2. CASE i = j
        <5>1. ~ (e.t < h.q[ParentI(j)].t) /\ h.q[ParentI(j)].t \in Nat
          BY <1>2, <1>4, <2>3, <4>1, <4>2
        <5>2. QED
          BY <1>1, <3>5, <4>1, <4>2, <5>1
      <4>3. CASE i # j
        BY <1>1, <3>5, <4>1, <4>3 DEF InOrder
      <4>4. QED
        BY <4>2, <4>3
    <3>8. QED
      BY <3>2, <3>5, <3>6, <3>7 DEF Up
  <2>4. QED
    BY <2>2, <2>3
<1>6. \A j \in 1 .. p : j \in P
  <2>1. p \in Nat
    BY <1>1
  <2> HIDE DEF P
  <2>2. QED
    BY <1>5, <2>1, AllFromBefore
<1>7. QED
  BY <1>6

\* The child that LeastChild names is one, and none is earlier.
LEMMA LeastChildTells ==
  ASSUME NEW n \in Nat, NEW h \in Heaps(n), NEW j \in 1 .. n, ChildrenOf(h.q, j) # {}
  PROVE  /\ LeastChild(h.q, j) \in 2 .. n /\ ParentI(LeastChild(h.q, j)) = j
         /\ \A d \in ChildrenOf(h.q, j) : h.q[LeastChild(h.q, j)].t <= h.q[d].t
<1> DEFINE Ch == ChildrenOf(h.q, j)
           T == {h.q[c].t : c \in Ch}
           L == {c \in Ch : \A d \in Ch : h.q[c].t <= h.q[d].t}
<1>1. h.q \in [1 .. n -> Entries]
  BY DEF Heaps
<1>2. \A c \in Ch : c \in 1 .. n /\ c > 1 /\ ParentI(c) = j
  BY <1>1 DEF ChildrenOf
<1>3. \A c \in Ch : c \in Nat /\ h.q[c].t \in Nat /\ c \in 2 .. n
  BY <1>1, <1>2 DEF Entries
<1>4. LeastChild(h.q, j) = Min(L)
  BY DEF LeastChild
<1> HIDE DEF Ch
<1>5. T \in SUBSET Nat /\ T # {}
  BY <1>3 DEF Ch
<1>6. PICK m \in T : \A y \in T : m <= y
  <2> HIDE DEF T
  <2> QED
    BY <1>5, LeastIsThere
<1>7. PICK c \in Ch : m = h.q[c].t
  BY <1>6
<1>8. L \in SUBSET Nat /\ L # {}
  BY <1>3, <1>6, <1>7
<1>9. Min(L) \in L
  <2> HIDE DEF L
  <2> QED
    BY <1>8, MinIsLeast
<1>10. QED
  BY <1>2, <1>3, <1>4, <1>9 DEF Ch

DownStep(h, e, D, j) ==
  IF \E c \in ChildrenOf(h.q, j) : h.q[c].t < e.t
  THEN PutAt(D[LeastChild(h.q, j)], j, h.q[LeastChild(h.q, j)])
  ELSE PutAt(h, j, e)
IsDown(h, e, n, a, D) == D = [j \in a .. n |-> DownStep(h, e, D, j)]

\* A child is after its parent.
LEMMA ChildAfter ==
  ASSUME NEW n \in Nat, NEW h \in Heaps(n), NEW j \in 1 .. n,
         ChildrenOf(h.q, j) # {}
  PROVE  LeastChild(h.q, j) \in j + 1 .. n
<1>2. LeastChild(h.q, j) \in 2 .. n /\ ParentI(LeastChild(h.q, j)) = j
  BY LeastChildTells
<1> DEFINE c == LeastChild(h.q, j)
<1> HIDE DEF c
<1>3. c \in Nat /\ c > 1 /\ c <= n /\ ParentI(c) = j
  BY <1>2 DEF c
<1>4. ParentI(c) \in 1 .. c - 1
  BY <1>3, Parents
<1>5. QED
  BY <1>3, <1>4 DEF c

\* The heaps of MovedDown are defined.
LEMMA DownIsThere ==
  ASSUME NEW n \in Nat, NEW h \in Heaps(n), NEW e
  PROVE  \E D : IsDown(h, e, n, 1, D)
<1> DEFINE P == {k \in Nat : k <= n => \E D : IsDown(h, e, n, n + 1 - k, D)}
<1>1. 0 \in P
  <2> DEFINE D == [i \in n + 1 .. n |-> e]
  <2>1. D = [i \in n + 1 .. n |-> DownStep(h, e, D, i)]
    OBVIOUS
  <2>2. n + 1 - 0 = n + 1
    OBVIOUS
  <2>3. IsDown(h, e, n, n + 1 - 0, D)
    BY <2>1, <2>2 DEF IsDown
  <2>4. QED
    BY <2>3
<1>2. ASSUME NEW k \in P PROVE k + 1 \in P
  <2> DEFINE x == n - k
  <2>1. k \in Nat /\ k + 1 \in Nat /\ n + 1 - (k + 1) = x /\ n + 1 - k = x + 1
    OBVIOUS
  <2>2. ASSUME k + 1 <= n
        PROVE  \E D : IsDown(h, e, n, x, D)
    <3>1. x \in 1 .. n /\ k <= n
      BY <2>2
    <3>2. PICK C : IsDown(h, e, n, x + 1, C)
      BY <2>1, <3>1
    <3> DEFINE D == [i \in x .. n |-> IF i = x THEN DownStep(h, e, C, i) ELSE C[i]]
    <3> HIDE DEF x
    <3>3. \A i \in x + 1 .. n : D[i] = C[i] /\ C[i] = DownStep(h, e, C, i)
      <4>1. \A i \in x + 1 .. n : i \in x .. n /\ i # x
        BY <3>1
      <4>2. \A i \in x + 1 .. n : C[i] = DownStep(h, e, C, i)
        BY <3>2 DEF IsDown
      <4>3. QED
        BY <4>1, <4>2
    <3>4. D[x] = DownStep(h, e, C, x) /\ \A i \in x .. n : i = x \/ i \in x + 1 .. n
      BY <3>1
    <3>5. D = [i \in DOMAIN D |-> D[i]] /\ DOMAIN D = x .. n
      OBVIOUS
    <3> HIDE DEF D
    <3>6. ASSUME NEW i \in x .. n
          PROVE  DownStep(h, e, D, i) = DownStep(h, e, C, i)
      <4>1. CASE ChildrenOf(h.q, i) # {}
        <5>1. i \in 1 .. n
          BY <3>1
        <5>2. LeastChild(h.q, i) \in i + 1 .. n
          BY <4>1, <5>1, ChildAfter
        <5>3. LeastChild(h.q, i) \in x + 1 .. n
          BY <3>1, <5>1, <5>2
        <5>4. QED
          BY <3>3, <5>3 DEF DownStep
      <4>2. CASE ChildrenOf(h.q, i) = {}
        BY <4>2 DEF DownStep
      <4>3. QED
        BY <4>1, <4>2
    <3>7. \A i \in x .. n : D[i] = DownStep(h, e, D, i)
      BY <3>3, <3>4, <3>6
    <3>8. IsDown(h, e, n, x, D)
      BY <3>5, <3>7 DEF IsDown
    <3>9. QED
      BY <3>8
  <2>3. QED
    BY <2>1, <2>2
<1>3. \A k \in Nat : k \in P
  <2>1. \A k \in Nat : k \in P => k + 1 \in P
    BY <1>2
  <2> HIDE DEF P
  <2>2. QED
    BY <1>1, <2>1, NaturalsFromZero
<1>4. n + 1 - n = 1 /\ n <= n /\ n \in P
  BY <1>3
<1>5. QED
  BY <1>4

\* When elem goes down from j, nothing has changed but at j and below it, and only
\* between j and its parent the order may be wrong.
Down(h, e, n, p, D, j) ==
  /\ Moved(h, n, p, e, j, D[j])
  /\ \A i \in 1 .. n : i # j /\ (i = 1 \/ ParentI(i) < j) => D[j].q[i] = h.q[i]
  /\ D[j].q[j] = e \/ \E c \in 2 .. n : ParentI(c) = j /\ D[j].q[j] = h.q[c]
  /\ \A i \in 2 .. n : i # j => D[j].q[ParentI(i)].t <= D[j].q[i].t

(* Going down, by induction from the place of the change towards the leaves *)
LEMMA DownTells ==
  ASSUME NEW n, NEW h, NEW p, NEW e, MayMove(h, n, p, e), NEW D, IsDown(h, e, n, 1, D)
  PROVE  \A j \in p .. n : Down(h, e, n, p, D, j)
<1>1. /\ n \in Nat /\ h \in Heaps(n) /\ Placed(h, 1 .. n) /\ InOrder(h, n)
      /\ p \in 1 .. n /\ e \in Entries /\ e.lp = h.q[p].lp /\ e.t \in Nat
  BY DEF MayMove, Entries
<1>2. \A i \in 1 .. n : h.q[i] \in Entries /\ h.q[i].t \in Nat
  BY <1>1 DEF Heaps, Entries
<1>3. \A j \in 1 .. n : D[j] = DownStep(h, e, D, j)
  BY DEF IsDown
<1>4. \A i \in 2 .. n : i \in Nat /\ i > 1 /\ ParentI(i) \in 1 .. i - 1 /\ ParentI(i) \in 1 .. n
  <2>1. \A i \in 2 .. n : i \in Nat /\ i > 1 /\ i - 1 <= n
    BY <1>1
  <2>2. \A i \in 2 .. n : ParentI(i) \in 1 .. i - 1
    BY <2>1, Parents
  <2>3. QED
    BY <1>1, <2>1, <2>2
<1> DEFINE P == {j \in 1 .. n : j >= p => Down(h, e, n, p, D, j)}
<1>5. ASSUME NEW j \in 1 .. n, \A i \in j + 1 .. n : i \in P
      PROVE  j \in P
  <2> SUFFICES ASSUME j >= p PROVE Down(h, e, n, p, D, j)
    OBVIOUS
  <2>1. j \in Nat /\ p \in Nat
    BY <1>1
  <2>2. CASE \E c \in ChildrenOf(h.q, j) : h.q[c].t < e.t
    <3> DEFINE k == LeastChild(h.q, j)
               x == h.q[k]
               W == D[k]
    <3>1. PICK c \in ChildrenOf(h.q, j) : h.q[c].t < e.t
      BY <2>2
    <3>2. /\ k \in 2 .. n /\ ParentI(k) = j
          /\ \A d \in ChildrenOf(h.q, j) : h.q[k].t <= h.q[d].t
      BY <1>1, <3>1, LeastChildTells
    <3>3. D[j] = PutAt(W, j, x)
      BY <1>3, <2>2 DEF DownStep
    <3> HIDE DEF k
    <3>4. k \in 1 .. n /\ k \in j + 1 .. n /\ k # j /\ k # p /\ k >= p
      <4>1. j \in 1 .. k - 1 /\ k \in Nat
        BY <1>4, <3>2
      <4>2. QED
        BY <1>1, <2>1, <3>2, <4>1
    <3>5. Down(h, e, n, p, D, k)
      BY <1>5, <3>4
    <3>6. /\ Moved(h, n, p, e, k, W)
          /\ \A i \in 1 .. n : i # k /\ (i = 1 \/ ParentI(i) < k) => W.q[i] = h.q[i]
          /\ W.q[k] = e \/ \E d \in 2 .. n : ParentI(d) = k /\ W.q[k] = h.q[d]
          /\ \A i \in 2 .. n : i # k => W.q[ParentI(i)].t <= W.q[i].t
      BY <3>5 DEF Down
    <3>7. x \in Entries /\ x.t \in Nat /\ x.t < e.t
      <4>1. c \in 1 .. n
        BY <1>1, <3>1 DEF ChildrenOf, Heaps
      <4>2. h.q[k].t <= h.q[c].t /\ h.q[c].t < e.t /\ h.q[c].t \in Nat /\ h.q[k].t \in Nat
        BY <1>2, <3>1, <3>2, <3>4, <4>1
      <4>3. QED
        BY <1>1, <1>2, <3>4, <4>2
    <3>8. \A i \in 2 .. n : ParentI(i) = j => i \in ChildrenOf(h.q, j)
      BY <1>1, <1>4 DEF ChildrenOf, Heaps
    <3> HIDE DEF x, W
    <3>9. \A i \in 1 .. n : i = 1 \/ ParentI(i) <= j => (i # k => W.q[i] = h.q[i])
      <4>1. \A i \in 2 .. n : ParentI(i) \in Nat
        BY <1>4
      <4>2. \A i \in 1 .. n : i = 1 \/ i \in 2 .. n
        BY <1>1
      <4>3. \A i \in 2 .. n : ParentI(i) <= j => ParentI(i) < k
        BY <2>1, <3>4, <4>1
      <4>4. QED
        BY <3>6, <4>2, <4>3
    <3>10. \A i \in 2 .. n : ParentI(i) < j => ParentI(i) <= j /\ i # k
      BY <1>4, <2>1, <3>2
    <3>11. j = 1 \/ ParentI(j) <= j
      <4>1. j = 1 \/ j \in 2 .. n
        BY <1>1, <2>1
      <4>2. j \in 2 .. n => ParentI(j) \in 1 .. j - 1
        BY <1>4
      <4>3. ParentI(j) \in 1 .. j - 1 => ParentI(j) <= j
        BY <2>1
      <4>4. QED
        BY <4>1, <4>2, <4>3
    <3>12. W.q[j] = h.q[j]
      BY <3>4, <3>9, <3>11
    <3>13. Moved(h, n, p, e, j, PutAt(W, j, x))
      BY <1>1, <3>4, <3>6, <3>12, MoveGoesOn DEF x
    <3>14. W \in Heaps(n) /\ D[j].q = [W.q EXCEPT ![j] = x]
      <4>1. W \in Heaps(n)
        BY <3>6 DEF Moved
      <4>2. QED
        BY <1>1, <3>3, <3>7, <4>1, PutQ
    <3>15. W.q \in [1 .. n -> Entries] /\ \A i \in 1 .. n : W.q[i].t \in Nat
      BY <3>14 DEF Heaps, Entries
    <3>16. D[j].q[j] = x /\ \A i \in 1 .. n : i # j => D[j].q[i] = W.q[i]
      BY <3>14, <3>15
    <3>17. \A i \in 1 .. n : i # j /\ (i = 1 \/ ParentI(i) < j) => D[j].q[i] = h.q[i]
      <4>1. ASSUME NEW i \in 1 .. n, i # j, i = 1 \/ ParentI(i) < j PROVE D[j].q[i] = h.q[i]
        <5>1. i = 1 \/ i \in 2 .. n
          BY <1>1
        <5>2. i # k /\ (i = 1 \/ ParentI(i) <= j)
          BY <3>2, <3>10, <4>1, <5>1
        <5>3. QED
          BY <3>9, <3>16, <4>1, <5>2
      <4>2. QED
        BY <4>1
    <3>18. x.t <= W.q[k].t
      <4>1. CASE W.q[k] = e
        BY <1>1, <3>7, <4>1
      <4>2. ASSUME NEW d \in 2 .. n, ParentI(d) = k, W.q[k] = h.q[d] PROVE x.t <= W.q[k].t
        BY <1>1, <4>2 DEF InOrder, x
      <4>3. QED
        BY <3>6, <4>1, <4>2
    <3>19. ASSUME NEW i \in 2 .. n, i # j
           PROVE  D[j].q[ParentI(i)].t <= D[j].q[i].t
      <4>1. i \in 1 .. n /\ ParentI(i) \in 1 .. n
        BY <1>1, <1>4
      <4>2. D[j].q[i] = W.q[i]
        BY <3>16, <3>19, <4>1
      <4>3. CASE i = k
        BY <3>2, <3>16, <3>18, <4>2, <4>3
      <4>4. CASE i # k /\ ParentI(i) = j
        <5>1. W.q[i] = h.q[i]
          BY <2>1, <3>9, <4>1, <4>4
        <5>2. x.t <= h.q[i].t
          BY <3>2, <3>8, <4>4 DEF x
        <5>3. QED
          BY <3>16, <4>2, <4>4, <5>1, <5>2
      <4>5. CASE i # k /\ ParentI(i) # j
        BY <3>6, <3>16, <4>1, <4>2, <4>5
      <4>6. QED
        BY <4>3, <4>4, <4>5
    <3>20. QED
      BY <3>2, <3>3, <3>13, <3>16, <3>17, <3>19 DEF Down, x
  <2>3. CASE ~ \E c \in ChildrenOf(h.q, j) : h.q[c].t < e.t
    <3>1. D[j] = PutAt(h, j, e)
      BY <1>3, <2>3 DEF DownStep
    <3>2. Moved(h, n, p, e, j, D[j])
      BY <1>1, <3>1, MoveStarts
    <3>3. D[j].q = [h.q EXCEPT ![j] = e]
      BY <1>1, <3>1, PutQ
    <3>4. h.q \in [1 .. n -> Entries]
      BY <1>1 DEF Heaps
    <3>5. D[j].q[j] = e /\ \A i \in 1 .. n : i # j => D[j].q[i] = h.q[i]
      BY <3>3, <3>4
    <3>6. ASSUME NEW i \in 2 .. n, i # j
          PROVE  D[j].q[ParentI(i)].t <= D[j].q[i].t
      <4>1. i \in 1 .. n /\ ParentI(i) \in 1 .. n
        BY <1>1, <1>4
      <4>2. D[j].q[i] = h.q[i]
        BY <3>5, <3>6, <4>1
      <4>3. CASE ParentI(i) = j
        <5>1. i \in ChildrenOf(h.q, j)
          BY <1>4, <3>4, <4>1, <4>3 DEF ChildrenOf
        <5>2. ~ (h.q[i].t < e.t) /\ h.q[i].t \in Nat
          BY <1>2, <2>3, <4>1, <5>1
        <5>3. QED
          BY <1>1, <3>5, <4>2, <4>3, <5>2
      <4>4. CASE ParentI(i) # j
        BY <1>1, <3>5, <4>1, <4>2, <4>4 DEF InOrder
      <4>5. QED
        BY <4>3, <4>4
    <3>7. QED
      BY <3>2, <3>5, <3>6 DEF Down
  <2>4. QED
    BY <2>2, <2>3
<1>6. \A j \in 1 .. n : j \in P
  <2>1. n \in Nat
    BY <1>1
  <2> HIDE DEF P
  <2>2. QED
    BY <1>5, <2>1, AllFromAfter
<1>7. \A j \in p .. n : j \in 1 .. n /\ j >= p
  BY <1>1
<1>8. QED
  BY <1>6, <1>7

\* A is a heap like h with e in the place of the entry at p.
Instead(h, n, p, e, A) ==
  /\ A \in Heaps(n) /\ Placed(A, 1 .. n) /\ InOrder(A, n)
  /\ Held(A, 1 .. n) = (Held(h, 1 .. n) \ {h.q[p]}) \cup {e}

\* What is moved to its old place.
LEMMA MovedToP ==
  ASSUME NEW n \in Nat, NEW h \in Heaps(n), NEW p \in 1 .. n, NEW e, NEW A, Moved(h, n, p, e, p, A)
  PROVE  /\ A \in Heaps(n) /\ Placed(A, 1 .. n)
         /\ Held(A, 1 .. n) = (Held(h, 1 .. n) \ {h.q[p]}) \cup {e}
<1>1. ((1 .. n) \ {p}) \cup {p} = 1 .. n
  OBVIOUS
<1>2. Held(h, 1 .. n) = Held(h, (1 .. n) \ {p}) \cup {h.q[p]}
  BY DEF Held
<1>3. Held(A, 1 .. n) = (Held(h, (1 .. n) \ {p}) \ {h.q[p]}) \cup {e}
  BY <1>1 DEF Moved
<1>4. QED
  BY <1>1, <1>2, <1>3 DEF Moved

\* rheap_priority_increased: it comes into its place;
LEMMA MovedUpTells ==
  ASSUME NEW n, NEW h, NEW p, NEW e, MayMove(h, n, p, e), e.t <= h.q[p].t
  PROVE  Instead(h, n, p, e, MovedUp(h, e, p))
<1>1. /\ n \in Nat /\ h \in Heaps(n) /\ InOrder(h, n) /\ p \in 1 .. n /\ e \in Entries /\ e.t \in Nat
  BY DEF MayMove, Entries
<1>2. DOMAIN h.q = 1 .. n /\ \A i \in 1 .. n : h.q[i].t \in Nat
  BY <1>1 DEF Heaps, Entries
<1> DEFINE U == CHOOSE U : U = [j \in 1 .. n |-> UpStep(h, e, U, j)]
           A == U[p]
<1>3. MovedUp(h, e, p) = A
  BY <1>2 DEF MovedUp, UpStep
<1>4. IsUp(h, e, n, U)
  <2>1. \E C : IsUp(h, e, n, C)
    BY <1>1, UpIsThere
  <2>2. QED
    BY <2>1 DEF IsUp
<1> HIDE DEF U
<1>5. Up(h, e, n, p, U, p)
  <2>1. p \in 1 .. p
    BY <1>1
  <2>2. QED
    BY <1>4, <2>1, UpTells
<1>6. /\ Moved(h, n, p, e, p, A)
      /\ \A i \in 1 .. n : i > p => A.q[i] = h.q[i]
      /\ A.q[p] = e \/ (p > 1 /\ e.t < h.q[ParentI(p)].t /\ A.q[p] = h.q[ParentI(p)])
      /\ \A i \in 2 .. n : ParentI(i) # p => A.q[ParentI(i)].t <= A.q[i].t
  BY <1>5 DEF Up
<1> HIDE DEF A
<1>7. A.q[p].t \in Nat /\ A.q[p].t <= h.q[p].t
  <2>1. CASE A.q[p] = e
    BY <1>1, <2>1
  <2>2. CASE p > 1 /\ A.q[p] = h.q[ParentI(p)]
    <3>1. p \in 2 .. n /\ p \in Nat /\ p - 1 <= n
      BY <1>1, <2>2
    <3>2. ParentI(p) \in 1 .. p - 1
      BY <2>2, <3>1, Parents
    <3>3. ParentI(p) \in 1 .. n
      BY <1>1, <3>1, <3>2
    <3>4. QED
      BY <1>1, <1>2, <2>2, <3>1, <3>3 DEF InOrder
  <2>3. QED
    BY <1>6, <2>1, <2>2
<1>8. ASSUME NEW i \in 2 .. n PROVE A.q[ParentI(i)].t <= A.q[i].t
  <2>1. CASE ParentI(i) = p
    <3>1. i \in Nat /\ i > 1 /\ i \in 1 .. n
      BY <1>1
    <3>2. ParentI(i) \in 1 .. i - 1
      BY <3>1, Parents
    <3>3. A.q[i] = h.q[i]
      BY <1>1, <1>6, <2>1, <3>1, <3>2
    <3>4. h.q[p].t <= h.q[i].t /\ h.q[p].t \in Nat /\ h.q[i].t \in Nat
      BY <1>1, <1>2, <2>1, <3>1 DEF InOrder
    <3>5. QED
      BY <1>7, <2>1, <3>3, <3>4
  <2>2. CASE ParentI(i) # p
    BY <1>6, <2>2
  <2>3. QED
    BY <2>1, <2>2
<1>9. InOrder(A, n)
  BY <1>8 DEF InOrder
<1>10. QED
  BY <1>1, <1>3, <1>6, <1>9, MovedToP DEF Instead

\* rheap_priority_lowered: and so it does here.
LEMMA MovedDownTells ==
  ASSUME NEW n, NEW h, NEW p, NEW e, MayMove(h, n, p, e), h.q[p].t <= e.t
  PROVE  Instead(h, n, p, e, MovedDown(h, e, p))
<1>1. /\ n \in Nat /\ h \in Heaps(n) /\ InOrder(h, n) /\ p \in 1 .. n /\ e \in Entries /\ e.t \in Nat
  BY DEF MayMove, Entries
<1>2. DOMAIN h.q = 1 .. n /\ \A i \in 1 .. n : h.q[i].t \in Nat
  BY <1>1 DEF Heaps, Entries
<1> DEFINE D == CHOOSE D : D = [j \in 1 .. n |-> DownStep(h, e, D, j)]
           A == D[p]
<1>3. MovedDown(h, e, p) = A
  BY <1>2 DEF MovedDown, DownStep
<1>4. IsDown(h, e, n, 1, D)
  <2>1. \E C : IsDown(h, e, n, 1, C)
    BY <1>1, DownIsThere
  <2>2. QED
    BY <2>1 DEF IsDown
<1> HIDE DEF D
<1>5. Down(h, e, n, p, D, p)
  <2>1. p \in p .. n
    BY <1>1
  <2>2. QED
    BY <1>4, <2>1, DownTells
<1>6. /\ Moved(h, n, p, e, p, A)
      /\ \A i \in 1 .. n : i # p /\ (i = 1 \/ ParentI(i) < p) => A.q[i] = h.q[i]
      /\ A.q[p] = e \/ \E c \in 2 .. n : ParentI(c) = p /\ A.q[p] = h.q[c]
      /\ \A i \in 2 .. n : i # p => A.q[ParentI(i)].t <= A.q[i].t
  BY <1>5 DEF Down
<1> HIDE DEF A
<1>7. h.q[p].t <= A.q[p].t
  <2>1. CASE A.q[p] = e
    BY <2>1
  <2>2. ASSUME NEW c \in 2 .. n, ParentI(c) = p, A.q[p] = h.q[c] PROVE h.q[p].t <= A.q[p].t
    BY <1>1, <2>2 DEF InOrder
  <2>3. QED
    BY <1>6, <2>1, <2>2
<1>8. ASSUME p \in 2 .. n PROVE A.q[ParentI(p)].t <= A.q[p].t
  <2> DEFINE k == ParentI(p)
  <2>1. p \in Nat /\ p > 1
    BY <1>1, <1>8
  <2>2. k \in 1 .. p - 1
    BY <2>1, Parents
  <2>3. h.q[k].t <= h.q[p].t
    BY <1>1, <1>8 DEF InOrder
  <2>4. k = 1 \/ (k \in Nat /\ k > 1)
    BY <2>2
  <2>5. k \in Nat /\ k > 1 => ParentI(k) \in 1 .. k - 1
    BY Parents
  <2> HIDE DEF k
  <2>6. k \in 1 .. n /\ k # p /\ (k = 1 \/ ParentI(k) < p)
    <3>1. k \in 1 .. n /\ k # p /\ k \in Nat /\ k < p
      BY <1>1, <2>2
    <3>2. ParentI(k) \in 1 .. k - 1 => ParentI(k) < p
      BY <2>1, <3>1
    <3>3. QED
      BY <2>4, <2>5, <3>1, <3>2
  <2>7. A.q[k] = h.q[k]
    BY <1>6, <2>6
  <2>8. h.q[k].t \in Nat /\ h.q[p].t \in Nat /\ A.q[p].t \in Nat
    <3>1. A \in Heaps(n)
      BY <1>6 DEF Moved
    <3>2. QED
      BY <1>1, <1>2, <2>6, <3>1 DEF Heaps, Entries
  <2>9. A.q[k].t <= A.q[p].t
    BY <1>7, <2>3, <2>7, <2>8
  <2>10. QED
    BY <2>9 DEF k
<1>9. InOrder(A, n)
  BY <1>6, <1>8 DEF InOrder
<1>10. QED
  BY <1>1, <1>3, <1>6, <1>9, MovedToP DEF Instead

\* The heap of LPs 1 .. m, whose retractable events are at the times f.
Agrees(h, m, f) ==
  /\ h \in Heaps(m) /\ Placed(h, 1 .. m) /\ InOrder(h, m)
  /\ Held(h, 1 .. m) = {[t |-> f[lp], lp |-> lp] : lp \in 1 .. m}

\* Every LP of such a heap has its entry where it believes.
LEMMA AgreesTells ==
  ASSUME NEW m \in Nat, NEW h, NEW f, Agrees(h, m, f), 1 .. m \subseteq LPs
  PROVE  \A lp \in 1 .. m : h.pos[lp] \in 1 .. m /\ h.q[h.pos[lp]] = [t |-> f[lp], lp |-> lp]
<1>1. ASSUME NEW lp \in 1 .. m
      PROVE  h.pos[lp] \in 1 .. m /\ h.q[h.pos[lp]] = [t |-> f[lp], lp |-> lp]
  <2>1. PICK i \in 1 .. m : h.q[i] = [t |-> f[lp], lp |-> lp]
    BY DEF Agrees, Held
  <2>2. h.pos[lp] = i
    BY <2>1 DEF Agrees, Placed
  <2>3. QED
    BY <2>1, <2>2
<1>2. QED
  BY <1>1

\* retractable_reschedule.
LEMMA RescheduleTells ==
  ASSUME NEW m \in Nat, NEW h, NEW f \in [1 .. m -> Nat], Agrees(h, m, f), 1 .. m \subseteq LPs,
         NEW lp \in 1 .. m, NEW t \in Nat
  PROVE  Agrees(Reschedule(h, lp, t), m, [f EXCEPT ![lp] = t])
<1> DEFINE p == h.pos[lp]
           e == [t |-> t, lp |-> lp]
           g == [f EXCEPT ![lp] = t]
           A == Reschedule(h, lp, t)
           E(k, x) == [t |-> k[x], lp |-> x]
<1>1. p \in 1 .. m /\ h.q[p] = [t |-> f[lp], lp |-> lp] /\ f[lp] \in Nat
  BY AgreesTells
<1>2. h \in Heaps(m) /\ Placed(h, 1 .. m) /\ InOrder(h, m)
  BY DEF Agrees
<1>3. MayMove(h, m, p, e) /\ e.t = t /\ h.q[p].t = f[lp]
  BY <1>1, <1>2 DEF MayMove, Entries
<1>4. A = IF t = h.q[p].t THEN h
          ELSE IF t > h.q[p].t THEN MovedDown(h, e, p) ELSE MovedUp(h, e, p)
  BY DEF Reschedule
<1> HIDE DEF A, p, e
<1>5. CASE t = f[lp]
  <2>1. A = h /\ g = f
    BY <1>3, <1>4, <1>5
  <2>2. QED
    BY <2>1 DEF A
<1>6. CASE t # f[lp]
  <2>1. Instead(h, m, p, e, A)
    <3>1. CASE t > f[lp]
      <4>1. A = MovedDown(h, e, p)
        BY <1>3, <1>4, <1>6, <3>1
      <4>2. h.q[p].t <= e.t
        BY <1>1, <1>3, <3>1
      <4>3. QED
        BY <1>3, <4>1, <4>2, MovedDownTells
    <3>2. CASE ~ (t > f[lp])
      <4>1. A = MovedUp(h, e, p)
        BY <1>3, <1>4, <1>6, <3>2
      <4>2. e.t <= h.q[p].t
        BY <1>1, <1>3, <3>2
      <4>3. QED
        BY <1>3, <4>1, <4>2, MovedUpTells
    <3>3. QED
      BY <3>1, <3>2
  <2>2. Held(A, 1 .. m) = ({E(f, x) : x \in 1 .. m} \ {E(f, lp)}) \cup {e}
    BY <1>1, <2>1 DEF Instead, Agrees
  <2>3. g[lp] = t /\ \A x \in 1 .. m : x # lp => g[x] = f[x]
    OBVIOUS
  <2>4. E(g, lp) = e /\ \A x \in 1 .. m : x # lp => E(g, x) = E(f, x) /\ E(f, x) # E(f, lp)
    BY <2>3 DEF e
  <2> HIDE DEF E, g
  <2>5. Held(A, 1 .. m) = {E(g, x) : x \in 1 .. m}
    BY <2>2, <2>4
  <2>6. QED
    BY <2>1, <2>5 DEF Instead, Agrees, E, g, A
<1>7. QED
  BY <1>5, <1>6

\* A new entry for the next LP, and its time.
EntryOf(t, lp) == [t |-> t, lp |-> lp]
Longer(f, m, b) == [x \in 1 .. m + 1 |-> IF x = m + 1 THEN b ELSE f[x]]

\* A new entry that is not before any other is put at the end.
LEMMA InsertedLast ==
  ASSUME NEW m \in Nat, NEW h, NEW f \in [1 .. m -> Nat], Agrees(h, m, f), 1 .. m + 1 \subseteq LPs,
         NEW b \in Nat, \A x \in 1 .. m : f[x] <= b
  PROVE  Agrees(HeapInsert(h, EntryOf(b, m + 1)), m + 1, Longer(f, m, b))
<1> DEFINE n == m + 1
           e == [t |-> b, lp |-> n]
           g == [h EXCEPT !.q = Append(@, e)]
           f1 == [x \in 1 .. n |-> IF x = n THEN b ELSE f[x]]
           A == PutAt(g, n, e)
<1>1. n \in Nat /\ n \in 1 .. n /\ n \in LPs /\ \A i \in 1 .. n : i = n \/ i \in 1 .. m
  OBVIOUS
<1>2. \A i \in 1 .. m : i \in 1 .. n /\ i # n
  OBVIOUS
<1>3. /\ h \in Heaps(m) /\ Placed(h, 1 .. m) /\ InOrder(h, m)
      /\ Held(h, 1 .. m) = {[t |-> f[x], lp |-> x] : x \in 1 .. m}
  BY DEF Agrees
<1>4. e \in Entries /\ e.t = b /\ e.lp = n
  BY <1>1 DEF Entries
<1>5. h.q \in Seq(Entries) /\ Len(h.q) = m /\ h.pos \in [LPs -> Nat]
  <2>1. h.q \in [1 .. m -> Entries] /\ h.pos \in [LPs -> Nat]
    BY <1>3 DEF Heaps
  <2>2. h.q \in Seq(Entries)
    BY <2>1, SeqDef
  <2>3. DOMAIN h.q = 1 .. m
    BY <2>1
  <2>4. QED
    BY <2>1, <2>2, <2>3
<1> DEFINE q == Append(h.q, e)
<1>6. q \in [1 .. n -> Entries] /\ q[n] = e /\ \A i \in 1 .. m : q[i] = h.q[i]
  <2> HIDE DEF e
  <2>1. q \in Seq(Entries) /\ Len(q) = n
    BY <1>4, <1>5
  <2>2. q[n] = e /\ \A i \in 1 .. m : q[i] = h.q[i]
    BY <1>4, <1>5
  <2> HIDE DEF q, n
  <2>3. q \in [1 .. n -> Entries]
    BY <2>1
  <2>4. QED
    BY <2>2, <2>3
<1>7. g = [q |-> q, pos |-> h.pos]
  <2> DEFINE a == h.q
             b1 == h.pos
  <2>1. h = [q |-> a, pos |-> b1]
    BY <1>3 DEF Heaps
  <2> HIDE DEF e, a, b1
  <2>2. \A c : [h EXCEPT !.q = c] = [q |-> c, pos |-> b1]
    BY <2>1
  <2>3. QED
    BY <2>2 DEF b1
<1>8. HeapInsert(h, e) = MovedUp(g, e, n)
  BY <1>5 DEF HeapInsert
<1> HIDE DEF e, q, g, f1, n
<1>9. g \in Heaps(n) /\ DOMAIN g.q = 1 .. n /\ g.q = q /\ g.pos = h.pos
  BY <1>5, <1>6, <1>7 DEF Heaps
<1>10. \A i \in 1 .. m : q[i] \in {[t |-> f[x], lp |-> x] : x \in 1 .. m}
  BY <1>3, <1>6 DEF Held
<1>11. \A i \in 1 .. m : q[i].t \in Nat /\ q[i].t <= b /\ q[i].lp \in 1 .. m
  BY <1>10
<1>12. \A i \in 2 .. n : ParentI(i) \in 1 .. m /\ i \in Nat
  <2>1. \A i \in 2 .. n : i \in Nat /\ i > 1 /\ i - 1 <= m
    BY <1>1 DEF n
  <2>2. \A i \in 2 .. n : ParentI(i) \in 1 .. i - 1
    BY <2>1, Parents
  <2>3. QED
    BY <2>1, <2>2
<1>13. MovedUp(g, e, n) = A
  <2> DEFINE U == CHOOSE U : U = [j \in 1 .. n |-> UpStep(g, e, U, j)]
  <2>1. MovedUp(g, e, n) = U[n]
    BY <1>9 DEF MovedUp, UpStep
  <2>2. IsUp(g, e, n, U)
    <3>1. \E C : IsUp(g, e, n, C)
      BY <1>1, UpIsThere
    <3>2. QED
      BY <3>1 DEF IsUp
  <2> HIDE DEF U
  <2>3. U[n] = UpStep(g, e, U, n)
    BY <1>1, <2>2 DEF IsUp
  <2>4. ~ (n > 1 /\ e.t < q[ParentI(n)].t)
    <3>1. n > 1 => n \in 2 .. n
      BY <1>1
    <3>2. QED
      BY <1>4, <1>11, <1>12, <3>1
  <2>5. UpStep(g, e, U, n) = A
    BY <1>9, <2>4 DEF UpStep
  <2>6. QED
    BY <2>1, <2>3, <2>5
<1>14. A.q = [q EXCEPT ![n] = e] /\ A.pos = [h.pos EXCEPT ![n] = n] /\ A = [q |-> A.q, pos |-> A.pos]
  BY <1>4, <1>9 DEF PutAt
<1> HIDE DEF A
<1>15. A.q = q
  BY <1>6, <1>14
<1>16. A \in Heaps(n)
  <2>1. A.pos \in [LPs -> Nat]
    BY <1>1, <1>5, <1>14
  <2>2. QED
    BY <1>6, <1>14, <1>15, <2>1 DEF Heaps
<1>17. Placed(A, 1 .. n)
  <2>1. A.pos[n] = n
    BY <1>1, <1>5, <1>14
  <2>2. ASSUME NEW i \in 1 .. m PROVE A.pos[q[i].lp] = i
    <3>1. q[i].lp \in 1 .. m /\ q[i].lp # n /\ q[i].lp \in LPs
      BY <1>1, <1>2, <1>11 DEF n
    <3>2. h.pos[q[i].lp] = i
      BY <1>3, <1>6 DEF Placed
    <3>3. QED
      BY <1>5, <1>14, <3>1, <3>2
  <2>3. QED
    BY <1>1, <1>4, <1>6, <1>15, <2>1, <2>2 DEF Placed
<1>18. InOrder(A, n)
  <2>1. ASSUME NEW i \in 2 .. n PROVE q[ParentI(i)].t <= q[i].t
    <3>1. CASE i = n
      BY <1>4, <1>6, <1>11, <1>12, <3>1
    <3>2. CASE i # n
      <4>1. i \in 2 .. m /\ i \in 1 .. m
        BY <1>1, <3>2 DEF n
      <4>2. QED
        BY <1>3, <1>6, <1>12, <4>1 DEF InOrder
    <3>3. QED
      BY <3>1, <3>2
  <2>2. QED
    BY <1>15, <2>1 DEF InOrder
<1>19. Held(A, 1 .. n) = {[t |-> f1[x], lp |-> x] : x \in 1 .. n}
  <2>1. Held(A, 1 .. n) = Held(h, 1 .. m) \cup {e}
    BY <1>1, <1>2, <1>6, <1>15 DEF Held
  <2>2. f1[n] = b /\ \A x \in 1 .. m : f1[x] = f[x]
    BY <1>1, <1>2 DEF f1
  <2>3. e = [t |-> b, lp |-> n]
    BY DEF e
  <2> DEFINE E(k, x) == [t |-> k[x], lp |-> x]
  <2>4. E(f1, n) = e /\ \A x \in 1 .. m : E(f1, x) = E(f, x)
    BY <2>2, <2>3
  <2>5. Held(A, 1 .. n) = {E(f, x) : x \in 1 .. m} \cup {e}
    BY <1>3, <2>1
  <2> HIDE DEF E
  <2>6. Held(A, 1 .. n) = {E(f1, x) : x \in 1 .. n}
    BY <1>1, <1>2, <2>4, <2>5
  <2>7. QED
    BY <2>6 DEF E
<1>20. QED
  BY <1>8, <1>13, <1>16, <1>17, <1>18, <1>19 DEF Agrees, e, n, f1, EntryOf, Longer

\* lp_init for the first LPs, whose handlers of LP_INIT set s.
HeapStep(s, H, i) ==
  IF i = 0 THEN [q |-> <<>>, pos |-> [lp \in LPs |-> 0]]
  ELSE Reschedule(HeapInsert(H[i - 1], [t |-> SIMTIME_MAX, lp |-> i]), i, s[i])
IsInit(s, n, H) == H = [i \in 0 .. n |-> HeapStep(s, H, i)]

\* The heaps of BooksInit are defined.
LEMMA InitIsThere ==
  ASSUME NEW s, NEW n \in Nat
  PROVE  \E H : IsInit(s, n, H)
<1> DEFINE P == {k \in Nat : \E H : IsInit(s, k, H)}
<1>1. 0 \in P
  <2> DEFINE H == [i \in 0 .. 0 |-> HeapStep(s, s, 0)]
  <2>1. H = [i \in 0 .. 0 |-> HeapStep(s, H, i)]
    BY DEF HeapStep
  <2>2. IsInit(s, 0, H)
    BY <2>1 DEF IsInit
  <2>3. QED
    BY <2>2
<1>2. ASSUME NEW k \in P PROVE k + 1 \in P
  <2>1. PICK V : IsInit(s, k, V)
    OBVIOUS
  <2> DEFINE H == [i \in 0 .. k + 1 |-> IF i = k + 1 THEN HeapStep(s, V, i) ELSE V[i]]
  <2>2. \A i \in 0 .. k : H[i] = V[i] /\ V[i] = HeapStep(s, V, i)
    <3>1. \A i \in 0 .. k : i \in 0 .. k + 1 /\ i # k + 1
      OBVIOUS
    <3>2. \A i \in 0 .. k : V[i] = HeapStep(s, V, i)
      BY <2>1 DEF IsInit
    <3>3. QED
      BY <3>1, <3>2
  <2>3. H[k + 1] = HeapStep(s, V, k + 1)
    OBVIOUS
  <2>4. H = [i \in DOMAIN H |-> H[i]] /\ DOMAIN H = 0 .. k + 1
    OBVIOUS
  <2> HIDE DEF H
  <2>5. \A i \in 0 .. k + 1 : HeapStep(s, H, i) = HeapStep(s, V, i)
    <3>1. \A i \in 0 .. k + 1 : i # 0 => i - 1 \in 0 .. k
      OBVIOUS
    <3>2. QED
      BY <2>2, <3>1 DEF HeapStep
  <2>6. \A i \in 0 .. k + 1 : H[i] = HeapStep(s, H, i)
    <3>1. \A i \in 0 .. k + 1 : i = k + 1 \/ i \in 0 .. k
      OBVIOUS
    <3>2. QED
      BY <2>2, <2>3, <2>5, <3>1
  <2>7. IsInit(s, k + 1, H)
    BY <2>4, <2>6 DEF IsInit
  <2>8. QED
    BY <2>7
<1>3. \A k \in Nat : k \in P
  <2>1. \A k \in Nat : k \in P => k + 1 \in P
    BY <1>2
  <2> HIDE DEF P
  <2>2. QED
    BY <1>1, <2>1, NaturalsFromZero
<1>4. QED
  BY <1>3

\* There are NLps of them.
NLps == Cardinality(LPs)

\* So the heap is right from the beginning.
LEMMA InitHeapTells ==
  ASSUME NEW s \in [LPs -> Nat], \A x \in LPs : s[x] <= SIMTIME_MAX, NEW H, IsInit(s, NLps, H)
  PROVE  Agrees(H[NLps], NLps, s)
<1> DEFINE F(k) == [x \in 1 .. k |-> s[x]]
           P == {k \in Nat : k <= NLps => Agrees(H[k], k, F(k))}
<1>1. NLps \in Nat /\ LPs = 1 .. NLps /\ SIMTIME_MAX \in Nat
  BY BooksAssumption DEF NLps, SIMTIME_MAX
<1>2. \A k \in 0 .. NLps : H[k] = HeapStep(s, H, k)
  BY DEF IsInit
<1>3. 0 \in P
  <2> DEFINE h == [q |-> <<>>, pos |-> [lp \in LPs |-> 0]]
  <2>1. H[0] = h
    <3>1. 0 \in 0 .. NLps
      BY <1>1
    <3>2. HeapStep(s, H, 0) = h
      BY DEF HeapStep
    <3>3. QED
      BY <1>2, <3>1, <3>2
  <2>2. h \in Heaps(0)
    <3>1. <<>> \in [1 .. 0 -> Entries]
      OBVIOUS
    <3>2. QED
      BY <3>1 DEF Heaps
  <2>3. 1 .. 0 = {} /\ 2 .. 0 = {}
    OBVIOUS
  <2>4. Placed(h, 1 .. 0) /\ InOrder(h, 0) /\ Held(h, 1 .. 0) = {}
    BY <2>3 DEF Placed, InOrder, Held
  <2>5. {[t |-> F(0)[lp], lp |-> lp] : lp \in 1 .. 0} = {}
    BY <2>3
  <2> HIDE DEF h, F
  <2>6. QED
    BY <2>1, <2>2, <2>4, <2>5 DEF Agrees
<1>4. ASSUME NEW k \in P PROVE k + 1 \in P
  <2> SUFFICES ASSUME k + 1 <= NLps PROVE Agrees(H[k + 1], k + 1, F(k + 1))
    OBVIOUS
  <2> DEFINE n == k + 1
             G == Longer(F(k), k, SIMTIME_MAX)
             A == HeapInsert(H[k], EntryOf(SIMTIME_MAX, n))
  <2>1. k \in Nat /\ n \in Nat /\ k <= NLps /\ n \in 0 .. NLps /\ n # 0 /\ n - 1 = k /\ n \in 1 .. n
    BY <1>1
  <2>2. 1 .. n \subseteq LPs /\ 1 .. k \subseteq LPs /\ n \in LPs
    BY <1>1, <2>1
  <2>3. Agrees(H[k], k, F(k)) /\ F(k) \in [1 .. k -> Nat] /\ \A x \in 1 .. k : F(k)[x] <= SIMTIME_MAX
    BY <2>1, <2>2
  <2>4. Agrees(A, n, G)
    <3> HIDE DEF F
    <3> QED
      BY <1>1, <2>1, <2>2, <2>3, InsertedLast
  <2>5. G \in [1 .. n -> Nat]
    <3>1. \A x \in 1 .. n : x = n \/ x \in 1 .. k
      BY <2>1
    <3>2. QED
      BY <1>1, <2>3, <3>1 DEF Longer
  <2>6. H[n] = Reschedule(A, n, s[n])
    BY <1>2, <2>1 DEF HeapStep, EntryOf
  <2>7. [G EXCEPT ![n] = s[n]] = F(n)
    <3>1. \A x \in 1 .. n : x = n \/ x \in 1 .. k
      BY <2>1
    <3>2. QED
      BY <2>1, <3>1 DEF Longer
  <2>8. s[n] \in Nat
    BY <2>2
  <2> HIDE DEF G, A, F, n
  <2>9. Agrees(Reschedule(A, n, s[n]), n, [G EXCEPT ![n] = s[n]])
    BY <2>1, <2>2, <2>4, <2>5, <2>8, RescheduleTells
  <2>10. QED
    BY <2>6, <2>7, <2>9 DEF n
<1>5. \A k \in Nat : k \in P
  <2>1. \A k \in Nat : k \in P => k + 1 \in P
    BY <1>4
  <2> HIDE DEF P
  <2>2. QED
    BY <1>3, <2>1, NaturalsFromZero
<1>6. F(NLps) = s
  BY <1>1
<1> HIDE DEF F
<1>7. NLps <= NLps
  BY <1>1
<1>8. QED
  BY <1>1, <1>5, <1>6, <1>7

\* The first entry of such a heap is the earliest.
LEMMA FirstOfHeap ==
  ASSUME NEW m \in Nat, m # 0, NEW h, NEW f \in [1 .. m -> Nat], Agrees(h, m, f), 1 .. m \subseteq LPs
  PROVE  /\ h.q[1].lp \in 1 .. m /\ h.q[1].t = f[h.q[1].lp]
         /\ \A x \in 1 .. m : h.q[1].t <= f[x]
<1>1. /\ h \in Heaps(m) /\ InOrder(h, m)
      /\ Held(h, 1 .. m) = {[t |-> f[x], lp |-> x] : x \in 1 .. m}
  BY DEF Agrees
<1>2. \A i \in 1 .. m : h.q[i].t \in Nat
  BY <1>1 DEF Heaps, Entries
<1> DEFINE P == {i \in 1 .. m : h.q[1].t <= h.q[i].t}
<1>3. ASSUME NEW i \in 1 .. m, \A j \in 1 .. i - 1 : j \in P PROVE i \in P
  <2>1. CASE i = 1
    BY <1>2, <2>1
  <2>2. CASE i # 1
    <3>1. i \in 2 .. m /\ i \in Nat /\ i > 1 /\ 1 \in 1 .. m
      BY <2>2
    <3>2. ParentI(i) \in 1 .. i - 1
      BY <3>1, Parents
    <3>3. ParentI(i) \in 1 .. m /\ h.q[1].t <= h.q[ParentI(i)].t
      BY <1>3, <3>2
    <3>4. h.q[ParentI(i)].t <= h.q[i].t
      BY <1>1, <3>1 DEF InOrder
    <3>5. QED
      BY <1>2, <3>1, <3>3, <3>4
  <2>3. QED
    BY <2>1, <2>2
<1>4. \A i \in 1 .. m : i \in P
  <2> HIDE DEF P
  <2> QED
    BY <1>3, AllFromBefore
<1>5. 1 \in 1 .. m
  OBVIOUS
<1>6. h.q[1] \in {[t |-> f[x], lp |-> x] : x \in 1 .. m}
  BY <1>1, <1>5 DEF Held
<1>7. ASSUME NEW x \in 1 .. m PROVE h.q[1].t <= f[x]
  <2>1. PICK i \in 1 .. m : h.q[i] = [t |-> f[x], lp |-> x]
    BY <1>1 DEF Held
  <2>2. QED
    BY <1>4, <2>1
<1>8. QED
  BY <1>6, <1>7

-----------------------------------------------------------------------------
(***************************************************************************)
(* The log of an LP, and what it has left of the retractable event.        *)
(***************************************************************************)
PendStep(l, P, k) ==
  IF k = 0 THEN SIMTIME_MAX
  ELSE AfterHandler(IF l[k].ty = LP_RETRACTABLE THEN SIMTIME_MAX ELSE P[k - 1], l[k].set)
IsPend(l, n, P) == P = [k \in 0 .. n |-> PendStep(l, P, k)]

\* The retractable event after the first k messages of a log.
PendingAt(l, k) == (CHOOSE P : IsPend(l, k, P))[k]

\* It is defined.
LEMMA PendIsThere ==
  ASSUME NEW l, NEW n \in Nat
  PROVE  \E P : IsPend(l, n, P)
<1> DEFINE S == {k \in Nat : \E P : IsPend(l, k, P)}
<1>1. 0 \in S
  <2> DEFINE P == [i \in 0 .. 0 |-> SIMTIME_MAX]
  <2>1. P = [i \in 0 .. 0 |-> PendStep(l, P, i)]
    BY DEF PendStep
  <2>2. IsPend(l, 0, P)
    BY <2>1 DEF IsPend
  <2>3. QED
    BY <2>2
<1>2. ASSUME NEW k \in S PROVE k + 1 \in S
  <2>1. PICK V : IsPend(l, k, V)
    OBVIOUS
  <2> DEFINE P == [i \in 0 .. k + 1 |-> IF i = k + 1 THEN PendStep(l, V, i) ELSE V[i]]
  <2>2. \A i \in 0 .. k : P[i] = V[i] /\ V[i] = PendStep(l, V, i)
    <3>1. \A i \in 0 .. k : i \in 0 .. k + 1 /\ i # k + 1
      OBVIOUS
    <3>2. \A i \in 0 .. k : V[i] = PendStep(l, V, i)
      BY <2>1 DEF IsPend
    <3>3. QED
      BY <3>1, <3>2
  <2>3. P[k + 1] = PendStep(l, V, k + 1)
    OBVIOUS
  <2>4. P = [i \in DOMAIN P |-> P[i]] /\ DOMAIN P = 0 .. k + 1
    OBVIOUS
  <2> HIDE DEF P
  <2>5. \A i \in 0 .. k + 1 : PendStep(l, P, i) = PendStep(l, V, i)
    <3>1. \A i \in 0 .. k + 1 : i # 0 => i - 1 \in 0 .. k
      OBVIOUS
    <3>2. QED
      BY <2>2, <3>1 DEF PendStep
  <2>6. \A i \in 0 .. k + 1 : P[i] = PendStep(l, P, i)
    <3>1. \A i \in 0 .. k + 1 : i = k + 1 \/ i \in 0 .. k
      OBVIOUS
    <3>2. QED
      BY <2>2, <2>3, <2>5, <3>1
  <2>7. IsPend(l, k + 1, P)
    BY <2>4, <2>6 DEF IsPend
  <2>8. QED
    BY <2>7
<1>3. \A k \in Nat : k \in S
  <2>1. \A k \in Nat : k \in S => k + 1 \in S
    BY <1>2
  <2> HIDE DEF S
  <2>2. QED
    BY <1>1, <2>1, NaturalsFromZero
<1>4. QED
  BY <1>3

\* Logs with the same first k messages.
Same(l, r, k) == \A j \in 1 .. k : l[j] = r[j]

\* These decide it.
LEMMA PendAgrees ==
  ASSUME NEW l, NEW r, NEW n \in Nat, NEW m \in Nat, NEW P, NEW Q, IsPend(l, n, P), IsPend(r, m, Q),
         NEW k \in Nat, k <= n, k <= m, Same(l, r, k)
  PROVE  P[k] = Q[k]
<1> DEFINE S == {i \in Nat : i <= k => P[i] = Q[i]}
<1>1. /\ \A i \in 0 .. n : P[i] = PendStep(l, P, i)
      /\ \A i \in 0 .. m : Q[i] = PendStep(r, Q, i)
  BY DEF IsPend
<1>2. 0 \in S
  <2>1. 0 \in 0 .. n /\ 0 \in 0 .. m
    OBVIOUS
  <2>2. QED
    BY <1>1, <2>1 DEF PendStep
<1>3. ASSUME NEW i \in S PROVE i + 1 \in S
  <2> SUFFICES ASSUME i + 1 <= k PROVE P[i + 1] = Q[i + 1]
    OBVIOUS
  <2>1. i + 1 \in 0 .. n /\ i + 1 \in 0 .. m /\ i + 1 # 0 /\ (i + 1) - 1 = i /\ i + 1 \in 1 .. k /\ i <= k
    OBVIOUS
  <2>2. l[i + 1] = r[i + 1] /\ P[i] = Q[i]
    BY <2>1 DEF Same
  <2>3. PendStep(l, P, i + 1) = PendStep(r, Q, i + 1)
    BY <2>1, <2>2 DEF PendStep
  <2>4. QED
    BY <1>1, <2>1, <2>3
<1>4. \A i \in Nat : i \in S
  <2>1. \A i \in Nat : i \in S => i + 1 \in S
    BY <1>3
  <2> HIDE DEF S
  <2>2. QED
    BY <1>2, <2>1, NaturalsFromZero
<1>5. QED
  BY <1>4

(* What is left pending after an entry depends on the log up to that entry only *)
LEMMA PendingSame ==
  ASSUME NEW l, NEW r, NEW k \in Nat, Same(l, r, k)
  PROVE  PendingAt(l, k) = PendingAt(r, k)
<1> DEFINE P == CHOOSE P : IsPend(l, k, P)
           Q == CHOOSE Q : IsPend(r, k, Q)
<1>1. IsPend(l, k, P) /\ IsPend(r, k, Q)
  BY PendIsThere
<1>2. PendingAt(l, k) = P[k] /\ PendingAt(r, k) = Q[k]
  BY DEF PendingAt
<1> HIDE DEF P, Q
<1>3. QED
  BY <1>1, <1>2, PendAgrees

\* One message more.
LEMMA PendingNext ==
  ASSUME NEW l, NEW k \in Nat, k # 0
  PROVE  PendingAt(l, k) =
           AfterHandler(IF l[k].ty = LP_RETRACTABLE THEN SIMTIME_MAX ELSE PendingAt(l, k - 1), l[k].set)
<1> DEFINE P == CHOOSE P : IsPend(l, k, P)
           Q == CHOOSE Q : IsPend(l, k - 1, Q)
<1>1. k - 1 \in Nat /\ k \in 0 .. k /\ k - 1 <= k
  OBVIOUS
<1>2. IsPend(l, k, P) /\ IsPend(l, k - 1, Q)
  BY <1>1, PendIsThere
<1>3. PendingAt(l, k) = P[k] /\ PendingAt(l, k - 1) = Q[k - 1]
  BY DEF PendingAt
<1> HIDE DEF P, Q
<1>4. Same(l, l, k - 1)
  BY DEF Same
<1>5. P[k - 1] = Q[k - 1]
  BY <1>1, <1>2, <1>4, PendAgrees
<1>6. P[k] = PendStep(l, P, k)
  BY <1>1, <1>2 DEF IsPend
<1>7. QED
  BY <1>3, <1>5, <1>6 DEF PendStep

\* After all messages it is what RetractablesAgree speaks of.
LEMMA PendingAtEnd == \A l : Pending(l) = PendingAt(l, Len(l))
BY DEF Pending, PendingAt, IsPend, PendStep

LogEntries == [t : 0 .. MaxTime, ty : 0 .. 3, set : {Keep} \cup (1 .. SIMTIME_MAX), end : BOOLEAN]

\* What follows the first k messages: their retractable event, or something before it.
Follows(l, k, e) ==
  IF e.ty = LP_RETRACTABLE THEN PendingAt(l, k) = e.t ELSE e.t < PendingAt(l, k)

\* A log begins with LP_INIT at time 0, is in the order of times, and no handler has set
\* the retractable event to a time that is not later.
LogOk(l) ==
  /\ l \in Seq(LogEntries) /\ 1 \in 1 .. Len(l)
  /\ l[1].t = 0 /\ l[1].set # Keep
  /\ \A i \in 1 .. Len(l) : l[i].set = Keep \/ l[i].t < l[i].set
  /\ \A i \in 2 .. Len(l) : 1 <= l[i].t /\ l[i - 1].t <= l[i].t
  /\ \A i \in 2 .. Len(l) : Follows(l, i - 1, l[i])

\* Its elements.
LEMMA EntriesTell ==
  ASSUME NEW l, LogOk(l)
  PROVE  /\ Len(l) \in Nat
         /\ \A i \in 1 .. Len(l) : /\ l[i] \in LogEntries /\ l[i].t \in Nat /\ l[i].t <= MaxTime
                                   /\ l[i].set = Keep \/ (l[i].set \in Nat /\ l[i].set <= SIMTIME_MAX)
         /\ MaxTime \in Nat /\ SIMTIME_MAX \in Nat /\ MaxTime < SIMTIME_MAX
<1>1. MaxTime \in Nat /\ SIMTIME_MAX = MaxTime + 1
  BY BooksAssumption DEF SIMTIME_MAX
<1>2. l \in Seq(LogEntries)
  BY DEF LogOk
<1>3. \A i \in 1 .. Len(l) : l[i] \in LogEntries
  BY <1>2
<1>4. QED
  BY <1>1, <1>2, <1>3 DEF LogEntries

\* They are in the order of times,
LEMMA LogSorted ==
  ASSUME NEW l, LogOk(l), NEW j \in 1 .. Len(l)
  PROVE  \A i \in 1 .. j : l[i].t <= l[j].t
<1> DEFINE S == {m \in 1 .. Len(l) : \A i \in 1 .. m : l[i].t <= l[m].t}
<1>1. Len(l) \in Nat /\ \A i \in 1 .. Len(l) : l[i].t \in Nat
  BY EntriesTell
<1>2. ASSUME NEW m \in 1 .. Len(l), \A i \in 1 .. m - 1 : i \in S PROVE m \in S
  <2>1. ASSUME NEW i \in 1 .. m PROVE l[i].t <= l[m].t
    <3>1. CASE i = m
      BY <1>1, <3>1
    <3>2. CASE i # m
      <4>1. m - 1 \in 1 .. m - 1 /\ i \in 1 .. m - 1 /\ m \in 2 .. Len(l)
        BY <1>1, <3>2
      <4>2. l[i].t <= l[m - 1].t /\ m - 1 \in 1 .. Len(l)
        BY <1>2, <4>1
      <4>3. l[m - 1].t <= l[m].t
        BY <4>1 DEF LogOk
      <4>4. i \in 1 .. Len(l)
        BY <1>1
      <4>5. QED
        BY <1>1, <4>2, <4>3, <4>4
    <3>3. QED
      BY <3>1, <3>2
  <2>2. QED
    BY <2>1
<1>3. \A m \in 1 .. Len(l) : m \in S
  <2> HIDE DEF S
  <2> QED
    BY <1>1, <1>2, AllFromBefore
<1>4. QED
  BY <1>3

\* and the retractable event is always later than the last of them.
LEMMA PendingLater ==
  ASSUME NEW l, LogOk(l), NEW k \in 1 .. Len(l)
  PROVE  PendingAt(l, k) \in Nat /\ l[k].t < PendingAt(l, k) /\ PendingAt(l, k) <= SIMTIME_MAX
<1> DEFINE Later(m) == PendingAt(l, m) \in Nat /\ l[m].t < PendingAt(l, m) /\ PendingAt(l, m) <= SIMTIME_MAX
           S == {m \in 1 .. Len(l) : Later(m)}
<1>1. /\ Len(l) \in Nat /\ MaxTime \in Nat /\ SIMTIME_MAX \in Nat /\ MaxTime < SIMTIME_MAX
      /\ \A i \in 1 .. Len(l) : /\ l[i].t \in Nat /\ l[i].t <= MaxTime
                                /\ l[i].set = Keep \/ (l[i].set \in Nat /\ l[i].set <= SIMTIME_MAX)
  BY EntriesTell
<1>2. ASSUME NEW m \in 1 .. Len(l), \A i \in 1 .. m - 1 : i \in S PROVE m \in S
  <2>1. PendingAt(l, m) =
          AfterHandler(IF l[m].ty = LP_RETRACTABLE THEN SIMTIME_MAX ELSE PendingAt(l, m - 1), l[m].set)
    BY <1>1, PendingNext
  <2>2. CASE l[m].set # Keep
    <3>1. PendingAt(l, m) = l[m].set
      BY <2>1, <2>2 DEF AfterHandler
    <3>2. l[m].t < l[m].set
      BY <2>2 DEF LogOk
    <3>3. QED
      BY <1>1, <2>2, <3>1, <3>2
  <2>3. CASE l[m].set = Keep /\ l[m].ty = LP_RETRACTABLE
    <3>1. PendingAt(l, m) = SIMTIME_MAX
      BY <2>1, <2>3 DEF AfterHandler
    <3>2. QED
      BY <1>1, <3>1
  <2>4. CASE l[m].set = Keep /\ l[m].ty # LP_RETRACTABLE
    <3>1. PendingAt(l, m) = PendingAt(l, m - 1)
      BY <2>1, <2>4 DEF AfterHandler
    <3>2. m # 1
      BY <2>4 DEF LogOk
    <3>3. m \in 2 .. Len(l) /\ m - 1 \in 1 .. m - 1
      BY <1>1, <3>2
    <3>4. l[m].t < PendingAt(l, m - 1)
      BY <2>4, <3>3 DEF LogOk, Follows
    <3>5. Later(m - 1)
      BY <1>2, <3>3
    <3>6. QED
      BY <3>1, <3>4, <3>5
  <2>5. QED
    BY <2>2, <2>3, <2>4
<1>3. \A m \in 1 .. Len(l) : m \in S
  <2> HIDE DEF S
  <2> QED
    BY <1>1, <1>2, AllFromBefore
<1>4. QED
  BY <1>3

ReplayStep(ctx, l, i, C, j) == IF j = i THEN ctx ELSE AfterHandler(C[j - 1], l[j].set)
IsReplay(ctx, l, i, k, C) == C = [j \in i .. k |-> ReplayStep(ctx, l, i, C, j)]

\* What the handlers of the silent execution leave is defined.
LEMMA ReplayIsThere ==
  ASSUME NEW ctx, NEW l, NEW i \in Nat, NEW n \in Nat
  PROVE  \E C : IsReplay(ctx, l, i, i + n, C)
<1> DEFINE S == {k \in Nat : \E C : IsReplay(ctx, l, i, i + k, C)}
<1>1. 0 \in S
  <2> DEFINE C == [j \in i .. i + 0 |-> ctx]
  <2>1. \A j \in i .. i + 0 : j = i
    OBVIOUS
  <2>2. C = [j \in i .. i + 0 |-> ReplayStep(ctx, l, i, C, j)]
    BY <2>1 DEF ReplayStep
  <2>3. IsReplay(ctx, l, i, i + 0, C)
    BY <2>2 DEF IsReplay
  <2>4. QED
    BY <2>3
<1>2. ASSUME NEW k \in S PROVE k + 1 \in S
  <2> DEFINE a == i + k
             b == i + (k + 1)
  <2>1. PICK V : IsReplay(ctx, l, i, a, V)
    OBVIOUS
  <2>2. a \in Nat /\ b = a + 1 /\ i <= a
    OBVIOUS
  <2> HIDE DEF a, b
  <2> DEFINE C == [j \in i .. b |-> IF j = b THEN ReplayStep(ctx, l, i, V, j) ELSE V[j]]
  <2>3. \A j \in i .. a : C[j] = V[j] /\ V[j] = ReplayStep(ctx, l, i, V, j)
    <3>1. \A j \in i .. a : j \in i .. b /\ j # b
      BY <2>2
    <3>2. \A j \in i .. a : V[j] = ReplayStep(ctx, l, i, V, j)
      BY <2>1 DEF IsReplay
    <3>3. QED
      BY <3>1, <3>2
  <2>4. C[b] = ReplayStep(ctx, l, i, V, b)
    BY <2>2
  <2>5. C = [j \in DOMAIN C |-> C[j]] /\ DOMAIN C = i .. b
    OBVIOUS
  <2> HIDE DEF C
  <2>6. \A j \in i .. b : ReplayStep(ctx, l, i, C, j) = ReplayStep(ctx, l, i, V, j)
    <3>1. \A j \in i .. b : j # i => j - 1 \in i .. a
      BY <2>2
    <3>2. QED
      BY <2>3, <3>1 DEF ReplayStep
  <2>7. \A j \in i .. b : C[j] = ReplayStep(ctx, l, i, C, j)
    <3>1. \A j \in i .. b : j = b \/ j \in i .. a
      BY <2>2
    <3>2. QED
      BY <2>3, <2>4, <2>6, <3>1
  <2>8. IsReplay(ctx, l, i, b, C)
    BY <2>5, <2>7 DEF IsReplay
  <2>9. QED
    BY <2>8 DEF b
<1>3. \A k \in Nat : k \in S
  <2>1. \A k \in Nat : k \in S => k + 1 \in S
    BY <1>2
  <2> HIDE DEF S
  <2>2. QED
    BY <1>1, <2>1, NaturalsFromZero
<1>4. QED
  BY <1>3

\* From the state after i messages the silent execution of the following ones comes to what
\* was left after k: a retractable event among them was due before, and is taken away at the
\* end when no handler has set another.
LEMMA SilentTells ==
  ASSUME NEW l, LogOk(l), NEW k \in 1 .. Len(l), NEW i \in 1 .. k
  PROVE  SilentExecution(PendingAt(l, i), l, i, k) = PendingAt(l, k)
<1> DEFINE ctx == PendingAt(l, i)
           C == CHOOSE C : C = [j \in i .. k |-> ReplayStep(ctx, l, i, C, j)]
<1>1. /\ Len(l) \in Nat /\ MaxTime \in Nat /\ SIMTIME_MAX \in Nat /\ MaxTime < SIMTIME_MAX
      /\ \A j \in 1 .. Len(l) : /\ l[j].t \in Nat /\ l[j].t <= MaxTime
                                /\ l[j].set = Keep \/ (l[j].set \in Nat /\ l[j].set <= SIMTIME_MAX)
  BY EntriesTell
<1>2. i \in Nat /\ k \in Nat /\ i <= k /\ \A j \in i .. k : j \in 1 .. Len(l)
  BY <1>1
<1>3. Replayed(ctx, l, i, k) = C[k]
  BY DEF Replayed, ReplayStep
<1>4. \A j \in i .. k : C[j] = ReplayStep(ctx, l, i, C, j)
  <2>1. k - i \in Nat /\ i + (k - i) = k
    BY <1>2
  <2>2. \E D : IsReplay(ctx, l, i, i + (k - i), D)
    <3> HIDE DEF ctx
    <3> QED
      BY <1>2, <2>1, ReplayIsThere
  <2>3. C = [j \in i .. k |-> ReplayStep(ctx, l, i, C, j)]
    BY <2>1, <2>2 DEF IsReplay
  <2> HIDE DEF C
  <2>4. QED
    BY <2>3
<1> HIDE DEF C, ctx
<1> DEFINE Right(j) == \/ C[j] = PendingAt(l, j)
                       \/ j > i /\ C[j] \in Nat /\ C[j] <= l[j].t /\ PendingAt(l, j) = SIMTIME_MAX
           S == {j \in 1 .. k : j >= i => Right(j)}
<1>5. ASSUME NEW j \in 1 .. k, \A m \in 1 .. j - 1 : m \in S PROVE j \in S
  <2> SUFFICES ASSUME j >= i PROVE Right(j)
    OBVIOUS
  <2>1. j \in i .. k /\ j \in 1 .. Len(l) /\ j \in Nat
    BY <1>1, <1>2
  <2>2. CASE j = i
    <3>1. C[j] = ctx
      BY <1>4, <2>1, <2>2 DEF ReplayStep
    <3>2. QED
      BY <2>2, <3>1 DEF ctx
  <2>3. CASE j # i
    <3> DEFINE m == j - 1
    <3>1. m \in 1 .. j - 1 /\ m >= i /\ m \in 1 .. Len(l) /\ j \in 2 .. Len(l) /\ j > i /\ j # 0
      BY <1>1, <1>2, <2>1, <2>3
    <3>2. Right(m)
      BY <1>5, <3>1
    <3>3. C[j] = AfterHandler(C[m], l[j].set)
      BY <1>4, <2>1, <2>3 DEF ReplayStep
    <3>4. PendingAt(l, j) =
            AfterHandler(IF l[j].ty = LP_RETRACTABLE THEN SIMTIME_MAX ELSE PendingAt(l, m), l[j].set)
      BY <2>1, <3>1, PendingNext
    <3>5. l[m].t <= l[j].t /\ l[m].t \in Nat /\ l[j].t \in Nat /\ Follows(l, m, l[j])
      BY <1>1, <2>1, <3>1 DEF LogOk
    <3> HIDE DEF m
    <3>6. CASE l[j].set # Keep
      BY <3>3, <3>4, <3>6 DEF AfterHandler
    <3>7. CASE l[j].set = Keep /\ l[j].ty = LP_RETRACTABLE
      <4>1. C[j] = C[m] /\ PendingAt(l, j) = SIMTIME_MAX /\ PendingAt(l, m) = l[j].t
        BY <3>3, <3>4, <3>5, <3>7 DEF AfterHandler, Follows
      <4>2. C[m] \in Nat /\ C[m] <= l[j].t
        BY <3>2, <3>5, <4>1
      <4>3. QED
        BY <3>1, <4>1, <4>2
    <3>8. CASE l[j].set = Keep /\ l[j].ty # LP_RETRACTABLE
      <4>1. C[j] = C[m] /\ PendingAt(l, j) = PendingAt(l, m)
        BY <3>3, <3>4, <3>8 DEF AfterHandler
      <4>2. QED
        BY <3>1, <3>2, <3>5, <4>1
    <3>9. QED
      BY <3>6, <3>7, <3>8
  <2>4. QED
    BY <2>2, <2>3
<1>6. Right(k)
  <2>1. \A j \in 1 .. k : j \in S
    <3> HIDE DEF S
    <3> QED
      BY <1>2, <1>5, AllFromBefore
  <2>2. k \in 1 .. k /\ k >= i
    BY <1>2
  <2>3. QED
    BY <2>1, <2>2
<1>7. PendingAt(l, k) \in Nat /\ l[k].t < PendingAt(l, k) /\ l[k].t \in Nat
  BY <1>1, PendingLater
<1>8. SilentExecution(ctx, l, i, k) = IF i < k /\ C[k] <= l[k].t THEN SIMTIME_MAX ELSE C[k]
  BY <1>3 DEF SilentExecution
<1>9. CASE C[k] = PendingAt(l, k)
  BY <1>7, <1>8, <1>9 DEF ctx
<1>10. CASE k > i /\ C[k] \in Nat /\ C[k] <= l[k].t /\ PendingAt(l, k) = SIMTIME_MAX
  BY <1>2, <1>8, <1>10 DEF ctx
<1>11. QED
  BY <1>6, <1>9, <1>10

\* The first k messages of a log are a log.
LEMMA LogCut ==
  ASSUME NEW l, LogOk(l), NEW k \in 1 .. Len(l)
  PROVE  LogOk(SubSeq(l, 1, k)) /\ Len(SubSeq(l, 1, k)) = k /\ Same(SubSeq(l, 1, k), l, k)
<1> DEFINE s == SubSeq(l, 1, k)
<1>1. l \in Seq(LogEntries) /\ Len(l) \in Nat /\ k \in Nat /\ 1 <= k /\ k <= Len(l)
  BY EntriesTell DEF LogOk
<1>2. s \in Seq(LogEntries) /\ Len(s) = k /\ \A j \in 1 .. k : s[j] = l[j]
  BY <1>1
<1> HIDE DEF s
<1>3. Same(s, l, k) /\ \A i \in 2 .. k : i - 1 \in Nat /\ Same(s, l, i - 1)
  BY <1>1, <1>2 DEF Same
<1>4. \A i \in 2 .. k : /\ i \in 2 .. Len(l) /\ i \in 1 .. k /\ i - 1 \in 1 .. k
                        /\ PendingAt(s, i - 1) = PendingAt(l, i - 1)
  <2>1. \A i \in 2 .. k : i \in 2 .. Len(l) /\ i \in 1 .. k /\ i - 1 \in 1 .. k
    BY <1>1
  <2>2. QED
    BY <1>3, <2>1, PendingSame
<1>5. 1 \in 1 .. k /\ \A i \in 1 .. k : i \in 1 .. Len(l)
  BY <1>1
<1>6. s[1].t = 0 /\ s[1].set # Keep /\ \A i \in 1 .. k : s[i].set = Keep \/ s[i].t < s[i].set
  BY <1>2, <1>5 DEF LogOk
<1>7. \A i \in 2 .. k : 1 <= s[i].t /\ s[i - 1].t <= s[i].t /\ Follows(s, i - 1, s[i])
  <2>1. ASSUME NEW i \in 2 .. k PROVE 1 <= s[i].t /\ s[i - 1].t <= s[i].t /\ Follows(s, i - 1, s[i])
    <3>1. s[i] = l[i] /\ s[i - 1] = l[i - 1] /\ i \in 2 .. Len(l)
      BY <1>2, <1>4
    <3>2. 1 <= l[i].t /\ l[i - 1].t <= l[i].t /\ Follows(l, i - 1, l[i])
      BY <3>1 DEF LogOk
    <3>3. QED
      BY <1>4, <3>1, <3>2 DEF Follows
  <2>2. QED
    BY <2>1
<1>8. LogOk(s)
  BY <1>2, <1>5, <1>6, <1>7 DEF LogOk
<1>9. QED
  BY <1>2, <1>3, <1>8 DEF s

\* What may come after a log.
MayFollow(l, e) ==
  /\ e \in LogEntries /\ 1 <= e.t /\ l[Len(l)].t <= e.t
  /\ e.set = Keep \/ e.t < e.set
  /\ Follows(l, Len(l), e)

(* A message that may follow is appended to the log (process_msg, process.c:401-405) *)
LEMMA LogGrows ==
  ASSUME NEW l, LogOk(l), NEW e, MayFollow(l, e)
  PROVE  /\ LogOk(Append(l, e)) /\ Len(Append(l, e)) = Len(l) + 1
         /\ Append(l, e)[Len(l) + 1] = e /\ Same(Append(l, e), l, Len(l))
<1> DEFINE s == Append(l, e)
           n == Len(l)
<1>1. l \in Seq(LogEntries) /\ n \in Nat /\ e \in LogEntries /\ 1 \in 1 .. n
  BY EntriesTell DEF LogOk, MayFollow
<1>2. s \in Seq(LogEntries) /\ Len(s) = n + 1 /\ s[n + 1] = e /\ \A j \in 1 .. n : s[j] = l[j]
  BY <1>1
<1>3. l[n].t <= e.t /\ 1 <= e.t /\ Follows(l, n, e) /\ (e.set = Keep \/ e.t < e.set)
  BY DEF MayFollow
<1> HIDE DEF s, n
<1>4. Same(s, l, n) /\ \A i \in 2 .. n + 1 : i - 1 \in Nat /\ Same(s, l, i - 1)
  BY <1>1, <1>2 DEF Same
<1>5. \A i \in 2 .. n + 1 : PendingAt(s, i - 1) = PendingAt(l, i - 1)
  BY <1>4, PendingSame
<1>6. 1 \in 1 .. n + 1 /\ \A i \in 1 .. n + 1 : i = n + 1 \/ i \in 1 .. n
  BY <1>1
<1>7. s[1].t = 0 /\ s[1].set # Keep
  BY <1>1, <1>2 DEF LogOk
<1>8. \A i \in 1 .. n + 1 : s[i].set = Keep \/ s[i].t < s[i].set
  BY <1>2, <1>3, <1>6 DEF LogOk, n
<1>9. \A i \in 2 .. n + 1 : 1 <= s[i].t /\ s[i - 1].t <= s[i].t /\ Follows(s, i - 1, s[i])
  <2>1. ASSUME NEW i \in 2 .. n + 1
        PROVE  1 <= s[i].t /\ s[i - 1].t <= s[i].t /\ Follows(s, i - 1, s[i])
    <3>1. i - 1 \in 1 .. n /\ s[i - 1] = l[i - 1] /\ PendingAt(s, i - 1) = PendingAt(l, i - 1)
      BY <1>1, <1>2, <1>5
    <3>2. CASE i = n + 1
      <4>1. i - 1 = n /\ s[i] = e
        BY <1>1, <1>2, <3>2
      <4>2. QED
        BY <1>3, <3>1, <4>1 DEF Follows
    <3>3. CASE i # n + 1
      <4>1. i \in 2 .. n /\ i \in 1 .. n
        BY <1>1, <3>3
      <4>2. 1 <= l[i].t /\ l[i - 1].t <= l[i].t /\ Follows(l, i - 1, l[i])
        BY <4>1 DEF LogOk, n
      <4>3. s[i] = l[i]
        BY <1>2, <4>1
      <4>4. QED
        BY <3>1, <4>2, <4>3 DEF Follows
    <3>4. QED
      BY <3>2, <3>3
  <2>2. QED
    BY <2>1
<1>10. LogOk(s)
  BY <1>2, <1>6, <1>7, <1>8, <1>9 DEF LogOk
<1>11. QED
  BY <1>2, <1>4, <1>10 DEF s, n

-----------------------------------------------------------------------------
(***************************************************************************)
(* The invariant of BooksSpec.                                             *)
(***************************************************************************)
\* How many LPs go on.
Running(T) == Cardinality({lp \in LPs : T[lp] = 0})

\* It changes with the one that does.
LEMMA RunningTells ==
  ASSUME NEW T \in [LPs -> Nat], NEW lp \in LPs, NEW v \in Nat
  PROVE  /\ Running(T) \in Nat
         /\ Running([T EXCEPT ![lp] = v]) =
              Running(T) + (IF v = 0 THEN 1 ELSE 0) - (IF T[lp] = 0 THEN 1 ELSE 0)
<1> DEFINE U == [T EXCEPT ![lp] = v]
           A == {x \in LPs : T[x] = 0}
           B == {x \in LPs : U[x] = 0}
           R == {x \in LPs : T[x] = 0 /\ x # lp}
<1>1. IsFiniteSet(LPs)
  <2>1. NLps \in Nat /\ LPs = 1 .. NLps
    BY BooksAssumption DEF NLps
  <2>2. QED
    BY <2>1, FS_Interval
<1>2. IsFiniteSet(R) /\ IsFiniteSet(A)
  <2>1. R \subseteq LPs /\ A \subseteq LPs
    OBVIOUS
  <2> HIDE DEF R, A
  <2>2. QED
    BY <1>1, <2>1, FS_Subset
<1>3. lp \notin R
  OBVIOUS
<1>4. Cardinality(R) \in Nat /\ Cardinality(A) \in Nat /\ Cardinality(R \cup {lp}) = Cardinality(R) + 1
  <2> HIDE DEF R, A
  <2>1. QED
    BY <1>2, <1>3, FS_CardinalityType, FS_AddElement
<1>5. A = IF T[lp] = 0 THEN R \cup {lp} ELSE R
  OBVIOUS
<1>6. U[lp] = v /\ \A x \in LPs : x # lp => U[x] = T[x]
  OBVIOUS
<1>7. B = IF v = 0 THEN R \cup {lp} ELSE R
  <2> HIDE DEF U
  <2> QED
    BY <1>6
<1> HIDE DEF A, B, R
<1>8. Running(T) = Cardinality(A) /\ Running(U) = Cardinality(B)
  BY DEF Running, A, B
<1> HIDE DEF U
<1>9. Running(U) = Running(T) + (IF v = 0 THEN 1 ELSE 0) - (IF T[lp] = 0 THEN 1 ELSE 0)
  BY <1>4, <1>5, <1>7, <1>8
<1>10. QED
  BY <1>4, <1>8, <1>9 DEF U

\* A checkpoint of the state after each of these numbers of messages.
CkptsOk(l, c) ==
  /\ DOMAIN c \subseteq 1 .. Len(l) /\ 1 \in DOMAIN c
  /\ \A i \in DOMAIN c : c[i] = PendingAt(l, i)

\* An LP that has ended has done so with one of the first k messages.
EndAt(l, k, t) ==
  t = 0 \/ \E i \in 1 .. k : l[i].end /\ t = (IF i = 1 THEN SIMTIME_MAX ELSE l[i].t)

LogsInv ==
  /\ log = [lp \in LPs |-> log[lp]] /\ ckpts = [lp \in LPs |-> ckpts[lp]]
  /\ \A lp \in LPs : LogOk(log[lp])
  /\ \A lp \in LPs : CkptsOk(log[lp], ckpts[lp])

HeapInv ==
  /\ retractable_ctx \in [LPs -> Nat]
  /\ \A lp \in LPs : retractable_ctx[lp] = PendingAt(log[lp], Len(log[lp]))
  /\ Agrees(Heap, NLps, retractable_ctx)

EndsInv ==
  /\ termination_t \in [LPs -> Nat] /\ lps_to_end = Running(termination_t)
  /\ \A lp \in LPs : EndAt(log[lp], Len(log[lp]), termination_t[lp])

\* An LP that ended at its own time did so not after max_t, and a thread has voted only
\* when these times were all before the GVT, or the time to end had come.
VoteInv ==
  /\ max_t \in Nat /\ gvt \in Nat
  /\ \A lp \in LPs : termination_t[lp] = SIMTIME_MAX \/ termination_t[lp] <= max_t
  /\ voted /\ gvt < TermTime =>
       \A lp \in LPs : /\ termination_t[lp] # 0
                       /\ termination_t[lp] = SIMTIME_MAX \/ termination_t[lp] < gvt

BooksInv == LogsInv /\ HeapInv /\ EndsInv /\ VoteInv

\* The numbers the model is about.
LEMMA Bounds ==
  /\ NLps \in Nat /\ NLps # 0 /\ LPs = 1 .. NLps /\ 1 .. NLps \subseteq LPs
  /\ MaxTime \in Nat /\ SIMTIME_MAX \in Nat /\ SIMTIME_MAX = MaxTime + 1 /\ TermTime \in Nat
BY BooksAssumption DEF NLps, SIMTIME_MAX

\* What a handler sets is later than its message.
LEMMA SetLater ==
  ASSUME NEW t \in 0 .. MaxTime, NEW s \in MaySet(t)
  PROVE  s = Keep \/ (s \in 1 .. SIMTIME_MAX /\ t < s)
<1>1. MaxTime \in Nat /\ SIMTIME_MAX \in Nat /\ SIMTIME_MAX = MaxTime + 1
  BY Bounds
<1>2. ASSUME NEW d \in Delays, s = Min({t + d, SIMTIME_MAX}) PROVE s \in 1 .. SIMTIME_MAX /\ t < s
  <2>1. d \in Nat /\ d # 0
    BY BooksAssumption
  <2>2. {t + d, SIMTIME_MAX} \in SUBSET Nat
    BY <1>1, <2>1
  <2>3. s \in {t + d, SIMTIME_MAX} /\ \A y \in {t + d, SIMTIME_MAX} : s <= y
    BY <1>2, <2>2, MinIsLeast
  <2>4. QED
    BY <1>1, <2>1, <2>3
<1>3. QED
  BY <1>2 DEF MaySet

\* A checkpoint and the silent execution from it restore what was left of the event.
LEMMA RestoredTells ==
  ASSUME LogsInv, NEW lp \in LPs, NEW k \in 1 .. Len(log[lp])
  PROVE  RestoredCtx(lp, k) = PendingAt(log[lp], k)
<1> DEFINE l == log[lp]
           c == ckpts[lp]
           S == {i \in DOMAIN c : i <= k}
<1>1. LogOk(l) /\ CkptsOk(l, c)
  BY DEF LogsInv
<1>2. Len(l) \in Nat /\ k \in 1 .. Len(l) /\ k \in Nat
  BY <1>1, EntriesTell
<1> HIDE DEF l, c
<1>3. S \in SUBSET Nat /\ S # {} /\ \A x \in S : x <= k
  BY <1>1, <1>2 DEF CkptsOk
<1>4. Max(S) \in S
  <2> HIDE DEF S
  <2> QED
    BY <1>2, <1>3, MaxIsGreatest
<1> DEFINE i == Max(S)
<1>5. CkptFor(lp, k) = i
  BY DEF CkptFor, c
<1>6. i \in 1 .. k /\ c[i] = PendingAt(l, i)
  BY <1>1, <1>2, <1>4 DEF CkptsOk
<1>7. RestoredCtx(lp, k) = SilentExecution(c[i], l, i, k)
  BY <1>5 DEF RestoredCtx, c, l
<1> HIDE DEF i
<1>8. SilentExecution(PendingAt(l, i), l, i, k) = PendingAt(l, k)
  BY <1>1, <1>2, <1>6, SilentTells
<1>9. QED
  BY <1>6, <1>7, <1>8 DEF l

\* A straggler leaves the messages that are not after it, or LP_INIT.
LEMMA StragglerTells ==
  ASSUME LogsInv, NEW lp \in LPs, NEW m, m.t \in Nat, 1 <= m.t, IsStraggler(lp, m)
  PROVE  LET l == log[lp]
             k == MatchStraggler(lp, m)
         IN  /\ k \in 1 .. Len(l) /\ k + 1 \in 2 .. Len(l)
             /\ k = 1 \/ ~ Before(m, l[k])
             /\ Before(m, l[k + 1])
             /\ \A i \in 1 .. Len(l) : ~ Before(m, l[i]) => i <= k
<1> DEFINE l == log[lp]
           n == Len(l)
           S == {1} \cup {i \in DOMAIN l : i < n /\ ~ Before(m, l[i])}
           k == Max(S)
<1>1. LogOk(l)
  BY DEF LogsInv
<1>2. n \in Nat /\ 1 \in 1 .. n /\ DOMAIN l = 1 .. n /\ l[1].t = 0 /\ \A i \in 1 .. n : l[i].t \in Nat
  <2>1. l \in Seq(LogEntries) /\ 1 \in 1 .. n /\ l[1].t = 0
    BY <1>1 DEF LogOk
  <2>2. n \in Nat /\ \A i \in 1 .. n : l[i].t \in Nat
    BY <1>1, EntriesTell
  <2> HIDE DEF l
  <2>3. QED
    BY <2>1, <2>2
<1>3. MatchStraggler(lp, m) = k
  BY DEF MatchStraggler
<1>4. Before(m, l[n])
  BY DEF IsStraggler, Last
<1> HIDE DEF l, n
<1>5. n # 1 /\ n >= 2
  BY <1>2, <1>4 DEF Before
<1>6. S \in SUBSET Nat /\ S # {} /\ \A x \in S : x <= n
  BY <1>2
<1>7. k \in S /\ \A y \in S : y <= k
  <2> HIDE DEF S
  <2> QED
    BY <1>2, <1>6, MaxIsGreatest
<1> HIDE DEF k
<1>8. k \in 1 .. n /\ k < n /\ (k = 1 \/ ~ Before(m, l[k]))
  BY <1>2, <1>5, <1>7
<1>9. k + 1 \in 2 .. n /\ k + 1 \in 1 .. n
  BY <1>2, <1>8
<1>10. Before(m, l[k + 1])
  <2>1. CASE k + 1 = n
    BY <1>4, <2>1
  <2>2. CASE k + 1 # n
    <3>1. k + 1 \notin S
      BY <1>7, <1>8
    <3>2. k + 1 < n
      BY <1>2, <1>9, <2>2
    <3>3. QED
      BY <1>2, <1>9, <3>1, <3>2
  <2>3. QED
    BY <2>1, <2>2
<1>11. ASSUME NEW i \in 1 .. n, ~ Before(m, l[i]) PROVE i <= k
  <2>1. i # n
    BY <1>4, <1>11
  <2>2. i \in S
    BY <1>2, <1>11, <2>1
  <2>3. QED
    BY <1>7, <2>2
<1>12. QED
  BY <1>3, <1>8, <1>9, <1>10, <1>11 DEF n, l, k

\* The first entry of the heap is of the earliest retractable event.
LEMMA FirstTells ==
  ASSUME HeapInv
  PROVE  /\ r_queue[1].lp \in LPs /\ r_queue[1].t = retractable_ctx[r_queue[1].lp]
         /\ \A x \in LPs : r_queue[1].t <= retractable_ctx[x]
<1>1. NLps \in Nat /\ NLps # 0 /\ LPs = 1 .. NLps /\ 1 .. NLps \subseteq LPs
  BY Bounds
<1>2. retractable_ctx \in [1 .. NLps -> Nat] /\ Agrees(Heap, NLps, retractable_ctx)
  BY <1>1 DEF HeapInv
<1>3. Heap.q = r_queue
  BY DEF Heap
<1> HIDE DEF Heap
<1>4. /\ Heap.q[1].lp \in 1 .. NLps /\ Heap.q[1].t = retractable_ctx[Heap.q[1].lp]
      /\ \A x \in 1 .. NLps : Heap.q[1].t <= retractable_ctx[x]
  BY <1>1, <1>2, FirstOfHeap
<1>5. QED
  BY <1>1, <1>3, <1>4

\* What msg_queue_extract gives process_msg: the first retractable event, or a message before it.
Taken(lp, m, ctx) ==
  \/ /\ m.ty = LP_RETRACTABLE /\ lp = r_queue[1].lp /\ m.t = r_queue[1].t
     /\ m.t # SIMTIME_MAX /\ ctx = SIMTIME_MAX
  \/ /\ m.ty \in 0 .. 1 /\ m.t \in Times /\ m.t >= gvt /\ m.t < r_queue[1].t
     /\ ctx = retractable_ctx[lp]

\* It takes its place after the first k messages, where x is left of the retractable event.
Placing(lp, m, k, x, late) ==
  /\ m.t \in 1 .. MaxTime /\ m.ty \in 0 .. 2
  /\ k \in 1 .. Len(log[lp]) /\ log[lp][k].t <= m.t /\ Follows(log[lp], k, m)
  /\ x = (IF m.ty = LP_RETRACTABLE THEN SIMTIME_MAX ELSE PendingAt(log[lp], k))
  /\ late => gvt <= m.t /\ \A i \in 1 .. Len(log[lp]) : log[lp][i].t < m.t => i <= k
  /\ ~ late => k = Len(log[lp])

\* The retractable event is never a straggler: it is after what its LP has processed.
LEMMA TakenTells ==
  ASSUME BooksInv, NEW lp \in LPs, NEW m, NEW ctx, Taken(lp, m, ctx), NEW late \in BOOLEAN,
         late <=> IsStraggler(lp, m),
         NEW k, k = (IF late THEN MatchStraggler(lp, m) ELSE Len(log[lp])),
         NEW x, x = (IF late THEN RestoredCtx(lp, k) ELSE ctx)
  PROVE  Placing(lp, m, k, x, late)
<1> DEFINE l == log[lp]
           n == Len(l)
<1>1. LogsInv /\ HeapInv /\ LogOk(l) /\ gvt \in Nat
  BY DEF BooksInv, LogsInv, VoteInv
<1>2. n \in Nat /\ n \in 1 .. n /\ 1 \in 1 .. n
  BY <1>1, EntriesTell DEF LogOk
<1>3. /\ MaxTime \in Nat /\ SIMTIME_MAX = MaxTime + 1
      /\ \A i \in 1 .. n : l[i].t \in Nat /\ l[i].t <= MaxTime
  BY <1>1, EntriesTell, Bounds
<1>4. \A i \in 1 .. n : PendingAt(l, i) \in Nat /\ l[i].t < PendingAt(l, i) /\ PendingAt(l, i) <= SIMTIME_MAX
  BY <1>1, PendingLater
<1>5. retractable_ctx[lp] = PendingAt(l, n)
  BY <1>1 DEF HeapInv
<1>6. /\ r_queue[1].lp = lp => r_queue[1].t = retractable_ctx[lp]
      /\ r_queue[1].t <= retractable_ctx[lp]
  BY <1>1, FirstTells
<1>7. r_queue[1].t \in Nat
  BY <1>1, FirstTells DEF HeapInv
<1>8. IsStraggler(lp, m) <=> Before(m, l[n])
  BY DEF IsStraggler, Last
<1> HIDE DEF l, n
<1>9. CASE m.ty = LP_RETRACTABLE /\ lp = r_queue[1].lp /\ m.t = r_queue[1].t
           /\ m.t # SIMTIME_MAX /\ ctx = SIMTIME_MAX
  <2>1. m.t = PendingAt(l, n) /\ l[n].t < m.t /\ m.t \in Nat /\ l[n].t \in Nat /\ m.t <= SIMTIME_MAX
    BY <1>2, <1>3, <1>4, <1>5, <1>6, <1>7, <1>9
  <2>2. ~ late
    BY <1>8, <2>1 DEF Before
  <2>3. k = n /\ x = SIMTIME_MAX
    BY <1>9, <2>2 DEF n, l
  <2>4. m.t \in 1 .. MaxTime /\ m.ty \in 0 .. 2
    BY <1>3, <1>9, <2>1 DEF LP_RETRACTABLE
  <2>5. Follows(l, n, m) /\ l[n].t <= m.t
    BY <1>9, <2>1 DEF Follows
  <2>6. QED
    BY <1>2, <1>9, <2>2, <2>3, <2>4, <2>5 DEF Placing, n, l
<1>10. CASE m.ty \in 0 .. 1 /\ m.t \in Times /\ m.t >= gvt /\ m.t < r_queue[1].t
            /\ ctx = retractable_ctx[lp]
  <2>1. m.t \in 1 .. MaxTime /\ m.t \in Nat /\ 1 <= m.t /\ m.ty \in 0 .. 2 /\ m.ty # LP_RETRACTABLE /\ gvt <= m.t
    BY <1>1, <1>10 DEF Times, LP_RETRACTABLE
  <2>2. CASE late
    <3>1. /\ k \in 1 .. n /\ k + 1 \in 2 .. n /\ (k = 1 \/ ~ Before(m, l[k])) /\ Before(m, l[k + 1])
          /\ \A i \in 1 .. n : ~ Before(m, l[i]) => i <= k
      BY <1>1, <2>1, <2>2, StragglerTells DEF l, n
    <3>2. k \in Nat /\ k + 1 \in 1 .. n /\ (k + 1) - 1 = k
      BY <1>2, <3>1
    <3>3. l[k].t <= m.t
      <4>1. CASE k = 1
        <5>1. l[1].t = 0
          BY <1>1 DEF LogOk
        <5>2. l[k].t = 0
          BY <4>1, <5>1
        <5>3. QED
          BY <2>1, <5>2
      <4>2. CASE ~ Before(m, l[k])
        BY <1>3, <2>1, <3>1, <4>2 DEF Before
      <4>3. QED
        BY <3>1, <4>1, <4>2
    <3>4. m.t < PendingAt(l, k)
      <4>1. Follows(l, k, l[k + 1])
        BY <1>1, <3>1, <3>2 DEF LogOk, n
      <4>2. l[k + 1].t \in Nat /\ PendingAt(l, k) \in Nat
        BY <1>3, <1>4, <3>1, <3>2
      <4>3. CASE l[k + 1].ty = LP_RETRACTABLE
        <5>1. m.t < l[k + 1].t
          BY <1>10, <3>1, <4>3 DEF Before, LP_RETRACTABLE
        <5>2. QED
          BY <4>1, <4>3, <5>1 DEF Follows
      <4>4. CASE l[k + 1].ty # LP_RETRACTABLE
        <5>1. m.t <= l[k + 1].t
          BY <2>1, <3>1, <4>2 DEF Before
        <5>2. l[k + 1].t < PendingAt(l, k)
          BY <4>1, <4>4 DEF Follows
        <5>3. QED
          BY <2>1, <4>2, <5>1, <5>2
      <4>5. QED
        BY <4>3, <4>4
    <3>5. Follows(l, k, m)
      BY <2>1, <3>4 DEF Follows
    <3>6. x = PendingAt(l, k)
      BY <1>1, <2>2, <3>1, RestoredTells DEF l, n
    <3>7. \A i \in 1 .. n : l[i].t < m.t => i <= k
      BY <1>3, <2>1, <3>1 DEF Before
    <3>8. QED
      BY <2>1, <2>2, <3>1, <3>3, <3>5, <3>6, <3>7 DEF Placing, l, n
  <2>3. CASE ~ late
    <3>1. k = n /\ x = PendingAt(l, n)
      BY <1>5, <1>10, <2>3 DEF l, n
    <3>2. l[n].t <= m.t
      BY <1>2, <1>3, <1>8, <2>1, <2>3 DEF Before
    <3>3. m.t < PendingAt(l, n)
      BY <1>2, <1>4, <1>5, <1>6, <1>7, <1>10, <2>1
    <3>4. Follows(l, n, m)
      BY <2>1, <3>3 DEF Follows
    <3>5. QED
      BY <1>2, <2>1, <2>3, <3>1, <3>2, <3>4 DEF Placing, l, n
  <2>4. QED
    BY <2>2, <2>3
<1>11. QED
  BY <1>9, <1>10 DEF Taken

\* An LP has another log, other checkpoints of it, and what it has left.
LEMMA LogsStep ==
  ASSUME LogsInv, HeapInv, NEW lp \in LPs, NEW l, LogOk(l), NEW c, CkptsOk(l, c),
         NEW x, x = PendingAt(l, Len(l)),
         log' = [log EXCEPT ![lp] = l], ckpts' = [ckpts EXCEPT ![lp] = c],
         retractable_ctx' = [retractable_ctx EXCEPT ![lp] = x],
         HeapBecomes(Reschedule(Heap, lp, x))
  PROVE  LogsInv' /\ HeapInv'
<1>1. /\ log = [y \in LPs |-> log[y]] /\ ckpts = [y \in LPs |-> ckpts[y]]
      /\ \A y \in LPs : LogOk(log[y]) /\ CkptsOk(log[y], ckpts[y])
  BY DEF LogsInv
<1>2. log'[lp] = l /\ ckpts'[lp] = c /\ \A y \in LPs : y # lp => log'[y] = log[y] /\ ckpts'[y] = ckpts[y]
  BY <1>1
<1>3. log' = [y \in LPs |-> log'[y]] /\ ckpts' = [y \in LPs |-> ckpts'[y]]
  BY <1>1
<1>4. LogsInv'
  BY <1>1, <1>2, <1>3 DEF LogsInv
<1>5. /\ retractable_ctx \in [LPs -> Nat] /\ Agrees(Heap, NLps, retractable_ctx)
      /\ \A y \in LPs : retractable_ctx[y] = PendingAt(log[y], Len(log[y]))
  BY DEF HeapInv
<1>6. x \in Nat
  <2>1. Len(l) \in 1 .. Len(l)
    BY EntriesTell DEF LogOk
  <2>2. QED
    BY <2>1, PendingLater
<1>7. retractable_ctx' \in [LPs -> Nat]
  BY <1>5, <1>6
<1>8. \A y \in LPs : retractable_ctx'[y] = PendingAt(log'[y], Len(log'[y]))
  <2>1. retractable_ctx'[lp] = x /\ \A y \in LPs : y # lp => retractable_ctx'[y] = retractable_ctx[y]
    BY <1>5
  <2>2. QED
    BY <1>2, <1>5, <2>1
<1>9. Agrees(Heap', NLps, retractable_ctx')
  <2> DEFINE A == Reschedule(Heap, lp, x)
             f == retractable_ctx
  <2>1. NLps \in Nat /\ LPs = 1 .. NLps /\ 1 .. NLps \subseteq LPs
    BY Bounds
  <2>2. f \in [1 .. NLps -> Nat] /\ lp \in 1 .. NLps
    BY <1>5, <2>1
  <2>3. r_queue' = A.q /\ retractable_pos' = A.pos
    BY DEF HeapBecomes
  <2> HIDE DEF A
  <2>4. Agrees(A, NLps, [f EXCEPT ![lp] = x])
    BY <1>5, <1>6, <2>1, <2>2, RescheduleTells DEF A
  <2>5. A = [q |-> A.q, pos |-> A.pos]
    BY <2>4 DEF Agrees, Heaps
  <2>6. Heap' = A
    BY <2>3, <2>5 DEF Heap
  <2>7. QED
    BY <2>4, <2>6
<1>10. HeapInv'
  BY <1>7, <1>8, <1>9 DEF HeapInv, NLps
<1>11. QED
  BY <1>4, <1>10

\* e is what an LP comes to whose termination_t was t when n LPs went on.
Fair(t, n, e) ==
  /\ e.t \in Nat
  /\ e.n = n + (IF e.t = 0 THEN 1 ELSE 0) - (IF t = 0 THEN 1 ELSE 0)

(* The count of LPs that have not ended follows the end of the one LP that changes *)
LEMMA EndsStep ==
  ASSUME EndsInv, LogsInv, NEW lp \in LPs, NEW l, log' = [log EXCEPT ![lp] = l],
         NEW e, Fair(termination_t[lp], lps_to_end, e), EndAt(l, Len(l), e.t), EndsBecome(lp, e)
  PROVE  EndsInv'
<1>1. /\ termination_t \in [LPs -> Nat] /\ lps_to_end = Running(termination_t)
      /\ \A y \in LPs : EndAt(log[y], Len(log[y]), termination_t[y])
      /\ log = [y \in LPs |-> log[y]]
  BY DEF EndsInv, LogsInv
<1>2. termination_t' = [termination_t EXCEPT ![lp] = e.t] /\ lps_to_end' = e.n /\ e.t \in Nat
  BY DEF EndsBecome, Fair
<1>3. lps_to_end' = Running(termination_t')
  <2> DEFINE T == termination_t
             v == e.t
  <2>1. Running([T EXCEPT ![lp] = v]) = Running(T) + (IF v = 0 THEN 1 ELSE 0) - (IF T[lp] = 0 THEN 1 ELSE 0)
    <3> HIDE DEF T, v
    <3>1. T \in [LPs -> Nat] /\ v \in Nat
      BY <1>1, <1>2 DEF T, v
    <3>2. QED
      BY <3>1, RunningTells
  <2>2. QED
    BY <1>1, <1>2, <2>1 DEF Fair
<1>4. log'[lp] = l /\ termination_t'[lp] = e.t
      /\ \A y \in LPs : y # lp => log'[y] = log[y] /\ termination_t'[y] = termination_t[y]
  BY <1>1, <1>2
<1>5. QED
  BY <1>1, <1>2, <1>3, <1>4 DEF EndsInv

\* termination_on_lp_rollback takes an end back, unless it is before t or with LP_INIT;
LEMMA RollbackTells ==
  ASSUME NEW e, e.t \in Nat, e.n \in Nat, NEW t \in Nat, 1 <= t
  PROVE  /\ Fair(e.t, e.n, OnLpRollback(e, t)) /\ OnLpRollback(e, t).n \in Int
         /\ OnLpRollback(e, t).t = (IF e.t < t \/ e.t = SIMTIME_MAX THEN e.t ELSE 0)
<1> DEFINE r == OnLpRollback(e, t)
           keep == e.t < t \/ e.t = SIMTIME_MAX
<1>1. r.t = (IF keep THEN e.t ELSE 0) /\ r.n = (IF keep THEN e.n ELSE e.n + 1)
  BY DEF OnLpRollback
<1> HIDE DEF r
<1>2. QED
  BY <1>1 DEF Fair, r

\* and termination_on_msg_process ends an LP that goes on.
LEMMA MsgProcessTells ==
  ASSUME NEW e, e.t \in Nat, e.n \in Int, NEW t \in Nat, 1 <= t, NEW c \in BOOLEAN
  PROVE  /\ Fair(e.t, e.n, OnMsgProcess(e, t, c))
         /\ OnMsgProcess(e, t, c).t = (IF e.t = 0 /\ c THEN t ELSE e.t)
<1> DEFINE r == OnMsgProcess(e, t, c)
<1>1. CASE e.t = 0 /\ c
  <2>1. r = [t |-> t, n |-> e.n - 1]
    BY <1>1 DEF OnMsgProcess
  <2> HIDE DEF r
  <2>2. r.t = t /\ r.n = e.n - 1
    BY <2>1
  <2>3. r.t = (IF e.t = 0 /\ c THEN t ELSE e.t)
    BY <1>1, <2>2
  <2>4. r.t \in Nat /\ r.t # 0 /\ e.t = 0 /\ e.n - 1 = e.n + 0 - 1
    BY <1>1, <2>2
  <2>5. Fair(e.t, e.n, r)
    BY <2>2, <2>4 DEF Fair
  <2>6. QED
    BY <2>3, <2>5 DEF r
<1>2. CASE ~ (e.t = 0 /\ c)
  <2>1. r = e
    BY <1>2 DEF OnMsgProcess
  <2> HIDE DEF r
  <2>2. QED
    BY <1>2, <2>1 DEF Fair, r
<1>3. QED
  BY <1>1, <1>2

(* Two changes of one end, one after the other: a rollback and then its message *)
LEMMA FairThenFair ==
  ASSUME NEW t, NEW n \in Int, NEW e, Fair(t, n, e), NEW r, Fair(e.t, e.n, r)
  PROVE  Fair(t, n, r)
<1>1. e.n = n + (IF e.t = 0 THEN 1 ELSE 0) - (IF t = 0 THEN 1 ELSE 0)
  BY DEF Fair
<1>2. r.n = e.n + (IF r.t = 0 THEN 1 ELSE 0) - (IF e.t = 0 THEN 1 ELSE 0)
  BY DEF Fair
<1>3. QED
  BY <1>1, <1>2 DEF Fair

\* The later of two times.
LEMMA LaterOf ==
  ASSUME NEW a \in Nat, NEW b \in Nat
  PROVE  Max({a, b}) \in Nat /\ a <= Max({a, b}) /\ b <= Max({a, b})
<1> DEFINE S == {a, b}
<1>1. S \in SUBSET Nat /\ S # {} /\ a + b \in Nat /\ \A x \in S : x <= a + b
  OBVIOUS
<1>2. Max(S) \in S /\ \A y \in S : y <= Max(S)
  <2> HIDE DEF S
  <2> QED
    BY <1>1, MaxIsGreatest
<1>3. QED
  BY <1>2

\* An end that stays when the log is cut after k messages is with one of these.
LEMMA EndStays ==
  ASSUME NEW l, LogOk(l), NEW k \in 1 .. Len(l), NEW t, EndAt(l, Len(l), t), NEW at \in Nat,
         \A i \in 1 .. Len(l) : l[i].t < at => i <= k, t < at \/ t = SIMTIME_MAX
  PROVE  EndAt(l, k, t)
<1>1. CASE t = 0
  BY <1>1 DEF EndAt
<1>2. ASSUME NEW i \in 1 .. Len(l), l[i].end, t = (IF i = 1 THEN SIMTIME_MAX ELSE l[i].t)
      PROVE  EndAt(l, k, t)
  <2>1. Len(l) \in Nat /\ l[i].t \in Nat /\ l[i].t <= MaxTime /\ MaxTime \in Nat /\ MaxTime < SIMTIME_MAX
        /\ SIMTIME_MAX \in Nat
    BY EntriesTell
  <2>2. i <= k
    <3>1. CASE i = 1
      BY <2>1, <3>1
    <3>2. CASE i # 1
      <4>1. t = l[i].t /\ t < at
        BY <1>2, <2>1, <3>2
      <4>2. QED
        BY <4>1
    <3>3. QED
      BY <3>1, <3>2
  <2>3. i \in 1 .. k
    BY <2>1, <2>2
  <2>4. QED
    BY <1>2, <2>3 DEF EndAt
<1>3. QED
  BY <1>1, <1>2 DEF EndAt

\* Its place in a log with the same first messages.
LEMMA EndSame ==
  ASSUME NEW l, NEW r, NEW k \in Nat, Same(l, r, k), NEW n \in Nat, k <= n, NEW t, EndAt(l, k, t)
  PROVE  EndAt(r, n, t)
<1>1. \A i \in 1 .. k : i \in 1 .. n /\ r[i] = l[i]
  BY DEF Same
<1>2. QED
  BY <1>1 DEF EndAt

\* The checkpoints of the first messages.
LEMMA CkptsStay ==
  ASSUME NEW l, LogOk(l), NEW c, CkptsOk(l, c), NEW k \in 1 .. Len(l), NEW r, LogOk(r),
         k <= Len(r), Same(r, l, k), NEW d, DOMAIN d \subseteq {i \in DOMAIN c : i <= k} \cup {k + 1},
         1 \in DOMAIN d, k + 1 \in DOMAIN d => k + 1 <= Len(r) /\ d[k + 1] = PendingAt(r, k + 1),
         \A i \in DOMAIN d : i # k + 1 => d[i] = c[i]
  PROVE  CkptsOk(r, d)
<1>1. Len(l) \in Nat /\ Len(r) \in Nat /\ k \in Nat
  BY EntriesTell
<1>2. /\ \A i \in DOMAIN c : i \in 1 .. Len(l) /\ c[i] = PendingAt(l, i)
  BY DEF CkptsOk
<1>3. ASSUME NEW i \in DOMAIN d PROVE i \in 1 .. Len(r) /\ d[i] = PendingAt(r, i)
  <2>1. CASE i = k + 1
    BY <1>1, <1>3, <2>1
  <2>2. CASE i # k + 1
    <3>1. i \in DOMAIN c /\ i <= k /\ d[i] = c[i]
      BY <1>3, <2>2
    <3>2. i \in Nat /\ 1 <= i
      BY <1>1, <1>2, <3>1
    <3>3. Same(r, l, i)
      BY <1>1, <3>1, <3>2 DEF Same
    <3>4. PendingAt(r, i) = PendingAt(l, i)
      BY <3>2, <3>3, PendingSame
    <3>5. QED
      BY <1>1, <1>2, <3>1, <3>2, <3>4
  <2>3. QED
    BY <2>1, <2>2
<1>4. QED
  BY <1>3 DEF CkptsOk

\* The termination books after a message, which goes on to the end e with the log l.
LEMMA VoteStep ==
  ASSUME VoteInv, EndsInv, NEW lp \in LPs, NEW e, EndsBecome(lp, e), e.t \in Nat,
         gvt' = gvt, voted' = voted, max_t' \in Nat, max_t <= max_t',
         e.t \in {0, termination_t[lp]} \/ e.t <= max_t',
         termination_t[lp] # 0 /\ (termination_t[lp] = SIMTIME_MAX \/ termination_t[lp] < gvt) =>
           e.t = termination_t[lp]
  PROVE  VoteInv'
<1> DEFINE T == termination_t
           U == termination_t'
<1>1. /\ max_t \in Nat /\ gvt \in Nat /\ T \in [LPs -> Nat] /\ SIMTIME_MAX \in Nat
      /\ \A y \in LPs : T[y] = SIMTIME_MAX \/ T[y] <= max_t
  BY Bounds DEF VoteInv, EndsInv
<1>2. voted /\ gvt < TermTime =>
        \A y \in LPs : T[y] # 0 /\ (T[y] = SIMTIME_MAX \/ T[y] < gvt)
  BY DEF VoteInv
<1>3. U = [T EXCEPT ![lp] = e.t]
  BY DEF EndsBecome
<1>4. U[lp] = e.t /\ \A y \in LPs : y # lp => U[y] = T[y]
  BY <1>1, <1>3
<1>5. T[lp] # 0 /\ (T[lp] = SIMTIME_MAX \/ T[lp] < gvt) => e.t = T[lp]
  OBVIOUS
<1>6. e.t = 0 \/ e.t = T[lp] \/ e.t <= max_t'
  OBVIOUS
<1> HIDE DEF T, U
<1>7. ASSUME NEW y \in LPs PROVE U[y] = SIMTIME_MAX \/ U[y] <= max_t'
  <2>1. T[y] \in Nat /\ (T[y] = SIMTIME_MAX \/ T[y] <= max_t)
    BY <1>1
  <2>2. CASE y # lp
    BY <1>1, <1>4, <2>1, <2>2
  <2>3. CASE y = lp
    BY <1>1, <1>4, <1>6, <2>1, <2>3
  <2>4. QED
    BY <2>2, <2>3
<1>8. voted /\ gvt < TermTime =>
        \A y \in LPs : U[y] # 0 /\ (U[y] = SIMTIME_MAX \/ U[y] < gvt)
  BY <1>2, <1>4, <1>5
<1>9. SIMTIME_MAX' = SIMTIME_MAX
  BY DEF SIMTIME_MAX
<1>10. QED
  BY <1>1, <1>7, <1>8, <1>9 DEF VoteInv, U

\* process_msg, after a message was taken.
LEMMA BProcess ==
  ASSUME BooksInv, NEW lp \in LPs, NEW m, NEW ctx, Taken(lp, m, ctx), Process(lp, m, ctx)
  PROVE  BooksInv'
<1>1. LogsInv /\ HeapInv /\ EndsInv /\ VoteInv
  BY DEF BooksInv
<1> DEFINE l == log[lp]
           late == IsStraggler(lp, m)
           k == IF late THEN MatchStraggler(lp, m) ELSE Len(l)
           x == IF late THEN RestoredCtx(lp, k) ELSE ctx
           e0 == IF late THEN OnLpRollback(Ends(lp), m.t) ELSE Ends(lp)
           past == {i \in DOMAIN ckpts[lp] : i <= k}
           c == ckpts[lp]
           s == SubSeq(l, 1, k)
<1>2. PICK set \in MaySet(m.t), committed \in BOOLEAN :
        /\ committed => e0.t = 0
        /\ log' = [log EXCEPT ![lp] = Append(s, [t |-> m.t, ty |-> m.ty, set |-> set, end |-> committed])]
        /\ retractable_ctx' = [retractable_ctx EXCEPT ![lp] = AfterHandler(x, set)]
        /\ HeapBecomes(Reschedule(Heap, lp, AfterHandler(x, set)))
        /\ ckpts' = [ckpts EXCEPT ![lp] = [i \in past \cup ({k + 1} \cap CkptAt) |->
                                             IF i = k + 1 THEN AfterHandler(x, set) ELSE c[i]]]
        /\ EndsBecome(lp, OnMsgProcess(e0, m.t, committed))
        /\ max_t' = IF committed THEN Max({m.t, max_t}) ELSE max_t
        /\ gvt' = gvt /\ voted' = voted
  <2>1. log[lp] = l /\ ckpts = [y \in LPs |-> ckpts[y]] /\ log = [y \in LPs |-> log[y]]
    BY <1>1 DEF LogsInv
  <2>2. QED
    BY <2>1 DEF Process
<1> DEFINE w == [t |-> m.t, ty |-> m.ty, set |-> set, end |-> committed]
           r == Append(s, w)
           ctx1 == AfterHandler(x, set)
           d == [i \in past \cup ({k + 1} \cap CkptAt) |-> IF i = k + 1 THEN ctx1 ELSE c[i]]
           e1 == OnMsgProcess(e0, m.t, committed)
<1>3. Placing(lp, m, k, x, late)
  <2>1. late \in BOOLEAN
    BY DEF IsStraggler, Before
  <2>2. late <=> IsStraggler(lp, m)
    OBVIOUS
  <2> HIDE DEF late
  <2> DEFINE k0 == k
             x0 == x
  <2>3. k0 = (IF late THEN MatchStraggler(lp, m) ELSE Len(log[lp])) /\ x0 = (IF late THEN RestoredCtx(lp, k0) ELSE ctx)
    OBVIOUS
  <2> HIDE DEF k0, x0
  <2>4. Placing(lp, m, k0, x0, late)
    BY <2>1, <2>2, <2>3, TakenTells
  <2>5. QED
    BY <2>4 DEF k0, x0
<1>4. LogOk(l) /\ CkptsOk(l, c)
  BY <1>1 DEF LogsInv
<1> HIDE DEF l, c, late, x, k, e0
<1>5. /\ m.t \in 1 .. MaxTime /\ m.ty \in 0 .. 2
      /\ k \in 1 .. Len(l) /\ l[k].t <= m.t /\ Follows(l, k, m)
      /\ x = (IF m.ty = LP_RETRACTABLE THEN SIMTIME_MAX ELSE PendingAt(l, k))
      /\ late => gvt <= m.t /\ \A i \in 1 .. Len(l) : l[i].t < m.t => i <= k
      /\ ~ late => k = Len(l)
  BY <1>3 DEF Placing, l
<1>6. Len(l) \in Nat /\ k \in Nat /\ MaxTime \in Nat /\ m.t \in Nat /\ 1 <= m.t /\ SIMTIME_MAX \in Nat
      /\ m.t \in 0 .. MaxTime
  BY <1>4, <1>5, EntriesTell
<1>7. LogOk(s) /\ Len(s) = k /\ Same(s, l, k)
  BY <1>4, <1>5, LogCut
<1>8. set = Keep \/ (set \in 1 .. SIMTIME_MAX /\ m.t < set)
  BY <1>6, SetLater
<1>9. w \in LogEntries /\ w.t = m.t /\ w.ty = m.ty /\ w.set = set /\ w.end = committed
  BY <1>5, <1>6, <1>8 DEF LogEntries
<1> HIDE DEF s, w
<1>10. MayFollow(s, w)
  <2>1. s[k] = l[k]
    BY <1>5, <1>6, <1>7 DEF Same
  <2>2. PendingAt(s, k) = PendingAt(l, k)
    BY <1>6, <1>7, PendingSame
  <2>3. Follows(s, k, w)
    BY <1>5, <1>9, <2>2 DEF Follows
  <2>4. QED
    BY <1>5, <1>6, <1>7, <1>8, <1>9, <2>1, <2>3 DEF MayFollow
<1>11. LogOk(r) /\ Len(r) = k + 1 /\ r[k + 1] = w /\ Same(r, s, k)
  BY <1>7, <1>10, LogGrows
<1> HIDE DEF r
<1>12. Same(r, l, k)
  BY <1>7, <1>11 DEF Same
<1>13. PendingAt(r, k + 1) = ctx1
  <2>1. k + 1 \in Nat /\ k + 1 # 0 /\ (k + 1) - 1 = k
    BY <1>6
  <2>2. PendingAt(r, k) = PendingAt(l, k)
    BY <1>6, <1>12, PendingSame
  <2>3. PendingAt(r, k + 1) =
          AfterHandler(IF r[k + 1].ty = LP_RETRACTABLE THEN SIMTIME_MAX ELSE PendingAt(r, (k + 1) - 1),
                       r[k + 1].set)
    BY <2>1, PendingNext
  <2>4. (IF r[k + 1].ty = LP_RETRACTABLE THEN SIMTIME_MAX ELSE PendingAt(r, (k + 1) - 1)) = x
    BY <1>5, <1>9, <1>11, <2>1, <2>2
  <2>5. QED
    BY <1>9, <1>11, <2>3, <2>4
<1> HIDE DEF ctx1
<1>14. CkptsOk(r, d)
  <2>1. DOMAIN d \subseteq past \cup {k + 1} /\ past \subseteq DOMAIN d
    OBVIOUS
  <2>2. 1 \in DOMAIN d
    <3>1. 1 \in DOMAIN c /\ 1 <= k
      BY <1>4, <1>5, <1>6 DEF CkptsOk
    <3>2. 1 \in past
      BY <3>1 DEF c
    <3>3. QED
      BY <2>1, <3>2
  <2>3. \A i \in DOMAIN d : d[i] = IF i = k + 1 THEN ctx1 ELSE c[i]
    OBVIOUS
  <2>4. DOMAIN d \subseteq {i \in DOMAIN c : i <= k} \cup {k + 1}
    BY <2>1 DEF c
  <2> HIDE DEF d
  <2>5. k + 1 \in DOMAIN d => k + 1 <= Len(r) /\ d[k + 1] = PendingAt(r, k + 1)
    BY <1>6, <1>11, <1>13, <2>3
  <2>6. \A i \in DOMAIN d : i # k + 1 => d[i] = c[i]
    BY <2>3
  <2>7. k <= Len(r)
    BY <1>6, <1>11
  <2>8. QED
    BY <1>4, <1>5, <1>11, <1>12, <2>2, <2>4, <2>5, <2>6, <2>7, CkptsStay
<1>15. /\ log' = [log EXCEPT ![lp] = r] /\ ckpts' = [ckpts EXCEPT ![lp] = d]
       /\ retractable_ctx' = [retractable_ctx EXCEPT ![lp] = ctx1]
       /\ HeapBecomes(Reschedule(Heap, lp, ctx1)) /\ EndsBecome(lp, e1)
       /\ max_t' = (IF committed THEN Max({m.t, max_t}) ELSE max_t)
       /\ gvt' = gvt /\ voted' = voted /\ (committed => e0.t = 0)
  BY <1>2 DEF r, w, ctx1, d
<1> HIDE DEF d
<1>16. LogsInv' /\ HeapInv'
  <2>1. ctx1 = PendingAt(r, Len(r))
    BY <1>11, <1>13
  <2>2. QED
    BY <1>1, <1>11, <1>14, <1>15, <2>1, LogsStep
<1>17. /\ Ends(lp).t = termination_t[lp] /\ Ends(lp).n = lps_to_end
       /\ termination_t[lp] \in Nat /\ lps_to_end \in Nat
       /\ EndAt(l, Len(l), termination_t[lp]) /\ max_t \in Nat /\ gvt \in Nat
  <2>1. Running(termination_t) \in Nat
    BY <1>1, RunningTells DEF EndsInv
  <2>2. QED
    BY <1>1, <2>1 DEF EndsInv, VoteInv, Ends, l
<1> HIDE DEF Ends
<1>18. /\ Fair(termination_t[lp], lps_to_end, e0) /\ e0.n \in Int /\ EndAt(l, k, e0.t)
       /\ e0.t = termination_t[lp] \/ e0.t = 0
       /\ termination_t[lp] = SIMTIME_MAX \/ termination_t[lp] < gvt => e0.t = termination_t[lp]
  <2>1. CASE late
    <3>1. /\ Fair(Ends(lp).t, Ends(lp).n, OnLpRollback(Ends(lp), m.t)) /\ OnLpRollback(Ends(lp), m.t).n \in Int
          /\ OnLpRollback(Ends(lp), m.t).t =
               (IF Ends(lp).t < m.t \/ Ends(lp).t = SIMTIME_MAX THEN Ends(lp).t ELSE 0)
      BY <1>6, <1>17, RollbackTells
    <3>2. e0 = OnLpRollback(Ends(lp), m.t)
      BY <2>1 DEF e0
    <3>3. Fair(termination_t[lp], lps_to_end, e0) /\ e0.n \in Int
      BY <1>17, <3>1, <3>2
    <3>4. e0.t = (IF termination_t[lp] < m.t \/ termination_t[lp] = SIMTIME_MAX THEN termination_t[lp] ELSE 0)
      BY <1>17, <3>1, <3>2
    <3>5. EndAt(l, k, e0.t)
      <4>1. CASE e0.t = 0
        BY <4>1 DEF EndAt
      <4>2. CASE e0.t # 0
        <5>1. e0.t = termination_t[lp] /\ (termination_t[lp] < m.t \/ termination_t[lp] = SIMTIME_MAX)
          BY <3>4, <4>2
        <5>2. EndAt(l, k, termination_t[lp])
          BY <1>4, <1>5, <1>6, <1>17, <2>1, <5>1, EndStays
        <5>3. QED
          BY <5>1, <5>2
      <4>3. QED
        BY <4>1, <4>2
    <3>6. termination_t[lp] < gvt => termination_t[lp] < m.t
      BY <1>5, <1>6, <1>17, <2>1
    <3>7. QED
      BY <3>3, <3>4, <3>5, <3>6
  <2>2. CASE ~ late
    <3>1. e0.t = termination_t[lp] /\ e0.n = lps_to_end /\ k = Len(l)
      BY <1>5, <1>17, <2>2 DEF e0
    <3>2. Fair(termination_t[lp], lps_to_end, e0)
      BY <1>17, <3>1 DEF Fair
    <3>3. QED
      BY <1>17, <3>1, <3>2
  <2>3. QED
    BY <2>1, <2>2
<1>19. e0.t \in Nat
  BY <1>18 DEF Fair
<1>20. Fair(e0.t, e0.n, e1) /\ e1.t = (IF e0.t = 0 /\ committed THEN m.t ELSE e0.t)
  BY <1>6, <1>18, <1>19, MsgProcessTells
<1> HIDE DEF e1
<1>21. Fair(termination_t[lp], lps_to_end, e1) /\ e1.t \in Nat
  <2>1. lps_to_end \in Int
    BY <1>17
  <2>2. Fair(termination_t[lp], lps_to_end, e1)
    BY <1>18, <1>20, <2>1, FairThenFair
  <2>3. QED
    BY <2>2 DEF Fair
<1>22. EndAt(r, Len(r), e1.t)
  <2>1. CASE e0.t = 0 /\ committed
    <3>1. k + 1 \in 1 .. Len(r) /\ k + 1 # 1
      BY <1>5, <1>6, <1>11
    <3>2. r[k + 1].end
      BY <1>9, <1>11, <2>1
    <3>3. e1.t = r[k + 1].t
      BY <1>9, <1>11, <1>20, <2>1
    <3>4. QED
      BY <3>1, <3>2, <3>3 DEF EndAt
  <2>2. CASE ~ (e0.t = 0 /\ committed)
    <3>1. e1.t = e0.t
      BY <1>20, <2>2
    <3>2. Same(l, r, k) /\ k <= Len(r) /\ Len(r) \in Nat
      BY <1>6, <1>11, <1>12 DEF Same
    <3>3. EndAt(r, Len(r), e0.t)
      BY <1>6, <1>18, <3>2, EndSame
    <3>4. QED
      BY <3>1, <3>3
  <2>3. QED
    BY <2>1, <2>2
<1>23. EndsInv'
  BY <1>1, <1>15, <1>21, <1>22, EndsStep
<1>24. max_t' \in Nat /\ max_t <= max_t' /\ (committed => m.t <= max_t')
  <2>1. Max({m.t, max_t}) \in Nat /\ m.t <= Max({m.t, max_t}) /\ max_t <= Max({m.t, max_t})
    BY <1>6, <1>17, LaterOf
  <2>2. QED
    BY <1>15, <1>17, <2>1
<1>25. VoteInv'
  <2>1. e1.t \in {0, termination_t[lp]} \/ e1.t <= max_t'
    BY <1>18, <1>20, <1>24
  <2>2. termination_t[lp] # 0 /\ (termination_t[lp] = SIMTIME_MAX \/ termination_t[lp] < gvt) =>
          e1.t = termination_t[lp]
    BY <1>18, <1>20
  <2>3. QED
    BY <1>1, <1>15, <1>21, <1>24, <2>1, <2>2, VoteStep
<1>26. QED
  BY <1>16, <1>23, <1>25 DEF BooksInv

\* The anti-message of the message at index i of the log.
LEMMA BAnti ==
  ASSUME BooksInv, NEW lp \in LPs, NEW i \in 2 .. Len(log[lp]), ExtractAnti(lp, i)
  PROVE  BooksInv'
<1>1. LogsInv /\ HeapInv /\ EndsInv /\ VoteInv
  BY DEF BooksInv
<1> DEFINE l == log[lp]
           c == ckpts[lp]
           k == i - 1
           s == SubSeq(l, 1, k)
           x == RestoredCtx(lp, k)
           d == [j \in {n \in DOMAIN c : n < i} |-> c[j]]
           t == l[i].t
           e == OnLpRollback(Ends(lp), t)
<1>2. /\ t >= gvt /\ log' = [log EXCEPT ![lp] = s] /\ ckpts' = [ckpts EXCEPT ![lp] = d]
      /\ retractable_ctx' = [retractable_ctx EXCEPT ![lp] = x]
      /\ HeapBecomes(Reschedule(Heap, lp, x)) /\ EndsBecome(lp, e)
      /\ max_t' = max_t /\ gvt' = gvt /\ voted' = voted
  <2>1. log = [y \in LPs |-> log[y]] /\ ckpts = [y \in LPs |-> ckpts[y]]
    BY <1>1 DEF LogsInv
  <2>2. QED
    BY <2>1 DEF ExtractAnti
<1>3. LogOk(l) /\ CkptsOk(l, c)
  BY <1>1 DEF LogsInv
<1>4. i \in 2 .. Len(l)
  OBVIOUS
<1>5. x = PendingAt(l, k) /\ k \in 1 .. Len(l)
  <2>1. k \in 1 .. Len(log[lp])
    BY <1>3, EntriesTell
  <2>2. QED
    BY <1>1, <2>1, RestoredTells
<1> HIDE DEF l, c, x
<1>6. /\ Len(l) \in Nat /\ i \in Nat /\ k \in Nat /\ k + 1 = i /\ k < i /\ i \in 1 .. Len(l)
      /\ t \in Nat /\ 1 <= t
  <2>1. Len(l) \in Nat /\ \A j \in 1 .. Len(l) : l[j].t \in Nat
    BY <1>3, EntriesTell
  <2>2. 1 <= l[i].t
    BY <1>3, <1>4 DEF LogOk
  <2>3. QED
    BY <1>4, <2>1, <2>2
<1> HIDE DEF k, t
<1>7. LogOk(s) /\ Len(s) = k /\ Same(s, l, k)
  BY <1>3, <1>5, LogCut
<1> HIDE DEF s
<1>8. x = PendingAt(s, Len(s))
  BY <1>5, <1>6, <1>7, PendingSame
<1>9. CkptsOk(s, d)
  <2>1. DOMAIN d = {n \in DOMAIN c : n < i} /\ \A j \in DOMAIN d : d[j] = c[j]
    OBVIOUS
  <2>2. 1 \in DOMAIN c /\ \A n \in DOMAIN c : n \in 1 .. Len(l)
    BY <1>3 DEF CkptsOk
  <2> HIDE DEF d
  <2>3. DOMAIN d \subseteq {n \in DOMAIN c : n <= k} \cup {k + 1} /\ 1 \in DOMAIN d
    BY <1>4, <1>6, <2>1, <2>2
  <2>4. k + 1 \notin DOMAIN d
    BY <1>6, <2>1
  <2>5. k <= Len(s)
    BY <1>6, <1>7
  <2>6. QED
    BY <1>3, <1>5, <1>7, <2>1, <2>3, <2>4, <2>5, CkptsStay
<1> HIDE DEF d
<1>10. LogsInv' /\ HeapInv'
  BY <1>1, <1>2, <1>7, <1>8, <1>9, LogsStep
<1>11. /\ Ends(lp).t = termination_t[lp] /\ Ends(lp).n = lps_to_end
       /\ termination_t[lp] \in Nat /\ lps_to_end \in Nat
       /\ EndAt(l, Len(l), termination_t[lp]) /\ max_t \in Nat /\ gvt \in Nat
  <2>1. Running(termination_t) \in Nat
    BY <1>1, RunningTells DEF EndsInv
  <2>2. QED
    BY <1>1, <2>1 DEF EndsInv, VoteInv, Ends, l
<1> HIDE DEF Ends
<1>12. /\ Fair(Ends(lp).t, Ends(lp).n, e)
       /\ e.t = (IF Ends(lp).t < t \/ Ends(lp).t = SIMTIME_MAX THEN Ends(lp).t ELSE 0)
  BY <1>6, <1>11, RollbackTells
<1> HIDE DEF e
<1>13. /\ Fair(termination_t[lp], lps_to_end, e)
       /\ e.t = (IF termination_t[lp] < t \/ termination_t[lp] = SIMTIME_MAX THEN termination_t[lp] ELSE 0)
  BY <1>11, <1>12
<1>14. \A j \in 1 .. Len(l) : l[j].t < t => j <= k
  <2>1. ASSUME NEW j \in 1 .. Len(l), j > k PROVE t <= l[j].t
    <3>1. i \in 1 .. j
      BY <1>4, <1>6, <2>1
    <3>2. QED
      BY <1>3, <3>1, LogSorted DEF t
  <2>2. \A j \in 1 .. Len(l) : l[j].t \in Nat /\ j \in Nat
    BY <1>3, EntriesTell
  <2>3. QED
    BY <1>6, <2>1, <2>2
<1>15. EndAt(s, Len(s), e.t)
  <2>1. CASE e.t = 0
    BY <2>1 DEF EndAt
  <2>2. CASE e.t # 0
    <3>1. e.t = termination_t[lp] /\ (termination_t[lp] < t \/ termination_t[lp] = SIMTIME_MAX)
      BY <1>13, <2>2
    <3>2. EndAt(l, k, termination_t[lp])
      BY <1>3, <1>5, <1>6, <1>11, <1>14, <3>1, EndStays
    <3>3. Same(l, s, k) /\ k <= Len(s) /\ Len(s) \in Nat
      BY <1>6, <1>7 DEF Same
    <3>4. QED
      BY <1>6, <3>1, <3>2, <3>3, EndSame
  <2>3. QED
    BY <2>1, <2>2
<1>16. EndsInv'
  BY <1>1, <1>2, <1>13, <1>15, EndsStep
<1>17. VoteInv'
  <2>1. e.t \in Nat /\ e.t \in {0, termination_t[lp]}
    BY <1>13 DEF Fair
  <2>2. termination_t[lp] # 0 /\ (termination_t[lp] = SIMTIME_MAX \/ termination_t[lp] < gvt) =>
          e.t = termination_t[lp]
    BY <1>2, <1>6, <1>11, <1>13
  <2>3. max_t' \in Nat /\ max_t <= max_t'
    BY <1>2, <1>11
  <2>4. QED
    BY <1>1, <1>2, <2>1, <2>2, <2>3, VoteStep
<1>18. QED
  BY <1>10, <1>16, <1>17 DEF BooksInv

\* The set of the LPs that go on is empty when their number is 0.
LEMMA NoneRuns ==
  ASSUME NEW T, Running(T) = 0
  PROVE  \A lp \in LPs : T[lp] # 0
<1> DEFINE A == {lp \in LPs : T[lp] = 0}
<1>1. IsFiniteSet(A)
  <2>1. NLps \in Nat /\ LPs = 1 .. NLps
    BY Bounds
  <2>2. IsFiniteSet(LPs)
    BY <2>1, FS_Interval
  <2>3. A \subseteq LPs
    OBVIOUS
  <2> HIDE DEF A
  <2>4. QED
    BY <2>2, <2>3, FS_Subset
<1>2. Cardinality(A) = 0
  BY DEF Running
<1>3. A = {}
  <2> HIDE DEF A
  <2> QED
    BY <1>1, <1>2, FS_EmptySet
<1>4. QED
  BY <1>3

\* termination_on_gvt.
LEMMA BOnGvt ==
  ASSUME BooksInv, NEW g \in Times, OnGvt(g)
  PROVE  BooksInv'
<1>1. LogsInv /\ HeapInv /\ EndsInv /\ VoteInv
  BY DEF BooksInv
<1>2. /\ log' = log /\ ckpts' = ckpts /\ retractable_ctx' = retractable_ctx
      /\ retractable_pos' = retractable_pos /\ r_queue' = r_queue
      /\ termination_t' = termination_t /\ lps_to_end' = lps_to_end
      /\ g > gvt /\ gvt' = g
      /\ IF MayVote(g) THEN max_t' = SIMTIME_MAX /\ voted' = TRUE ELSE max_t' = max_t /\ voted' = voted
  BY DEF OnGvt
<1>3. LogsInv'
  BY <1>1, <1>2 DEF LogsInv
<1>4. HeapInv'
  BY <1>1, <1>2 DEF HeapInv, Heap, NLps
<1>5. EndsInv'
  BY <1>1, <1>2 DEF EndsInv
<1> DEFINE T == termination_t
<1>6. /\ max_t \in Nat /\ gvt \in Nat /\ SIMTIME_MAX \in Nat /\ MaxTime \in Nat /\ SIMTIME_MAX = MaxTime + 1
      /\ g \in Nat /\ TermTime \in Nat /\ T \in [LPs -> Nat]
      /\ \A lp \in LPs : T[lp] = SIMTIME_MAX \/ T[lp] <= max_t
      /\ voted /\ gvt < TermTime => \A lp \in LPs : T[lp] # 0 /\ (T[lp] = SIMTIME_MAX \/ T[lp] < gvt)
  BY <1>1, Bounds DEF VoteInv, EndsInv, Times
<1>7. ASSUME NEW lp \in LPs PROVE T[lp] \in Nat /\ T[lp] <= SIMTIME_MAX
  <2> DEFINE l == log[lp]
  <2>1. LogOk(l) /\ EndAt(l, Len(l), T[lp])
    BY <1>1 DEF LogsInv, EndsInv
  <2>2. \A i \in 1 .. Len(l) : l[i].t \in Nat /\ l[i].t <= MaxTime
    BY <2>1, EntriesTell
  <2> HIDE DEF l
  <2>3. QED
    BY <1>6, <2>1, <2>2 DEF EndAt
<1>8. gvt' \in Nat /\ max_t' \in Nat
  BY <1>2, <1>6
<1>9. ASSUME NEW lp \in LPs PROVE T[lp] = SIMTIME_MAX \/ T[lp] <= max_t'
  <2>1. CASE MayVote(g)
    BY <1>2, <1>7, <2>1
  <2>2. CASE ~ MayVote(g)
    BY <1>2, <1>6, <2>2
  <2>3. QED
    BY <2>1, <2>2
<1>10. ASSUME voted', g < TermTime, NEW lp \in LPs
       PROVE  T[lp] # 0 /\ (T[lp] = SIMTIME_MAX \/ T[lp] < g)
  <2>1. CASE MayVote(g)
    <3>1. lps_to_end = 0 /\ ~ (max_t >= g)
      BY <1>6, <1>10, <2>1 DEF MayVote
    <3>2. Running(T) = 0
      BY <1>1, <3>1 DEF EndsInv
    <3>3. T[lp] # 0
      <4> HIDE DEF T
      <4> QED
        BY <3>2, NoneRuns
    <3>4. QED
      BY <1>6, <1>7, <3>1, <3>3
  <2>2. CASE ~ MayVote(g)
    <3>1. voted
      <4>1. voted' = voted
        BY <1>2, <2>2
      <4>2. QED
        BY <1>10, <4>1
    <3>2. gvt < TermTime
      BY <1>2, <1>6, <1>10
    <3>3. QED
      BY <1>2, <1>6, <1>7, <3>1, <3>2
  <2>3. QED
    BY <2>1, <2>2
<1>11. SIMTIME_MAX' = SIMTIME_MAX
  BY DEF SIMTIME_MAX
<1>12. VoteInv'
  BY <1>2, <1>8, <1>9, <1>10, <1>11 DEF VoteInv
<1>13. QED
  BY <1>3, <1>4, <1>5, <1>12 DEF BooksInv

\* lp_init.
LEMMA BInit == BooksInit => BooksInv
<1> SUFFICES ASSUME BooksInit PROVE BooksInv
  OBVIOUS
<1>1. PICK set \in [LPs -> MaySet(0) \ {Keep}], end \in {[lp \in LPs |-> lp \in E] : E \in SUBSET EndAtInit} :
        LET H == CHOOSE H : H = [i \in 0 .. NLps |-> HeapStep(set, H, i)]
            heap == H[NLps]
        IN  /\ log = [lp \in LPs |-> <<InitEntry(set[lp], end[lp])>>]
            /\ retractable_ctx = set
            /\ ckpts = [lp \in LPs |-> [i \in {1} |-> set[lp]]]
            /\ r_queue = heap.q /\ retractable_pos = heap.pos
            /\ termination_t = [lp \in LPs |-> EndOfInit(end[lp])]
            /\ lps_to_end = Cardinality({lp \in LPs : ~ end[lp]})
            /\ max_t = 0 /\ gvt = 0 /\ voted = FALSE
  BY DEF BooksInit, HeapStep, NLps
<1> DEFINE H == CHOOSE H : H = [i \in 0 .. NLps |-> HeapStep(set, H, i)]
           heap == H[NLps]
<1>2. NLps \in Nat /\ NLps # 0 /\ LPs = 1 .. NLps /\ MaxTime \in Nat /\ SIMTIME_MAX \in Nat /\ SIMTIME_MAX = MaxTime + 1
  BY Bounds
<1>3. \A lp \in LPs : set[lp] # Keep /\ set[lp] \in 1 .. SIMTIME_MAX /\ end[lp] \in BOOLEAN
  <2>1. 0 \in 0 .. MaxTime
    BY <1>2
  <2>2. \A lp \in LPs : set[lp] \in MaySet(0) /\ set[lp] # Keep
    OBVIOUS
  <2>3. \A lp \in LPs : set[lp] \in 1 .. SIMTIME_MAX
    BY <2>1, <2>2, SetLater
  <2>4. \A lp \in LPs : end[lp] \in BOOLEAN
    <3>1. PICK E \in SUBSET EndAtInit : end = [lp \in LPs |-> lp \in E]
      OBVIOUS
    <3>2. QED
      BY <3>1
  <2>5. QED
    BY <2>2, <2>3, <2>4
<1>4. set \in [LPs -> Nat] /\ \A lp \in LPs : set[lp] \in Nat /\ set[lp] <= SIMTIME_MAX /\ 1 <= set[lp]
  BY <1>2, <1>3
<1>5. Agrees(heap, NLps, set)
  <2>1. \E I : IsInit(set, NLps, I)
    BY <1>2, InitIsThere
  <2>2. IsInit(set, NLps, H)
    BY <2>1 DEF IsInit
  <2> HIDE DEF H
  <2>3. QED
    BY <1>4, <2>2, InitHeapTells
<1>6. Heap = heap
  <2>1. heap = [q |-> heap.q, pos |-> heap.pos]
    BY <1>5 DEF Agrees, Heaps
  <2>2. QED
    BY <1>1, <2>1 DEF Heap
<1> HIDE DEF H, heap
<1>7. ASSUME NEW lp \in LPs
      PROVE  /\ LogOk(log[lp]) /\ Len(log[lp]) = 1 /\ log[lp][1] = InitEntry(set[lp], end[lp])
             /\ PendingAt(log[lp], 1) = set[lp]
  <2> DEFINE w == InitEntry(set[lp], end[lp])
             l == log[lp]
  <2>1. l = <<w>>
    BY <1>1
  <2>2. w \in LogEntries /\ w.t = 0 /\ w.set = set[lp]
    BY <1>2, <1>3 DEF InitEntry, LogEntries, LP_INIT
  <2> HIDE DEF l, w
  <2>3. l \in Seq(LogEntries) /\ Len(l) = 1 /\ l[1] = w
    BY <2>1, <2>2
  <2>4. 1 \in 1 .. Len(l) /\ 2 .. Len(l) = {} /\ \A i \in 1 .. Len(l) : i = 1
    BY <2>3
  <2>5. LogOk(l)
    BY <1>3, <1>4, <2>2, <2>3, <2>4 DEF LogOk
  <2>6. PendingAt(l, 1) = set[lp]
    <3>1. PendingAt(l, 1) =
            AfterHandler(IF l[1].ty = LP_RETRACTABLE THEN SIMTIME_MAX ELSE PendingAt(l, 1 - 1), l[1].set)
      BY PendingNext
    <3>2. QED
      BY <1>3, <2>2, <2>3, <3>1 DEF AfterHandler
  <2>7. QED
    BY <2>3, <2>5, <2>6 DEF l, w
<1>8. LogsInv
  <2>1. ASSUME NEW lp \in LPs PROVE CkptsOk(log[lp], ckpts[lp])
    <3>1. ckpts[lp] = [i \in {1} |-> set[lp]]
      BY <1>1
    <3>2. QED
      BY <1>7, <3>1 DEF CkptsOk
  <2>2. log = [lp \in LPs |-> log[lp]] /\ ckpts = [lp \in LPs |-> ckpts[lp]]
    BY <1>1
  <2>3. QED
    BY <1>7, <2>1, <2>2 DEF LogsInv
<1>9. HeapInv
  <2>1. retractable_ctx = set
    BY <1>1
  <2>2. QED
    BY <1>4, <1>5, <1>6, <1>7, <2>1 DEF HeapInv
<1>10. EndsInv
  <2> DEFINE T == termination_t
  <2>1. \A lp \in LPs : T[lp] = (IF end[lp] THEN SIMTIME_MAX ELSE 0)
    BY <1>1 DEF EndOfInit
  <2>2. T \in [LPs -> Nat]
    BY <1>1, <1>2 DEF EndOfInit
  <2>3. lps_to_end = Running(T)
    <3>1. {lp \in LPs : T[lp] = 0} = {lp \in LPs : ~ end[lp]}
      BY <1>2, <2>1
    <3>2. lps_to_end = Cardinality({lp \in LPs : ~ end[lp]})
      BY <1>1
    <3> HIDE DEF T
    <3>3. QED
      BY <3>1, <3>2 DEF Running
  <2>4. ASSUME NEW lp \in LPs PROVE EndAt(log[lp], Len(log[lp]), T[lp])
    <3>1. 1 \in 1 .. Len(log[lp])
      BY <1>7
    <3>2. InitEntry(set[lp], end[lp]).end = end[lp]
      BY DEF InitEntry
    <3>3. log[lp][1].end = end[lp]
      BY <1>7, <3>2
    <3>4. CASE end[lp]
      BY <2>1, <3>1, <3>3, <3>4 DEF EndAt
    <3>5. CASE ~ end[lp]
      BY <2>1, <3>5 DEF EndAt
    <3>6. QED
      BY <3>4, <3>5
  <2>5. QED
    BY <2>2, <2>3, <2>4 DEF EndsInv
<1>11. VoteInv
  <2>1. \A lp \in LPs : termination_t[lp] = (IF end[lp] THEN SIMTIME_MAX ELSE 0)
    BY <1>1 DEF EndOfInit
  <2>2. max_t = 0 /\ gvt = 0 /\ voted = FALSE
    BY <1>1
  <2>3. QED
    BY <1>2, <2>1, <2>2 DEF VoteInv
<1>12. QED
  BY <1>8, <1>9, <1>10, <1>11 DEF BooksInv

(* Every step keeps the invariant of the books: one case per action *)
LEMMA BNext == BooksInv /\ [BooksNext]_booksVars => BooksInv'
<1> SUFFICES ASSUME BooksInv, [BooksNext]_booksVars PROVE BooksInv'
  OBVIOUS
<1>1. CASE RetractableExtract
  <2> DEFINE lp == r_queue[1].lp
             m == [t |-> r_queue[1].t, ty |-> LP_RETRACTABLE]
  <2>1. lp \in LPs
    BY FirstTells DEF BooksInv
  <2>2. Process(lp, m, SIMTIME_MAX) /\ r_queue[1].t # SIMTIME_MAX
    BY <1>1 DEF RetractableExtract
  <2>3. Taken(lp, m, SIMTIME_MAX)
    BY <2>2 DEF Taken
  <2> HIDE DEF lp, m
  <2>4. QED
    BY <2>1, <2>2, <2>3, BProcess
<1>2. ASSUME NEW lp \in LPs, NEW t \in Times, ExtractMessage(lp, t) PROVE BooksInv'
  <2>1. PICK ty \in Normal : Process(lp, [t |-> t, ty |-> ty], retractable_ctx[lp])
    BY <1>2 DEF ExtractMessage
  <2> DEFINE m == [t |-> t, ty |-> ty]
             ctx == retractable_ctx[lp]
  <2>2. Taken(lp, m, ctx)
    BY <1>2, <2>1, BooksAssumption DEF ExtractMessage, Taken
  <2>3. Process(lp, m, ctx)
    BY <2>1
  <2> HIDE DEF m, ctx
  <2>4. QED
    BY <2>2, <2>3, BProcess
<1>3. ASSUME NEW lp \in LPs, NEW i \in 2 .. Len(log[lp]), ExtractAnti(lp, i) PROVE BooksInv'
  BY <1>3, BAnti
<1>4. ASSUME NEW g \in Times, OnGvt(g) PROVE BooksInv'
  BY <1>4, BOnGvt
<1>5. CASE UNCHANGED booksVars
  BY <1>5 DEF booksVars, BooksInv, LogsInv, HeapInv, EndsInv, VoteInv, Heap, NLps, SIMTIME_MAX
<1>6. QED
  BY <1>1, <1>2, <1>3, <1>4, <1>5 DEF BooksNext

\* The invariant gives what the runs check.
LEMMA BooksInvSuffices == BooksInv => RetractablesAgree /\ EndsAreExact /\ VoteIsFinal
<1> SUFFICES ASSUME BooksInv PROVE RetractablesAgree /\ EndsAreExact /\ VoteIsFinal
  OBVIOUS
<1>1. LogsInv /\ HeapInv /\ EndsInv /\ VoteInv
  BY DEF BooksInv
<1>2. NLps \in Nat /\ LPs = 1 .. NLps /\ 1 .. NLps \subseteq LPs
  BY Bounds
<1>3. RetractablesAgree
  <2>1. \A lp \in LPs : retractable_ctx[lp] = Pending(log[lp])
    BY <1>1, PendingAtEnd DEF HeapInv
  <2>2. \A lp \in LPs : r_queue[retractable_pos[lp]] = [t |-> retractable_ctx[lp], lp |-> lp]
    <3>1. Agrees(Heap, NLps, retractable_ctx)
      BY <1>1 DEF HeapInv
    <3>2. Heap.q = r_queue /\ Heap.pos = retractable_pos
      BY DEF Heap
    <3> HIDE DEF Heap
    <3>3. \A lp \in 1 .. NLps : Heap.q[Heap.pos[lp]] = [t |-> retractable_ctx[lp], lp |-> lp]
      BY <1>2, <3>1, AgreesTells
    <3>4. QED
      BY <1>2, <3>2, <3>3
  <2>3. \A lp \in LPs : r_queue[1].t <= retractable_ctx[lp]
    BY <1>1, FirstTells
  <2>4. QED
    BY <2>1, <2>2, <2>3 DEF RetractablesAgree
<1>4. EndsAreExact
  <2>1. \A lp \in LPs : DOMAIN log[lp] = 1 .. Len(log[lp])
    BY <1>1 DEF LogsInv, LogOk
  <2>2. QED
    BY <1>1, <2>1 DEF EndsAreExact, EndsInv, EndAt, Running
<1>5. VoteIsFinal
  <2> SUFFICES ASSUME voted, gvt < TermTime PROVE lps_to_end = 0
    BY DEF VoteIsFinal
  <2>1. {lp \in LPs : termination_t[lp] = 0} = {}
    BY <1>1 DEF VoteInv
  <2>2. Running(termination_t) = 0
    BY <2>1, FS_EmptySet DEF Running
  <2>3. QED
    BY <1>1, <2>2 DEF EndsInv
<1>6. QED
  BY <1>3, <1>4, <1>5

\* No retractable event of an LP is lost and none comes back by a rollback and the silent
\* execution after it, and the heap of the thread agrees with the states of its LPs, for
\* any number of LPs, any arity of the heap and any checkpoints (retractable.c).
THEOREM RetractablesAreRight == BooksSpec => []RetractablesAgree
<1>1. BooksInv => RetractablesAgree
  BY BooksInvSuffices
<1>2. QED
  BY <1>1, BInit, BNext, PTL DEF BooksSpec

\* lps_to_end counts the LPs that go on, and an end is that of a message in the past of
\* its LP (termination.c).
THEOREM EndsAreRight == BooksSpec => []EndsAreExact
<1>1. BooksInv => EndsAreExact
  BY BooksInvSuffices
<1>2. QED
  BY <1>1, BInit, BNext, PTL DEF BooksSpec

\* A vote of a thread before the time to end is never taken back by a rollback of one of
\* its LPs (termination_on_gvt).
THEOREM VotesAreFinal == BooksSpec => []VoteIsFinal
<1>1. BooksInv => VoteIsFinal
  BY BooksInvSuffices
<1>2. QED
  BY <1>1, BInit, BNext, PTL DEF BooksSpec

-----------------------------------------------------------------------------
(***************************************************************************)
(* Chains: the blocks from the genesis block to each block.                *)
(***************************************************************************)
ParentsFit(B, n) == \A c \in 1 .. n : B[c].parent \in 0 .. c - 1

SameParents(B, D, n) == \A c \in 1 .. n : D[c].parent = B[c].parent

\* C has the chain to each of the first n blocks.
IsChains(B, n, C) ==
  C = [c \in 0 .. n |-> IF c = 0 THEN <<>> ELSE Append(C[B[c].parent], c)]

\* Each of the chains, read from that definition.
LEMMA ChainsTell ==
  ASSUME NEW B, NEW n \in Nat, NEW C, IsChains(B, n, C)
  PROVE  C[0] = <<>> /\ \A c \in 1 .. n : C[c] = Append(C[B[c].parent], c)
<1>1. \A c \in 0 .. n : C[c] = IF c = 0 THEN <<>> ELSE Append(C[B[c].parent], c)
  BY DEF IsChains
<1>2. 0 \in 0 .. n /\ \A c \in 1 .. n : c \in 0 .. n /\ c # 0
  OBVIOUS
<1>3. QED
  BY <1>1, <1>2

\* They are defined, since a block comes after its parent,
LEMMA ChainsAreThere ==
  ASSUME NEW B, NEW n \in Nat, ParentsFit(B, n)
  PROVE  \E C : IsChains(B, n, C)
<1> DEFINE P == {k \in 0 .. n : \E C : IsChains(B, k, C)}
<1>1. 0 \in P
  <2> DEFINE C == [c \in 0 .. 0 |-> <<>>]
  <2>1. C = [c \in 0 .. 0 |-> IF c = 0 THEN <<>> ELSE Append(C[B[c].parent], c)]
    OBVIOUS
  <2>2. IsChains(B, 0, C)
    BY <2>1 DEF IsChains
  <2>3. QED
    BY <2>2
<1>2. ASSUME NEW i \in 0 .. n, i < n, i \in P PROVE i + 1 \in P
  <2>1. PICK C : IsChains(B, i, C)
    BY <1>2
  <2> DEFINE D == [c \in 0 .. i + 1 |-> IF c = i + 1 THEN Append(C[B[c].parent], c) ELSE C[c]]
  <2>2. \A c \in 0 .. i : D[c] = C[c] /\ C[c] = IF c = 0 THEN <<>> ELSE Append(C[B[c].parent], c)
    <3>1. \A c \in 0 .. i : C[c] = IF c = 0 THEN <<>> ELSE Append(C[B[c].parent], c)
      BY <2>1 DEF IsChains
    <3>2. \A c \in 0 .. i : c \in 0 .. i + 1 /\ c # i + 1
      OBVIOUS
    <3>3. QED
      BY <3>1, <3>2
  <2>3. D[i + 1] = Append(C[B[i + 1].parent], i + 1)
    OBVIOUS
  <2>4. \A c \in 1 .. i + 1 : B[c].parent \in 0 .. i
    <3>1. \A c \in 1 .. i + 1 : c \in 1 .. n /\ \A x \in 0 .. c - 1 : x \in 0 .. i
      BY <1>2
    <3>2. QED
      BY <3>1 DEF ParentsFit
  <2>5. \A c \in 0 .. i + 1 : D[c] = IF c = 0 THEN <<>> ELSE Append(D[B[c].parent], c)
    <3>1. \A c \in 0 .. i + 1 : c = i + 1 \/ c \in 0 .. i
      OBVIOUS
    <3>2. i + 1 # 0 /\ \A c \in 0 .. i + 1 : c = 0 \/ c \in 1 .. i + 1
      OBVIOUS
    <3> HIDE DEF D
    <3>3. QED
      BY <2>2, <2>3, <2>4, <3>1, <3>2
  <2>6. D = [c \in DOMAIN D |-> D[c]] /\ DOMAIN D = 0 .. i + 1
    OBVIOUS
  <2> HIDE DEF D
  <2>7. D = [c \in 0 .. i + 1 |-> IF c = 0 THEN <<>> ELSE Append(D[B[c].parent], c)]
    BY <2>5, <2>6
  <2>8. IsChains(B, i + 1, D)
    BY <2>7 DEF IsChains
  <2>9. i + 1 \in 0 .. n
    BY <1>2
  <2>10. QED
    BY <2>8, <2>9
<1>3. n \in P
  <2> HIDE DEF P
  <2>1. n \in 0 .. n
    OBVIOUS
  <2>2. QED
    BY <1>1, <1>2, <2>1, UpTo
<1>4. QED
  BY <1>3

\* and do not depend on the blocks that come later.
LEMMA ChainsAgree ==
  ASSUME NEW k \in Nat, NEW n \in Nat, NEW m \in Nat, k <= n, k <= m,
         NEW B, NEW D, ParentsFit(B, k), SameParents(B, D, k),
         NEW C, IsChains(B, n, C), NEW E, IsChains(D, m, E)
  PROVE  \A c \in 0 .. k : C[c] = E[c]
<1> DEFINE P == {i \in 0 .. k : \A c \in 0 .. i : C[c] = E[c]}
<1>1. C[0] = <<>> /\ \A c \in 1 .. n : C[c] = Append(C[B[c].parent], c)
  BY ChainsTell
<1>2. E[0] = <<>> /\ \A c \in 1 .. m : E[c] = Append(E[D[c].parent], c)
  BY ChainsTell
<1>3. 0 \in P
  <2>1. \A c \in 0 .. 0 : c = 0
    OBVIOUS
  <2>2. QED
    BY <1>1, <1>2, <2>1
<1>4. ASSUME NEW i \in 0 .. k, i < k, i \in P PROVE i + 1 \in P
  <2>1. i + 1 \in 1 .. k /\ i + 1 \in 1 .. n /\ i + 1 \in 1 .. m /\ i + 1 \in 0 .. k
    BY <1>4
  <2>2. B[i + 1].parent \in 0 .. i
    <3>1. i + 1 - 1 = i
      OBVIOUS
    <3>2. QED
      BY <2>1, <3>1 DEF ParentsFit
  <2>3. C[i + 1] = E[i + 1]
    BY <1>1, <1>2, <1>4, <2>1, <2>2 DEF SameParents
  <2>4. \A c \in 0 .. i + 1 : c = i + 1 \/ c \in 0 .. i
    OBVIOUS
  <2>5. QED
    BY <1>4, <2>1, <2>3, <2>4
<1>5. k \in P
  <2> HIDE DEF P
  <2>1. k \in 0 .. k
    OBVIOUS
  <2>2. QED
    BY <1>3, <1>4, <2>1, UpTo
<1>6. QED
  BY <1>5

\* The chain of a block: that of its parent, and the block.
LEMMA ChainToTells ==
  ASSUME NEW n \in Nat, ParentsFit(blocks, n)
  PROVE  /\ ChainTo(0) = <<>>
         /\ \A b \in 1 .. n : ChainTo(b) = Append(ChainTo(blocks[b].parent), b)
<1>1. PICK C : IsChains(blocks, n, C)
  BY ChainsAreThere
<1>2. ASSUME NEW b \in 0 .. n PROVE ChainTo(b) = C[b]
  <2>1. b \in Nat /\ b <= n /\ b \in 0 .. b
    OBVIOUS
  <2>2. ParentsFit(blocks, b)
    <3>1. \A c \in 1 .. b : c \in 1 .. n
      OBVIOUS
    <3>2. QED
      BY <3>1 DEF ParentsFit
  <2> DEFINE E == CHOOSE E : E = [c \in 0 .. b |-> IF c = 0 THEN <<>> ELSE Append(E[blocks[c].parent], c)]
  <2>3. IsChains(blocks, b, E)
    BY <2>1, <2>2, ChainsAreThere DEF IsChains
  <2>4. ChainTo(b) = E[b]
    BY DEF ChainTo
  <2> HIDE DEF E
  <2>5. E[b] = C[b]
    <3>1. SameParents(blocks, blocks, b)
      BY DEF SameParents
    <3>2. \A c \in 0 .. b : E[c] = C[c]
      BY <1>1, <2>1, <2>2, <2>3, <3>1, ChainsAgree
    <3>3. QED
      BY <2>1, <3>2
  <2>6. QED
    BY <2>4, <2>5
<1>3. C[0] = <<>> /\ \A b \in 1 .. n : C[b] = Append(C[blocks[b].parent], b)
  BY <1>1, ChainsTell
<1>4. 0 \in 0 .. n /\ \A b \in 1 .. n : b \in 0 .. n /\ blocks[b].parent \in 0 .. n
  <2>1. \A b \in 1 .. n : \A x \in 0 .. b - 1 : x \in 0 .. n
    OBVIOUS
  <2>2. QED
    BY <2>1 DEF ParentsFit
<1>5. QED
  BY <1>2, <1>3, <1>4

\* A chain that grows leaves the others as they are.
LEMMA ChainsStay ==
  ASSUME NEW n \in Nat, ParentsFit(blocks, n), \A c \in 1 .. n : blocks'[c] = blocks[c]
  PROVE  \A b \in 0 .. n : ChainTo(b)' = ChainTo(b)
<1>1. ParentsFit(blocks', n)
  BY DEF ParentsFit
<1>2. ASSUME NEW b \in 0 .. n PROVE ChainTo(b)' = ChainTo(b)
  <2>1. b \in Nat /\ b <= b /\ b \in 0 .. b /\ \A c \in 1 .. b : c \in 1 .. n
    OBVIOUS
  <2>2. ParentsFit(blocks, b) /\ ParentsFit(blocks', b)
    BY <1>1, <2>1 DEF ParentsFit
  <2> DEFINE E == CHOOSE E : E = [c \in 0 .. b |-> IF c = 0 THEN <<>> ELSE Append(E[blocks[c].parent], c)]
             F == CHOOSE F : F = [c \in 0 .. b |-> IF c = 0 THEN <<>> ELSE Append(F[blocks'[c].parent], c)]
  <2>3. IsChains(blocks, b, E)
    BY <2>1, <2>2, ChainsAreThere DEF IsChains
  <2>4. IsChains(blocks', b, F)
    BY <2>1, <2>2, ChainsAreThere DEF IsChains
  <2>5. ChainTo(b) = E[b] /\ ChainTo(b)' = F[b]
    BY DEF ChainTo
  <2> HIDE DEF E, F
  <2>6. \A c \in 0 .. b : E[c] = F[c]
    <3>1. SameParents(blocks, blocks', b)
      BY <2>1 DEF SameParents
    <3>2. QED
      BY <2>1, <2>2, <2>3, <2>4, <3>1, ChainsAgree
  <2>7. QED
    BY <2>1, <2>5, <2>6
<1>3. QED
  BY <1>2

\* A chain goes up, and its first part is the chain of the block it ends with.
ChainFits(b) ==
  /\ ChainTo(b) \in Seq(1 .. b)
  /\ b > 0 => Len(ChainTo(b)) > 0 /\ ChainTo(b)[Len(ChainTo(b))] = b
  /\ \A k \in 1 .. Len(ChainTo(b)) :
       /\ k < Len(ChainTo(b)) => ChainTo(b)[k] < b
       /\ Len(ChainTo(ChainTo(b)[k])) = k
       /\ \A i \in 1 .. k : ChainTo(ChainTo(b)[k])[i] = ChainTo(b)[i]

\* One more block.
LEMMA ChainFitsOneMore ==
  ASSUME NEW b \in Nat \ {0}, NEW p \in 0 .. b - 1, ChainFits(p),
         ChainTo(b) = Append(ChainTo(p), b)
  PROVE  ChainFits(b)
<1> DEFINE C == ChainTo(p)
           D == ChainTo(b)
           m == Len(ChainTo(p))
<1>1. C \in Seq(1 .. p) /\ C \in Seq(1 .. b) /\ m \in Nat
  <2>1. C \in Seq(1 .. p)
    BY DEF ChainFits
  <2>2. \A i \in 1 .. p : i \in 1 .. b
    OBVIOUS
  <2>3. QED
    BY <2>1, <2>2
<1>2. b \in 1 .. b
  OBVIOUS
<1>3. D \in Seq(1 .. b) /\ Len(D) = m + 1 /\ D[m + 1] = b /\ \A k \in 1 .. m : D[k] = C[k]
  BY <1>1, <1>2
<1>4. \A k \in 1 .. m : C[k] \in 1 .. p
  BY <1>1
<1> HIDE DEF C, D, m
<1>5. \A k \in 1 .. m + 1 : k = m + 1 \/ k \in 1 .. m
  BY <1>1
<1>6. ASSUME NEW k \in 1 .. m
      PROVE  D[k] < b /\ Len(ChainTo(D[k])) = k /\ \A i \in 1 .. k : ChainTo(D[k])[i] = D[i]
  <2>1. D[k] = C[k] /\ C[k] < b
    BY <1>3, <1>4
  <2>2. Len(ChainTo(C[k])) = k /\ \A i \in 1 .. k : ChainTo(C[k])[i] = C[i]
    BY DEF ChainFits, C, m
  <2>3. \A i \in 1 .. k : i \in 1 .. m
    BY <1>1
  <2>4. QED
    BY <1>3, <2>1, <2>2, <2>3
<1>7. ASSUME NEW k \in 1 .. Len(D)
      PROVE  /\ k < Len(D) => D[k] < b
             /\ Len(ChainTo(D[k])) = k
             /\ \A i \in 1 .. k : ChainTo(D[k])[i] = D[i]
  <2>1. CASE k = m + 1
    BY <1>3, <2>1 DEF D
  <2>2. CASE k \in 1 .. m
    BY <1>6, <2>2
  <2>3. QED
    BY <1>3, <1>5, <2>1, <2>2
<1>8. m + 1 > 0
  BY <1>1
<1>9. QED
  BY <1>3, <1>7, <1>8 DEF ChainFits, D

\* All chains are like that.
LEMMA ChainsFit ==
  ASSUME NEW n \in Nat, ParentsFit(blocks, n)
  PROVE  \A b \in 0 .. n : ChainFits(b)
<1> DEFINE P == {i \in 0 .. n : \A b \in 0 .. i : ChainFits(b)}
<1>1. ChainTo(0) = <<>> /\ \A b \in 1 .. n : ChainTo(b) = Append(ChainTo(blocks[b].parent), b)
  BY ChainToTells
<1>2. 0 \in P
  <2>1. ChainFits(0)
    <3>1. ChainTo(0) \in Seq(1 .. 0) /\ Len(ChainTo(0)) = 0
      <4>1. <<>> \in Seq(1 .. 0) /\ Len(<<>>) = 0
        OBVIOUS
      <4>2. ChainTo(0) = <<>>
        BY <1>1
      <4> HIDE DEF ChainTo
      <4>3. QED
        BY <4>1, <4>2
    <3>2. 1 .. 0 = {}
      OBVIOUS
    <3>3. QED
      BY <3>1, <3>2 DEF ChainFits
  <2>2. \A b \in 0 .. 0 : b = 0
    OBVIOUS
  <2>3. QED
    BY <2>1, <2>2
<1>3. ASSUME NEW i \in 0 .. n, i < n, i \in P PROVE i + 1 \in P
  <2>1. i + 1 \in 1 .. n /\ i + 1 \in Nat \ {0} /\ i + 1 - 1 = i /\ i + 1 \in 0 .. n
    BY <1>3
  <2>2. blocks[i + 1].parent \in 0 .. i + 1 - 1
    BY <2>1 DEF ParentsFit
  <2>3. ChainFits(blocks[i + 1].parent)
    BY <1>3, <2>1, <2>2
  <2>4. ChainTo(i + 1) = Append(ChainTo(blocks[i + 1].parent), i + 1)
    BY <1>1, <2>1
  <2>5. ChainFits(i + 1)
    BY SMTT(30), <2>1, <2>2, <2>3, <2>4, ChainFitsOneMore
  <2>6. \A c \in 0 .. i + 1 : c = i + 1 \/ c \in 0 .. i
    OBVIOUS
  <2>7. QED
    BY <1>3, <2>1, <2>5, <2>6
<1>4. n \in P
  <2> HIDE DEF P
  <2>1. n \in 0 .. n
    OBVIOUS
  <2>2. QED
    BY <1>2, <1>3, <2>1, UpTo
<1>5. QED
  BY <1>4

-----------------------------------------------------------------------------
(***************************************************************************)
(* What the functions of Transaction.c do to the state of a node.          *)
(***************************************************************************)
Txns == 0 .. TXN_NUMBER - 1
Data == [low : 0 .. TXN_NUMBER, high : 0 .. TXN_NUMBER, included : SUBSET Txns]
TxnState == [bitmap : SUBSET Txns, low : 0 .. TXN_NUMBER, high : 0 .. TXN_NUMBER]

\* All that lies below low has been executed.
LowFits(s) == 0 .. s.low - 1 \subseteq s.bitmap

\* deliverNewTransactions goes over executed transactions only.
LEMMA DeliveredTells ==
  ASSUME NEW s \in TxnState, NEW t \in Nat, LowFits(s), TXN_NUMBER \in Nat
  PROVE  /\ Delivered(s, t) \in TxnState /\ LowFits(Delivered(s, t))
         /\ Delivered(s, t).bitmap = s.bitmap
<1> DEFINE L == {i \in s.low .. TXN_NUMBER : i \notin s.bitmap}
           H == {TXN_NUMBER} \cup {i \in s.high .. TXN_NUMBER - 1 : Timestamp(i) > t}
<1>1. /\ s.low \in 0 .. TXN_NUMBER /\ s.high \in 0 .. TXN_NUMBER /\ s.bitmap \in SUBSET Txns
      /\ TXN_NUMBER \notin Txns
  BY DEF TxnState, Txns
<1>2. L \in SUBSET (0 .. TXN_NUMBER) /\ TXN_NUMBER \in L
  BY <1>1
<1>3. H \in SUBSET (0 .. TXN_NUMBER) /\ TXN_NUMBER \in H
  BY <1>1
<1>4. 0 .. TXN_NUMBER \subseteq Nat
  OBVIOUS
<1>5. Min(L) \in L /\ \A y \in L : Min(L) <= y
  <2> HIDE DEF L
  <2> QED
    BY <1>2, <1>4, MinIsLeast
<1>6. Min(H) \in H
  <2> HIDE DEF H
  <2> QED
    BY <1>3, <1>4, MinIsLeast
<1>7. \A i \in 0 .. Min(L) - 1 : i \in s.bitmap
  <2>1. SUFFICES ASSUME NEW i \in 0 .. Min(L) - 1, i \notin s.bitmap PROVE FALSE
    OBVIOUS
  <2>2. Min(L) \in 0 .. TXN_NUMBER
    BY <1>2, <1>5
  <2>3. i \in Nat /\ i < Min(L) /\ i <= TXN_NUMBER
    <3> HIDE DEF L
    <3> QED
      BY <2>1, <2>2
  <2>4. ~ (i < s.low)
    <3>1. i < s.low => i \in 0 .. s.low - 1
      BY <1>1, <2>3
    <3>2. QED
      BY <2>1, <3>1 DEF LowFits
  <2>5. i \in L
    BY <1>1, <2>1, <2>3, <2>4
  <2>6. Min(L) <= i
    BY <1>5, <2>5
  <2> HIDE DEF L
  <2>7. QED
    BY <2>2, <2>3, <2>6
<1>8. Delivered(s, t) = [s EXCEPT !.low = Min(L), !.high = Min(H)]
  BY DEF Delivered
<1>9. Min(L) \in 0 .. TXN_NUMBER /\ Min(H) \in 0 .. TXN_NUMBER
  BY <1>2, <1>3, <1>5, <1>6
<1> HIDE DEF L, H
<1>10. /\ Delivered(s, t) \in TxnState /\ Delivered(s, t).bitmap = s.bitmap
       /\ Delivered(s, t).low = Min(L)
  BY <1>8, <1>9 DEF TxnState
<1>11. QED
  BY <1>7, <1>10 DEF LowFits

\* generateTransactionData takes none that has been executed.
LEMMA DataTells ==
  ASSUME NEW s \in TxnState, NEW t \in Nat, NEW n, LowFits(s), TXN_NUMBER \in Nat
  PROVE  /\ TransactionData(s, t, n) \in Data
         /\ Executes(TransactionData(s, t, n)) \cap s.bitmap = {}
         /\ 0 .. TransactionData(s, t, n).low - 1 \subseteq s.bitmap
<1> DEFINE d == TransactionData(s, t, n)
           S == Available(s, t, n)
           last == Max({s.low} \cup S)
<1>1. /\ s.low \in 0 .. TXN_NUMBER /\ s.high \in 0 .. TXN_NUMBER /\ s.bitmap \in SUBSET Txns
      /\ s.low \in Nat /\ s.high \in Nat
  BY DEF TxnState
<1>2. CASE s.high <= s.low
  <2>1. d = [low |-> 0, high |-> 0, included |-> {}]
    BY <1>2 DEF TransactionData
  <2>2. d \in Data /\ Executes(d) = {} /\ 0 .. d.low - 1 = {}
    BY <2>1 DEF Data, Executes
  <2>3. QED
    BY <2>2
<1>3. CASE ~ (s.high <= s.low)
  <2>1. d = [low |-> s.low, included |-> S, high |-> IF last = s.low THEN last ELSE last + 1]
    BY <1>3 DEF TransactionData
  <2>2. S \in SUBSET (s.low .. s.high - 1) /\ S \cap s.bitmap = {}
    BY DEF Available
  <2>3. {s.low} \cup S \in SUBSET (s.low .. s.high - 1)
    BY <1>1, <1>3, <2>2
  <2>4. last \in {s.low} \cup S
    <3>1. s.low .. s.high - 1 \subseteq Nat /\ s.high - 1 \in Nat
          /\ \A x \in s.low .. s.high - 1 : x <= s.high - 1
      BY <1>1, <1>3
    <3>2. {s.low} \cup S \in SUBSET Nat /\ {s.low} \cup S # {}
          /\ \A x \in {s.low} \cup S : x <= s.high - 1
      BY <2>3, <3>1
    <3> HIDE DEF S
    <3>3. QED
      BY <3>1, <3>2, MaxIsGreatest
  <2>5. last \in s.low .. s.high - 1
    BY <2>3, <2>4
  <2> HIDE DEF last
  <2>6. last \in 0 .. TXN_NUMBER /\ last + 1 \in 0 .. TXN_NUMBER
    BY <1>1, <2>5
  <2>7. S \in SUBSET Txns
    <3>1. s.low .. s.high - 1 \subseteq Txns
      BY <1>1 DEF Txns
    <3>2. QED
      BY <2>2, <3>1
  <2> HIDE DEF S
  <2>8. d \in Data /\ d.low = s.low /\ d.included = S
    <3>1. (IF last = s.low THEN last ELSE last + 1) \in 0 .. TXN_NUMBER
      BY <2>6
    <3>2. QED
      BY <1>1, <2>1, <2>7, <3>1 DEF Data
  <2> HIDE DEF d
  <2>9. Executes(d) \subseteq S
    BY <2>8 DEF Executes
  <2>10. QED
    BY <2>2, <2>8, <2>9 DEF LowFits, d
<1>4. QED
  BY <1>2, <1>3

\* applyBlockTransactions and revertAppliedBlockTransactions.
LEMMA AppliedTells ==
  ASSUME NEW s \in TxnState, NEW d \in Data, TXN_NUMBER \in Nat
  PROVE  /\ Applied(s, d) \in TxnState /\ Applied(s, d).low = s.low
         /\ Applied(s, d).bitmap = s.bitmap \cup Executes(d)
<1>1. s.high \in 0 .. TXN_NUMBER /\ d.high \in 0 .. TXN_NUMBER /\ Executes(d) \in SUBSET Txns
  BY DEF TxnState, Data, Executes
<1>2. Max({s.high, d.high}) \in 0 .. TXN_NUMBER
  <2>1. {s.high, d.high} \in SUBSET Nat /\ {s.high, d.high} # {}
        /\ \A x \in {s.high, d.high} : x <= TXN_NUMBER
    BY <1>1
  <2>2. Max({s.high, d.high}) \in {s.high, d.high}
    BY <2>1, MaxIsGreatest
  <2>3. QED
    BY <1>1, <2>2
<1>3. Applied(s, d) = [s EXCEPT !.bitmap = @ \cup Executes(d), !.high = Max({s.high, d.high})]
  BY DEF Applied
<1>4. QED
  BY <1>1, <1>2, <1>3 DEF TxnState

\* Undoing a block.
LEMMA RevertedTells ==
  ASSUME NEW s \in TxnState, NEW d \in Data, TXN_NUMBER \in Nat
  PROVE  /\ Reverted(s, d) \in TxnState
         /\ Reverted(s, d).low <= d.low /\ Reverted(s, d).low <= s.low
         /\ Reverted(s, d).bitmap = s.bitmap \ Executes(d)
<1>1. s.low \in 0 .. TXN_NUMBER /\ d.low \in 0 .. TXN_NUMBER
  BY DEF TxnState, Data
<1>2. /\ Min({s.low, d.low}) \in 0 .. TXN_NUMBER
      /\ Min({s.low, d.low}) <= s.low /\ Min({s.low, d.low}) <= d.low
  <2>1. {s.low, d.low} \in SUBSET Nat /\ {s.low, d.low} # {}
    BY <1>1
  <2>2. /\ Min({s.low, d.low}) \in {s.low, d.low}
        /\ \A y \in {s.low, d.low} : Min({s.low, d.low}) <= y
    BY <2>1, MinIsLeast
  <2>3. QED
    BY <1>1, <2>2
<1>3. Reverted(s, d) = [s EXCEPT !.bitmap = @ \ Executes(d), !.low = Min({s.low, d.low})]
  BY DEF Reverted
<1>4. QED
  BY <1>2, <1>3 DEF TxnState

-----------------------------------------------------------------------------
(***************************************************************************)
(* switchChains.                                                           *)
(***************************************************************************)
\* Taking steps from x, each given by a function of the state before.
AreSteps(m, X, F) == F \in [1 .. m -> [X -> X]]
Takes(m, X, x, F, G) ==
  G \in [0 .. m -> X] /\ G[0] = x /\ \A i \in 1 .. m : G[i] = F[i][G[i - 1]]

\* They can be taken: the states they go through are the values of a function.
LEMMA Iterated ==
  ASSUME NEW m \in Nat, NEW X, NEW x \in X, NEW F, AreSteps(m, X, F)
  PROVE  \E G : Takes(m, X, x, F, G)
<1> DEFINE Is(k, G) == G[0] = x /\ \A i \in 1 .. k : G[i] = F[i][G[i - 1]]
           P == {k \in 0 .. m : \E G \in [0 .. k -> X] : Is(k, G)}
<1>1. 0 \in P
  <2> DEFINE G == [i \in 0 .. 0 |-> x]
  <2>1. G \in [0 .. 0 -> X] /\ G[0] = x /\ \A i \in 1 .. 0 : FALSE
    OBVIOUS
  <2> HIDE DEF G
  <2>2. QED
    BY <2>1
<1>2. ASSUME NEW k \in 0 .. m, k < m, k \in P PROVE k + 1 \in P
  <2>1. PICK G \in [0 .. k -> X] : Is(k, G)
    BY <1>2
  <2> DEFINE D == [i \in 0 .. k + 1 |-> IF i = k + 1 THEN F[k + 1][G[k]] ELSE G[i]]
  <2>2. k + 1 \in 1 .. m /\ k + 1 \in 0 .. m /\ k \in 0 .. k /\ k + 1 - 1 = k
    BY <1>2
  <2>3. F[k + 1][G[k]] \in X
    BY <2>1, <2>2 DEF AreSteps
  <2>4. D[k + 1] = F[k + 1][G[k]] /\ \A i \in 0 .. k : D[i] = G[i]
    <3>1. k + 1 \in 0 .. k + 1 /\ \A i \in 0 .. k : i \in 0 .. k + 1 /\ i # k + 1
      BY <2>2
    <3>2. QED
      BY <3>1
  <2>5. D \in [0 .. k + 1 -> X]
    <3>1. \A i \in 0 .. k + 1 : i = k + 1 \/ i \in 0 .. k
      OBVIOUS
    <3>2. QED
      BY <2>1, <2>3, <3>1
  <2> HIDE DEF D
  <2>6. \A i \in 1 .. k + 1 : D[i] = F[i][D[i - 1]]
    <3>1. \A i \in 1 .. k + 1 : i = k + 1 \/ (i \in 1 .. k /\ i \in 0 .. k /\ i - 1 \in 0 .. k)
      OBVIOUS
    <3>2. QED
      BY <2>1, <2>2, <2>4, <3>1
  <2>7. D[0] = x
    <3>1. 0 \in 0 .. k
      OBVIOUS
    <3>2. QED
      BY <2>1, <2>4, <3>1
  <2>8. QED
    BY <2>2, <2>5, <2>6, <2>7
<1>3. m \in P
  <2> HIDE DEF P
  <2>1. m \in 0 .. m
    OBVIOUS
  <2>2. QED
    BY <1>1, <1>2, <2>1, UpTo
<1>4. QED
  BY <1>3 DEF Takes

\* The longest common prefix of two sequences is one.
LEMMA CommonTells ==
  ASSUME NEW S, NEW s \in Seq(S), NEW t \in Seq(S)
  PROVE  LET n == Len(LongestCommonPrefix({s, t}))
         IN  n \in Nat /\ n <= Len(s) /\ n <= Len(t) /\ \A i \in 1 .. n : s[i] = t[i]
<1> DEFINE P == CommonPrefixes({s, t})
           L == LongestCommonPrefix({s, t})
<1>1. \A p \in P : /\ Len(p) \in Nat /\ Len(p) <= Len(s) /\ Len(p) <= Len(t)
                   /\ SubSeq(s, 1, Len(p)) = SubSeq(t, 1, Len(p))
  <2>1. \A p \in P : IsPrefix(p, s) /\ IsPrefix(p, t)
    BY DEF CommonPrefixes
  <2>2. \A p \in P : p \in Prefixes(s) \/ p \in Prefixes(t)
    BY DEF CommonPrefixes
  <2>3. \A l \in 0 .. Len(s) : Len(SubSeq(s, 1, l)) \in Nat
    BY SubSeqProperties
  <2>4. \A l \in 0 .. Len(t) : Len(SubSeq(t, 1, l)) \in Nat
    BY SubSeqProperties
  <2>5. \A p \in P : Len(p) \in Nat
    BY <2>2, <2>3, <2>4 DEF Prefixes
  <2>6. \A p \in P : Len(p) <= Len(s) /\ Len(p) <= Len(t)
                     /\ SubSeq(p, 1, Len(p)) = SubSeq(s, 1, Len(p))
                     /\ SubSeq(p, 1, Len(p)) = SubSeq(t, 1, Len(p))
    BY <2>1 DEF IsPrefix
  <2> HIDE DEF P
  <2>7. QED
    BY <2>5, <2>6
<1>2. <<>> \in P
  <2>1. SubSeq(s, 1, 0) = <<>> /\ SubSeq(t, 1, 0) = <<>> /\ SubSeq(<<>>, 1, 0) = <<>>
    OBVIOUS
  <2>2. Len(s) \in Nat /\ Len(t) \in Nat /\ Len(<<>>) = 0
    OBVIOUS
  <2>3. <<>> \in Prefixes(s)
    <3>1. 0 \in 0 .. Len(s)
      BY <2>2
    <3>2. QED
      BY <2>1, <3>1 DEF Prefixes
  <2>4. IsPrefix(<<>>, s) /\ IsPrefix(<<>>, t)
    BY <2>1, <2>2 DEF IsPrefix
  <2>5. QED
    BY <2>3, <2>4 DEF CommonPrefixes
<1>3. L \in P
  <2> DEFINE R == {Len(p) : p \in P}
  <2> HIDE DEF P
  <2>1. R \in SUBSET Nat /\ R # {} /\ Len(s) \in Nat /\ \A x \in R : x <= Len(s)
    <3>1. Len(s) \in Nat
      OBVIOUS
    <3>2. \A p \in P : Len(p) \in Nat /\ Len(p) <= Len(s)
      BY <1>1
    <3>3. P # {}
      BY <1>2
    <3>4. QED
      BY <3>1, <3>2, <3>3
  <2>2. Max(R) \in R /\ \A y \in R : y <= Max(R)
    <3> HIDE DEF R
    <3> QED
      BY <2>1, MaxIsGreatest
  <2>3. PICK p \in P : Len(p) = Max(R)
    BY <2>2
  <2>4. \A q \in P : Len(q) <= Len(p)
    BY <2>2, <2>3
  <2>5. L = CHOOSE longest \in P : \A other \in P : Len(other) <= Len(longest)
    BY DEF LongestCommonPrefix, P
  <2>6. QED
    BY <2>4, <2>5
<1>4. Len(L) \in Nat /\ Len(L) <= Len(s) /\ Len(L) <= Len(t)
      /\ SubSeq(s, 1, Len(L)) = SubSeq(t, 1, Len(L))
  <2> HIDE DEF P, L
  <2> QED
    BY <1>1, <1>3
<1> HIDE DEF L, P
<1>5. \A i \in 1 .. Len(L) : SubSeq(s, 1, Len(L))[i] = s[i] /\ SubSeq(t, 1, Len(L))[i] = t[i]
  <2>1. \A i \in 1 .. Len(L) : i \in 1 .. Len(L) - 1 + 1 /\ 1 + i - 1 = i
    BY <1>4
  <2>2. \A x \in 1 .. Len(L) : x \in 1 .. Len(s) /\ x \in 1 .. Len(t)
    BY <1>4
  <2>3. QED
    BY <1>4, <2>1, <2>2, SubSeqProperties
<1>6. QED
  BY <1>4, <1>5 DEF L

\* The transactions of the first k blocks of a chain.
ExecOf(C, k) == UNION {Executes(blocks[C[i]].data) : i \in 1 .. k}

\* The blocks of a chain are told by an index: each of them has transactions of its own, and
\* what lies below its low was executed by those before it.
ChainCovers(C) ==
  /\ Len(C) \in Nat
  /\ \A k \in 1 .. Len(C) : blocks[C[k]].data \in Data
  /\ \A i, j \in 1 .. Len(C) :
       i # j => Executes(blocks[C[i]].data) \cap Executes(blocks[C[j]].data) = {}
  /\ \A k \in 1 .. Len(C) : 0 .. blocks[C[k]].data.low - 1 \subseteq ExecOf(C, k - 1)

\* One more block of a chain.
LEMMA ExecOneMore ==
  ASSUME NEW C, NEW k \in Nat
  PROVE  ExecOf(C, k + 1) = ExecOf(C, k) \cup Executes(blocks[C[k + 1]].data)
<1>1. 1 .. k + 1 = (1 .. k) \cup {k + 1}
  OBVIOUS
<1>2. QED
  BY <1>1 DEF ExecOf

\* A block has none of the transactions of those before it.
LEMMA ExecApart ==
  ASSUME NEW C, ChainCovers(C), NEW k \in Nat, k < Len(C)
  PROVE  ExecOf(C, k) \cap Executes(blocks[C[k + 1]].data) = {}
<1>1. k + 1 \in 1 .. Len(C) /\ \A i \in 1 .. k : i \in 1 .. Len(C) /\ i # k + 1
  BY DEF ChainCovers
<1>2. \A i \in 1 .. k : Executes(blocks[C[i]].data) \cap Executes(blocks[C[k + 1]].data) = {}
  BY <1>1 DEF ChainCovers
<1>3. QED
  BY <1>2 DEF ExecOf

\* What is left to undo a chain down to block k, from the state s of its tip.
IsBack(s, C, k, B) ==
  B = [i \in k .. Len(C) |->
         IF i = Len(C) THEN s ELSE Reverted(B[i + 1], blocks[C[i + 1]].data)]

\* And to go on from block k to the tip.
IsOn(s, C, k, B) ==
  B = [i \in k .. Len(C) |-> IF i = k THEN s ELSE Applied(B[i - 1], blocks[C[i]].data)]

\* The state of a node whose main chain ends with the k-th block of a chain.
IsAt(s, C, k) == s \in TxnState /\ s.bitmap = ExecOf(C, k) /\ LowFits(s)

\* Both are defined,
LEMMA BackIsThere ==
  ASSUME NEW s \in TxnState, NEW C, ChainCovers(C), NEW k \in Nat, k <= Len(C), TXN_NUMBER \in Nat
  PROVE  \E B : IsBack(s, C, k, B)
<1> DEFINE n == Len(C)
           m == n - k
           F == [i \in 1 .. m |-> [x \in TxnState |-> Reverted(x, blocks[C[n - i + 1]].data)]]
<1>1. n \in Nat /\ m \in Nat
  BY DEF ChainCovers
<1>2. AreSteps(m, TxnState, F)
  <2>1. ASSUME NEW i \in 1 .. m, NEW x \in TxnState
        PROVE  Reverted(x, blocks[C[n - i + 1]].data) \in TxnState
    <3>1. n - i + 1 \in 1 .. Len(C)
      BY <1>1
    <3>2. blocks[C[n - i + 1]].data \in Data
      BY <3>1 DEF ChainCovers
    <3>3. QED
      BY <3>2, RevertedTells
  <2>2. QED
    BY <2>1 DEF AreSteps
<1>3. \A i \in 1 .. m, x \in TxnState : F[i][x] = Reverted(x, blocks[C[n - i + 1]].data)
  OBVIOUS
<1> HIDE DEF F
<1>4. PICK G : Takes(m, TxnState, s, F, G)
  <2> HIDE DEF m
  <2> QED
    BY <1>1, <1>2, Iterated
<1> DEFINE B == [i \in k .. n |-> G[n - i]]
<1>5. ASSUME NEW i \in k .. n
      PROVE  B[i] = IF i = n THEN s ELSE Reverted(B[i + 1], blocks[C[i + 1]].data)
  <2>1. CASE i = n
    <3>1. n - i = 0
      BY <1>1, <2>1
    <3>2. QED
      BY <1>4, <2>1, <3>1 DEF Takes
  <2>2. CASE i # n
    <3>1. /\ n - i \in 1 .. m /\ n - i - 1 \in 0 .. m /\ n - (i + 1) = n - i - 1
          /\ n - (n - i) + 1 = i + 1 /\ i + 1 \in k .. n
      BY <1>1, <2>2
    <3>2. B[i] = G[n - i] /\ B[i + 1] = G[n - i - 1]
      BY <3>1
    <3>3. G[n - i - 1] \in TxnState /\ G[n - i] = F[n - i][G[n - i - 1]]
      BY <1>4, <3>1 DEF Takes
    <3>4. G[n - i] = Reverted(G[n - i - 1], blocks[C[n - (n - i) + 1]].data)
      BY <1>3, <3>1, <3>3
    <3>5. QED
      BY <2>2, <3>1, <3>2, <3>4
  <2>3. QED
    BY <2>1, <2>2
<1>6. B = [i \in DOMAIN B |-> B[i]] /\ DOMAIN B = k .. n
  OBVIOUS
<1> HIDE DEF B
<1>7. B = [i \in k .. n |-> IF i = n THEN s ELSE Reverted(B[i + 1], blocks[C[i + 1]].data)]
  BY <1>5, <1>6
<1>8. QED
  BY <1>7 DEF IsBack

\* in both directions.
LEMMA OnIsThere ==
  ASSUME NEW s \in TxnState, NEW C, ChainCovers(C), NEW k \in Nat, k <= Len(C), TXN_NUMBER \in Nat
  PROVE  \E B : IsOn(s, C, k, B)
<1> DEFINE n == Len(C)
           m == n - k
           F == [i \in 1 .. m |-> [x \in TxnState |-> Applied(x, blocks[C[k + i]].data)]]
<1>1. n \in Nat /\ m \in Nat
  BY DEF ChainCovers
<1>2. AreSteps(m, TxnState, F)
  <2>1. ASSUME NEW i \in 1 .. m, NEW x \in TxnState
        PROVE  Applied(x, blocks[C[k + i]].data) \in TxnState
    <3>1. k + i \in 1 .. Len(C)
      BY <1>1
    <3>2. blocks[C[k + i]].data \in Data
      BY <3>1 DEF ChainCovers
    <3>3. QED
      BY <3>2, AppliedTells
  <2>2. QED
    BY <2>1 DEF AreSteps
<1>3. \A i \in 1 .. m, x \in TxnState : F[i][x] = Applied(x, blocks[C[k + i]].data)
  OBVIOUS
<1> HIDE DEF F
<1>4. PICK G : Takes(m, TxnState, s, F, G)
  <2> HIDE DEF m
  <2> QED
    BY <1>1, <1>2, Iterated
<1> DEFINE B == [i \in k .. n |-> G[i - k]]
<1>5. ASSUME NEW i \in k .. n
      PROVE  B[i] = IF i = k THEN s ELSE Applied(B[i - 1], blocks[C[i]].data)
  <2>1. CASE i = k
    <3>1. i - k = 0
      BY <2>1
    <3>2. QED
      BY <1>4, <2>1, <3>1 DEF Takes
  <2>2. CASE i # k
    <3>1. /\ i - k \in 1 .. m /\ i - k - 1 \in 0 .. m /\ i - 1 - k = i - k - 1
          /\ k + (i - k) = i /\ i - 1 \in k .. n
      BY <1>1, <2>2
    <3>2. B[i] = G[i - k] /\ B[i - 1] = G[i - k - 1]
      BY <3>1
    <3>3. G[i - k - 1] \in TxnState /\ G[i - k] = F[i - k][G[i - k - 1]]
      BY <1>4, <3>1 DEF Takes
    <3>4. G[i - k] = Applied(G[i - k - 1], blocks[C[k + (i - k)]].data)
      BY <1>3, <3>1, <3>3
    <3>5. QED
      BY <2>2, <3>1, <3>2, <3>4
  <2>3. QED
    BY <2>1, <2>2
<1>6. B = [i \in DOMAIN B |-> B[i]] /\ DOMAIN B = k .. n
  OBVIOUS
<1> HIDE DEF B
<1>7. B = [i \in k .. n |-> IF i = k THEN s ELSE Applied(B[i - 1], blocks[C[i]].data)]
  BY <1>5, <1>6
<1>8. QED
  BY <1>7 DEF IsOn

\* Undoing leaves what the first k blocks have executed,
LEMMA BackTells ==
  ASSUME NEW s, NEW C, ChainCovers(C), NEW k \in Nat, k <= Len(C), TXN_NUMBER \in Nat,
         IsAt(s, C, Len(C)), NEW B, IsBack(s, C, k, B)
  PROVE  IsAt(B[k], C, k)
<1> DEFINE n == Len(C)
           m == n - k
           P == {d \in 0 .. m : IsAt(B[n - d], C, n - d)}
<1>1. n \in Nat /\ m \in Nat
  BY DEF ChainCovers
<1>2. \A i \in k .. n :
        B[i] = IF i = n THEN s ELSE Reverted(B[i + 1], blocks[C[i + 1]].data)
  BY DEF IsBack
<1>3. 0 \in P
  <2>1. n - 0 = n /\ n \in k .. n
    BY <1>1
  <2>2. B[n] = s
    BY <1>2, <2>1
  <2>3. QED
    BY <1>1, <2>1, <2>2
<1>4. ASSUME NEW d \in 0 .. m, d < m, d \in P PROVE d + 1 \in P
  <2> DEFINE j == n - (d + 1)
  <2>1. j \in k .. n /\ j # n /\ j + 1 = n - d /\ j \in Nat /\ j < n /\ j + 1 \in 1 .. n
        /\ d + 1 \in 0 .. m /\ j + 1 - 1 = j
    BY <1>1, <1>4
  <2> DEFINE x == B[j + 1]
             y == blocks[C[j + 1]].data
  <2>2. B[j] = Reverted(x, y)
    BY <1>2, <2>1
  <2>3. IsAt(x, C, j + 1)
    BY <1>4, <2>1
  <2> HIDE DEF j
  <2>4. y \in Data /\ 0 .. y.low - 1 \subseteq ExecOf(C, j)
    BY <2>1 DEF ChainCovers
  <2>5. ExecOf(C, j + 1) = ExecOf(C, j) \cup Executes(y) /\ ExecOf(C, j) \cap Executes(y) = {}
    BY <2>1, ExecOneMore, ExecApart
  <2> HIDE DEF x, y
  <2>6. /\ B[j] \in TxnState /\ B[j].low <= y.low
        /\ B[j].bitmap = x.bitmap \ Executes(y)
    BY <2>2, <2>3, <2>4, RevertedTells DEF IsAt
  <2>7. x.bitmap = ExecOf(C, j + 1)
    BY <2>3 DEF IsAt
  <2>8. B[j].bitmap = ExecOf(C, j)
    BY <2>5, <2>6, <2>7
  <2>9. 0 .. B[j].low - 1 \subseteq 0 .. y.low - 1
    <3>1. B[j].low \in Nat /\ y.low \in Nat
      BY <2>4, <2>6 DEF TxnState, Data
    <3>2. QED
      BY <2>6, <3>1
  <2>10. IsAt(B[j], C, j)
    BY <2>1, <2>4, <2>6, <2>8, <2>9 DEF IsAt, LowFits
  <2>11. QED
    BY <2>1, <2>10 DEF j
<1>5. m \in P
  <2>1. m \in 0 .. m
    BY <1>1
  <2> HIDE DEF P, m
  <2>2. QED
    BY <1>1, <1>3, <1>4, <2>1, UpTo
<1>6. n - m = k
  BY <1>1
<1>7. IsAt(B[n - m], C, n - m)
  BY <1>5
<1> HIDE DEF m
<1>8. QED
  BY <1>6, <1>7

\* and going on adds what the others execute.
LEMMA OnTells ==
  ASSUME NEW s, NEW C, ChainCovers(C), NEW k \in Nat, k <= Len(C), TXN_NUMBER \in Nat,
         IsAt(s, C, k), NEW B, IsOn(s, C, k, B)
  PROVE  IsAt(B[Len(C)], C, Len(C))
<1> DEFINE n == Len(C)
           m == n - k
           P == {d \in 0 .. m : IsAt(B[k + d], C, k + d)}
<1>1. n \in Nat /\ m \in Nat
  BY DEF ChainCovers
<1>2. \A i \in k .. n : B[i] = IF i = k THEN s ELSE Applied(B[i - 1], blocks[C[i]].data)
  BY DEF IsOn
<1>3. 0 \in P
  <2>1. k + 0 = k /\ k \in k .. n
    BY <1>1
  <2>2. B[k] = s
    BY <1>2, <2>1
  <2>3. QED
    BY <1>1, <2>1, <2>2
<1>4. ASSUME NEW d \in 0 .. m, d < m, d \in P PROVE d + 1 \in P
  <2> DEFINE j == k + d
  <2>1. j + 1 \in k .. n /\ j + 1 # k /\ j + 1 = k + (d + 1) /\ j \in Nat /\ j + 1 \in 1 .. n
        /\ d + 1 \in 0 .. m /\ j + 1 - 1 = j
    BY <1>1, <1>4
  <2> DEFINE x == B[j]
             y == blocks[C[j + 1]].data
  <2>2. B[j + 1] = Applied(x, y)
    BY <1>2, <2>1
  <2>3. IsAt(x, C, j)
    BY <1>4
  <2>4. y \in Data
    BY <2>1 DEF ChainCovers
  <2> HIDE DEF j
  <2>5. ExecOf(C, j + 1) = ExecOf(C, j) \cup Executes(y)
    BY <2>1, ExecOneMore
  <2> HIDE DEF x, y
  <2>6. /\ B[j + 1] \in TxnState /\ B[j + 1].low = x.low
        /\ B[j + 1].bitmap = x.bitmap \cup Executes(y)
    BY <2>2, <2>3, <2>4, AppliedTells DEF IsAt
  <2>7. IsAt(B[j + 1], C, j + 1)
    BY <2>3, <2>5, <2>6 DEF IsAt, LowFits
  <2>8. QED
    BY <2>1, <2>7
<1>5. m \in P
  <2>1. m \in 0 .. m
    BY <1>1
  <2> HIDE DEF P, m
  <2>2. QED
    BY <1>1, <1>3, <1>4, <2>1, UpTo
<1>6. k + m = n
  BY <1>1
<1>7. IsAt(B[k + m], C, k + m)
  BY <1>5
<1> HIDE DEF m
<1>8. QED
  BY <1>6, <1>7

\* A node that changes its chain has executed the transactions of the new one.
LEMMA SwitchedTells ==
  ASSUME NEW a, NEW b, NEW S, ChainTo(a) \in Seq(S), ChainTo(b) \in Seq(S), TXN_NUMBER \in Nat,
         ChainCovers(ChainTo(a)), ChainCovers(ChainTo(b)),
         NEW s, IsAt(s, ChainTo(a), Len(ChainTo(a)))
  PROVE  IsAt(Switched(s, a, b), ChainTo(b), Len(ChainTo(b)))
<1> DEFINE old == ChainTo(a)
           new == ChainTo(b)
           k == Len(LongestCommonPrefix({old, new}))
           Back == CHOOSE B : IsBack(s, old, k, B)
           On == CHOOSE B : IsOn(Back[k], new, k, B)
<1>1. k \in Nat /\ k <= Len(old) /\ k <= Len(new) /\ \A i \in 1 .. k : old[i] = new[i]
  BY CommonTells
<1>2. Switched(s, a, b) = On[Len(new)]
  BY DEF Switched, IsBack, IsOn
<1>3. ChainCovers(old) /\ ChainCovers(new) /\ IsAt(s, old, Len(old))
  OBVIOUS
<1> HIDE DEF k, old, new
<1>4. IsAt(Back[k], old, k)
  <2>1. IsBack(s, old, k, Back)
    BY <1>1, <1>3, BackIsThere DEF IsAt
  <2> HIDE DEF Back
  <2>2. QED
    BY <1>1, <1>3, <2>1, BackTells
<1> HIDE DEF Back
<1>5. IsAt(Back[k], new, k)
  <2>1. ExecOf(old, k) = ExecOf(new, k)
    BY <1>1 DEF ExecOf
  <2>2. QED
    BY <1>4, <2>1 DEF IsAt
<1>6. IsOn(Back[k], new, k, On)
  BY <1>1, <1>3, <1>5, OnIsThere DEF IsAt
<1> HIDE DEF On
<1>7. IsAt(On[Len(new)], new, Len(new))
  BY <1>1, <1>3, <1>5, <1>6, OnTells
<1>8. QED
  BY <1>2, <1>7 DEF new

-----------------------------------------------------------------------------
(***************************************************************************)
(* The invariant.                                                          *)
(***************************************************************************)
BlockRec == [parent : Nat, data : Data]

TxnTypeOK ==
  /\ now \in Nat /\ blocks \in Seq(BlockRec)
  /\ main \in [Miners -> 0 .. Len(blocks)]
  /\ transactionState \in [Miners -> TxnState]

\* What the blocks before and with b have executed.
ExecutedBy(b) == ExecOf(ChainTo(b), Len(ChainTo(b)))

\* A block has nothing that its chain has executed before it, and all below its low was
\* executed there.
BlockFits(b) ==
  /\ Executes(blocks[b].data) \cap ExecutedBy(blocks[b].parent) = {}
  /\ 0 .. blocks[b].data.low - 1 \subseteq ExecutedBy(blocks[b].parent)

IInv ==
  /\ TxnTypeOK
  /\ ParentsFit(blocks, Len(blocks))
  /\ \A b \in Ids : BlockFits(b)
  /\ \A n \in Miners : /\ transactionState[n].bitmap = ExecutedBy(main[n])
                       /\ LowFits(transactionState[n])

\* What the chain of a block executes, in terms of its parent.
LEMMA ExecutedTells ==
  ASSUME NEW n \in Nat, ParentsFit(blocks, n), NEW b \in 1 .. n
  PROVE  /\ ChainTo(b) = Append(ChainTo(blocks[b].parent), b)
         /\ ExecutedBy(b) = ExecutedBy(blocks[b].parent) \cup Executes(blocks[b].data)
         /\ \A k \in 1 .. Len(ChainTo(blocks[b].parent)) :
              ChainTo(b)[k] = ChainTo(blocks[b].parent)[k]
<1> DEFINE p == blocks[b].parent
           C == ChainTo(b)
           D == ChainTo(p)
           m == Len(D)
<1>1. C = Append(D, b)
  BY ChainToTells
<1>2. p \in 0 .. n
  <2>1. p \in 0 .. b - 1
    BY DEF ParentsFit
  <2>2. QED
    BY <2>1
<1>3. D \in Seq(1 .. p)
  BY <1>2, ChainsFit DEF ChainFits
<1> HIDE DEF C, D, p
<1>4. m \in Nat /\ Len(C) = m + 1 /\ C[m + 1] = b /\ \A k \in 1 .. m : C[k] = D[k]
  <2>1. D \in Seq(Nat) /\ b \in Nat
    <3>1. \A i \in 1 .. p : i \in Nat
      BY <1>2
    <3>2. D \in Seq(Nat)
      BY <1>3, <3>1, SeqMonotonic
    <3>3. QED
      BY <3>2
  <2>2. QED
    BY <1>1, <2>1
<1>5. ExecOf(C, m) = ExecOf(D, m)
  BY <1>4 DEF ExecOf
<1>6. ExecOf(C, m + 1) = ExecOf(C, m) \cup Executes(blocks[b].data)
  BY <1>4, ExecOneMore
<1>7. QED
  BY <1>1, <1>4, <1>5, <1>6 DEF ExecutedBy, C, D, p

\* The chain of the k-th block of a chain, and what it has executed.
LEMMA ChainPart ==
  ASSUME NEW n \in Nat, ParentsFit(blocks, n), NEW b \in 0 .. n, NEW k \in 1 .. Len(ChainTo(b))
  PROVE  /\ ChainTo(b)[k] \in 1 .. n
         /\ ExecutedBy(ChainTo(b)[k]) = ExecOf(ChainTo(b), k)
         /\ ExecutedBy(blocks[ChainTo(b)[k]].parent) = ExecOf(ChainTo(b), k - 1)
<1> DEFINE C == ChainTo(b)
           c == C[k]
           D == ChainTo(c)
           E == ChainTo(blocks[c].parent)
<1>1. C \in Seq(1 .. b) /\ Len(D) = k /\ \A i \in 1 .. k : D[i] = C[i]
  BY ChainsFit DEF ChainFits
<1>2. c \in 1 .. n
  <2>1. c \in 1 .. b
    BY <1>1
  <2>2. QED
    BY <2>1
<1>3. ExecOf(D, k) = ExecOf(C, k)
  BY <1>1 DEF ExecOf
<1>4. D = Append(E, c) /\ \A i \in 1 .. Len(E) : D[i] = E[i]
  BY <1>2, ExecutedTells
<1>5. Len(E) = k - 1
  <2>1. blocks[c].parent \in 0 .. n
    <3>1. blocks[c].parent \in 0 .. c - 1
      BY <1>2 DEF ParentsFit
    <3>2. c - 1 <= n /\ c \in Nat /\ c - 1 \in Nat
      BY <1>2
    <3> HIDE DEF c
    <3>3. QED
      BY <3>1, <3>2
  <2>2. E \in Seq(1 .. blocks[c].parent)
    BY <2>1, ChainsFit DEF ChainFits
  <2>3. E \in Seq(Nat) /\ c \in Nat
    <3>1. \A i \in 1 .. blocks[c].parent : i \in Nat
      BY <2>1
    <3>2. c \in Nat
      BY <1>2
    <3> HIDE DEF E, c
    <3>3. E \in Seq(Nat)
      BY <2>2, <3>1, SeqMonotonic
    <3>4. QED
      BY <3>2, <3>3
  <2> HIDE DEF D, E, c
  <2>4. Len(D) = Len(E) + 1 /\ Len(E) \in Nat
    BY <1>4, <2>3
  <2>5. QED
    BY <1>1, <2>4
<1>6. ExecOf(E, k - 1) = ExecOf(C, k - 1)
  <2>1. \A i \in 1 .. k - 1 : i \in 1 .. k
    BY <1>1
  <2>2. \A i \in 1 .. k - 1 : E[i] = C[i]
    BY <1>1, <1>4, <1>5, <2>1
  <2> HIDE DEF C, E
  <2>3. QED
    BY <2>2 DEF ExecOf
<1>7. QED
  BY <1>1, <1>2, <1>3, <1>5, <1>6 DEF ExecutedBy

\* So each chain covers what its blocks execute.
LEMMA ChainsCover ==
  ASSUME IInv, NEW b \in 0 .. Len(blocks)
  PROVE  ChainCovers(ChainTo(b)) /\ ChainTo(b) \in Seq(1 .. b)
<1> DEFINE C == ChainTo(b)
           n == Len(blocks)
<1>1. n \in Nat /\ ParentsFit(blocks, n) /\ \A c \in 1 .. n : BlockFits(c) /\ blocks[c].data \in Data
  <2>1. blocks \in Seq(BlockRec) /\ ParentsFit(blocks, n) /\ \A c \in 1 .. n : BlockFits(c)
    BY DEF IInv, TxnTypeOK, Ids
  <2>2. \A c \in 1 .. n : blocks[c] \in BlockRec
    BY <2>1
  <2>3. QED
    BY <2>1, <2>2 DEF BlockRec
<1>2. C \in Seq(1 .. b) /\ Len(C) \in Nat
  BY <1>1, ChainsFit DEF ChainFits
<1>3. \A k \in 1 .. Len(C) : /\ C[k] \in 1 .. n
                             /\ ExecutedBy(blocks[C[k]].parent) = ExecOf(C, k - 1)
  BY <1>1, ChainPart
<1> HIDE DEF C, n
<1>4. \A k \in 1 .. Len(C) : /\ blocks[C[k]].data \in Data
                             /\ 0 .. blocks[C[k]].data.low - 1 \subseteq ExecOf(C, k - 1)
                             /\ Executes(blocks[C[k]].data) \cap ExecOf(C, k - 1) = {}
  BY <1>1, <1>3 DEF BlockFits
<1>5. ASSUME NEW i \in 1 .. Len(C), NEW j \in 1 .. Len(C), i < j
      PROVE  Executes(blocks[C[i]].data) \cap Executes(blocks[C[j]].data) = {}
  <2>1. i \in 1 .. j - 1
    BY <1>5
  <2>2. Executes(blocks[C[i]].data) \subseteq ExecOf(C, j - 1)
    BY <2>1 DEF ExecOf
  <2>3. QED
    BY <1>4, <2>2
<1>6. \A i, j \in 1 .. Len(C) : i # j => i < j \/ j < i
  BY <1>2
<1>7. \A i, j \in 1 .. Len(C) :
        i # j => Executes(blocks[C[i]].data) \cap Executes(blocks[C[j]].data) = {}
  BY <1>5, <1>6
<1>8. ChainCovers(C)
  BY <1>2, <1>4, <1>7 DEF ChainCovers
<1>9. QED
  BY <1>2, <1>8 DEF C

-----------------------------------------------------------------------------
(***************************************************************************)
(* Each step keeps it.                                                     *)
(***************************************************************************)
\* A new block is on top of the chain of its parent.
LEMMA NewChain ==
  ASSUME NEW n \in Nat, ParentsFit(blocks, n), \A c \in 1 .. n : blocks'[c] = blocks[c],
         NEW p \in 0 .. n, blocks'[n + 1].parent = p
  PROVE  ChainTo(n + 1)' = Append(ChainTo(p), n + 1)
<1> DEFINE b == n + 1
           E == CHOOSE E : E = [c \in 0 .. p |-> IF c = 0 THEN <<>> ELSE Append(E[blocks[c].parent], c)]
           F == CHOOSE F : F = [c \in 0 .. b |-> IF c = 0 THEN <<>> ELSE Append(F[blocks'[c].parent], c)]
<1>1. b \in Nat /\ b \in 1 .. b /\ p \in Nat /\ p <= p /\ p <= b /\ p \in 0 .. p
      /\ \A c \in 1 .. p : c \in 1 .. n
  OBVIOUS
<1>2. ParentsFit(blocks', b) /\ ParentsFit(blocks, p) /\ SameParents(blocks, blocks', p)
  <2>1. \A c \in 1 .. b : c \in 1 .. n \/ (c = b /\ c - 1 = n)
    OBVIOUS
  <2>2. \A c \in 1 .. n : blocks'[c].parent \in 0 .. c - 1
    BY DEF ParentsFit
  <2>3. ParentsFit(blocks', b)
    BY <2>1, <2>2 DEF ParentsFit
  <2>4. QED
    BY <1>1, <2>3 DEF ParentsFit, SameParents
<1>3. IsChains(blocks, p, E)
  BY <1>1, <1>2, ChainsAreThere DEF IsChains
<1>4. IsChains(blocks', b, F)
  BY <1>1, <1>2, ChainsAreThere DEF IsChains
<1>5. ChainTo(p) = E[p] /\ ChainTo(b)' = F[b]
  BY DEF ChainTo
<1> HIDE DEF E, F
<1>6. \A c \in 0 .. p : E[c] = F[c]
  <2> HIDE DEF b
  <2>1. QED
    BY <1>1, <1>2, <1>3, <1>4, ChainsAgree
<1>7. F[b] = Append(F[p], b)
  <2> HIDE DEF b
  <2>1. F[b] = Append(F[blocks'[b].parent], b)
    BY <1>1, <1>4, ChainsTell
  <2>2. QED
    BY <2>1 DEF b
<1>8. F[p] = ChainTo(p)
  BY <1>1, <1>5, <1>6
<1>9. QED
  BY <1>5, <1>7, <1>8

\* What the blocks have executed after a new one, which is on top of p.
LEMMA NewExecuted ==
  ASSUME NEW n \in Nat, ParentsFit(blocks, n), \A c \in 1 .. n : blocks'[c] = blocks[c],
         NEW p \in 0 .. n, blocks'[n + 1].parent = p, NEW data, blocks'[n + 1].data = data
  PROVE  /\ \A c \in 0 .. n : ExecutedBy(c)' = ExecutedBy(c)
         /\ ExecutedBy(n + 1)' = ExecutedBy(p) \cup Executes(data)
<1>1. \A c \in 0 .. n : /\ ChainTo(c) \in Seq(Nat) /\ Len(ChainTo(c)) \in Nat
                        /\ \A k \in 1 .. Len(ChainTo(c)) : ChainTo(c)[k] \in 1 .. n
  <2>1. \A c \in 0 .. n : ChainTo(c) \in Seq(1 .. c)
    BY ChainsFit DEF ChainFits
  <2>2. \A c \in 0 .. n : \A x \in 1 .. c : x \in 1 .. n /\ x \in Nat
    OBVIOUS
  <2>3. \A c \in 0 .. n : ChainTo(c) \in Seq(Nat)
    BY <2>1, <2>2, SeqMonotonic
  <2>4. ASSUME NEW c \in 0 .. n, NEW k \in 1 .. Len(ChainTo(c))
        PROVE  ChainTo(c)[k] \in 1 .. n
    <3> DEFINE C == ChainTo(c)
    <3>1. C \in Seq(1 .. c)
      BY <2>1
    <3> HIDE DEF C
    <3>2. \A i \in 1 .. Len(C) : C[i] \in 1 .. c
      BY <3>1
    <3>3. QED
      BY <2>2, <3>2 DEF C
  <2>5. QED
    BY <2>3, <2>4
<1>2. ASSUME NEW c \in 0 .. n PROVE ExecutedBy(c)' = ExecutedBy(c)
  <2> DEFINE C == ChainTo(c)
  <2>1. ChainTo(c)' = C
    BY ChainsStay
  <2>2. ExecutedBy(c)' = UNION {Executes(blocks'[ChainTo(c)'[i]].data) : i \in 1 .. Len(ChainTo(c)')}
    BY DEF ExecutedBy, ExecOf, Executes
  <2>3. ExecutedBy(c) = UNION {Executes(blocks[C[i]].data) : i \in 1 .. Len(C)}
    BY DEF ExecutedBy, ExecOf
  <2>4. \A k \in 1 .. Len(C) : blocks'[C[k]] = blocks[C[k]]
    BY <1>1
  <2>5. ExecutedBy(c)' = UNION {Executes(blocks'[C[i]].data) : i \in 1 .. Len(C)}
    BY <2>1, <2>2
  <2> HIDE DEF C
  <2>6. QED
    BY <2>3, <2>4, <2>5
<1>3. ExecutedBy(n + 1)' = ExecutedBy(p) \cup Executes(data)
  <2> DEFINE D == ChainTo(p)
             b == n + 1
             C == Append(D, b)
             k == Len(D)
  <2>1. ChainTo(b)' = C
    BY NewChain
  <2>2. D \in Seq(Nat) /\ k \in Nat /\ b \in Nat /\ \A i \in 1 .. k : D[i] \in 1 .. n
    BY <1>1
  <2>3. blocks'[b].data = data
    OBVIOUS
  <2>4. ExecutedBy(b)' = UNION {Executes(blocks'[ChainTo(b)'[i]].data) : i \in 1 .. Len(ChainTo(b)')}
    BY DEF ExecutedBy, ExecOf, Executes
  <2>5. ExecutedBy(p) = UNION {Executes(blocks[D[i]].data) : i \in 1 .. k}
    BY DEF ExecutedBy, ExecOf
  <2>6. ExecutedBy(b)' = UNION {Executes(blocks'[C[i]].data) : i \in 1 .. Len(C)}
    BY <2>1, <2>4
  <2> HIDE DEF D, b
  <2>7. Len(C) = k + 1 /\ C[k + 1] = b /\ \A i \in 1 .. k : C[i] = D[i]
    BY <2>2
  <2>8. \A i \in 1 .. k : blocks'[C[i]] = blocks[D[i]]
    BY <2>2, <2>7
  <2>9. blocks'[C[k + 1]].data = data
    BY <2>3, <2>7
  <2>10. 1 .. k + 1 = (1 .. k) \cup {k + 1}
    BY <2>2
  <2> HIDE DEF C, k
  <2>11. ExecutedBy(b)' = UNION {Executes(blocks'[C[i]].data) : i \in (1 .. k) \cup {k + 1}}
    BY <2>6, <2>7, <2>10
  <2>12. ExecutedBy(b)' = ExecutedBy(p) \cup Executes(data)
    BY <2>5, <2>8, <2>9, <2>11
  <2>13. QED
    BY <2>12 DEF b
<1>4. QED
  BY <1>2, <1>3

\* A miner's block has transactions that its chain had not executed, and the miner executes them.
LEMMA GenerateBlockFits ==
  ASSUME IInv, NEW m \in Miners, GenerateBlock(m), TXN_NUMBER \in Nat
  PROVE  IInv'
<1>0. blocks \in Seq(BlockRec) /\ main \in [Miners -> 0 .. Len(blocks)]
  BY DEF IInv, TxnTypeOK
<1>1. PICK n \in Nat : n = Len(blocks)
  BY <1>0
<1>2. PICK p \in 0 .. n : p = main[m]
  BY <1>0, <1>1
<1>3. PICK s : s = Delivered(transactionState[m], now)
  OBVIOUS
<1>4. PICK data : data = TransactionData(s, now, m)
  OBVIOUS
<1>5. PICK r : r = [parent |-> p, data |-> data]
  OBVIOUS
<1>6. /\ blocks' = Append(blocks, r) /\ main' = [main EXCEPT ![m] = Len(blocks')]
      /\ transactionState' = [transactionState EXCEPT ![m] = Applied(s, data)]
      /\ now' = now
  BY <1>2, <1>3, <1>4, <1>5 DEF GenerateBlock
<1>7. /\ ParentsFit(blocks, n) /\ now \in Nat
      /\ main \in [Miners -> 0 .. n] /\ transactionState \in [Miners -> TxnState]
      /\ \A c \in 1 .. n : BlockFits(c)
      /\ \A x \in Miners : transactionState[x].bitmap = ExecutedBy(main[x])
                           /\ LowFits(transactionState[x])
  BY <1>0, <1>1 DEF IInv, TxnTypeOK, Ids
<1>8. s \in TxnState /\ LowFits(s) /\ s.bitmap = ExecutedBy(p)
  BY <1>2, <1>3, <1>7, DeliveredTells
<1>9. /\ data \in Data /\ Executes(data) \cap s.bitmap = {}
      /\ 0 .. data.low - 1 \subseteq s.bitmap
  BY <1>4, <1>7, <1>8, DataTells
<1>10. r \in BlockRec
  BY <1>5, <1>9 DEF BlockRec
<1>11. /\ blocks' \in Seq(BlockRec) /\ Len(blocks') = n + 1 /\ blocks'[n + 1] = r
       /\ \A c \in 1 .. n : blocks'[c] = blocks[c]
  BY <1>0, <1>1, <1>6, <1>10
<1>12. r.parent = p /\ r.data = data
  BY <1>5
<1>13. ParentsFit(blocks', n + 1)
  <2>1. \A c \in 1 .. n + 1 : c \in 1 .. n \/ (c = n + 1 /\ c - 1 = n)
    OBVIOUS
  <2>2. \A c \in 1 .. n : blocks'[c].parent \in 0 .. c - 1
    BY <1>7, <1>11 DEF ParentsFit
  <2>3. QED
    BY <1>11, <1>12, <2>1, <2>2 DEF ParentsFit
<1>14. \A c \in 0 .. n : ExecutedBy(c)' = ExecutedBy(c)
  BY <1>7, <1>11, <1>12, NewExecuted
<1>15. ExecutedBy(n + 1)' = ExecutedBy(p) \cup Executes(data)
  BY <1>7, <1>11, <1>12, NewExecuted
<1>16. Applied(s, data) \in TxnState /\ LowFits(Applied(s, data))
       /\ Applied(s, data).bitmap = ExecutedBy(p) \cup Executes(data)
  BY <1>8, <1>9, AppliedTells DEF LowFits
<1>17. TxnTypeOK'
  <2>1. \A x \in 0 .. n : x \in 0 .. n + 1
    OBVIOUS
  <2>2. n + 1 \in 0 .. n + 1
    OBVIOUS
  <2>3. main' \in [Miners -> 0 .. n + 1]
    BY <1>6, <1>7, <1>11, <2>1, <2>2
  <2>4. transactionState' \in [Miners -> TxnState]
    BY <1>6, <1>7, <1>16
  <2>5. QED
    BY <1>6, <1>7, <1>11, <2>3, <2>4 DEF TxnTypeOK
<1>18. ASSUME NEW c \in 1 .. n + 1 PROVE BlockFits(c)'
  <2>1. CASE c \in 1 .. n
    <3>1. PICK q \in 0 .. n : q = blocks[c].parent
      <4>1. blocks[c].parent \in 0 .. c - 1
        BY <1>7, <2>1 DEF ParentsFit
      <4>2. QED
        BY <2>1, <4>1
    <3>2. ExecutedBy(q)' = ExecutedBy(q) /\ blocks'[c] = blocks[c] /\ BlockFits(c)
      BY <1>7, <1>11, <1>14, <2>1
    <3>3. QED
      BY <3>1, <3>2 DEF BlockFits, Executes
  <2>2. CASE c = n + 1
    <3>1. blocks'[c].data = data /\ blocks'[c].parent = p
      BY <1>11, <1>12, <2>2
    <3>2. ExecutedBy(p)' = ExecutedBy(p)
      BY <1>14
    <3>3. QED
      BY <1>8, <1>9, <3>1, <3>2 DEF BlockFits, Executes
  <2>3. QED
    BY <2>1, <2>2
<1>19. ASSUME NEW x \in Miners
       PROVE  transactionState'[x].bitmap = ExecutedBy(main[x])' /\ LowFits(transactionState'[x])
  <2>1. CASE x = m
    <3>1. main'[x] = n + 1 /\ transactionState'[x] = Applied(s, data)
      BY <1>6, <1>7, <1>11, <2>1
    <3>2. ExecutedBy(main[x])' = ExecutedBy(n + 1)'
      BY <3>1
    <3>3. QED
      BY <1>15, <1>16, <3>1, <3>2
  <2>2. CASE x # m
    <3>1. main'[x] = main[x] /\ transactionState'[x] = transactionState[x] /\ main[x] \in 0 .. n
      BY <1>6, <1>7, <2>2
    <3>2. PICK q \in 0 .. n : q = main[x]
      BY <3>1
    <3>3. ExecutedBy(main[x])' = ExecutedBy(q)'
      BY <3>1, <3>2
    <3>4. QED
      BY <1>7, <1>14, <3>1, <3>2, <3>3
  <2>3. QED
    BY <2>1, <2>2
<1>20. QED
  BY <1>11, <1>13, <1>17, <1>18, <1>19 DEF IInv, Ids

\* Blocks that stay have executed what they had.
LEMMA ExecutedStay ==
  ASSUME NEW n \in Nat, ParentsFit(blocks, n), UNCHANGED blocks
  PROVE  \A b \in 0 .. n : ExecutedBy(b)' = ExecutedBy(b)
<1>1. \A b \in 0 .. n : ChainTo(b)' = ChainTo(b)
  BY ChainsStay
<1>2. ASSUME NEW b \in 0 .. n PROVE ExecutedBy(b)' = ExecutedBy(b)
  <2>1. ExecutedBy(b)' = UNION {Executes(blocks'[ChainTo(b)'[i]].data) : i \in 1 .. Len(ChainTo(b)')}
    BY DEF ExecutedBy, ExecOf, Executes
  <2>2. ExecutedBy(b) = UNION {Executes(blocks[ChainTo(b)[i]].data) : i \in 1 .. Len(ChainTo(b))}
    BY DEF ExecutedBy, ExecOf
  <2>3. ChainTo(b)' = ChainTo(b) /\ blocks' = blocks
    BY <1>1
  <2>4. QED
    BY <2>1, <2>2, <2>3
<1>3. QED
  BY <1>2

\* Two more parts of the invariant hold where the blocks stay.
LEMMA BlocksStay ==
  ASSUME IInv, UNCHANGED blocks
  PROVE  /\ ParentsFit(blocks, Len(blocks))' /\ \A b \in Ids' : BlockFits(b)'
         /\ \A b \in 0 .. Len(blocks) : ExecutedBy(b)' = ExecutedBy(b)
<1>1. PICK n \in Nat : n = Len(blocks)
  BY DEF IInv, TxnTypeOK
<1>2. ParentsFit(blocks, n) /\ \A b \in 1 .. n : BlockFits(b)
  BY <1>1 DEF IInv, Ids
<1>3. \A b \in 0 .. n : ExecutedBy(b)' = ExecutedBy(b)
  BY <1>2, ExecutedStay
<1>4. ASSUME NEW b \in 1 .. n PROVE BlockFits(b)'
  <2>1. PICK q \in 0 .. n : q = blocks[b].parent
    <3>1. blocks[b].parent \in 0 .. b - 1
      BY <1>2 DEF ParentsFit
    <3>2. QED
      BY <3>1
  <2>2. ExecutedBy(q)' = ExecutedBy(q) /\ BlockFits(b)
    BY <1>2, <1>3
  <2>3. QED
    BY <2>1, <2>2 DEF BlockFits, Executes
<1>5. QED
  BY <1>1, <1>2, <1>3, <1>4 DEF Ids, ParentsFit

\* A node that takes another chain has executed the transactions of that chain.
LEMMA SwitchChainsFits ==
  ASSUME IInv, NEW m \in Miners, NEW b \in Ids, SwitchChains(m, b), TXN_NUMBER \in Nat
  PROVE  IInv'
<1>1. PICK n \in Nat : n = Len(blocks)
  BY DEF IInv, TxnTypeOK
<1>2. PICK a \in 0 .. n : a = main[m]
  BY <1>1 DEF IInv, TxnTypeOK
<1>3. /\ transactionState' = [transactionState EXCEPT ![m] = Switched(transactionState[m], a, b)]
      /\ main' = [main EXCEPT ![m] = b] /\ UNCHANGED <<now, blocks>>
  BY <1>2 DEF SwitchChains
<1>4. /\ now \in Nat /\ blocks \in Seq(BlockRec) /\ main \in [Miners -> 0 .. n]
      /\ transactionState \in [Miners -> TxnState] /\ b \in 0 .. n
      /\ \A x \in Miners : transactionState[x].bitmap = ExecutedBy(main[x])
                           /\ LowFits(transactionState[x])
  BY <1>1 DEF IInv, TxnTypeOK, Ids
<1>5. PICK s : s = Switched(transactionState[m], a, b)
  OBVIOUS
<1>6. IsAt(s, ChainTo(b), Len(ChainTo(b)))
  <2>1. /\ ChainCovers(ChainTo(a)) /\ ChainTo(a) \in Seq(1 .. a)
        /\ ChainCovers(ChainTo(b)) /\ ChainTo(b) \in Seq(1 .. b)
    BY <1>1, <1>4, ChainsCover
  <2>2. ChainTo(a) \in Seq(Nat) /\ ChainTo(b) \in Seq(Nat)
    <3>1. (\A i \in 1 .. a : i \in Nat) /\ (\A i \in 1 .. b : i \in Nat)
      BY <1>4
    <3>2. QED
      BY <2>1, <3>1, SeqMonotonic
  <2>3. IsAt(transactionState[m], ChainTo(a), Len(ChainTo(a)))
    BY <1>2, <1>4 DEF IsAt, ExecutedBy
  <2>4. QED
    BY <1>5, <2>1, <2>2, <2>3, SwitchedTells
<1>7. s \in TxnState /\ s.bitmap = ExecutedBy(b) /\ LowFits(s)
  BY <1>6 DEF IsAt, ExecutedBy
<1>8. /\ ParentsFit(blocks, Len(blocks))' /\ \A c \in Ids' : BlockFits(c)'
      /\ \A c \in 0 .. n : ExecutedBy(c)' = ExecutedBy(c)
  BY <1>1, <1>3, BlocksStay
<1>9. TxnTypeOK'
  <2>1. main' \in [Miners -> 0 .. n] /\ transactionState' \in [Miners -> TxnState]
    BY <1>3, <1>4, <1>5, <1>7
  <2>2. QED
    BY <1>1, <1>3, <1>4, <2>1 DEF TxnTypeOK
<1>10. ASSUME NEW x \in Miners
       PROVE  transactionState'[x].bitmap = ExecutedBy(main[x])' /\ LowFits(transactionState'[x])
  <2>1. CASE x = m
    <3>1. main'[x] = b /\ transactionState'[x] = s
      BY <1>3, <1>4, <1>5, <2>1
    <3>2. PICK q : q = b
      OBVIOUS
    <3>3. ExecutedBy(main[x])' = ExecutedBy(q)' /\ ExecutedBy(q)' = ExecutedBy(b)
      BY <1>4, <1>8, <3>1, <3>2
    <3>4. QED
      BY <1>7, <3>1, <3>3
  <2>2. CASE x # m
    <3>1. main'[x] = main[x] /\ transactionState'[x] = transactionState[x] /\ main[x] \in 0 .. n
      BY <1>3, <1>4, <2>2
    <3>2. PICK q \in 0 .. n : q = main[x]
      BY <3>1
    <3>3. ExecutedBy(main[x])' = ExecutedBy(q)'
      BY <3>1, <3>2
    <3>4. QED
      BY <1>4, <1>8, <3>1, <3>2, <3>3
  <2>3. QED
    BY <2>1, <2>2
<1>11. QED
  BY <1>8, <1>9, <1>10 DEF IInv

\* Time passes and nothing else.
LEMMA OthersFit ==
  ASSUME IInv, now' \in Nat, UNCHANGED <<blocks, main, transactionState>>
  PROVE  IInv'
<1>1. PICK n \in Nat : n = Len(blocks)
  BY DEF IInv, TxnTypeOK
<1>2. /\ main \in [Miners -> 0 .. n]
      /\ \A x \in Miners : transactionState[x].bitmap = ExecutedBy(main[x])
                           /\ LowFits(transactionState[x])
  BY <1>1 DEF IInv, TxnTypeOK
<1>3. /\ ParentsFit(blocks, Len(blocks))' /\ \A c \in Ids' : BlockFits(c)'
      /\ \A c \in 0 .. n : ExecutedBy(c)' = ExecutedBy(c)
  BY <1>1, BlocksStay
<1>4. TxnTypeOK'
  BY DEF IInv, TxnTypeOK
<1>5. ASSUME NEW x \in Miners
      PROVE  transactionState'[x].bitmap = ExecutedBy(main[x])' /\ LowFits(transactionState'[x])
  <2>1. PICK q \in 0 .. n : q = main[x]
    BY <1>2
  <2>2. ExecutedBy(main[x])' = ExecutedBy(q)'
    BY <2>1
  <2>3. QED
    BY <1>2, <1>3, <2>1, <2>2
<1>6. QED
  BY <1>3, <1>4, <1>5 DEF IInv

\* At the start there is no block.
LEMMA InitFits ==
  ASSUME TxnInit, TXN_NUMBER \in Nat
  PROVE  IInv
<1> USE DEF TxnInit
<1>1. Len(blocks) = 0 /\ ParentsFit(blocks, Len(blocks)) /\ ParentsFit(blocks, 0) /\ Ids = {}
  BY DEF ParentsFit, Ids
<1>2. TxnTypeOK
  <2>1. [bitmap |-> {}, low |-> 0, high |-> 0] \in TxnState
    BY DEF TxnState
  <2>2. transactionState \in [Miners -> TxnState]
    BY <2>1
  <2>3. main \in [Miners -> 0 .. Len(blocks)]
    BY <1>1
  <2>4. QED
    BY <2>2, <2>3 DEF TxnTypeOK
<1>3. ExecutedBy(0) = {}
  <2>1. ChainTo(0) \in Seq(1 .. 0)
    BY <1>1, ChainsFit DEF ChainFits
  <2> DEFINE C == ChainTo(0)
  <2> HIDE DEF C
  <2>2. Len(C) = 0
    <3>1. C \in Seq(1 .. 0)
      BY <2>1 DEF C
    <3>2. Len(C) \in Nat /\ (Len(C) # 0 => C[1] \in 1 .. 0)
      BY <3>1
    <3>3. QED
      BY <3>2
  <2>3. QED
    BY <2>2 DEF ExecutedBy, ExecOf, C
<1>4. ASSUME NEW x \in Miners
      PROVE  transactionState[x].bitmap = ExecutedBy(main[x]) /\ LowFits(transactionState[x])
  <2>1. main[x] = 0 /\ transactionState[x] = [bitmap |-> {}, low |-> 0, high |-> 0]
    OBVIOUS
  <2>2. 0 .. 0 - 1 = {}
    OBVIOUS
  <2>3. QED
    BY <1>3, <2>1, <2>2 DEF LowFits
<1>5. QED
  BY <1>1, <1>2, <1>4 DEF IInv

\* It says what ExecutedOnce says: that a chain executes nothing twice is told of its blocks.
LEMMA FitsOnce ==
  ASSUME IInv
  PROVE  ExecutedOnce
<1>1. PICK n \in Nat : n = Len(blocks)
  BY DEF IInv, TxnTypeOK
<1>2. ParentsFit(blocks, n)
  BY <1>1 DEF IInv
<1>3. ASSUME NEW b \in 0 .. n
      PROVE  /\ Range(ChainTo(b)) = {ChainTo(b)[i] : i \in 1 .. Len(ChainTo(b))}
             /\ ExecutedBy(b) = UNION {Executes(blocks[c].data) : c \in Range(ChainTo(b))}
  <2> DEFINE C == ChainTo(b)
  <2>1. C \in Seq(1 .. b)
    BY <1>2, ChainsFit DEF ChainFits
  <2> HIDE DEF C
  <2>2. DOMAIN C = 1 .. Len(C)
    BY <2>1
  <2>3. Range(C) = {C[i] : i \in 1 .. Len(C)}
    BY <2>2 DEF Range
  <2>4. ExecOf(C, Len(C)) = UNION {Executes(blocks[c].data) : c \in Range(C)}
    BY <2>3 DEF ExecOf
  <2>5. QED
    BY <2>3, <2>4 DEF ExecutedBy, C
<1>4. ASSUME NEW m \in Miners
      PROVE  /\ transactionState[m].bitmap =
                  UNION {Executes(blocks[b].data) : b \in Range(ChainTo(main[m]))}
             /\ 0 .. transactionState[m].low - 1 \subseteq transactionState[m].bitmap
  <2>1. main[m] \in 0 .. n
    BY <1>1 DEF IInv, TxnTypeOK
  <2>2. ExecutedBy(main[m]) = UNION {Executes(blocks[c].data) : c \in Range(ChainTo(main[m]))}
    BY <1>3, <2>1
  <2>3. QED
    BY <2>2 DEF IInv, LowFits
<1>5. ASSUME NEW b \in Ids, NEW c \in Range(ChainTo(b)) \ {b}
      PROVE  Executes(blocks[b].data) \cap Executes(blocks[c].data) = {}
  <2>1. b \in 1 .. n /\ b \in 0 .. n
    BY <1>1 DEF Ids
  <2>2. ChainTo(b) = Append(ChainTo(blocks[b].parent), b)
    BY <1>2, <2>1, ExecutedTells
  <2>3. ChainCovers(ChainTo(b)) /\ ChainTo(b) \in Seq(1 .. b)
    BY <1>1, <2>1, ChainsCover
  <2>4. PICK i \in 1 .. Len(ChainTo(b)) : c = ChainTo(b)[i]
    BY <1>3, <2>1
  <2>5. PICK k \in 1 .. Len(ChainTo(b)) : b = ChainTo(b)[k]
    <3> DEFINE D == ChainTo(blocks[b].parent)
    <3>1. blocks[b].parent \in 0 .. n
      <4>1. blocks[b].parent \in 0 .. b - 1
        BY <1>2, <2>1 DEF ParentsFit
      <4>2. QED
        BY <2>1, <4>1
    <3>2. D \in Seq(1 .. blocks[b].parent)
      BY <1>2, <3>1, ChainsFit DEF ChainFits
    <3>3. D \in Seq(Nat)
      <4>1. \A i1 \in 1 .. blocks[b].parent : i1 \in Nat
        BY <3>1
      <4>2. QED
        BY <3>2, <4>1, SeqMonotonic
    <3> HIDE DEF D
    <3>4. Len(D) \in Nat /\ Len(Append(D, b)) = Len(D) + 1 /\ Append(D, b)[Len(D) + 1] = b
      BY <2>1, <3>3
    <3>5. Len(D) + 1 \in 1 .. Len(Append(D, b))
      BY <3>4
    <3>6. QED
      BY <2>2, <3>4, <3>5 DEF D
  <2>6. i # k
    BY <2>4, <2>5
  <2>7. QED
    BY <2>3, <2>4, <2>5, <2>6 DEF ChainCovers
<1>6. QED
  BY <1>4, <1>5 DEF ExecutedOnce

-----------------------------------------------------------------------------
\* Every state of the system is one where the invariant holds: it holds at the start, each of
\* the three operations keeps it, and nothing else happens.
THEOREM InvariantHolds == TxnSpec => []IInv
<1>1. TXN_NUMBER \in Nat
  BY TransactionsAssumption
<1>2. TxnInit => IInv
  BY <1>1, InitFits
<1>3. IInv /\ [TxnNext]_txnVars => IInv'
  <2> SUFFICES ASSUME IInv, [TxnNext]_txnVars PROVE IInv'
    OBVIOUS
  <2>1. now \in Nat
    BY DEF IInv, TxnTypeOK
  <2>2. CASE Tick
    <3>1. now' \in Nat /\ UNCHANGED <<blocks, main, transactionState>>
      BY <2>1, <2>2 DEF Tick
    <3>2. QED
      BY <3>1, OthersFit
  <2>3. ASSUME NEW m \in Miners, GenerateBlock(m) PROVE IInv'
    BY <1>1, <2>3, GenerateBlockFits
  <2>4. ASSUME NEW m \in Miners, NEW b \in Ids, SwitchChains(m, b) PROVE IInv'
    BY <1>1, <2>4, SwitchChainsFits
  <2>5. CASE UNCHANGED txnVars
    <3>1. now' \in Nat /\ UNCHANGED <<blocks, main, transactionState>>
      BY <2>1, <2>5 DEF txnVars
    <3>2. QED
      BY <3>1, OthersFit
  <2>6. QED
    BY <2>2, <2>3, <2>4, <2>5 DEF TxnNext
<1>4. QED
  BY <1>2, <1>3, PTL DEF TxnSpec

\* What a node has executed is the transactions of its main chain, each of them once, after any
\* sequence of blocks mined and chains taken and left (generateBlock and receiveBlock of
\* Block.c with switchChains), for any number of nodes, of blocks and of transactions.
THEOREM OnceExecuted == TxnSpec => []ExecutedOnce
<1>1. TxnSpec => []IInv
  BY InvariantHolds
<1>2. IInv => ExecutedOnce
  BY FitsOnce
<1>3. QED
  BY <1>1, <1>2, PTL
-----------------------------------------------------------------------------
(***************************************************************************)
(* The statistics files.                                                   *)
(***************************************************************************)
N == Cardinality(Procs)
Chunk == [of : Procs, file : Int, n : Int]
Total(p) == ThreadsOf[p] + 2

\* The chunks of the first processes, one after the other.
Then(a, b) == a \o b
IsFlat(s, f) == f = [i \in 1 .. Len(s) |-> IF i = 1 THEN s[i] ELSE Then(f[i - 1], s[i])]
Flat(s) == CHOOSE f : IsFlat(s, f)
All == [k \in 1 .. N |-> Chunks(k - 1)]

LEMMA ThenTells ==
  ASSUME NEW S, NEW a \in Seq(S), NEW b \in Seq(S)
  PROVE  /\ Then(a, b) \in Seq(S)
         /\ Len(a) \in Nat /\ Len(b) \in Nat /\ Len(Then(a, b)) = Len(a) + Len(b)
         /\ 3 <= Len(a) => 3 <= Len(Then(a, b))
         /\ \A i \in 1 .. Len(a) : Then(a, b)[i] = a[i]
         /\ \A i \in 1 .. Len(b) : Then(a, b)[Len(a) + i] = b[i]
<1>1. Len(a) \in Nat /\ Len(b) \in Nat
  OBVIOUS
<1>2. /\ Then(a, b) \in Seq(S) /\ Len(Then(a, b)) = Len(a) + Len(b)
      /\ \A i \in 1 .. Len(a) + Len(b) : Then(a, b)[i] = IF i <= Len(a) THEN a[i] ELSE b[i - Len(a)]
  BY ConcatProperties DEF Then
<1>3. ASSUME NEW i \in 1 .. Len(b) PROVE Then(a, b)[Len(a) + i] = b[i]
  <2>1. Len(a) + i \in 1 .. Len(a) + Len(b) /\ ~(Len(a) + i <= Len(a)) /\ (Len(a) + i) - Len(a) = i
    BY <1>1
  <2>2. QED
    BY <1>2, <2>1
<1>4. ASSUME NEW i \in 1 .. Len(a) PROVE Then(a, b)[i] = a[i]
  <2>1. i \in 1 .. Len(a) + Len(b) /\ i <= Len(a)
    BY <1>1
  <2>2. QED
    BY <1>2, <2>1
<1>5. 3 <= Len(a) => 3 <= Len(Then(a, b))
  <2>1. Len(Then(a, b)) = Len(a) + Len(b)
    BY <1>2
  <2>2. QED
    BY <1>1, <2>1
<1>6. QED
  BY <1>1, <1>2, <1>3, <1>4, <1>5

\* FlattenSeq is such a recursive function, which exists,
LEMMA FlatIsThere ==
  ASSUME NEW s, Len(s) \in Nat
  PROVE  \E f : IsFlat(s, f)
<1> DEFINE Fits(k, f) == f = [i \in 1 .. k |-> IF i = 1 THEN s[i] ELSE Then(f[i - 1], s[i])]
           P == {k \in Nat : \E f : Fits(k, f)}
           n == Len(s)
<1>1. 0 \in P
  <2>1. Fits(0, [i \in 1 .. 0 |-> 0])
    OBVIOUS
  <2>2. QED
    BY <2>1
<1>2. ASSUME NEW k \in 0 .. n, k < n, k \in P PROVE k + 1 \in P
  <2>1. PICK f : Fits(k, f)
    BY <1>2
  <2> DEFINE g == [i \in 1 .. k + 1 |-> IF i = 1 THEN s[i] ELSE Then(f[i - 1], s[i])]
  <2>2. ASSUME NEW i \in 1 .. k + 1, i # 1 PROVE g[i - 1] = f[i - 1]
    <3>1. i - 1 \in 1 .. k /\ i - 1 \in 1 .. k + 1
      BY <1>2, <2>2
    <3>2. f[i - 1] = IF i - 1 = 1 THEN s[i - 1] ELSE Then(f[i - 1 - 1], s[i - 1])
      BY <2>1, <3>1
    <3>3. g[i - 1] = IF i - 1 = 1 THEN s[i - 1] ELSE Then(f[i - 1 - 1], s[i - 1])
      BY <3>1
    <3>4. QED
      BY <3>2, <3>3
  <2>3. ASSUME NEW i \in 1 .. k + 1 PROVE g[i] = IF i = 1 THEN s[i] ELSE Then(g[i - 1], s[i])
    BY <2>2
  <2>4. g = [i \in 1 .. k + 1 |-> g[i]]
    OBVIOUS
  <2> HIDE DEF g
  <2>5. Fits(k + 1, g)
    BY <2>3, <2>4
  <2>6. QED
    BY <1>2, <2>5
<1>3. \A k \in 0 .. n : k \in P
  <2> HIDE DEF P
  <2>1. QED
    BY <1>1, <1>2, UpTo
<1>4. n \in P
  BY <1>3
<1>5. QED
  BY <1>4 DEF IsFlat

\* and adds one sequence after the other.
LEMMA FlatTells ==
  ASSUME NEW s, Len(s) \in Nat \ {0}
  PROVE  /\ Flat(s)[1] = s[1]
         /\ \A i \in 2 .. Len(s) : Flat(s)[i] = Then(Flat(s)[i - 1], s[i])
         /\ FlattenSeq(s) = Flat(s)[Len(s)]
<1>1. IsFlat(s, Flat(s))
  BY FlatIsThere DEF Flat
<1>2. Flat(s) = [i \in 1 .. Len(s) |-> IF i = 1 THEN s[i] ELSE Then(Flat(s)[i - 1], s[i])]
  BY <1>1 DEF IsFlat
<1>3. FlattenSeq(s) = (CHOOSE f : IsFlat(s, f))[Len(s)]
  BY DEF FlattenSeq, IsFlat, Then
<1>4. FlattenSeq(s) = Flat(s)[Len(s)]
  BY <1>3 DEF Flat
<1> DEFINE f == Flat(s)
<1>5. f = [i \in 1 .. Len(s) |-> IF i = 1 THEN s[i] ELSE Then(f[i - 1], s[i])]
  BY <1>2
<1> HIDE DEF f
<1>6. f[1] = s[1] /\ \A i \in 2 .. Len(s) : f[i] = Then(f[i - 1], s[i])
  BY <1>5
<1>7. QED
  BY <1>4, <1>6 DEF f

\* What process 0 has written when it has all from the processes before
\* source, and what it has had from this one so far.
SoFar == IF iters = 0 THEN 0 ELSE Total(source) - iters
Received == IF SoFar = 0 THEN Flat(All)[source] ELSE Flat(All)[source] \o SubSeq(Chunks(source), 1, SoFar)

FilesFit ==
  /\ progress \in {"init", "run", "fini"}
  /\ stats_file \in [Procs -> BOOLEAN]
  /\ DOMAIN tmps = Procs
  /\ \A p \in Procs : tmps[p] \in [Files(p) -> Nat \cup {NoFile}]
  /\ \A p \in Procs : stats_file[p] =>
       \A i \in Files(p) : <<p, i>> \in opened => tmps[p][i] # NoFile
  /\ progress # "init" => opened = AllFiles

\* Nothing is sent before the end.
Quiet ==
  /\ through = {} /\ out_f = Closed /\ source = 0 /\ iters = 0
  /\ \A p \in Procs : to_send[p] = <<>>

\* The processes other than the first: those before source are through, the
\* others have sent nothing.
Senders ==
  \A p \in Procs \ {0} :
    /\ p < source => p \in through
    /\ p \in through => to_send[p] = <<>> /\ (stats_file[p] => p < source)
    /\ ~stats_file[p] => to_send[p] = <<>>
    /\ p # source \/ iters = 0 => to_send[p] \in {<<>>, Chunks(p)}

\* Process 0 takes them one by one.
Receiver ==
  /\ source \in 0 .. N /\ iters \in Nat /\ through \subseteq Procs
  /\ 0 \in Procs => to_send[0] = <<>>
  /\ source # 0 => stats_file[0] /\ (0 \in through <=> source = N)
  /\ source = 0 => out_f = Closed /\ (0 \in through => ~stats_file[0])
  /\ iters # 0 => /\ source \in 1 .. N - 1 /\ iters < Total(source)
                  /\ to_send[source] = SubSeq(Chunks(source), SoFar + 1, Total(source))
  /\ source # 0 => out_f \in {Closed, Received}

\* The inductive invariant.
FilesInv ==
  /\ FilesFit
  /\ DOMAIN to_send = Procs
  /\ progress # "fini" => Quiet
  /\ Senders
  /\ Receiver

LEMMA ProcsTell ==
  /\ N \in Nat /\ Procs = 0 .. N - 1
  /\ \A p \in Procs : ThreadsOf[p] \in Nat \ {0} /\ Files(p) = 0 .. ThreadsOf[p]
  /\ \A p \in Procs : Total(p) \in Nat /\ 3 <= Total(p)
<1>1. N \in Nat
  BY StatsAssumption, FS_CardinalityType DEF N
<1>2. QED
  BY <1>1, StatsAssumption DEF N, Files, Total

\* What a process sends begins with the number of its files.
LEMMA ChunksTell ==
  ASSUME FilesFit, NEW p \in Procs
  PROVE  /\ Chunks(p) \in Seq(Chunk) /\ Len(Chunks(p)) = Total(p)
         /\ Chunks(p)[1].n + 1 = Total(p) - 1
<1>1. ThreadsOf[p] \in Nat \ {0} /\ Files(p) = 0 .. ThreadsOf[p]
  BY ProcsTell
<1> DEFINE n == ThreadsOf[p] + 1
           files == [i \in 1 .. ThreadsOf[p] + 1 |-> FileMemoryLoad(p, i - 1)]
<1>2. GlobCur(p) \in Chunk /\ GlobCur(p).n = ThreadsOf[p]
  BY <1>1 DEF GlobCur, Chunk, NoFile
<1>3. ASSUME NEW i \in 1 .. n PROVE FileMemoryLoad(p, i - 1) \in Chunk
  <2>1. i - 1 \in Files(p) /\ i - 1 \in Int
    BY <1>1
  <2>2. tmps[p][i - 1] \in Int
    BY <2>1 DEF FilesFit, NoFile
  <2>3. QED
    BY <2>1, <2>2 DEF FileMemoryLoad, Chunk
<1>4. files \in Seq(Chunk) /\ Len(files) = n
  BY <1>1, <1>3
<1> HIDE DEF files
<1>5. Chunks(p) = <<GlobCur(p)>> \o files
  BY DEF Chunks, files
<1>6. <<GlobCur(p)>> \in Seq(Chunk) /\ Len(<<GlobCur(p)>>) = 1 /\ <<GlobCur(p)>>[1] = GlobCur(p)
  BY <1>2
<1>7. Chunks(p) \in Seq(Chunk) /\ Len(Chunks(p)) = 1 + n /\ Chunks(p)[1] = GlobCur(p)
  <2> DEFINE first == <<GlobCur(p)>>
  <2> HIDE DEF first
  <2>1. first \in Seq(Chunk) /\ Len(first) = 1 /\ first[1] = GlobCur(p)
    BY <1>6 DEF first
  <2>2. /\ Then(first, files) \in Seq(Chunk) /\ Len(Then(first, files)) = 1 + n
        /\ Then(first, files)[1] = first[1]
    <3>1. /\ Then(first, files) \in Seq(Chunk) /\ Len(Then(first, files)) = Len(first) + Len(files)
          /\ \A i \in 1 .. Len(first) : Then(first, files)[i] = first[i]
      BY <2>1, <1>4, ThenTells
    <3>2. 1 \in 1 .. Len(first) /\ Len(first) + Len(files) = 1 + n
      BY <2>1, <1>1, <1>4
    <3>3. QED
      BY <3>1, <3>2
  <2>3. Chunks(p) = Then(first, files)
    BY <1>5 DEF first, Then
  <2>4. QED
    BY <2>1, <2>2, <2>3
<1>8. QED
  BY <1>1, <1>2, <1>7 DEF Total

\* What has been written is a sequence of chunks, and not Closed.
LEMMA FlatOfAll ==
  ASSUME FilesFit
  PROVE  /\ \A i \in 1 .. N : Flat(All)[i] \in Seq(Chunk) /\ 3 <= Len(Flat(All)[i])
         /\ 1 <= N => Flat(All)[1] = Chunks(0) /\ FlattenSeq(All) = Flat(All)[N]
         /\ \A i \in 1 .. N - 1 : Flat(All)[i + 1] = Flat(All)[i] \o Chunks(i)
<1>1. N \in Nat /\ Procs = 0 .. N - 1
  BY ProcsTell
<1>2. \A i \in 1 .. N : /\ All[i] = Chunks(i - 1) /\ Chunks(i - 1) \in Seq(Chunk)
                        /\ 3 <= Len(Chunks(i - 1))
  <2>1. ASSUME NEW i \in 1 .. N PROVE All[i] = Chunks(i - 1)
    BY DEF All
  <2>2. ASSUME NEW i \in 1 .. N PROVE i - 1 \in Procs
    BY <1>1
  <2>3. QED
    BY <2>1, <2>2, ProcsTell, ChunksTell
<1>3. Len(All) = N
  BY <1>1 DEF All
<1>4. CASE N = 0
  BY <1>4
<1>5. CASE N # 0
  <2> DEFINE f == Flat(All)
  <2>1. /\ f[1] = All[1]
        /\ \A i \in 2 .. N : f[i] = Then(f[i - 1], All[i])
        /\ FlattenSeq(All) = f[N]
    BY <1>1, <1>3, <1>5, FlatTells
  <2> HIDE DEF f
  <2>2. f[1] = Chunks(0) /\ \A i \in 2 .. N : f[i] = Then(f[i - 1], Chunks(i - 1))
    <3>1. 1 \in 1 .. N
      BY <1>1, <1>5
    <3>2. f[1] = Chunks(1 - 1)
      BY <2>1, <3>1, <1>2
    <3>3. \A i \in 2 .. N : f[i] = Then(f[i - 1], Chunks(i - 1))
      <4>1. \A i \in 2 .. N : i \in 1 .. N
        BY <1>1
      <4>2. QED
        BY <2>1, <1>2, <4>1
    <3>4. QED
      BY <3>2, <3>3
  <2>3. ASSUME NEW i \in 1 .. N - 1 PROVE f[i + 1] = Then(f[i], Chunks(i))
    <3>1. i + 1 \in 2 .. N /\ i + 1 - 1 = i
      BY <1>1
    <3>2. QED
      BY <2>2, <3>1
  <2> DEFINE P == {k \in Nat : k + 1 <= N => f[k + 1] \in Seq(Chunk) /\ 3 <= Len(f[k + 1])}
  <2>4. 0 \in P
    <3>1. 1 \in 1 .. N
      BY <1>1, <1>5
    <3>2. f[1] \in Seq(Chunk) /\ 3 <= Len(f[1])
      BY <1>2, <2>2, <3>1
    <3>3. QED
      BY <3>2
  <2>5. ASSUME NEW k \in 0 .. N, k < N, k \in P PROVE k + 1 \in P
    <3>1. CASE k + 2 <= N
      <4>1. k + 1 \in 1 .. N - 1 /\ k + 2 \in 1 .. N
        BY <1>1, <2>5, <3>1
      <4>2. f[k + 2] = Then(f[k + 1], Chunks(k + 1))
        <5>1. k + 1 + 1 = k + 2
          BY <2>5
        <5>2. QED
          BY <2>3, <4>1, <5>1
      <4>3. Chunks(k + 1) \in Seq(Chunk) /\ 3 <= Len(Chunks(k + 1))
        BY <1>2, <4>1
      <4>4. f[k + 1] \in Seq(Chunk) /\ 3 <= Len(f[k + 1])
        <5>1. k + 1 <= N
          BY <1>1, <4>1
        <5>2. QED
          BY <2>5, <5>1
      <4>5. Then(f[k + 1], Chunks(k + 1)) \in Seq(Chunk) /\ 3 <= Len(Then(f[k + 1], Chunks(k + 1)))
        BY <4>3, <4>4, ThenTells
      <4>6. k + 1 \in Nat /\ k + 1 + 1 = k + 2
        BY <2>5
      <4>7. QED
        BY <4>2, <4>5, <4>6
    <3>2. CASE ~(k + 2 <= N)
      BY <1>1, <2>5, <3>2
    <3>3. QED
      BY <3>1, <3>2
  <2>6. \A k \in 0 .. N : k \in P
    <3> HIDE DEF P
    <3>1. QED
      BY <1>1, <2>4, <2>5, UpTo
  <2>7. ASSUME NEW i \in 1 .. N PROVE f[i] \in Seq(Chunk) /\ 3 <= Len(f[i])
    <3>1. i - 1 \in 0 .. N /\ i - 1 + 1 = i
      BY <1>1
    <3>2. i - 1 \in P
      BY <2>6, <3>1
    <3>3. QED
      BY <3>1, <3>2
  <2>8. QED
    BY <2>1, <2>2, <2>3, <2>7 DEF f, Then
<1>6. QED
  BY <1>4, <1>5

\* The next chunk of a sequence that is sent from the front.
LEMMA OneMore ==
  ASSUME NEW S, NEW s \in Seq(S), NEW k \in Nat, k < Len(s)
  PROVE  LET left == SubSeq(s, k + 1, Len(s)) IN
         /\ left # <<>> /\ Len(left) = Len(s) - k /\ Head(left) = s[k + 1] /\ s[k + 1] \in S
         /\ Tail(left) = SubSeq(s, k + 2, Len(s))
         /\ Len(SubSeq(s, 1, k)) = k
         /\ Append(SubSeq(s, 1, k), s[k + 1]) = SubSeq(s, 1, k + 1)
<1> DEFINE n == Len(s)
           left == SubSeq(s, k + 1, n)
<1>1. n \in Nat /\ \A i \in 1 .. n : s[i] \in S
  OBVIOUS
<1>2. /\ left \in Seq(S) /\ Len(left) = n - k
      /\ \A i \in 1 .. n - k : left[i] = s[k + i]
  <2>1. \A i \in k + 1 .. n : s[i] \in S
    BY <1>1
  <2>2. k + 1 \in Int /\ n \in Int
    BY <1>1
  <2>3. /\ left \in Seq(S) /\ Len(left) = IF k + 1 <= n THEN n - (k + 1) + 1 ELSE 0
        /\ \A i \in 1 .. n - (k + 1) + 1 : left[i] = s[k + 1 + i - 1]
    BY <2>1, <2>2, SubSeqProperties
  <2>4. n - (k + 1) + 1 = n - k /\ k + 1 <= n
    BY <1>1
  <2>5. \A i \in 1 .. n - k : k + 1 + i - 1 = k + i
    OBVIOUS
  <2>6. QED
    BY <2>3, <2>4, <2>5
<1>3. left # <<>> /\ Head(left) = s[k + 1] /\ s[k + 1] \in S
  <2>1. 1 \in 1 .. n - k /\ k + 1 \in 1 .. n /\ n - k # 0
    BY <1>1
  <2>2. left[1] = s[k + 1]
    BY <1>2, <2>1
  <2>3. left # <<>>
    BY <1>2, <2>1
  <2> HIDE DEF left
  <2>4. Head(left) = left[1]
    BY <1>2, <2>3
  <2>5. QED
    BY <1>1, <2>1, <2>2, <2>3, <2>4
<1>4. Tail(left) = SubSeq(s, k + 2, n)
  <2> DEFINE u == SubSeq(s, k + 2, n)
  <2>1. /\ u \in Seq(S) /\ Len(u) = n - k - 1
        /\ \A i \in 1 .. n - k - 1 : u[i] = s[k + 1 + i]
    <3>1. \A i \in k + 2 .. n : s[i] \in S
      BY <1>1
    <3>2. k + 2 \in Int /\ n \in Int
      BY <1>1
    <3>3. /\ u \in Seq(S) /\ Len(u) = IF k + 2 <= n THEN n - (k + 2) + 1 ELSE 0
          /\ \A i \in 1 .. n - (k + 2) + 1 : u[i] = s[k + 2 + i - 1]
      BY <3>1, <3>2, SubSeqProperties
    <3> HIDE DEF u
    <3>4. n - (k + 2) + 1 = n - k - 1 /\ (k + 2 <= n \/ n - k - 1 = 0)
      BY <1>1
    <3>5. ASSUME NEW i \in 1 .. n - k - 1 PROVE u[i] = s[k + 1 + i]
      <4>1. i \in 1 .. n - (k + 2) + 1 /\ k + 2 + i - 1 = k + 1 + i
        BY <1>1
      <4>2. QED
        BY <3>3, <4>1
    <3>6. Len(u) = n - k - 1
      <4>1. CASE k + 2 <= n
        BY <1>1, <3>3, <3>4, <4>1
      <4>2. CASE ~(k + 2 <= n)
        <5>1. Len(u) = 0
          BY <3>3, <4>2
        <5>2. n - k - 1 = 0
          <6>1. n < k + 2 /\ k < n
            BY <1>1, <4>2
          <6>2. QED
            BY <1>1, <6>1
        <5>3. QED
          BY <5>1, <5>2
      <4>3. QED
        BY <4>1, <4>2
    <3>7. QED
      BY <3>3, <3>5, <3>6
  <2> HIDE DEF u, left
  <2>2. /\ Tail(left) \in Seq(S) /\ Len(Tail(left)) = n - k - 1
        /\ \A i \in 1 .. Len(Tail(left)) : Tail(left)[i] = left[i + 1]
    BY <1>1, <1>2, <1>3, HeadTailProperties
  <2>3. ASSUME NEW i \in 1 .. n - k - 1 PROVE Tail(left)[i] = u[i]
    <3>1. i + 1 \in 1 .. n - k /\ k + (i + 1) = k + 1 + i
      BY <1>1
    <3>2. QED
      BY <1>2, <2>1, <2>2, <3>1
  <2>4. Tail(left) = u
    BY <2>1, <2>2, <2>3, SeqEqual
  <2>5. QED
    BY <2>4 DEF u
<1>5. \A m \in 0 .. n : /\ SubSeq(s, 1, m) \in Seq(S) /\ Len(SubSeq(s, 1, m)) = m
                        /\ \A i \in 1 .. m : SubSeq(s, 1, m)[i] = s[i]
  <2>1. ASSUME NEW m \in 0 .. n
        PROVE  /\ SubSeq(s, 1, m) \in Seq(S) /\ Len(SubSeq(s, 1, m)) = m
               /\ \A i \in 1 .. m : SubSeq(s, 1, m)[i] = s[i]
    <3> DEFINE u == SubSeq(s, 1, m)
    <3>1. \A i \in 1 .. m : s[i] \in S
      BY <1>1
    <3>2. 1 \in Int /\ m \in Int
      OBVIOUS
    <3>3. /\ u \in Seq(S) /\ Len(u) = IF 1 <= m THEN m - 1 + 1 ELSE 0
          /\ \A i \in 1 .. m - 1 + 1 : u[i] = s[1 + i - 1]
      BY <3>1, <3>2, SubSeqProperties
    <3>4. m - 1 + 1 = m /\ (1 <= m \/ m = 0) /\ \A i \in 1 .. m : 1 + i - 1 = i
      OBVIOUS
    <3> HIDE DEF u
    <3>5. u \in Seq(S) /\ Len(u) = m /\ \A i \in 1 .. m : u[i] = s[i]
      BY <3>3, <3>4
    <3>6. QED
      BY <3>5 DEF u
  <2>2. QED
    BY <2>1
<1>6. Append(SubSeq(s, 1, k), s[k + 1]) = SubSeq(s, 1, k + 1)
  <2> DEFINE a == SubSeq(s, 1, k)
             b == SubSeq(s, 1, k + 1)
             e == Append(a, s[k + 1])
  <2>1. /\ a \in Seq(S) /\ Len(a) = k /\ \A i \in 1 .. k : a[i] = s[i]
        /\ b \in Seq(S) /\ Len(b) = k + 1 /\ \A i \in 1 .. k + 1 : b[i] = s[i]
    <3>1. k \in 0 .. n /\ k + 1 \in 0 .. n
      BY <1>1
    <3>2. QED
      BY <1>5, <3>1
  <2> HIDE DEF a, b
  <2>2. /\ e \in Seq(S) /\ Len(e) = Len(a) + 1 /\ \A i \in 1 .. Len(a) : e[i] = a[i]
        /\ e[Len(a) + 1] = s[k + 1]
    BY <1>3, <2>1, AppendProperties
  <2>3. ASSUME NEW i \in 1 .. k + 1 PROVE e[i] = b[i]
    BY <2>1, <2>2
  <2> HIDE DEF e
  <2>4. Len(e) = k + 1
    BY <2>1, <2>2
  <2>5. e = b
    BY <2>1, <2>2, <2>3, <2>4, SeqEqual
  <2>6. QED
    BY <2>5 DEF a, b, e
<1>7. Len(SubSeq(s, 1, k)) = k
  BY <1>1, <1>5
<1>8. QED
  BY <1>2, <1>3, <1>4, <1>6, <1>7

\* While files are read nothing of them changes.
LEMMA FilesFrozen ==
  ASSUME UNCHANGED tmps
  PROVE  All' = All /\ \A p : Chunks(p)' = Chunks(p)
<1>1. \A p : Chunks(p)' = Chunks(p)
  BY DEF Chunks, GlobCur, FileMemoryLoad
<1>2. All' = All
  BY <1>1 DEF All
<1>3. QED
  BY <1>1, <1>2

LEMMA FilesStart == StatsInit => FilesInv
<1> SUFFICES ASSUME StatsInit PROVE FilesInv
  OBVIOUS
<1>1. N \in Nat /\ Procs = 0 .. N - 1
  BY ProcsTell
<1>2. FilesFit
  BY DEF StatsInit, FilesFit
<1>3. Quiet /\ DOMAIN to_send = Procs
  BY DEF StatsInit, Quiet
<1>4. Senders
  BY <1>1, <1>3 DEF Quiet, Senders
<1>5. Receiver
  BY <1>1, <1>3 DEF Quiet, Receiver
<1>6. QED
  BY <1>2, <1>3, <1>4, <1>5 DEF FilesInv

\* Before the end only the files change.
LEMMA FilesOnly ==
  ASSUME FilesInv, progress # "fini", FilesFit',
         UNCHANGED <<to_send, out_f, source, iters, through>>
  PROVE  FilesInv'
<1>1. N \in Nat /\ Procs = 0 .. N - 1 /\ N' = N
  BY ProcsTell
<1>2. Quiet /\ DOMAIN to_send = Procs
  BY DEF FilesInv
<1>3. Quiet'
  BY <1>2 DEF Quiet
<1>4. Senders'
  BY <1>1, <1>3 DEF Quiet, Senders
<1>5. Receiver'
  BY <1>1, <1>3 DEF Quiet, Receiver
<1>6. QED
  BY <1>2, <1>3, <1>4, <1>5 DEF FilesInv

LEMMA InitStepFiles == ASSUME FilesInv, InitStep PROVE FilesInv'
<1>1. /\ progress = "init" /\ progress' = (IF opened' = AllFiles THEN "run" ELSE progress)
      /\ UNCHANGED <<to_send, out_f, source, iters, through>>
  BY DEF InitStep
<1>2. PICK p \in Procs : GlobalInit(p) \/ \E i \in Files(p) \ {0} : ThreadInit(p, i)
  BY DEF InitStep
<1>3. PICK i \in Files(p) : OpenTmp(p, i) /\ opened' = opened \cup {<<p, i>>}
  <2>1. 0 \in Files(p)
    BY ProcsTell
  <2>2. QED
    BY <1>2, <2>1 DEF GlobalInit, ThreadInit
<1>4. FilesFit
  BY DEF FilesInv
<1>5. \A q \in Procs : \A j \in Files(q) : <<q, j>> \in opened' => <<q, j>> \in opened \/ (q = p /\ j = i)
  BY <1>3
<1>6. FilesFit'
  <2>1. CASE stats_file[p] /\ tmps' = [tmps EXCEPT ![p][i] = 0] /\ UNCHANGED stats_file
    <3>1. DOMAIN tmps' = Procs /\ \A q \in Procs : q # p => tmps'[q] = tmps[q]
      BY <1>4, <2>1 DEF FilesFit
    <3>2. tmps'[p] = [tmps[p] EXCEPT ![i] = 0]
      BY <1>4, <2>1 DEF FilesFit
    <3>3. tmps[p] \in [Files(p) -> Nat \cup {NoFile}]
      BY <1>4 DEF FilesFit
    <3>4. /\ tmps'[p] \in [Files(p) -> Nat \cup {NoFile}]
          /\ \A j \in Files(p) : tmps'[p][j] = IF j = i THEN 0 ELSE tmps[p][j]
      BY <3>2, <3>3
    <3>5. \A q \in Procs : tmps'[q] \in [Files(q) -> Nat \cup {NoFile}]
      BY <1>4, <3>1, <3>4 DEF FilesFit
    <3>6. ASSUME NEW q \in Procs, stats_file'[q], NEW j \in Files(q), <<q, j>> \in opened'
          PROVE  tmps'[q][j] # NoFile
      <4>1. CASE q = p /\ j = i
        BY <3>4, <4>1 DEF NoFile
      <4>2. CASE ~(q = p /\ j = i)
        <5>1. tmps[q][j] # NoFile
          BY <1>4, <1>5, <2>1, <3>6, <4>2 DEF FilesFit
        <5>2. tmps'[q][j] = tmps[q][j]
          BY <3>1, <3>4, <4>2
        <5>3. QED
          BY <5>1, <5>2
      <4>3. QED
        BY <4>1, <4>2
    <3>7. QED
      BY <1>1, <1>4, <2>1, <3>1, <3>5, <3>6 DEF FilesFit
  <2>2. CASE UNCHANGED tmps /\ \/ stats_file' = [stats_file EXCEPT ![p] = FALSE]
                               \/ ~stats_file[p] /\ UNCHANGED stats_file
    <3>1. stats_file' \in [Procs -> BOOLEAN] /\ \A q \in Procs : stats_file'[q] => stats_file[q] /\ q # p
      BY <1>4, <2>2 DEF FilesFit
    <3>2. QED
      BY <1>1, <1>4, <1>5, <2>2, <3>1 DEF FilesFit
  <2>3. QED
    BY <1>3, <2>1, <2>2 DEF OpenTmp
<1>7. QED
  BY <1>1, <1>6, FilesOnly

LEMMA OnGvtFiles ==
  ASSUME FilesInv, NEW p \in Procs, NEW i \in Files(p) \ {0}, StatsOnGvt(p, i)
  PROVE  FilesInv'
<1>1. /\ progress = "run" /\ progress' = progress
      /\ tmps' = [tmps EXCEPT ![p] = [f \in Files(p) |-> IF f = i \/ (f = 0 /\ i = 1) THEN @[f] + 1 ELSE @[f]]]
      /\ UNCHANGED <<opened, stats_file, to_send, out_f, source, iters, through>>
  BY DEF StatsOnGvt
<1>2. FilesFit
  BY DEF FilesInv
<1>3. DOMAIN tmps' = Procs /\ \A q \in Procs : q # p => tmps'[q] = tmps[q]
  BY <1>1, <1>2 DEF FilesFit
<1>4. tmps'[p] = [f \in Files(p) |-> IF f = i \/ (f = 0 /\ i = 1) THEN tmps[p][f] + 1 ELSE tmps[p][f]]
  BY <1>1, <1>2 DEF FilesFit
<1>5. tmps[p] \in [Files(p) -> Nat \cup {NoFile}]
  BY <1>2 DEF FilesFit
<1>6. \A f \in Files(p) : tmps'[p][f] \in Nat \cup {NoFile} /\ (tmps[p][f] # NoFile => tmps'[p][f] # NoFile)
  BY <1>4, <1>5 DEF NoFile
<1>7. tmps'[p] \in [Files(p) -> Nat \cup {NoFile}]
  BY <1>4, <1>6
<1>8. \A q \in Procs : \A f \in Files(q) : tmps[q][f] # NoFile => tmps'[q][f] # NoFile
  BY <1>3, <1>6
<1>9. FilesFit'
  <2>1. \A q \in Procs : tmps'[q] \in [Files(q) -> Nat \cup {NoFile}]
    BY <1>2, <1>3, <1>7 DEF FilesFit
  <2>2. ASSUME NEW q \in Procs, stats_file'[q], NEW f \in Files(q), <<q, f>> \in opened'
        PROVE  tmps'[q][f] # NoFile
    BY <1>1, <1>2, <1>8, <2>2 DEF FilesFit
  <2>3. QED
    BY <1>1, <1>2, <1>3, <2>1, <2>2 DEF FilesFit
<1>10. QED
  BY <1>1, <1>9, FilesOnly

LEMMA EndFiles == ASSUME FilesInv, EndOfRun PROVE FilesInv'
<1>1. /\ progress = "run" /\ progress' = "fini"
      /\ UNCHANGED <<opened, stats_file, tmps, to_send, out_f, source, iters, through>>
  BY DEF EndOfRun
<1>2. FilesFit'
  BY <1>1 DEF FilesInv, FilesFit
<1>3. QED
  BY <1>1, <1>2, FilesOnly

\* A process begins to send its chunks, or process 0 to take them.
LEMMA GlobalFiniFiles ==
  ASSUME FilesInv, NEW p \in Procs, GlobalFini(p)
  PROVE  FilesInv'
<1>1. /\ progress = "fini" /\ p \notin through /\ to_send[p] = <<>> /\ (p = 0 => source = 0)
      /\ UNCHANGED <<progress, opened, stats_file, tmps, iters>>
  BY DEF GlobalFini, NotInFini
<1>2. FilesFit /\ DOMAIN to_send = Procs /\ Senders /\ Receiver
  BY DEF FilesInv
<1>3. FilesFit'
  BY <1>1, <1>2 DEF FilesFit
<1>4. N \in Nat /\ Procs = 0 .. N - 1 /\ N' = N /\ source \in Nat
  BY <1>2, ProcsTell DEF Receiver
<1>5. All' = All /\ (\A q : Chunks(q)' = Chunks(q)) /\ \A q : Total(q)' = Total(q)
  BY <1>1, FilesFrozen DEF Total
<1>6. CASE ~stats_file[p] /\ through' = through \cup {p} /\ UNCHANGED <<to_send, out_f, source>>
  <2>1. Senders'
    BY <1>1, <1>2, <1>5, <1>6 DEF Senders
  <2>2. Receiver'
    <3>1. SoFar' = SoFar /\ Received' = Received
      BY <1>1, <1>5, <1>6 DEF SoFar, Received
    <3>2. source # 0 => p # 0
      BY <1>1
    <3>3. p = 0 => ~stats_file[0]
      BY <1>6
    <3>4. source # 0 => (0 \in through' <=> 0 \in through)
      BY <3>2, <1>6
    <3>5. source = 0 => (0 \in through' => ~stats_file[0])
      BY <1>2, <1>6, <3>3 DEF Receiver
    <3>6. through' \subseteq Procs
      BY <1>2, <1>6 DEF Receiver
    <3>7. QED
      BY <1>1, <1>2, <1>4, <1>5, <1>6, <3>1, <3>4, <3>5, <3>6 DEF Receiver
  <2>3. QED
    BY <1>1, <1>2, <1>3, <1>6, <2>1, <2>2 DEF FilesInv
<1>7. CASE stats_file[p] /\ p # 0 /\ to_send' = [to_send EXCEPT ![p] = Chunks(p)] /\ UNCHANGED <<out_f, source, through>>
  <2>1. to_send'[p] = Chunks(p) /\ \A q \in Procs : q # p => to_send'[q] = to_send[q]
    BY <1>2, <1>7
  <2>2. ~(p < source)
    BY <1>1, <1>2, <1>7 DEF Senders
  <2>3. iters # 0 => p # source
    <3>1. SUFFICES ASSUME iters # 0, p = source PROVE FALSE
      OBVIOUS
    <3>2. to_send[p] = SubSeq(Chunks(p), SoFar + 1, Total(p)) /\ iters \in Nat /\ iters < Total(p) /\ SoFar = Total(p) - iters
      BY <1>2, <3>1 DEF Receiver, SoFar
    <3>3. Total(p) \in Nat /\ Chunks(p) \in Seq(Chunk) /\ Len(Chunks(p)) = Total(p)
      BY <1>2, ProcsTell, ChunksTell
    <3>4. SoFar \in Nat /\ SoFar < Len(Chunks(p))
      BY <3>1, <3>2, <3>3
    <3>5. to_send[p] # <<>>
      BY <3>2, <3>3, <3>4, OneMore
    <3>6. QED
      BY <1>1, <3>5
  <2>4. Senders'
    <3>1. ASSUME NEW q \in Procs \ {0}
          PROVE  /\ q < source => q \in through
                 /\ q \in through => to_send'[q] = <<>> /\ (stats_file[q] => q < source)
                 /\ ~stats_file[q] => to_send'[q] = <<>>
                 /\ q # source \/ iters = 0 => to_send'[q] \in {<<>>, Chunks(q)}
      <4>1. CASE q = p
        BY <1>1, <1>7, <2>1, <2>2, <4>1
      <4>2. CASE q # p
        BY <1>2, <2>1, <4>2 DEF Senders
      <4>3. QED
        BY <4>1, <4>2
    <3>2. QED
      BY <1>1, <1>5, <1>7, <3>1 DEF Senders
  <2>5. Receiver'
    <3>1. SoFar' = SoFar /\ Received' = Received
      BY <1>1, <1>5, <1>7 DEF SoFar, Received
    <3>2. 0 \in Procs => to_send'[0] = <<>>
      BY <1>2, <1>7, <2>1 DEF Receiver
    <3>3. iters # 0 => to_send'[source] = to_send[source]
      <4>1. iters # 0 => source \in Procs
        BY <1>2, <1>4 DEF Receiver
      <4>2. QED
        BY <2>1, <2>3, <4>1
    <3>4. QED
      BY <1>1, <1>2, <1>4, <1>5, <1>7, <3>1, <3>2, <3>3 DEF Receiver
  <2>6. DOMAIN to_send' = Procs
    BY <1>2, <1>7
  <2>7. QED
    BY <1>1, <1>3, <2>4, <2>5, <2>6 DEF FilesInv
<1>8. CASE /\ stats_file[p] /\ p = 0 /\ out_f' \in FinalWrite /\ source' = 1
           /\ through' = (IF 1 \in Procs THEN through ELSE through \cup {0})
           /\ UNCHANGED to_send
  <2>1. source = 0 /\ iters = 0 /\ 1 \in 0 .. N /\ (1 \in Procs <=> 1 # N)
    BY <1>1, <1>2, <1>4, <1>8 DEF Receiver
  <2>2. Senders'
    <3>1. ASSUME NEW q \in Procs \ {0}
          PROVE  /\ ~(q < 1) /\ (q \in through' <=> q \in through)
                 /\ q \in through => to_send[q] = <<>> /\ ~stats_file[q]
                 /\ ~stats_file[q] => to_send[q] = <<>>
                 /\ to_send[q] \in {<<>>, Chunks(q)}
      BY <1>2, <1>4, <1>8, <2>1 DEF Senders
    <3>2. QED
      BY <1>1, <1>5, <1>8, <3>1 DEF Senders
  <2>3. Receiver'
    <3>1. Received' = Flat(All)[1]
      BY <1>1, <1>5, <1>8, <2>1 DEF Received, SoFar
    <3>2. Flat(All)[1] = Chunks(0)
      BY <1>2, <2>1, <1>4, FlatOfAll
    <3>3. out_f' \in {Closed, Received'}
      BY <1>8, <3>1, <3>2 DEF FinalWrite
    <3>4. 0 \in through' <=> 1 = N
      BY <1>1, <1>8, <2>1
    <3>5. through' \subseteq Procs
      BY <1>2, <1>8 DEF Receiver
    <3>6. 0 \in Procs => to_send'[0] = <<>>
      BY <1>1, <1>8
    <3>7. QED
      BY <1>1, <1>4, <1>8, <2>1, <3>3, <3>4, <3>5, <3>6 DEF Receiver
  <2>4. QED
    BY <1>1, <1>2, <1>3, <1>8, <2>2, <2>3 DEF FilesInv
<1>9. QED
  BY <1>6, <1>7, <1>8 DEF GlobalFini

LEMMA AppendToConcat ==
  ASSUME NEW S, NEW a \in Seq(S), NEW b \in Seq(S), NEW e \in S
  PROVE  Append(Then(a, b), e) = Then(a, Append(b, e))
<1>1. a \o b \in Seq(S) /\ <<e>> \in Seq(S)
  BY ConcatProperties
<1>2. Append(a \o b, e) = (a \o b) \o <<e>>
  BY <1>1, AppendIsConcat
<1>3. (a \o b) \o <<e>> = a \o (b \o <<e>>)
  BY <1>1, ConcatAssociative
<1>4. b \o <<e>> = Append(b, e)
  BY AppendIsConcat
<1>5. QED
  BY <1>2, <1>3, <1>4 DEF Then

\* Process 0 takes one chunk; with the last one it is done with its sender.
LEMMA TransferFiles == ASSUME FilesInv, Transfer PROVE FilesInv'
<1> DEFINE K == Total(source)
           k == SoFar
           s == Chunks(source)
           c == Head(to_send[source])
           left == IF iters = 0 THEN FilesAfter(c) ELSE iters - 1
<1>1. /\ source \in Procs \ {0} /\ to_send[source] # <<>>
      /\ to_send' = [to_send EXCEPT ![source] = Tail(to_send[source])]
      /\ out_f' = (IF out_f = Closed THEN out_f ELSE Append(out_f, c))
      /\ iters' = left
      /\ source' = (IF left = 0 THEN source + 1 ELSE source)
      /\ through' = through \cup {p \in {source} : Len(to_send[p]) = 1} \cup {p \in {0} : source' \notin Procs}
      /\ UNCHANGED <<progress, opened, stats_file, tmps>>
  BY DEF Transfer, Meets
<1>2. FilesFit /\ DOMAIN to_send = Procs /\ Senders /\ Receiver
  BY DEF FilesInv
<1>3. FilesFit'
  BY <1>1, <1>2 DEF FilesFit
<1>4. N \in Nat /\ Procs = 0 .. N - 1 /\ N' = N /\ source \in 1 .. N - 1 /\ source + 1 \in 1 .. N
  <2>1. N \in Nat /\ Procs = 0 .. N - 1
    BY ProcsTell
  <2>2. QED
    BY <1>1, <2>1
<1>5. All' = All /\ (\A q : Chunks(q)' = Chunks(q)) /\ \A q : Total(q)' = Total(q)
  BY <1>1, FilesFrozen DEF Total
<1>6. K \in Nat /\ 3 <= K /\ s \in Seq(Chunk) /\ Len(s) = K /\ s[1].n + 1 = K - 1
  BY <1>1, <1>2, ProcsTell, ChunksTell
<1>7. SubSeq(s, 1, K) = s
  BY <1>6, SubSeqFull
<1>8. /\ k \in Nat /\ k < K /\ to_send[source] = SubSeq(s, k + 1, K)
      /\ iters \in Nat /\ (iters = 0 => k = 0) /\ (iters # 0 => iters = K - k)
  <2>1. CASE iters = 0
    <3>1. to_send[source] = s
      BY <1>1, <1>2, <2>1 DEF Senders
    <3>2. k = 0
      BY <2>1 DEF SoFar
    <3>3. QED
      BY <1>6, <1>7, <2>1, <3>1, <3>2
  <2>2. CASE iters # 0
    <3>1. iters \in Nat /\ iters < K /\ to_send[source] = SubSeq(s, k + 1, K)
      BY <1>2, <2>2 DEF Receiver
    <3>2. k = K - iters
      BY <2>2 DEF SoFar
    <3>3. QED
      BY <1>6, <2>2, <3>1, <3>2
  <2>3. QED
    BY <2>1, <2>2
<1>9. /\ Len(to_send[source]) = K - k /\ c = s[k + 1] /\ c \in Chunk
      /\ Tail(to_send[source]) = SubSeq(s, k + 2, K)
      /\ Len(SubSeq(s, 1, k)) = k
      /\ Append(SubSeq(s, 1, k), c) = SubSeq(s, 1, k + 1)
  <2> HIDE DEF k, s, K
  <2>1. k < Len(s)
    BY <1>6, <1>8
  <2>2. /\ Len(SubSeq(s, k + 1, Len(s))) = Len(s) - k /\ Head(SubSeq(s, k + 1, Len(s))) = s[k + 1]
        /\ s[k + 1] \in Chunk
        /\ Tail(SubSeq(s, k + 1, Len(s))) = SubSeq(s, k + 2, Len(s))
        /\ Len(SubSeq(s, 1, k)) = k
        /\ Append(SubSeq(s, 1, k), s[k + 1]) = SubSeq(s, 1, k + 1)
    BY <1>6, <1>8, <2>1, OneMore
  <2>3. QED
    BY <1>6, <1>8, <2>2
<1>10. left = K - (k + 1) /\ left \in Nat
  <2>1. CASE iters = 0
    <3>1. k = 0 /\ c = s[1]
      <4> HIDE DEF k, s, c
      <4>1. k = 0 /\ k + 1 = 1 /\ c = s[k + 1]
        BY <1>8, <1>9, <2>1
      <4>2. QED
        BY <4>1
    <3>2. left = s[1].n + 1
      BY <2>1, <3>1 DEF FilesAfter
    <3>3. QED
      BY <1>6, <3>1, <3>2
  <2>2. CASE iters # 0
    <3> HIDE DEF k, K
    <3>1. QED
      BY <1>6, <1>8, <2>2
  <2>3. QED
    BY <2>1, <2>2
<1>11. progress = "fini"
  BY <1>1 DEF FilesInv, Quiet
<1>12. stats_file[source] /\ source \notin through
  BY <1>1, <1>2 DEF Senders
<1>13. to_send'[source] = SubSeq(s, k + 2, K) /\ \A q \in Procs : q # source => to_send'[q] = to_send[q]
  BY <1>1, <1>2, <1>9
<1>14. 0 \notin through /\ stats_file[0] /\ to_send[0] = <<>>
  BY <1>1, <1>2, <1>4 DEF Receiver
<1>15. out_f' \in {Closed, Flat(All)[source] \o SubSeq(s, 1, k + 1)}
  <2> DEFINE f == Flat(All)[source]
             taken == SubSeq(s, 1, k)
  <2>1. f \in Seq(Chunk)
    BY <1>2, <1>4, FlatOfAll
  <2>2. taken \in Seq(Chunk)
    <3>1. CASE k = 0
      BY <3>1, <1>6, SubSeqEmpty
    <3>2. CASE k # 0
      <4> HIDE DEF k, s
      <4>1. \A i \in 1 .. k : s[i] \in Chunk
        BY <1>6, <1>8
      <4>2. QED
        BY <1>8, <4>1, SubSeqProperties
    <3>3. QED
      BY <3>1, <3>2
  <2>3. Received = f \o taken
    <3>1. CASE k = 0
      <4>1. taken = <<>>
        BY <3>1, <1>6, SubSeqEmpty
      <4>2. f \o <<>> = f
        BY <2>1, ConcatEmptySeq
      <4>3. QED
        BY <3>1, <4>1, <4>2 DEF Received
    <3>2. CASE k # 0
      BY <3>2 DEF Received
    <3>3. QED
      BY <3>1, <3>2
  <2>4. out_f \in {Closed, Received}
    BY <1>1, <1>2 DEF Receiver
  <2> HIDE DEF f, taken, c
  <2>5. Append(Then(f, taken), c) = Then(f, Append(taken, c))
    <3>1. c \in Chunk
      BY <1>9
    <3>2. QED
      BY <2>1, <2>2, <3>1, AppendToConcat
  <2>6. Append(taken, c) = SubSeq(s, 1, k + 1)
    BY <1>9 DEF taken
  <2>7. QED
    BY <1>1, <2>3, <2>4, <2>5, <2>6 DEF f, Then
<1> HIDE DEF K, k, s, c
<1>16. CASE left = 0
  <2>1. k + 1 = K /\ K - k = 1
    BY <1>6, <1>8, <1>10, <1>16
  <2>2. source' = source + 1 /\ iters' = 0 /\ iters' \in Nat
    BY <1>1, <1>16
  <2>3. through' = through \cup {source} \cup {p \in {0} : source + 1 \notin Procs}
    BY <1>1, <1>9, <2>1, <2>2
  <2>4. to_send'[source] = <<>>
    <3>1. k + 2 \in Int /\ K \in Int /\ k + 2 > K
      BY <1>6, <1>8, <2>1
    <3>2. SubSeq(s, k + 2, K) = <<>>
      BY <1>6, <3>1, SubSeqEmpty
    <3>3. QED
      BY <1>13, <3>2
  <2>5. Senders'
    <3>1. ASSUME NEW q \in Procs \ {0}
          PROVE  /\ q < source + 1 => q \in through'
                 /\ q \in through' => to_send'[q] = <<>> /\ (stats_file[q] => q < source + 1)
                 /\ ~stats_file[q] => to_send'[q] = <<>>
                 /\ to_send'[q] \in {<<>>, Chunks(q)}
      <4>1. CASE q = source
        BY <1>4, <1>12, <2>3, <2>4, <4>1
      <4>2. CASE q # source
        <5>1. to_send'[q] = to_send[q] /\ (q \in through' <=> q \in through)
          BY <1>13, <2>3, <4>2
        <5>2. (q < source + 1 <=> q < source) /\ (q < source => q < source + 1)
          BY <1>4, <4>2
        <5>3. QED
          BY <1>2, <4>2, <5>1, <5>2 DEF Senders
      <4>3. QED
        BY <4>1, <4>2
    <3>2. QED
      BY <1>1, <1>5, <2>2, <3>1 DEF Senders
  <2>6. Receiver'
    <3>1. Received' = Flat(All)[source + 1]
      BY <1>5, <2>2 DEF Received, SoFar
    <3>2. Flat(All)[source + 1] = Flat(All)[source] \o s
      BY <1>2, <1>4, FlatOfAll DEF s
    <3>3. out_f' \in {Closed, Received'}
      BY <1>7, <1>15, <2>1, <3>1, <3>2
    <3>4. (0 \in through' <=> source + 1 = N) /\ through' \subseteq Procs
      <4>1. through \subseteq Procs
        BY <1>2 DEF Receiver
      <4>2. source + 1 \notin Procs <=> source + 1 = N
        BY <1>4
      <4>3. 0 # source /\ 0 \in Procs
        BY <1>4
      <4>4. QED
        BY <1>1, <1>14, <2>3, <4>1, <4>2, <4>3
    <3>5. to_send'[0] = <<>>
      BY <1>4, <1>13, <1>14
    <3>6. source' # 0 /\ source' \in 0 .. N
      BY <1>4, <2>2
    <3>7. QED
      BY <1>1, <1>4, <1>14, <2>2, <3>3, <3>4, <3>5, <3>6 DEF Receiver
  <2>7. QED
    BY <1>1, <1>2, <1>3, <1>11, <2>5, <2>6 DEF FilesInv
<1>17. CASE left # 0
  <2>1. iters' = left /\ source' = source /\ left = K - (k + 1) /\ K - k # 1 /\ left < K
    BY <1>1, <1>6, <1>8, <1>10, <1>17
  <2>2. through' = through
    <3>1. {p \in {source} : Len(to_send[p]) = 1} = {} /\ {p \in {0} : source' \notin Procs} = {}
      BY <1>1, <1>9, <2>1
    <3>2. QED
      BY <1>1, <3>1
  <2>3. Senders'
    <3>1. ASSUME NEW q \in Procs \ {0}
          PROVE  /\ q < source => q \in through
                 /\ q \in through => to_send'[q] = <<>> /\ (stats_file[q] => q < source)
                 /\ ~stats_file[q] => to_send'[q] = <<>>
                 /\ q # source => to_send'[q] \in {<<>>, Chunks(q)}
      <4>1. CASE q = source
        BY <1>2, <1>4, <1>12, <4>1
      <4>2. CASE q # source
        BY <1>2, <1>13, <4>2 DEF Senders
      <4>3. QED
        BY <4>1, <4>2
    <3>2. QED
      BY <1>1, <1>5, <1>17, <2>1, <2>2, <3>1 DEF Senders
  <2>4. Receiver'
    <3>1. SoFar' = k + 1 /\ k + 1 # 0
      <4>1. SoFar' = K - left
        BY <1>5, <1>17, <2>1 DEF SoFar, K
      <4>2. QED
        BY <1>6, <1>8, <2>1, <4>1
    <3>2. Received' = Flat(All)[source] \o SubSeq(s, 1, k + 1)
      BY <1>5, <2>1, <3>1 DEF Received, s
    <3>3. out_f' \in {Closed, Received'}
      BY <1>15, <3>2
    <3>4. to_send'[0] = <<>>
      BY <1>4, <1>13, <1>14
    <3>5. to_send'[source] = SubSeq(Chunks(source), SoFar' + 1, Total(source))
      <4>1. k + 1 + 1 = k + 2
        BY <1>8
      <4>2. QED
        BY <1>13, <3>1, <4>1 DEF s, K
    <3>6. source # 0 /\ source \in 0 .. N /\ source \in 1 .. N - 1
      BY <1>4
    <3>7. left < Total(source)
      BY <2>1 DEF K
    <3>8. /\ source' # 0 => stats_file'[0] /\ (0 \in through' <=> source' = N')
          /\ source' \in 0 .. N' /\ iters' \in Nat /\ through' \subseteq Procs
          /\ 0 \in Procs => to_send'[0] = <<>>
          /\ source' = 0 => out_f' = Closed /\ (0 \in through' => ~stats_file'[0])
      BY <1>1, <1>2, <1>4, <1>10, <1>14, <2>1, <2>2, <3>4, <3>6 DEF Receiver
    <3>9. /\ source' \in 1 .. N' - 1 /\ iters' < Total(source)'
          /\ to_send'[source'] = SubSeq(Chunks(source)', SoFar' + 1, Total(source)')
      BY <1>4, <1>5, <2>1, <3>5, <3>6, <3>7
    <3>10. QED
      BY <2>1, <3>3, <3>8, <3>9 DEF Receiver
  <2>5. QED
    BY <1>1, <1>2, <1>3, <1>11, <2>3, <2>4 DEF FilesInv
<1>18. QED
  BY <1>16, <1>17

\* The invariant says what the runs check.
LEMMA FilesTell == FilesInv => StatsAreGathered
<1> SUFFICES ASSUME FilesInv PROVE StatsAreGathered
  OBVIOUS
<1>1. N \in Nat /\ Procs = 0 .. N - 1
  BY ProcsTell
<1>2. FilesFit /\ DOMAIN to_send = Procs /\ (progress # "fini" => Quiet) /\ Senders /\ Receiver
  BY DEF FilesInv
<1>3. source \in 0 .. N /\ through \subseteq Procs
  BY <1>2 DEF Receiver
<1>4. ASSUME 0 \in through, stats_file[0], out_f # Closed PROVE out_f = FlattenSeq(All)
  <2>1. source # 0
    BY <1>2, <1>4 DEF Receiver
  <2>2. source = N /\ out_f \in {Closed, Received} /\ 1 <= N
    BY <1>1, <1>2, <1>3, <1>4, <2>1 DEF Receiver
  <2>3. iters = 0
    BY <1>1, <1>2, <2>2 DEF Receiver
  <2>4. Received = Flat(All)[N]
    BY <2>2, <2>3 DEF Received, SoFar
  <2>5. FlattenSeq(All) = Flat(All)[N]
    BY <1>2, <2>2, FlatOfAll
  <2>6. QED
    BY <1>4, <2>2, <2>4, <2>5
<1>5. ASSUME NEW p \in Procs, progress # "init", stats_file[p], NEW i \in Files(p)
      PROVE  tmps[p][i] # NoFile
  <2>1. <<p, i>> \in AllFiles
    BY DEF AllFiles
  <2>2. QED
    BY <1>2, <1>5, <2>1 DEF FilesFit
<1>6. ASSUME progress = "fini", through # Procs, \A p \in Procs : ~NotInFini(p),
             \A p \in Procs : stats_file[p]
      PROVE  Meets(source)
  <2>1. PICK p \in Procs : p \notin through
    BY <1>3, <1>6
  <2>2. 0 \in Procs
    BY <1>1, <2>1
  <2>3. CASE 0 \in through
    <3>1. source = N
      BY <1>2, <1>6, <2>2, <2>3 DEF Receiver
    <3>2. p \in Procs \ {0} /\ p < source
      BY <1>1, <2>1, <2>3, <3>1
    <3>3. QED
      BY <1>2, <2>1, <3>2 DEF Senders
  <2>4. CASE 0 \notin through
    <3>1. source # 0
      BY <1>2, <1>6, <2>2, <2>4 DEF NotInFini, Receiver
    <3>2. source # N
      BY <1>2, <2>4, <3>1 DEF Receiver
    <3>3. source \in Procs \ {0}
      BY <1>1, <1>3, <3>1, <3>2
    <3>4. source \notin through
      <4>1. ~(source < source)
        BY <1>1, <1>3
      <4>2. QED
        BY <1>2, <1>6, <3>3, <4>1 DEF Senders
    <3>5. to_send[source] # <<>>
      BY <1>6, <3>3, <3>4 DEF NotInFini
    <3>6. QED
      BY <3>3, <3>5 DEF Meets
  <2>5. QED
    BY <2>3, <2>4
<1>7. QED
  BY <1>4, <1>5, <1>6 DEF StatsAreGathered, All, N

\* In the end the file of process 0 has the statistics of every process in
\* order, written from files that could all be opened; and if all processes have
\* their files, process 0 never waits for one that does not send (log/stats.c).
THEOREM FilesGathered == StatsSpec => []StatsAreGathered
<1>1. StatsInit => FilesInv
  BY FilesStart
<1>2. FilesInv /\ [StatsNext]_statsVars => FilesInv'
  <2> SUFFICES ASSUME FilesInv, [StatsNext]_statsVars PROVE FilesInv'
    OBVIOUS
  <2>1. CASE InitStep
    BY <2>1, InitStepFiles
  <2>2. CASE \E p \in Procs : \E i \in Files(p) \ {0} : StatsOnGvt(p, i)
    BY <2>2, OnGvtFiles
  <2>3. CASE EndOfRun
    BY <2>3, EndFiles
  <2>4. CASE \E p \in Procs : GlobalFini(p)
    BY <2>4, GlobalFiniFiles
  <2>5. CASE Transfer
    BY <2>5, TransferFiles
  <2>6. CASE UNCHANGED statsVars
    <3>1. UNCHANGED <<progress, opened, stats_file, tmps, to_send, out_f, source, iters, through>>
      BY <2>6 DEF statsVars
    <3>2. All' = All /\ (\A q : Chunks(q)' = Chunks(q)) /\ N' = N
      BY <3>1, FilesFrozen
    <3>3. FilesFit' /\ (Quiet <=> Quiet')
      BY <3>1 DEF FilesInv, FilesFit, Quiet
    <3>4. Senders'
      BY <3>1, <3>2 DEF FilesInv, Senders
    <3>5. SoFar' = SoFar /\ Received' = Received
      BY <3>1, <3>2 DEF SoFar, Received, Total
    <3>6. Receiver'
      BY <3>1, <3>2, <3>5 DEF FilesInv, Receiver, Total
    <3>7. QED
      BY <3>1, <3>3, <3>4, <3>6 DEF FilesInv
  <2>7. QED
    BY <2>1, <2>2, <2>3, <2>4, <2>5, <2>6 DEF StatsNext
<1>3. QED
  BY <1>1, <1>2, FilesTell, PTL DEF StatsSpec
=============================================================================
