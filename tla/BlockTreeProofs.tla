-------------------------- MODULE BlockTreeProofs --------------------------
(***************************************************************************)
(* Proofs about the block tree of a miner (RBlockSim/src/Block.c), for any *)
(* numbers of nodes, blocks and levels, any tolerance and any depth.       *)
(*                                                                         *)
(* The inductive invariant is Inv: what is true of the blocks seen, and    *)
(* Good, which says of the chain that its window holds each block seen     *)
(* once; that exactly the blocks with all their ancestors are linked, each *)
(* to the node of its parent; that mined counts own blocks on the way down *)
(* the tree; that the tip is linked and the counters count its ancestors;  *)
(* and that an honest miner's tip is the best linked node.                 *)
(*                                                                         *)
(* A block is added in four steps, a section each: the window moves        *)
(* (RoomKeeps), the node is appended (Appended), what waited for it is     *)
(* linked (FoundTells, JoinsRight), and the best new node contends with    *)
(* the tip (SwitchTells, JoinKeeps).  Between the second and the third,    *)
(* Links holds for the miners of With(Conn(T), h, {m}) only: the new node  *)
(* is linked and its descendants are not yet.  The least and the greatest  *)
(* number of a set, and steps from 0 up to n, come first.                  *)
(*                                                                         *)
(* Inv needs that the miner mines once at a height (Once).  An attacker    *)
(* does not, so what is true of it all the same has an invariant of its    *)
(* own, in the last section: Goes, which says no more of the chain than    *)
(* that the window holds the tip, linked, and that no score is too high.   *)
(***************************************************************************)
EXTENDS BlockTree, Integers, NaturalsInduction, WellFoundedInduction, SequenceTheorems,
  FiniteSetTheorems, TLAPS

\* Sets of numbers have a least element, and a greatest one if bounded.
LEMMA MinIsLeast ==
  ASSUME NEW S \in SUBSET Nat, S # {}
  PROVE  Min(S) \in S /\ \A y \in S : Min(S) <= y
<1>1. PICK m \in S : \A y \in S : <<y, m>> \notin OpToRel(<, Nat)
  BY NatLessThanWellFounded, WFMin
<1>2. \A y \in S : ~ (y < m)
  BY <1>1 DEF OpToRel
<1>3. \A y \in S : m <= y
  BY <1>2
<1>4. QED
  BY <1>3 DEF Min

\* The maximum of a bounded set of naturals.
LEMMA MaxIsGreatest ==
  ASSUME NEW S \in SUBSET Nat, S # {}, NEW b \in Nat, \A x \in S : x <= b
  PROVE  Max(S) \in S /\ \A y \in S : y <= Max(S)
<1> DEFINE R == {b - x : x \in S}
<1>1. R \in SUBSET Nat /\ R # {}
  OBVIOUS
<1>2. Min(R) \in R /\ \A y \in R : Min(R) <= y
  BY <1>1, MinIsLeast
<1>3. PICK m \in S : Min(R) = b - m
  BY <1>2
<1>4. ASSUME NEW y \in S PROVE m >= y
  <2>1. b - y \in R
    OBVIOUS
  <2>2. b - m <= b - y
    BY <1>2, <1>3, <2>1
  <2>3. QED
    BY <2>2
<1>5. QED
  BY <1>4 DEF Max

\* A property of 0 that goes from each number to the next holds up to n.
LEMMA UpTo ==
  ASSUME NEW n \in Nat, NEW P, 0 \in P,
         \A i \in 0 .. n : i < n /\ i \in P => i + 1 \in P
  PROVE  \A i \in 0 .. n : i \in P
<1> DEFINE Bad == {i \in 0 .. n : i \notin P}
<1>1. ASSUME Bad # {} PROVE FALSE
  <2>1. Bad \in SUBSET Nat
    OBVIOUS
  <2>2. PICK k \in Bad : \A y \in Bad : k <= y
    <3> HIDE DEF Bad
    <3> QED
      BY <1>1, <2>1, MinIsLeast
  <2>3. k \in 0 .. n /\ k # 0
    BY <2>2
  <2>4. k - 1 \in 0 .. n /\ k - 1 < n /\ k - 1 + 1 = k
    BY <2>3
  <2>5. ~ (k <= k - 1)
    BY <2>3
  <2>6. k - 1 \in P
    BY <2>2, <2>4, <2>5
  <2>7. k \in P
    BY <2>4, <2>6
  <2>8. QED
    BY <2>2, <2>7
<1>2. QED
  BY <1>1

-----------------------------------------------------------------------------
(***************************************************************************)
(* What is true of the blocks seen: T[<<m, h>>] is the miner of the block  *)
(* that the block of m at height h was mined on.                           *)
(***************************************************************************)
Ids == Miners \X (1 .. MaxHeight)
TreeOK(T) ==
  /\ DOMAIN T \subseteq Ids
  /\ \A id \in DOMAIN T : /\ T[id] \in Miners \cup {NodeIdMax}
                          /\ T[id] = NodeIdMax <=> id[2] = 1
                          /\ T[id] = Me => <<Me, id[2] - 1>> \in DOMAIN T

\* Connected and TruePath, of a given tree.
IsConn(T, f) ==
  f = [h \in Heights |-> IF h = 0 THEN {NodeIdMax}
         ELSE {m \in Miners : <<m, h>> \in DOMAIN T /\ T[<<m, h>>] \in f[h - 1]}]
Conn(T) == CHOOSE f : IsConn(T, f)

IsPath(T, m, h, q) == q = [g \in 0 .. h |-> IF g = h THEN m ELSE T[<<q[g + 1], g + 1>>]]
Path(T, m, h) == CHOOSE q : IsPath(T, m, h, q)

\* The numbers of the model.
LEMMA Bounds ==
  /\ MaxHeight \in Nat /\ Heights = 0 .. MaxHeight /\ 0 \in Heights
  /\ Depth \in Nat /\ 1 <= Depth /\ Tolerance \in Nat
  /\ NodeIdMax \notin Miners /\ Miners \subseteq Nat /\ NodeIdMax \in Nat /\ Me \in Miners
BY ChainAssumption, BlockTreeAssumption DEF Heights, Miners, NodeIdMax

\* The operators of the model are those of its tree.
LEMMA OfTree ==
  /\ Connected = Conn(tree)
  /\ \A m, h : TruePath(m, h) = Path(tree, m, h)
BY DEF Connected, Conn, IsConn, TruePath, Path, IsPath

\* Which blocks have all their ancestors is defined, height by height,
LEMMA ConnIsThere ==
  ASSUME NEW T
  PROVE  \E f : IsConn(T, f)
<1> DEFINE New(s, h) == {m \in Miners : <<m, h>> \in DOMAIN T /\ T[<<m, h>>] \in s}
           Is(n, f) == f = [h \in 0 .. n |-> IF h = 0 THEN {NodeIdMax} ELSE New(f[h - 1], h)]
           P == {n \in 0 .. MaxHeight : \E f : Is(n, f)}
<1>1. MaxHeight \in Nat /\ Heights = 0 .. MaxHeight
  BY Bounds
<1>2. 0 \in P
  <2> DEFINE f == [h \in 0 .. 0 |-> {NodeIdMax}]
  <2> HIDE DEF New
  <2>1. \A h \in 0 .. 0 : h = 0
    OBVIOUS
  <2>2. f = [h \in 0 .. 0 |-> IF h = 0 THEN {NodeIdMax} ELSE New(f[h - 1], h)]
    BY <2>1
  <2> HIDE DEF f
  <2>3. 0 \in 0 .. MaxHeight
    BY <1>1
  <2>4. QED
    BY <2>2, <2>3
<1>3. ASSUME NEW i \in 0 .. MaxHeight, i < MaxHeight, i \in P PROVE i + 1 \in P
  <2>1. PICK f : Is(i, f)
    BY <1>3
  <2> DEFINE e == [h \in 0 .. i + 1 |-> IF h = i + 1 THEN New(f[i], h) ELSE f[h]]
  <2> HIDE DEF New
  <2>2. \A h \in 0 .. i : e[h] = f[h] /\ f[h] = IF h = 0 THEN {NodeIdMax} ELSE New(f[h - 1], h)
    <3>1. \A h \in 0 .. i : h \in 0 .. i + 1 /\ h # i + 1
      BY <1>1
    <3>2. QED
      BY <2>1, <3>1
  <2>3. e[i + 1] = New(f[i], i + 1) /\ e[i] = f[i] /\ i + 1 # 0 /\ i + 1 - 1 = i
    BY <1>1
  <2>4. \A h \in 0 .. i + 1 : e[h] = IF h = 0 THEN {NodeIdMax} ELSE New(e[h - 1], h)
    <3>1. \A h \in 0 .. i + 1 : h = i + 1 \/ (h \in 0 .. i /\ (h = 0 \/ h - 1 \in 0 .. i))
      BY <1>1
    <3> HIDE DEF e
    <3>2. QED
      BY <2>2, <2>3, <3>1
  <2>5. e = [h \in 0 .. i + 1 |-> e[h]]
    OBVIOUS
  <2> HIDE DEF e
  <2>6. Is(i + 1, e)
    BY <2>4, <2>5
  <2>7. i + 1 \in 0 .. MaxHeight
    BY <1>1, <1>3
  <2>8. QED
    BY <2>6, <2>7
<1>4. MaxHeight \in P
  <2> HIDE DEF P
  <2>1. MaxHeight \in 0 .. MaxHeight
    BY <1>1
  <2>2. QED
    BY <1>1, <1>2, <1>3, <2>1, UpTo
<1>5. QED
  BY <1>1, <1>4 DEF IsConn

\* and is what its definition says.
LEMMA ConnTells ==
  ASSUME NEW T
  PROVE  /\ Conn(T)[0] = {NodeIdMax}
         /\ \A h \in 1 .. MaxHeight : \A m :
              m \in Conn(T)[h] <=> m \in Miners /\ <<m, h>> \in DOMAIN T /\ T[<<m, h>>] \in Conn(T)[h - 1]
<1> DEFINE f == Conn(T)
<1>1. f = [h \in Heights |-> IF h = 0 THEN {NodeIdMax}
         ELSE {m \in Miners : <<m, h>> \in DOMAIN T /\ T[<<m, h>>] \in f[h - 1]}]
  <2>1. IsConn(T, f)
    BY ConnIsThere DEF Conn
  <2>2. QED
    BY <2>1 DEF IsConn
<1>2. MaxHeight \in Nat /\ Heights = 0 .. MaxHeight
  BY Bounds
<1> HIDE DEF f
<1>3. f[0] = {NodeIdMax}
  BY <1>1, <1>2
<1>4. \A h \in 1 .. MaxHeight : h \in Heights /\ h # 0
  BY <1>2
<1>5. ASSUME NEW h \in 1 .. MaxHeight
      PROVE  f[h] = {m \in Miners : <<m, h>> \in DOMAIN T /\ T[<<m, h>>] \in f[h - 1]}
  BY <1>1, <1>4
<1>6. QED
  BY <1>3, <1>5 DEF f

\* q goes down the tree from height k.
Way(T, q, k) == \A g \in 0 .. k - 1 : q[g] = T[<<q[g + 1], g + 1>>]

\* Two ways down from one block, by trees that agree on it, are the same.
LEMMA WaysAgree ==
  ASSUME NEW k \in Nat, NEW T, NEW a, Way(T, a, k), NEW U, NEW b, Way(U, b, k), a[k] = b[k],
         \A g \in 1 .. k : U[<<a[g], g>>] = T[<<a[g], g>>]
  PROVE  \A g \in 0 .. k : a[g] = b[g]
<1> DEFINE P == {i \in 0 .. k : a[k - i] = b[k - i]}
<1>1. 0 \in P
  OBVIOUS
<1>2. ASSUME NEW i \in 0 .. k, i < k, i \in P PROVE i + 1 \in P
  <2> DEFINE g == k - (i + 1)
  <2>1. g \in 0 .. k - 1 /\ g + 1 = k - i /\ g + 1 \in 1 .. k /\ i + 1 \in 0 .. k
    BY <1>2
  <2> HIDE DEF g
  <2>2. a[g + 1] = b[g + 1]
    BY <1>2, <2>1
  <2>3. a[g] = b[g]
    BY <2>1, <2>2 DEF Way
  <2>4. QED
    BY <2>1, <2>3 DEF g
<1>3. \A i \in 0 .. k : i \in P
  <2> HIDE DEF P
  <2>1. QED
    BY <1>1, <1>2, UpTo
<1>4. \A g \in 0 .. k : k - g \in 0 .. k /\ k - (k - g) = g
  OBVIOUS
<1>5. QED
  BY <1>3, <1>4

\* The ancestors of a block that has them all.
LEMMA PathTells ==
  ASSUME NEW T, NEW h \in Heights, NEW m \in Conn(T)[h]
  PROVE  /\ DOMAIN Path(T, m, h) = 0 .. h
         /\ Path(T, m, h)[h] = m
         /\ Way(T, Path(T, m, h), h)
         /\ \A g \in 0 .. h : Path(T, m, h)[g] \in Conn(T)[g]
<1> DEFINE f == Conn(T)
           Is(x, k, q) == /\ IsPath(T, x, k, q)
                          /\ \A g \in 0 .. k : q[g] \in f[g]
           P == {k \in 0 .. MaxHeight : \A x \in f[k] : \E q : Is(x, k, q)}
<1>1. MaxHeight \in Nat /\ Heights = 0 .. MaxHeight
  BY Bounds
<1>2. 0 \in P
  <2>1. ASSUME NEW x \in f[0] PROVE Is(x, 0, [g \in 0 .. 0 |-> x])
    <3> DEFINE q == [g \in 0 .. 0 |-> x]
    <3>1. \A g \in 0 .. 0 : g = 0
      OBVIOUS
    <3>2. q = [g \in 0 .. 0 |-> IF g = 0 THEN x ELSE T[<<q[g + 1], g + 1>>]]
      BY <3>1
    <3>3. QED
      BY <2>1, <3>1, <3>2 DEF IsPath
  <2>2. 0 \in 0 .. MaxHeight
    BY <1>1
  <2> HIDE DEF Is
  <2>3. QED
    BY <2>1, <2>2
<1>3. ASSUME NEW i \in 0 .. MaxHeight, i < MaxHeight, i \in P PROVE i + 1 \in P
  <2>1. i + 1 \in 1 .. MaxHeight /\ i + 1 - 1 = i /\ i + 1 \in 0 .. MaxHeight
    BY <1>1, <1>3
  <2>2. ASSUME NEW x \in f[i + 1] PROVE \E q : Is(x, i + 1, q)
    <3>1. T[<<x, i + 1>>] \in f[i]
      BY <2>1, <2>2, ConnTells
    <3>2. PICK q : Is(T[<<x, i + 1>>], i, q)
      BY <1>3, <3>1
    <3> DEFINE r == [g \in 0 .. i + 1 |-> IF g = i + 1 THEN x ELSE q[g]]
    <3>3. \A g \in 0 .. i : g \in 0 .. i + 1 /\ g # i + 1
      BY <1>1
    <3>4. r[i + 1] = x /\ \A g \in 0 .. i : r[g] = q[g]
      BY <2>1, <3>3
    <3>5. q[i] = T[<<x, i + 1>>] /\ \A g \in 0 .. i : g # i => q[g] = T[<<q[g + 1], g + 1>>]
      <4>1. i \in 0 .. i
        BY <1>1
      <4>2. QED
        BY <3>2, <4>1 DEF IsPath
    <3>6. \A g \in 0 .. i + 1 : r[g] = IF g = i + 1 THEN x ELSE T[<<r[g + 1], g + 1>>]
      <4>1. \A g \in 0 .. i + 1 : g = i + 1 \/ g = i \/ (g \in 0 .. i /\ g # i /\ g + 1 \in 0 .. i)
        BY <1>1
      <4>2. i # i + 1 /\ i \in 0 .. i
        BY <1>1
      <4> HIDE DEF r
      <4>3. QED
        BY <3>3, <3>4, <3>5, <4>1, <4>2
    <3>7. r = [g \in 0 .. i + 1 |-> r[g]]
      OBVIOUS
    <3> HIDE DEF r
    <3>8. IsPath(T, x, i + 1, r)
      BY <3>6, <3>7 DEF IsPath
    <3>9. \A g \in 0 .. i + 1 : r[g] \in f[g]
      <4>1. \A g \in 0 .. i + 1 : g = i + 1 \/ g \in 0 .. i
        BY <1>1
      <4>2. QED
        BY <2>2, <3>2, <3>4, <4>1
    <3>10. QED
      BY <3>8, <3>9
  <2>3. QED
    BY <2>1, <2>2
<1>4. h \in P
  <2> HIDE DEF P
  <2>1. QED
    BY <1>1, <1>2, <1>3, UpTo
<1>5. PICK q : Is(m, h, q)
  BY <1>4
<1> DEFINE r == Path(T, m, h)
<1>6. r = [g \in 0 .. h |-> IF g = h THEN m ELSE T[<<r[g + 1], g + 1>>]]
  <2>1. IsPath(T, m, h, r)
    BY <1>5 DEF Path
  <2>2. QED
    BY <2>1 DEF IsPath
<1> HIDE DEF r
<1>7. h \in Nat /\ h \in 0 .. h /\ \A g \in 0 .. h - 1 : g \in 0 .. h /\ g # h
  BY <1>1
<1>8. DOMAIN r = 0 .. h /\ r[h] = m /\ \A g \in 0 .. h - 1 : r[g] = T[<<r[g + 1], g + 1>>]
  BY <1>6, <1>7
<1>9. q[h] = m /\ \A g \in 0 .. h - 1 : q[g] = T[<<q[g + 1], g + 1>>]
  BY <1>5, <1>7 DEF IsPath
<1>10. \A g \in 0 .. h : q[g] = r[g]
  <2>1. q[h] = r[h] /\ Way(T, q, h) /\ Way(T, r, h)
    BY <1>8, <1>9 DEF Way
  <2>2. QED
    BY <1>7, <2>1, WaysAgree
<1>11. QED
  BY <1>5, <1>8, <1>10 DEF r, Way

\* The ancestors of a block, from those of one of its ancestors.
LEMMA PathAlong ==
  ASSUME NEW T, NEW h \in Heights, NEW m \in Conn(T)[h], NEW k \in 0 .. h
  PROVE  \A g \in 0 .. k : Path(T, m, h)[g] = Path(T, Path(T, m, h)[k], k)[g]
<1> DEFINE a == Path(T, m, h)
           b == Path(T, a[k], k)
<1>1. h \in Nat /\ k \in Heights /\ k \in Nat /\ \A g \in 0 .. k - 1 : g \in 0 .. h - 1
  BY Bounds
<1>2. a[k] \in Conn(T)[k] /\ Way(T, a, h)
  BY PathTells
<1> HIDE DEF a
<1>3. b[k] = a[k] /\ Way(T, b, k)
  BY <1>1, <1>2, PathTells
<1>4. Way(T, a, k)
  BY <1>1, <1>2 DEF Way
<1> HIDE DEF b
<1>5. \A g \in 0 .. k : a[g] = b[g]
  BY <1>1, <1>3, <1>4, WaysAgree
<1>6. QED
  BY <1>5 DEF a, b

\* More blocks are seen.
Grows(T, U) == DOMAIN T \subseteq DOMAIN U /\ \A id \in DOMAIN T : U[id] = T[id]

\* Those that had all their ancestors still have them,
LEMMA ConnGrows ==
  ASSUME NEW T, NEW U, Grows(T, U)
  PROVE  \A h \in Heights : \A m : m \in Conn(T)[h] => m \in Conn(U)[h]
<1> DEFINE P == {h \in 0 .. MaxHeight : \A m : m \in Conn(T)[h] => m \in Conn(U)[h]}
<1>1. MaxHeight \in Nat /\ Heights = 0 .. MaxHeight
  BY Bounds
<1>2. 0 \in P
  BY <1>1, ConnTells
<1>3. ASSUME NEW i \in 0 .. MaxHeight, i < MaxHeight, i \in P PROVE i + 1 \in P
  <2>1. i + 1 \in 1 .. MaxHeight /\ i + 1 - 1 = i /\ i + 1 \in 0 .. MaxHeight
    BY <1>1, <1>3
  <2>2. ASSUME NEW m, m \in Conn(T)[i + 1] PROVE m \in Conn(U)[i + 1]
    <3>1. m \in Miners /\ <<m, i + 1>> \in DOMAIN T /\ T[<<m, i + 1>>] \in Conn(T)[i]
      BY <2>1, <2>2, ConnTells
    <3>2. <<m, i + 1>> \in DOMAIN U /\ U[<<m, i + 1>>] = T[<<m, i + 1>>]
      BY <3>1 DEF Grows
    <3>3. U[<<m, i + 1>>] \in Conn(U)[i]
      BY <1>3, <3>1, <3>2
    <3>4. QED
      BY <2>1, <3>1, <3>2, <3>3, ConnTells
  <2>3. QED
    BY <2>1, <2>2
<1>4. \A h \in 0 .. MaxHeight : h \in P
  <2> HIDE DEF P
  <2>1. QED
    BY <1>1, <1>2, <1>3, UpTo
<1>5. QED
  BY <1>1, <1>4

\* and they are the same.
LEMMA PathSame ==
  ASSUME NEW T, NEW U, Grows(T, U), NEW h \in Heights, NEW m \in Conn(T)[h]
  PROVE  \A g \in 0 .. h : Path(U, m, h)[g] = Path(T, m, h)[g]
<1> DEFINE a == Path(T, m, h)
           b == Path(U, m, h)
<1>1. h \in 0 .. MaxHeight /\ h \in Nat /\ MaxHeight \in Nat
  BY Bounds
<1>2. a[h] = m /\ Way(T, a, h) /\ \A g \in 0 .. h : a[g] \in Conn(T)[g]
  BY PathTells
<1>3. b[h] = m /\ Way(U, b, h)
  BY ConnGrows, PathTells
<1> HIDE DEF a, b
<1>4. \A g \in 1 .. h : U[<<a[g], g>>] = T[<<a[g], g>>]
  <2>1. \A g \in 1 .. h : g \in 0 .. h /\ g \in 1 .. MaxHeight
    BY <1>1
  <2>2. \A g \in 1 .. h : <<a[g], g>> \in DOMAIN T
    BY <1>2, <2>1, ConnTells
  <2>3. QED
    BY <2>2 DEF Grows
<1>5. \A g \in 0 .. h : a[g] = b[g]
  BY <1>1, <1>2, <1>3, <1>4, WaysAgree
<1>6. QED
  BY <1>5 DEF a, b

-----------------------------------------------------------------------------
(***************************************************************************)
(* One more block.                                                         *)
(***************************************************************************)
Plus(T, m, h, p) ==
  [id \in DOMAIN T \cup {<<m, h>>} |-> IF id \in DOMAIN T THEN T[id] ELSE p]

\* The tree with the block of m at height h, which was mined on that of p.
LEMMA PlusTells ==
  ASSUME NEW T, NEW m, NEW h, NEW p, <<m, h>> \notin DOMAIN T
  PROVE  /\ Grows(T, Plus(T, m, h, p))
         /\ \A id : id \in DOMAIN Plus(T, m, h, p) <=> id \in DOMAIN T \/ id = <<m, h>>
         /\ Plus(T, m, h, p)[<<m, h>>] = p
BY DEF Plus, Grows

\* It is a block that may come: of a miner, with its parent below.
MayCome(T, m, h, p) ==
  /\ m \in Miners /\ h \in 1 .. MaxHeight /\ <<m, h>> \notin DOMAIN T
  /\ p \in Miners \cup {NodeIdMax}
  /\ p = NodeIdMax <=> h = 1
  /\ p = Me => <<Me, h - 1>> \in DOMAIN T

\* Names of different blocks.
LEMMA PairsTell == \A a, b, x, y : <<a, b>> = <<x, y>> <=> a = x /\ b = y
OBVIOUS

\* What is connected by it: itself, and what descends from it.
LEMMA PlusConn ==
  ASSUME NEW T, TreeOK(T), NEW m, NEW h, NEW p, MayCome(T, m, h, p)
  PROVE  LET U == Plus(T, m, h, p) IN
         /\ TreeOK(U)
         /\ \A g \in 0 .. h - 1 : \A x : x \in Conn(U)[g] <=> x \in Conn(T)[g]
         /\ \A x : x \in Conn(U)[h] <=> x \in Conn(T)[h] \/ (x = m /\ p \in Conn(T)[h - 1])
         /\ m \notin Conn(T)[h]
         /\ \A g \in h + 1 .. MaxHeight : \A x :
              x \in Conn(U)[g] <=> x \in Miners /\ <<x, g>> \in DOMAIN T /\ T[<<x, g>>] \in Conn(U)[g - 1]
<1> DEFINE U == Plus(T, m, h, p)
<1>1. /\ MaxHeight \in Nat /\ Heights = 0 .. MaxHeight
      /\ m \in Miners /\ h \in 1 .. MaxHeight /\ h \in Nat /\ <<m, h>> \notin DOMAIN T
  BY Bounds DEF MayCome
<1>2. /\ Grows(T, U) /\ U[<<m, h>>] = p
      /\ \A id : id \in DOMAIN U <=> id \in DOMAIN T \/ id = <<m, h>>
  BY <1>1, PlusTells
<1> HIDE DEF U
<1>3. TreeOK(U)
  <2>1. DOMAIN U \subseteq Ids
    BY <1>1, <1>2 DEF TreeOK, Ids
  <2>2. ASSUME NEW id \in DOMAIN U
        PROVE  /\ U[id] \in Miners \cup {NodeIdMax}
               /\ U[id] = NodeIdMax <=> id[2] = 1
               /\ U[id] = Me => <<Me, id[2] - 1>> \in DOMAIN U
    <3>1. CASE id \in DOMAIN T
      BY <1>2, <3>1 DEF TreeOK, Grows
    <3>2. CASE id = <<m, h>>
      BY <1>2, <3>2 DEF MayCome
    <3>3. QED
      BY <1>2, <3>1, <3>2
  <2>3. QED
    BY <2>1, <2>2 DEF TreeOK
<1>4. \A g \in 1 .. MaxHeight : \A x :
        x \in Conn(U)[g] <=> x \in Miners /\ <<x, g>> \in DOMAIN U /\ U[<<x, g>>] \in Conn(U)[g - 1]
  BY ConnTells
<1>5. \A g \in 1 .. MaxHeight : \A x :
        x \in Conn(T)[g] <=> x \in Miners /\ <<x, g>> \in DOMAIN T /\ T[<<x, g>>] \in Conn(T)[g - 1]
  BY ConnTells
<1>6. ASSUME NEW g \in 1 .. MaxHeight, g # h, NEW x
      PROVE  /\ <<x, g>> \in DOMAIN U <=> <<x, g>> \in DOMAIN T
             /\ <<x, g>> \in DOMAIN T => U[<<x, g>>] = T[<<x, g>>]
  <2>1. <<x, g>> # <<m, h>>
    BY <1>6
  <2>2. QED
    BY <1>2, <2>1 DEF Grows
<1>7. \A g \in 0 .. h - 1 : \A x : x \in Conn(U)[g] <=> x \in Conn(T)[g]
  <2> DEFINE P == {g \in 0 .. h - 1 : \A x : x \in Conn(U)[g] <=> x \in Conn(T)[g]}
  <2>1. 0 \in P
    BY <1>1, ConnTells
  <2>2. ASSUME NEW i \in 0 .. h - 1, i < h - 1, i \in P PROVE i + 1 \in P
    <3>1. i + 1 \in 1 .. MaxHeight /\ i + 1 # h /\ i + 1 - 1 = i /\ i + 1 \in 0 .. h - 1
      BY <1>1, <2>2
    <3>2. ASSUME NEW x PROVE x \in Conn(U)[i + 1] <=> x \in Conn(T)[i + 1]
      <4>1. x \in Conn(U)[i + 1] <=> /\ x \in Miners /\ <<x, i + 1>> \in DOMAIN U
                                     /\ U[<<x, i + 1>>] \in Conn(U)[i]
        BY <1>4, <3>1
      <4>2. x \in Conn(T)[i + 1] <=> /\ x \in Miners /\ <<x, i + 1>> \in DOMAIN T
                                     /\ T[<<x, i + 1>>] \in Conn(T)[i]
        BY <1>5, <3>1
      <4>3. QED
        BY <1>6, <2>2, <3>1, <4>1, <4>2
    <3>3. QED
      BY <3>1, <3>2
  <2>3. h - 1 \in Nat
    BY <1>1
  <2>4. \A g \in 0 .. h - 1 : g \in P
    <3> HIDE DEF P
    <3>1. QED
      BY <2>1, <2>2, <2>3, UpTo
  <2>5. QED
    BY <2>4
<1>8. \A x : x \in Conn(U)[h] <=> x \in Conn(T)[h] \/ (x = m /\ p \in Conn(T)[h - 1])
  <2>1. h - 1 \in 0 .. h - 1
    BY <1>1
  <2>2. ASSUME NEW x, x # m PROVE x \in Conn(U)[h] <=> x \in Conn(T)[h]
    <3>1. /\ <<x, h>> \in DOMAIN U <=> <<x, h>> \in DOMAIN T
          /\ <<x, h>> \in DOMAIN T => U[<<x, h>>] = T[<<x, h>>]
      BY <1>2, <2>2 DEF Grows
    <3>2. QED
      BY <1>1, <1>4, <1>5, <1>7, <2>1, <3>1
  <2>3. m \in Conn(U)[h] <=> p \in Conn(T)[h - 1]
    BY <1>1, <1>2, <1>4, <1>7, <2>1
  <2>4. m \notin Conn(T)[h]
    BY <1>1, <1>5
  <2>5. QED
    BY <2>2, <2>3, <2>4
<1>9. m \notin Conn(T)[h]
  BY <1>1, <1>5
<1>10. \A g \in h + 1 .. MaxHeight : \A x :
         x \in Conn(U)[g] <=> x \in Miners /\ <<x, g>> \in DOMAIN T /\ T[<<x, g>>] \in Conn(U)[g - 1]
  <2>1. \A g \in h + 1 .. MaxHeight : g \in 1 .. MaxHeight /\ g # h
    BY <1>1
  <2>2. QED
    BY <1>4, <1>6, <2>1
<1>11. QED
  BY <1>3, <1>7, <1>8, <1>9, <1>10 DEF U

\* When its parent does not have all ancestors, nothing is connected by it.
LEMMA NothingConnected ==
  ASSUME NEW T, TreeOK(T), NEW m, NEW h, NEW p, MayCome(T, m, h, p), p \notin Conn(T)[h - 1]
  PROVE  \A g \in Heights : \A x : x \in Conn(Plus(T, m, h, p))[g] <=> x \in Conn(T)[g]
<1> DEFINE U == Plus(T, m, h, p)
           P == {g \in 0 .. MaxHeight : \A x : x \in Conn(U)[g] <=> x \in Conn(T)[g]}
<1>1. MaxHeight \in Nat /\ Heights = 0 .. MaxHeight /\ h \in 1 .. MaxHeight /\ h \in Nat
  BY Bounds DEF MayCome
<1>2. /\ \A g \in 0 .. h - 1 : \A x : x \in Conn(U)[g] <=> x \in Conn(T)[g]
      /\ \A x : x \in Conn(U)[h] <=> x \in Conn(T)[h] \/ (x = m /\ p \in Conn(T)[h - 1])
      /\ \A g \in h + 1 .. MaxHeight : \A x :
           x \in Conn(U)[g] <=> x \in Miners /\ <<x, g>> \in DOMAIN T /\ T[<<x, g>>] \in Conn(U)[g - 1]
  BY PlusConn
<1> HIDE DEF U
<1>3. 0 \in P
  BY <1>1, <1>2
<1>4. ASSUME NEW i \in 0 .. MaxHeight, i < MaxHeight, i \in P PROVE i + 1 \in P
  <2>1. i + 1 \in 1 .. MaxHeight /\ i + 1 - 1 = i /\ i + 1 \in 0 .. MaxHeight
    BY <1>1, <1>4
  <2>2. i + 1 \in 0 .. h - 1 \/ i + 1 = h \/ i + 1 \in h + 1 .. MaxHeight
    BY <1>1, <2>1
  <2>3. \A x : x \in Conn(U)[i + 1] <=> x \in Conn(T)[i + 1]
    <3>1. CASE i + 1 \in 0 .. h - 1
      BY <1>2, <3>1
    <3>2. CASE i + 1 = h
      BY <1>2, <3>2
    <3>3. CASE i + 1 \in h + 1 .. MaxHeight
      <4>1. \A x : x \in Conn(U)[i + 1]
                     <=> x \in Miners /\ <<x, i + 1>> \in DOMAIN T /\ T[<<x, i + 1>>] \in Conn(U)[i]
        BY <1>2, <2>1, <3>3
      <4>2. \A x : x \in Conn(T)[i + 1]
                     <=> x \in Miners /\ <<x, i + 1>> \in DOMAIN T /\ T[<<x, i + 1>>] \in Conn(T)[i]
        BY <2>1, ConnTells
      <4>3. QED
        BY <1>4, <4>1, <4>2
    <3>4. QED
      BY <2>2, <3>1, <3>2, <3>3
  <2>4. QED
    BY <2>1, <2>3
<1>5. \A g \in 0 .. MaxHeight : g \in P
  <2> HIDE DEF P
  <2>1. QED
    BY <1>1, <1>3, <1>4, UpTo
<1>6. QED
  BY <1>1, <1>5 DEF U

\* What is connected by it has it among its ancestors.
LEMMA ThroughIt ==
  ASSUME NEW T, TreeOK(T), NEW m, NEW h, NEW p, MayCome(T, m, h, p),
         NEW g \in h .. MaxHeight, NEW x, x \in Conn(Plus(T, m, h, p))[g], x \notin Conn(T)[g]
  PROVE  /\ Path(Plus(T, m, h, p), x, g)[h] = m
         /\ \A k \in h .. g : Path(Plus(T, m, h, p), x, g)[k] \notin Conn(T)[k]
<1> DEFINE U == Plus(T, m, h, p)
           q == Path(U, x, g)
           P == {i \in 0 .. g - h : q[g - i] \notin Conn(T)[g - i]}
<1>1. /\ MaxHeight \in Nat /\ Heights = 0 .. MaxHeight /\ h \in 1 .. MaxHeight /\ h \in Nat
      /\ g \in Heights /\ g \in Nat /\ g - h \in Nat /\ h \in 0 .. g
  BY Bounds DEF MayCome
<1>2. /\ \A y : y \in Conn(U)[h] <=> y \in Conn(T)[h] \/ (y = m /\ p \in Conn(T)[h - 1])
      /\ \A k \in h + 1 .. MaxHeight : \A y :
           y \in Conn(U)[k] <=> y \in Miners /\ <<y, k>> \in DOMAIN T /\ T[<<y, k>>] \in Conn(U)[k - 1]
  BY PlusConn
<1>3. Grows(T, U)
  BY PlusTells DEF MayCome
<1> HIDE DEF U
<1>4. q[g] = x /\ Way(U, q, g) /\ \A k \in 0 .. g : q[k] \in Conn(U)[k]
  BY <1>1, PathTells DEF U
<1> HIDE DEF q
<1>5. 0 \in P
  BY <1>1, <1>4
<1>6. ASSUME NEW i \in 0 .. g - h, i < g - h, i \in P PROVE i + 1 \in P
  <2> DEFINE k == g - (i + 1)
  <2>1. /\ k \in 0 .. g - 1 /\ k + 1 = g - i /\ k + 1 \in 0 .. g /\ k + 1 - 1 = k
        /\ k + 1 \in h + 1 .. MaxHeight /\ k + 1 \in 1 .. MaxHeight /\ i + 1 \in 0 .. g - h
    BY <1>1, <1>6
  <2> HIDE DEF k
  <2>2. q[k + 1] \in Miners /\ <<q[k + 1], k + 1>> \in DOMAIN T
    BY <1>2, <1>4, <2>1
  <2>3. q[k] = T[<<q[k + 1], k + 1>>]
    BY <1>3, <1>4, <2>1, <2>2 DEF Way, Grows
  <2>4. q[k + 1] \notin Conn(T)[k + 1]
    BY <1>6, <2>1
  <2>5. q[k] \notin Conn(T)[k]
    BY <2>1, <2>2, <2>3, <2>4, ConnTells
  <2>6. QED
    BY <2>1, <2>5 DEF k
<1>7. \A i \in 0 .. g - h : i \in P
  <2> HIDE DEF P
  <2>1. QED
    BY <1>1, <1>5, <1>6, UpTo
<1>8. \A k \in h .. g : g - k \in 0 .. g - h /\ g - (g - k) = k
  BY <1>1
<1>9. \A k \in h .. g : q[k] \notin Conn(T)[k]
  BY <1>7, <1>8
<1>10. q[h] = m
  <2>1. h \in h .. g
    BY <1>1
  <2>2. QED
    BY <1>1, <1>2, <1>4, <1>9, <2>1
<1>11. QED
  BY <1>9, <1>10 DEF q, U
-----------------------------------------------------------------------------
(***************************************************************************)
(* Counting blocks of some miners on a way down the tree.                  *)
(***************************************************************************)
Count(S, q, a, b) == Cardinality({g \in a .. b : q[g] \in S})

\* MinedBy counts those of the whole chain.
LEMMA MinedByCounts == \A S, m, h : MinedBy(S, m, h) = Count(S, Path(tree, m, h), 1, h)
BY OfTree DEF MinedBy, Count

\* They are finitely many,
LEMMA CountTells ==
  ASSUME NEW S, NEW q, NEW a \in Nat, NEW b \in Nat
  PROVE  IsFiniteSet({g \in a .. b : q[g] \in S}) /\ Count(S, q, a, b) \in Nat
<1> DEFINE A == {g \in a .. b : q[g] \in S}
<1>1. IsFiniteSet(a .. b)
  BY FS_Interval
<1>2. A \in SUBSET (a .. b)
  OBVIOUS
<1>3. IsFiniteSet(A)
  BY <1>1, <1>2, FS_Subset
<1>4. Cardinality(A) \in Nat
  BY <1>3, FS_CardinalityType
<1>5. QED
  BY <1>3, <1>4 DEF Count

\* and as many on ways that agree.
LEMMA CountSame ==
  ASSUME NEW S, NEW q, NEW r, NEW a, NEW b, \A g \in a .. b : r[g] = q[g]
  PROVE  Count(S, r, a, b) = Count(S, q, a, b)
<1>1. {g \in a .. b : r[g] \in S} = {g \in a .. b : q[g] \in S}
  OBVIOUS
<1>2. QED
  BY <1>1 DEF Count

\* The upper part and the lower part.
LEMMA CountSplits ==
  ASSUME NEW S, NEW q, NEW k \in Nat, NEW h \in Nat, k <= h
  PROVE  Count(S, q, 1, h) = Count(S, q, 1, k) + Count(S, q, k + 1, h)
<1> DEFINE A == {g \in 1 .. h : q[g] \in S}
           B == {g \in 1 .. k : q[g] \in S}
           C == {g \in k + 1 .. h : q[g] \in S}
<1>1. IsFiniteSet(B) /\ IsFiniteSet(C)
  <2>1. 1 \in Nat /\ k + 1 \in Nat
    OBVIOUS
  <2> HIDE DEF B, C
  <2>2. IsFiniteSet({g \in 1 .. k : q[g] \in S}) /\ IsFiniteSet({g \in k + 1 .. h : q[g] \in S})
    BY <2>1, CountTells
  <2>3. QED
    BY <2>2 DEF B, C
<1>2. A = B \cup C /\ B \cap C = {}
  <2>1. \A g : g \in 1 .. h <=> g \in 1 .. k \/ g \in k + 1 .. h
    OBVIOUS
  <2>2. \A g \in 1 .. k : g \notin k + 1 .. h
    OBVIOUS
  <2>3. QED
    BY <2>1, <2>2
<1>3. Cardinality(B) \in Nat /\ Cardinality(C) \in Nat /\ Cardinality({}) = 0
  BY <1>1, FS_CardinalityType, FS_EmptySet
<1> HIDE DEF A, B, C
<1>4. Cardinality(B \cup C) = Cardinality(B) + Cardinality(C) - Cardinality(B \cap C)
  BY <1>1, FS_Union
<1>5. Cardinality(A) = Cardinality(B) + Cardinality(C)
  BY <1>2, <1>3, <1>4
<1>6. QED
  BY <1>5 DEF A, B, C, Count

\* There are none if there is none on the way,
LEMMA CountNone ==
  ASSUME NEW S, NEW q, NEW a \in Nat, NEW b \in Nat, \A g \in a .. b : q[g] \notin S
  PROVE  Count(S, q, a, b) = 0
<1>1. {g \in a .. b : q[g] \in S} = {}
  OBVIOUS
<1>2. QED
  BY <1>1, FS_EmptySet DEF Count

\* one more or none at one level more,
LEMMA CountNext ==
  ASSUME NEW S, NEW q, NEW h \in Nat, 1 <= h
  PROVE  Count(S, q, 1, h) = Count(S, q, 1, h - 1) + (IF q[h] \in S THEN 1 ELSE 0)
<1>1. h - 1 \in Nat /\ h - 1 <= h /\ h - 1 + 1 = h
  OBVIOUS
<1>2. Count(S, q, 1, h) = Count(S, q, 1, h - 1) + Count(S, q, h, h)
  BY <1>1, CountSplits
<1>3. Count(S, q, h, h) = IF q[h] \in S THEN 1 ELSE 0
  <2>1. \A g : g \in h .. h <=> g = h
    OBVIOUS
  <2>2. CASE q[h] \in S
    <3>1. {g \in h .. h : q[g] \in S} = {h}
      BY <2>1, <2>2
    <3>2. QED
      BY <2>2, <3>1, FS_Singleton DEF Count
  <2>3. CASE q[h] \notin S
    <3>1. {g \in h .. h : q[g] \in S} = {}
      BY <2>1, <2>3
    <3>2. QED
      BY <2>3, <3>1, FS_EmptySet DEF Count
  <2>4. QED
    BY <2>2, <2>3
<1>4. QED
  BY <1>2, <1>3

\* and as many as levels if all are.
LEMMA CountAll ==
  ASSUME NEW S, NEW q, NEW h \in Nat, \A g \in 1 .. h : q[g] \in S
  PROVE  Count(S, q, 1, h) = h
<1>1. {g \in 1 .. h : q[g] \in S} = 1 .. h
  OBVIOUS
<1>2. Cardinality(1 .. h) = h
  BY FS_Interval
<1>3. QED
  BY <1>1, <1>2 DEF Count

\* One level up in the tree.
LEMMA CountUp ==
  ASSUME NEW S, NEW T, NEW h \in 1 .. MaxHeight, NEW m \in Conn(T)[h]
  PROVE  /\ T[<<m, h>>] \in Conn(T)[h - 1]
         /\ Count(S, Path(T, m, h), 1, h)
              = Count(S, Path(T, T[<<m, h>>], h - 1), 1, h - 1) + (IF m \in S THEN 1 ELSE 0)
<1> DEFINE q == Path(T, m, h)
           r == Path(T, q[h - 1], h - 1)
<1>1. h \in Nat /\ 1 <= h /\ h \in Heights /\ h - 1 \in Nat /\ h - 1 \in 0 .. h - 1 /\ h - 1 \in 0 .. h
      /\ h - 1 + 1 = h
  BY Bounds
<1>2. q[h] = m /\ q[h - 1] = T[<<m, h>>] /\ q[h - 1] \in Conn(T)[h - 1]
  BY <1>1, PathTells DEF Way
<1>3. \A g \in 0 .. h - 1 : q[g] = r[g]
  BY <1>1, PathAlong
<1> HIDE DEF q, r
<1>4. \A g \in 1 .. h - 1 : q[g] = r[g]
  BY <1>1, <1>3
<1>5. Count(S, q, 1, h - 1) = Count(S, r, 1, h - 1)
  BY <1>4, CountSame
<1>6. Count(S, q, 1, h) = Count(S, q, 1, h - 1) + (IF q[h] \in S THEN 1 ELSE 0)
  BY <1>1, CountNext
<1>7. QED
  BY <1>2, <1>5, <1>6 DEF q, r


-----------------------------------------------------------------------------
(***************************************************************************)
(* What a chain c has to do with the tree T of the blocks seen.            *)
(***************************************************************************)
Kinds == {"total", "own", "attacker"}
NodeT == [miner : Miners \cup {NodeIdMax}, orphan : BOOLEAN, parent : Nat,
          score : Nat, mined : Nat, time : Nat]
ChainT == [level : [Heights -> Seq(NodeT)], index : Nat, height : Heights, max : Heights,
           min : Heights, stats : [Kinds -> Int], aborted : BOOLEAN]

\* The miners whose block at that height was seen, genesis block included.
Seen(T, h) == IF h = 0 THEN {NodeIdMax} ELSE {m \in Miners : <<m, h>> \in DOMAIN T}

\* The window has room for the main chain, and moves by halves.
Window(c) ==
  /\ c.min <= c.height /\ c.height <= c.max /\ c.max < c.min + 2 * Depth
  /\ c.min = 0 \/ c.min + Depth <= c.max

\* It holds the blocks seen at its heights, each once.
Blocks(c, T) ==
  /\ \A h \in Heights : h < c.min => c.level[h] = <<>>
  /\ \A h \in Heights : c.min <= h =>
       \A m : m \in Seen(T, h) <=> \E i \in DOMAIN c.level[h] : c.level[h][i].miner = m
  /\ \A h \in Heights : \A i, j \in DOMAIN c.level[h] :
       c.level[h][i].miner = c.level[h][j].miner => i = j
  /\ \A h \in Heights : c.max < h => \A m : m \notin Seen(T, h)

\* The node is an orphan that waits for its parent,
Waits(c, T, h, i) ==
  /\ h > 0 /\ c.level[h][i].orphan /\ c.level[h][i].parent = T[<<c.level[h][i].miner, h>>]
  /\ c.level[h][i].score = 0 /\ c.level[h][i].mined = 0

\* or it is linked to the node of its parent, unless that was dropped.
Linked(c, T, h, i) ==
  /\ ~c.level[h][i].orphan /\ c.level[h][i].score = h
  /\ h > c.min => /\ c.level[h][i].parent \in DOMAIN c.level[h - 1]
                  /\ c.level[h - 1][c.level[h][i].parent].miner = T[<<c.level[h][i].miner, h>>]

\* Those of the miners C[h] are linked.
Links(c, T, C) ==
  \A h \in Heights : \A i \in DOMAIN c.level[h] :
    /\ c.level[h][i].miner \in C[h] => Linked(c, T, h, i)
    /\ c.level[h][i].miner \notin C[h] => Waits(c, T, h, i)

\* Their own blocks are counted.
OwnBelow(T, m, h) == Count({Me}, Path(T, m, h), 1, h)
Mined(c, T, C) ==
  \A h \in Heights : \A i \in DOMAIN c.level[h] :
    c.level[h][i].miner \in C[h] =>
      c.level[h][i].mined = OwnBelow(T, c.level[h][i].miner, h)

\* The main chain ends in a linked node, and the counters are its own.
Tip(c) == c.level[c.height][c.index]
Main(c) == c.index \in DOMAIN c.level[c.height] /\ ~Tip(c).orphan
Stats(c, T) ==
  \A k \in Kinds : c.stats[k] = Count(CountedFor(Me)[k], Path(T, Tip(c).miner, c.height), 1, c.height)

\* A block that has all its ancestors was seen.
LEMMA ConnSeen ==
  ASSUME NEW T, NEW h \in Heights, NEW m \in Conn(T)[h]
  PROVE  m \in Seen(T, h)
<1>1. h = 0 \/ h \in 1 .. MaxHeight
  BY Bounds
<1>2. CASE h = 0
  BY <1>2, ConnTells DEF Seen
<1>3. CASE h \in 1 .. MaxHeight
  <2>1. h # 0
    BY <1>3
  <2>2. m \in Miners /\ <<m, h>> \in DOMAIN T
    BY <1>3, ConnTells
  <2>3. QED
    BY <2>1, <2>2 DEF Seen
<1>4. QED
  BY <1>1, <1>2, <1>3

\* The window holds it, in one place.
LEMMA Held ==
  ASSUME NEW T, NEW c, Blocks(c, T), NEW h \in Heights, c.min <= h, NEW m \in Conn(T)[h]
  PROVE  \E i \in DOMAIN c.level[h] : /\ c.level[h][i].miner = m
                                      /\ \A j \in DOMAIN c.level[h] : c.level[h][j].miner = m => j = i
<1>1. m \in Seen(T, h)
  BY ConnSeen
<1>2. \E i \in DOMAIN c.level[h] : c.level[h][i].miner = m
  BY <1>1 DEF Blocks
<1>3. QED
  BY <1>2 DEF Blocks

\* A way down by the indexes of parents.
IsUp(c, k, i, u) ==
  u = [g \in c.min .. k |-> IF g = k THEN i ELSE c.level[g + 1][u[g + 1]].parent]

\* The indexes of the ancestors are those of the blocks below.
LEMMA AncestryTells ==
  ASSUME NEW T, NEW c, c.min \in Nat, Blocks(c, T), Links(c, T, Conn(T)),
         NEW k \in Heights, c.min <= k, NEW i \in DOMAIN c.level[k], c.level[k][i].miner \in Conn(T)[k]
  PROVE  /\ DOMAIN Ancestry(c, <<k, i>>) = c.min .. k
         /\ \A g \in c.min .. k :
              /\ Ancestry(c, <<k, i>>)[g] \in DOMAIN c.level[g]
              /\ c.level[g][Ancestry(c, <<k, i>>)[g]].miner = Path(T, c.level[k][i].miner, k)[g]
         /\ Ancestry(c, <<k, i>>)[k] = i
<1> DEFINE q == Path(T, c.level[k][i].miner, k)
           w == [g \in c.min .. k |-> CHOOSE j \in DOMAIN c.level[g] : c.level[g][j].miner = q[g]]
           u == Ancestry(c, <<k, i>>)
<1>1. k \in Nat /\ k \in c.min .. k /\ Heights = 0 .. MaxHeight /\ MaxHeight \in Nat
  BY Bounds
<1>2. /\ q[k] = c.level[k][i].miner
      /\ \A g \in 0 .. k : q[g] \in Conn(T)[g]
      /\ \A g \in 0 .. k - 1 : q[g] = T[<<q[g + 1], g + 1>>]
  BY PathTells DEF Way
<1> HIDE DEF q
<1>3. ASSUME NEW g \in c.min .. k
      PROVE  /\ w[g] \in DOMAIN c.level[g] /\ c.level[g][w[g]].miner = q[g]
             /\ \A j \in DOMAIN c.level[g] : c.level[g][j].miner = q[g] => j = w[g]
  <2>1. g \in Heights /\ g \in 0 .. k /\ c.min <= g
    BY <1>1
  <2>2. q[g] \in Conn(T)[g]
    BY <1>2, <2>1
  <2>3. PICK j \in DOMAIN c.level[g] : /\ c.level[g][j].miner = q[g]
                                       /\ \A x \in DOMAIN c.level[g] : c.level[g][x].miner = q[g] => x = j
    BY <2>1, <2>2, Held
  <2>4. w[g] \in DOMAIN c.level[g] /\ c.level[g][w[g]].miner = q[g]
    BY <2>3
  <2>5. QED
    BY <2>3, <2>4
<1>4. w[k] = i
  BY <1>1, <1>2, <1>3
<1>5. DOMAIN w = c.min .. k
  OBVIOUS
<1> HIDE DEF w
<1>6. ASSUME NEW g \in c.min .. k, g # k PROVE w[g] = c.level[g + 1][w[g + 1]].parent
  <2>1. /\ g + 1 \in c.min .. k /\ g \in 0 .. k - 1 /\ g + 1 \in Heights /\ g + 1 > c.min
        /\ g + 1 - 1 = g /\ g + 1 \in 0 .. k
    BY <1>1, <1>6
  <2>2. w[g + 1] \in DOMAIN c.level[g + 1] /\ c.level[g + 1][w[g + 1]].miner = q[g + 1]
    BY <1>3, <2>1
  <2>3. Linked(c, T, g + 1, w[g + 1])
    BY <1>2, <2>1, <2>2 DEF Links
  <2>4. /\ c.level[g + 1][w[g + 1]].parent \in DOMAIN c.level[g]
        /\ c.level[g][c.level[g + 1][w[g + 1]].parent].miner = T[<<q[g + 1], g + 1>>]
    BY <2>1, <2>2, <2>3, SMTT(90) DEF Linked
  <2>5. QED
    BY <1>2, <1>3, <1>6, <2>1, <2>4, SMTT(90)
<1>7. IsUp(c, k, i, w)
  <2>1. w = [g \in c.min .. k |-> w[g]]
    BY <1>5 DEF w
  <2>2. QED
    BY <1>4, <1>6, <2>1 DEF IsUp
<1>8. u = CHOOSE x : IsUp(c, k, i, x)
  BY ZenonT(30) DEF Ancestry, IsUp, At
<1>9. IsUp(c, k, i, u)
  BY <1>7, <1>8
<1> HIDE DEF u
<1>10. /\ DOMAIN u = c.min .. k /\ u[k] = i
       /\ \A g \in c.min .. k : g # k => u[g] = c.level[g + 1][u[g + 1]].parent
  <2> DEFINE F == c.min .. k
  <2>1. k \in F
    BY <1>1
  <2>2. u = [g \in F |-> IF g = k THEN i ELSE c.level[g + 1][u[g + 1]].parent]
    BY <1>9 DEF IsUp
  <2> HIDE DEF F
  <2>3. DOMAIN u = F /\ u[k] = i /\ \A g \in F : g # k => u[g] = c.level[g + 1][u[g + 1]].parent
    BY <2>1, <2>2
  <2>4. QED
    BY <2>3 DEF F
<1>11. \A g \in c.min .. k : u[g] = w[g]
  <2> DEFINE P == {x \in 0 .. k - c.min : u[k - x] = w[k - x]}
  <2>1. 0 \in P
    BY <1>1, <1>4, <1>10
  <2>2. ASSUME NEW x \in 0 .. k - c.min, x < k - c.min, x \in P PROVE x + 1 \in P
    <3> DEFINE g == k - (x + 1)
    <3>1. g \in c.min .. k /\ g # k /\ g + 1 = k - x /\ x + 1 \in 0 .. k - c.min
      BY <1>1, <2>2
    <3> HIDE DEF g
    <3>2. u[g] = c.level[g + 1][u[g + 1]].parent /\ w[g] = c.level[g + 1][w[g + 1]].parent
      BY <1>6, <1>10, <3>1
    <3>3. u[g + 1] = w[g + 1]
      BY <2>2, <3>1
    <3>4. QED
      BY <3>1, <3>2, <3>3 DEF g
  <2>3. k - c.min \in Nat
    BY <1>1
  <2>4. \A x \in 0 .. k - c.min : x \in P
    <3> HIDE DEF P
    <3>1. QED
      BY <2>1, <2>2, <2>3, UpTo
  <2>5. \A g \in c.min .. k : k - g \in 0 .. k - c.min /\ k - (k - g) = g
    BY <1>1
  <2>6. QED
    BY <2>4, <2>5
<1>12. QED
  BY <1>3, <1>10, <1>11 DEF u, q

-----------------------------------------------------------------------------
(***************************************************************************)
(* switchChains.                                                           *)
(***************************************************************************)
\* What is reverted or applied above a height, as a number of blocks.
LEMMA StatsOfTells ==
  ASSUME NEW T, NEW c, c.min \in Nat, Blocks(c, T), Links(c, T, Conn(T)),
         NEW k \in Heights, c.min <= k, NEW i \in DOMAIN c.level[k], c.level[k][i].miner \in Conn(T)[k],
         NEW f \in c.min .. k, NEW K \in Kinds
  PROVE  LET up == Ancestry(c, <<k, i>>) IN
         StatsOf(c, up, {h \in DOMAIN up : h > f}, Me)[K]
           = Count(CountedFor(Me)[K], Path(T, c.level[k][i].miner, k), f + 1, k)
<1> DEFINE up == Ancestry(c, <<k, i>>)
           q == Path(T, c.level[k][i].miner, k)
           S == CountedFor(Me)[K]
           H == {h \in DOMAIN up : h > f}
<1>1. /\ DOMAIN up = c.min .. k
      /\ \A g \in c.min .. k : c.level[g][up[g]].miner = q[g]
  BY AncestryTells
<1>2. DOMAIN CountedFor(Me) = Kinds
  BY DEF CountedFor, Kinds
<1>3. StatsOf(c, up, H, Me)[K] = Cardinality({h \in H : c.level[h][up[h]].miner \in S})
  <2> HIDE DEF up, H
  <2>1. QED
    BY <1>2 DEF StatsOf
<1> HIDE DEF up, q, S
<1>4. \A h : h \in H <=> h \in f + 1 .. k
  <2>1. k \in Nat
    BY Bounds
  <2>2. QED
    BY <1>1, <2>1
<1>5. \A h \in f + 1 .. k : h \in c.min .. k
  BY Bounds
<1>6. {h \in H : c.level[h][up[h]].miner \in S} = {h \in f + 1 .. k : q[h] \in S}
  <2> HIDE DEF H
  <2>1. QED
    BY <1>1, <1>4, <1>5
<1>7. QED
  BY <1>3, <1>6 DEF Count, up, q, S

\* The main chain, as the way down from its tip.
LEMMA TipWay ==
  ASSUME NEW T, NEW c, c.min \in Nat, Blocks(c, T), Links(c, T, Conn(T)),
         c.height \in Heights, c.min <= c.height,
         c.index \in DOMAIN c.level[c.height], Tip(c).miner \in Conn(T)[c.height]
  PROVE  LET up == Ancestry(c, <<c.height, c.index>>) IN
         /\ DOMAIN up = c.min .. c.height
         /\ \A g \in c.min .. c.height :
              up[g] \in DOMAIN c.level[g] /\ c.level[g][up[g]].miner = Path(T, Tip(c).miner, c.height)[g]
         /\ \A f \in c.min .. c.height : \A K \in Kinds :
              StatsOf(c, up, {h \in DOMAIN up : h > f}, Me)[K]
                = Count(CountedFor(Me)[K], Path(T, Tip(c).miner, c.height), f + 1, c.height)
<1> DEFINE k == c.height
           i == c.index
           m == c.level[k][i].miner
<1>1. k \in Heights /\ c.min <= k /\ i \in DOMAIN c.level[k] /\ m \in Conn(T)[k] /\ Tip(c).miner = m
  BY DEF Tip
<1> HIDE DEF k, i
<1>2. LET up == Ancestry(c, <<k, i>>) IN
      /\ DOMAIN up = c.min .. k
      /\ \A g \in c.min .. k : up[g] \in DOMAIN c.level[g] /\ c.level[g][up[g]].miner = Path(T, m, k)[g]
  BY <1>1, AncestryTells
<1>3. LET up == Ancestry(c, <<k, i>>) IN
      \A f \in c.min .. k : \A K \in Kinds :
        StatsOf(c, up, {h \in DOMAIN up : h > f}, Me)[K] = Count(CountedFor(Me)[K], Path(T, m, k), f + 1, k)
  BY <1>1, StatsOfTells
<1>4. QED
  BY <1>1, <1>2, <1>3 DEF k, i

\* The chain d is c with another main chain, whose counters are those of its
\* blocks.
Switches(c, T, k, i, d) ==
  /\ d = [c EXCEPT !.height = k, !.index = i, !.stats = d.stats]
  /\ d.stats \in [Kinds -> Nat]
  /\ \A K \in Kinds :
       d.stats[K] = Count(CountedFor(Me)[K], Path(T, c.level[k][i].miner, k), 1, k)

\* So it is after switchChains.
LEMMA SwitchTells ==
  ASSUME NEW T, NEW c \in ChainT, Blocks(c, T), Links(c, T, Conn(T)), c.min <= c.height, Stats(c, T),
         c.index \in DOMAIN c.level[c.height], Tip(c).miner \in Conn(T)[c.height],
         NEW k \in Heights, c.min <= k, NEW i \in DOMAIN c.level[k], c.level[k][i].miner \in Conn(T)[k],
         NEW f \in Heights, c.min <= f, f <= c.height, f <= k,
         Path(T, Tip(c).miner, c.height)[f] = Path(T, c.level[k][i].miner, k)[f]
  PROVE  Switches(c, T, k, i, SwitchChains(c, <<k, i>>, Me))
<1> DEFINE old == Ancestry(c, <<c.height, c.index>>)
           new == Ancestry(c, <<k, i>>)
           a == Path(T, Tip(c).miner, c.height)
           b == Path(T, c.level[k][i].miner, k)
           common == {h \in DOMAIN old \cap DOMAIN new : old[h] = new[h]}
           fork == CHOOSE h \in common : \A g \in common : g <= h
           d == SwitchChains(c, <<k, i>>, Me)
<1>1. /\ c.min \in Nat /\ c.height \in Nat /\ c.height \in Heights /\ k \in Nat /\ f \in Nat
      /\ c.stats \in [Kinds -> Int] /\ c.index \in Nat
  BY Bounds DEF ChainT
<1>2. /\ DOMAIN old = c.min .. c.height
      /\ \A g \in c.min .. c.height : old[g] \in DOMAIN c.level[g] /\ c.level[g][old[g]].miner = a[g]
  BY <1>1, TipWay
<1>3. /\ DOMAIN new = c.min .. k
      /\ \A g \in c.min .. k : new[g] \in DOMAIN c.level[g] /\ c.level[g][new[g]].miner = b[g]
  BY <1>1, AncestryTells
<1> HIDE DEF old, new, a, b
<1>4. f \in common
  <2>1. f \in c.min .. k /\ f \in c.min .. c.height
    BY <1>1
  <2>2. a[f] = b[f]
    BY DEF a, b
  <2>3. old[f] = new[f]
    BY <1>2, <1>3, <2>1, <2>2 DEF Blocks
  <2>4. QED
    BY <1>2, <1>3, <2>1, <2>3
<1>5. fork \in common
  <2>1. common \in SUBSET Nat /\ \A x \in common : x <= k
    BY <1>1, <1>2, <1>3
  <2> HIDE DEF common
  <2>2. Max(common) \in common /\ \A y \in common : y <= Max(common)
    BY <1>1, <1>4, <2>1, MaxIsGreatest
  <2>3. QED
    BY <2>2
<1>6. fork \in c.min .. c.height /\ fork \in c.min .. k /\ old[fork] = new[fork]
  BY <1>2, <1>3, <1>5
<1> HIDE DEF fork
<1>7. fork \in 0 .. c.height /\ fork \in 0 .. k /\ fork \in Nat /\ fork <= c.height /\ fork <= k
  BY <1>1, <1>6
<1>8. a[fork] = b[fork]
  BY <1>2, <1>3, <1>6
<1>9. \A g \in 1 .. fork : b[g] = a[g]
  <2>1. \A g \in 0 .. fork : a[g] = Path(T, a[fork], fork)[g]
    BY <1>1, <1>7, PathAlong DEF a
  <2>2. \A g \in 0 .. fork : b[g] = Path(T, b[fork], fork)[g]
    BY <1>7, PathAlong DEF b
  <2>3. \A g \in 1 .. fork : g \in 0 .. fork
    BY <1>7
  <2>4. QED
    BY <1>8, <2>1, <2>2, <2>3
<1> DEFINE off == StatsOf(c, old, {h \in DOMAIN old : h > fork}, Me)
           on == StatsOf(c, new, {h \in DOMAIN new : h > fork}, Me)
<1>10. d = [c EXCEPT !.height = k, !.index = i,
                     !.stats = [K \in DOMAIN c.stats |-> (c.stats[K] - off[K]) + on[K]]]
  <2>1. common # {}
    BY <1>4
  <2>2. <<k, i>>[1] = k /\ <<k, i>>[2] = i
    OBVIOUS
  <2>3. QED
    BY <2>1, <2>2 DEF SwitchChains, MainChain, old, new, fork
<1>11. ASSUME NEW K \in Kinds
       PROVE  /\ (c.stats[K] - off[K]) + on[K] \in Nat
              /\ (c.stats[K] - off[K]) + on[K] = Count(CountedFor(Me)[K], b, 1, k)
  <2> DEFINE S == CountedFor(Me)[K]
  <2>1. off[K] = Count(S, a, fork + 1, c.height)
    BY <1>1, <1>6, TipWay DEF old, a
  <2>2. on[K] = Count(S, b, fork + 1, k)
    BY <1>1, <1>6, StatsOfTells DEF new, b
  <2>3. c.stats[K] = Count(S, a, 1, c.height)
    BY DEF Stats, a
  <2> HIDE DEF S, off, on
  <2>4. Count(S, a, 1, c.height) = Count(S, a, 1, fork) + Count(S, a, fork + 1, c.height)
    BY <1>1, <1>7, CountSplits
  <2>5. Count(S, b, 1, k) = Count(S, b, 1, fork) + Count(S, b, fork + 1, k)
    BY <1>1, <1>7, CountSplits
  <2>6. Count(S, b, 1, fork) = Count(S, a, 1, fork)
    BY <1>9, CountSame
  <2>7. /\ Count(S, a, 1, fork) \in Nat /\ Count(S, a, fork + 1, c.height) \in Nat
        /\ Count(S, b, fork + 1, k) \in Nat
    <3>1. 1 \in Nat /\ fork + 1 \in Nat
      BY <1>7
    <3>2. QED
      BY <1>1, <1>7, <3>1, CountTells
  <2>8. QED
    BY <2>1, <2>2, <2>3, <2>4, <2>5, <2>6, <2>7 DEF S
<1> HIDE DEF off, on, d
<1>12. DOMAIN c.stats = Kinds
  BY <1>1
<1>13. d.stats = [K \in Kinds |-> (c.stats[K] - off[K]) + on[K]]
  BY <1>10, <1>12 DEF ChainT
<1>14. QED
  <2>1. d.stats \in [Kinds -> Nat]
    BY <1>11, <1>13
  <2>2. \A K \in Kinds : d.stats[K] = Count(CountedFor(Me)[K], b, 1, k)
    BY <1>11, <1>13
  <2>3. d = [c EXCEPT !.height = k, !.index = i, !.stats = d.stats]
    BY <1>10, <1>12, <1>13
  <2>4. QED
    BY <2>1, <2>2, <2>3 DEF Switches, d, b

-----------------------------------------------------------------------------
(***************************************************************************)
(* The order of tips (chainNodeMax), and the window (addBlock).            *)
(***************************************************************************)
\* An honest miner's preference is total and transitive.
LEMMA HonestOrder ==
  ASSUME NEW a \in NodeT, NEW b \in NodeT, NEW e \in NodeT
  PROVE  /\ KeepsHonest(a, b) \/ KeepsHonest(b, a)
         /\ KeepsHonest(a, b) /\ KeepsHonest(b, e) => KeepsHonest(a, e)
<1>1. \A x \in {a, b, e} : x.score \in Nat /\ x.mined \in Nat /\ x.time \in Nat /\ x.miner \in Nat
  BY Bounds DEF NodeT
<1>2. QED
  BY <1>1 DEF KeepsHonest, EarlierSeen

\* Any miner prefers as an honest one does among nodes with as many own
\* ancestors,
LEMMA SameMined ==
  ASSUME NEW a, NEW b, a.mined = b.mined, b.mined \in Nat
  PROVE  Keeps(Me, a, b) <=> KeepsHonest(a, b)
<1>1. ~(a.mined > b.mined) /\ ~(a.mined < b.mined)
  OBVIOUS
<1>2. KeepsAttacker(a, b) <=> KeepsHonest(a, b)
  BY <1>1 DEF KeepsAttacker
<1>3. QED
  BY <1>2 DEF Keeps

\* and an attacker gives up more of them for a longer chain only.
LEMMA GivesUp ==
  ASSUME NEW a, NEW b, a.mined > b.mined, a.mined \in Nat, b.mined \in Nat,
         a.score \in Nat, b.score \in Nat, IsAttacker(Me), ~Keeps(Me, a, b)
  PROVE  b.score >= a.score + Tolerance
<1>1. a.mined # b.mined /\ ~(a.mined < b.mined)
  OBVIOUS
<1>2. KeepsAttacker(a, b) <=> KeepsOwn(a, b)
  BY <1>1 DEF KeepsAttacker
<1>3. QED
  BY <1>2, Bounds DEF Keeps, KeepsOwn

\* Of nodes with as many own ancestors one is preferred by any miner.
LEMMA BestThere ==
  ASSUME NEW P, P # {}, NEW n \in [P -> NodeT], \A p, q \in P : n[p].mined = n[q].mined,
         \A p \in P : n[p].score <= MaxHeight
  PROVE  \E p \in P : \A q \in P : Keeps(Me, n[p], n[q])
<1> DEFINE Scores == {n[p].score : p \in P}
           P1 == {p \in P : n[p].score = Max(Scores)}
           Times == {n[p].time : p \in P1}
           P2 == {p \in P1 : n[p].time = Min(Times)}
           Names == {n[p].miner : p \in P2}
<1>1. \A p \in P : n[p].score \in Nat /\ n[p].mined \in Nat /\ n[p].time \in Nat /\ n[p].miner \in Nat
  BY Bounds DEF NodeT
<1>2. Max(Scores) \in Scores /\ \A y \in Scores : y <= Max(Scores)
  <2>1. Scores \in SUBSET Nat /\ Scores # {} /\ (\A y \in Scores : y <= MaxHeight) /\ MaxHeight \in Nat
    BY <1>1, Bounds
  <2> HIDE DEF Scores
  <2>2. QED
    BY <2>1, MaxIsGreatest
<1>3. P1 # {} /\ P1 \subseteq P
  BY <1>2
<1>4. Min(Times) \in Times /\ \A y \in Times : Min(Times) <= y
  <2>1. Times \in SUBSET Nat /\ Times # {}
    BY <1>1, <1>3
  <2> HIDE DEF Times
  <2>2. QED
    BY <2>1, MinIsLeast
<1>5. P2 # {} /\ P2 \subseteq P1
  BY <1>4
<1>6. Min(Names) \in Names /\ \A y \in Names : Min(Names) <= y
  <2>1. Names \in SUBSET Nat /\ Names # {}
    BY <1>1, <1>3, <1>5
  <2> HIDE DEF Names
  <2>2. QED
    BY <2>1, MinIsLeast
<1>7. PICK p \in P2 : n[p].miner = Min(Names)
  BY <1>6
<1>8. p \in P1 /\ p \in P /\ n[p].score = Max(Scores) /\ n[p].time = Min(Times)
  BY <1>3, <1>5, <1>7
<1>9. ASSUME NEW q \in P PROVE KeepsHonest(n[p], n[q])
  <2>1. n[q].score \in Scores /\ n[q].mined = n[p].mined
    BY <1>8
  <2>2. n[q].score <= n[p].score
    BY <1>2, <1>8, <2>1
  <2>3. n[q].score = n[p].score => n[q].time \in Times /\ (q \in P1)
    BY <1>8
  <2>4. n[q].score = n[p].score => n[p].time <= n[q].time
    BY <1>4, <1>8, <2>3
  <2>5. n[q].score = n[p].score /\ n[q].time = n[p].time => n[q].miner \in Names
    BY <1>8, <2>3
  <2>6. n[q].score = n[p].score /\ n[q].time = n[p].time => n[p].miner <= n[q].miner
    BY <1>6, <1>7, <2>5
  <2> HIDE DEF Scores, Times, Names, P1, P2
  <2>7. /\ n[q].score \in Nat /\ n[q].time \in Nat /\ n[q].miner \in Nat
        /\ n[p].score \in Nat /\ n[p].time \in Nat /\ n[p].miner \in Nat
    BY <1>1, <1>8
  <2>8. QED
    BY <2>1, <2>2, <2>4, <2>6, <2>7 DEF KeepsHonest, EarlierSeen
<1>10. \A q \in P : n[p].mined = n[q].mined
  BY <1>8
<1> HIDE DEF Scores, Times, Names, P1, P2
<1>11. \A q \in P : Keeps(Me, n[p], n[q])
  <2>1. \A q \in P : n[p].mined \in Nat /\ n[q].mined = n[p].mined
    BY <1>1, <1>8, <1>10
  <2>2. \A q \in P : Keeps(Me, n[p], n[q]) <=> KeepsHonest(n[p], n[q])
    BY <2>1, SameMined
  <2>3. QED
    BY <1>9, <2>2
<1>12. QED
  BY <1>8, <1>11

\* For an honest miner no linked node is a better tip than the main chain's.
Best(c) ==
  ~IsAttacker(Me) => \A h \in Heights : \A i \in DOMAIN c.level[h] :
                       ~c.level[h][i].orphan => KeepsHonest(Tip(c), c.level[h][i])

\* All that is true of the chain.
Good(c, T) ==
  /\ c \in ChainT /\ ~c.aborted
  /\ Window(c) /\ Blocks(c, T) /\ Links(c, T, Conn(T)) /\ Mined(c, T, Conn(T))
  /\ Main(c) /\ Stats(c, T) /\ Best(c)

\* Dropping levels from the window, and raising it.
LEMMA DropKeeps ==
  ASSUME NEW T, NEW c \in ChainT, Good(c, T),
         NEW r \in ChainT, c.min <= r.min, c.max <= r.max, r.min <= c.height,
         \A g \in Heights : r.level[g] = IF g < r.min THEN <<>> ELSE c.level[g],
         r.height = c.height, r.index = c.index, r.stats = c.stats, r.aborted = c.aborted,
         Window(r)
  PROVE  Good(r, T) /\ Tip(r) = Tip(c)
<1>1. /\ r.min \in Nat /\ c.min \in Nat /\ r.max \in Nat /\ c.max \in Nat
      /\ c.height \in Heights /\ Heights \subseteq Nat
  BY Bounds DEF ChainT
<1>2. /\ \A g \in Heights : g < r.min => r.level[g] = <<>> /\ DOMAIN r.level[g] = {}
      /\ \A g \in Heights : ~(g < r.min) => r.level[g] = c.level[g] /\ ~(g < c.min)
      /\ \A g \in Heights : r.max < g => c.max < g
  BY <1>1
<1>3. \A g \in Heights : \A i \in DOMAIN r.level[g] :
        i \in DOMAIN c.level[g] /\ r.level[g][i] = c.level[g][i] /\ ~(g < r.min)
  BY <1>2
<1>4. Tip(r) = Tip(c) /\ r.level[r.height] = c.level[c.height]
  <2>1. c.height \in Heights /\ ~(c.height < r.min)
    <3> DEFINE x == r.min
               y == c.height
    <3>1. x \in Nat /\ y \in Nat /\ x <= y
      BY <1>1
    <3> HIDE DEF x, y
    <3>2. ~(y < x)
      BY <3>1
    <3>3. QED
      BY <1>1, <3>2 DEF x, y
  <2>2. r.level[c.height] = c.level[c.height]
    BY <1>2, <2>1
  <2>3. QED
    BY <2>2 DEF Tip
<1>5. Blocks(r, T)
  <2>1. \A g \in Heights : r.min <= g =>
          \A m : m \in Seen(T, g) <=> \E i \in DOMAIN r.level[g] : r.level[g][i].miner = m
    <3>1. \A g \in Heights : r.min <= g => ~(g < r.min) /\ c.min <= g
      BY <1>1
    <3>2. QED
      BY <1>2, <3>1 DEF Good, Blocks
  <2>2. \A g \in Heights : \A i, j \in DOMAIN r.level[g] : r.level[g][i].miner = r.level[g][j].miner => i = j
    BY <1>3 DEF Good, Blocks
  <2>3. QED
    BY <1>2, <2>1, <2>2 DEF Good, Blocks
<1>6. Links(r, T, Conn(T))
  <2>1. ASSUME NEW g \in Heights, NEW i \in DOMAIN r.level[g]
        PROVE  /\ r.level[g][i].miner \in Conn(T)[g] => Linked(r, T, g, i)
               /\ r.level[g][i].miner \notin Conn(T)[g] => Waits(r, T, g, i)
    <3>1. i \in DOMAIN c.level[g] /\ r.level[g][i] = c.level[g][i] /\ ~(g < r.min)
      BY <1>3
    <3>2. g > r.min => g - 1 \in Heights /\ ~(g - 1 < r.min) /\ g > c.min
      BY <1>1, Bounds
    <3>3. g > r.min => r.level[g - 1] = c.level[g - 1]
      BY <1>2, <3>2
    <3>4. ASSUME c.level[g][i].miner \in Conn(T)[g] PROVE Linked(r, T, g, i)
      <4>1. Linked(c, T, g, i)
        BY <3>1, <3>4 DEF Good, Links
      <4>2. QED
        BY <3>1, <3>2, <3>3, <4>1 DEF Linked
    <3>5. ASSUME c.level[g][i].miner \notin Conn(T)[g] PROVE Waits(r, T, g, i)
      <4>1. Waits(c, T, g, i)
        BY <3>1, <3>5 DEF Good, Links
      <4>2. QED
        BY <3>1, <4>1 DEF Waits
    <3>6. QED
      BY <3>1, <3>4, <3>5
  <2>2. QED
    BY <2>1 DEF Links
<1>7. Mined(r, T, Conn(T))
  BY <1>3 DEF Good, Mined
<1>8. Best(r)
  BY <1>3, <1>4 DEF Good, Best
<1>9. QED
  BY <1>4, <1>5, <1>6, <1>7, <1>8 DEF Good, Main, Stats

\* addBlock makes room for a block that is not far above the main chain.
LEMMA RoomKeeps ==
  ASSUME NEW T, NEW c, Good(c, T), NEW h \in 1 .. MaxHeight, c.min < h, h <= c.height + Depth
  PROVE  LET r == MakeRoom(c, h) IN
         /\ Good(r, T) /\ Tip(r) = Tip(c)
         /\ r.height = c.height /\ r.index = c.index
         /\ r.min < h /\ h <= r.max /\ h < r.min + 2 * Depth
         /\ r.max = (IF h <= c.max THEN c.max ELSE h)
         /\ r.min = 0 \/ r.min + Depth <= r.max
<1> DEFINE r == MakeRoom(c, h)
<1>1. /\ c \in ChainT /\ c.min \in Nat /\ c.max \in Nat /\ c.height \in Nat /\ h \in Nat /\ h \in Heights
      /\ Depth \in Nat /\ 1 <= Depth /\ 1 <= h
      /\ c.min <= c.height /\ c.height <= c.max /\ c.max < c.min + 2 * Depth
      /\ c.min = 0 \/ c.min + Depth <= c.max
      /\ Heights = 0 .. MaxHeight /\ MaxHeight \in Nat
  <2>1. c \in ChainT /\ Window(c)
    BY DEF Good
  <2>2. c.min \in Heights /\ c.max \in Heights /\ c.height \in Heights
    BY <2>1 DEF ChainT
  <2>3. /\ c.min <= c.height /\ c.height <= c.max /\ c.max < c.min + 2 * Depth
        /\ c.min = 0 \/ c.min + Depth <= c.max
    BY <2>1 DEF Window
  <2>4. QED
    BY <2>1, <2>2, <2>3, Bounds
<1>2. CASE h <= c.max
  <2>1. r = c
    BY <1>2 DEF MakeRoom
  <2>2. QED
    BY <1>1, <1>2, <2>1 DEF Good
<1>3. CASE ~(h <= c.max) /\ ~(h >= c.min + 2 * Depth)
  <2>1. r = [c EXCEPT !.max = h]
    BY <1>3 DEF MakeRoom
  <2>2. /\ r \in ChainT /\ r.max = h /\ r.min = c.min /\ r.height = c.height /\ r.index = c.index
        /\ r.stats = c.stats /\ r.aborted = c.aborted /\ r.level = c.level
    BY <1>1, <2>1 DEF ChainT
  <2> HIDE DEF r
  <2>3. /\ c.max <= r.max /\ r.min < h /\ h < r.min + 2 * Depth /\ r.min <= c.height
        /\ Window(r)
    BY <1>1, <1>3, <2>2 DEF Window
  <2>4. \A g \in Heights : r.level[g] = IF g < r.min THEN <<>> ELSE c.level[g]
    BY <2>2 DEF Good, Blocks
  <2>5. Good(r, T) /\ Tip(r) = Tip(c)
    BY <1>1, <2>2, <2>3, <2>4, DropKeeps
  <2>6. QED
    BY <1>1, <1>3, <2>2, <2>3, <2>5 DEF Window, r
<1>4. CASE ~(h <= c.max) /\ h >= c.min + 2 * Depth
  <2> DEFINE L == [g \in Heights |-> IF g < c.min + Depth THEN <<>> ELSE c.level[g]]
             raised == [c EXCEPT !.max = h]
  <2>1. r = [raised EXCEPT !.level = L, !.min = c.min + Depth]
    <3>1. raised \in ChainT /\ raised.min = c.min /\ raised.level = c.level
      BY <1>1 DEF ChainT
    <3>2. r = MoveChainForward(raised)
      BY <1>4 DEF MakeRoom
    <3> HIDE DEF raised, r
    <3>3. QED
      BY <3>1, <3>2 DEF MoveChainForward
  <2>2. L \in [Heights -> Seq(NodeT)]
    <3>1. <<>> \in Seq(NodeT)
      OBVIOUS
    <3>2. c.level \in [Heights -> Seq(NodeT)]
      BY <1>1 DEF ChainT
    <3>3. QED
      BY <3>1, <3>2
  <2>3. c.min + Depth \in Heights
    BY <1>1, <1>4
  <2>4. /\ r \in ChainT /\ r.max = h /\ r.min = c.min + Depth /\ r.height = c.height /\ r.index = c.index
        /\ r.stats = c.stats /\ r.aborted = c.aborted /\ r.level = L
    <3> HIDE DEF L
    <3>1. raised \in ChainT /\ raised = [c EXCEPT !.max = h]
      BY <1>1 DEF ChainT
    <3>2. /\ raised.max = h /\ raised.height = c.height /\ raised.index = c.index
          /\ raised.stats = c.stats /\ raised.aborted = c.aborted
      BY <1>1 DEF ChainT
    <3> HIDE DEF raised
    <3>3. QED
      BY <2>1, <2>2, <2>3, <3>1, <3>2 DEF ChainT
  <2> HIDE DEF r
  <2>5. \A g \in Heights : r.level[g] = IF g < r.min THEN <<>> ELSE c.level[g]
    BY <2>4
  <2> HIDE DEF L
  <2>6. /\ c.min <= r.min /\ c.max <= r.max /\ r.min < h /\ h < r.min + 2 * Depth /\ r.min <= c.height
        /\ r.min + Depth <= h /\ Window(r)
    BY <1>1, <1>4, <2>4 DEF Window
  <2>7. Good(r, T) /\ Tip(r) = Tip(c)
    BY <1>1, <2>4, <2>5, <2>6, DropKeeps
  <2>8. QED
    BY <1>1, <1>4, <2>4, <2>6, <2>7 DEF r
<1>5. QED
  BY <1>2, <1>3, <1>4

-----------------------------------------------------------------------------
(***************************************************************************)
(* One more node, linked if S has its miner.                               *)
(***************************************************************************)
With(C, h, S) == [g \in Heights |-> IF g = h THEN C[g] \cup S ELSE C[g]]

\* The block seen is a block of its height.
LEMMA SeenPlus ==
  ASSUME NEW T, NEW m, NEW h, NEW p, MayCome(T, m, h, p)
  PROVE  /\ m \notin Seen(T, h)
         /\ \A g \in Heights : \A x : x \in Seen(Plus(T, m, h, p), g) <=> x \in Seen(T, g) \/ (g = h /\ x = m)
<1>1. m \in Miners /\ h \in 1 .. MaxHeight /\ h # 0 /\ <<m, h>> \notin DOMAIN T
  BY DEF MayCome
<1> DEFINE U == Plus(T, m, h, p)
<1>2. \A id : id \in DOMAIN U <=> id \in DOMAIN T \/ id = <<m, h>>
  BY <1>1, PlusTells
<1> HIDE DEF U
<1>3. m \notin Seen(T, h)
  BY <1>1 DEF Seen
<1>4. ASSUME NEW g \in Heights, NEW x PROVE x \in Seen(U, g) <=> x \in Seen(T, g) \/ (g = h /\ x = m)
  <2>1. CASE g = 0
    BY <1>1, <2>1 DEF Seen
  <2>2. CASE g # 0
    <3>1. <<x, g>> = <<m, h>> <=> x = m /\ g = h
      BY PairsTell
    <3>2. <<x, g>> \in DOMAIN U <=> <<x, g>> \in DOMAIN T \/ (g = h /\ x = m)
      BY <1>2, <3>1
    <3>3. QED
      BY <1>1, <2>2, <3>2 DEF Seen
  <2>3. QED
    BY <2>1, <2>2
<1>5. QED
  BY <1>3, <1>4 DEF U

\* A sequence with one more element.
LEMMA AppendTells ==
  ASSUME NEW S, NEW s \in Seq(S), NEW e \in S
  PROVE  /\ Append(s, e) \in Seq(S)
         /\ Len(s) + 1 \in DOMAIN Append(s, e) /\ Len(s) + 1 \notin DOMAIN s
         /\ Append(s, e)[Len(s) + 1] = e /\ Len(Append(s, e)) = Len(s) + 1
         /\ \A i \in DOMAIN s : i \in DOMAIN Append(s, e) /\ Append(s, e)[i] = s[i]
         /\ \A i \in DOMAIN Append(s, e) : i \in DOMAIN s \/ i = Len(s) + 1
OBVIOUS

\* The chain a is r with this node as the n-th of its height.
Adds(r, h, node, n, a) ==
  /\ a \in ChainT /\ Len(a.level[h]) = n
  /\ a.min = r.min /\ a.max = r.max /\ a.height = r.height /\ a.index = r.index
  /\ a.stats = r.stats /\ a.aborted = r.aborted
  /\ n \in DOMAIN a.level[h] /\ n \notin DOMAIN r.level[h] /\ a.level[h][n] = node
  /\ \A g \in Heights : \A i \in DOMAIN r.level[g] : i \in DOMAIN a.level[g] /\ a.level[g][i] = r.level[g][i]
  /\ \A g \in Heights : \A i \in DOMAIN a.level[g] : i \in DOMAIN r.level[g] \/ (g = h /\ i = n)
  /\ \A g \in Heights : g # h => a.level[g] = r.level[g]

\* The other nodes are where they were.
LEMMA AppendedShape ==
  ASSUME NEW r \in ChainT, NEW h \in Heights, NEW node \in NodeT, NEW a,
         a = [r EXCEPT !.level[h] = Append(@, node)]
  PROVE  Adds(r, h, node, Len(r.level[h]) + 1, a)
<1> DEFINE n == Len(r.level[h]) + 1
           L == [r.level EXCEPT ![h] = Append(@, node)]
<1>1. r.level \in [Heights -> Seq(NodeT)] /\ r.level[h] \in Seq(NodeT)
  BY DEF ChainT
<1>2. /\ L \in [Heights -> Seq(NodeT)] /\ L[h] = Append(r.level[h], node)
      /\ \A g \in Heights : g # h => L[g] = r.level[g]
  <2>1. Append(r.level[h], node) \in Seq(NodeT)
    BY <1>1, AppendTells
  <2>2. QED
    BY <1>1, <2>1
<1>3. a = [r EXCEPT !.level = L]
  OBVIOUS
<1> HIDE DEF L
<1>4. /\ a \in ChainT /\ a.level = L
      /\ a.min = r.min /\ a.max = r.max /\ a.height = r.height /\ a.index = r.index
      /\ a.stats = r.stats /\ a.aborted = r.aborted
  BY <1>2, <1>3 DEF ChainT
<1>5. /\ n \in DOMAIN L[h] /\ n \notin DOMAIN r.level[h] /\ L[h][n] = node /\ Len(L[h]) = n
      /\ \A i \in DOMAIN r.level[h] : i \in DOMAIN L[h] /\ L[h][i] = r.level[h][i]
      /\ \A i \in DOMAIN L[h] : i \in DOMAIN r.level[h] \/ i = n
  BY <1>1, <1>2, AppendTells
<1> HIDE DEF n
<1>6. \A g \in Heights : \A i \in DOMAIN r.level[g] : i \in DOMAIN L[g] /\ L[g][i] = r.level[g][i]
  BY <1>2, <1>5
<1>7. \A g \in Heights : \A i \in DOMAIN L[g] : i \in DOMAIN r.level[g] \/ (g = h /\ i = n)
  BY <1>2, <1>5
<1>8. QED
  BY <1>2, <1>4, <1>5, <1>6, <1>7 DEF n, Adds

\* The tree is the one with this block.
LEMMA Appended ==
  ASSUME NEW T, TreeOK(T), NEW r \in ChainT, Blocks(r, T), Links(r, T, Conn(T)),
         NEW m, NEW h \in Heights, NEW p, MayCome(T, m, h, p), r.min < h, h <= r.max,
         NEW node \in NodeT, node.miner = m, NEW S \in SUBSET {m},
         NEW a, Adds(r, h, node, Len(r.level[h]) + 1, a),
         m \in S => /\ ~node.orphan /\ node.score = h /\ node.parent \in DOMAIN r.level[h - 1]
                    /\ r.level[h - 1][node.parent].miner = p,
         m \notin S => node.orphan /\ node.parent = p /\ node.score = 0 /\ node.mined = 0
  PROVE  Blocks(a, Plus(T, m, h, p)) /\ Links(a, Plus(T, m, h, p), With(Conn(T), h, S))
<1> DEFINE U == Plus(T, m, h, p)
           n == Len(r.level[h]) + 1
           C == With(Conn(T), h, S)
<1>1. /\ h \in 1 .. MaxHeight /\ h \in Nat /\ h > 0 /\ r.min \in Nat /\ r.max \in Nat /\ Heights \subseteq Nat
      /\ h - 1 \in Heights /\ h # h - 1 /\ m \in Miners /\ <<m, h>> \notin DOMAIN T
  BY Bounds DEF MayCome, ChainT
<1>2. /\ a.min = r.min /\ a.max = r.max
      /\ n \in DOMAIN a.level[h] /\ n \notin DOMAIN r.level[h] /\ a.level[h][n] = node
      /\ \A g \in Heights : \A i \in DOMAIN r.level[g] :
           i \in DOMAIN a.level[g] /\ a.level[g][i] = r.level[g][i]
      /\ \A g \in Heights : \A i \in DOMAIN a.level[g] : i \in DOMAIN r.level[g] \/ (g = h /\ i = n)
      /\ \A g \in Heights : g # h => a.level[g] = r.level[g]
  BY DEF Adds
<1>3. m \notin Seen(T, h) /\ \A g \in Heights : \A x : x \in Seen(U, g) <=> x \in Seen(T, g) \/ (g = h /\ x = m)
  BY SeenPlus
<1>4. U[<<m, h>>] = p /\ \A id \in DOMAIN T : U[id] = T[id]
  BY <1>1, PlusTells DEF Grows
<1>5. \A g \in Heights : C[g] = IF g = h THEN Conn(T)[g] \cup S ELSE Conn(T)[g]
  BY DEF With
<1>6. m \notin Conn(T)[h]
  BY PlusConn
<1> HIDE DEF n, U, C
<1>7. \A i \in DOMAIN r.level[h] : r.level[h][i].miner # m
  BY <1>1, <1>3 DEF Blocks
<1>8. Blocks(a, U)
  <2>1. \A g \in Heights : g < a.min => a.level[g] = <<>>
    <3>1. \A g \in Heights : g < a.min => g # h
      BY <1>1, <1>2
    <3>2. QED
      BY <1>2, <3>1 DEF Blocks
  <2>2. ASSUME NEW g \in Heights, a.min <= g, NEW x
        PROVE  x \in Seen(U, g) <=> \E i \in DOMAIN a.level[g] : a.level[g][i].miner = x
    <3>1. x \in Seen(T, g) <=> \E i \in DOMAIN r.level[g] : r.level[g][i].miner = x
      BY <1>2, <2>2 DEF Blocks
    <3>2. CASE g # h
      BY <1>2, <1>3, <3>1, <3>2
    <3>3. CASE g = h
      BY <1>2, <1>3, <3>1, <3>3
    <3>4. QED
      BY <3>2, <3>3
  <2>3. ASSUME NEW g \in Heights, NEW i \in DOMAIN a.level[g], NEW j \in DOMAIN a.level[g],
               a.level[g][i].miner = a.level[g][j].miner
        PROVE  i = j
    <3>1. CASE g # h
      BY <1>2, <2>3, <3>1 DEF Blocks
    <3>2. CASE g = h
      BY <1>2, <1>7, <2>3, <3>2 DEF Blocks
    <3>3. QED
      BY <3>1, <3>2
  <2>4. \A g \in Heights : a.max < g => \A x : x \notin Seen(U, g)
    <3>1. \A g \in Heights : a.max < g => g # h /\ r.max < g
      BY <1>1, <1>2
    <3>2. QED
      BY <1>3, <3>1 DEF Blocks
  <2>5. QED
    BY <2>1, <2>2, <2>3, <2>4 DEF Blocks
<1>9. ASSUME NEW g \in Heights, NEW i \in DOMAIN r.level[g]
      PROVE  /\ a.level[g][i].miner \in C[g] => Linked(a, U, g, i)
             /\ a.level[g][i].miner \notin C[g] => Waits(a, U, g, i)
  <2> DEFINE x == r.level[g][i].miner
  <2>1. i \in DOMAIN a.level[g] /\ a.level[g][i] = r.level[g][i]
    BY <1>2
  <2>2. x \in C[g] <=> x \in Conn(T)[g]
    BY <1>5, <1>7, ZenonT(90)
  <2>3. g > 0 => <<x, g>> \in DOMAIN T
    <3>1. r.min <= g
      <4>1. ~(g < r.min)
        BY DEF Blocks
      <4>2. QED
        BY <1>1, <4>1
    <3>2. x \in Seen(T, g)
      BY <3>1 DEF Blocks
    <3>3. QED
      BY <3>2 DEF Seen
  <2>4. g > 0 => U[<<x, g>>] = T[<<x, g>>]
    BY <1>4, <2>3
  <2>5. ASSUME x \in Conn(T)[g] PROVE Linked(a, U, g, i)
    <3>1. Linked(r, T, g, i)
      BY <2>5 DEF Links
    <3>2. g > r.min => g > 0 /\ g - 1 \in Heights
      BY <1>1, Bounds
    <3>3. QED
      BY <1>2, <2>1, <2>4, <3>1, <3>2 DEF Linked
  <2>6. ASSUME x \notin Conn(T)[g] PROVE Waits(a, U, g, i)
    <3>1. Waits(r, T, g, i)
      BY <2>6 DEF Links
    <3>2. QED
      BY <2>1, <2>4, <3>1 DEF Waits
  <2>7. QED
    BY <2>1, <2>2, <2>5, <2>6
<1>10. /\ a.level[h][n].miner \in C[h] => Linked(a, U, h, n)
       /\ a.level[h][n].miner \notin C[h] => Waits(a, U, h, n)
  <2>1. m \in C[h] <=> m \in S
    BY <1>5, <1>6
  <2>2. ASSUME m \in S PROVE Linked(a, U, h, n)
    BY <1>1, <1>2, <1>4, <2>2 DEF Linked
  <2>3. ASSUME m \notin S PROVE Waits(a, U, h, n)
    BY <1>1, <1>2, <1>4, <2>3 DEF Waits
  <2>4. QED
    BY <1>2, <2>1, <2>2, <2>3
<1>11. Links(a, U, C)
  BY <1>2, <1>9, <1>10 DEF Links
<1>12. QED
  BY <1>8, <1>11 DEF U, C

-----------------------------------------------------------------------------
(***************************************************************************)
(* What a linked block links (unorphanBlocks).                             *)
(***************************************************************************)
\* The nodes at height g of the blocks that are connected in U, not in T.
New(T, U, c, g) ==
  {j \in DOMAIN c.level[g] : c.level[g][j].miner \in Conn(U)[g] /\ c.level[g][j].miner \notin Conn(T)[g]}

News(T, U, c, h) == [g \in h .. c.max |-> New(T, U, c, g)]

\* The linked nodes of one level more are the children of these.
LEMMA NextNew ==
  ASSUME NEW T, TreeOK(T), NEW m, NEW h \in Heights, NEW p, MayCome(T, m, h, p),
         NEW U, U = Plus(T, m, h, p),
         NEW c \in ChainT, Blocks(c, U), Links(c, U, With(Conn(T), h, {m})), c.min <= h,
         NEW g \in h + 1 .. MaxHeight
  PROVE  New(T, U, c, g) = {j \in DOMAIN c.level[g] : \E q \in New(T, U, c, g - 1) :
                              IsChild(c.level[g][j], c.level[g - 1][q])}
<1>1. /\ h \in Nat /\ h > 0 /\ g \in Nat /\ g > h /\ g # h /\ g > 0 /\ g \in Heights /\ g - 1 \in Heights
      /\ g \in 1 .. MaxHeight
      /\ c.min \in Nat /\ c.min <= g /\ c.min <= g - 1
  <2>1. h \in 1 .. MaxHeight /\ MaxHeight \in Nat /\ Heights = 0 .. MaxHeight /\ c.min \in 0 .. MaxHeight
    BY Bounds DEF MayCome, ChainT
  <2> DEFINE k == c.min
  <2>2. k \in 0 .. MaxHeight /\ k <= h
    BY <2>1
  <2> HIDE DEF k
  <2>3. k \in Nat /\ k <= g /\ k <= g - 1
    BY <2>1, <2>2
  <2>4. QED
    BY <2>1, <2>3 DEF k
<1>2. With(Conn(T), h, {m})[g] = Conn(T)[g]
  BY <1>1 DEF With
<1>3. ASSUME NEW j \in DOMAIN c.level[g]
      PROVE  j \in New(T, U, c, g) <=> \E q \in New(T, U, c, g - 1) : IsChild(c.level[g][j], c.level[g - 1][q])
  <2> DEFINE x == c.level[g][j].miner
             y == U[<<x, g>>]
  <2>1. x \in Miners /\ <<x, g>> \in DOMAIN U
    <3>1. x \in Seen(U, g)
      BY <1>1 DEF Blocks
    <3>2. QED
      BY <1>1, <3>1 DEF Seen
  <2>2. <<x, g>> \in DOMAIN T /\ T[<<x, g>>] = y
    <3>1. <<x, g>> # <<m, h>>
      BY <1>1
    <3>2. QED
      BY <2>1, <3>1, PlusTells DEF MayCome, Grows
  <2> HIDE DEF x, y
  <2>3. x \in Conn(U)[g] <=> y \in Conn(U)[g - 1]
    BY <1>1, <2>1, ConnTells DEF y
  <2>4. x \in Conn(T)[g] <=> y \in Conn(T)[g - 1]
    BY <1>1, <2>1, <2>2, ConnTells
  <2>5. x \notin Conn(T)[g] => c.level[g][j].orphan /\ c.level[g][j].parent = y
    BY <1>1, <1>2 DEF Links, Waits, x, y
  <2>6. x \in Conn(T)[g] => ~c.level[g][j].orphan
    BY <1>1, <1>2 DEF Links, Linked, x
  <2>7. ASSUME j \in New(T, U, c, g)
        PROVE  \E q \in New(T, U, c, g - 1) : IsChild(c.level[g][j], c.level[g - 1][q])
    <3>1. x \in Conn(U)[g] /\ x \notin Conn(T)[g]
      BY <2>7 DEF New, x
    <3>2. y \in Conn(U)[g - 1] /\ y \notin Conn(T)[g - 1]
      BY <2>3, <2>4, <3>1
    <3>3. PICK q \in DOMAIN c.level[g - 1] : c.level[g - 1][q].miner = y
      BY <1>1, <3>2, Held
    <3>4. q \in New(T, U, c, g - 1)
      BY <3>2, <3>3 DEF New
    <3>5. QED
      BY <2>5, <3>1, <3>3, <3>4 DEF IsChild
  <2>8. ASSUME NEW q \in New(T, U, c, g - 1), IsChild(c.level[g][j], c.level[g - 1][q])
        PROVE  j \in New(T, U, c, g)
    <3>1. x \notin Conn(T)[g]
      BY <2>6, <2>8 DEF IsChild
    <3>2. y = c.level[g - 1][q].miner
      BY <2>5, <2>8, <3>1 DEF IsChild
    <3>3. x \in Conn(U)[g]
      BY <2>3, <3>2 DEF New
    <3>4. QED
      BY <3>1, <3>3 DEF New, x
  <2>9. QED
    BY <2>7, <2>8
<1>4. New(T, U, c, g) \subseteq DOMAIN c.level[g]
  BY DEF New
<1>5. QED
  BY <1>3, <1>4

\* The orphans found from the node of a linked block are those.
LEMMA FoundTells ==
  ASSUME NEW T, TreeOK(T), NEW m, NEW h \in Heights, NEW p, MayCome(T, m, h, p), p \in Conn(T)[h - 1],
         NEW U, U = Plus(T, m, h, p),
         NEW c \in ChainT, Blocks(c, U), Links(c, U, With(Conn(T), h, {m})), c.min <= h, h <= c.max,
         NEW n \in DOMAIN c.level[h], c.level[h][n].miner = m
  PROVE  Descendants(c, h, n) = News(T, U, c, h)
<1> DEFINE Kids(g, s) == {j \in DOMAIN c.level[g] : \E q \in s : IsChild(c.level[g][j], c.level[g - 1][q])}
           Is(f) == f = [g \in h .. c.max |-> IF g = h THEN {n} ELSE Kids(g, f[g - 1])]
           w == [g \in h .. c.max |-> New(T, U, c, g)]
           u == Descendants(c, h, n)
<1>1. h \in Nat /\ c.max \in Nat /\ c.max <= MaxHeight /\ MaxHeight \in Nat /\ h \in h .. c.max
  BY Bounds DEF ChainT
<1>2. w[h] = {n}
  <2>1. \A x : x \in Conn(U)[h] /\ x \notin Conn(T)[h] <=> x = m
    BY PlusConn
  <2>2. \A j \in DOMAIN c.level[h] : c.level[h][j].miner = m => j = n
    BY DEF Blocks
  <2>3. New(T, U, c, h) = {n}
    BY <2>1, <2>2 DEF New
  <2>4. QED
    BY <1>1, <2>3
<1>3. ASSUME NEW g \in h .. c.max, g # h PROVE w[g] = Kids(g, w[g - 1]) /\ g - 1 \in h .. c.max
  <2>1. g \in h + 1 .. MaxHeight /\ g - 1 \in h .. c.max
    BY <1>1, <1>3
  <2>2. New(T, U, c, g) = Kids(g, New(T, U, c, g - 1))
    BY <2>1, NextNew
  <2>3. QED
    BY <1>3, <2>1, <2>2
<1>4. DOMAIN w = h .. c.max
  OBVIOUS
<1>5. w = [g \in h .. c.max |-> w[g]]
  OBVIOUS
<1> HIDE DEF Kids
<1>6. Is(w)
  <2> HIDE DEF w
  <2>1. \A g \in h .. c.max : w[g] = IF g = h THEN {n} ELSE Kids(g, w[g - 1])
    BY <1>2, <1>3
  <2>2. QED
    BY <1>5, <2>1
<1>7. u = CHOOSE f : Is(f)
  BY DEF Descendants, Kids
<1>8. Is(u)
  <2> HIDE DEF Is, u, w
  <2>1. QED
    BY <1>6, <1>7
<1> HIDE DEF u, w
<1>9. DOMAIN u = h .. c.max /\ u[h] = {n} /\ \A g \in h .. c.max : g # h => u[g] = Kids(g, u[g - 1])
  <2> DEFINE F == h .. c.max
  <2>1. h \in F
    BY <1>1
  <2>2. u = [g \in F |-> IF g = h THEN {n} ELSE Kids(g, u[g - 1])]
    BY <1>8
  <2> HIDE DEF F
  <2>3. DOMAIN u = F /\ u[h] = {n} /\ \A g \in F : g # h => u[g] = Kids(g, u[g - 1])
    BY <2>1, <2>2
  <2>4. QED
    BY <2>3 DEF F
<1>10. \A g \in h .. c.max : u[g] = w[g]
  <2> DEFINE P == {x \in 0 .. c.max - h : u[h + x] = w[h + x]}
  <2>1. 0 \in P
    <3>1. h + 0 = h /\ 0 \in 0 .. c.max - h
      BY <1>1
    <3>2. u[h] = w[h]
      BY <1>2, <1>9
    <3>3. QED
      BY <3>1, <3>2
  <2>2. ASSUME NEW x \in 0 .. c.max - h, x < c.max - h, x \in P PROVE x + 1 \in P
    <3> DEFINE g == h + (x + 1)
    <3>1. g \in h .. c.max /\ g # h /\ g - 1 = h + x /\ x + 1 \in 0 .. c.max - h
      BY <1>1, <2>2
    <3> HIDE DEF g
    <3>2. u[g] = Kids(g, u[g - 1]) /\ w[g] = Kids(g, w[g - 1])
      BY <1>3, <1>9, <3>1
    <3>3. u[g - 1] = w[g - 1]
      BY <2>2, <3>1
    <3>4. QED
      BY <3>1, <3>2, <3>3 DEF g
  <2>3. c.max - h \in Nat
    BY <1>1
  <2>4. \A x \in 0 .. c.max - h : x \in P
    <3> HIDE DEF P
    <3>1. QED
      BY <2>1, <2>2, <2>3, UpTo
  <2>5. \A g \in h .. c.max : g - h \in 0 .. c.max - h /\ h + (g - h) = g
    BY <1>1
  <2>6. QED
    BY <2>4, <2>5
<1>11. u = w
  <2>1. u = [g \in h .. c.max |-> u[g]]
    <3> DEFINE F == h .. c.max
    <3>1. u = [g \in F |-> IF g = h THEN {n} ELSE Kids(g, u[g - 1])]
      BY <1>8
    <3> HIDE DEF F
    <3>2. u = [g \in F |-> u[g]]
      BY <3>1
    <3>3. QED
      BY <3>2 DEF F
  <2>2. QED
    BY <1>5, <1>10, <2>1
<1>12. QED
  BY <1>11 DEF u, w, News

\* The chain d is c, with what was found from its n-th node at h linked.
Joins(c, T, U, h, n, d) ==
  /\ d \in ChainT
  /\ d.min = c.min /\ d.max = c.max /\ d.height = c.height /\ d.index = c.index
  /\ d.stats = c.stats /\ d.aborted = c.aborted
  /\ \A g \in Heights : DOMAIN d.level[g] = DOMAIN c.level[g] /\ Len(d.level[g]) = Len(c.level[g])
  /\ \A g \in Heights : \A j \in DOMAIN c.level[g] :
       /\ d.level[g][j].miner = c.level[g][j].miner
       /\ g > h /\ j \in New(T, U, c, g) =>
            /\ ~d.level[g][j].orphan /\ d.level[g][j].score = g
            /\ d.level[g][j].mined = c.level[h][n].mined
            /\ d.level[g][j].parent \in DOMAIN c.level[g - 1]
            /\ c.level[g - 1][d.level[g][j].parent].miner = U[<<c.level[g][j].miner, g>>]
       /\ ~(g > h /\ j \in New(T, U, c, g)) => d.level[g][j] = c.level[g][j]

\* unorphanBlocks links each of them to the node of its parent.
LEMMA UnorphanShape ==
  ASSUME NEW T, TreeOK(T), NEW m, NEW h \in Heights, NEW p, MayCome(T, m, h, p),
         NEW U, U = Plus(T, m, h, p),
         NEW c \in ChainT, Blocks(c, U), Links(c, U, With(Conn(T), h, {m})), c.min <= h, h <= c.max,
         NEW n \in DOMAIN c.level[h], c.level[h][n].miner = m,
         NEW found, found = [g \in h .. c.max |-> New(T, U, c, g)],
         NEW d, d = UnorphanBlocks(c, h, n, found)
  PROVE  Joins(c, T, U, h, n, d)
<1> DEFINE top == c.level[h][n]
           Up(g, j) == CHOOSE q \in found[g - 1] : IsChild(c.level[g][j], c.level[g - 1][q])
           Link(g, j) == [c.level[g][j] EXCEPT !.orphan = FALSE, !.parent = Up(g, j),
                                               !.mined = top.mined, !.score = top.score + (g - h)]
           In(g, j) == g \in (h + 1) .. c.max /\ j \in found[g]
           E(g, j) == IF In(g, j) THEN Link(g, j) ELSE c.level[g][j]
           Row(g) == [j \in DOMAIN c.level[g] |-> E(g, j)]
           L == [g \in Heights |-> Row(g)]
<1>1. /\ h \in Nat /\ c.max \in Nat /\ c.max <= MaxHeight /\ MaxHeight \in Nat /\ Heights = 0 .. MaxHeight
      /\ c.level \in [Heights -> Seq(NodeT)]
  BY Bounds DEF ChainT
<1>2. top \in NodeT /\ top.score = h /\ top.mined \in Nat
  <2>1. c.level[h] \in Seq(NodeT)
    BY <1>1
  <2>2. top \in NodeT
    BY <2>1, ElementOfSeq, LenProperties
  <2>3. m \in With(Conn(T), h, {m})[h]
    BY DEF With
  <2>4. Linked(c, U, h, n)
    BY <2>3 DEF Links
  <2>5. QED
    BY <2>2, <2>4 DEF Linked, NodeT
<1>3. ASSUME NEW g \in Heights, NEW j \in DOMAIN c.level[g]
      PROVE  In(g, j) <=> g > h /\ j \in New(T, U, c, g)
  <2>1. CASE g \in h + 1 .. c.max
    <3>1. g \in h .. c.max /\ g > h
      BY <1>1, <2>1
    <3>2. found[g] = New(T, U, c, g)
      BY <3>1
    <3>3. QED
      BY <2>1, <3>1, <3>2
  <2>2. CASE g <= h
    BY <1>1, <2>2
  <2>3. CASE c.max < g
    <3>1. \A x : x \notin Seen(U, g)
      BY <2>3 DEF Blocks
    <3>2. j \notin New(T, U, c, g)
      BY <3>1, ConnSeen DEF New
    <3>3. g \notin h + 1 .. c.max
      BY <1>1, <2>3
    <3>4. QED
      BY <3>2, <3>3
  <2>4. g \in h + 1 .. c.max \/ g <= h \/ c.max < g
    BY <1>1
  <2>5. QED
    BY <2>1, <2>2, <2>3, <2>4
<1>4. ASSUME NEW g \in Heights, NEW j \in DOMAIN c.level[g]
      PROVE  c.level[g][j] \in NodeT
  <2>1. c.level[g] \in Seq(NodeT)
    BY <1>1
  <2>2. QED
    BY <2>1, ElementOfSeq, LenProperties
<1>5. ASSUME NEW g \in Heights, NEW j \in DOMAIN c.level[g], g > h, j \in New(T, U, c, g)
      PROVE  /\ Up(g, j) \in DOMAIN c.level[g - 1] /\ Up(g, j) \in Nat
             /\ c.level[g - 1][Up(g, j)].miner = U[<<c.level[g][j].miner, g>>]
  <2>1. g \in h + 1 .. c.max /\ j \in found[g]
    BY <1>3, <1>5
  <2>2. g \in h + 1 .. MaxHeight /\ g - 1 \in h .. c.max /\ g # h /\ g - 1 \in Heights
    BY <1>1, <2>1
  <2>3. found[g - 1] = New(T, U, c, g - 1)
    BY <2>2
  <2>4. \E q \in found[g - 1] : IsChild(c.level[g][j], c.level[g - 1][q])
    BY <1>5, <2>2, <2>3, NextNew
  <2>5. Up(g, j) \in found[g - 1] /\ IsChild(c.level[g][j], c.level[g - 1][Up(g, j)])
    BY <2>4
  <2> HIDE DEF Up
  <2>6. Up(g, j) \in DOMAIN c.level[g - 1]
    BY <2>3, <2>5 DEF New
  <2>7. Up(g, j) \in Nat
    <3>1. c.level[g - 1] \in Seq(NodeT)
      BY <1>1, <2>2
    <3>2. DOMAIN c.level[g - 1] = 1 .. Len(c.level[g - 1]) /\ Len(c.level[g - 1]) \in Nat
      BY <3>1, LenProperties
    <3>3. QED
      BY <2>6, <3>2
  <2>8. c.level[g][j].parent = U[<<c.level[g][j].miner, g>>]
    <3>1. With(Conn(T), h, {m})[g] = Conn(T)[g]
      BY <2>2 DEF With
    <3>2. Waits(c, U, g, j)
      BY <1>5, <3>1 DEF New, Links
    <3>3. QED
      BY <3>2 DEF Waits
  <2>9. QED
    BY <2>5, <2>6, <2>7, <2>8 DEF IsChild
<1> HIDE DEF top, Up, In
<1>6. ASSUME NEW g \in Heights, NEW j \in DOMAIN c.level[g]
      PROVE  /\ E(g, j) \in NodeT /\ E(g, j).miner = c.level[g][j].miner
             /\ In(g, j) => /\ ~E(g, j).orphan /\ E(g, j).score = g /\ E(g, j).mined = top.mined
                            /\ E(g, j).parent = Up(g, j)
             /\ ~In(g, j) => E(g, j) = c.level[g][j]
  <2>1. CASE In(g, j)
    <3>1. g > h /\ j \in New(T, U, c, g)
      BY <1>3, <2>1
    <3>2. Up(g, j) \in Nat
      BY <1>5, <3>1
    <3>3. top.score + (g - h) = g /\ g \in Nat
      BY <1>1, <1>2
    <3>4. c.level[g][j] \in NodeT
      BY <1>4
    <3> DEFINE x == c.level[g][j]
               s == top.score + (g - h)
    <3>5. E(g, j) = [x EXCEPT !.orphan = FALSE, !.parent = Up(g, j), !.mined = top.mined, !.score = s]
      BY <2>1
    <3>6. x \in NodeT /\ s = g
      BY <3>3, <3>4
    <3> HIDE DEF x, s, E
    <3>7. /\ E(g, j) \in NodeT /\ E(g, j).miner = x.miner
          /\ E(g, j).orphan = FALSE /\ E(g, j).parent = Up(g, j)
          /\ E(g, j).mined = top.mined /\ E(g, j).score = s
      BY <1>2, <3>2, <3>3, <3>5, <3>6 DEF NodeT
    <3>8. QED
      BY <2>1, <3>6, <3>7 DEF x
  <2>2. CASE ~In(g, j)
    BY <1>4, <2>2
  <2>3. QED
    BY <2>1, <2>2
<1> HIDE DEF E
<1>7. ASSUME NEW g \in Heights
      PROVE  /\ L[g] \in Seq(NodeT) /\ DOMAIN L[g] = DOMAIN c.level[g] /\ Len(L[g]) = Len(c.level[g])
             /\ \A j \in DOMAIN c.level[g] : L[g][j] = E(g, j)
  <2> DEFINE k == Len(c.level[g])
  <2>1. c.level[g] \in Seq(NodeT)
    BY <1>1
  <2>2. k \in Nat /\ DOMAIN c.level[g] = 1 .. k
    BY <2>1, LenProperties
  <2>3. L[g] = [j \in 1 .. k |-> E(g, j)]
    BY <2>2
  <2>4. \A j \in 1 .. k : E(g, j) \in NodeT
    BY <1>6, <2>2
  <2> HIDE DEF L, k
  <2>5. L[g] \in [1 .. k -> NodeT]
    BY <2>3, <2>4
  <2>6. L[g] \in Seq(NodeT)
    BY <2>2, <2>5, SeqDef
  <2>7. DOMAIN L[g] = 1 .. k /\ Len(L[g]) = k
    BY <2>2, <2>3
  <2>8. QED
    BY <2>2, <2>3, <2>6, <2>7 DEF k
<1>8. L = [g \in Heights |-> L[g]]
  OBVIOUS
<1>9. d = [c EXCEPT !.level = L]
  <2>1. c.level \in [Heights -> Seq(NodeT)]
    BY <1>1
  <2>2. QED
    BY <2>1 DEF UnorphanBlocks, E, In, Up, top
<1> HIDE DEF L
<1>10. L \in [Heights -> Seq(NodeT)]
  BY <1>7, <1>8
<1>11. /\ d \in ChainT /\ d.level = L
       /\ d.min = c.min /\ d.max = c.max /\ d.height = c.height /\ d.index = c.index
       /\ d.stats = c.stats /\ d.aborted = c.aborted
  BY <1>9, <1>10 DEF ChainT
<1>12. ASSUME NEW g \in Heights, NEW j \in DOMAIN c.level[g]
       PROVE  /\ d.level[g][j].miner = c.level[g][j].miner
              /\ g > h /\ j \in New(T, U, c, g) =>
                   /\ ~d.level[g][j].orphan /\ d.level[g][j].score = g
                   /\ d.level[g][j].mined = c.level[h][n].mined
                   /\ d.level[g][j].parent \in DOMAIN c.level[g - 1]
                   /\ c.level[g - 1][d.level[g][j].parent].miner = U[<<c.level[g][j].miner, g>>]
              /\ ~(g > h /\ j \in New(T, U, c, g)) => d.level[g][j] = c.level[g][j]
  <2>1. d.level[g][j] = E(g, j)
    BY <1>7, <1>11
  <2>2. CASE In(g, j)
    <3>1. g > h /\ j \in New(T, U, c, g)
      BY <1>3, <2>2
    <3>2. QED
      BY <1>5, <1>6, <2>1, <2>2, <3>1, SMTT(90) DEF top
  <2>3. CASE ~In(g, j)
    BY <1>3, <1>6, <2>1, <2>3
  <2>4. QED
    BY <2>2, <2>3
<1>13. QED
  BY <1>7, <1>11, <1>12 DEF Joins

\* Then all that is connected is linked.
LEMMA JoinsRight ==
  ASSUME NEW T, TreeOK(T), NEW m, NEW h \in Heights, NEW p, MayCome(T, m, h, p), p \in Conn(T)[h - 1],
         NEW U, U = Plus(T, m, h, p),
         NEW c \in ChainT, Blocks(c, U), Links(c, U, With(Conn(T), h, {m})), c.min <= h,
         NEW n, NEW d, Joins(c, T, U, h, n, d)
  PROVE  Blocks(d, U) /\ Links(d, U, Conn(U))
<1> DEFINE C == With(Conn(T), h, {m})
<1>1. /\ h \in 1 .. MaxHeight /\ h \in Nat /\ Heights = 0 .. MaxHeight /\ MaxHeight \in Nat /\ c.min \in Nat
      /\ d.min = c.min /\ d.max = c.max
  BY Bounds DEF MayCome, ChainT, Joins
<1>2. Grows(T, U)
  BY PlusTells DEF MayCome
<1>3. \A g \in Heights : DOMAIN d.level[g] = DOMAIN c.level[g] /\ Len(d.level[g]) = Len(c.level[g])
  BY DEF Joins
<1>4. \A g \in Heights : \A j \in DOMAIN c.level[g] : d.level[g][j].miner = c.level[g][j].miner
  BY DEF Joins
<1>5. Blocks(d, U)
  <2>1. ASSUME NEW g \in Heights, g < d.min PROVE d.level[g] = <<>>
    <3>1. c.level[g] = <<>>
      BY <1>1, <2>1 DEF Blocks
    <3>2. Len(d.level[g]) = 0
      BY <1>3, <3>1
    <3>3. d.level[g] \in Seq(NodeT)
      BY DEF Joins, ChainT
    <3>4. QED
      BY <3>2, <3>3, EmptySeq
  <2>2. ASSUME NEW g \in Heights, d.min <= g, NEW x
        PROVE  x \in Seen(U, g) <=> \E i \in DOMAIN d.level[g] : d.level[g][i].miner = x
    <3>1. c.min <= g
      BY <1>1, <2>2
    <3>2. x \in Seen(U, g) <=> \E i \in DOMAIN c.level[g] : c.level[g][i].miner = x
      BY <3>1 DEF Blocks
    <3>3. QED
      BY <1>3, <1>4, <3>2
  <2>3. \A g \in Heights : \A i, j \in DOMAIN d.level[g] : d.level[g][i].miner = d.level[g][j].miner => i = j
    BY <1>3, <1>4 DEF Blocks
  <2>4. QED
    BY <1>1, <2>1, <2>2, <2>3 DEF Blocks
<1>6. ASSUME NEW g \in Heights, NEW j \in DOMAIN c.level[g]
      PROVE  /\ d.level[g][j].miner \in Conn(U)[g] => Linked(d, U, g, j)
             /\ d.level[g][j].miner \notin Conn(U)[g] => Waits(d, U, g, j)
  <2> DEFINE x == c.level[g][j].miner
  <2>1. d.level[g][j].miner = x
    BY <1>4
  <2>2. g > d.min => g - 1 \in Heights
    BY <1>1
  <2>3. CASE g > h /\ j \in New(T, U, c, g)
    <3>1. x \in Conn(U)[g]
      BY <2>3 DEF New
    <3>2. /\ ~d.level[g][j].orphan /\ d.level[g][j].score = g
          /\ d.level[g][j].parent \in DOMAIN c.level[g - 1]
          /\ c.level[g - 1][d.level[g][j].parent].miner = U[<<x, g>>]
      BY <2>3 DEF Joins
    <3>3. g > d.min => /\ d.level[g][j].parent \in DOMAIN d.level[g - 1]
                       /\ d.level[g - 1][d.level[g][j].parent].miner = U[<<x, g>>]
      BY <1>3, <1>4, <2>2, <3>2
    <3> HIDE DEF x
    <3>4. Linked(d, U, g, j)
      BY <2>1, <3>2, <3>3 DEF Linked
    <3>5. QED
      BY <2>1, <3>1, <3>4
  <2>4. CASE ~(g > h /\ j \in New(T, U, c, g))
    <3>1. d.level[g][j] = c.level[g][j]
      BY <2>4 DEF Joins
    <3>2. x \in C[g] <=> x \in Conn(U)[g]
      <4>1. CASE g < h
        <5>1. g \in 0 .. h - 1 /\ g # h
          BY <1>1, <4>1
        <5>2. x \in Conn(U)[g] <=> x \in Conn(T)[g]
          BY <5>1, PlusConn
        <5>3. QED
          BY <5>1, <5>2 DEF With
      <4>2. CASE g = h
        <5>1. x \in Conn(U)[h] <=> x \in Conn(T)[h] \/ x = m
          BY PlusConn
        <5>2. QED
          BY <4>2, <5>1 DEF With
      <4>3. CASE g > h
        <5>1. g # h /\ j \notin New(T, U, c, g)
          BY <1>1, <2>4, <4>3
        <5>2. x \in Conn(U)[g] => x \in Conn(T)[g]
          BY <5>1 DEF New
        <5>3. x \in Conn(T)[g] => x \in Conn(U)[g]
          BY <1>2, ConnGrows
        <5>4. QED
          BY <5>1, <5>2, <5>3 DEF With
      <4>4. g < h \/ g = h \/ g > h
        BY <1>1
      <4>5. QED
        BY <4>1, <4>2, <4>3, <4>4
    <3>3. ASSUME x \in C[g] PROVE Linked(d, U, g, j)
      <4>1. Linked(c, U, g, j)
        BY <3>3 DEF Links
      <4>2. QED
        BY <1>1, <1>3, <1>4, <2>2, <3>1, <4>1 DEF Linked
    <3>4. ASSUME x \notin C[g] PROVE Waits(d, U, g, j)
      <4>1. Waits(c, U, g, j)
        BY <3>4 DEF Links
      <4>2. QED
        BY <3>1, <4>1 DEF Waits
    <3>5. QED
      BY <2>1, <3>2, <3>3, <3>4
  <2>5. QED
    BY <2>3, <2>4
<1>7. QED
  BY <1>3, <1>5, <1>6 DEF Links

-----------------------------------------------------------------------------
(***************************************************************************)
(* How many own blocks there are below.                                    *)
(***************************************************************************)
\* What the miner mined is connected.
Own(T) == \A h \in 1 .. MaxHeight : <<Me, h>> \in DOMAIN T => Me \in Conn(T)[h]

\* The ancestors of a connected block stay the same, and so do their numbers.
LEMMA CountStays ==
  ASSUME NEW T, NEW U, Grows(T, U), NEW S, NEW h \in Heights, NEW x \in Conn(T)[h]
  PROVE  Count(S, Path(U, x, h), 1, h) = Count(S, Path(T, x, h), 1, h)
<1>1. \A g \in 1 .. h : g \in 0 .. h
  BY Bounds
<1>2. \A g \in 1 .. h : Path(U, x, h)[g] = Path(T, x, h)[g]
  BY <1>1, PathSame
<1>3. QED
  BY <1>2, CountSame

\* What a block connects has the ancestors of that block.
LEMMA Below ==
  ASSUME NEW T, TreeOK(T), NEW m, NEW h \in Heights, NEW p, MayCome(T, m, h, p), p \in Conn(T)[h - 1],
         NEW U, U = Plus(T, m, h, p), NEW g \in h .. MaxHeight, NEW x \in Conn(U)[g], x \notin Conn(T)[g]
  PROVE  \A k \in 0 .. h - 1 : Path(U, x, g)[k] = Path(T, p, h - 1)[k]
<1> DEFINE q == Path(U, x, g)
<1>1. /\ h \in 1 .. MaxHeight /\ h \in Nat /\ g \in Heights /\ g \in Nat /\ h - 1 \in Heights
      /\ h - 1 \in 0 .. g - 1 /\ h - 1 \in 0 .. g /\ h - 1 + 1 = h
  BY Bounds DEF MayCome
<1>2. Grows(T, U) /\ U[<<m, h>>] = p
  BY PlusTells DEF MayCome
<1>3. Way(U, q, g) /\ \A k \in 0 .. h - 1 : q[k] = Path(U, q[h - 1], h - 1)[k]
  BY <1>1, PathTells, PathAlong
<1>4. q[h] = m
  BY ThroughIt
<1> HIDE DEF q
<1>5. q[h - 1] = p
  BY <1>1, <1>2, <1>3, <1>4 DEF Way
<1>6. \A k \in 0 .. h - 1 : Path(U, p, h - 1)[k] = Path(T, p, h - 1)[k]
  BY <1>1, <1>2, PathSame
<1>7. QED
  BY <1>3, <1>5, <1>6 DEF q

\* A block of another miner, and what it connects, is above no more of them
\* than its parent; an own block is one more.
LEMMA CountNew ==
  ASSUME NEW T, TreeOK(T), Own(T), NEW m, NEW h \in Heights, NEW p, MayCome(T, m, h, p), p \in Conn(T)[h - 1],
         NEW U, U = Plus(T, m, h, p), NEW g \in h .. MaxHeight, NEW x \in Conn(U)[g], x \notin Conn(T)[g]
  PROVE  /\ m # Me => OwnBelow(U, x, g) = OwnBelow(T, p, h - 1)
         /\ m = Me /\ g = h => OwnBelow(U, x, g) = OwnBelow(T, p, h - 1) + 1
<1> DEFINE q == Path(U, x, g)
           S == {Me}
<1>1. /\ h \in 1 .. MaxHeight /\ h \in Nat /\ Heights = 0 .. MaxHeight /\ MaxHeight \in Nat
      /\ g \in Heights /\ g \in Nat /\ h - 1 \in Nat /\ h - 1 <= g /\ h - 1 + 1 = h
  BY Bounds DEF MayCome
<1>2. \A k \in 1 .. h - 1 : k \in 0 .. h - 1
  BY <1>1
<1>3. \A k \in 0 .. g : q[k] \in Conn(U)[k]
  BY <1>1, PathTells
<1>4. q[h] = m /\ \A k \in h .. g : q[k] \notin Conn(T)[k]
  BY ThroughIt
<1>5. \A k \in 1 .. h - 1 : q[k] = Path(T, p, h - 1)[k]
  BY <1>2, Below
<1> HIDE DEF q, S
<1>6. Count(S, q, 1, h - 1) = Count(S, Path(T, p, h - 1), 1, h - 1)
  BY <1>5, CountSame
<1>7. ASSUME m # Me PROVE Count(S, q, 1, g) = Count(S, Path(T, p, h - 1), 1, h - 1)
  <2>1. Count(S, q, 1, g) = Count(S, q, 1, h - 1) + Count(S, q, h, g)
    BY <1>1, CountSplits
  <2>2. ASSUME NEW k \in h .. g PROVE q[k] \notin S
    <3>1. CASE k = h
      BY <1>4, <1>7, <3>1 DEF S
    <3>2. CASE k # h
      <4>1. k \in h + 1 .. MaxHeight /\ k \in 1 .. MaxHeight /\ k \in 0 .. g
        BY <1>1, <3>2
      <4>2. <<q[k], k>> \in DOMAIN T
        BY <1>3, <4>1, PlusConn
      <4>3. q[k] # Me
        BY <1>4, <4>1, <4>2 DEF Own
      <4>4. QED
        BY <4>3 DEF S
    <3>3. QED
      BY <3>1, <3>2
  <2>3. Count(S, q, h, g) = 0
    BY <1>1, <2>2, CountNone
  <2>4. Count(S, q, 1, h - 1) \in Nat
    <3>1. 1 \in Nat
      OBVIOUS
    <3>2. QED
      BY <1>1, <3>1, CountTells
  <2>5. QED
    BY <1>6, <2>1, <2>3, <2>4
<1>8. ASSUME m = Me, g = h PROVE Count(S, q, 1, g) = Count(S, Path(T, p, h - 1), 1, h - 1) + 1
  <2>1. Count(S, q, 1, h) = Count(S, q, 1, h - 1) + (IF q[h] \in S THEN 1 ELSE 0)
    <3>1. 1 <= h
      BY <1>1
    <3>2. QED
      BY <1>1, <3>1, CountNext
  <2>2. q[h] \in S
    BY <1>4, <1>8 DEF S
  <2>3. QED
    BY <1>6, <1>8, <2>1, <2>2
<1>9. QED
  BY <1>7, <1>8 DEF q, S, OwnBelow

\* Nothing waits for a block that the miner has not mined.
LEMMA NoChildren ==
  ASSUME NEW T, TreeOK(T), NEW h \in Heights, NEW p, MayCome(T, Me, h, p), p \in Conn(T)[h - 1],
         NEW U, U = Plus(T, Me, h, p), NEW g \in h + 1 .. MaxHeight, NEW x \in Conn(U)[g]
  PROVE  x \in Conn(T)[g]
<1> SUFFICES ASSUME x \notin Conn(T)[g] PROVE FALSE
  OBVIOUS
<1> DEFINE q == Path(U, x, g)
<1>1. /\ h \in 1 .. MaxHeight /\ h \in Nat /\ Heights = 0 .. MaxHeight /\ MaxHeight \in Nat
      /\ g \in Heights /\ g \in Nat /\ g \in h .. MaxHeight /\ h \in 0 .. g - 1 /\ h + 1 \in 0 .. g
      /\ h + 1 \in h + 1 .. MaxHeight /\ h + 1 - 1 = h
  BY Bounds DEF MayCome
<1>2. Grows(T, U)
  BY PlusTells DEF MayCome
<1>3. Way(U, q, g) /\ \A k \in 0 .. g : q[k] \in Conn(U)[k]
  BY <1>1, PathTells
<1>4. q[h] = Me
  BY <1>1, ThroughIt
<1> HIDE DEF q
<1>5. <<q[h + 1], h + 1>> \in DOMAIN T
  BY <1>1, <1>3, PlusConn
<1>6. T[<<q[h + 1], h + 1>>] = Me
  BY <1>1, <1>2, <1>3, <1>4, <1>5 DEF Way, Grows
<1>7. <<Me, h>> \in DOMAIN T
  <2> DEFINE id == <<q[h + 1], h + 1>>
  <2>1. id \in DOMAIN T /\ T[id] = Me /\ id[2] - 1 = h
    BY <1>1, <1>5, <1>6
  <2> HIDE DEF id
  <2>2. <<Me, id[2] - 1>> \in DOMAIN T
    BY <2>1 DEF TreeOK
  <2>3. QED
    BY <2>1, <2>2
<1>8. QED
  BY <1>7 DEF MayCome

\* Its own blocks stay connected.
LEMMA OwnStays ==
  ASSUME NEW T, TreeOK(T), Own(T), NEW m, NEW h, NEW p, MayCome(T, m, h, p),
         m = Me => p \in Conn(T)[h - 1]
  PROVE  Own(Plus(T, m, h, p))
<1> DEFINE U == Plus(T, m, h, p)
<1>1. h \in 1 .. MaxHeight /\ \A g \in 1 .. MaxHeight : g \in Heights
  BY Bounds DEF MayCome
<1>2. Grows(T, U) /\ \A id : id \in DOMAIN U <=> id \in DOMAIN T \/ id = <<m, h>>
  BY PlusTells DEF MayCome
<1>3. \A x : x \in Conn(U)[h] <=> x \in Conn(T)[h] \/ (x = m /\ p \in Conn(T)[h - 1])
  BY PlusConn
<1> HIDE DEF U
<1>4. ASSUME NEW g \in 1 .. MaxHeight, <<Me, g>> \in DOMAIN U PROVE Me \in Conn(U)[g]
  <2>1. CASE <<Me, g>> \in DOMAIN T
    BY <1>1, <1>2, <2>1, ConnGrows DEF Own
  <2>2. CASE <<Me, g>> = <<m, h>>
    BY <1>3, <2>2
  <2>3. QED
    BY <1>2, <1>4, <2>1, <2>2
<1>5. QED
  BY <1>4 DEF Own, U

-----------------------------------------------------------------------------
(***************************************************************************)
(* A linked block, and what it links, contend with the main chain.         *)
(***************************************************************************)
\* The chain d is r, with the block of m as n-th node of height h, and all
\* that it connects linked, with k own blocks below.
Entered(r, T, U, m, h, n, k, d) ==
  /\ d \in ChainT
  /\ d.min = r.min /\ d.max = r.max /\ d.height = r.height /\ d.index = r.index
  /\ d.stats = r.stats /\ d.aborted = r.aborted
  /\ Blocks(d, U) /\ Links(d, U, Conn(U))
  /\ n \in DOMAIN d.level[h] /\ Len(d.level[h]) = n
  /\ d.level[h][n].miner = m /\ d.level[h][n].mined = k
  /\ \A g \in Heights : \A j \in DOMAIN r.level[g] :
       r.level[g][j].miner \in Conn(T)[g] => j \in DOMAIN d.level[g] /\ d.level[g][j] = r.level[g][j]
  /\ \A g \in Heights : \A j \in DOMAIN d.level[g] :
       /\ d.level[g][j].miner \in Conn(T)[g] => j \in DOMAIN r.level[g] /\ d.level[g][j] = r.level[g][j]
       /\ d.level[g][j].miner \in Conn(U)[g] /\ d.level[g][j].miner \notin Conn(T)[g] =>
            g >= h /\ d.level[g][j].mined = k /\ (g = h => j = n)

\* A node of the new branch.
Fresh(T, U, d, g, j) ==
  /\ g \in Heights /\ j \in DOMAIN d.level[g]
  /\ d.level[g][j].miner \in Conn(U)[g] /\ d.level[g][j].miner \notin Conn(T)[g]

\* The chain e is such a chain, where its best new node may become the tip.
Enters(r, T, U, m, h, n, k, e) ==
  \E d, g, i : /\ Entered(r, T, U, m, h, n, k, d)
               /\ Fresh(T, U, d, g, i)
               /\ \A y, j : Fresh(T, U, d, y, j) => Keeps(Me, d.level[g][i], d.level[y][j])
               /\ e = MaybeSwitchChains(d, <<g, i>>, Me)

\* addBlock enters the block so, and the best node of what is new may become
\* the tip.
LEMMA JoinEnters ==
  ASSUME NEW T, TreeOK(T), NEW m, NEW h \in Heights, NEW p, MayCome(T, m, h, p), p \in Conn(T)[h - 1],
         NEW U, U = Plus(T, m, h, p),
         NEW r \in ChainT, Blocks(r, T), Links(r, T, Conn(T)), r.min < h, h <= r.max,
         NEW node \in NodeT, node.miner = m, ~node.orphan, node.score = h,
         node.parent \in DOMAIN r.level[h - 1], r.level[h - 1][node.parent].miner = p,
         NEW n, n = Len(r.level[h]) + 1, NEW c, Adds(r, h, node, n, c)
  PROVE  Enters(r, T, U, m, h, n, node.mined, JoinBranch(c, h, n, Me))
<1> DEFINE found == Descendants(c, h, n)
           d == UnorphanBlocks(c, h, n, found)
           branch == UNION {{g} \X found[g] : g \in DOMAIN found}
           best == CHOOSE q \in branch : \A y \in branch : Keeps(Me, At(d, q), At(d, y))
<1>1. /\ h \in 1 .. MaxHeight /\ h \in Nat /\ Heights = 0 .. MaxHeight /\ MaxHeight \in Nat
      /\ r.min \in Nat /\ r.max \in Nat /\ r.min <= h /\ r.max <= MaxHeight
  BY Bounds DEF MayCome, ChainT
<1>2. Blocks(c, U) /\ Links(c, U, With(Conn(T), h, {m}))
  <2>1. {m} \in SUBSET {m} /\ m \in {m}
    OBVIOUS
  <2> DEFINE S == {m}
  <2>2. S \in SUBSET {m} /\ m \in S
    BY <2>1
  <2> HIDE DEF S
  <2>3. Blocks(c, Plus(T, m, h, p)) /\ Links(c, Plus(T, m, h, p), With(Conn(T), h, S))
    BY <2>2, Appended
  <2>4. QED
    BY <2>3 DEF S
<1>3. /\ c \in ChainT /\ c.min = r.min /\ c.max = r.max
      /\ n \in DOMAIN c.level[h] /\ c.level[h][n] = node /\ Len(c.level[h]) = n
      /\ \A g \in Heights : \A i \in DOMAIN r.level[g] :
           i \in DOMAIN c.level[g] /\ c.level[g][i] = r.level[g][i]
      /\ \A g \in Heights : \A i \in DOMAIN c.level[g] : i \in DOMAIN r.level[g] \/ (g = h /\ i = n)
  BY DEF Adds
<1>4. c.min <= h /\ h <= c.max /\ c.level[h][n].miner = m
  BY <1>1, <1>3
<1>5. found = [g \in h .. c.max |-> New(T, U, c, g)]
  <2>1. c \in ChainT /\ n \in DOMAIN c.level[h]
    BY <1>3
  <2>2. Descendants(c, h, n) = News(T, U, c, h)
    BY <1>2, <1>4, <2>1, FoundTells
  <2>3. QED
    BY <2>2 DEF News
<1> HIDE DEF found
<1>6. Joins(c, T, U, h, n, d)
  BY <1>2, <1>3, <1>4, <1>5, UnorphanShape
<1> HIDE DEF d
<1>7. Blocks(d, U) /\ Links(d, U, Conn(U))
  BY <1>2, <1>3, <1>4, <1>6, JoinsRight
<1>8. /\ d \in ChainT
      /\ \A g \in Heights : DOMAIN d.level[g] = DOMAIN c.level[g] /\ Len(d.level[g]) = Len(c.level[g])
      /\ \A g \in Heights : \A j \in DOMAIN c.level[g] :
           /\ d.level[g][j].miner = c.level[g][j].miner
           /\ g > h /\ j \in New(T, U, c, g) => d.level[g][j].mined = c.level[h][n].mined
           /\ ~(g > h /\ j \in New(T, U, c, g)) => d.level[g][j] = c.level[g][j]
  BY <1>6, ZenonT(30) DEF Joins
<1>9. d.level[h][n] = node
  BY <1>1, <1>3, <1>8
<1>10. ASSUME NEW g \in Heights, NEW j \in DOMAIN d.level[g]
       PROVE  /\ d.level[g][j].miner \in Conn(T)[g] => j \in DOMAIN r.level[g] /\ d.level[g][j] = r.level[g][j]
              /\ d.level[g][j].miner \in Conn(U)[g] /\ d.level[g][j].miner \notin Conn(T)[g] =>
                   g >= h /\ d.level[g][j].mined = node.mined /\ (g = h => j = n)
  <2>1. j \in DOMAIN c.level[g] /\ d.level[g][j].miner = c.level[g][j].miner
    BY <1>8
  <2>2. ASSUME d.level[g][j].miner \in Conn(T)[g]
        PROVE  j \in DOMAIN r.level[g] /\ d.level[g][j] = r.level[g][j]
    <3>1. d.level[g][j] = c.level[g][j]
      BY <1>8, <2>1, <2>2 DEF New
    <3>2. ~(g = h /\ j = n)
      BY <1>9, <2>2, PlusConn
    <3>3. QED
      BY <1>3, <2>1, <3>1, <3>2
  <2>3. ASSUME d.level[g][j].miner \in Conn(U)[g], d.level[g][j].miner \notin Conn(T)[g]
        PROVE  g >= h /\ d.level[g][j].mined = node.mined /\ (g = h => j = n)
    <3>1. g >= h
      <4>1. ~(g \in 0 .. h - 1)
        BY <2>3, PlusConn
      <4>2. QED
        BY <1>1, <4>1
    <3>2. ASSUME g = h PROVE j = n
      <4>1. d.level[g][j].miner = m
        BY <2>3, <3>2, PlusConn
      <4>2. QED
        BY <1>2, <1>3, <2>1, <3>2, <4>1 DEF Blocks
    <3>3. d.level[g][j].mined = node.mined
      <4>1. CASE g = h
        BY <1>9, <3>2, <4>1
      <4>2. CASE g > h
        <5>1. j \in New(T, U, c, g)
          BY <2>1, <2>3 DEF New
        <5>2. QED
          BY <1>3, <1>8, <2>1, <4>2, <5>1
      <4>3. QED
        BY <1>1, <3>1, <4>1, <4>2
    <3>4. QED
      BY <3>1, <3>2, <3>3
  <2>4. QED
    BY <2>2, <2>3
<1>11. ASSUME NEW g \in Heights, NEW j \in DOMAIN r.level[g], r.level[g][j].miner \in Conn(T)[g]
       PROVE  j \in DOMAIN d.level[g] /\ d.level[g][j] = r.level[g][j]
  <2>1. j \in DOMAIN c.level[g] /\ c.level[g][j] = r.level[g][j]
    BY <1>3
  <2>2. j \notin New(T, U, c, g)
    BY <1>11, <2>1 DEF New
  <2>3. QED
    BY <1>8, <2>1, <2>2
<1>12. Entered(r, T, U, m, h, n, node.mined, d)
  <2>1. /\ d.min = r.min /\ d.max = r.max /\ d.height = r.height /\ d.index = r.index
        /\ d.stats = r.stats /\ d.aborted = r.aborted
    BY <1>6 DEF Joins, Adds
  <2>2. n \in DOMAIN d.level[h] /\ Len(d.level[h]) = n
    BY <1>3, <1>8
  <2>3. QED
    BY <1>7, <1>8, <1>9, <1>10, <1>11, <2>1, <2>2 DEF Entered
<1>13. ASSUME NEW g, NEW j PROVE <<g, j>> \in branch <=> Fresh(T, U, d, g, j)
  <2>1. DOMAIN found = h .. c.max
    BY <1>5
  <2>2. <<g, j>> \in branch <=> g \in h .. c.max /\ j \in New(T, U, c, g)
    <3> HIDE DEF branch
    <3>1. <<g, j>> \in branch <=> \E k \in h .. c.max : <<g, j>> \in {k} \X found[k]
      BY <2>1 DEF branch
    <3>2. \A k \in h .. c.max : found[k] = New(T, U, c, k)
      BY <1>5
    <3>3. QED
      BY <3>1, <3>2
  <2>3. ASSUME g \in h .. c.max, j \in New(T, U, c, g) PROVE Fresh(T, U, d, g, j)
    <3>1. g \in Heights
      BY <1>1, <1>3, <2>3
    <3>2. QED
      BY <1>8, <2>3, <3>1 DEF New, Fresh
  <2>4. ASSUME Fresh(T, U, d, g, j) PROVE g \in h .. c.max /\ j \in New(T, U, c, g)
    <3>1. g \in Heights /\ g >= h
      BY <1>10, <2>4 DEF Fresh
    <3>2. ~(c.max < g)
      <4>1. d.level[g][j].miner \in Seen(U, g)
        BY <2>4, ConnSeen DEF Fresh
      <4>2. QED
        BY <1>2, <3>1, <4>1 DEF Blocks
    <3>3. g \in h .. c.max
      BY <1>1, <1>3, <3>1, <3>2
    <3>4. j \in New(T, U, c, g)
      BY <1>8, <2>4 DEF New, Fresh
    <3>5. QED
      BY <3>3, <3>4
  <2>5. QED
    BY <2>2, <2>3, <2>4
<1>14. \A q \in branch : q = <<q[1], q[2]>> /\ Fresh(T, U, d, q[1], q[2])
  <2>1. \A q \in branch : q = <<q[1], q[2]>>
    OBVIOUS
  <2> HIDE DEF branch
  <2>2. QED
    BY <1>13, <2>1
<1> HIDE DEF branch
<1>15. best \in branch /\ \A y \in branch : Keeps(Me, At(d, best), At(d, y))
  <2> DEFINE N == [q \in branch |-> At(d, q)]
  <2>1. ASSUME NEW q \in branch PROVE /\ At(d, q) \in NodeT /\ At(d, q).score <= MaxHeight
                                      /\ At(d, q).mined = node.mined
    <3>1. Fresh(T, U, d, q[1], q[2]) /\ At(d, q) = d.level[q[1]][q[2]]
      BY <1>14 DEF At
    <3> DEFINE g == q[1]
               j == q[2]
    <3>2. /\ g \in Heights /\ j \in DOMAIN d.level[g]
          /\ At(d, q) = d.level[g][j] /\ d.level[g][j].mined = node.mined
      BY <1>10, <3>1 DEF Fresh
    <3>3. d.level[g][j].score = g
      <4>1. d.level[g][j].miner \in Conn(U)[g]
        BY <3>1 DEF Fresh
      <4>2. Linked(d, U, g, j)
        BY <1>7, <3>2, <4>1 DEF Links
      <4>3. QED
        BY <4>2 DEF Linked
    <3> HIDE DEF g, j
    <3>4. d.level[g][j] \in NodeT
      <4>1. d.level[g] \in Seq(NodeT)
        BY <1>8, <3>2 DEF ChainT
      <4>2. QED
        BY <3>2, <4>1, ElementOfSeq, LenProperties
    <3>5. QED
      BY <1>1, <3>2, <3>3, <3>4
  <2>2. N \in [branch -> NodeT] /\ \A q \in branch : N[q] = At(d, q)
    BY <2>1
  <2>3. branch # {}
    <3>1. m \in Conn(U)[h] /\ m \notin Conn(T)[h]
      BY PlusConn
    <3>2. n \in DOMAIN d.level[h] /\ d.level[h][n].miner = m
      BY <1>3, <1>8, <1>9
    <3>3. Fresh(T, U, d, h, n)
      BY <3>1, <3>2 DEF Fresh
    <3>4. QED
      BY <1>13, <3>3
  <2> HIDE DEF N
  <2>4. (\A x, y \in branch : N[x].mined = N[y].mined) /\ \A x \in branch : N[x].score <= MaxHeight
    BY <2>1, <2>2
  <2>5. \E x \in branch : \A y \in branch : Keeps(Me, N[x], N[y])
    BY <2>2, <2>3, <2>4, BestThere
  <2>6. \E x \in branch : \A y \in branch : Keeps(Me, At(d, x), At(d, y))
    BY <2>2, <2>5
  <2>7. QED
    BY <2>6
<1>16. JoinBranch(c, h, n, Me) = MaybeSwitchChains(d, best, Me)
  BY DEF JoinBranch, found, d, branch
<1> HIDE DEF best
<1>17. \A g, j : Fresh(T, U, d, g, j) => Keeps(Me, d.level[best[1]][best[2]], d.level[g][j])
  <2>1. ASSUME NEW g, NEW j, Fresh(T, U, d, g, j) PROVE Keeps(Me, d.level[best[1]][best[2]], d.level[g][j])
    <3>1. <<g, j>> \in branch
      BY <1>13, <2>1
    <3>2. At(d, <<g, j>>) = d.level[g][j] /\ At(d, best) = d.level[best[1]][best[2]]
      BY DEF At
    <3>3. QED
      BY <1>15, <3>1, <3>2
  <2>2. QED
    BY <2>1
<1>18. best = <<best[1], best[2]>> /\ Fresh(T, U, d, best[1], best[2])
  BY <1>14, <1>15
<1>19. JoinBranch(c, h, n, Me) = MaybeSwitchChains(d, <<best[1], best[2]>>, Me)
  BY <1>16, <1>18
<1>20. QED
  BY <1>12, <1>17, <1>18, <1>19 DEF Enters

\* The chain e that results from r: its tip is the one r had, or is new.
After(r, T, U, m, h, n, k, e) ==
  /\ e \in ChainT /\ ~e.aborted
  /\ Window(e) /\ Blocks(e, U) /\ Links(e, U, Conn(U)) /\ Main(e) /\ Stats(e, U) /\ Best(e)
  /\ n \in DOMAIN e.level[h] /\ Len(e.level[h]) = n
  /\ e.level[h][n].miner = m /\ e.level[h][n].mined = k
  /\ \A g \in Heights : \A j \in DOMAIN e.level[g] :
       e.level[g][j].miner \in Conn(U)[g] /\ (e.level[g][j].miner \in Conn(T)[g] \/ m # Me) =>
         e.level[g][j].mined = OwnBelow(U, e.level[g][j].miner, g)
  /\ (e.height = r.height /\ e.index = r.index) \/ Fresh(T, U, e, e.height, e.index)

\* Linked nodes are those of connected blocks; all are nodes.
LEMMA LinkedTell ==
  ASSUME NEW T, NEW c \in ChainT, Links(c, T, Conn(T)), NEW g \in Heights, NEW j \in DOMAIN c.level[g]
  PROVE  /\ ~c.level[g][j].orphan <=> c.level[g][j].miner \in Conn(T)[g]
         /\ c.level[g][j] \in NodeT
         /\ ~c.level[g][j].orphan => c.level[g][j].score = g
<1>1. c.level[g] \in Seq(NodeT)
  BY DEF ChainT
<1>2. c.level[g][j] \in NodeT
  BY <1>1, ElementOfSeq, LenProperties
<1>3. QED
  BY <1>2 DEF Links, Linked, Waits, NodeT

\* The tip is kept or the best of the new branch is chosen.
LEMMA JoinKeeps ==
  ASSUME NEW T, TreeOK(T), Own(T), NEW m, NEW h \in Heights, NEW p, MayCome(T, m, h, p), p \in Conn(T)[h - 1],
         NEW U, U = Plus(T, m, h, p),
         NEW r, Good(r, T), r.min < h, h <= r.max,
         NEW node \in NodeT, node.miner = m, ~node.orphan, node.score = h,
         node.parent \in DOMAIN r.level[h - 1], r.level[h - 1][node.parent].miner = p,
         node.mined = OwnBelow(T, p, h - 1),
         NEW n, n = Len(r.level[h]) + 1, NEW c, Adds(r, h, node, n, c),
         NEW f \in Heights, r.min <= f, f <= h - 1, f <= r.height,
         Path(T, p, h - 1)[f] = Path(T, Tip(r).miner, r.height)[f],
         NEW e, e = JoinBranch(c, h, n, Me)
  PROVE  After(r, T, U, m, h, n, node.mined, e)
<1>1. /\ r \in ChainT /\ Blocks(r, T) /\ Links(r, T, Conn(T)) /\ Window(r) /\ ~r.aborted
      /\ h \in 1 .. MaxHeight /\ h \in Nat /\ Heights = 0 .. MaxHeight /\ MaxHeight \in Nat
      /\ r.min \in Nat /\ r.max \in Nat /\ r.height \in Heights /\ r.height \in Nat /\ f \in Nat
  <2>1. /\ r \in ChainT /\ Blocks(r, T) /\ Links(r, T, Conn(T)) /\ Window(r) /\ ~r.aborted
    BY DEF Good
  <2>2. h \in 1 .. MaxHeight /\ Heights = 0 .. MaxHeight /\ MaxHeight \in Nat
    BY Bounds DEF MayCome
  <2>3. r.min \in Heights /\ r.max \in Heights /\ r.height \in Heights
    BY <2>1 DEF ChainT
  <2>4. QED
    BY <2>1, <2>2, <2>3
<1>2. PICK d, k, i :
        /\ Entered(r, T, U, m, h, n, node.mined, d)
        /\ Fresh(T, U, d, k, i)
        /\ \A g, j : Fresh(T, U, d, g, j) => Keeps(Me, d.level[k][i], d.level[g][j])
        /\ JoinBranch(c, h, n, Me) = MaybeSwitchChains(d, <<k, i>>, Me)
  <2>1. Enters(r, T, U, m, h, n, node.mined, JoinBranch(c, h, n, Me))
    BY <1>1, JoinEnters
  <2>2. QED
    BY <2>1 DEF Enters
<1>3. /\ d \in ChainT /\ d.min = r.min /\ d.max = r.max /\ d.height = r.height /\ d.index = r.index
      /\ d.stats = r.stats /\ d.aborted = r.aborted
      /\ Blocks(d, U) /\ Links(d, U, Conn(U))
  BY <1>2 DEF Entered
<1>4. Grows(T, U)
  BY PlusTells DEF MayCome
<1>5. /\ r.index \in DOMAIN r.level[r.height] /\ Tip(r).miner \in Conn(T)[r.height]
      /\ Tip(r) \in NodeT /\ ~Tip(r).orphan /\ Tip(r).score = r.height
  BY <1>1, LinkedTell DEF Good, Main, Tip
<1>6. d.index \in DOMAIN d.level[d.height] /\ Tip(d) = Tip(r) /\ Tip(d).miner \in Conn(U)[d.height]
  BY <1>1, <1>2, <1>3, <1>4, <1>5, ConnGrows, SMTT(90) DEF Entered, Tip
<1>7. Stats(d, U)
  <2>1. \A S : Count(S, Path(U, Tip(r).miner, r.height), 1, r.height)
                 = Count(S, Path(T, Tip(r).miner, r.height), 1, r.height)
    BY <1>1, <1>4, <1>5, CountStays
  <2>2. QED
    BY <1>3, <1>6, <2>1 DEF Good, Stats
<1>8. /\ k \in Heights /\ k >= h /\ k \in h .. MaxHeight /\ i \in DOMAIN d.level[k]
      /\ d.level[k][i].miner \in Conn(U)[k] /\ d.level[k][i].miner \notin Conn(T)[k]
      /\ ~(d.max < k)
  <2>1. k \in Heights /\ i \in DOMAIN d.level[k] /\ d.level[k][i].miner \in Conn(U)[k]
        /\ d.level[k][i].miner \notin Conn(T)[k]
    BY <1>2 DEF Fresh
  <2>2. k >= h
    BY <1>2, <2>1 DEF Entered
  <2>3. d.level[k][i].miner \in Seen(U, k)
    BY <2>1, ConnSeen
  <2>4. ~(d.max < k)
    BY <1>3, <2>1, <2>3 DEF Blocks
  <2>5. QED
    BY <1>1, <2>1, <2>2, <2>4
<1>9. Path(U, Tip(d).miner, d.height)[f] = Path(U, d.level[k][i].miner, k)[f]
  <2>1. f \in 0 .. h - 1 /\ f \in 0 .. r.height
    BY <1>1
  <2>2. Path(U, d.level[k][i].miner, k)[f] = Path(T, p, h - 1)[f]
    BY <1>8, <2>1, Below
  <2>3. Path(U, Tip(r).miner, r.height)[f] = Path(T, Tip(r).miner, r.height)[f]
    BY <1>1, <1>4, <1>5, <2>1, PathSame
  <2>4. QED
    BY <1>3, <1>6, <2>2, <2>3
<1>10. /\ d.min <= d.height /\ d.min <= k /\ d.min <= f /\ f <= d.height /\ f <= k
       /\ HasLevel(d, d.height) /\ k <= d.max
  <2>1. d.min \in Nat /\ d.max \in Nat /\ d.min <= d.height /\ d.height <= d.max /\ d.max < d.min + 2 * Depth
        /\ Depth \in Nat /\ d.height \in Nat
    BY <1>1, <1>3, Bounds DEF Window
  <2>2. QED
    BY <1>1, <1>3, <1>8, <2>1 DEF HasLevel
<1> DEFINE s == SwitchChains(d, <<k, i>>, Me)
           tip == d.level[k][i]
<1>11. /\ s = [d EXCEPT !.height = k, !.index = i, !.stats = s.stats]
       /\ s.stats \in [Kinds -> Nat]
       /\ \A K \in Kinds : s.stats[K] = Count(CountedFor(Me)[K], Path(U, tip.miner, k), 1, k)
  <2>1. Switches(d, U, k, i, s)
    BY <1>3, <1>6, <1>7, <1>8, <1>9, <1>10, SwitchTells
  <2>2. QED
    BY <2>1 DEF Switches
<1> HIDE DEF s
<1>12. /\ Keeps(Me, Tip(r), tip) => e = d
       /\ ~Keeps(Me, Tip(r), tip) => e = s
  <2>1. At(d, MainChain(d)) = Tip(r) /\ At(d, <<k, i>>) = tip
    BY <1>6 DEF At, MainChain, Tip
  <2>2. e = MaybeSwitchChains(d, <<k, i>>, Me)
    BY <1>2
  <2>3. QED
    BY <1>10, <2>1, <2>2 DEF MaybeSwitchChains, s
<1>13. /\ tip \in NodeT /\ ~tip.orphan /\ tip.score = k
  BY <1>3, <1>8, LinkedTell
<1>14. ASSUME ~IsAttacker(Me), NEW g \in Heights, NEW j \in DOMAIN d.level[g], ~d.level[g][j].orphan
       PROVE  /\ d.level[g][j] \in NodeT
              /\ KeepsHonest(Tip(r), d.level[g][j]) \/ KeepsHonest(tip, d.level[g][j])
  <2>1. d.level[g][j] \in NodeT /\ d.level[g][j].miner \in Conn(U)[g]
    BY <1>3, <1>14, LinkedTell
  <2>2. CASE d.level[g][j].miner \in Conn(T)[g]
    <3>1. j \in DOMAIN r.level[g] /\ d.level[g][j] = r.level[g][j]
      BY <1>2, <2>2 DEF Entered
    <3>2. KeepsHonest(Tip(r), r.level[g][j])
      BY <1>14, <3>1 DEF Good, Best
    <3>3. QED
      BY <2>1, <3>1, <3>2
  <2>3. CASE d.level[g][j].miner \notin Conn(T)[g]
    <3>1. Fresh(T, U, d, g, j)
      BY <2>1, <2>3 DEF Fresh
    <3>2. Keeps(Me, tip, d.level[g][j])
      BY <1>2, <3>1
    <3>3. QED
      BY <1>14, <2>1, <3>2 DEF Keeps
  <2>4. QED
    BY <2>2, <2>3
<1> HIDE DEF tip
<1>15. /\ e \in ChainT /\ e.level = d.level /\ e.min = d.min /\ e.max = d.max /\ e.aborted = d.aborted
       /\ \/ Keeps(Me, Tip(r), tip) /\ e = d /\ Tip(e) = Tip(r)
          \/ ~Keeps(Me, Tip(r), tip) /\ e.height = k /\ e.index = i /\ e.stats = s.stats /\ Tip(e) = tip
  <2>1. CASE Keeps(Me, Tip(r), tip)
    BY <1>3, <1>6, <1>12, <2>1
  <2>2. CASE ~Keeps(Me, Tip(r), tip)
    <3> DEFINE t == s.stats
    <3>1. e = [d EXCEPT !.height = k, !.index = i, !.stats = t] /\ t \in [Kinds -> Int] /\ i \in Nat
      <4>1. d.level[k] \in Seq(NodeT)
        BY <1>3, <1>8 DEF ChainT
      <4>2. i \in Nat
        BY <1>8, <4>1, LenProperties
      <4>3. t \in [Kinds -> Int]
        BY <1>11
      <4>4. QED
        BY <1>11, <1>12, <2>2, <4>2, <4>3
    <3> HIDE DEF t
    <3>2. /\ e \in ChainT /\ e.level = d.level /\ e.min = d.min /\ e.max = d.max /\ e.aborted = d.aborted
          /\ e.height = k /\ e.index = i /\ e.stats = t
      BY <1>3, <1>8, <3>1 DEF ChainT
    <3>3. QED
      BY <2>2, <3>2 DEF t, tip, Tip
  <2>3. QED
    BY <2>1, <2>2
<1>16. Window(e)
  BY <1>1, <1>3, <1>10, <1>15 DEF Window
<1>17. Blocks(e, U) /\ Links(e, U, Conn(U))
  <2>1. Blocks(e, U)
    BY <1>3, <1>15, SMTT(90) DEF Blocks
  <2>2. \A g, j : /\ Linked(d, U, g, j) => Linked(e, U, g, j)
                  /\ Waits(d, U, g, j) => Waits(e, U, g, j)
    BY <1>15, ZenonT(90) DEF Linked, Waits
  <2>3. Links(e, U, Conn(U))
    BY <1>3, <1>15, <2>2 DEF Links
  <2>4. QED
    BY <2>1, <2>3
<1>18. Main(e)
  BY <1>5, <1>6, <1>8, <1>13, <1>15 DEF Main
<1>19. Stats(e, U)
  BY <1>7, <1>11, <1>15 DEF Stats
<1>20. Best(e)
  <2>1. ASSUME ~IsAttacker(Me), NEW g \in Heights, NEW j \in DOMAIN e.level[g], ~e.level[g][j].orphan
        PROVE  KeepsHonest(Tip(e), e.level[g][j])
    <3> DEFINE x == e.level[g][j]
    <3>1. x \in NodeT /\ (KeepsHonest(Tip(r), x) \/ KeepsHonest(tip, x))
      BY <1>14, <1>15, <2>1
    <3>2. \/ KeepsHonest(Tip(r), tip) /\ Tip(e) = Tip(r)
          \/ ~KeepsHonest(Tip(r), tip) /\ Tip(e) = tip
      BY <1>15, <2>1 DEF Keeps
    <3> HIDE DEF x
    <3>3. KeepsHonest(Tip(r), tip) \/ KeepsHonest(tip, Tip(r))
      BY <1>5, <1>13, HonestOrder
    <3>4. /\ KeepsHonest(Tip(r), tip) /\ KeepsHonest(tip, x) => KeepsHonest(Tip(r), x)
          /\ KeepsHonest(tip, Tip(r)) /\ KeepsHonest(Tip(r), x) => KeepsHonest(tip, x)
      BY <1>5, <1>13, <3>1, HonestOrder
    <3>5. KeepsHonest(Tip(e), x)
      BY <3>1, <3>2, <3>3, <3>4
    <3>6. QED
      BY <3>5 DEF x
  <2>2. QED
    BY <2>1 DEF Best
<1>21. /\ n \in DOMAIN e.level[h] /\ Len(e.level[h]) = n
       /\ e.level[h][n].miner = m /\ e.level[h][n].mined = node.mined
  BY <1>2, <1>15 DEF Entered
<1>22. ASSUME NEW g \in Heights, NEW j \in DOMAIN e.level[g],
              e.level[g][j].miner \in Conn(U)[g], e.level[g][j].miner \in Conn(T)[g] \/ m # Me
       PROVE  e.level[g][j].mined = OwnBelow(U, e.level[g][j].miner, g)
  <2> DEFINE x == e.level[g][j].miner
  <2>1. CASE x \in Conn(T)[g]
    <3>1. j \in DOMAIN r.level[g] /\ e.level[g][j] = r.level[g][j]
      BY <1>2, <1>15, <2>1 DEF Entered
    <3>2. e.level[g][j].mined = OwnBelow(T, x, g)
      BY <2>1, <3>1 DEF Good, Mined
    <3> HIDE DEF x
    <3>3. OwnBelow(U, x, g) = OwnBelow(T, x, g)
      BY <1>4, <2>1, CountStays DEF OwnBelow
    <3>4. QED
      BY <3>2, <3>3 DEF x
  <2>2. CASE x \notin Conn(T)[g]
    <3>1. g >= h /\ e.level[g][j].mined = node.mined
      <4>1. j \in DOMAIN d.level[g] /\ d.level[g][j] = e.level[g][j]
        BY <1>15
      <4>2. d.level[g][j].miner \in Conn(U)[g] /\ d.level[g][j].miner \notin Conn(T)[g]
        BY <1>22, <2>2, <4>1
      <4>3. d.level[g][j].miner \in Conn(U)[g] /\ d.level[g][j].miner \notin Conn(T)[g] =>
              g >= h /\ d.level[g][j].mined = node.mined
        BY <1>2, <4>1 DEF Entered
      <4>4. QED
        BY <4>1, <4>2, <4>3
    <3>2. g \in h .. MaxHeight /\ m # Me /\ x \in Conn(U)[g]
      BY <1>1, <1>22, <2>2, <3>1
    <3> HIDE DEF x
    <3>3. OwnBelow(U, x, g) = node.mined
      <4>1. m # Me => OwnBelow(U, x, g) = OwnBelow(T, p, h - 1)
        BY <2>2, <3>2, CountNew
      <4>2. QED
        BY <3>2, <4>1
    <3>4. QED
      BY <3>1, <3>3 DEF x
  <2>3. QED
    BY <2>1, <2>2
<1>23. (e.height = r.height /\ e.index = r.index) \/ Fresh(T, U, e, e.height, e.index)
  BY <1>2, <1>3, <1>15 DEF Fresh
<1>24. QED
  BY <1>1, <1>3, <1>15, <1>16, <1>17, <1>18, <1>19, <1>20, <1>21, <1>22, <1>23, ZenonT(30) DEF After

-----------------------------------------------------------------------------
(***************************************************************************)
(* addBlock as a whole.                                                    *)
(***************************************************************************)
\* The index of a miner's node in a level.
FindIn(s, p) == SelectInSeq(s, LAMBDA x : x.miner = p)

\* It is 0 if the level has none.
LEMMA FindTells ==
  ASSUME NEW s \in Seq(NodeT), NEW p, NEW i, i = FindIn(s, p)
  PROVE  \/ i = 0 /\ \A j \in DOMAIN s : s[j].miner # p
         \/ i \in DOMAIN s /\ i > 0 /\ s[i].miner = p
<1> DEFINE I == {j \in 1 .. Len(s) : s[j].miner = p}
<1>1. Len(s) \in Nat /\ DOMAIN s = 1 .. Len(s)
  BY LenProperties
<1>2. i = IF I # {} THEN Min(I) ELSE 0
  BY DEF FindIn, SelectInSeq
<1>3. CASE I = {}
  BY <1>1, <1>2, <1>3
<1>4. CASE I # {}
  <2>1. I \in SUBSET Nat
    BY <1>1
  <2>2. Min(I) \in I
    <3> HIDE DEF I
    <3>1. QED
      BY <1>4, <2>1, MinIsLeast
  <2>3. QED
    BY <1>1, <1>2, <1>4, <2>2
<1>5. QED
  BY <1>3, <1>4

\* The node of a block of m that waits for that of p.
Waiting(node, m, p) ==
  /\ node \in NodeT /\ node.miner = m /\ node.orphan /\ node.parent = p
  /\ node.score = 0 /\ node.mined = 0

\* It is the last of its height in e.
AddsLast(r, h, node, e) == Adds(r, h, node, Len(r.level[h]) + 1, e)

\* A block whose parent waits, or was not seen, waits too.
LEMMA AddOrphan ==
  ASSUME NEW T, TreeOK(T), NEW m, NEW h \in Heights, NEW p, MayCome(T, m, h, p), p \notin Conn(T)[h - 1],
         NEW U, U = Plus(T, m, h, p),
         NEW r, Good(r, T), r.min < h, h <= r.max,
         NEW node, Waiting(node, m, p), NEW e, AddsLast(r, h, node, e)
  PROVE  Good(e, U) /\ Tip(e) = Tip(r) /\ e.height = r.height /\ e.index = r.index
<1> DEFINE n == Len(r.level[h]) + 1
<1> Adds(r, h, node, n, e)
  BY DEF AddsLast
<1>0. /\ node \in NodeT /\ node.miner = m /\ node.orphan /\ node.parent = p
      /\ node.score = 0 /\ node.mined = 0
  BY DEF Waiting
<1>1. /\ r \in ChainT /\ Blocks(r, T) /\ Links(r, T, Conn(T)) /\ Window(r) /\ ~r.aborted
      /\ Mined(r, T, Conn(T)) /\ Main(r) /\ Stats(r, T) /\ Best(r)
  BY DEF Good
<1>2. Grows(T, U) /\ \A g \in Heights : \A x : x \in Conn(U)[g] <=> x \in Conn(T)[g]
  BY PlusTells, NothingConnected DEF MayCome
<1>3. /\ e \in ChainT /\ e.min = r.min /\ e.max = r.max /\ e.height = r.height /\ e.index = r.index
      /\ e.stats = r.stats /\ e.aborted = r.aborted
      /\ n \in DOMAIN e.level[h] /\ e.level[h][n] = node
      /\ \A g \in Heights : \A i \in DOMAIN r.level[g] :
           i \in DOMAIN e.level[g] /\ e.level[g][i] = r.level[g][i]
      /\ \A g \in Heights : \A i \in DOMAIN e.level[g] : i \in DOMAIN r.level[g] \/ (g = h /\ i = n)
  BY DEF Adds
<1>4. Blocks(e, U) /\ Links(e, U, Conn(U))
  <2> DEFINE S == {x \in {m} : FALSE}
  <2>1. S \in SUBSET {m} /\ m \notin S
    OBVIOUS
  <2>2. \A g \in Heights : \A x : x \in With(Conn(T), h, S)[g] <=> x \in Conn(U)[g]
    BY <1>2 DEF With
  <2> HIDE DEF S
  <2>3. Blocks(e, U) /\ Links(e, U, With(Conn(T), h, S))
    BY <1>0, <1>1, <2>1, Appended
  <2>4. QED
    BY <2>2, <2>3 DEF Links
<1>5. /\ r.height \in Heights /\ r.index \in DOMAIN r.level[r.height] /\ ~Tip(r).orphan
      /\ Tip(r).miner \in Conn(T)[r.height]
  <2>1. r.height \in Heights
    BY <1>1 DEF ChainT
  <2>2. QED
    BY <1>1, <2>1, LinkedTell DEF Main, Tip
<1>6. Tip(e) = Tip(r) /\ e.index \in DOMAIN e.level[e.height]
  BY <1>3, <1>5 DEF Tip
<1>7. ASSUME NEW g \in Heights, NEW j \in DOMAIN e.level[g], e.level[g][j].miner \in Conn(U)[g]
      PROVE  j \in DOMAIN r.level[g] /\ e.level[g][j] = r.level[g][j]
  <2>1. m \notin Conn(T)[h]
    BY PlusConn
  <2>2. ~(g = h /\ j = n)
    BY <1>0, <1>2, <1>3, <1>7, <2>1
  <2>3. QED
    BY <1>3, <2>2
<1>8. Mined(e, U, Conn(U))
  <2>1. ASSUME NEW g \in Heights, NEW j \in DOMAIN e.level[g], e.level[g][j].miner \in Conn(U)[g]
        PROVE  e.level[g][j].mined = OwnBelow(U, e.level[g][j].miner, g)
    <3> DEFINE x == e.level[g][j].miner
    <3>1. x \in Conn(T)[g]
      BY <1>2, <2>1
    <3>2. j \in DOMAIN r.level[g] /\ e.level[g][j] = r.level[g][j]
      BY <1>7, <2>1
    <3>3. e.level[g][j].mined = OwnBelow(T, x, g)
      BY <1>1, <3>1, <3>2 DEF Mined
    <3> HIDE DEF x
    <3>4. OwnBelow(U, x, g) = OwnBelow(T, x, g)
      BY <1>2, <3>1, CountStays DEF OwnBelow
    <3>5. QED
      BY <3>3, <3>4 DEF x
  <2>2. QED
    BY <2>1 DEF Mined
<1>9. Stats(e, U)
  <2>1. \A S : Count(S, Path(U, Tip(r).miner, r.height), 1, r.height)
                 = Count(S, Path(T, Tip(r).miner, r.height), 1, r.height)
    BY <1>2, <1>5, CountStays
  <2>2. QED
    BY <1>1, <1>3, <1>6, <2>1 DEF Stats
<1>10. Best(e)
  <2>1. ASSUME ~IsAttacker(Me), NEW g \in Heights, NEW j \in DOMAIN e.level[g], ~e.level[g][j].orphan
        PROVE  KeepsHonest(Tip(e), e.level[g][j])
    <3>1. e.level[g][j].miner \in Conn(U)[g]
      BY <1>3, <1>4, <2>1, LinkedTell
    <3>2. j \in DOMAIN r.level[g] /\ e.level[g][j] = r.level[g][j]
      BY <1>7, <3>1
    <3>3. QED
      BY <1>1, <1>6, <2>1, <3>2 DEF Best
  <2>2. QED
    BY <2>1 DEF Best
<1>11. Window(e) /\ Main(e) /\ ~e.aborted
  BY <1>1, <1>3, <1>5, <1>6 DEF Window, Main
<1>12. QED
  BY <1>3, <1>4, <1>6, <1>8, <1>9, <1>10, <1>11 DEF Good

\* A fork that the window holds.
Forks(T, c, p, h, f) ==
  /\ f \in Heights /\ f <= h - 1 /\ f <= c.height /\ MakeRoom(c, h).min <= f
  /\ Path(T, p, h - 1)[f] = Path(T, Tip(c).miner, c.height)[f]

\* The chain e is c with the block of m, mined on that of p: linked if that
\* is linked, and waiting if not.
Added(c, T, U, m, h, p, e) ==
  /\ p \in Conn(T)[h - 1] => \E n : After(c, T, U, m, h, n, OwnBelow(T, p, h - 1), e)
  /\ p \notin Conn(T)[h - 1] => /\ Good(e, U) /\ Tip(e) = Tip(c)
                                /\ e.height = c.height /\ e.index = c.index

\* So it is after addBlock.
LEMMA AddBlockTells ==
  ASSUME NEW T, TreeOK(T), Own(T), NEW m, NEW h \in Heights, NEW p, MayCome(T, m, h, p),
         NEW U, U = Plus(T, m, h, p),
         NEW c, Good(c, T), c.min < h, h <= c.height + Depth,
         p \in Conn(T)[h - 1] => \E f : Forks(T, c, p, h, f),
         NEW b, b.miner = m, b.prev = p, b.height = h, NEW t \in Nat,
         NEW e, e = AddBlock(c, b, t, Me)
  PROVE  Added(c, T, U, m, h, p, e)
<1> DEFINE r == MakeRoom(c, h)
           i == FindIn(r.level[h - 1], p)
           linked == i > 0 /\ ~r.level[h - 1][i].orphan
           parent == r.level[h - 1][i]
           orphan == [miner |-> m, orphan |-> TRUE, parent |-> p, score |-> 0, mined |-> 0, time |-> t]
           child == [miner |-> m, orphan |-> FALSE, parent |-> i, score |-> parent.score + 1,
                     mined |-> parent.mined, time |-> t]
           node == IF linked THEN child ELSE orphan
           added == [r EXCEPT !.level[h] = Append(@, node)]
           n == Len(r.level[h]) + 1
<1>1. /\ h \in 1 .. MaxHeight /\ h \in Nat /\ h - 1 \in Heights /\ m \in Miners /\ p \in Miners \cup {NodeIdMax}
      /\ p \in Nat
  BY Bounds DEF MayCome
<1>2. /\ Good(r, T) /\ Tip(r) = Tip(c)
      /\ r.height = c.height /\ r.index = c.index
      /\ r.min < h /\ h <= r.max /\ h < r.min + 2 * Depth
  BY <1>1, RoomKeeps
<1> HIDE DEF r
<1>3. r \in ChainT /\ Blocks(r, T) /\ Links(r, T, Conn(T)) /\ Mined(r, T, Conn(T)) /\ r.min \in Nat
      /\ r.level[h - 1] \in Seq(NodeT) /\ r.level[h] \in Seq(NodeT) /\ r.min <= h - 1
  <2>1. r \in ChainT /\ Blocks(r, T) /\ Links(r, T, Conn(T)) /\ Mined(r, T, Conn(T))
    BY <1>2 DEF Good
  <2>2. r.min \in Nat /\ r.level \in [Heights -> Seq(NodeT)]
    BY <2>1, Bounds DEF ChainT
  <2>3. r.min <= h - 1
    BY <1>1, <1>2, <2>2
  <2>4. QED
    BY <1>1, <2>1, <2>2, <2>3
<1>4. \/ i = 0 /\ \A j \in DOMAIN r.level[h - 1] : r.level[h - 1][j].miner # p
      \/ i \in DOMAIN r.level[h - 1] /\ i > 0 /\ r.level[h - 1][i].miner = p
  BY <1>3, FindTells
<1> HIDE DEF i
<1>5. linked <=> p \in Conn(T)[h - 1]
  <2>1. ASSUME p \in Conn(T)[h - 1] PROVE linked
    <3>1. \E j \in DOMAIN r.level[h - 1] : r.level[h - 1][j].miner = p
      BY <1>1, <1>3, <2>1, Held
    <3>2. i \in DOMAIN r.level[h - 1] /\ i > 0 /\ r.level[h - 1][i].miner = p
      BY <1>4, <3>1
    <3>3. QED
      BY <1>1, <1>3, <2>1, <3>2, LinkedTell
  <2>2. ASSUME linked PROVE p \in Conn(T)[h - 1]
    <3>1. i \in DOMAIN r.level[h - 1] /\ r.level[h - 1][i].miner = p
      BY <1>4, <2>2
    <3>2. QED
      BY <1>1, <1>3, <2>2, <3>1, LinkedTell
  <2>3. QED
    BY <2>1, <2>2
<1>6. HasLevel(r, h) /\ HasLevel(r, h - 1)
  BY <1>1, <1>2, <1>3, Bounds DEF HasLevel
<1>7. e = IF linked THEN JoinBranch(added, h, Len(added.level[h]), Me) ELSE added
  <2>1. node = IF linked
               THEN [ChainNodeOf(b, t) EXCEPT !.orphan = FALSE, !.parent = i,
                                              !.score = parent.score + 1, !.mined = parent.mined]
               ELSE ChainNodeOf(b, t)
    BY DEF ChainNodeOf
  <2> HIDE DEF node
  <2>2. QED
    BY <1>6, <2>1, SMTT(90) DEF AddBlock, r, i, FindIn
<1> HIDE DEF linked
<1>8. ASSUME p \in Conn(T)[h - 1] PROVE \E x : After(c, T, U, m, h, x, OwnBelow(T, p, h - 1), e)
  <2>1. i \in DOMAIN r.level[h - 1] /\ parent.miner = p /\ i \in Nat
    <3>1. i \in DOMAIN r.level[h - 1] /\ parent.miner = p
      BY <1>4, <1>5, <1>8 DEF linked
    <3>2. QED
      BY <1>3, <3>1, LenProperties
  <2>2. parent \in NodeT /\ parent.score = h - 1 /\ parent.mined = OwnBelow(T, p, h - 1)
    <3>1. parent \in NodeT /\ parent.score = h - 1
      BY <1>1, <1>3, <1>8, <2>1, LinkedTell
    <3>2. parent.mined = OwnBelow(T, p, h - 1)
      BY <1>1, <1>3, <1>8, <2>1 DEF Mined
    <3>3. QED
      BY <3>1, <3>2
  <2> HIDE DEF parent
  <2>3. /\ node \in NodeT /\ node.miner = m /\ ~node.orphan /\ node.score = h /\ node.parent = i
        /\ node.mined = OwnBelow(T, p, h - 1)
    <3>1. node = child
      BY <1>5, <1>8
    <3>2. parent.mined \in Nat /\ parent.score + 1 = h
      BY <1>1, <2>2 DEF NodeT
    <3>3. QED
      BY <1>1, <2>1, <2>2, <3>1, <3>2 DEF NodeT
  <2> HIDE DEF node
  <2>4. Adds(r, h, node, n, added)
    BY <1>3, <2>3, AppendedShape
  <2>5. e = JoinBranch(added, h, n, Me)
    BY <1>5, <1>7, <1>8, <2>4 DEF Adds
  <2> HIDE DEF added, n
  <2>6. PICK f : Forks(T, c, p, h, f)
    BY <1>8
  <2>7. /\ f \in Heights /\ r.min <= f /\ f <= h - 1 /\ f <= r.height
        /\ Path(T, p, h - 1)[f] = Path(T, Tip(r).miner, r.height)[f]
    BY <1>2, <2>6 DEF Forks, r
  <2>8. node.parent \in DOMAIN r.level[h - 1] /\ r.level[h - 1][node.parent].miner = p
    BY <2>1, <2>3 DEF parent
  <2>9. After(r, T, U, m, h, n, node.mined, e)
    BY <1>2, <1>8, <2>3, <2>4, <2>5, <2>7, <2>8, JoinKeeps DEF n
  <2>10. After(c, T, U, m, h, n, OwnBelow(T, p, h - 1), e)
    BY <1>2, <2>3, <2>9 DEF After
  <2>11. QED
    BY <2>10
<1>9. ASSUME p \notin Conn(T)[h - 1]
      PROVE  Good(e, U) /\ Tip(e) = Tip(c) /\ e.height = c.height /\ e.index = c.index
  <2>1. Waiting(node, m, p)
    BY <1>1, <1>5, <1>9 DEF NodeT, Waiting
  <2> HIDE DEF node
  <2>2. Adds(r, h, node, n, added)
    BY <1>3, <2>1, AppendedShape DEF Waiting
  <2>3. e = added
    BY <1>5, <1>7, <1>9
  <2> HIDE DEF added, n
  <2>4. AddsLast(r, h, node, e)
    BY <2>2, <2>3 DEF AddsLast, n
  <2>5. Good(e, U) /\ Tip(e) = Tip(r) /\ e.height = r.height /\ e.index = r.index
    BY <1>2, <1>9, <2>1, <2>4, AddOrphan
  <2>6. QED
    BY <1>2, <2>5
<1>10. QED
  BY <1>8, <1>9 DEF Added

\* A fork within Depth of the highest block is one that the window holds.
LEMMA ForkTells ==
  ASSUME Good(chain, tree), NEW h \in 1 .. MaxHeight, h <= chain.height + Depth, chain.min < h,
         NEW p \in Conn(tree)[h - 1], ForkHeight(p, h - 1) + Depth >= Larger(chain.max, h)
  PROVE  \E f : Forks(tree, chain, p, h, f)
<1> DEFINE a == Path(tree, p, h - 1)
           b == Path(tree, Tip(chain).miner, chain.height)
           common == {g \in DOMAIN a \cap DOMAIN b : a[g] = b[g]}
           F == ForkHeight(p, h - 1)
           r == MakeRoom(chain, h)
<1>1. /\ h \in Nat /\ h - 1 \in Nat /\ h - 1 \in Heights /\ 0 \in 0 .. h - 1
      /\ Heights = 0 .. MaxHeight /\ MaxHeight \in Nat /\ Depth \in Nat
  BY Bounds
<1>2. /\ chain \in ChainT /\ Links(chain, tree, Conn(tree)) /\ Main(chain)
  BY DEF Good
<1>3. /\ chain.height \in Heights /\ chain.height \in Nat /\ chain.max \in Nat /\ 0 \in 0 .. chain.height
  <2>1. chain.height \in Heights /\ chain.max \in Heights
    BY <1>2 DEF ChainT
  <2>2. QED
    BY <1>1, <2>1
<1>4. Tip(chain).miner \in Conn(tree)[chain.height]
  BY <1>2, <1>3, LinkedTell DEF Main, Tip
<1>5. DOMAIN a = 0 .. h - 1 /\ a[0] \in Conn(tree)[0]
  BY <1>1, PathTells
<1>6. DOMAIN b = 0 .. chain.height /\ b[0] \in Conn(tree)[0]
  BY <1>3, <1>4, PathTells
<1>7. F = CHOOSE g \in common : \A k \in common : k <= g
  <2>1. MainMiner = Tip(chain).miner
    BY DEF MainMiner, Tip, At, MainChain
  <2>2. TruePath(p, h - 1) = a /\ TruePath(MainMiner, chain.height) = b
    BY <2>1, OfTree
  <2> HIDE DEF a, b
  <2>3. QED
    BY <2>2 DEF ForkHeight
<1> HIDE DEF a, b, F
<1>8. 0 \in common
  BY <1>1, <1>3, <1>5, <1>6, ConnTells
<1>9. common \in SUBSET Nat /\ \A x \in common : x <= h - 1
  BY <1>1, <1>5
<1> HIDE DEF common
<1>10. Max(common) \in common /\ \A y \in common : y <= Max(common)
  BY <1>1, <1>8, <1>9, MaxIsGreatest
<1>11. F \in common
  BY <1>7, <1>10
<1>12. F \in Nat /\ F <= h - 1 /\ F <= chain.height /\ a[F] = b[F] /\ F \in Heights
  <2>1. F \in DOMAIN a /\ F \in DOMAIN b /\ a[F] = b[F]
    BY <1>11 DEF common
  <2>2. QED
    BY <1>1, <1>3, <1>5, <1>6, <2>1
<1>13. r.max = Larger(chain.max, h) /\ (r.min = 0 \/ r.min + Depth <= r.max) /\ r.min \in Nat
  <2>1. /\ r.max = (IF h <= chain.max THEN chain.max ELSE h)
        /\ r.min = 0 \/ r.min + Depth <= r.max
        /\ Good(r, tree)
    BY RoomKeeps
  <2>2. r.max = Larger(chain.max, h)
    BY <1>1, <1>3, <2>1 DEF Larger
  <2>3. r.min \in Heights
    BY <2>1 DEF Good, ChainT
  <2>4. QED
    BY <1>1, <2>1, <2>2, <2>3
<1> HIDE DEF r
<1>14. r.min <= F
  <2> DEFINE x == r.min
             y == r.max
  <2>1. F + Depth >= y /\ (x = 0 \/ x + Depth <= y) /\ x \in Nat /\ y \in Nat
    BY <1>1, <1>3, <1>13 DEF F, Larger
  <2> HIDE DEF x, y
  <2>2. x <= F
    BY <1>1, <1>12, <2>1
  <2>3. QED
    BY <2>2 DEF x
<1>15. Forks(tree, chain, p, h, F)
  BY <1>12, <1>14 DEF Forks, a, b, r
<1>16. QED
  BY <1>15

\* A block of another miner leaves the chain as it should be.
LEMMA AfterOther ==
  ASSUME NEW c, NEW T, NEW U, NEW m, m # Me, NEW h, NEW n, NEW k, NEW e, After(c, T, U, m, h, n, k, e)
  PROVE  Good(e, U)
<1>1. Mined(e, U, Conn(U))
  BY DEF After, Mined
<1>2. QED
  BY <1>1 DEF After, Good

-----------------------------------------------------------------------------
(***************************************************************************)
(* generateBlock counts the block that it added.                           *)
(***************************************************************************)
\* The chain e is d where the n-th node at h has one own block more.
Bumps(d, h, n, e) ==
  /\ e \in ChainT
  /\ e.min = d.min /\ e.max = d.max /\ e.height = d.height /\ e.index = d.index
  /\ e.stats = d.stats /\ e.aborted = d.aborted
  /\ \A g \in Heights : DOMAIN e.level[g] = DOMAIN d.level[g] /\ Len(e.level[g]) = Len(d.level[g])
  /\ \A g \in Heights : \A j \in DOMAIN d.level[g] :
       /\ ~(g = h /\ j = n) => e.level[g][j] = d.level[g][j]
       /\ e.level[g][j].miner = d.level[g][j].miner /\ e.level[g][j].orphan = d.level[g][j].orphan
       /\ e.level[g][j].parent = d.level[g][j].parent /\ e.level[g][j].score = d.level[g][j].score
       /\ e.level[g][j].time = d.level[g][j].time
  /\ e.level[h][n].mined = d.level[h][n].mined + 1

\* Nothing else changes.
LEMMA BumpShape ==
  ASSUME NEW d \in ChainT, NEW h \in Heights, NEW n \in DOMAIN d.level[h],
         NEW e, e = [d EXCEPT !.level[h][n].mined = @ + 1]
  PROVE  Bumps(d, h, n, e)
<1> DEFINE node == d.level[h][n]
           more == [node EXCEPT !.mined = @ + 1]
           row == [d.level[h] EXCEPT ![n] = more]
           L == [d.level EXCEPT ![h] = row]
<1>1. d.level \in [Heights -> Seq(NodeT)] /\ d.level[h] \in Seq(NodeT)
  BY DEF ChainT
<1>2. Len(d.level[h]) \in Nat /\ DOMAIN d.level[h] = 1 .. Len(d.level[h])
  BY <1>1, LenProperties
<1>3. node \in NodeT
  BY <1>1, <1>2, ElementOfSeq
<1>4. /\ more \in NodeT /\ more.mined = node.mined + 1
      /\ more.miner = node.miner /\ more.orphan = node.orphan /\ more.parent = node.parent
      /\ more.score = node.score /\ more.time = node.time
  BY <1>3 DEF NodeT
<1>5. e = [d EXCEPT !.level = L]
  OBVIOUS
<1> HIDE DEF more
<1>6. /\ row \in Seq(NodeT) /\ DOMAIN row = DOMAIN d.level[h] /\ Len(row) = Len(d.level[h])
      /\ row[n] = more /\ \A j \in DOMAIN d.level[h] : j # n => row[j] = d.level[h][j]
  <2>1. \A j \in DOMAIN d.level[h] : d.level[h][j] \in NodeT
    BY <1>1, <1>2, ElementOfSeq
  <2>2. DOMAIN row = 1 .. Len(d.level[h]) /\ row = [j \in 1 .. Len(d.level[h]) |-> row[j]]
    BY <1>2
  <2>3. row[n] = more /\ \A j \in DOMAIN d.level[h] : j # n => row[j] = d.level[h][j]
    OBVIOUS
  <2>4. \A j \in 1 .. Len(d.level[h]) : row[j] \in NodeT
    BY <1>2, <1>4, <2>1, <2>3
  <2> HIDE DEF row
  <2>5. row \in Seq(NodeT) /\ Len(row) = Len(d.level[h])
    BY <1>2, <2>2, <2>4, LenProperties
  <2>6. QED
    BY <1>2, <2>2, <2>3, <2>5
<1> HIDE DEF row
<1>7. /\ L \in [Heights -> Seq(NodeT)] /\ L[h] = row /\ \A g \in Heights : g # h => L[g] = d.level[g]
  BY <1>1, <1>6
<1> HIDE DEF L
<1>8. /\ e \in ChainT /\ e.level = L
      /\ e.min = d.min /\ e.max = d.max /\ e.height = d.height /\ e.index = d.index
      /\ e.stats = d.stats /\ e.aborted = d.aborted
  BY <1>5, <1>7 DEF ChainT
<1>9. \A g \in Heights : DOMAIN L[g] = DOMAIN d.level[g] /\ Len(L[g]) = Len(d.level[g])
  BY <1>6, <1>7
<1>10. ASSUME NEW g \in Heights, NEW j \in DOMAIN d.level[g]
       PROVE  /\ ~(g = h /\ j = n) => L[g][j] = d.level[g][j]
              /\ L[g][j].miner = d.level[g][j].miner /\ L[g][j].orphan = d.level[g][j].orphan
              /\ L[g][j].parent = d.level[g][j].parent /\ L[g][j].score = d.level[g][j].score
              /\ L[g][j].time = d.level[g][j].time
  <2>1. CASE g = h /\ j = n
    BY <1>4, <1>6, <1>7, <2>1
  <2>2. CASE ~(g = h /\ j = n)
    <3>1. L[g][j] = d.level[g][j]
      BY <1>6, <1>7, <2>2
    <3>2. QED
      BY <2>2, <3>1
  <2>3. QED
    BY <2>1, <2>2
<1>11. L[h][n].mined = d.level[h][n].mined + 1
  BY <1>4, <1>6, <1>7
<1>12. QED
  BY <1>8, <1>9, <1>10, <1>11, ZenonT(30) DEF Bumps

\* With its own block counted, the chain is as it should be.
LEMMA BumpKeeps ==
  ASSUME NEW T, TreeOK(T), Own(T), NEW h \in Heights, NEW p, MayCome(T, Me, h, p), p \in Conn(T)[h - 1],
         NEW U, U = Plus(T, Me, h, p),
         NEW c, Good(c, T), c.height = h - 1,
         NEW n, NEW d, After(c, T, U, Me, h, n, OwnBelow(T, p, h - 1), d),
         NEW e, Bumps(d, h, n, e)
  PROVE  Good(e, U)
<1>1. /\ h \in 1 .. MaxHeight /\ h \in Nat /\ Heights = 0 .. MaxHeight /\ MaxHeight \in Nat
      /\ h \in h .. MaxHeight /\ <<Me, h>> \notin DOMAIN T
  BY Bounds DEF MayCome
<1>2. /\ d \in ChainT /\ ~d.aborted /\ Window(d) /\ Blocks(d, U) /\ Links(d, U, Conn(U)) /\ Main(d)
      /\ Stats(d, U) /\ Best(d)
  BY DEF After
<1>3. /\ n \in DOMAIN d.level[h] /\ d.level[h][n].miner = Me
      /\ d.level[h][n].mined = OwnBelow(T, p, h - 1)
      /\ \A g \in Heights : \A j \in DOMAIN d.level[g] :
           d.level[g][j].miner \in Conn(U)[g] /\ d.level[g][j].miner \in Conn(T)[g] =>
             d.level[g][j].mined = OwnBelow(U, d.level[g][j].miner, g)
  BY DEF After
<1>4. (d.height = c.height /\ d.index = c.index) \/ Fresh(T, U, d, d.height, d.index)
  BY DEF After
<1>5. /\ e \in ChainT
      /\ e.min = d.min /\ e.max = d.max /\ e.height = d.height /\ e.index = d.index
      /\ e.stats = d.stats /\ e.aborted = d.aborted
      /\ \A g \in Heights : DOMAIN e.level[g] = DOMAIN d.level[g]
  BY DEF Bumps
<1>6. \A g \in Heights : \A j \in DOMAIN d.level[g] :
        /\ ~(g = h /\ j = n) => e.level[g][j] = d.level[g][j]
        /\ e.level[g][j].miner = d.level[g][j].miner /\ e.level[g][j].orphan = d.level[g][j].orphan
        /\ e.level[g][j].parent = d.level[g][j].parent /\ e.level[g][j].score = d.level[g][j].score
        /\ e.level[g][j].time = d.level[g][j].time
  BY DEF Bumps
<1>7. e.level[h][n].mined = d.level[h][n].mined + 1
  BY DEF Bumps
<1>8. Me \in Conn(U)[h] /\ Me \notin Conn(T)[h] /\ Grows(T, U)
  BY <1>1, PlusConn, PlusTells
<1>9. ASSUME NEW g \in Heights, NEW j \in DOMAIN d.level[g],
             d.level[g][j].miner \in Conn(U)[g], d.level[g][j].miner \notin Conn(T)[g]
      PROVE  g = h /\ j = n
  <2>1. ~(g < h)
    <3>1. ASSUME g < h PROVE g \in 0 .. h - 1
      BY <1>1, <3>1
    <3>2. \A y \in 0 .. h - 1 : \A x : x \in Conn(U)[y] <=> x \in Conn(T)[y]
      BY PlusConn
    <3>3. QED
      BY <1>9, <3>1, <3>2
  <2>2. ~(g > h)
    <3>1. ASSUME g > h PROVE g \in h + 1 .. MaxHeight
      BY <1>1, <3>1
    <3>2. QED
      BY <1>9, <3>1, NoChildren
  <2>3. g = h
    BY <1>1, <2>1, <2>2
  <2>4. d.level[g][j].miner = Me
    <3>1. \A x : x \in Conn(U)[h] <=> x \in Conn(T)[h] \/ (x = Me /\ p \in Conn(T)[h - 1])
      BY PlusConn
    <3>2. QED
      BY <1>9, <2>3, <3>1
  <2>5. QED
    BY <1>2, <1>3, <2>3, <2>4 DEF Blocks
<1>10. Blocks(e, U)
  <2>1. ASSUME NEW g \in Heights, NEW x
        PROVE  (\E i \in DOMAIN e.level[g] : e.level[g][i].miner = x)
                 <=> \E i \in DOMAIN d.level[g] : d.level[g][i].miner = x
    BY <1>5, <1>6
  <2>2. \A g \in Heights : g < e.min => e.level[g] = <<>>
    <3> TAKE g \in Heights
    <3> HAVE g < e.min
    <3>1. d.level[g] = <<>>
      BY <1>2, <1>5 DEF Blocks
    <3>2. e.level[g] \in Seq(NodeT) /\ Len(e.level[g]) = Len(d.level[g])
      BY <1>5 DEF ChainT, Bumps
    <3>3. QED
      BY <3>1, <3>2, EmptySeq
  <2>3. \A g \in Heights : e.min <= g =>
          \A x : x \in Seen(U, g) <=> \E i \in DOMAIN e.level[g] : e.level[g][i].miner = x
    BY <1>2, <1>5, <2>1 DEF Blocks
  <2>4. \A g \in Heights : \A i, j \in DOMAIN e.level[g] :
          e.level[g][i].miner = e.level[g][j].miner => i = j
    BY <1>2, <1>5, <1>6 DEF Blocks
  <2>5. \A g \in Heights : e.max < g => \A x : x \notin Seen(U, g)
    BY <1>2, <1>5 DEF Blocks
  <2>6. QED
    BY <2>2, <2>3, <2>4, <2>5 DEF Blocks
<1>11. Links(e, U, Conn(U))
  <2>1. ASSUME NEW g \in Heights, NEW j \in DOMAIN d.level[g]
        PROVE  /\ e.level[g][j].miner \in Conn(U)[g] => Linked(e, U, g, j)
               /\ e.level[g][j].miner \notin Conn(U)[g] => Waits(e, U, g, j)
    <3>1. ASSUME e.level[g][j].miner \in Conn(U)[g] PROVE Linked(e, U, g, j)
      <4>1. Linked(d, U, g, j)
        BY <1>2, <1>6, <3>1 DEF Links
      <4>2. ~e.level[g][j].orphan /\ e.level[g][j].score = g
        BY <1>6, <4>1 DEF Linked
      <4>3. ASSUME g > e.min
            PROVE  /\ e.level[g][j].parent \in DOMAIN e.level[g - 1]
                   /\ e.level[g - 1][e.level[g][j].parent].miner = U[<<e.level[g][j].miner, g>>]
        <5>1. g - 1 \in Heights
          <6>1. e.min \in Heights
            BY <1>5 DEF ChainT
          <6>2. QED
            BY <1>1, <4>3, <6>1
        <5>2. /\ d.level[g][j].parent \in DOMAIN d.level[g - 1]
              /\ d.level[g - 1][d.level[g][j].parent].miner = U[<<d.level[g][j].miner, g>>]
          BY <1>5, <4>1, <4>3 DEF Linked
        <5>3. e.level[g][j].parent = d.level[g][j].parent /\ e.level[g][j].miner = d.level[g][j].miner
          BY <1>6
        <5>4. QED
          BY <1>5, <1>6, <5>1, <5>2, <5>3, SMTT(90)
      <4>4. QED
        BY <4>2, <4>3 DEF Linked
    <3>2. ASSUME e.level[g][j].miner \notin Conn(U)[g] PROVE Waits(e, U, g, j)
      <4>1. Waits(d, U, g, j)
        BY <1>2, <1>6, <3>2 DEF Links
      <4>2. ~(g = h /\ j = n)
        BY <1>3, <1>6, <1>8, <3>2
      <4>3. e.level[g][j] = d.level[g][j]
        BY <1>6, <4>2
      <4>4. QED
        BY <4>1, <4>3 DEF Waits
    <3>3. QED
      BY <3>1, <3>2
  <2>2. QED
    BY <1>5, <2>1 DEF Links
<1>12. OwnBelow(U, Me, h) = OwnBelow(T, p, h - 1) + 1
  BY <1>1, <1>8, CountNew
<1>13. Mined(e, U, Conn(U))
  <2>1. ASSUME NEW g \in Heights, NEW j \in DOMAIN d.level[g], d.level[g][j].miner \in Conn(U)[g]
        PROVE  e.level[g][j].mined = OwnBelow(U, d.level[g][j].miner, g)
    <3>1. CASE g = h /\ j = n
      BY <1>3, <1>7, <1>12, <3>1
    <3>2. CASE ~(g = h /\ j = n)
      <4>1. d.level[g][j].miner \in Conn(T)[g]
        BY <1>9, <2>1, <3>2
      <4>2. QED
        BY <1>3, <1>6, <2>1, <3>2, <4>1
    <3>3. QED
      BY <3>1, <3>2
  <2>2. QED
    BY <1>5, <1>6, <2>1 DEF Mined
<1>14. d.height \in Heights /\ d.index \in DOMAIN d.level[d.height]
  BY <1>2 DEF Main, ChainT
<1>15. /\ Tip(e).miner = Tip(d).miner /\ Tip(e).orphan = Tip(d).orphan /\ Tip(e).score = Tip(d).score
       /\ Tip(e).time = Tip(d).time
       /\ ~(d.height = h /\ d.index = n) => Tip(e) = Tip(d)
       /\ d.height = h /\ d.index = n => Tip(e).mined = Tip(d).mined + 1
  <2>1. Tip(e) = e.level[d.height][d.index] /\ Tip(d) = d.level[d.height][d.index]
    BY <1>5 DEF Tip
  <2>2. QED
    BY <1>6, <1>7, <1>14, <2>1
<1>16. Main(e) /\ Stats(e, U) /\ Window(e) /\ ~e.aborted
  BY <1>2, <1>5, <1>14, <1>15 DEF Main, Stats, Window
<1>17. /\ Tip(d) \in NodeT /\ Tip(d).score = d.height /\ Tip(d).mined \in Nat
       /\ d.level[h][n] \in NodeT /\ ~d.level[h][n].orphan /\ d.level[h][n].score = h
  <2>1. Tip(d) \in NodeT /\ Tip(d).score = d.height
    BY <1>2, <1>14, LinkedTell DEF Main, Tip
  <2>2. d.level[h][n] \in NodeT /\ ~d.level[h][n].orphan /\ d.level[h][n].score = h
    BY <1>2, <1>3, <1>8, LinkedTell
  <2>3. QED
    BY <2>1, <2>2 DEF NodeT
<1>18. Best(e)
  <2>1. ASSUME ~IsAttacker(Me), NEW g \in Heights, NEW j \in DOMAIN e.level[g], ~e.level[g][j].orphan
        PROVE  KeepsHonest(Tip(e), e.level[g][j])
    <3>1. \A y \in Heights : \A i \in DOMAIN d.level[y] :
            ~d.level[y][i].orphan => KeepsHonest(Tip(d), d.level[y][i])
      BY <1>2, <2>1 DEF Best
    <3>2. d.height = h /\ d.index = n
      <4>1. KeepsHonest(Tip(d), d.level[h][n])
        BY <1>3, <1>17, <3>1
      <4>2. d.height >= h
        BY <1>1, <1>14, <1>17, <4>1 DEF KeepsHonest
      <4>3. Fresh(T, U, d, d.height, d.index)
        BY <1>1, <1>4, <1>14, <4>2
      <4>4. QED
        BY <1>9, <1>14, <4>3 DEF Fresh
    <3>3. Tip(e).mined = Tip(d).mined + 1
      BY <1>15, <3>2
    <3> DEFINE x == e.level[g][j]
               t == Tip(d)
    <3>4. j \in DOMAIN d.level[g] /\ d.level[g][j] \in NodeT
      BY <1>2, <1>5, <2>1, LinkedTell
    <3>5. CASE g = h /\ j = n
      <4>1. x = Tip(e)
        BY <1>5, <3>2, <3>5 DEF Tip
      <4>2. Tip(e).miner \in Nat
        BY <1>15, <1>17, Bounds DEF NodeT
      <4> DEFINE y == Tip(e)
      <4> HIDE DEF x, y
      <4>3. y.miner \in Nat /\ x = y
        BY <4>1, <4>2 DEF y
      <4>4. KeepsHonest(y, x)
        BY <4>3 DEF KeepsHonest, EarlierSeen
      <4>5. QED
        BY <4>4 DEF x, y
    <3>6. CASE ~(g = h /\ j = n)
      <4>1. x = d.level[g][j]
        BY <1>6, <3>4, <3>6
      <4>2. KeepsHonest(t, x)
        BY <2>1, <3>1, <3>4, <4>1
      <4>3. t \in NodeT /\ x \in NodeT
        BY <1>17, <3>4, <4>1
      <4> DEFINE y == Tip(e)
      <4>4. y.score = t.score /\ y.mined = t.mined + 1
        BY <1>15, <3>3
      <4> HIDE DEF x, y, t
      <4>5. t.score \in Nat /\ x.score \in Nat /\ t.mined \in Nat /\ x.mined \in Nat
        BY <4>3 DEF NodeT
      <4>6. t.score > x.score \/ (t.score = x.score /\ t.mined >= x.mined)
        BY <4>2, <4>5 DEF KeepsHonest
      <4>7. KeepsHonest(y, x)
        BY <4>4, <4>5, <4>6 DEF KeepsHonest
      <4>8. QED
        BY <4>7 DEF x, y
    <3>7. QED
      BY <3>5, <3>6
  <2>2. QED
    BY <2>1 DEF Best
<1>19. QED
  BY <1>5, <1>10, <1>11, <1>13, <1>16, <1>18 DEF Good

-----------------------------------------------------------------------------
(***************************************************************************)
(* The invariant.                                                          *)
(***************************************************************************)
Inv == TreeOK(tree) /\ Own(tree) /\ Good(chain, tree) /\ now \in Nat

\* The genesis block alone.
LEMMA InitInv == Init => Inv
<1> SUFFICES ASSUME Init PROVE Inv
  OBVIOUS
<1> DEFINE T == <<>>
           L == [h \in Heights |-> IF h = 0 THEN <<GenesisBlock>> ELSE <<>>]
           stats == [total |-> 0, own |-> 0, attacker |-> 0]
<1>1. /\ chain = [level |-> L, index |-> 1, height |-> 0, max |-> 0, min |-> 0, stats |-> stats,
                  aborted |-> FALSE]
      /\ now = 1 /\ tree = T
  BY DEF Init, InitBlockchain
<1>2. DOMAIN T = {}
  OBVIOUS
<1> HIDE DEF T
<1>3. TreeOK(T) /\ Own(T)
  BY <1>2 DEF TreeOK, Own
<1>4. Heights = 0 .. MaxHeight /\ MaxHeight \in Nat /\ 0 \in Heights /\ Depth \in Nat /\ 1 <= Depth
  BY Bounds
<1>5. /\ GenesisBlock \in NodeT
      /\ GenesisBlock.miner = NodeIdMax /\ ~GenesisBlock.orphan /\ GenesisBlock.score = 0
      /\ GenesisBlock.mined = 0 /\ GenesisBlock.time = 0
  BY Bounds DEF GenesisBlock, NodeT
<1> HIDE DEF GenesisBlock
<1>6. /\ L[0] = <<GenesisBlock>> /\ DOMAIN L[0] = {1} /\ L[0][1] = GenesisBlock
      /\ \A h \in Heights : h # 0 => L[h] = <<>> /\ DOMAIN L[h] = {}
      /\ L \in [Heights -> Seq(NodeT)]
  <2>1. L[0] = <<GenesisBlock>> /\ \A h \in Heights : h # 0 => L[h] = <<>>
    BY <1>4
  <2>2. <<GenesisBlock>> \in Seq(NodeT) /\ <<>> \in Seq(NodeT) /\ DOMAIN <<>> = {}
        /\ DOMAIN <<GenesisBlock>> = {1} /\ <<GenesisBlock>>[1] = GenesisBlock
    BY <1>5
  <2>3. QED
    BY <2>1, <2>2
<1> HIDE DEF L
<1>7. stats \in [Kinds -> Nat] /\ \A k \in Kinds : stats[k] = 0
  BY DEF Kinds
<1> HIDE DEF stats
<1>8. chain \in ChainT /\ ~chain.aborted
  BY <1>1, <1>4, <1>6, <1>7 DEF ChainT
<1>9. Window(chain)
  BY <1>1, <1>4 DEF Window
<1>10. /\ \A x : x \in Seen(T, 0) <=> x = NodeIdMax
       /\ \A h \in Heights : h # 0 => \A x : x \notin Seen(T, h)
  BY <1>2 DEF Seen
<1>11. ASSUME NEW h \in Heights, NEW i \in DOMAIN chain.level[h]
       PROVE  h = 0 /\ i = 1 /\ chain.level[h][i] = GenesisBlock
  BY <1>1, <1>6, <1>11
<1>12. Blocks(chain, T)
  <2>1. \A h \in Heights : ~(h < chain.min) /\ (chain.max < h => h # 0)
    BY <1>1, <1>4
  <2>2. ASSUME NEW h \in Heights, NEW x
        PROVE  x \in Seen(T, h) <=> \E i \in DOMAIN chain.level[h] : chain.level[h][i].miner = x
    <3>1. CASE h = 0
      <4>1. DOMAIN chain.level[h] = {1} /\ chain.level[h][1].miner = NodeIdMax
        BY <1>1, <1>5, <1>6, <3>1
      <4>2. QED
        BY <1>10, <3>1, <4>1
    <3>2. CASE h # 0
      BY <1>10, <1>11, <2>2, <3>2
    <3>3. QED
      BY <3>1, <3>2
  <2>3. QED
    BY <1>10, <1>11, <2>1, <2>2 DEF Blocks
<1>13. NodeIdMax \in Conn(T)[0]
  BY ConnTells
<1>14. Links(chain, T, Conn(T))
  <2>1. ASSUME NEW h \in Heights, NEW i \in DOMAIN chain.level[h]
        PROVE  /\ chain.level[h][i].miner \in Conn(T)[h] /\ Linked(chain, T, h, i)
    <3>1. h = 0 /\ chain.level[h][i] = GenesisBlock /\ ~(h > chain.min)
      BY <1>1, <1>11
    <3>2. QED
      BY <1>5, <1>13, <3>1 DEF Linked
  <2>2. QED
    BY <2>1 DEF Links
<1>15. \A S, q : Count(S, q, 1, 0) = 0
  <2>1. ASSUME NEW S, NEW q PROVE Count(S, q, 1, 0) = 0
    <3>1. 1 \in Nat /\ 0 \in Nat /\ \A g \in 1 .. 0 : q[g] \notin S
      OBVIOUS
    <3>2. QED
      BY <3>1, CountNone
  <2>2. QED
    BY <2>1
<1>16. Mined(chain, T, Conn(T))
  BY <1>5, <1>11, <1>15 DEF Mined, OwnBelow
<1>17. Tip(chain) = GenesisBlock /\ Main(chain)
  BY <1>1, <1>5, <1>6 DEF Main, Tip
<1>18. Stats(chain, T)
  BY <1>1, <1>7, <1>15 DEF Stats
<1>19. Best(chain)
  BY <1>5, <1>11, <1>17, Bounds DEF Best, KeepsHonest, EarlierSeen
<1>20. QED
  BY <1>1, <1>3, <1>8, <1>9, <1>12, <1>14, <1>16, <1>17, <1>18, <1>19 DEF Inv, Good

\* The miner mines once at each height: an attacker by the bound of the model,
\* an honest miner because its own block would be a better tip.
Once == ~IsAttacker(Me) \/ ~MineAgain

\* Time passes.
LEMMA NowIsNumber == ASSUME now \in Nat, Passes PROVE now' \in Nat
BY BlockTreeAssumption DEF Passes

\* A block that arrives.
LEMMA ReceiveKeeps ==
  ASSUME Inv, NEW b \in Network, Receive(b)
  PROVE  Inv'
<1> DEFINE m == b.miner
           h == b.height
           p == b.prev
           U == Plus(tree, m, h, p)
           e == AddBlock(chain, b, now', Me)
<1>1. /\ m \in Miners /\ m # Me /\ h \in 1 .. MaxHeight /\ p \in Miners \cup {NodeIdMax}
      /\ p = NodeIdMax <=> h = 1
  BY BlockTreeAssumption DEF Block
<1>2. /\ TreeOK(tree) /\ Own(tree) /\ Good(chain, tree) /\ now \in Nat
  BY DEF Inv
<1>3. /\ <<m, h>> \notin DOMAIN tree
      /\ p = Me => <<Me, h - 1>> \in DOMAIN tree
      /\ h + Depth > chain.max /\ h <= chain.height + Depth
      /\ p \in Conn(tree)[h - 1] => ForkHeight(p, h - 1) + Depth >= Larger(chain.max, h)
      /\ chain' = e
  BY OfTree DEF Receive, WithinDepth
<1>4. tree' = U /\ now' \in Nat
  BY <1>2, NowIsNumber DEF Receive, Add, Plus
<1>5. h \in Heights
  BY <1>1, Bounds
<1>6. MayCome(tree, m, h, p)
  BY <1>1, <1>3 DEF MayCome
<1>7. chain.min < h
  <2>1. Window(chain) /\ chain.min \in Heights /\ chain.max \in Heights
    BY <1>2 DEF Good, ChainT
  <2> DEFINE x == chain.min
             y == chain.max
  <2>2. /\ x = 0 \/ x + Depth <= y
        /\ x \in Nat /\ y \in Nat /\ h + Depth > y /\ h \in Nat /\ 1 <= h /\ Depth \in Nat
    BY <1>1, <1>3, <2>1, Bounds DEF Window
  <2> HIDE DEF x, y, h
  <2>3. x < h
    BY <2>2
  <2>4. QED
    BY <2>3 DEF x
<1>8. p \in Conn(tree)[h - 1] => \E f : Forks(tree, chain, p, h, f)
  BY <1>1, <1>2, <1>3, <1>7, ForkTells
<1>9. b.miner = m /\ b.prev = p /\ b.height = h
  OBVIOUS
<1> HIDE DEF m, p, h, U
<1>10. U = Plus(tree, m, h, p)
  BY DEF U
<1>11. Added(chain, tree, U, m, h, p, e)
  BY <1>2, <1>3, <1>4, <1>5, <1>6, <1>7, <1>8, <1>9, <1>10, AddBlockTells
<1> HIDE DEF e
<1>12. Good(e, U)
  <2>1. CASE p \in Conn(tree)[h - 1]
    <3>1. PICK n : After(chain, tree, U, m, h, n, OwnBelow(tree, p, h - 1), e)
      BY <1>11, <2>1 DEF Added
    <3>2. QED
      BY <1>1, <3>1, AfterOther
  <2>2. CASE p \notin Conn(tree)[h - 1]
    BY <1>11, <2>2 DEF Added
  <2>3. QED
    BY <2>1, <2>2
<1>13. TreeOK(U) /\ Own(U)
  BY <1>1, <1>2, <1>5, <1>6, <1>10, PlusConn, OwnStays
<1>14. QED
  BY <1>3, <1>4, <1>12, <1>13 DEF Inv

\* What the tip is.
LEMMA TipTells ==
  ASSUME NEW c, NEW T, Good(c, T)
  PROVE  /\ c \in ChainT /\ c.height \in Heights /\ c.min \in Nat /\ c.min <= c.height
         /\ c.index \in DOMAIN c.level[c.height] /\ ~Tip(c).orphan
         /\ Tip(c) \in NodeT /\ Tip(c).score = c.height /\ Tip(c).miner \in Conn(T)[c.height]
<1>1. c \in ChainT /\ Links(c, T, Conn(T)) /\ Main(c) /\ Window(c)
  BY DEF Good
<1>2. c.height \in Heights /\ c.min \in Heights
  BY <1>1 DEF ChainT
<1>3. c.min \in Nat /\ c.min <= c.height
  BY <1>1, <1>2, Bounds DEF Window
<1>4. QED
  BY <1>1, <1>2, <1>3, LinkedTell DEF Main, Tip

\* An honest miner has not mined at the next height: it would have switched.
LEMMA NotMined ==
  ASSUME NEW c, NEW T, Good(c, T), Own(T), ~IsAttacker(Me), c.height < MaxHeight
  PROVE  <<Me, c.height + 1>> \notin DOMAIN T
<1> DEFINE h == c.height + 1
<1> SUFFICES ASSUME <<Me, h>> \in DOMAIN T PROVE FALSE
  OBVIOUS
<1>1. /\ c \in ChainT /\ c.height \in Heights /\ c.min \in Nat /\ c.min <= c.height
      /\ Tip(c) \in NodeT /\ Tip(c).score = c.height
  BY TipTells
<1>2. h \in Heights /\ h \in 1 .. MaxHeight /\ c.min <= h /\ c.height < h /\ h \in Nat /\ c.height \in Nat
  BY <1>1, Bounds
<1>3. Blocks(c, T) /\ Links(c, T, Conn(T)) /\ Best(c)
  BY DEF Good
<1>4. Me \in Conn(T)[h]
  BY <1>2 DEF Own
<1>5. PICK i \in DOMAIN c.level[h] : c.level[h][i].miner = Me
  BY <1>2, <1>3, <1>4, Held
<1>6. ~c.level[h][i].orphan /\ c.level[h][i].score = h
  BY <1>1, <1>2, <1>3, <1>4, <1>5, LinkedTell
<1>7. KeepsHonest(Tip(c), c.level[h][i])
  BY <1>2, <1>3, <1>6 DEF Best
<1>8. QED
  BY <1>1, <1>2, <1>6, <1>7 DEF KeepsHonest

\* A block that the miner mines.
LEMMA MineKeeps ==
  ASSUME Inv, Once, Mine
  PROVE  Inv'
<1> DEFINE h == chain.height + 1
           p == Tip(chain).miner
           b == NextBlock(chain, Me)
           d == AddBlock(chain, b, now', Me)
           e == GenerateBlock(chain, now', Me)
           U == Plus(tree, Me, h, p)
<1>1. /\ TreeOK(tree) /\ Own(tree) /\ Good(chain, tree) /\ now \in Nat
  BY DEF Inv
<1>2. b.miner = Me /\ b.prev = p /\ b.height = h
  BY DEF NextBlock, Tip, At, MainChain
<1>3. /\ chain.height < MaxHeight /\ (MineAgain \/ <<Me, h>> \notin DOMAIN tree)
      /\ chain' = e /\ now' \in Nat
  BY <1>1, NowIsNumber DEF Mine
<1> HIDE DEF b
<1>4. tree' = U
  BY <1>2 DEF Mine, Add, Plus, b
<1>5. /\ chain \in ChainT /\ chain.height \in Heights /\ chain.min \in Nat /\ chain.min <= chain.height
      /\ chain.index \in DOMAIN chain.level[chain.height]
      /\ Tip(chain) \in NodeT /\ p \in Conn(tree)[chain.height]
  BY <1>1, TipTells
<1>6. /\ h \in Heights /\ h \in 1 .. MaxHeight /\ h - 1 = chain.height /\ chain.min < h /\ h \in Nat
      /\ h <= chain.height + Depth /\ chain.height \in Nat
  BY <1>3, <1>5, Bounds
<1>7. <<Me, h>> \notin DOMAIN tree
  BY <1>1, <1>3, NotMined DEF Once
<1>8. p \in Miners \cup {NodeIdMax} /\ (p = NodeIdMax <=> h = 1)
  <2>1. CASE h = 1
    <3>1. chain.height = 0
      BY <1>6, <2>1
    <3>2. p \in Conn(tree)[0]
      BY <1>5, <3>1
    <3>3. p = NodeIdMax
      BY <3>2, ConnTells
    <3>4. QED
      BY <2>1, <3>3
  <2>2. CASE h # 1
    <3>1. chain.height \in 1 .. MaxHeight
      BY <1>6, <2>2, Bounds
    <3>2. p \in Miners
      BY <1>5, <3>1, ConnTells
    <3>3. QED
      BY <2>2, <3>2, Bounds
  <2>3. QED
    BY <2>1, <2>2
<1>9. ASSUME p = Me PROVE <<Me, h - 1>> \in DOMAIN tree
  <2>1. h - 1 # 0
    BY <1>5, <1>6, <1>9, ConnTells, Bounds
  <2>2. h - 1 \in 1 .. MaxHeight
    BY <1>6, <2>1, Bounds
  <2>3. QED
    BY <1>5, <1>6, <1>9, <2>2, ConnTells
<1>10. MayCome(tree, Me, h, p)
  BY <1>6, <1>7, <1>8, <1>9, Bounds DEF MayCome
<1>11. p \in Conn(tree)[h - 1]
  BY <1>5, <1>6
<1>12. Forks(tree, chain, p, h, chain.height)
  <2>1. MakeRoom(chain, h).min < h /\ MakeRoom(chain, h).min \in Nat
    <3>1. MakeRoom(chain, h).min < h /\ Good(MakeRoom(chain, h), tree)
      BY <1>1, <1>6, RoomKeeps
    <3>2. QED
      BY <3>1, TipTells
  <2> DEFINE x == MakeRoom(chain, h).min
  <2>2. x < h /\ x \in Nat
    BY <2>1
  <2> HIDE DEF x, h
  <2>3. x <= chain.height /\ chain.height <= h - 1 /\ chain.height <= chain.height
    BY <1>6, <2>2
  <2>4. Path(tree, p, h - 1)[chain.height] = Path(tree, Tip(chain).miner, chain.height)[chain.height]
    BY <1>6
  <2>5. QED
    BY <1>5, <2>3, <2>4 DEF Forks, x
<1> HIDE DEF h, p, U, d
<1>13. U = Plus(tree, Me, h, p) /\ d = AddBlock(chain, b, now', Me)
  BY DEF U, d
<1>14. Added(chain, tree, U, Me, h, p, d)
  BY <1>1, <1>2, <1>3, <1>6, <1>10, <1>12, <1>13, AddBlockTells
<1>15. PICK n : After(chain, tree, U, Me, h, n, OwnBelow(tree, p, h - 1), d)
  BY <1>11, <1>14 DEF Added
<1>16. d \in ChainT /\ ~d.aborted /\ n \in DOMAIN d.level[h] /\ Len(d.level[h]) = n
  BY <1>15 DEF After
<1>17. e = [d EXCEPT !.level[h][n].mined = @ + 1]
  BY <1>2, <1>16 DEF GenerateBlock, b, d
<1> HIDE DEF e
<1>18. Bumps(d, h, n, e)
  BY <1>6, <1>16, <1>17, BumpShape
<1>19. Good(e, U)
  BY <1>1, <1>6, <1>10, <1>11, <1>13, <1>15, <1>18, BumpKeeps
<1>20. TreeOK(U) /\ Own(U)
  BY <1>1, <1>6, <1>10, <1>11, <1>13, PlusConn, OwnStays
<1>21. QED
  BY <1>3, <1>4, <1>19, <1>20 DEF Inv

\* A request for a block less than Depth below the highest one.
LEMMA AnswerKeeps ==
  ASSUME Inv, NEW m \in Miners, NEW h \in 1 .. MaxHeight, Answer(m, h)
  PROVE  UNCHANGED vars
<1>1. /\ Window(chain) /\ chain.min \in Nat /\ chain.max \in Nat
      /\ Depth \in Nat /\ 1 <= Depth /\ h \in Nat /\ 1 <= h
  <2>1. chain \in ChainT /\ Window(chain)
    BY DEF Inv, Good
  <2>2. chain.min \in Heights /\ chain.max \in Heights
    BY <2>1 DEF ChainT
  <2>3. QED
    BY <2>1, <2>2, Bounds
<1>2. h + Depth > chain.max
  BY DEF Answer
<1>3. ASSUME h <= chain.max PROVE HasLevel(chain, h) /\ HasLevel(chain, h - 1)
  <2> DEFINE x == chain.min
             y == chain.max
  <2>1. /\ x \in Nat /\ y \in Nat /\ h <= y /\ h + Depth > y /\ y < x + 2 * Depth /\ (x = 0 \/ x + Depth <= y)
        /\ Depth \in Nat /\ 1 <= Depth
    BY <1>1, <1>2, <1>3 DEF Window
  <2> HIDE DEF x, y
  <2>2. x <= h - 1 /\ h - 1 < x + 2 * Depth /\ x <= h /\ h < x + 2 * Depth
    BY <1>1, <2>1
  <2>3. QED
    BY <2>2 DEF HasLevel, x
<1>4. MayRetrieve(chain, m, h)
  BY <1>3 DEF MayRetrieve
<1>5. QED
  BY <1>4 DEF Answer, vars

\* Every step keeps the invariant.
LEMMA NextInv ==
  ASSUME Once, Inv, [Next]_vars
  PROVE  Inv'
<1>1. ASSUME Mine PROVE Inv'
  BY <1>1, MineKeeps
<1>2. ASSUME NEW b \in Network, Receive(b) PROVE Inv'
  BY <1>2, ReceiveKeeps
<1>3. ASSUME UNCHANGED vars PROVE Inv'
  BY <1>3 DEF Inv, vars
<1>4. ASSUME NEW m \in Miners, NEW h \in 1 .. MaxHeight, Answer(m, h) PROVE Inv'
  BY <1>3, <1>4, AnswerKeeps
<1>5. QED
  BY <1>1, <1>2, <1>3, <1>4 DEF Next

\* The invariant holds in every state.
LEMMA Invariance == ASSUME Once PROVE Spec => []Inv
<1>1. Inv /\ [Next]_vars => Inv'
  BY NextInv
<1>2. QED
  BY <1>1, InitInv, PTL DEF Spec

-----------------------------------------------------------------------------
(***************************************************************************)
(* The properties.                                                         *)
(***************************************************************************)

\* There are no more blocks of some miners below than levels.
LEMMA CountAtMost ==
  ASSUME NEW S, NEW q, NEW h \in Nat
  PROVE  Count(S, q, 1, h) \in 0 .. h
<1>1. {g \in 1 .. h : q[g] \in S} \subseteq 1 .. h
  OBVIOUS
<1>2. IsFiniteSet(1 .. h) /\ Cardinality(1 .. h) = h
  BY FS_Interval
<1>3. Cardinality({g \in 1 .. h : q[g] \in S}) <= h
  BY <1>1, <1>2, FS_Subset
<1>4. Count(S, q, 1, h) \in Nat
  BY CountTells
<1>5. QED
  BY <1>3, <1>4 DEF Count

\* Every field keeps its type, the tip is a node of the tree, and the window
\* holds nothing below.
THEOREM TypesRight == ASSUME Once PROVE Spec => []TypeOK
<1>1. ASSUME Inv PROVE TypeOK
  <2>1. /\ chain \in ChainT /\ Links(chain, tree, Conn(tree)) /\ Mined(chain, tree, Conn(tree))
        /\ Blocks(chain, tree) /\ Main(chain) /\ now \in Nat
    BY <1>1 DEF Inv, Good
  <2>2. /\ chain.min \in Heights /\ chain.max \in Heights /\ chain.height \in Heights
        /\ chain.aborted \in BOOLEAN /\ Heights = 0 .. MaxHeight /\ MaxHeight \in Nat
    BY <2>1, Bounds DEF ChainT
  <2>3. ASSUME NEW h \in Heights, NEW i \in DOMAIN chain.level[h]
        PROVE  chain.level[h][i] \in Node
    <3> DEFINE x == chain.level[h][i]
    <3>1. x \in NodeT
      BY <2>1, LinkedTell
    <3>2. x.score \in Heights /\ x.mined \in 0 .. (MaxHeight + 1)
      <4>1. CASE x.miner \in Conn(tree)[h]
        <5>1. x.score = h /\ x.mined = OwnBelow(tree, x.miner, h)
          BY <2>1, <4>1 DEF Links, Linked, Mined
        <5>2. h \in Nat /\ h <= MaxHeight
          BY <2>2
        <5>3. x.mined \in 0 .. h
          BY <5>1, <5>2, CountAtMost DEF OwnBelow
        <5>4. QED
          BY <2>2, <5>1, <5>2, <5>3
      <4>2. CASE x.miner \notin Conn(tree)[h]
        <5>1. x.score = 0 /\ x.mined = 0
          BY <2>1, <4>2 DEF Links, Waits
        <5>2. QED
          BY <2>2, <5>1
      <4>3. QED
        BY <4>1, <4>2
    <3>3. QED
      BY <3>1, <3>2 DEF NodeT, Node
  <2>4. \A h \in 0 .. (chain.min - 1) : chain.level[h] = <<>>
    BY <2>1, <2>2 DEF Blocks
  <2>5. QED
    BY <2>1, <2>2, <2>3, <2>4 DEF TypeOK, Main
<1>2. QED
  BY <1>1, Invariance, PTL

\* The program never aborts (getChainLevel, moveChainForward): blocks and
\* forks at most Depth apart are always in the window.
THEOREM NoAbort == ASSUME Once PROVE Spec => []NeverAborts
<1>1. Inv => NeverAborts
  BY DEF Inv, Good, NeverAborts
<1>2. QED
  BY <1>1, Invariance, PTL

\* A block is an orphan exactly when an ancestor of it has not been seen, and
\* a linked one has its parent, its score and its number of own blocks right.
THEOREM LinksRight == ASSUME Once PROVE Spec => []LinksAreRight
<1>1. ASSUME Inv PROVE LinksAreRight
  <2>1. /\ chain \in ChainT /\ Links(chain, tree, Conn(tree)) /\ Mined(chain, tree, Conn(tree))
    BY <1>1 DEF Inv, Good
  <2>2. SUFFICES ASSUME NEW h \in Heights, NEW i \in DOMAIN chain.level[h]
                 PROVE  LET x == chain.level[h][i] IN
                        /\ x.orphan <=> x.miner \notin Connected[h]
                        /\ ~x.orphan /\ h > 0 =>
                             /\ x.score = h
                             /\ x.mined = MinedBy({Me}, x.miner, h)
                             /\ h > chain.min => chain.level[h - 1][x.parent].miner = tree[<<x.miner, h>>]
    <3>1. ASSUME NEW q \in Positions(chain)
          PROVE  q = <<q[1], q[2]>> /\ q[1] \in Heights /\ q[2] \in DOMAIN chain.level[q[1]]
      BY DEF Positions
    <3>2. QED
      BY <2>2, <3>1 DEF LinksAreRight, At
  <2> DEFINE x == chain.level[h][i]
  <2>3. (~x.orphan <=> x.miner \in Conn(tree)[h]) /\ x \in NodeT
    BY <2>1, LinkedTell
  <2>4. ASSUME ~x.orphan
        PROVE  /\ x.score = h /\ x.mined = MinedBy({Me}, x.miner, h)
               /\ h > chain.min => chain.level[h - 1][x.parent].miner = tree[<<x.miner, h>>]
    <3>1. x.miner \in Conn(tree)[h]
      BY <2>3, <2>4
    <3>2. Linked(chain, tree, h, i) /\ x.mined = OwnBelow(tree, x.miner, h)
      BY <2>1, <3>1 DEF Links, Mined
    <3>3. OwnBelow(tree, x.miner, h) = MinedBy({Me}, x.miner, h)
      BY MinedByCounts DEF OwnBelow
    <3>4. QED
      BY <3>2, <3>3 DEF Linked
  <2>5. x.orphan <=> x.miner \notin Connected[h]
    BY <2>3, OfTree
  <2>6. QED
    BY <2>4, <2>5
<1>2. QED
  BY <1>1, Invariance, PTL

\* No two blocks of the miner have the same height (Block.h:29).
THEOREM OneOwnBlock == ASSUME Once PROVE Spec => []OneBlockPerHeight
<1>1. ASSUME Inv PROVE OneBlockPerHeight
  <2>1. ASSUME NEW h \in Heights
        PROVE  Cardinality({i \in DOMAIN chain.level[h] : chain.level[h][i].miner = Me}) <= 1
    <3> DEFINE I == {i \in DOMAIN chain.level[h] : chain.level[h][i].miner = Me}
    <3>1. \A i, j \in I : i = j
      BY <1>1 DEF Inv, Good, Blocks
    <3> HIDE DEF I
    <3>2. CASE I = {}
      BY <3>2, FS_EmptySet DEF I
    <3>3. CASE I # {}
      <4>1. PICK i : i \in I
        BY <3>3
      <4>2. I = {i}
        BY <3>1, <4>1
      <4>3. QED
        BY <4>2, FS_Singleton, SMTT(30) DEF I
    <3>4. QED
      BY <3>2, <3>3
  <2>2. QED
    BY <2>1 DEF OneBlockPerHeight
<1>2. QED
  BY <1>1, Invariance, PTL

\* After any number of reorganisations the counters are those of the main
\* chain (switchChains).
THEOREM StatsRight == ASSUME Once PROVE Spec => []StatsMatchMain
<1>1. ASSUME Inv PROVE StatsMatchMain
  <2> DEFINE h == chain.height
             m == Tip(chain).miner
             q == Path(tree, m, h)
  <2>1. h \in Heights /\ m \in Conn(tree)[h] /\ h \in Nat
    BY <1>1, TipTells, Bounds DEF Inv
  <2>2. MainMiner = m
    BY DEF MainMiner, Tip, At, MainChain
  <2>3. /\ chain.stats \in [Kinds -> Int]
        /\ \A k \in Kinds : chain.stats[k] = Count(CountedFor(Me)[k], q, 1, h)
    BY <1>1 DEF Inv, Good, Stats, ChainT
  <2> HIDE DEF q, h, m
  <2>4. /\ CountedFor(Me)["total"] = Miners /\ CountedFor(Me)["own"] = {Me}
        /\ CountedFor(Me)["attacker"] = Attackers
    <3>1. {n \in Miners : IsAttacker(n)} = Attackers
      BY ChainAssumption DEF IsAttacker, Miners
    <3>2. QED
      BY <3>1 DEF CountedFor
  <2>5. Count(Miners, q, 1, h) = h
    <3>1. \A g \in 1 .. h : g \in 0 .. h /\ g \in 1 .. MaxHeight
      BY <2>1, Bounds
    <3>2. \A g \in 0 .. h : q[g] \in Conn(tree)[g]
      BY <2>1, PathTells DEF q
    <3>3. \A g \in 1 .. h : q[g] \in Miners
      BY <3>1, <3>2, ConnTells
    <3>4. QED
      BY <2>1, <3>3, CountAll
  <2>6. \A S : MinedBy(S, MainMiner, h) = Count(S, q, 1, h)
    BY <2>2, MinedByCounts DEF q
  <2>7. /\ chain.stats["total"] = h
        /\ chain.stats["own"] = MinedBy({Me}, MainMiner, h)
        /\ chain.stats["attacker"] = MinedBy(Attackers, MainMiner, h)
    BY <2>3, <2>4, <2>5, <2>6 DEF Kinds
  <2>8. chain.stats = [total |-> h, own |-> MinedBy({Me}, MainMiner, h),
                       attacker |-> MinedBy(Attackers, MainMiner, h)]
    BY <2>3, <2>7 DEF Kinds
  <2>9. QED
    BY <2>8 DEF StatsMatchMain, h
<1>2. QED
  BY <1>1, Invariance, PTL

\* An honest miner's main chain is the best there is, although addBlock only
\* compares the best of the blocks it links with the main chain.
THEOREM MainBest == ASSUME Me \notin Attackers PROVE Spec => []MainIsBest
<1>1. Once /\ ~IsAttacker(Me)
  BY DEF Once, IsAttacker
<1>2. ASSUME Inv PROVE MainIsBest
  <2>1. /\ chain \in ChainT /\ Links(chain, tree, Conn(tree)) /\ Blocks(chain, tree) /\ Best(chain)
    BY <1>2 DEF Inv, Good
  <2>2. /\ chain.height \in Heights /\ chain.height \in Nat /\ chain.index \in DOMAIN chain.level[chain.height]
        /\ ~Tip(chain).orphan /\ Tip(chain) \in NodeT /\ Tip(chain).score = chain.height
    BY <1>2, TipTells, Bounds DEF Inv
  <2>3. At(chain, MainChain(chain)) = Tip(chain)
    BY DEF At, MainChain, Tip
  <2>4. ASSUME NEW h \in Heights, NEW i \in DOMAIN chain.level[h], ~chain.level[h][i].orphan,
               <<h, i>> # MainChain(chain)
        PROVE  LET n == chain.level[h][i]
                   main == Tip(chain)
               IN /\ h <= chain.height
                  /\ h = chain.height =>
                       \/ n.mined < main.mined
                       \/ n.mined = main.mined /\ n.time > main.time
                       \/ n.mined = main.mined /\ n.time = main.time /\ n.miner > main.miner
    <3> DEFINE n == chain.level[h][i]
               main == Tip(chain)
    <3>1. KeepsHonest(main, n)
      BY <1>1, <2>1, <2>4 DEF Best
    <3>2. n \in NodeT /\ n.score = h
      BY <2>1, <2>4, LinkedTell
    <3>3. h = chain.height => n.miner # main.miner
      BY <2>1, <2>2, <2>4 DEF Blocks, Tip, MainChain
    <3>4. main \in NodeT /\ main.score = chain.height
      BY <2>2
    <3> HIDE DEF n, main
    <3>5. /\ n.mined \in Nat /\ n.time \in Nat /\ n.miner \in Nat /\ n.score \in Nat
          /\ main.mined \in Nat /\ main.time \in Nat /\ main.miner \in Nat /\ main.score \in Nat
      BY <3>2, <3>4, Bounds DEF NodeT
    <3> DEFINE a == n.mined
               b == n.time
               c == n.miner
               aa == main.mined
               bb == main.time
               cc == main.miner
    <3>6. \/ chain.height > h
          \/ /\ chain.height = h
             /\ aa > a \/ (aa = a /\ (bb < b \/ (bb = b /\ cc <= c)))
      BY <3>1, <3>2, <3>4 DEF KeepsHonest, EarlierSeen
    <3>7. a \in Nat /\ b \in Nat /\ c \in Nat /\ aa \in Nat /\ bb \in Nat /\ cc \in Nat /\ h \in Nat
      BY <3>2, <3>5
    <3>8. h = chain.height => c # cc
      BY <3>3
    <3> HIDE DEF a, b, c, aa, bb, cc
    <3>9. /\ h <= chain.height
          /\ h = chain.height => a < aa \/ (a = aa /\ b > bb) \/ (a = aa /\ b = bb /\ c > cc)
      BY <2>2, <3>6, <3>7, <3>8
    <3>10. QED
      BY <3>9 DEF a, b, c, aa, bb, cc, n, main
  <2>5. ASSUME NEW q \in Positions(chain)
        PROVE  q = <<q[1], q[2]>> /\ q[1] \in Heights /\ q[2] \in DOMAIN chain.level[q[1]]
    BY DEF Positions
  <2>6. ASSUME NEW q \in Positions(chain)
        PROVE  LET n == At(chain, q)
                   main == At(chain, MainChain(chain))
               IN ~n.orphan /\ q # MainChain(chain) =>
                    /\ q[1] <= chain.height
                    /\ q[1] = chain.height =>
                         \/ n.mined < main.mined
                         \/ n.mined = main.mined /\ n.time > main.time
                         \/ n.mined = main.mined /\ n.time = main.time /\ n.miner > main.miner
    <3>1. PICK h \in Heights : \E i \in DOMAIN chain.level[h] : q = <<h, i>>
      BY <2>5
    <3>2. PICK i \in DOMAIN chain.level[h] : q = <<h, i>>
      BY <3>1
    <3>3. At(chain, q) = chain.level[h][i] /\ q[1] = h
      BY <3>2 DEF At
    <3>4. QED
      BY <2>3, <2>4, <3>2, <3>3
  <2>7. QED
    BY <2>2, <2>3, <2>6 DEF MainIsBest
<1>3. QED
  BY <1>1, <1>2, Invariance, PTL

-----------------------------------------------------------------------------
(***************************************************************************)
(* An attacker gives up its own blocks only for a longer chain, also when  *)
(* it mines twice at a height.  Its blocks then have no names of their     *)
(* own, and the tree says nothing of the chain any more; but the tip stays *)
(* a linked node of the window, whatever is added, and its count is not    *)
(* touched before another node contends with it.                           *)
(***************************************************************************)
\* The window holds the tip, which is linked, and no chain is too long.
Fits(c) ==
  /\ c \in ChainT /\ Main(c)
  /\ c.min <= c.height /\ c.height <= c.max /\ c.max < c.min + 2 * Depth
  /\ \A g \in Heights : \A i \in DOMAIN c.level[g] : c.level[g][i].score <= g

\* What that means of its numbers and of its tip.
LEMMA FitsTells ==
  ASSUME NEW c, Fits(c)
  PROVE  /\ c.min \in Nat /\ c.max \in Nat /\ c.height \in Nat /\ c.index \in Nat /\ c.height \in Heights
         /\ c.min \in Heights /\ c.max \in Heights
         /\ c.index \in DOMAIN c.level[c.height] /\ Tip(c) \in NodeT /\ ~Tip(c).orphan
         /\ c.level \in [Heights -> Seq(NodeT)]
         /\ \A g \in Heights : \A i \in DOMAIN c.level[g] : c.level[g][i] \in NodeT
<1>1. c.level \in [Heights -> Seq(NodeT)] /\ c.height \in Heights /\ c.index \in Nat
  BY DEF Fits, ChainT
<1>2. c.min \in Heights /\ c.max \in Heights
  BY DEF Fits, ChainT
<1>3. \A g \in Heights : \A i \in DOMAIN c.level[g] : c.level[g][i] \in NodeT
  <2>1. \A g \in Heights : c.level[g] \in Seq(NodeT)
    BY <1>1
  <2>2. QED
    BY <2>1, ElementOfSeq, LenProperties
<1>4. c.index \in DOMAIN c.level[c.height] /\ ~Tip(c).orphan
  BY DEF Fits, Main
<1>5. QED
  BY <1>1, <1>2, <1>3, <1>4, Bounds DEF Tip

\* The window moves without the tip.
LEMMA RoomFits ==
  ASSUME NEW c, Fits(c), NEW h \in 1 .. MaxHeight, h <= c.height + Depth
  PROVE  LET r == MakeRoom(c, h) IN
         /\ Fits(r) /\ Tip(r) = Tip(c) /\ r.height = c.height /\ r.index = c.index
         /\ r.aborted = c.aborted /\ h <= r.max
<1> DEFINE r == MakeRoom(c, h)
           raised == [c EXCEPT !.max = h]
           L == [g \in Heights |-> IF g < c.min + Depth THEN <<>> ELSE c.level[g]]
<1>1. /\ c \in ChainT /\ c.min \in Nat /\ c.max \in Nat /\ c.height \in Nat /\ c.height \in Heights
      /\ h \in Nat /\ h \in Heights /\ Depth \in Nat /\ 1 <= Depth /\ 1 <= h
      /\ c.min <= c.height /\ c.height <= c.max /\ c.max < c.min + 2 * Depth
      /\ Heights = 0 .. MaxHeight /\ MaxHeight \in Nat /\ c.level \in [Heights -> Seq(NodeT)]
  BY FitsTells, Bounds DEF Fits
<1>2. /\ raised \in ChainT /\ raised.max = h /\ raised.min = c.min /\ raised.height = c.height
      /\ raised.index = c.index /\ raised.aborted = c.aborted /\ raised.level = c.level
  BY <1>1 DEF ChainT
<1> HIDE DEF raised
<1>3. CASE h <= c.max
  <2>1. r = c
    BY <1>3 DEF MakeRoom
  <2>2. QED
    BY <1>1, <1>3, <2>1
<1>4. CASE ~(h <= c.max) /\ ~(h >= c.min + 2 * Depth)
  <2>1. r = raised
    BY <1>4 DEF MakeRoom, raised
  <2> HIDE DEF r
  <2>2. Tip(r) = Tip(c) /\ Main(r)
    BY <1>2, <2>1 DEF Fits, Main, Tip
  <2>3. r.min <= r.height /\ r.height <= r.max /\ r.max < r.min + 2 * Depth /\ h <= r.max
    BY <1>1, <1>2, <1>4, <2>1
  <2>4. Fits(r)
    BY <1>2, <2>1, <2>2, <2>3 DEF Fits
  <2>5. QED
    BY <1>2, <2>1, <2>2, <2>3, <2>4 DEF r
<1>5. CASE ~(h <= c.max) /\ h >= c.min + 2 * Depth
  <2>1. r = [raised EXCEPT !.level = L, !.min = c.min + Depth]
    <3>1. r = MoveChainForward(raised)
      BY <1>5 DEF MakeRoom, raised
    <3> HIDE DEF r
    <3>2. QED
      BY <1>2, <3>1 DEF MoveChainForward
  <2>2. L \in [Heights -> Seq(NodeT)]
    <3>1. <<>> \in Seq(NodeT)
      OBVIOUS
    <3>2. QED
      BY <1>1, <3>1
  <2>3. /\ \A g \in Heights : g < c.min + Depth => L[g] = <<>>
        /\ \A g \in Heights : ~(g < c.min + Depth) => L[g] = c.level[g]
    OBVIOUS
  <2> HIDE DEF L, r
  <2>4. /\ c.min + Depth \in Heights /\ c.min + Depth <= c.height /\ c.height <= h
        /\ h < c.min + Depth + 2 * Depth /\ h <= h
    <3> DEFINE x == c.min
               y == c.max
               z == c.height
    <3>1. /\ x \in Nat /\ y \in Nat /\ z \in Nat /\ h \in 0 .. MaxHeight /\ x <= z /\ z <= y /\ y < x + 2 * Depth
          /\ h >= x + 2 * Depth /\ h <= z + Depth /\ Depth \in Nat /\ 1 <= Depth /\ MaxHeight \in Nat
          /\ h > y
      BY <1>1, <1>5
    <3> HIDE DEF x, y, z
    <3>2. /\ x + Depth \in 0 .. MaxHeight /\ x + Depth <= z /\ z <= h /\ h < x + Depth + 2 * Depth
          /\ h <= h
      BY <3>1
    <3>3. QED
      BY <1>1, <3>2 DEF x, z
  <2>5. /\ r \in ChainT /\ r.max = h /\ r.min = c.min + Depth /\ r.height = c.height
        /\ r.index = c.index /\ r.aborted = c.aborted /\ r.level = L
    BY <1>2, <2>1, <2>2, <2>4 DEF ChainT
  <2>6. r.min <= r.height /\ r.height <= r.max /\ r.max < r.min + 2 * Depth /\ h <= r.max
    BY <2>4, <2>5
  <2>7. L[c.height] = c.level[c.height]
    <3>1. ~(c.height < c.min + Depth)
      BY <1>1, <2>4
    <3>2. QED
      BY <1>1, <2>3, <3>1
  <2>8. Tip(r) = Tip(c) /\ Main(r)
    BY <2>5, <2>7 DEF Fits, Main, Tip
  <2>9. \A g \in Heights : \A i \in DOMAIN r.level[g] : r.level[g][i].score <= g
    BY <2>3, <2>5 DEF Fits
  <2>10. Fits(r)
    BY <2>5, <2>6, <2>8, <2>9 DEF Fits
  <2>11. QED
    BY <2>5, <2>6, <2>8, <2>10 DEF r
<1>6. QED
  BY <1>3, <1>4, <1>5

\* So does a node come in,
LEMMA AppendFits ==
  ASSUME NEW r, Fits(r), NEW h \in Heights, NEW node, node.score <= h, NEW n, NEW a, Adds(r, h, node, n, a)
  PROVE  Fits(a) /\ Tip(a) = Tip(r)
<1>1. /\ a \in ChainT /\ a.min = r.min /\ a.max = r.max /\ a.height = r.height /\ a.index = r.index
      /\ a.level[h][n] = node
      /\ \A g \in Heights : \A i \in DOMAIN r.level[g] : i \in DOMAIN a.level[g] /\ a.level[g][i] = r.level[g][i]
      /\ \A g \in Heights : \A i \in DOMAIN a.level[g] : i \in DOMAIN r.level[g] \/ (g = h /\ i = n)
  BY DEF Adds
<1>2. r.height \in Heights /\ r.index \in DOMAIN r.level[r.height] /\ ~Tip(r).orphan
  BY FitsTells
<1>3. Tip(a) = Tip(r) /\ Main(a)
  BY <1>1, <1>2 DEF Main, Tip
<1>4. \A g \in Heights : \A i \in DOMAIN a.level[g] : a.level[g][i].score <= g
  BY <1>1 DEF Fits
<1>5. QED
  BY <1>1, <1>3, <1>4 DEF Fits

\* The orphans at each height that descend from the n-th node at h.
Descend(c, h, n, u) ==
  /\ DOMAIN u = h .. c.max /\ u[h] = {n}
  /\ \A g \in h .. c.max : g # h =>
       u[g] = {j \in DOMAIN c.level[g] : \E q \in u[g - 1] : IsChild(c.level[g][j], c.level[g - 1][q])}

\* They are defined, level by level,
LEMMA DescendantsTell ==
  ASSUME NEW c, NEW h \in Nat, c.max \in Nat, h <= c.max, NEW n
  PROVE  Descend(c, h, n, Descendants(c, h, n))
<1> DEFINE Kids(g, s) == {j \in DOMAIN c.level[g] : \E q \in s : IsChild(c.level[g][j], c.level[g - 1][q])}
           Is(k, f) == f = [g \in h .. k |-> IF g = h THEN {n} ELSE Kids(g, f[g - 1])]
           K == c.max - h
           P == {x \in 0 .. K : \E f : Is(h + x, f)}
           u == Descendants(c, h, n)
<1>1. K \in Nat /\ h + K = c.max
  OBVIOUS
<1>2. u = CHOOSE f : Is(c.max, f)
  BY DEF Descendants
<1> HIDE DEF Kids, K, u
<1>3. 0 \in P
  <2> DEFINE f == [g \in h .. h |-> {n}]
  <2>1. \A g \in h .. h : g = h
    OBVIOUS
  <2>2. f = [g \in h .. h |-> IF g = h THEN {n} ELSE Kids(g, f[g - 1])]
    BY <2>1
  <2>3. h + 0 = h /\ 0 \in 0 .. K
    BY <1>1
  <2> HIDE DEF f
  <2>4. QED
    BY <2>2, <2>3
<1>4. ASSUME NEW x \in 0 .. K, x < K, x \in P PROVE x + 1 \in P
  <2>1. PICK f : Is(h + x, f)
    BY <1>4
  <2> DEFINE k == h + (x + 1)
             e == [g \in h .. k |-> IF g = k THEN Kids(k, f[k - 1]) ELSE f[g]]
  <2>2. k \in Nat /\ k # h /\ k - 1 = h + x /\ k - 1 \in h .. k /\ k - 1 # k /\ k \in h .. k
        /\ x + 1 \in 0 .. K
    BY <1>1, <1>4
  <2>3. \A g \in h .. k : g = k \/ (g \in h .. h + x /\ g # k /\ (g = h \/ g - 1 \in h .. h + x))
    BY <1>1
  <2>4. \A g \in h .. h + x : f[g] = IF g = h THEN {n} ELSE Kids(g, f[g - 1])
    BY <2>1
  <2>5. \A g \in h .. h + x : g \in h .. k /\ g # k
    BY <1>1
  <2> HIDE DEF k
  <2>6. e[k] = Kids(k, f[k - 1]) /\ \A g \in h .. h + x : e[g] = f[g]
    BY <2>2, <2>5
  <2>7. e = [g \in h .. k |-> e[g]]
    OBVIOUS
  <2> HIDE DEF e
  <2>8. k - 1 \in h .. h + x
    BY <1>1, <2>2
  <2>9. \A g \in h .. k : e[g] = IF g = h THEN {n} ELSE Kids(g, e[g - 1])
    <3>1. e[k] = IF k = h THEN {n} ELSE Kids(k, e[k - 1])
      BY <2>2, <2>6, <2>8
    <3>2. ASSUME NEW g \in h .. h + x, g = h \/ g - 1 \in h .. h + x
          PROVE  e[g] = IF g = h THEN {n} ELSE Kids(g, e[g - 1])
      BY <2>4, <2>6, <3>2
    <3>3. QED
      BY <2>3, <3>1, <3>2
  <2>10. Is(k, e)
    BY <2>7, <2>9
  <2>11. QED
    BY <2>2, <2>10 DEF k
<1>5. K \in P
  <2> HIDE DEF P
  <2>1. K \in 0 .. K
    BY <1>1
  <2>2. QED
    BY <1>1, <1>3, <1>4, <2>1, UpTo
<1>6. Is(c.max, u)
  <2>1. \E f : Is(c.max, f)
    BY <1>1, <1>5
  <2> HIDE DEF Is
  <2>2. QED
    BY <1>2, <2>1
<1> DEFINE F == h .. c.max
<1>7. h \in F
  OBVIOUS
<1>8. u = [g \in F |-> IF g = h THEN {n} ELSE Kids(g, u[g - 1])]
  BY <1>6
<1> HIDE DEF F
<1>9. DOMAIN u = F /\ u[h] = {n} /\ \A g \in F : g # h => u[g] = Kids(g, u[g - 1])
  BY <1>7, <1>8
<1>10. QED
  BY <1>9 DEF F, u, Kids, Descend

\* and so is a way down.
LEMMA WayDown ==
  ASSUME NEW c, c.min \in Nat, NEW k \in Nat, c.min <= k, NEW i
  PROVE  DOMAIN Ancestry(c, <<k, i>>) = c.min .. k
<1> DEFINE Up(g, j) == c.level[g + 1][j].parent
           Is(l, f) == f = [g \in l .. k |-> IF g = k THEN i ELSE Up(g, f[g + 1])]
           K == k - c.min
           P == {x \in 0 .. K : \E f : Is(k - x, f)}
           u == Ancestry(c, <<k, i>>)
<1>1. K \in Nat /\ k - K = c.min
  OBVIOUS
<1>2. u = CHOOSE f : Is(c.min, f)
  BY ZenonT(30) DEF Ancestry, At
<1> HIDE DEF Up, K, u
<1>3. 0 \in P
  <2> DEFINE f == [g \in k .. k |-> i]
  <2>1. \A g \in k .. k : g = k
    OBVIOUS
  <2>2. f = [g \in k .. k |-> IF g = k THEN i ELSE Up(g, f[g + 1])]
    BY <2>1
  <2>3. k - 0 = k /\ 0 \in 0 .. K
    BY <1>1
  <2> HIDE DEF f
  <2>4. QED
    BY <2>2, <2>3
<1>4. ASSUME NEW x \in 0 .. K, x < K, x \in P PROVE x + 1 \in P
  <2>1. PICK f : Is(k - x, f)
    BY <1>4
  <2> DEFINE l == k - (x + 1)
             e == [g \in l .. k |-> IF g = l THEN Up(l, f[l + 1]) ELSE f[g]]
  <2>2. l \in Int /\ l # k /\ l + 1 = k - x /\ l + 1 \in k - x .. k /\ l \in l .. k
        /\ x + 1 \in 0 .. K
    BY <1>1, <1>4
  <2>3. \A g \in l .. k : g = l \/ (g \in k - x .. k /\ g # l /\ (g = k \/ g + 1 \in k - x .. k))
    BY <1>1
  <2>4. \A g \in k - x .. k : f[g] = IF g = k THEN i ELSE Up(g, f[g + 1])
    BY <2>1
  <2>5. \A g \in k - x .. k : g \in l .. k /\ g # l
    BY <1>1
  <2> HIDE DEF l
  <2>6. e[l] = Up(l, f[l + 1]) /\ \A g \in k - x .. k : e[g] = f[g]
    BY <2>2, <2>5
  <2>7. e = [g \in l .. k |-> e[g]]
    OBVIOUS
  <2> HIDE DEF e
  <2>8. \A g \in l .. k : e[g] = IF g = k THEN i ELSE Up(g, e[g + 1])
    <3>1. e[l] = IF l = k THEN i ELSE Up(l, e[l + 1])
      BY <2>2, <2>6
    <3>2. ASSUME NEW g \in k - x .. k, g = k \/ g + 1 \in k - x .. k
          PROVE  e[g] = IF g = k THEN i ELSE Up(g, e[g + 1])
      BY <2>4, <2>6, <3>2
    <3>3. QED
      BY <2>3, <3>1, <3>2
  <2>9. Is(l, e)
    BY <2>7, <2>8
  <2>10. QED
    BY <2>2, <2>9 DEF l
<1>5. K \in P
  <2> HIDE DEF P
  <2>1. K \in 0 .. K
    BY <1>1
  <2>2. QED
    BY <1>1, <1>3, <1>4, <2>1, UpTo
<1>6. Is(c.min, u)
  <2>1. \E f : Is(c.min, f)
    BY <1>1, <1>5
  <2> HIDE DEF Is
  <2>2. QED
    BY <1>2, <2>1
<1>7. QED
  BY <1>6 DEF u

\* Blocks reverted and applied are numbers.
LEMMA StatsAreNumbers ==
  ASSUME NEW c, c.min \in Nat, NEW k \in Nat, c.min <= k, NEW i, NEW f, NEW K \in Kinds
  PROVE  LET up == Ancestry(c, <<k, i>>) IN StatsOf(c, up, {h \in DOMAIN up : h > f}, Me)[K] \in Nat
<1> DEFINE up == Ancestry(c, <<k, i>>)
           H == {h \in DOMAIN up : h > f}
           S == {h \in H : c.level[h][up[h]].miner \in CountedFor(Me)[K]}
<1>1. DOMAIN up = c.min .. k
  BY WayDown
<1>2. DOMAIN CountedFor(Me) = Kinds
  BY DEF CountedFor, Kinds
<1> HIDE DEF up
<1>3. StatsOf(c, up, H, Me)[K] = Cardinality(S)
  <2> HIDE DEF H
  <2>1. QED
    BY <1>2 DEF StatsOf
<1>4. S \in SUBSET (c.min .. k) /\ IsFiniteSet(c.min .. k)
  BY <1>1, FS_Interval
<1> HIDE DEF S
<1>5. IsFiniteSet(S)
  BY <1>4, FS_Subset
<1>6. QED
  BY <1>3, <1>5, FS_CardinalityType DEF up

\* A linked node becomes the tip, unless the fork is older than the window.
LEMMA SwitchFits ==
  ASSUME NEW c, Fits(c), NEW k \in Heights, c.min <= k, k <= c.max, NEW i \in DOMAIN c.level[k],
         ~c.level[k][i].orphan, NEW e, e = SwitchChains(c, <<k, i>>, Me)
  PROVE  /\ e.level = c.level
         /\ \/ e.aborted /\ Tip(e) = Tip(c)
            \/ Fits(e) /\ Tip(e) = c.level[k][i]
<1> DEFINE old == Ancestry(c, <<c.height, c.index>>)
           new == Ancestry(c, <<k, i>>)
           common == {h \in DOMAIN old \cap DOMAIN new : old[h] = new[h]}
           fork == CHOOSE h \in common : \A g \in common : g <= h
           off == StatsOf(c, old, {h \in DOMAIN old : h > fork}, Me)
           on == StatsOf(c, new, {h \in DOMAIN new : h > fork}, Me)
           stats == [K \in DOMAIN c.stats |-> (c.stats[K] - off[K]) + on[K]]
<1>1. /\ c.min \in Nat /\ c.height \in Nat /\ c.max \in Nat /\ k \in Nat /\ c.min <= c.height
      /\ c \in ChainT /\ c.stats \in [Kinds -> Int] /\ c.level \in [Heights -> Seq(NodeT)]
  BY FitsTells, Bounds DEF Fits, ChainT
<1>2. /\ <<k, i>>[1] = k /\ <<k, i>>[2] = i
      /\ e = IF common = {} THEN Abort(c) ELSE [c EXCEPT !.height = k, !.index = i, !.stats = stats]
  BY DEF SwitchChains, MainChain
<1> HIDE DEF common
<1>3. ASSUME NEW K \in Kinds PROVE off[K] \in Nat /\ on[K] \in Nat
  <2> HIDE DEF fork
  <2>1. QED
    BY <1>1, StatsAreNumbers
<1> HIDE DEF off, on
<1>4. stats \in [Kinds -> Int]
  BY <1>1, <1>3
<1> HIDE DEF stats
<1>5. CASE common = {}
  <2>1. e = [c EXCEPT !.aborted = TRUE]
    BY <1>2, <1>5 DEF Abort
  <2>2. e.aborted /\ e.level = c.level /\ e.height = c.height /\ e.index = c.index
    BY <1>1, <2>1 DEF ChainT
  <2>3. QED
    BY <2>2 DEF Tip
<1>6. CASE common # {}
  <2>1. e = [c EXCEPT !.height = k, !.index = i, !.stats = stats]
    BY <1>2, <1>6
  <2>2. i \in Nat
    <3>1. c.level[k] \in Seq(NodeT)
      BY <1>1
    <3>2. QED
      BY <3>1, LenProperties
  <2>3. /\ e \in ChainT /\ e.level = c.level /\ e.height = k /\ e.index = i
        /\ e.min = c.min /\ e.max = c.max
    BY <1>1, <1>4, <2>1, <2>2 DEF ChainT
  <2>4. Tip(e) = c.level[k][i] /\ Main(e)
    BY <2>3 DEF Main, Tip
  <2>5. Fits(e)
    BY <2>3, <2>4 DEF Fits
  <2>6. QED
    BY <2>3, <2>4, <2>5
<1>7. QED
  BY <1>5, <1>6

\* The chain d is c where the descendants of its n-th node at h are linked
\* and counted as that one is.
Frees(c, h, n, d) ==
  /\ Fits(d) /\ Tip(d) = Tip(c) /\ d.height = c.height /\ d.index = c.index
  /\ d.min = c.min /\ d.max = c.max /\ Len(d.level[h]) = Len(c.level[h])
  /\ \A g \in h .. c.max : \A j \in Descendants(c, h, n)[g] :
       /\ g \in Heights /\ j \in DOMAIN d.level[g] /\ d.level[g][j] \in NodeT
       /\ ~d.level[g][j].orphan /\ d.level[g][j].mined = c.level[h][n].mined

\* So it is after unorphanBlocks.
LEMMA UnorphanFits ==
  ASSUME NEW c, Fits(c), NEW h \in Heights, h <= c.max, NEW n \in DOMAIN c.level[h],
         ~c.level[h][n].orphan,
         NEW d, d = UnorphanBlocks(c, h, n, Descendants(c, h, n))
  PROVE  Frees(c, h, n, d)
<1> DEFINE found == Descendants(c, h, n)
           top == c.level[h][n]
           Up(g, j) == CHOOSE q \in found[g - 1] : IsChild(c.level[g][j], c.level[g - 1][q])
           Link(g, j) == [c.level[g][j] EXCEPT !.orphan = FALSE, !.parent = Up(g, j),
                                               !.mined = top.mined, !.score = top.score + (g - h)]
           In(g, j) == g \in (h + 1) .. c.max /\ j \in found[g]
           E(g, j) == IF In(g, j) THEN Link(g, j) ELSE c.level[g][j]
           Row(g) == [j \in DOMAIN c.level[g] |-> E(g, j)]
           L == [g \in Heights |-> Row(g)]
<1>1. /\ h \in Nat /\ c.max \in Nat /\ c.max <= MaxHeight /\ MaxHeight \in Nat /\ Heights = 0 .. MaxHeight
      /\ c.level \in [Heights -> Seq(NodeT)] /\ c \in ChainT
      /\ \A g \in Heights : \A j \in DOMAIN c.level[g] : c.level[g][j] \in NodeT /\ c.level[g][j].score <= g
  BY FitsTells, Bounds DEF Fits
<1>2. top \in NodeT /\ top.score \in Nat /\ top.score <= h /\ top.mined \in Nat
  BY <1>1 DEF NodeT
<1> HIDE DEF top, Up, Link, In, E, Row, L, found
<1>3. /\ DOMAIN found = h .. c.max /\ found[h] = {n}
      /\ \A g \in h .. c.max : g # h =>
           found[g] = {j \in DOMAIN c.level[g] : \E q \in found[g - 1] : IsChild(c.level[g][j], c.level[g - 1][q])}
  <2>1. h \in Nat /\ c.max \in Nat
    BY <1>1
  <2>2. Descend(c, h, n, found)
    BY <2>1, DescendantsTell DEF found
  <2>3. QED
    BY <2>2 DEF Descend
<1>4. ASSUME NEW g \in h .. c.max PROVE found[g] \subseteq DOMAIN c.level[g] /\ g \in Heights
  <2>1. g \in Heights
    BY <1>1
  <2>2. CASE g = h
    BY <1>3, <2>1, <2>2
  <2>3. CASE g # h
    BY <1>3, <2>1, <2>3
  <2>4. QED
    BY <2>1, <2>2, <2>3
<1> USE DEF In, E, Row, L, Link, Up
<1>5. ASSUME NEW g \in Heights, NEW j \in DOMAIN c.level[g], In(g, j)
      PROVE  c.level[g][j].orphan /\ Up(g, j) \in Nat
  <2>1. g \in h .. c.max /\ g # h /\ g - 1 \in h .. c.max /\ j \in found[g]
    BY <1>1, <1>5
  <2>2. \E q \in found[g - 1] : IsChild(c.level[g][j], c.level[g - 1][q])
    BY <1>3, <2>1
  <2>3. Up(g, j) \in found[g - 1] /\ IsChild(c.level[g][j], c.level[g - 1][Up(g, j)])
    BY <2>2
  <2> HIDE DEF Up
  <2>4. g - 1 \in Heights /\ Up(g, j) \in DOMAIN c.level[g - 1]
    BY <1>4, <2>1, <2>3
  <2>5. Up(g, j) \in Nat
    <3>1. c.level[g - 1] \in Seq(NodeT)
      BY <1>1, <2>4
    <3>2. DOMAIN c.level[g - 1] = 1 .. Len(c.level[g - 1]) /\ Len(c.level[g - 1]) \in Nat
      BY <3>1, LenProperties
    <3>3. QED
      BY <2>4, <3>2
  <2>6. QED
    BY <2>3, <2>5 DEF IsChild
<1> HIDE DEF Up
<1>6. ASSUME NEW g \in Heights, NEW j \in DOMAIN c.level[g]
      PROVE  /\ E(g, j) \in NodeT /\ E(g, j).score <= g
             /\ In(g, j) => ~E(g, j).orphan /\ E(g, j).mined = top.mined
             /\ ~In(g, j) => E(g, j) = c.level[g][j]
  <2>1. CASE In(g, j)
    <3> DEFINE x == c.level[g][j]
               s == top.score + (g - h)
    <3>1. Up(g, j) \in Nat /\ x \in NodeT
      BY <1>1, <1>5, <2>1
    <3>2. s \in Nat /\ s <= g
      <4> DEFINE y == top.score
      <4>1. y \in Nat /\ y <= h /\ h \in Nat /\ g \in Nat /\ g > h
        BY <1>1, <1>2, <2>1
      <4> HIDE DEF y
      <4>2. y + (g - h) \in Nat /\ y + (g - h) <= g
        BY <4>1
      <4>3. QED
        BY <4>2 DEF y
    <3>3. E(g, j) = [x EXCEPT !.orphan = FALSE, !.parent = Up(g, j), !.mined = top.mined, !.score = s]
      BY <2>1
    <3> HIDE DEF x, s, E
    <3>4. /\ E(g, j) \in NodeT /\ E(g, j).orphan = FALSE
          /\ E(g, j).mined = top.mined /\ E(g, j).score = s
      BY <1>2, <3>1, <3>2, <3>3 DEF NodeT
    <3>5. QED
      BY <2>1, <3>2, <3>4
  <2>2. CASE ~In(g, j)
    BY <1>1, <2>2
  <2>3. QED
    BY <2>1, <2>2
<1> HIDE DEF E
<1>7. ASSUME NEW g \in Heights
      PROVE  /\ L[g] \in Seq(NodeT) /\ DOMAIN L[g] = DOMAIN c.level[g] /\ Len(L[g]) = Len(c.level[g])
             /\ \A j \in DOMAIN c.level[g] : L[g][j] = E(g, j)
  <2> DEFINE k == Len(c.level[g])
  <2>1. c.level[g] \in Seq(NodeT)
    BY <1>1
  <2>2. k \in Nat /\ DOMAIN c.level[g] = 1 .. k
    BY <2>1, LenProperties
  <2>3. L[g] = [j \in 1 .. k |-> E(g, j)]
    BY <2>2
  <2>4. \A j \in 1 .. k : E(g, j) \in NodeT
    BY <1>6, <2>2
  <2> HIDE DEF L, k
  <2>5. L[g] \in [1 .. k -> NodeT]
    BY <2>3, <2>4
  <2>6. L[g] \in Seq(NodeT)
    BY <2>2, <2>5, SeqDef
  <2>7. DOMAIN L[g] = 1 .. k /\ Len(L[g]) = k
    BY <2>2, <2>3
  <2>8. QED
    BY <2>2, <2>3, <2>6, <2>7 DEF k
<1>8. L = [g \in Heights |-> L[g]]
  OBVIOUS
<1>9. d = [c EXCEPT !.level = L]
  <2>1. d = UnorphanBlocks(c, h, n, found)
    BY DEF found
  <2>2. c.level \in [Heights -> Seq(NodeT)]
    BY <1>1
  <2>3. QED
    BY <2>1, <2>2 DEF UnorphanBlocks, E, In, Up, top
<1> HIDE DEF L, In
<1>10. L \in [Heights -> Seq(NodeT)]
  BY <1>7, <1>8
<1>11. /\ d \in ChainT /\ d.level = L
       /\ d.min = c.min /\ d.max = c.max /\ d.height = c.height /\ d.index = c.index
  BY <1>1, <1>9, <1>10 DEF ChainT
<1>12. Tip(d) = Tip(c) /\ Main(d)
  <2>1. c.height \in Heights /\ c.index \in DOMAIN c.level[c.height] /\ ~Tip(c).orphan
    BY FitsTells
  <2>2. ~In(c.height, c.index)
    BY <1>5, <2>1 DEF Tip
  <2>3. L[c.height][c.index] = c.level[c.height][c.index] /\ c.index \in DOMAIN L[c.height]
    BY <1>6, <1>7, <2>1, <2>2
  <2>4. QED
    BY <1>11, <2>1, <2>3 DEF Main, Tip
<1>13. Fits(d)
  <2>1. \A g \in Heights : \A j \in DOMAIN d.level[g] : d.level[g][j].score <= g
    BY <1>6, <1>7, <1>11
  <2>2. QED
    BY <1>11, <1>12, <2>1 DEF Fits
<1>14. ASSUME NEW g \in h .. c.max, NEW j \in found[g]
       PROVE  /\ g \in Heights /\ j \in DOMAIN d.level[g] /\ d.level[g][j] \in NodeT
              /\ ~d.level[g][j].orphan /\ d.level[g][j].mined = top.mined
  <2>1. g \in Heights /\ j \in DOMAIN c.level[g]
    BY <1>4
  <2>2. j \in DOMAIN d.level[g] /\ d.level[g][j] = E(g, j) /\ E(g, j) \in NodeT
    BY <1>6, <1>7, <1>11, <2>1
  <2>3. CASE g = h
    <3>1. j = n /\ ~In(g, j)
      BY <1>1, <1>3, <2>3 DEF In
    <3>2. E(g, j) = top
      BY <1>6, <2>1, <2>3, <3>1 DEF top
    <3>3. QED
      BY <2>1, <2>2, <3>2 DEF top
  <2>4. CASE g # h
    <3>1. In(g, j)
      BY <1>1, <2>4 DEF In
    <3>2. QED
      BY <1>6, <2>1, <2>2, <3>1
  <2>5. QED
    BY <2>3, <2>4
<1>15. QED
  BY <1>7, <1>11, <1>12, <1>13, <1>14 DEF Frees, found, top

\* A tip with fewer own blocks below is higher by the tolerance.
GivesUpLittle(c, e) ==
  IsAttacker(Me) /\ Tip(e).mined < Tip(c).mined => Tip(e).score >= Tip(c).score + Tolerance

\* The chain still fits, unless the program aborted, and has given up no own
\* block for too little.
Proceeds(c, e) == (e.aborted \/ Fits(e)) /\ GivesUpLittle(c, e)

\* A tip that stays gives up nothing.
LEMMA SameTip ==
  ASSUME NEW c, Fits(c), NEW e, Tip(e) = Tip(c)
  PROVE  GivesUpLittle(c, e)
<1>1. Tip(c).mined \in Nat
  BY FitsTells DEF NodeT
<1>2. QED
  BY <1>1 DEF GivesUpLittle

\* A branch that is linked contends with the main chain.
LEMMA JoinFits ==
  ASSUME IsAttacker(Me), NEW c, Fits(c), NEW h \in Heights, c.min <= h, h <= c.max,
         NEW n \in DOMAIN c.level[h], ~c.level[h][n].orphan, NEW e, e = JoinBranch(c, h, n, Me)
  PROVE  Proceeds(c, e) /\ Len(e.level[h]) = Len(c.level[h])
<1> DEFINE found == Descendants(c, h, n)
           d == UnorphanBlocks(c, h, n, found)
           branch == UNION {{g} \X found[g] : g \in DOMAIN found}
           best == CHOOSE p \in branch : \A q \in branch : Keeps(Me, At(d, p), At(d, q))
           node == [p \in branch |-> At(d, p)]
<1>1. /\ h \in Nat /\ c.max \in Nat /\ c.min \in Nat /\ h \in h .. c.max
      /\ Tip(c) \in NodeT /\ MaxHeight \in Nat /\ Heights = 0 .. MaxHeight
  BY FitsTells, Bounds
<1>2. e = MaybeSwitchChains(d, best, Me)
  BY DEF JoinBranch
<1>3. Frees(c, h, n, d)
  BY UnorphanFits
<1>4. DOMAIN found = h .. c.max /\ found[h] = {n}
  BY <1>1, DescendantsTell DEF Descend
<1> HIDE DEF d
<1>5. /\ Fits(d) /\ Tip(d) = Tip(c) /\ d.min = c.min /\ d.max = c.max /\ Len(d.level[h]) = Len(c.level[h])
      /\ \A g \in h .. c.max : \A j \in found[g] :
           /\ g \in Heights /\ j \in DOMAIN d.level[g] /\ d.level[g][j] \in NodeT
           /\ ~d.level[g][j].orphan /\ d.level[g][j].mined = c.level[h][n].mined
  BY <1>3 DEF Frees
<1> HIDE DEF found
<1>6. ASSUME NEW p \in branch
      PROVE  \E g \in h .. c.max : \E j \in found[g] : p = <<g, j>>
  BY <1>4
<1>7. <<h, n>> \in branch
  BY <1>1, <1>4
<1> HIDE DEF branch
<1>8. ASSUME NEW p \in branch
      PROVE  /\ At(d, p) \in NodeT /\ At(d, p).mined = c.level[h][n].mined /\ ~At(d, p).orphan
             /\ p[1] \in Heights /\ h <= p[1] /\ p[1] <= c.max /\ p[2] \in DOMAIN d.level[p[1]]
             /\ p = <<p[1], p[2]>> /\ At(d, p) = d.level[p[1]][p[2]] /\ At(d, p).score <= MaxHeight
  <2>1. PICK g \in h .. c.max : \E j \in found[g] : p = <<g, j>>
    BY <1>6
  <2>2. PICK j \in found[g] : p = <<g, j>>
    BY <2>1
  <2>3. /\ g \in Heights /\ j \in DOMAIN d.level[g] /\ d.level[g][j] \in NodeT
        /\ ~d.level[g][j].orphan /\ d.level[g][j].mined = c.level[h][n].mined
    BY <1>5
  <2>4. p[1] = g /\ p[2] = j /\ At(d, p) = d.level[g][j]
    BY <2>2 DEF At
  <2>5. d.level[g][j].score <= g
    BY <1>5, <2>3 DEF Fits
  <2>6. d.level[g][j].score <= MaxHeight
    <3> DEFINE x == d.level[g][j].score
    <3>1. x \in Nat /\ x <= g /\ g \in 0 .. MaxHeight
      BY <1>1, <2>3, <2>5 DEF NodeT
    <3> HIDE DEF x
    <3>2. x <= MaxHeight
      BY <1>1, <3>1
    <3>3. QED
      BY <3>2 DEF x
  <2>7. h <= g /\ g <= c.max
    BY <1>1
  <2>8. QED
    BY <2>2, <2>3, <2>4, <2>6, <2>7
<1>9. best \in branch
  <2>1. node \in [branch -> NodeT] /\ \A p \in branch : node[p] = At(d, p)
    BY <1>8
  <2> HIDE DEF node
  <2>2. /\ branch # {} /\ \A p, q \in branch : node[p].mined = node[q].mined
        /\ \A p \in branch : node[p].score <= MaxHeight
    BY <1>7, <1>8, <2>1
  <2>3. \E p \in branch : \A q \in branch : Keeps(Me, node[p], node[q])
    BY <2>1, <2>2, BestThere
  <2>4. \E p \in branch : \A q \in branch : Keeps(Me, At(d, p), At(d, q))
    BY <2>1, <2>3
  <2>5. QED
    BY <2>4
<1> HIDE DEF best
<1> DEFINE k == best[1]
           i == best[2]
           tip == d.level[k][i]
<1>10. /\ k \in Heights /\ h <= k /\ k <= d.max /\ i \in DOMAIN d.level[k] /\ best = <<k, i>>
       /\ tip \in NodeT /\ ~tip.orphan /\ At(d, best) = tip
  BY <1>5, <1>8, <1>9
<1>11. d.min <= k
  <2>1. k \in Nat
    BY <1>1, <1>10
  <2> DEFINE x == c.min
  <2>2. x \in Nat /\ x <= h /\ d.min = x
    BY <1>1, <1>5
  <2> HIDE DEF x, k
  <2>3. QED
    BY <1>1, <1>10, <2>1, <2>2
<1> HIDE DEF k, i, tip
<1>12. At(d, MainChain(d)) = Tip(c)
  BY <1>5 DEF At, MainChain, Tip
<1>13. CASE ~HasLevel(d, d.height)
  <2>1. e = [d EXCEPT !.aborted = TRUE]
    BY <1>2, <1>13 DEF MaybeSwitchChains, Abort
  <2>2. e.aborted /\ e.level = d.level /\ Tip(e) = Tip(c)
    BY <1>5, <2>1 DEF Fits, ChainT, Tip
  <2>3. QED
    BY <1>5, <2>2, SameTip DEF Proceeds
<1>14. CASE HasLevel(d, d.height) /\ Keeps(Me, Tip(c), tip)
  <2>1. e = d
    BY <1>2, <1>10, <1>12, <1>14 DEF MaybeSwitchChains
  <2>2. QED
    BY <1>5, <2>1, SameTip DEF Proceeds
<1>15. CASE HasLevel(d, d.height) /\ ~Keeps(Me, Tip(c), tip)
  <2>1. e = SwitchChains(d, <<k, i>>, Me)
    BY <1>2, <1>10, <1>12, <1>15 DEF MaybeSwitchChains
  <2>2. /\ e.level = d.level
        /\ \/ e.aborted /\ Tip(e) = Tip(d)
           \/ Fits(e) /\ Tip(e) = tip
    BY <1>5, <1>10, <1>11, <2>1, SwitchFits DEF tip
  <2>3. CASE e.aborted /\ Tip(e) = Tip(d)
    BY <1>5, <2>2, <2>3, SameTip DEF Proceeds
  <2>4. CASE Fits(e) /\ Tip(e) = tip
    <3>1. /\ tip.mined \in Nat /\ tip.score \in Nat
          /\ Tip(c).mined \in Nat /\ Tip(c).score \in Nat
      BY <1>1, <1>10 DEF NodeT
    <3>2. tip.mined < Tip(c).mined => Tip(c).mined > tip.mined
      BY <3>1
    <3>3. GivesUpLittle(c, e)
      BY <1>15, <2>4, <3>1, <3>2, GivesUp DEF GivesUpLittle
    <3>4. QED
      BY <1>5, <2>2, <2>4, <3>3 DEF Proceeds
  <2>5. QED
    BY <2>2, <2>3, <2>4
<1>16. QED
  BY <1>13, <1>14, <1>15

\* The program ends when a level is not there.
LEMMA AddAborts ==
  ASSUME NEW c, NEW b, NEW t, NEW h, h = b.height, NEW r, r = MakeRoom(c, h),
         ~(HasLevel(r, h) /\ HasLevel(r, h - 1))
  PROVE  AddBlock(c, b, t, Me) = Abort(r)
BY Zenon DEF AddBlock

\* addBlock, with room made and the parent's index found.
AddIn(r, h, i, orphan) ==
  LET linked == i > 0 /\ ~r.level[h - 1][i].orphan
      parent == r.level[h - 1][i]
      node == IF linked
              THEN [orphan EXCEPT !.orphan = FALSE, !.parent = i,
                                  !.score = parent.score + 1, !.mined = parent.mined]
              ELSE orphan
      added == [r EXCEPT !.level[h] = Append(@, node)]
  IN IF linked THEN JoinBranch(added, h, Len(added.level[h]), Me) ELSE added

\* Otherwise the new node is linked or not.
LEMMA AddGoes ==
  ASSUME NEW c, NEW b, NEW t,
         HasLevel(MakeRoom(c, b.height), b.height), HasLevel(MakeRoom(c, b.height), b.height - 1)
  PROVE  AddBlock(c, b, t, Me) = AddIn(MakeRoom(c, b.height), b.height,
                                       FindIn(MakeRoom(c, b.height).level[b.height - 1], b.prev),
                                       ChainNodeOf(b, t))
BY SMTT(60) DEF AddBlock, AddIn, FindIn

\* A block is added, linked or not.
LEMMA AddFits ==
  ASSUME IsAttacker(Me), NEW c, Fits(c), NEW b, b.height \in 1 .. MaxHeight, b.height <= c.height + Depth,
         b.miner \in Miners, b.prev \in Nat, NEW t \in Nat, NEW e, e = AddBlock(c, b, t, Me)
  PROVE  /\ Proceeds(c, e)
         /\ ~e.aborted => Len(e.level[b.height]) \in DOMAIN e.level[b.height]
<1> DEFINE h == b.height
           r == MakeRoom(c, h)
           i == FindIn(r.level[h - 1], b.prev)
           linked == i > 0 /\ ~r.level[h - 1][i].orphan
           parent == r.level[h - 1][i]
           orphan == ChainNodeOf(b, t)
           child == [ChainNodeOf(b, t) EXCEPT !.orphan = FALSE, !.parent = i,
                                              !.score = parent.score + 1, !.mined = parent.mined]
           node == IF linked THEN child ELSE orphan
           added == [r EXCEPT !.level[h] = Append(@, node)]
           n == Len(r.level[h]) + 1
<1>1. h \in Heights /\ h - 1 \in Heights /\ h \in Nat /\ h \in 1 .. MaxHeight /\ h <= c.height + Depth
      /\ b.height = h
  BY Bounds
<1> HIDE DEF h
<1>2. /\ Fits(r) /\ Tip(r) = Tip(c) /\ r.height = c.height /\ r.index = c.index
      /\ r.aborted = c.aborted /\ h <= r.max
  BY <1>1, RoomFits
<1>3. e = IF ~HasLevel(r, h) \/ ~HasLevel(r, h - 1) THEN Abort(r)
          ELSE IF linked THEN JoinBranch(added, h, Len(added.level[h]), Me) ELSE added
  <2>1. node = IF linked
               THEN [ChainNodeOf(b, t) EXCEPT !.orphan = FALSE, !.parent = i,
                                              !.score = parent.score + 1, !.mined = parent.mined]
               ELSE ChainNodeOf(b, t)
    BY DEF node
  <2> HIDE DEF node
  <2>2. CASE ~HasLevel(r, h) \/ ~HasLevel(r, h - 1)
    BY <1>1, <2>2, AddAborts
  <2>3. CASE HasLevel(r, h) /\ HasLevel(r, h - 1)
    <3>1. HasLevel(r, h) /\ HasLevel(r, h - 1) /\ b.height = h
      BY <1>1, <2>3
    <3>2. e = IF linked THEN JoinBranch(added, h, Len(added.level[h]), Me) ELSE added
      <4>1. e = AddIn(r, h, i, orphan)
        BY <3>1, AddGoes DEF r, i
      <4>2. QED
        BY <2>1, <4>1 DEF AddIn
    <3>3. QED
      BY <3>1, <3>2
  <2>4. QED
    BY <2>2, <2>3
<1> HIDE DEF r
<1>4. /\ r \in ChainT /\ r.level \in [Heights -> Seq(NodeT)] /\ r.min \in Nat
      /\ r.level[h] \in Seq(NodeT) /\ r.level[h - 1] \in Seq(NodeT)
      /\ \A j \in DOMAIN r.level[h - 1] : r.level[h - 1][j] \in NodeT /\ r.level[h - 1][j].score <= h - 1
  BY <1>1, <1>2, FitsTells DEF Fits
<1>5. i = 0 \/ i \in DOMAIN r.level[h - 1]
  BY <1>4, FindTells
<1> HIDE DEF i
<1>6. orphan \in NodeT /\ orphan.score <= h /\ orphan.orphan
  BY <1>1 DEF ChainNodeOf, NodeT
<1>7. ASSUME linked PROVE child \in NodeT /\ child.score <= h /\ ~child.orphan
  <2>1. i \in DOMAIN r.level[h - 1] /\ i \in Nat
    <3>1. i \in DOMAIN r.level[h - 1]
      BY <1>5, <1>7
    <3>2. QED
      BY <1>4, <3>1, LenProperties
  <2>2. parent \in NodeT /\ parent.score <= h - 1
    BY <1>4, <2>1
  <2> HIDE DEF parent, linked
  <2> DEFINE s == parent.score + 1
  <2>3. s \in Nat /\ s <= h /\ parent.mined \in Nat
    BY <1>1, <2>2 DEF NodeT
  <2> HIDE DEF s
  <2>4. child = [orphan EXCEPT !.orphan = FALSE, !.parent = i, !.score = s, !.mined = parent.mined]
    BY DEF s
  <2> HIDE DEF orphan, child
  <2>5. child \in NodeT /\ child.score = s /\ child.orphan = FALSE
    BY <1>6, <2>1, <2>3, <2>4 DEF NodeT
  <2>6. QED
    BY <2>3, <2>5
<1>8. node \in NodeT /\ node.score <= h /\ (linked => ~node.orphan)
  <2> HIDE DEF child, orphan, linked
  <2>1. QED
    BY <1>6, <1>7
<1> HIDE DEF node, linked
<1>9. Adds(r, h, node, n, added)
  BY <1>1, <1>4, <1>8, AppendedShape
<1> HIDE DEF added, n
<1>10. Fits(added) /\ Tip(added) = Tip(r)
  BY <1>1, <1>2, <1>8, <1>9, AppendFits
<1>11. /\ Len(added.level[h]) = n /\ n \in DOMAIN added.level[h] /\ added.level[h][n] = node
       /\ added.min = r.min /\ added.max = r.max
  BY <1>9 DEF Adds
<1>12. CASE ~HasLevel(r, h) \/ ~HasLevel(r, h - 1)
  <2>1. e = [r EXCEPT !.aborted = TRUE]
    BY <1>3, <1>12 DEF Abort
  <2>2. e.aborted /\ Tip(e) = Tip(c)
    BY <1>2, <1>4, <2>1 DEF ChainT, Tip
  <2>3. QED
    BY <2>2, SameTip DEF Proceeds
<1>13. CASE HasLevel(r, h) /\ linked
  <2>1. CASE HasLevel(r, h - 1)
    <3>1. e = JoinBranch(added, h, n, Me)
      BY <1>3, <1>11, <1>13, <2>1
    <3>2. added.min <= h /\ h <= added.max
      BY <1>2, <1>11, <1>13 DEF HasLevel
    <3>3. Proceeds(added, e) /\ Len(e.level[h]) = n
      BY <1>1, <1>8, <1>10, <1>11, <1>13, <3>1, <3>2, JoinFits
    <3>4. Proceeds(c, e)
      BY <1>2, <1>10, <3>3 DEF Proceeds, GivesUpLittle
    <3>5. ASSUME ~e.aborted PROVE n \in DOMAIN e.level[h]
      <4>1. e.level[h] \in Seq(NodeT)
        BY <1>1, <3>3, <3>5, FitsTells DEF Proceeds
      <4>2. n \in Nat /\ 1 <= n
        <5>1. Len(r.level[h]) \in Nat
          BY <1>4, LenProperties
        <5>2. QED
          BY <5>1 DEF n
      <4>3. QED
        BY <3>3, <4>1, <4>2, LenProperties
    <3>6. QED
      BY <3>3, <3>4, <3>5 DEF h
  <2>2. CASE ~HasLevel(r, h - 1)
    BY <1>12, <2>2
  <2>3. QED
    BY <2>1, <2>2
<1>14. CASE HasLevel(r, h) /\ HasLevel(r, h - 1) /\ ~linked
  <2>1. e = added
    BY <1>3, <1>14
  <2>2. GivesUpLittle(c, e)
    BY <1>2, <1>10, <2>1, SameTip
  <2>3. QED
    BY <1>10, <1>11, <2>1, <2>2 DEF Proceeds, h
<1>15. QED
  BY <1>12, <1>13, <1>14

\* The count of the new block itself only grows.
LEMMA BumpFits ==
  ASSUME NEW c, Fits(c), NEW d, Fits(d), GivesUpLittle(c, d), NEW h \in Heights, NEW n \in DOMAIN d.level[h],
         NEW e, e = [d EXCEPT !.level[h][n].mined = @ + 1]
  PROVE  Proceeds(c, e)
<1>1. /\ d \in ChainT /\ d.height \in Heights /\ d.index \in DOMAIN d.level[d.height]
      /\ Tip(d) \in NodeT /\ ~Tip(d).orphan /\ Tip(c) \in NodeT
  BY FitsTells DEF Fits
<1>2. Bumps(d, h, n, e)
  BY <1>1, BumpShape
<1>3. /\ e \in ChainT /\ e.min = d.min /\ e.max = d.max /\ e.height = d.height /\ e.index = d.index
      /\ \A g \in Heights : DOMAIN e.level[g] = DOMAIN d.level[g]
      /\ \A g \in Heights : \A j \in DOMAIN d.level[g] :
           /\ ~(g = h /\ j = n) => e.level[g][j] = d.level[g][j]
           /\ e.level[g][j].orphan = d.level[g][j].orphan
           /\ e.level[g][j].score = d.level[g][j].score
      /\ e.level[h][n].mined = d.level[h][n].mined + 1
  BY <1>2 DEF Bumps
<1>4. /\ Main(e) /\ Tip(e).score = Tip(d).score
      /\ Tip(e).mined = Tip(d).mined \/ Tip(e).mined = Tip(d).mined + 1
  BY <1>1, <1>3 DEF Main, Tip
<1>5. Fits(e)
  <2>1. \A g \in Heights : \A j \in DOMAIN e.level[g] : e.level[g][j].score <= g
    BY <1>3 DEF Fits
  <2>2. QED
    BY <1>3, <1>4, <2>1 DEF Fits
<1>6. GivesUpLittle(c, e)
  <2>1. Tip(d).mined \in Nat /\ Tip(c).mined \in Nat
    BY <1>1 DEF NodeT
  <2>2. Tip(e).mined < Tip(c).mined => Tip(d).mined < Tip(c).mined
    BY <1>4, <2>1
  <2>3. QED
    BY <1>4, <2>2 DEF GivesUpLittle
<1>7. QED
  BY <1>5, <1>6 DEF Proceeds

\* The attacker goes on until the program ends.
Goes == now \in Nat /\ (chain.aborted \/ Fits(chain))

\* The genesis block alone.
LEMMA InitGoes == Init => Goes
<1> SUFFICES ASSUME Init PROVE Goes
  OBVIOUS
<1> DEFINE L == [h \in Heights |-> IF h = 0 THEN <<GenesisBlock>> ELSE <<>>]
           stats == [total |-> 0, own |-> 0, attacker |-> 0]
<1>1. /\ now \in Nat
      /\ chain = [level |-> L, index |-> 1, height |-> 0, max |-> 0, min |-> 0,
                  stats |-> stats, aborted |-> FALSE]
  BY DEF Init, InitBlockchain
<1>2. GenesisBlock \in NodeT /\ ~GenesisBlock.orphan /\ GenesisBlock.score = 0
  BY Bounds DEF GenesisBlock, NodeT
<1>3. /\ L[0] = <<GenesisBlock>> /\ \A h \in Heights : h # 0 => L[h] = <<>>
      /\ L \in [Heights -> Seq(NodeT)]
  BY <1>2, Bounds
<1> HIDE DEF L
<1>4. stats \in [Kinds -> Int]
  BY DEF Kinds
<1> HIDE DEF stats
<1>5. chain \in ChainT /\ chain.level = L /\ chain.height = 0 /\ chain.index = 1 /\ chain.min = 0 /\ chain.max = 0
  BY <1>1, <1>3, <1>4, Bounds DEF ChainT
<1>6. DOMAIN <<GenesisBlock>> = {1} /\ <<GenesisBlock>>[1] = GenesisBlock
  OBVIOUS
<1>7. Main(chain)
  BY <1>2, <1>3, <1>5, <1>6 DEF Main, Tip
<1>8. \A g \in Heights : \A i \in DOMAIN chain.level[g] : chain.level[g][i].score <= g
  <2>1. \A i \in DOMAIN chain.level[0] : chain.level[0][i].score <= 0
    BY <1>2, <1>3, <1>5, <1>6
  <2>2. \A g \in Heights : g # 0 => DOMAIN chain.level[g] = {}
    BY <1>3, <1>5
  <2>3. QED
    BY <2>1, <2>2
<1>9. Fits(chain)
  BY <1>5, <1>7, <1>8, Bounds DEF Fits
<1>10. QED
  BY <1>1, <1>9 DEF Goes

\* No step gives up too much.
LEMMA GoesOn ==
  ASSUME Goes, IsAttacker(Me), Next
  PROVE  Goes' /\ GivesUpLittle(chain, chain')
<1>1. CASE Mine
  <2> DEFINE b == NextBlock(chain, Me)
             d == AddBlock(chain, b, now', Me)
  <2>1. /\ ~chain.aborted /\ chain.height < MaxHeight /\ Passes
        /\ chain' = GenerateBlock(chain, now', Me)
    BY <1>1 DEF Mine, MayAdd
  <2>2. Fits(chain) /\ now' \in Nat
    BY <2>1, NowIsNumber DEF Goes
  <2>3. /\ chain.height \in Nat /\ Tip(chain) \in NodeT
    BY <2>2, FitsTells
  <2>4. /\ b.miner = Me /\ b.height = chain.height + 1 /\ b.prev = Tip(chain).miner
    BY DEF NextBlock, At, MainChain, Tip
  <2>5. /\ b.miner \in Miners /\ b.height \in 1 .. MaxHeight /\ b.height <= chain.height + Depth
        /\ b.prev \in Nat
    <3>1. Tip(chain).miner \in Nat
      BY <2>3, Bounds DEF NodeT
    <3> DEFINE x == chain.height
    <3>2. x \in Nat /\ x < MaxHeight /\ b.height = x + 1
      BY <2>1, <2>3, <2>4
    <3> HIDE DEF x, b
    <3>3. b.height \in 1 .. MaxHeight /\ b.height <= x + Depth
      BY <3>2, Bounds
    <3>4. QED
      BY <2>4, <3>1, <3>3, Bounds DEF x
  <2>6. chain' = IF d.aborted THEN d
                 ELSE [d EXCEPT !.level[b.height][Len(d.level[b.height])].mined = @ + 1]
    BY <2>1 DEF GenerateBlock
  <2> HIDE DEF b
  <2>7. /\ Proceeds(chain, d)
        /\ ~d.aborted => Len(d.level[b.height]) \in DOMAIN d.level[b.height]
    BY <2>2, <2>5, AddFits
  <2> HIDE DEF d
  <2>8. CASE d.aborted
    BY <2>2, <2>6, <2>7, <2>8 DEF Goes, Proceeds
  <2>9. CASE ~d.aborted
    <3>1. b.height \in Heights
      BY <2>5, Bounds
    <3>2. Proceeds(chain, chain')
      BY <2>2, <2>6, <2>7, <2>9, <3>1, BumpFits DEF Proceeds
    <3>3. QED
      BY <2>2, <3>2 DEF Goes, Proceeds
  <2>10. QED
    BY <2>8, <2>9
<1>2. ASSUME NEW b \in Network, Receive(b) PROVE Goes' /\ GivesUpLittle(chain, chain')
  <2>1. /\ ~chain.aborted /\ Passes /\ b.height <= chain.height + Depth
        /\ chain' = AddBlock(chain, b, now', Me)
    BY <1>2 DEF Receive, MayAdd, WithinDepth
  <2>2. Fits(chain) /\ now' \in Nat
    BY <2>1, NowIsNumber DEF Goes
  <2>3. b.miner \in Miners /\ b.height \in 1 .. MaxHeight /\ b.prev \in Nat
    BY BlockTreeAssumption, Bounds DEF Block
  <2>4. Proceeds(chain, chain')
    BY <2>1, <2>2, <2>3, AddFits
  <2>5. QED
    BY <2>2, <2>4 DEF Goes, Proceeds
<1>3. ASSUME NEW m \in Miners, NEW h \in 1 .. MaxHeight, Answer(m, h)
      PROVE  Goes' /\ GivesUpLittle(chain, chain')
  <2>1. /\ ~chain.aborted /\ now' = now
        /\ chain' = chain \/ chain' = [chain EXCEPT !.aborted = TRUE]
    BY <1>3 DEF Answer, Abort
  <2>2. Fits(chain) /\ now' \in Nat /\ chain \in ChainT
    BY <2>1 DEF Goes, Fits
  <2>3. Tip(chain') = Tip(chain) /\ (chain' = chain \/ chain'.aborted)
    BY <2>1, <2>2 DEF ChainT, Tip
  <2>4. QED
    BY <2>2, <2>3, SameTip DEF Goes
<1>4. QED
  BY <1>1, <1>2, <1>3 DEF Next

\* An attacker gives up blocks of its own only for a chain that is longer by
\* the tolerance at least, also when it mines at a height again
\* (chainNodeMax, switchChains, generateBlock).
THEOREM OwnKept == ASSUME Me \in Attackers PROVE Spec => OwnBlocksAreKept
<1> DEFINE Keep == LET was == At(chain, MainChain(chain))
                       is == At(chain', MainChain(chain'))
                   IN is.mined < was.mined => is.score >= was.score + Tolerance
<1>1. IsAttacker(Me)
  BY DEF IsAttacker
<1>2. ASSUME Goes, [Next]_vars PROVE Goes' /\ [Keep]_vars
  <2>1. CASE Next
    <3>1. Goes' /\ GivesUpLittle(chain, chain')
      BY <1>1, <1>2, <2>1, GoesOn
    <3>2. QED
      BY <1>1, <3>1 DEF GivesUpLittle, At, MainChain, Tip
  <2>2. CASE UNCHANGED vars
    BY <1>2, <2>2 DEF Goes, vars
  <2>3. QED
    BY <1>2, <2>1, <2>2
<1>3. QED
  BY <1>2, InitGoes, PTL DEF Spec, OwnBlocksAreKept
=============================================================================
