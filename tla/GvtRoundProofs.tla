--------------------------- MODULE GvtRoundProofs ---------------------------
(***************************************************************************)
(* Proofs about the reduction of gvt/gvt.c, for any number of threads.     *)
(***************************************************************************)
EXTENDS GvtRound, FiniteSetTheorems, TLAPS

\* What the size of a set of threads tells.
LEMMA SizeTells ==
  ASSUME NEW S \in SUBSET Threads
  PROVE  /\ IsFiniteSet(S)
         /\ Cardinality(S) \in 0 .. N
         /\ N \in Nat \ {0}
         /\ Cardinality(S) = 0 <=> S = {}
         /\ Cardinality(S) = N <=> S = Threads
         /\ Cardinality(S) = 1 <=> \E x : S = {x}
<1>1. IsFiniteSet(S) /\ Cardinality(S) <= N /\ (Cardinality(S) = N <=> S = Threads)
  BY FS_Subset, GvtAssumption DEF N
<1>2. Cardinality(S) \in Nat /\ N \in Nat /\ N # 0
  BY <1>1, FS_CardinalityType, FS_EmptySet, GvtAssumption DEF N
<1>3. Cardinality(S) \in 0 .. N
  BY <1>1, <1>2
<1>4. Cardinality(S) = 0 <=> S = {}
  BY <1>1, FS_EmptySet
<1>5. Cardinality(S) = 1 <=> \E x : S = {x}
  BY <1>1, FS_Singleton
<1>6. QED
  BY <1>1, <1>2, <1>3, <1>4, <1>5

\* The size of a set after one thread has come or gone.
LEMMA OneMoves ==
  ASSUME NEW S \in SUBSET Threads, NEW T \in SUBSET Threads, NEW th \in Threads,
         \A x \in Threads \ {th} : x \in S <=> x \in T
  PROVE  Cardinality(T) = Cardinality(S) + (IF th \in T THEN 1 ELSE 0)
                                         - (IF th \in S THEN 1 ELSE 0)
<1>1. IsFiniteSet(S \ {th}) /\ T \ {th} = S \ {th}
  BY SizeTells, FS_RemoveElement
<1>2. Cardinality(S) = Cardinality(S \ {th}) + IF th \in S THEN 1 ELSE 0
  BY <1>1, SizeTells, FS_RemoveElement
<1>3. Cardinality(T) = Cardinality(T \ {th}) + IF th \in T THEN 1 ELSE 0
  BY <1>1, SizeTells, FS_RemoveElement
<1>4. Cardinality(S \ {th}) \in Nat /\ Cardinality(T \ {th}) = Cardinality(S \ {th})
  BY <1>1, FS_CardinalityType
<1>5. QED
  BY <1>2, <1>3, <1>4

\* The minimum of a set of naturals is there, and is what it should be.
LEMMA MinIsLeast ==
  ASSUME NEW S \in SUBSET Nat, S # {}
  PROVE  Min(S) \in S /\ \A y \in S : Min(S) <= y
<1>1. PICK m \in S : \A y \in S : <<y, m>> \notin OpToRel(<, Nat)
  BY NatLessThanWellFounded, WFMin
<1>2. \A y \in S : ~ (y < m)
  BY <1>1 DEF OpToRel
<1>3. \A y \in S : m <= y
  BY <1>2
<1>4. QED
  BY <1>3 DEF Min

\* To be beside each other is symmetric.
LEMMA BesideIsSymmetric ==
  ASSUME NEW p \in 0 .. 16, NEW q \in 0 .. 16
  PROVE  p \in Beside(q) <=> q \in Beside(p)
BY DEF Beside

-----------------------------------------------------------------------------
\* one thread goes from p to q, the others stay where they are
Moves(th, p, q) ==
  /\ Pos(th) = p
  /\ Pos(th)' = q
  /\ \A x \in Threads \ {th} : Pos(x)' = Pos(x)

\* How many threads are at P after one of them has moved.
LEMMA CountAfterMove ==
  ASSUME NEW th \in Threads, NEW p, NEW q, Moves(th, p, q), NEW P
  PROVE  Count(P)' = Count(P) + (IF q \in P THEN 1 ELSE 0) - (IF p \in P THEN 1 ELSE 0)
<1>1. ThreadsAt(P) \in SUBSET Threads /\ ThreadsAt(P)' \in SUBSET Threads
  BY DEF ThreadsAt
<1>2. \A x \in Threads \ {th} : x \in ThreadsAt(P) <=> x \in ThreadsAt(P)'
  BY DEF ThreadsAt, Moves
<1>3. (th \in ThreadsAt(P) <=> p \in P) /\ (th \in ThreadsAt(P)' <=> q \in P)
  BY DEF ThreadsAt, Moves
<1>4. Cardinality(ThreadsAt(P)') =
        Cardinality(ThreadsAt(P)) + (IF th \in ThreadsAt(P)' THEN 1 ELSE 0)
                                  - (IF th \in ThreadsAt(P) THEN 1 ELSE 0)
  BY <1>1, <1>2, OneMoves
<1>5. QED
  BY <1>3, <1>4 DEF Count

\* A thread may move to where it is beside all the others.
LEMMA MoveInStep ==
  ASSUME InStep, NEW th \in Threads, NEW p, NEW q \in 0 .. 16, Moves(th, p, q),
         \A x \in Threads \ {th} : Pos(x) \in Beside(q)
  PROVE  InStep'
BY BesideIsSymmetric DEF InStep, Moves

In(p, P) == IF p \in P THEN 1 ELSE 0

(***************************************************************************)
(* A step of the reduction, seen from the positions: the thread, which is  *)
(* at p, goes on to q when the counters let it, and they follow.           *)
(***************************************************************************)
Onward(p, q) ==
  \/ p = 0 /\ q = 1 /\ c_b # 0 /\ gvt_nodes' = gvt_nodes
  \/ p = 0 /\ q = 1 /\ gvt_nodes = 0 /\ gvt_nodes' = 1
  \/ p \in {1, 8} /\ q = p + 1 /\ c_a = 0
  \/ p \in {2, 9} /\ q = p + 1 /\ c_b = N
  \/ p \in {3, 10} /\ q = p + 1 /\ c_a = N
  \/ p \in {4, 11} /\ q = p + 1 /\ c_b = 0
  \/ p = 5 /\ q = 6 /\ c_a = 0 /\ c_c = N - 1
  \/ p = 5 /\ q = 7 /\ c_a = 0 /\ c_c # N - 1
  \/ p = 6 /\ q = 7
  \/ p = 7 /\ q = 8 /\ total_msg_received = 0
  \/ p = 12 /\ q = 13 /\ c_d = 0
  \/ p = 12 /\ q = 15 /\ c_d # 0
  \/ p = 13 /\ q = 14
  \/ p = 14 /\ q = 16 /\ c_d = N
  \/ p = 15 /\ q = 16 /\ c_c = 0
  \/ p = 16 /\ q = 0

CountersFollow(p, q) ==
  /\ c_a' = c_a + In(q, {3, 4, 10, 11}) - In(p, {3, 4, 10, 11})
  /\ c_b' = c_b + In(q, {2, 3, 9, 10}) - In(p, {2, 3, 9, 10})
  /\ c_c' = c_c + In(p, {5}) - IF p = 14 THEN N ELSE 0
  /\ c_d' = c_d + In(q, 13 .. 16) - In(p, 13 .. 16)
  /\ total_msg_received' = total_msg_received + In(p, {5}) - IF p = 6 THEN N ELSE 0
  /\ p # 0 => gvt_nodes' = IF p = 16 /\ c_d = 1 THEN gvt_nodes - 1 ELSE gvt_nodes

DataFollow(th, p, q) ==
  /\ gvt_phase' = [gvt_phase EXCEPT ![th] = IF p = 4 THEN ~ @ ELSE @]
  /\ gvt_accumulator' =
       IF p = 0 THEN [gvt_accumulator EXCEPT ![th] = Inf] ELSE gvt_accumulator
  /\ reducing_p' =
       IF p \in {3, 10} THEN [reducing_p EXCEPT ![th] = gvt_accumulator[th]]
       ELSE IF p = 13 THEN [reducing_p EXCEPT ![Master] = NodeReduce]
       ELSE reducing_p
  /\ returned' = IF q = 16 THEN [returned EXCEPT ![th] = reducing_p[Master]]
                 ELSE returned

Goes(th, p, q) ==
  /\ p \in 0 .. 16
  /\ q \in 0 .. 16
  /\ Moves(th, p, q)
  /\ Onward(p, q)
  /\ CountersFollow(p, q)
  /\ DataFollow(th, p, q)

\* Every case of the two switches is such a move.
LEMMA StepGoes ==
  ASSUME RoundIInv, NEW th \in Threads, PhaseRun(th)
  PROVE  \E p, q \in 0 .. 16 : Goes(th, p, q)
<1> DEFINE p == Pos(th)
<1> USE DEF Goes, Moves, Onward, CountersFollow, DataFollow, In
<1>t. GvtTypeOK /\ p \in 0 .. 16 /\ N \in Nat
  BY SizeTells DEF RoundIInv, InStep
<1>1. ASSUME Notice(th) PROVE Goes(th, 0, 1)
  BY <1>1, <1>t DEF Notice, StartProcessing, Reducing, InCall, counters, GvtTypeOK, Pos
<1>2. ASSUME StartGvt(th) PROVE Goes(th, 0, 1)
  BY <1>2, <1>t DEF StartGvt, StartProcessing, Reducing, InCall, counters, GvtTypeOK, Pos
<1>3. ASSUME PhaseA(th) PROVE p \in {1, 8} /\ Goes(th, p, p + 1)
  <2>1. p \in {1, 8} /\ Moves(th, p, p + 1)
    BY <1>3, <1>t DEF PhaseA, Reducing, GvtTypeOK, Pos
  <2>2. QED
    BY <1>3, <1>t, <2>1 DEF PhaseA, GvtTypeOK
<1>4. ASSUME PhaseB(th) PROVE p \in {2, 9} /\ Goes(th, p, p + 1)
  BY <1>4, <1>t DEF PhaseB, StartProcessing, Reducing, InCall, counters, GvtTypeOK, Pos
<1>5. ASSUME PhaseC(th) PROVE p \in {3, 10} /\ Goes(th, p, p + 1)
  BY <1>5, <1>t DEF PhaseC, StartProcessing, Reducing, InCall, counters, GvtTypeOK, Pos
<1>6. ASSUME PhaseD(th) PROVE p \in {4, 11} /\ Goes(th, p, p + 1)
  BY <1>6, <1>t DEF PhaseD, StartProcessing, Reducing, InCall, counters, GvtTypeOK, Pos
<1>7. ASSUME SentReduce(th) PROVE Goes(th, 5, IF c_c = N - 1 THEN 6 ELSE 7)
  BY <1>7, <1>t DEF SentReduce, StartProcessing, Reducing, InCall, counters, GvtTypeOK, Pos
<1>8. ASSUME SentReduceWait(th) PROVE Goes(th, 6, 7)
  BY <1>8, <1>t DEF SentReduceWait, StartProcessing, Reducing, InCall, counters, GvtTypeOK, Pos
<1>9. ASSUME SentWait(th) PROVE Goes(th, 7, 8)
  BY <1>9, <1>t DEF SentWait, StartProcessing, Reducing, InCall, counters, GvtTypeOK, Pos
<1>10. ASSUME MinReduce(th) PROVE Goes(th, 12, IF c_d = 0 THEN 13 ELSE 15)
  BY <1>10, <1>t DEF MinReduce, StartProcessing, Reducing, InCall, counters, GvtTypeOK, Pos
<1>11. ASSUME MinCompute(th) PROVE Goes(th, 13, 14)
  BY <1>11, <1>t DEF MinCompute, StartProcessing, Reducing, InCall, counters, GvtTypeOK, Pos
<1>12. ASSUME MinReduceWait(th) PROVE Goes(th, 14, 16)
  BY <1>12, <1>t DEF MinReduceWait, StartProcessing, Reducing, InCall, counters, GvtTypeOK, Pos
<1>13. ASSUME MinWait(th) PROVE Goes(th, 15, 16)
  BY <1>13, <1>t DEF MinWait, StartProcessing, Reducing, InCall, counters, GvtTypeOK, Pos
<1>14. ASSUME Done(th) PROVE Goes(th, 16, 0)
  BY <1>14, <1>t DEF Done, StartProcessing, Reducing, InCall, counters, GvtTypeOK, Pos
<1>15. QED
  BY <1>1, <1>2, <1>3, <1>4, <1>5, <1>6, <1>7, <1>8, <1>9, <1>10, <1>11, <1>12, <1>13, <1>14, <1>t DEF PhaseRun

-----------------------------------------------------------------------------
\* What a thread that reads a counter knows of the others.
LEMMA CountersTell ==
  ASSUME InStep, CountersExact, NEW x \in Threads
  PROVE  /\ c_a = 0 => Pos(x) \notin {3, 4, 10, 11}
         /\ c_a = N => Pos(x) \in {3, 4, 10, 11}
         /\ c_b = 0 => Pos(x) \notin {2, 3, 9, 10}
         /\ c_b = N => Pos(x) \in {2, 3, 9, 10}
         /\ c_d = 0 => Pos(x) \notin 13 .. 16
         /\ c_d = N => Pos(x) \in 13 .. 16
         /\ gvt_nodes = 0 => Pos(x) = 0
<1>1. \A P : /\ Count(P) = 0 => Pos(x) \notin P
             /\ Count(P) = N => Pos(x) \in P
  <2> SUFFICES ASSUME NEW P PROVE /\ Count(P) = 0 => Pos(x) \notin P
                                  /\ Count(P) = N => Pos(x) \in P
    OBVIOUS
  <2>1. ThreadsAt(P) \in SUBSET Threads
    BY DEF ThreadsAt
  <2>2. QED
    BY <2>1, SizeTells DEF Count, ThreadsAt
<1>2. gvt_nodes = 0 => Pos(x) = 0
  BY DEF CountersExact, ThreadsAt
<1>3. QED
  BY <1>1, <1>2 DEF CountersExact

\* Reading c_b in the idle phase, one learns of a thread in phase B; reading
\* the counters after phase D, where the others are at least.
LEMMA CountersTellSome ==
  ASSUME InStep, CountersExact, NEW th \in Threads
  PROVE  /\ Pos(th) = 0 /\ c_b # 0 => \E x \in Threads : Pos(x) = 2
         /\ Pos(th) = 5 /\ c_c = N - 1 => \A x \in Threads \ {th} : Pos(x) \in 6 .. 15
         /\ Pos(th) = 7 /\ total_msg_received = 0 =>
              \A x \in Threads : Pos(x) \notin {5, 6}
         /\ Pos(th) = 12 /\ c_d # 0 => \E x \in Threads : Pos(x) \in 13 .. 16
         /\ Pos(th) = 15 /\ c_c = 0 => IsReset
         /\ Pos(th) = 16 /\ c_d = 1 => \A x \in Threads \ {th} : Pos(x) \notin 13 .. 16
<1>1. \A P : ThreadsAt(P) \in SUBSET Threads
  BY DEF ThreadsAt
<1>2. \A P : Count(P) = 0 <=> ThreadsAt(P) = {}
  BY <1>1, SizeTells DEF Count
<1>3. ASSUME Pos(th) = 0, c_b # 0 PROVE \E x \in Threads : Pos(x) = 2
  <2>1. PICK x \in Threads : Pos(x) \in {2, 3, 9, 10}
    BY <1>2, <1>3 DEF CountersExact, ThreadsAt
  <2>2. Pos(x) \in Beside(Pos(th)) /\ Pos(x) \in 0 .. 16
    BY <2>1, <1>3 DEF InStep
  <2>3. QED
    BY <1>3, <2>1, <2>2 DEF Beside
<1>4. ASSUME Pos(th) = 5, c_c = N - 1 PROVE \A x \in Threads \ {th} : Pos(x) \in 6 .. 15
  <2>1. ~ IsReset
    BY <1>4 DEF IsReset, ThreadsAt
  <2>2. Cardinality(ThreadsAt(6 .. 15)) = N - 1 /\ th \notin ThreadsAt(6 .. 15)
    BY <1>4, <2>1 DEF CountersExact, ThreadsAt, Count
  <2>3. Cardinality(ThreadsAt(6 .. 15) \cup {th}) = N
    BY <1>1, <2>2, SizeTells, FS_AddElement
  <2>4. ThreadsAt(6 .. 15) \cup {th} = Threads
    BY <1>1, <2>3, SizeTells
  <2>5. QED
    BY <2>4 DEF ThreadsAt
<1>5. ASSUME Pos(th) = 7, total_msg_received = 0
      PROVE  \A x \in Threads : Pos(x) \notin {5, 6}
  <2>1. th \in ThreadsAt({6, 7})
    BY <1>5 DEF ThreadsAt
  <2>2. Count({6, 7}) # 0
    BY <1>2, <2>1
  <2>3. QED
    BY <1>5, <2>2 DEF CountersExact, ThreadsAt
<1>6. ASSUME Pos(th) = 12, c_d # 0 PROVE \E x \in Threads : Pos(x) \in 13 .. 16
  BY <1>2, <1>6 DEF CountersExact, ThreadsAt
<1>7. ASSUME Pos(th) = 15, c_c = 0 PROVE IsReset
  <2>1. th \in ThreadsAt(6 .. 15)
    BY <1>7 DEF ThreadsAt
  <2>2. QED
    BY <1>2, <1>7, <2>1 DEF CountersExact
<1>8. ASSUME Pos(th) = 16, c_d = 1
      PROVE  \A x \in Threads \ {th} : Pos(x) \notin 13 .. 16
  <2>1. th \in ThreadsAt(13 .. 16)
    BY <1>8 DEF ThreadsAt
  <2>2. Cardinality(ThreadsAt(13 .. 16)) = 1
    BY <1>8 DEF CountersExact, Count
  <2>3. PICK y : ThreadsAt(13 .. 16) = {y}
    BY <1>1, <2>2, SizeTells
  <2>4. QED
    BY <2>1, <2>3 DEF ThreadsAt
<1>9. QED
  BY <1>3, <1>4, <1>5, <1>6, <1>7, <1>8

\* No thread is left behind or overtaken.
LEMMA StepInStep ==
  ASSUME RoundIInv, NEW th \in Threads, NEW p, NEW q, Goes(th, p, q)
  PROVE  InStep'
<1>1. InStep /\ CountersExact /\ p \in 0 .. 16 /\ q \in 0 .. 16 /\ Moves(th, p, q)
  BY DEF RoundIInv, Goes
<1>2. Pos(th) = p
  BY DEF Goes, Moves
<1>3. SUFFICES ASSUME NEW x \in Threads \ {th} PROVE Pos(x) \in Beside(q)
  BY <1>1, MoveInStep
<1>4. Pos(x) \in Beside(p) /\ Pos(x) \in 0 .. 16
  BY <1>1, <1>2 DEF InStep
<1>5. Onward(p, q)
  BY DEF Goes
<1> USE DEF Beside
<1>6. CASE p = 0 /\ c_b # 0
  <2>1. PICK y \in Threads : Pos(y) = 2
    BY <1>1, <1>2, <1>6, CountersTellSome
  <2>2. y = x \/ Pos(x) \in Beside(2)
    BY <1>1, <2>1 DEF InStep
  <2>3. QED
    BY <1>4, <1>5, <1>6, <2>1, <2>2 DEF Onward
<1>7. CASE p = 0 /\ gvt_nodes = 0
  BY <1>1, <1>5, <1>7, CountersTell DEF Onward
<1>8. CASE p \in {1, 6, 8, 13, 16}
  BY <1>4, <1>5, <1>8 DEF Onward
<1>9. CASE p \in {2, 9}
  BY <1>1, <1>4, <1>5, <1>9, CountersTell DEF Onward
<1>10. CASE p \in {3, 10}
  BY <1>1, <1>4, <1>5, <1>10, CountersTell DEF Onward
<1>11. CASE p \in {4, 11}
  BY <1>1, <1>4, <1>5, <1>11, CountersTell DEF Onward
<1>12. CASE p = 5
  BY <1>1, <1>2, <1>4, <1>5, <1>12, CountersTell, CountersTellSome DEF Onward
<1>13. CASE p \in {7, 15}
  BY <1>1, <1>2, <1>4, <1>5, <1>13, CountersTellSome DEF Onward, IsReset, ThreadsAt
<1>14. CASE p = 12
  BY <1>1, <1>4, <1>5, <1>14, CountersTell DEF Onward
<1>15. CASE p = 14
  BY <1>1, <1>4, <1>5, <1>15, CountersTell DEF Onward
<1>16. QED
  BY <1>1, <1>5, <1>6, <1>7, <1>8, <1>9, <1>10, <1>11, <1>12, <1>13, <1>14, <1>15
     DEF Onward

-----------------------------------------------------------------------------
\* The counters of the phases count the threads that are in them.
LEMMA StepCountsPhases ==
  ASSUME RoundIInv, NEW th \in Threads, NEW p, NEW q, Goes(th, p, q)
  PROVE  /\ c_a' = Count({3, 4, 10, 11})'
         /\ c_b' = Count({2, 3, 9, 10})'
         /\ c_d' = Count(13 .. 16)'
<1>1. CountersExact /\ Moves(th, p, q) /\ CountersFollow(p, q)
  BY DEF RoundIInv, Goes
<1>2. \A P : Count(P)' = Count(P) + In(q, P) - In(p, P)
  BY <1>1, CountAfterMove DEF In
<1>3. QED
  BY <1>1, <1>2 DEF CountersExact, CountersFollow

\* c_c counts the threads from the exchange of the sent messages to the
\* minimum, and is taken back by the one that has computed this.
LEMMA StepCountsC ==
  ASSUME RoundIInv, NEW th \in Threads, NEW p, NEW q, Goes(th, p, q)
  PROVE  c_c' = (IF IsReset THEN 0 ELSE Count(6 .. 15))'
<1>1. /\ InStep /\ CountersExact /\ InStep'
      /\ Moves(th, p, q) /\ CountersFollow(p, q) /\ Onward(p, q)
  BY StepInStep DEF RoundIInv, Goes
<1>2. Pos(th) = p /\ Pos(th)' = q /\ \A x \in Threads \ {th} : Pos(x)' = Pos(x)
  BY <1>1 DEF Moves
<1>3. Count(6 .. 15)' = Count(6 .. 15) + In(q, 6 .. 15) - In(p, 6 .. 15)
  BY <1>1, CountAfterMove DEF In
<1>4. Count(6 .. 15) \in Nat /\ N \in Nat
  BY SizeTells DEF Count, ThreadsAt
<1>5. IsReset <=> /\ \E x \in Threads : Pos(x) \in {15, 16}
                  /\ \A x \in Threads : Pos(x) \in {0, 15, 16}
  BY DEF IsReset, ThreadsAt
<1>6. IsReset' <=> /\ \E x \in Threads : Pos(x)' \in {15, 16}
                   /\ \A x \in Threads : Pos(x)' \in {0, 15, 16}
  BY DEF IsReset, ThreadsAt
<1>7. CASE p = 14
  <2>1. \A x \in Threads : Pos(x) \in 13 .. 16
    BY <1>1, <1>7, CountersTell DEF Onward
  <2>2. \A x \in Threads \ {th} : Pos(x) \in Beside(14)
    BY <1>1, <1>2, <1>7 DEF InStep
  <2>3. \A x \in Threads \ {th} : Pos(x) = 15
    BY <2>1, <2>2 DEF Beside
  <2>4. ThreadsAt(6 .. 15) = Threads
    BY <1>2, <1>7, <2>3 DEF ThreadsAt
  <2>5. c_c = N
    BY <1>1, <1>2, <1>5, <1>7, <2>4 DEF CountersExact, Count, N
  <2>6. IsReset' /\ c_c' = 0
    BY <1>1, <1>2, <1>4, <1>6, <1>7, <2>3, <2>5 DEF Onward, CountersFollow, In
  <2>7. QED
    BY <2>6
<1>8. CASE p = 15
  <2>1. IsReset /\ q = 16 /\ c_c = 0
    BY <1>1, <1>2, <1>8, CountersTellSome DEF Onward
  <2>2. IsReset' /\ c_c' = 0
    BY <1>1, <1>2, <1>5, <1>6, <1>8, <2>1 DEF CountersFollow, In
  <2>3. QED
    BY <2>2
<1>9. CASE p = 16
  <2>1. IsReset
    <3>1. \A x \in Threads \ {th} : Pos(x) \in Beside(16)
      BY <1>1, <1>2, <1>9 DEF InStep
    <3>2. \A x \in Threads \ {th} : Pos(x) \in {0, 15, 16}
      BY <3>1 DEF Beside
    <3>3. QED
      BY <1>2, <1>5, <1>9, <3>2
  <2>2. q = 0 /\ c_c = 0 /\ c_c' = 0
    BY <1>1, <1>9, <2>1 DEF Onward, CountersFollow, CountersExact, In
  <2>3. CASE IsReset'
    BY <2>2, <2>3
  <2>4. CASE ~ IsReset'
    <3>1. \A x \in Threads : Pos(x)' \notin 6 .. 15
      BY <1>2, <1>5, <1>6, <2>1, <2>2, <2>4
    <3>2. ThreadsAt(6 .. 15)' = {}
      BY <3>1 DEF ThreadsAt
    <3>3. QED
      BY <2>2, <2>4, <3>2, FS_EmptySet DEF Count
  <2>5. QED
    BY <2>3, <2>4
<1>10. CASE p \in 1 .. 13
  <2>1. ~ IsReset
    BY <1>2, <1>5, <1>10
  <2>2. ~ IsReset'
    <3>1. \/ q \in 1 .. 14
          \/ p = 12 /\ c_d # 0 /\ q = 15
      BY <1>1, <1>10 DEF Onward
    <3>2. CASE q \in 1 .. 14
      BY <1>2, <1>6, <3>2
    <3>3. CASE p = 12 /\ c_d # 0 /\ q = 15
      <4>1. PICK x \in Threads : Pos(x) \in 13 .. 16
        BY <1>1, <1>2, <3>3, CountersTellSome
      <4>2. PICK y \in Threads \ {th} : Pos(y) \in {13, 14}
        <5>1. Pos(x) \in Beside(12)
          BY <1>1, <1>2, <3>3, <4>1 DEF InStep
        <5>2. Pos(x) = 15 => \E y \in Threads : Pos(y) \in {13, 14}
          BY <1>2, <3>3, <4>1 DEF RoundIInv, FirstStays, ThreadsAt
        <5>3. QED
          BY <1>2, <3>3, <4>1, <5>1, <5>2 DEF Beside
      <4>3. QED
        BY <1>2, <1>6, <4>2
    <3>4. QED
      BY <3>1, <3>2, <3>3
  <2>3. c_c = Count(6 .. 15)
    BY <1>1, <2>1 DEF CountersExact
  <2>4. c_c' = Count(6 .. 15)'
    BY <1>1, <1>3, <1>4, <1>10, <2>3 DEF Onward, CountersFollow, In
  <2>5. QED
    BY <2>2, <2>4
<1>11. CASE p = 0
  <2>1. q = 1 /\ ~ IsReset'
    BY <1>1, <1>2, <1>6, <1>11 DEF Onward
  <2>2. ~ IsReset
    <3>1. \A x \in Threads \ {th} : Pos(x) \in Beside(1)
      BY <1>1, <1>2, <2>1 DEF InStep
    <3>2. QED
      BY <1>2, <1>5, <1>11, <3>1 DEF Beside
  <2>3. QED
    BY <1>1, <1>3, <1>4, <1>11, <2>1, <2>2 DEF CountersFollow, CountersExact, In
<1>12. QED
  BY <1>7, <1>8, <1>9, <1>10, <1>11 DEF Goes

\* total_msg_received is taken back by the last thread to arrive, and only
\* then a thread goes on.
LEMMA StepCountsSent ==
  ASSUME RoundIInv, NEW th \in Threads, NEW p, NEW q, Goes(th, p, q)
  PROVE  total_msg_received' = (IF ThreadsAt({5, 6}) = {} THEN 0 ELSE Count({6, 7}))'
<1>1. /\ InStep /\ CountersExact
      /\ Moves(th, p, q) /\ CountersFollow(p, q) /\ Onward(p, q)
      /\ p \in 0 .. 16 /\ q \in 0 .. 16
  BY DEF RoundIInv, Goes
<1>2. Pos(th) = p /\ Pos(th)' = q /\ \A x \in Threads \ {th} : Pos(x)' = Pos(x)
  BY <1>1 DEF Moves
<1>3. Count({6, 7})' = Count({6, 7}) + In(q, {6, 7}) - In(p, {6, 7})
  BY <1>1, CountAfterMove DEF In
<1>4. /\ ThreadsAt({6, 7}) \in SUBSET Threads
      /\ Count({6, 7}) \in Nat /\ N \in Nat
  BY SizeTells DEF Count, ThreadsAt
<1>5. \A x \in Threads \ {th} : Pos(x) \in Beside(p) /\ Pos(x) \in 0 .. 16
  BY <1>1, <1>2 DEF InStep
<1>6. ThreadsAt({5, 6})' = {} <=>
        q \notin {5, 6} /\ \A x \in Threads \ {th} : Pos(x) \notin {5, 6}
  BY <1>2 DEF ThreadsAt
<1>7. total_msg_received = IF \A x \in Threads : Pos(x) \notin {5, 6}
                           THEN 0 ELSE Count({6, 7})
  BY <1>1 DEF CountersExact, ThreadsAt
<1>8. CASE p = 4
  <2>1. q = 5 /\ total_msg_received' = total_msg_received
    BY <1>1, <1>4, <1>8 DEF Onward, CountersFollow, In, GvtTypeOK, RoundIInv
  <2>2. \A x \in Threads : Pos(x) \notin {6, 7}
    BY <1>1, <1>2, <1>5, <1>8 DEF Beside
  <2>3. Count({6, 7}) = 0
    BY <1>4, <2>2, SizeTells DEF ThreadsAt, Count
  <2>4. QED
    BY <1>3, <1>6, <1>7, <1>8, <2>1, <2>3 DEF In
<1>9. CASE p = 5 /\ q = 6
  BY <1>1, <1>2, <1>3, <1>4, <1>6, <1>7, <1>9 DEF CountersFollow, In
<1>10. CASE p = 5 /\ q # 6
  <2>1. q = 7 /\ c_a = 0 /\ c_c # N - 1
    BY <1>1, <1>10 DEF Onward
  <2>2. \A x \in Threads \ {th} : Pos(x) \in {5, 7}
    BY <1>1, <1>5, <1>10, <2>1, CountersTell DEF Beside
  <2>3. PICK y \in Threads \ {th} : Pos(y) = 5
    <3>1. SUFFICES ASSUME \A y \in Threads \ {th} : Pos(y) = 7 PROVE FALSE
      BY <2>2
    <3>2. ThreadsAt(6 .. 15) = Threads \ {th}
      BY <1>2, <1>10, <3>1 DEF ThreadsAt
    <3>3. Cardinality(Threads \ {th}) = N - 1
      BY FS_RemoveElement, GvtAssumption DEF N
    <3>4. ~ IsReset
      BY <1>2, <1>10 DEF IsReset, ThreadsAt
    <3>5. QED
      BY <1>1, <2>1, <3>2, <3>3, <3>4 DEF CountersExact, Count
  <2>4. QED
    BY <1>1, <1>2, <1>3, <1>4, <1>6, <1>7, <1>10, <2>1, <2>3 DEF CountersFollow, In
<1>11. CASE p = 6
  <2>1. q = 7 /\ \A x \in Threads \ {th} : Pos(x) = 7
    BY <1>1, <1>5, <1>11 DEF Onward, Beside
  <2>2. ThreadsAt({6, 7}) = Threads
    BY <1>2, <1>11, <2>1 DEF ThreadsAt
  <2>3. total_msg_received = N
    BY <1>2, <1>7, <1>11, <2>2 DEF Count, N
  <2>4. QED
    BY <1>1, <1>4, <1>6, <1>11, <2>1, <2>3 DEF CountersFollow, In
<1>12. CASE p = 7
  <2>1. q = 8 /\ total_msg_received = 0 /\ total_msg_received' = 0
    BY <1>1, <1>12 DEF Onward, CountersFollow, In
  <2>2. \A x \in Threads : Pos(x) \notin {5, 6}
    BY <1>1, <1>2, <1>12, <2>1, CountersTellSome
  <2>3. QED
    BY <1>6, <2>1, <2>2
<1>13. CASE p \notin 4 .. 7
  <2>1. q \notin 5 .. 7 /\ total_msg_received' = total_msg_received
    BY <1>1, <1>4, <1>13 DEF Onward, CountersFollow, In, GvtTypeOK, RoundIInv
  <2>2. QED
    BY <1>1, <1>2, <1>3, <1>4, <1>6, <1>7, <1>13, <2>1 DEF In
<1>14. QED
  BY <1>1, <1>8, <1>9, <1>10, <1>11, <1>12, <1>13

\* The master knows of a round from its start until the last thread leaves.
LEMMA StepCountsNodes ==
  ASSUME RoundIInv, NEW th \in Threads, NEW p, NEW q, Goes(th, p, q)
  PROVE  gvt_nodes' = (IF ThreadsAt({0}) = Threads THEN 0 ELSE 1)'
<1>1. /\ InStep /\ CountersExact
      /\ Moves(th, p, q) /\ CountersFollow(p, q) /\ Onward(p, q)
      /\ p \in 0 .. 16 /\ q \in 0 .. 16
  BY DEF RoundIInv, Goes
<1>2. Pos(th) = p /\ Pos(th)' = q /\ \A x \in Threads \ {th} : Pos(x)' = Pos(x)
  BY <1>1 DEF Moves
<1>3. ThreadsAt({0})' = Threads <=> q = 0 /\ \A x \in Threads \ {th} : Pos(x) = 0
  BY <1>2 DEF ThreadsAt
<1>4. gvt_nodes = IF \A x \in Threads : Pos(x) = 0 THEN 0 ELSE 1
  BY <1>1 DEF CountersExact, ThreadsAt
<1>5. CASE p = 0
  BY <1>1, <1>2, <1>3, <1>4, <1>5, CountersTellSome DEF Onward
<1>6. CASE p = 16
  <2>1. q = 0 /\ gvt_nodes = 1
    BY <1>1, <1>2, <1>4, <1>6 DEF Onward
  <2>2. CASE c_d = 1
    <3>1. \A x \in Threads \ {th} : Pos(x) \in Beside(16) /\ Pos(x) \notin 13 .. 16
      BY <1>1, <1>2, <1>6, <2>2, CountersTellSome DEF InStep
    <3>2. \A x \in Threads \ {th} : Pos(x) = 0
      BY <3>1 DEF Beside
    <3>3. QED
      BY <1>1, <1>3, <1>6, <2>1, <2>2, <3>2 DEF CountersFollow
  <2>3. CASE c_d # 1
    <3>1. ThreadsAt(13 .. 16) # {th}
      BY <1>1, <2>3, FS_Singleton DEF CountersExact, Count
    <3>2. \E x \in Threads \ {th} : Pos(x) # 0
      BY <1>2, <1>6, <3>1 DEF ThreadsAt
    <3>3. QED
      BY <1>1, <1>3, <1>6, <2>1, <2>3, <3>2 DEF CountersFollow
  <2>4. QED
    BY <2>2, <2>3
<1>7. CASE p \in 1 .. 15
  BY <1>1, <1>2, <1>3, <1>4, <1>7 DEF Onward, CountersFollow
<1>8. QED
  BY <1>1, <1>5, <1>6, <1>7

\* The thread that computes the minimum leaves after all have arrived.
LEMMA StepFirstStays ==
  ASSUME RoundIInv, NEW th \in Threads, NEW p, NEW q, Goes(th, p, q)
  PROVE  FirstStays'
<1>1. /\ InStep /\ CountersExact /\ Moves(th, p, q) /\ Onward(p, q)
      /\ p \in 0 .. 16 /\ q \in 0 .. 16
  BY DEF RoundIInv, Goes
<1>2. Pos(th) = p /\ Pos(th)' = q /\ \A x \in Threads \ {th} : Pos(x)' = Pos(x)
  BY <1>1 DEF Moves
<1>3. SUFFICES ASSUME NEW x \in Threads, Pos(x)' = 15, 
                      NEW y \in Threads, Pos(y)' \in {11, 12}
               PROVE  \E w \in Threads : Pos(w)' \in {13, 14}
  BY DEF FirstStays, ThreadsAt
<1>4. \A a \in Threads \ {th} : Pos(a) \in Beside(p) /\ Pos(a) \in 0 .. 16
  BY <1>1, <1>2 DEF InStep
<1>5. (\E a, b \in Threads : Pos(a) = 15 /\ Pos(b) \in {11, 12})
        => \E w \in Threads : Pos(w) \in {13, 14}
  BY DEF RoundIInv, FirstStays, ThreadsAt
<1>6. CASE x = th
  <2>1. p = 12 /\ c_d # 0
    BY <1>1, <1>2, <1>3, <1>6 DEF Onward
  <2>2. PICK z \in Threads : Pos(z) \in 13 .. 16
    BY <1>1, <1>2, <2>1, CountersTellSome
  <2>3. z # th /\ Pos(z) \in {13, 14, 15}
    BY <1>2, <1>4, <2>1, <2>2 DEF Beside
  <2>4. QED
    BY <1>2, <1>5, <2>1, <2>3
<1>7. CASE y = th
  <2>1. x # th /\ Pos(x) = 15
    BY <1>2, <1>3, <1>7
  <2>2. p \in {10, 11} /\ p # 10
    BY <1>1, <1>2, <1>3, <1>4, <1>7, <2>1 DEF Onward, Beside
  <2>3. QED
    BY <1>2, <1>5, <2>1, <2>2
<1>8. CASE x # th /\ y # th
  <2>1. PICK w \in Threads : Pos(w) \in {13, 14}
    BY <1>2, <1>3, <1>5, <1>8
  <2>2. CASE w # th
    BY <1>2, <2>1, <2>2
  <2>3. CASE w = th
    <3>1. p # 14
      BY <1>1, <1>2, <1>3, <1>8, CountersTell DEF Onward
    <3>2. QED
      BY <1>1, <1>2, <2>1, <2>3, <3>1 DEF Onward
  <2>4. QED
    BY <2>2, <2>3
<1>9. QED
  BY <1>6, <1>7, <1>8

\* Flipping the colour at the end of the first reduction, a thread takes that
\* of those that have flipped before and leaves that of the others.
LEMMA StepColours ==
  ASSUME RoundIInv, NEW th \in Threads, NEW p, NEW q, Goes(th, p, q)
  PROVE  ColoursAgree'
<1>1. /\ InStep /\ CountersExact /\ ColoursAgree /\ Moves(th, p, q) /\ Onward(p, q)
      /\ p \in 0 .. 16 /\ q \in 0 .. 16
      /\ gvt_phase \in [Threads -> BOOLEAN]
      /\ gvt_phase' = [gvt_phase EXCEPT ![th] = IF p = 4 THEN ~ @ ELSE @]
  BY DEF RoundIInv, Goes, DataFollow, GvtTypeOK
<1>2. Pos(th) = p /\ Pos(th)' = q /\ \A x \in Threads \ {th} : Pos(x)' = Pos(x)
  BY <1>1 DEF Moves
<1>3. \A x \in Threads \ {th} : gvt_phase'[x] = gvt_phase[x]
  BY <1>1
<1>4. ASSUME NEW x \in Threads \ {th}
      PROVE  gvt_phase'[th] # gvt_phase'[x] <=> {q, Pos(x)} = {4, 5}
  <2>1. gvt_phase[th] # gvt_phase[x] <=> {p, Pos(x)} = {4, 5}
    BY <1>1, <1>2 DEF ColoursAgree
  <2>2. Pos(x) \in Beside(p) /\ Pos(x) \in 0 .. 16
    BY <1>1, <1>2 DEF InStep
  <2>3. CASE p = 4
    <3>1. q = 5 /\ Pos(x) \in {4, 5}
      BY <1>1, <2>2, <2>3, CountersTell DEF Onward, Beside
    <3>2. gvt_phase'[th] = ~ gvt_phase[th] /\ gvt_phase'[x] = gvt_phase[x]
      BY <1>1, <2>3
    <3>3. gvt_phase[th] \in BOOLEAN /\ gvt_phase[x] \in BOOLEAN
      BY <1>1
    <3>4. (gvt_phase[th] # gvt_phase[x] <=> Pos(x) = 5) /\ ({q, Pos(x)} = {4, 5} <=> Pos(x) = 4)
      BY <2>1, <2>3, <3>1
    <3>5. QED
      BY <3>1, <3>2, <3>3, <3>4
  <2>4. CASE p # 4
    <3>1. gvt_phase'[th] = gvt_phase[th] /\ gvt_phase'[x] = gvt_phase[x]
      BY <1>1, <2>4
    <3>2. {q, Pos(x)} = {4, 5} <=> {p, Pos(x)} = {4, 5}
      <4>1. p = 5 => c_a = 0 /\ Pos(x) # 4
        BY <1>1, CountersTell DEF Onward
      <4>2. p = 3 => q = 4 /\ Pos(x) # 5
        BY <1>1, <2>2 DEF Onward, Beside
      <4>3. p \notin {3, 5} => p \notin {4, 5} /\ q \notin {4, 5}
        BY <1>1, <2>4 DEF Onward
      <4>4. p = 5 => q \in {6, 7}
        BY <1>1 DEF Onward
      <4>5. QED
        BY <4>1, <4>2, <4>3, <4>4
    <3>3. QED
      BY <2>1, <3>1, <3>2
  <2>5. QED
    BY <2>3, <2>4
<1>5. ASSUME NEW a \in Threads, NEW b \in Threads
      PROVE  (gvt_phase[a] # gvt_phase[b])' <=> {Pos(a), Pos(b)}' = {4, 5}
  <2>1. CASE a = th /\ b = th
    BY <2>1
  <2>2. CASE a = th /\ b # th
    BY <1>2, <1>4, <2>2
  <2>3. CASE a # th /\ b = th
    <3>1. {Pos(a), Pos(b)}' = {q, Pos(a)}
      BY <1>2, <2>3
    <3>2. QED
      BY <1>2, <1>4, <2>3, <3>1
  <2>4. CASE a # th /\ b # th
    BY <1>1, <1>2, <1>3, <2>4 DEF ColoursAgree
  <2>5. QED
    BY <2>1, <2>2, <2>3, <2>4
<1>6. QED
  BY <1>5 DEF ColoursAgree

-----------------------------------------------------------------------------
\* gvt_node_reduce gives one of the values it compares, and none is less.
LEMMA NodeReduceIsLeast ==
  ASSUME GvtTypeOK
  PROVE  /\ NodeReduce \in 0 .. Inf
         /\ \E th \in Threads : NodeReduce = reducing_p[th]
         /\ \A th \in Threads : NodeReduce <= reducing_p[th]
<1> DEFINE S == {reducing_p[th] : th \in Threads}
<1>1. \A th \in Threads : reducing_p[th] \in 0 .. Inf
  BY DEF GvtTypeOK
<1>2. S \in SUBSET Nat /\ S # {}
  BY <1>1, GvtAssumption DEF Inf
<1>3. Min(S) \in S /\ \A y \in S : Min(S) <= y
  BY <1>2, MinIsLeast
<1>4. QED
  BY <1>1, <1>3 DEF NodeReduce

\* The counters, minima and phases keep their ranges.
LEMMA StepTypeOK ==
  ASSUME RoundIInv, NEW th \in Threads, PhaseRun(th),
         NEW p, NEW q, Goes(th, p, q), CountersExact'
  PROVE  GvtTypeOK'
<1>1. /\ GvtTypeOK /\ NodeReduce \in 0 .. Inf
      /\ Inf \in 1 .. Inf /\ reducing_p[Master] \in 0 .. Inf
      /\ \A x \in Threads : gvt_accumulator[x] \in 0 .. Inf
  BY NodeReduceIsLeast, GvtAssumption DEF RoundIInv, GvtTypeOK, Inf
<1>2. \A P : Count(P)' \in 0 .. N
  BY SizeTells DEF Count, ThreadsAt
<1>3. /\ c_a' \in 0 .. N /\ c_b' \in 0 .. N /\ c_c' \in 0 .. N /\ c_d' \in 0 .. N
      /\ total_msg_received' \in 0 .. N /\ gvt_nodes' \in 0 .. 1
  BY <1>2, SizeTells DEF CountersExact
<1>4. thread_phase' \in [Threads -> ThreadPhases]
  BY <1>1 DEF PhaseRun, Notice, StartGvt, StartProcessing, PhaseA, PhaseB, PhaseC,
     PhaseD, SentReduce, SentReduceWait, SentWait, MinReduce, MinCompute,
     MinReduceWait, MinWait, Done, GvtTypeOK, ThreadPhases
<1>5. node_phase' \in [Threads -> NodePhases]
  BY <1>1 DEF PhaseRun, Notice, StartGvt, PhaseA, PhaseB, PhaseC, PhaseD,
     SentReduce, SentReduceWait, SentWait, MinReduce, MinCompute, MinReduceWait,
     MinWait, Done, GvtTypeOK, NodePhases
<1>6. gvt_phase' \in [Threads -> BOOLEAN] /\ gvt_accumulator' \in [Threads -> 1 .. Inf]
  BY <1>1 DEF Goes, DataFollow, GvtTypeOK
<1>7. reducing_p' \in [Threads -> 0 .. Inf] /\ returned' \in [Threads -> 0 .. Inf]
  BY <1>1 DEF Goes, DataFollow, GvtTypeOK
<1>8. QED
  BY <1>3, <1>4, <1>5, <1>6, <1>7 DEF GvtTypeOK

-----------------------------------------------------------------------------
\* What the threads may rely on in a round holds at the start,
LEMMA RoundInit == GvtInit => RoundIInv
<1> SUFFICES ASSUME GvtInit PROVE RoundIInv
  OBVIOUS
<1>1. \A th \in Threads : Pos(th) = 0
  BY DEF GvtInit, Pos
<1>2. N \in Nat /\ Inf \in Nat \ {0}
  BY SizeTells, GvtAssumption DEF Inf
<1>3. GvtTypeOK
  BY <1>2 DEF GvtInit, GvtTypeOK, ThreadPhases, NodePhases
<1>4. InStep
  BY <1>1 DEF InStep, Beside
<1>5. \A P : 0 \notin P => ThreadsAt(P) = {} /\ Count(P) = 0
  BY <1>1, FS_EmptySet DEF ThreadsAt, Count
<1>6. ThreadsAt({0}) = Threads
  BY <1>1 DEF ThreadsAt
<1>7. CountersExact
  BY <1>5, <1>6 DEF GvtInit, CountersExact
<1>8. FirstStays /\ ColoursAgree
  BY <1>1, <1>5 DEF FirstStays, ColoursAgree, GvtInit
<1>9. QED
  BY <1>3, <1>4, <1>7, <1>8 DEF RoundIInv

\* is kept by every call of gvt_phase_run,
LEMMA RoundStep ==
  ASSUME RoundIInv, NEW th \in Threads, PhaseRun(th)
  PROVE  RoundIInv'
<1>1. PICK p, q \in 0 .. 16 : Goes(th, p, q)
  BY StepGoes
<1>2. CountersExact'
  BY <1>1, StepCountsPhases, StepCountsC, StepCountsSent, StepCountsNodes DEF CountersExact
<1>3. QED
  BY <1>1, <1>2, StepTypeOK, StepInStep, StepFirstStays, StepColours DEF RoundIInv

\* and by what is no step of the round: the extraction of a message, which
\* changes an accumulator, and all that leaves the state of the round alone.
LEMMA PositionsStay ==
  ASSUME UNCHANGED <<thread_phase, node_phase, gvt_phase, counters, gvt_nodes>>,
         InStep, CountersExact, FirstStays, ColoursAgree
  PROVE  (InStep /\ CountersExact /\ FirstStays /\ ColoursAgree)'
<1>1. \A x \in Threads : Pos(x)' = Pos(x)
  BY DEF Pos
<1>2. \A P : ThreadsAt(P)' = ThreadsAt(P) /\ Count(P)' = Count(P)
  BY <1>1 DEF ThreadsAt, Count
<1>3. IsReset' <=> IsReset
  BY <1>2 DEF IsReset
<1>4. InStep'
  BY <1>1 DEF InStep
<1>5. CountersExact'
  BY <1>2, <1>3 DEF CountersExact, counters
<1>6. FirstStays'
  BY <1>2 DEF FirstStays
<1>7. ColoursAgree'
  BY <1>1 DEF ColoursAgree
<1>8. QED
  BY <1>4, <1>5, <1>6, <1>7

\* An extraction in the main loop changes an accumulator only.
LEMMA RoundExtraction ==
  ASSUME RoundIInv, NEW th \in Threads, NEW t \in Times, OnExtraction(th, t)
  PROVE  RoundIInv'
<1>1. t \in 1 .. Inf
  BY GvtAssumption DEF Times, Inf
<1>2. GvtTypeOK'
  BY <1>1 DEF OnExtraction, RoundIInv, GvtTypeOK, counters
<1>3. UNCHANGED <<thread_phase, node_phase, gvt_phase, counters, gvt_nodes>>
  BY DEF OnExtraction
<1>4. QED
  BY <1>2, <1>3, PositionsStay DEF RoundIInv

\* Nor does anything else outside the reduction.
LEMMA RoundStutters ==
  ASSUME RoundIInv, UNCHANGED gvtVars
  PROVE  RoundIInv'
<1>1. GvtTypeOK'
  BY DEF gvtVars, RoundIInv, GvtTypeOK
<1>2. QED
  BY <1>1, PositionsStay DEF RoundIInv, gvtVars, counters

=============================================================================
