------------------------- MODULE SyncBarrierProofs --------------------------
(***************************************************************************)
(* Proofs that the barrier of core/sync.c is a barrier, for any number of  *)
(* threads.  The inductive invariant is BarrierIInv; its part CountersExact turns *)
(* the value a thread reads in a counter into what the other threads have  *)
(* done, and the rest of each step is about two threads only.              *)
(***************************************************************************)
EXTENDS SyncBarrier, FiniteSetTheorems, TLAPS

Counted(c) == {th \in Threads : HasCounted(th, c)}

\* Arithmetic modulo 4, by cases, so that no other proof divides.
LEMMA Modulo ==
  ASSUME NEW p \in 0 .. 3
  PROVE  /\ (p + 1) % 4 = IF p = 3 THEN 0 ELSE p + 1
         /\ (p + 3) % 4 = IF p = 0 THEN 3 ELSE p - 1
         /\ p % 2 = IF p \in {0, 2} THEN 0 ELSE 1
<1>1. p = 0 \/ p = 1 \/ p = 2 \/ p = 3
  OBVIOUS
<1>2. QED
  BY <1>1

\* The counters count subsets of a finite set.
LEMMA CountedFinite ==
  ASSUME NEW c
  PROVE  /\ IsFiniteSet(Counted(c))
         /\ Cardinality(Counted(c)) \in 0 .. n_threads
         /\ Cardinality(Counted(c)) = n_threads => Counted(c) = Threads
         /\ n_threads \in Nat \ {0}
<1>1. Counted(c) \in SUBSET Threads
  BY DEF Counted
<1>2. /\ IsFiniteSet(Counted(c))
      /\ Cardinality(Counted(c)) <= Cardinality(Threads)
      /\ Cardinality(Threads) = Cardinality(Counted(c)) => Threads = Counted(c)
  BY <1>1, FS_Subset, BarrierAssumption
<1>3. Cardinality(Counted(c)) \in Nat /\ Cardinality(Threads) \in Nat
  BY <1>2, FS_CardinalityType, BarrierAssumption
<1>4. Cardinality(Threads) # 0
  BY FS_EmptySet, BarrierAssumption
<1>5. QED
  BY <1>2, <1>3, <1>4 DEF n_threads

\* What a thread learns from the value of a counter.
LEMMA CountTells ==
  ASSUME CountersExact, NEW c \in {0, 1}
  PROVE  /\ cs[c] = 0 <=> \A th \in Threads : ~ HasCounted(th, c)
         /\ cs[c] = n_threads => \A th \in Threads : HasCounted(th, c)
         /\ cs[c] = 1 <=> \E a : Counted(c) = {a}
<1>1. cs[c] = Cardinality(Counted(c))
  BY DEF CountersExact, Counted
<1>2. cs[c] = 0 <=> Counted(c) = {}
  BY <1>1, CountedFinite, FS_EmptySet
<1>3. cs[c] = n_threads => Counted(c) = Threads
  BY <1>1, CountedFinite
<1>4. cs[c] = 1 <=> \E a : Counted(c) = {a}
  BY <1>1, CountedFinite, FS_Singleton
<1>5. QED
  BY <1>2, <1>3, <1>4 DEF Counted

\* The counters start at zero, with nobody counted.
LEMMA InitInv == BarrierInit => BarrierIInv
<1> SUFFICES ASSUME BarrierInit PROVE BarrierIInv
  OBVIOUS
<1>1. BarrierTypeOK
  BY CountedFinite DEF BarrierInit, BarrierTypeOK
<1>2. \A c \in {0, 1} : {th \in Threads : HasCounted(th, c)} = {}
  BY DEF BarrierInit, HasCounted
<1>3. CountersExact
  BY <1>2, FS_EmptySet DEF BarrierInit, CountersExact
<1>4. NobodyIsLeftBehind
  BY DEF BarrierInit, NobodyIsLeftBehind
<1>5. \A th \in Threads : Reached(th) = 3 /\ ~ led[th] /\ ~ inside[th]
  BY Modulo DEF BarrierInit, Reached
<1>6. OneLeader /\ LeaderIsLast /\ LeaderIsFirst
  BY <1>5 DEF OneLeader, LeaderIsLast, LeaderIsFirst
<1>7. QED
  BY <1>1, <1>3, <1>4, <1>6 DEF BarrierIInv

-----------------------------------------------------------------------------
\* Arriving counts the thread up, or down, in one counter and no other.
LEMMA ArriveCounts ==
  ASSUME BarrierIInv, NEW th \in Threads, Arrive(th)
  PROVE  CountersExact' /\ BarrierTypeOK'
<1> USE DEF BarrierIInv
<1>p. PICK p \in 0 .. 3 : p = phase[th]
  BY DEF BarrierTypeOK
<1>c. PICK c \in {0, 1} : c = Counter(p) /\ c = IF p \in {0, 2} THEN 0 ELSE 1
  BY Modulo DEF Counter
<1>1. ~ inside[th] /\ p = phase[th] /\ c = Counter(p)
  BY <1>p, <1>c DEF Arrive
<1>2. c = IF p \in {0, 2} THEN 0 ELSE 1
  BY <1>c
<1>3. ASSUME NEW x \in Threads, NEW d \in {0, 1}
      PROVE  HasCounted(x, d)' <=>
               IF x = th /\ d = c THEN ~ CountsDown(p) ELSE HasCounted(x, d)
  BY <1>1, <1>2, <1>3 DEF Arrive, HasCounted, CountsDown, BarrierTypeOK
<1>4. HasCounted(th, c) <=> CountsDown(p)
  BY <1>1, <1>2 DEF HasCounted, CountsDown
<1>5. Counted(c)' = IF CountsDown(p) THEN Counted(c) \ {th} ELSE Counted(c) \cup {th}
  BY <1>1, <1>3 DEF Counted
<1>6. Cardinality(Counted(c)') =
        IF CountsDown(p) THEN Cardinality(Counted(c)) - 1 ELSE Cardinality(Counted(c)) + 1
  <2>1. th \in Counted(c) <=> CountsDown(p)
    BY <1>4 DEF Counted
  <2>2. CASE CountsDown(p)
    BY <2>1, <2>2, <1>5, CountedFinite, FS_RemoveElement
  <2>3. CASE ~ CountsDown(p)
    BY <2>1, <2>3, <1>5, CountedFinite, FS_AddElement
  <2>4. QED
    BY <2>2, <2>3
<1>7. ASSUME NEW d \in {0, 1}, d # c PROVE Counted(d)' = Counted(d)
  BY <1>3, <1>7 DEF Counted
<1>8. cs \in [{0, 1} -> 0 .. n_threads]
      /\ cs' = [cs EXCEPT ![c] = IF CountsDown(p) THEN @ - 1 ELSE @ + 1]
  BY <1>1 DEF Arrive, BarrierTypeOK
<1>9. \A d \in {0, 1} : cs[d] = Cardinality(Counted(d))
  BY DEF CountersExact, Counted
<1>10. \A d \in {0, 1} : cs'[d] = Cardinality(Counted(d)')
  BY <1>1, <1>6, <1>7, <1>8, <1>9
<1>11. CountersExact'
  BY <1>10 DEF CountersExact, Counted
<1>12. \A d \in {0, 1} : cs'[d] \in 0 .. n_threads
  <2>1. \A d \in {0, 1} : Counted(d)' \in SUBSET Threads
    BY DEF Counted
  <2>2. \A d \in {0, 1} : Cardinality(Counted(d)') \in 0 .. n_threads
    BY <2>1, FS_Subset, FS_CardinalityType, BarrierAssumption DEF n_threads
  <2>3. QED
    BY <2>2, <1>10
<1>13. BarrierTypeOK'
  BY <1>8, <1>12 DEF Arrive, BarrierTypeOK
<1>14. QED
  BY <1>11, <1>13

\* Every thread has reached the barrier a thread comes to, or the one before.
LEMMA NobodyIsFurther ==
  ASSUME BarrierIInv, NEW th \in Threads, ~ inside[th], NEW b \in Threads
  PROVE  /\ Reached(th) = IF phase[th] = 0 THEN 3 ELSE phase[th] - 1
         /\ Reached(b) \in {phase[th], Reached(th)}
         /\ phase[th] \in 0 .. 3
<1>1. phase[th] \in 0 .. 3 /\ phase[b] \in 0 .. 3
  BY DEF BarrierIInv, BarrierTypeOK
<1>2. Reached(th) = IF phase[th] = 0 THEN 3 ELSE phase[th] - 1
  BY <1>1, Modulo DEF Reached
<1>3. Reached(b) = IF inside[b] THEN phase[b]
                   ELSE IF phase[b] = 0 THEN 3 ELSE phase[b] - 1
  BY <1>1, Modulo DEF Reached
<1>4. \/ phase[b] = phase[th]
      \/ inside[b] /\ phase[th] = IF phase[b] = 3 THEN 0 ELSE phase[b] + 1
  BY <1>1, Modulo DEF BarrierIInv, NobodyIsLeftBehind
<1>5. QED
  BY <1>1, <1>2, <1>3, <1>4

\* For a thread that comes to barrier p, the counter of p counts the threads
\* that have reached it, or those that have not when it counts down.
LEMMA CountedIsReached ==
  ASSUME BarrierIInv, NEW th \in Threads, ~ inside[th], NEW b \in Threads,
         NEW c \in {0, 1}, c = Counter(phase[th])
  PROVE  HasCounted(b, c) <=>
           Reached(b) = IF CountsDown(phase[th]) THEN Reached(th) ELSE phase[th]
<1>1. phase[th] \in 0 .. 3 /\ phase[b] \in 0 .. 3
  BY DEF BarrierIInv, BarrierTypeOK
<1>2. c = IF phase[th] \in {0, 2} THEN 0 ELSE 1
  BY <1>1, Modulo DEF Counter
<1>3. Reached(th) = IF phase[th] = 0 THEN 3 ELSE phase[th] - 1
  BY <1>1, Modulo DEF Reached
<1>4. Reached(b) = IF inside[b] THEN phase[b]
                   ELSE IF phase[b] = 0 THEN 3 ELSE phase[b] - 1
  BY <1>1, Modulo DEF Reached
<1>5. \/ phase[b] = phase[th]
      \/ inside[b] /\ phase[th] = IF phase[b] = 3 THEN 0 ELSE phase[b] + 1
  BY <1>1, Modulo DEF BarrierIInv, NobodyIsLeftBehind
<1>6. QED
  BY <1>1, <1>2, <1>3, <1>4, <1>5 DEF HasCounted, CountsDown

\* Who is elected: nobody has reached the barrier before, or all others have.
LEMMA ArriveLeads ==
  ASSUME BarrierIInv, NEW th \in Threads, Arrive(th)
  PROVE  led'[th] <=> \A b \in Threads \ {th} :
           Reached(b) # IF CountsDown(phase[th]) THEN Reached(th) ELSE phase[th]
<1>p. phase[th] \in 0 .. 3 /\ ~ inside[th]
  BY DEF BarrierIInv, BarrierTypeOK, Arrive
<1>c. PICK c \in {0, 1} : c = Counter(phase[th])
  BY <1>p, Modulo DEF Counter
<1>1. led'[th] <=> cs[c] = IF CountsDown(phase[th]) THEN 1 ELSE 0
  BY <1>c DEF Arrive, BarrierIInv, BarrierTypeOK
<1>2. \A b \in Threads : HasCounted(b, c) <=>
           Reached(b) = IF CountsDown(phase[th]) THEN Reached(th) ELSE phase[th]
  BY <1>p, <1>c, CountedIsReached
<1>3. Reached(th) # phase[th]
  BY <1>p, NobodyIsFurther
<1>4. CASE CountsDown(phase[th])
  <2>1. cs[c] = 1 <=> \E a : Counted(c) = {a}
    BY CountTells DEF BarrierIInv
  <2>2. th \in Counted(c)
    BY <1>2, <1>4 DEF Counted
  <2>3. (\E a : Counted(c) = {a}) <=> \A b \in Threads \ {th} : ~ HasCounted(b, c)
    BY <2>2 DEF Counted
  <2>4. QED
    BY <1>1, <1>2, <1>4, <2>1, <2>3
<1>5. CASE ~ CountsDown(phase[th])
  <2>1. cs[c] = 0 <=> \A b \in Threads : ~ HasCounted(b, c)
    BY CountTells DEF BarrierIInv
  <2>2. ~ HasCounted(th, c)
    BY <1>2, <1>3, <1>5
  <2>3. QED
    BY <1>1, <1>2, <1>5, <2>1, <2>2
<1>6. QED
  BY <1>4, <1>5

\* A thread that arrives overtakes nobody, and the election is right.
LEMMA ArriveInv ==
  ASSUME BarrierIInv, NEW th \in Threads, Arrive(th)
  PROVE  BarrierIInv'
<1>p. PICK p \in 0 .. 3 : p = phase[th]
  BY DEF BarrierIInv, BarrierTypeOK
<1>q. PICK q \in 0 .. 3 : q = Reached(th) /\ q = IF p = 0 THEN 3 ELSE p - 1
  BY <1>p, NobodyIsFurther DEF Arrive
<1>1. CountersExact' /\ BarrierTypeOK'
  BY ArriveCounts
<1>2. NobodyIsLeftBehind'
  BY DEF BarrierIInv, NobodyIsLeftBehind, Arrive, BarrierTypeOK
<1>3. \A b \in Threads : Reached(b)' = IF b = th THEN p ELSE Reached(b)
  BY <1>p DEF Reached, Arrive, BarrierIInv, BarrierTypeOK
<1>4. \A b \in Threads : Reached(b) \in {p, q}
  BY <1>p, <1>q, NobodyIsFurther DEF Arrive
<1>5. \A b \in Threads \ {th} : led'[b] = led[b] /\ inside'[b] = inside[b]
  BY DEF Arrive, BarrierIInv, BarrierTypeOK
<1>6. led'[th] <=> \A b \in Threads \ {th} : Reached(b) # IF p \in {2, 3} THEN q ELSE p
  <2>1. CountsDown(phase[th]) <=> p \in {2, 3}
    BY <1>p DEF CountsDown
  <2>2. led'[th] <=> \A b \in Threads \ {th} :
          Reached(b) # IF CountsDown(phase[th]) THEN Reached(th) ELSE phase[th]
    BY ArriveLeads
  <2>3. QED
    BY <1>p, <1>q, <2>1, <2>2
\* in the first half, once anybody has reached p there is a leader
<1>7. ASSUME p \in {0, 1}
      PROVE  \E a \in Threads : led'[a] /\ Reached(a)' = p
  <2>1. CASE \A b \in Threads \ {th} : Reached(b) # p
    <3>1. led'[th]
      BY <1>6, <1>7, <2>1
    <3>2. QED
      BY <1>3, <3>1
  <2>2. CASE \E b \in Threads \ {th} : Reached(b) = p
    <3>1. PICK b \in Threads \ {th} : Reached(b) = p
      BY <2>2
    <3>2. (p + 3) % 4 = q
      BY <1>q, Modulo
    <3>3. \E a \in Threads : led[a] /\ Reached(a) = p
      BY <1>4, <1>7, <3>1, <3>2 DEF BarrierIInv, LeaderIsFirst
    <3>4. PICK a \in Threads : led[a] /\ Reached(a) = p
      BY <3>3
    <3>5. p # q
      BY <1>q
    <3>6. a # th
      BY <1>q, <3>4, <3>5
    <3>7. led'[a]
      BY <1>5, <3>4, <3>6
    <3>8. Reached(a)' = p
      BY <1>3, <3>4, <3>6
    <3>9. QED
      BY <3>7, <3>8
  <2>3. QED
    BY <2>1, <2>2
<1>8. OneLeader'
  <2>1. ASSUME NEW b \in Threads \ {th}, led[b], Reached(b) = p
        PROVE  ~ led'[th]
    <3>1. CASE p \in {2, 3}
      <4>1. Reached(th) # p - 1
        BY <2>1, <3>1 DEF BarrierIInv, LeaderIsLast
      <4>2. QED
        BY <1>q, <3>1, <4>1
    <3>2. CASE p \in {0, 1}
      BY <1>6, <2>1, <3>2
    <3>3. QED
      BY <3>1, <3>2
  <2>2. \A a, b \in Threads :
          (a # b /\ led'[a] /\ led'[b]) => Reached(a)' # Reached(b)'
    BY <1>3, <1>5, <2>1 DEF BarrierIInv, OneLeader
  <2>3. ASSUME \A a \in Threads : Reached(a)' = p
        PROVE  \E a \in Threads : led'[a]
    <3>1. CASE p \in {0, 1}
      BY <1>7, <3>1
    <3>2. CASE p \in {2, 3}
      BY <1>3, <1>6, <1>q, <2>3, <3>2
    <3>3. QED
      BY <3>1, <3>2
  <2>4. ASSUME NEW b \in Threads, \A a \in Threads : Reached(a)' = Reached(b)'
        PROVE  \E a \in Threads : led'[a]
    BY <1>3, <2>3, <2>4
  <2>5. QED
    BY <2>2, <2>4 DEF OneLeader
<1>9. LeaderIsLast'
  BY <1>3, <1>4, <1>5, <1>6, <1>q DEF BarrierIInv, LeaderIsLast
<1>10. LeaderIsFirst'
  <2> SUFFICES ASSUME NEW b \in Threads, Reached(b)' \in {0, 1},
                      \A a \in Threads : Reached(a)' \in {Reached(b)', (Reached(b)' + 3) % 4}
               PROVE  \E a \in Threads : led'[a] /\ Reached(a)' = Reached(b)'
    BY DEF LeaderIsFirst
  <2>1. Reached(b)' = p
    <3>1. Reached(b)' \in {p, q}
      BY <1>3, <1>4
    <3>2. p \in {Reached(b)', (Reached(b)' + 3) % 4}
      BY <1>3
    <3>3. (q + 3) % 4 # p
      BY <1>q, Modulo
    <3>4. QED
      BY <3>1, <3>2, <3>3
  <2>2. QED
    BY <1>7, <2>1
<1>11. QED
  BY <1>1, <1>2, <1>8, <1>9, <1>10 DEF BarrierIInv

-----------------------------------------------------------------------------
\* A thread leaves when the counter says that all have arrived: whoever is
\* not with it is already ahead or still inside.
LEMMA LeaveInv ==
  ASSUME BarrierIInv, NEW th \in Threads, Leave(th)
  PROVE  BarrierIInv'
<1>p. PICK p \in 0 .. 3 : p = phase[th] /\ inside[th]
  BY DEF BarrierIInv, BarrierTypeOK, Leave
<1>c. PICK c \in {0, 1} : c = Counter(p) /\ c = IF p \in {0, 2} THEN 0 ELSE 1
  BY Modulo DEF Counter
<1>1. phase'[th] = IF p = 3 THEN 0 ELSE p + 1
  BY <1>p, Modulo DEF Leave, BarrierIInv, BarrierTypeOK
<1>2. ~ inside'[th] /\ \A b \in Threads \ {th} :
                          phase'[b] = phase[b] /\ inside'[b] = inside[b]
  BY DEF Leave, BarrierIInv, BarrierTypeOK
<1>3. BarrierTypeOK'
  BY <1>1, Modulo DEF Leave, BarrierIInv, BarrierTypeOK
<1>4. \A b \in Threads : phase[b] \in 0 .. 3 /\ Reached(b)' = Reached(b)
  <2>1. \A b \in Threads : phase[b] \in 0 .. 3 /\ phase'[b] \in 0 .. 3
    BY <1>3 DEF BarrierIInv, BarrierTypeOK
  <2>2. Reached(th)' = Reached(th)
    BY <1>1, <1>2, <1>p, <2>1, Modulo DEF Reached
  <2>3. QED
    BY <1>2, <2>1, <2>2 DEF Reached
<1>5. \A b \in Threads, d \in {0, 1} : HasCounted(b, d)' <=> HasCounted(b, d)
  BY <1>1, <1>2, <1>p, <1>4 DEF HasCounted
<1>6. CountersExact'
  BY <1>5 DEF CountersExact, Leave, BarrierIInv
<1>7. NobodyIsLeftBehind'
  <2>1. \A b \in Threads : HasCounted(b, c) <=> p < 2
    <3>1. cs[c] = IF p >= 2 THEN 0 ELSE n_threads
      BY <1>p, <1>c DEF Leave, CountsDown
    <3>2. QED
      BY <3>1, CountTells DEF BarrierIInv
  <2>2. \A b \in Threads : \/ phase[b] = p /\ inside[b]
                           \/ phase[b] = IF p = 3 THEN 0 ELSE p + 1
    <3> SUFFICES ASSUME NEW b \in Threads
                 PROVE  \/ phase[b] = p /\ inside[b]
                        \/ phase[b] = IF p = 3 THEN 0 ELSE p + 1
      OBVIOUS
    <3>1. \/ phase[b] = p
          \/ phase[b] = IF p = 3 THEN 0 ELSE p + 1
          \/ phase[b] = (IF p = 0 THEN 3 ELSE p - 1) /\ inside[b]
      BY <1>p, <1>4, Modulo DEF BarrierIInv, NobodyIsLeftBehind
    <3>2. QED
      BY <1>c, <1>4, <2>1, <3>1 DEF HasCounted
  <2>3. ASSUME NEW a \in Threads, NEW b \in Threads, phase'[a] # phase'[b]
        PROVE  \/ phase'[a] = (phase'[b] + 1) % 4 /\ inside'[b]
               \/ phase'[b] = (phase'[a] + 1) % 4 /\ inside'[a]
    <3>1. (p + 1) % 4 = IF p = 3 THEN 0 ELSE p + 1
      BY Modulo
    <3>2. \A x \in Threads : \/ phase'[x] = p /\ inside'[x]
                             \/ phase'[x] = IF p = 3 THEN 0 ELSE p + 1
      BY <1>1, <1>2, <2>2
    <3>3. QED
      BY <2>3, <3>1, <3>2
  <2>4. QED
    BY <2>3 DEF NobodyIsLeftBehind
<1>8. led' = led
  BY DEF Leave
<1>9. OneLeader'
  BY <1>2, <1>4, <1>8 DEF BarrierIInv, OneLeader
<1>10. LeaderIsLast' /\ LeaderIsFirst'
  BY <1>4, <1>8 DEF BarrierIInv, LeaderIsLast, LeaderIsFirst
<1>11. QED
  BY <1>3, <1>6, <1>7, <1>9, <1>10 DEF BarrierIInv

\* Both steps of the barrier keep the invariant.
LEMMA StepInv == BarrierIInv /\ [BarrierNext]_barrierVars => BarrierIInv'
<1> SUFFICES ASSUME BarrierIInv, [BarrierNext]_barrierVars PROVE BarrierIInv'
  OBVIOUS
<1>1. ASSUME NEW th \in Threads, Arrive(th) PROVE BarrierIInv'
  BY <1>1, ArriveInv
<1>2. ASSUME NEW th \in Threads, Leave(th) PROVE BarrierIInv'
  BY <1>2, LeaveInv
<1>3. CASE UNCHANGED barrierVars
  BY <1>3 DEF barrierVars, BarrierIInv, BarrierTypeOK, CountersExact, HasCounted, Reached,
              NobodyIsLeftBehind, OneLeader, LeaderIsLast, LeaderIsFirst
<1>4. QED
  BY <1>1, <1>2, <1>3 DEF BarrierNext

\* The inductive invariant holds in every state.
LEMMA AlwaysIInv == BarrierSpec => []BarrierIInv
BY InitInv, StepInv, PTL DEF BarrierSpec

\* For any number of threads, nobody leaves a barrier (returns from
\* sync_thread_barrier) that another thread has not reached.
THEOREM BarrierHolds == BarrierSpec => []NobodyIsLeftBehind
<1>1. BarrierIInv => NobodyIsLeftBehind
  BY DEF BarrierIInv
<1>2. QED
  BY <1>1, AlwaysIInv, PTL

\* For any number of threads, sync_thread_barrier returns true to one of
\* those that cross a barrier together.
THEOREM ElectionIsRight == BarrierSpec => []OneLeader
<1>1. BarrierIInv => OneLeader
  BY DEF BarrierIInv
<1>2. QED
  BY <1>1, AlwaysIInv, PTL

=============================================================================
