----------------------------- MODULE GvtProofs ------------------------------
(***************************************************************************)
(* Proofs that the reduction of gvt/gvt.c returns a lower bound of all that *)
(* is pending, and the same one to all threads of a node, while they go on *)
(* extracting and sending messages.  The structure of a round is the       *)
(* invariant of GvtRoundProofs; here it is about the times of messages.    *)
(***************************************************************************)
EXTENDS Gvt, GvtRoundProofs

\* What the proofs need to know of the types.
LEMMA Types ==
  ASSUME IInv
  PROVE  /\ at \in [Threads -> {"process", "gvt"}]
         /\ queue \in [Threads -> SUBSET Times]
         /\ hand \in [Threads -> 0 .. MaxT]
         /\ gvt_accumulator \in [Threads -> 1 .. Inf]
         /\ reducing_p \in [Threads -> 0 .. Inf]
         /\ returned \in [Threads -> 0 .. Inf]
         /\ Times \subseteq Nat \ {0}
         /\ MaxT \in Nat /\ Inf = MaxT + 1
         /\ \A th \in Threads : Pos(th) \in 0 .. 16
         /\ \A th \in Threads : PendingOf(th) \subseteq Times
<1>1. Times \subseteq Nat \ {0} /\ MaxT \in Nat /\ Inf = MaxT + 1
  BY GvtAssumption DEF Times, Inf
<1>2. /\ queue \in [Threads -> SUBSET Times]
      /\ hand \in [Threads -> 0 .. MaxT]
  BY DEF IInv, TypeOK
<1>3. \A th \in Threads : PendingOf(th) \subseteq Times
  BY <1>1, <1>2 DEF PendingOf, Times
<1>4. /\ at \in [Threads -> {"process", "gvt"}]
      /\ gvt_accumulator \in [Threads -> 1 .. Inf]
      /\ reducing_p \in [Threads -> 0 .. Inf]
      /\ returned \in [Threads -> 0 .. Inf]
      /\ \A th \in Threads : Pos(th) \in 0 .. 16
  BY DEF IInv, TypeOK, RoundIInv, GvtTypeOK, InStep
<1>5. QED
  BY <1>1, <1>2, <1>3, <1>4

\* A value bounds what is pending when it does so thread by thread.
LEMMA PendingIsOfThreads ==
  ASSUME NEW t
  PROVE  t \in Pending <=> \E th \in Threads : t \in PendingOf(th)
BY DEF Pending, PendingOf

\* All threads are idle, with nothing processed.
LEMMA InitIInv == Init => IInv
<1> SUFFICES ASSUME Init PROVE IInv
  OBVIOUS
<1>1. RoundIInv
  BY RoundInit DEF Init
<1>2. TypeOK
  BY <1>1, GvtAssumption DEF Init, TypeOK, RoundIInv
<1>3. \A th \in Threads : Pos(th) = 0 /\ hand[th] = 0 /\ at[th] = "process"
  BY DEF Init, GvtInit, Pos
<1>4. HandsAreCounted /\ DoneHasMinimum /\ PendingIsBounded
  BY <1>3 DEF HandsAreCounted, DoneHasMinimum, PendingIsBounded, IsComputed,
     ThreadsAt, Covered
<1>5. GvtIsLowerBound
  BY <1>2 DEF GvtIsLowerBound, Pending, Init, GvtInit, TypeOK, Times
<1>6. QED
  BY <1>1, <1>2, <1>4, <1>5 DEF IInv

-----------------------------------------------------------------------------
\* Steps of the main loop that leave the reduction where it is.
LEMMA PositionsStand ==
  ASSUME UNCHANGED <<thread_phase, node_phase>>
  PROVE  /\ \A x \in Threads : Pos(x)' = Pos(x)
         /\ IsComputed' <=> IsComputed
<1>1. \A x \in Threads : Pos(x)' = Pos(x)
  BY DEF Pos
<1>2. QED
  BY <1>1 DEF IsComputed, ThreadsAt

\* Extracting an earliest message covers the queue it leaves.
LEMMA ExtractStep ==
  ASSUME IInv, NEW th \in Threads, Extract(th)
  PROVE  IInv'
<1> DEFINE t == Min(queue[th])
<1>1. /\ at[th] = "process" /\ hand[th] = 0
      /\ hand' = [hand EXCEPT ![th] = t] /\ at' = at
      /\ \E q \in {queue[th], queue[th] \ {t}} : queue' = [queue EXCEPT ![th] = q]
      /\ OnExtraction(th, t)
  BY DEF Extract
<1>2. t \in queue[th] /\ \A u \in queue[th] : t <= u
  BY Types, MinIsLeast DEF Extract
<1>3. t \in Times /\ t \in 1 .. MaxT
  BY <1>2, Types DEF Times
<1>4. RoundIInv'
  BY <1>1, <1>3, RoundExtraction DEF IInv
<1>5. /\ \A x \in Threads : Pos(x)' = Pos(x)
      /\ IsComputed' <=> IsComputed
      /\ reducing_p' = reducing_p /\ returned' = returned
      /\ gvt_accumulator' =
           [gvt_accumulator EXCEPT ![th] = IF t < @ THEN t ELSE @]
  BY <1>1, PositionsStand DEF OnExtraction
<1>6. TypeOK'
  BY <1>1, <1>3, <1>4, Types DEF TypeOK, RoundIInv
<1>7. /\ \A x \in Threads : PendingOf(x)' \subseteq PendingOf(x)
      /\ \A x \in Threads \ {th} : PendingOf(x)' = PendingOf(x)
      /\ \A u \in PendingOf(th)' : t <= u
  BY <1>1, <1>2, <1>3, Types DEF PendingOf
<1>8. \A x \in Threads : Bound(x)' <= Bound(x)
  BY <1>3, <1>5, Types DEF Bound
<1>9. HandsAreCounted'
  BY <1>1, <1>3, <1>5, Types DEF HandsAreCounted, IInv
<1>10. PendingIsBounded'
  <2>1. ASSUME ~ IsComputed, NEW x \in Threads, Covered(x)', NEW u \in PendingOf(x)'
        PROVE  \E y \in Threads : Bound(y)' <= u
    <3>1. u \in Nat
      BY <1>7, <2>1, Types
    <3>2. CASE Covered(x)
      <4>1. PICK y \in Threads : Bound(y) <= u
        BY <1>7, <2>1, <3>2 DEF IInv, PendingIsBounded
      <4>2. Bound(y) \in Nat /\ Bound(y)' \in Nat
        BY <1>3, <1>5, Types DEF Bound
      <4>3. QED
        BY <1>8, <3>1, <4>1, <4>2
    <3>3. CASE ~ Covered(x)
      <4>1. x = th /\ Pos(th) = 3
        BY <1>1, <1>5, <2>1, <3>3 DEF Covered
      <4>2. Bound(th)' <= t
        BY <1>3, <1>5, <4>1, Types DEF Bound
      <4>3. t <= u /\ Bound(th)' \in Nat
        BY <1>3, <1>5, <1>7, <2>1, <4>1, Types DEF Bound
      <4>4. QED
        BY <1>3, <3>1, <4>2, <4>3
    <3>4. QED
      BY <3>2, <3>3
  <2>2. ASSUME IsComputed, NEW x \in Threads, NEW u \in PendingOf(x)'
        PROVE  reducing_p'[Master] <= u
    <3>1. u \in PendingOf(x)
      BY <1>7, <2>2
    <3>2. reducing_p[Master] <= u
      BY <2>2, <3>1 DEF IInv, PendingIsBounded
    <3>3. QED
      BY <1>5, <3>2
  <2>3. QED
    BY <1>5, <2>1, <2>2 DEF PendingIsBounded
<1>11. GvtIsLowerBound'
  <2>1. \A u : u \in Pending' => u \in Pending
    BY <1>7 DEF Pending, PendingOf
  <2>2. QED
    BY <1>5, <2>1 DEF IInv, GvtIsLowerBound
<1>12. DoneHasMinimum'
  BY <1>5 DEF IInv, DoneHasMinimum
<1>13. QED
  BY <1>4, <1>6, <1>9, <1>10, <1>11, <1>12 DEF IInv

\* What is sent is not earlier than the message in hand, which is bounded.
LEMMA InsertStep ==
  ASSUME IInv, NEW th \in Threads, Insert(th)
  PROVE  IInv'
<1>1. PICK dst \in Threads, t \in hand[th] .. MaxT :
        queue' = [queue EXCEPT ![dst] = @ \cup {t}]
  BY DEF Insert
<1>2. hand[th] # 0 /\ UNCHANGED <<gvtVars, at, hand>>
  BY DEF Insert
<1>3. t \in Times /\ hand[th] \in PendingOf(th) /\ hand[th] \in Nat /\ hand[th] <= t
  BY <1>1, <1>2, Types DEF Times, PendingOf
<1>4. RoundIInv'
  BY <1>2, RoundStutters DEF IInv
<1>5. /\ \A x \in Threads : Pos(x)' = Pos(x)
      /\ IsComputed' <=> IsComputed
      /\ UNCHANGED <<reducing_p, returned, gvt_accumulator, at, hand>>
  BY <1>2, PositionsStand DEF gvtVars
<1>6. \A x \in Threads : (Bound(x)' = Bound(x)) /\ (Covered(x)' <=> Covered(x))
  BY <1>5 DEF Bound, Covered
<1>7. TypeOK'
  BY <1>1, <1>2, <1>3, <1>4, Types DEF TypeOK, RoundIInv
<1>8. \A x \in Threads : \A u \in PendingOf(x)' : u \in PendingOf(x) \/ (x = dst /\ u = t)
  BY <1>1, <1>2, Types DEF PendingOf
<1>9. HandsAreCounted' /\ DoneHasMinimum'
  BY <1>5 DEF HandsAreCounted, DoneHasMinimum, IInv
<1>10. ASSUME ~ IsComputed, Covered(dst)
       PROVE  \E y \in Threads : Bound(y) <= t
  <2>1. Pos(dst) \in 3 .. 16
    BY <1>10 DEF Covered
  <2>2. Pos(th) # 0
    <3>1. Pos(dst) \in 3 .. 13 \/ \E x \in Threads : Pos(x) = 13
      BY <1>10, <2>1 DEF IsComputed, ThreadsAt
    <3>2. PICK x \in Threads : Pos(x) \in 3 .. 13
      BY <3>1
    <3>3. x = th \/ Pos(th) \in Beside(Pos(x))
      BY DEF IInv, RoundIInv, InStep
    <3>4. QED
      BY <3>2, <3>3 DEF Beside
  <2>3. CASE Pos(th) \in 1 .. 10
    <3>1. Bound(th) <= hand[th]
      BY <1>2, <2>3 DEF Bound, IInv, HandsAreCounted
    <3>2. Bound(th) \in Nat
      BY Types DEF Bound
    <3>3. QED
      BY <1>1, <1>3, <3>1, <3>2, Types
  <2>4. CASE Pos(th) \in 11 .. 16
    <3>1. PICK y \in Threads : Bound(y) <= hand[th]
      BY <1>3, <1>10, <2>4 DEF Covered, IInv, PendingIsBounded
    <3>2. Bound(y) \in Nat
      BY Types DEF Bound
    <3>3. QED
      BY <1>1, <1>3, <3>1, <3>2, Types
  <2>5. QED
    BY <2>2, <2>3, <2>4, Types
<1>11. PendingIsBounded'
  <2>1. ASSUME ~ IsComputed, NEW x \in Threads, Covered(x), NEW u \in PendingOf(x)'
        PROVE  \E y \in Threads : Bound(y)' <= u
    <3>1. \E y \in Threads : Bound(y) <= u
      BY <1>8, <1>10, <2>1 DEF IInv, PendingIsBounded
    <3>2. QED
      BY <1>6, <3>1
  <2>2. ASSUME IsComputed, NEW x \in Threads, NEW u \in PendingOf(x)'
        PROVE  reducing_p[Master] <= u
    <3>1. reducing_p[Master] <= hand[th]
      BY <1>3, <2>2 DEF IInv, PendingIsBounded
    <3>2. reducing_p[Master] <= t
      BY <1>1, <1>3, <3>1, GvtAssumption, Types
    <3>3. u \in PendingOf(x) => reducing_p[Master] <= u
      BY <2>2 DEF IInv, PendingIsBounded
    <3>4. QED
      BY <1>8, <2>2, <3>2, <3>3
  <2>3. QED
    BY <1>5, <1>6, <2>1, <2>2 DEF PendingIsBounded
<1>12. GvtIsLowerBound'
  <2> SUFFICES ASSUME NEW x \in Threads, NEW u \in Pending' PROVE returned[x] <= u
    BY <1>5 DEF GvtIsLowerBound
  <2>1. returned[x] <= hand[th]
    BY <1>3, PendingIsOfThreads DEF IInv, GvtIsLowerBound
  <2>2. returned[x] <= t
    BY <1>1, <1>3, <2>1, Types
  <2>3. u = t \/ u \in Pending
    <3>1. PICK y \in Threads : u \in PendingOf(y)'
      BY DEF Pending, PendingOf
    <3>2. QED
      BY <1>8, <3>1, PendingIsOfThreads
  <2>4. QED
    BY <2>2, <2>3 DEF IInv, GvtIsLowerBound
<1>13. QED
  BY <1>4, <1>7, <1>9, <1>11, <1>12 DEF IInv

\* The end of process_msg, an empty queue, and a call of gvt_phase_run that
\* has to wait: a thread goes on in its loop with nothing in hand.
LEMMA LoopStep ==
  ASSUME IInv, NEW th \in Threads, Finish(th) \/ Poll(th) \/ GvtWait(th)
  PROVE  IInv'
<1>1. /\ UNCHANGED <<gvtVars, queue>>
      /\ hand' = [hand EXCEPT ![th] = 0]
      /\ \E next \in {"process", "gvt"} : at' = [at EXCEPT ![th] = next]
  BY Types DEF Finish, Poll, GvtWait, IInv, HandsAreCounted
<1>2. RoundIInv'
  BY <1>1, RoundStutters DEF IInv
<1>3. /\ \A x \in Threads : Pos(x)' = Pos(x)
      /\ IsComputed' <=> IsComputed
      /\ UNCHANGED <<reducing_p, returned, gvt_accumulator, queue>>
  BY <1>1, PositionsStand DEF gvtVars
<1>4. \A x \in Threads : PendingOf(x)' \subseteq PendingOf(x)
  BY <1>1, Types DEF PendingOf
<1>5. ASSUME NEW x \in Threads, Covered(x)', PendingOf(x)' # {}
      PROVE  Covered(x)
  <2>1. CASE x # th
    BY <1>1, <1>3, <1>5, <2>1, Types DEF Covered
  <2>2. CASE x = th
    <3>1. hand'[th] = 0
      BY <1>1, Types
    <3>2. Finish(th) \/ GvtWait(th) => (hand[th] # 0 \/ at[th] = "gvt")
      BY DEF Finish, GvtWait
    <3>3. Poll(th) => PendingOf(th)' = {}
      BY <3>1 DEF Poll, PendingOf
    <3>4. QED
      BY <1>3, <1>5, <2>2, <3>2, <3>3 DEF Covered
  <2>3. QED
    BY <2>1, <2>2
<1>6. TypeOK'
  BY <1>1, <1>2, Types DEF TypeOK, RoundIInv
<1>7. HandsAreCounted'
  BY <1>1, <1>3, Types DEF HandsAreCounted, IInv
<1>8. DoneHasMinimum'
  BY <1>3 DEF DoneHasMinimum, IInv
<1>9. \A x \in Threads : Bound(x)' = Bound(x)
  BY <1>3 DEF Bound
<1>10. PendingIsBounded'
  <2>1. ASSUME ~ IsComputed, NEW x \in Threads, Covered(x)', NEW u \in PendingOf(x)'
        PROVE  \E y \in Threads : Bound(y)' <= u
    <3>1. u \in PendingOf(x) /\ Covered(x)
      BY <1>4, <1>5, <2>1
    <3>2. \E y \in Threads : Bound(y) <= u
      BY <2>1, <3>1 DEF IInv, PendingIsBounded
    <3>3. QED
      BY <1>9, <3>2
  <2>2. ASSUME IsComputed, NEW x \in Threads, NEW u \in PendingOf(x)'
        PROVE  reducing_p[Master] <= u
    <3>1. u \in PendingOf(x)
      BY <1>4, <2>2
    <3>2. QED
      BY <2>2, <3>1 DEF IInv, PendingIsBounded
  <2>3. QED
    BY <1>3, <2>1, <2>2 DEF PendingIsBounded
<1>11. GvtIsLowerBound'
  <2>1. \A u : u \in Pending' => u \in Pending
    BY <1>4 DEF Pending, PendingOf
  <2>2. QED
    BY <1>3, <2>1 DEF IInv, GvtIsLowerBound
<1>12. QED
  BY <1>2, <1>6, <1>7, <1>8, <1>10, <1>11 DEF IInv

-----------------------------------------------------------------------------
\* When a thread computes the minimum, all have copied their accumulators,
\* and what is pending is bounded by one of the copies.
LEMMA MinimumBounds ==
  ASSUME IInv, NEW th \in Threads, Pos(th) = 13,
         NEW x \in Threads, NEW t \in PendingOf(x)
  PROVE  NodeReduce <= t
<1>1. \A y \in Threads : Pos(y) \in {11, 12, 13, 15}
  <2>1. \A y \in Threads \ {th} : Pos(y) \in Beside(Pos(th))
    BY DEF IInv, RoundIInv, InStep
  <2>2. QED
    BY <2>1 DEF Beside
<1>2. ~ IsComputed /\ Covered(x)
  BY <1>1 DEF IsComputed, ThreadsAt, Covered
<1>3. PICK y \in Threads : Bound(y) <= t
  BY <1>2 DEF IInv, PendingIsBounded
<1>4. Bound(y) = reducing_p[y]
  BY <1>1 DEF Bound
<1>5. NodeReduce \in Nat /\ NodeReduce <= reducing_p[y] /\ reducing_p[y] \in Nat
  BY NodeReduceIsLeast, Types DEF IInv, TypeOK
<1>6. t \in Nat
  BY Types
<1>7. QED
  BY <1>3, <1>4, <1>5, <1>6

\* A call of gvt_phase_run that moves the thread from p to q in the round.
LEMMA GvtStepBounds ==
  ASSUME IInv, NEW th \in Threads, GvtStep(th), RoundIInv',
         NEW p, NEW q, Goes(th, p, q)
  PROVE  PendingIsBounded'
<1>1. /\ p \in 0 .. 16 /\ q \in 0 .. 16
      /\ Moves(th, p, q) /\ Onward(p, q) /\ DataFollow(th, p, q)
      /\ InStep /\ CountersExact /\ InStep' /\ FirstStays
  BY DEF Goes, IInv, RoundIInv
<1>2. Pos(th) = p /\ Pos(th)' = q /\ \A x \in Threads \ {th} : Pos(x)' = Pos(x)
  BY <1>1 DEF Moves
<1>3. /\ \A x \in Threads \ {th} : Pos(x) \in Beside(p) /\ Pos(x) \in 0 .. 16
      /\ \A x \in Threads \ {th} : Pos(x) \in Beside(q)
  BY <1>1, <1>2 DEF InStep
<1>4. /\ at[th] = "gvt" /\ hand[th] = 0 /\ UNCHANGED <<queue, hand>>
      /\ at' = [at EXCEPT ![th] = IF q = 13 THEN "gvt" ELSE "process"]
  <2>1. InCall(th)' <=> q = 13
    BY <1>1, <1>2 DEF InCall, Pos
  <2>2. QED
    BY <2>1 DEF GvtStep, IInv, HandsAreCounted
<1>5. \A x \in Threads : PendingOf(x)' = PendingOf(x)
  BY <1>4 DEF PendingOf
<1>6. \A x \in Threads \ {th} : Covered(x)' <=> Covered(x)
  BY <1>2, <1>4, Types DEF Covered
<1>7. IsComputed <=> /\ \E x \in Threads : Pos(x) \in {14, 15, 16}
                     /\ \A x \in Threads : Pos(x) # 13
  BY DEF IsComputed, ThreadsAt
<1>8. IsComputed' <=> /\ q \in {14, 15, 16} \/ \E x \in Threads \ {th} : Pos(x) \in {14, 15, 16}
                      /\ q # 13 /\ \A x \in Threads \ {th} : Pos(x) # 13
  BY <1>2 DEF IsComputed, ThreadsAt
\* the minimum is in the slot
<1>9. ASSUME IsComputed', NEW x \in Threads, NEW t \in PendingOf(x)
      PROVE  reducing_p'[Master] <= t
  <2>1. CASE p = 13
    <3>1. NodeReduce <= t
      BY <1>2, <1>9, <2>1, MinimumBounds
    <3>2. reducing_p'[Master] = NodeReduce
      BY <1>1, <2>1, GvtAssumption, Types DEF DataFollow
    <3>3. QED
      BY <3>1, <3>2
  <2>2. CASE p # 13
    <3>1. IsComputed
      <4>1. CASE q = 15
        <5>1. PICK y \in Threads : Pos(y) \in 13 .. 16
          BY <1>1, <1>2, <4>1, CountersTellSome DEF Onward
        <5>2. QED
          BY <1>1, <1>2, <1>7, <1>8, <1>9, <2>2, <4>1, <5>1 DEF Onward
      <4>2. CASE q # 15
        BY <1>1, <1>2, <1>7, <1>8, <1>9, <2>2, <4>2 DEF Onward
      <4>3. QED
        BY <4>1, <4>2
    <3>2. p \notin {3, 10}
      <4>1. p \in {3, 10} => \A y \in Threads : Pos(y) \in {3, 4, 10, 11}
        BY <1>1, CountersTell DEF Onward
      <4>2. QED
        BY <1>7, <3>1, <4>1
    <3>3. reducing_p' = reducing_p
      BY <1>1, <2>2, <3>2 DEF DataFollow
    <3>4. QED
      BY <1>9, <3>1, <3>3 DEF IInv, PendingIsBounded
  <2>3. QED
    BY <2>1, <2>2
\* the minimum is not in the slot
<1>10. ASSUME ~ IsComputed', NEW x \in Threads, Covered(x)', NEW t \in PendingOf(x)
       PROVE  \E y \in Threads : Bound(y)' <= t
  <2>1. Covered(x) /\ (x = th => q \in 4 .. 16)
    <3>1. CASE x = th
      <4>1. q \in 4 .. 16
        BY <1>2, <1>4, <1>10, <3>1, Types DEF Covered
      <4>2. p \in 3 .. 16
        BY <1>1, <4>1 DEF Onward
      <4>3. QED
        BY <1>2, <1>4, <3>1, <4>1, <4>2 DEF Covered
    <3>2. CASE x # th
      BY <1>6, <1>10, <3>2
    <3>3. QED
      BY <3>1, <3>2
  <2>2. p # 0
    <3>1. p = 0 => q = 1
      BY <1>1 DEF Onward
    <3>2. x # th => Pos(x) \in Beside(q)
      BY <1>3
    <3>3. Pos(x) \in 3 .. 16
      BY <2>1 DEF Covered
    <3>4. QED
      BY <2>1, <3>1, <3>2, <3>3 DEF Beside
  <2>3. p # 16
    <3>1. SUFFICES ASSUME p = 16 PROVE FALSE
      OBVIOUS
    <3>2. q = 0
      BY <1>1, <3>1 DEF Onward
    <3>3. x # th /\ \A y \in Threads \ {th} : Pos(y) \in {0, 15, 16}
      BY <1>3, <2>1, <3>1, <3>2 DEF Beside
    <3>4. Pos(x) = 0
      BY <1>8, <1>10, <3>2, <3>3
    <3>5. QED
      BY <2>1, <3>4 DEF Covered
  <2>4. p # 13
    <3>1. p = 13 => q = 14 /\ \A y \in Threads \ {th} : Pos(y) # 13
      BY <1>1, <1>3 DEF Onward, Beside
    <3>2. QED
      BY <1>8, <1>10, <3>1
  <2>5. ~ IsComputed
    <3>1. SUFFICES ASSUME IsComputed PROVE FALSE
      OBVIOUS
    <3>2. CASE p \in {14, 15}
      BY <1>1, <1>7, <1>8, <1>10, <3>1, <3>2 DEF Onward
    <3>3. CASE p \in 1 .. 12
      <4>1. q # 13
        BY <1>1, <1>7, <3>1, CountersTell DEF Onward
      <4>2. QED
        BY <1>2, <1>7, <1>8, <1>10, <3>1, <3>3, <4>1
    <3>4. QED
      BY <1>1, <2>2, <2>3, <2>4, <3>2, <3>3
  <2>6. PICK y \in Threads : Bound(y) <= t
    BY <2>1, <2>5 DEF IInv, PendingIsBounded
  <2>7. Bound(y)' = Bound(y)
    <3>1. gvt_accumulator' = gvt_accumulator
      BY <1>1, <2>2 DEF DataFollow
    <3>2. CASE y # th
      BY <1>1, <1>2, <2>4, <3>1, <3>2, Types DEF Bound, DataFollow
    <3>3. CASE y = th /\ p = 10
      BY <1>1, <1>2, <3>1, <3>3, Types DEF Bound, DataFollow, Onward
    <3>4. CASE y = th /\ p \in 1 .. 9
      <4>1. q \in 1 .. 10
        BY <1>1, <3>4 DEF Onward
      <4>2. QED
        BY <1>2, <3>1, <3>4, <4>1 DEF Bound
    <3>5. CASE y = th /\ p \in {11, 12, 14, 15}
      <4>1. q \in 11 .. 16 /\ reducing_p' = reducing_p
        BY <1>1, <3>5 DEF Onward, DataFollow
      <4>2. QED
        BY <1>2, <3>5, <4>1 DEF Bound
    <3>6. QED
      BY <1>1, <2>2, <2>3, <2>4, <3>2, <3>3, <3>4, <3>5
  <2>8. QED
    BY <2>6, <2>7
<1>11. QED
  BY <1>5, <1>9, <1>10 DEF PendingIsBounded

\* A call of gvt_phase_run keeps the invariant.
LEMMA GvtStepStep ==
  ASSUME IInv, NEW th \in Threads, GvtStep(th)
  PROVE  IInv'
<1>1. PICK p, q \in 0 .. 16 : Goes(th, p, q)
  BY StepGoes DEF GvtStep, IInv
<1>2. RoundIInv'
  BY RoundStep DEF GvtStep, IInv
<1>3. /\ Moves(th, p, q) /\ Onward(p, q) /\ DataFollow(th, p, q)
      /\ InStep /\ CountersExact
  BY <1>1 DEF Goes, IInv, RoundIInv
<1>4. Pos(th) = p /\ Pos(th)' = q /\ \A x \in Threads \ {th} : Pos(x)' = Pos(x)
  BY <1>3 DEF Moves
<1>5. /\ at[th] = "gvt" /\ hand[th] = 0 /\ UNCHANGED <<queue, hand>>
      /\ \E place \in {"process", "gvt"} : at' = [at EXCEPT ![th] = place]
  BY DEF GvtStep, IInv, HandsAreCounted
<1>6. TypeOK'
  BY <1>2, <1>5, Types DEF TypeOK, RoundIInv
<1>7. HandsAreCounted'
  BY <1>3, <1>4, <1>5, Types DEF HandsAreCounted, IInv, DataFollow
<1>8. PendingIsBounded'
  BY <1>1, <1>2, GvtStepBounds
<1>9. q = 16 => IsComputed /\ reducing_p' = reducing_p
  <2>1. SUFFICES ASSUME q = 16 PROVE IsComputed /\ reducing_p' = reducing_p
    OBVIOUS
  <2>2. p \in {14, 15}
    BY <1>3, <2>1 DEF Onward
  <2>3. \A x \in Threads \ {th} : Pos(x) # 13
    <3>1. \A x \in Threads \ {th} : Pos(x) \in Beside(q)
      BY <1>2, <1>4 DEF RoundIInv, InStep
    <3>2. QED
      BY <2>1, <3>1 DEF Beside
  <2>4. QED
    BY <1>3, <1>4, <2>2, <2>3 DEF IsComputed, ThreadsAt, DataFollow
<1>10. GvtIsLowerBound'
  <2> SUFFICES ASSUME NEW x \in Threads, NEW t \in Pending' PROVE returned'[x] <= t
    BY DEF GvtIsLowerBound
  <2>1. t \in Pending
    BY <1>5 DEF Pending
  <2>2. CASE x = th /\ q = 16
    <3>1. returned'[x] = reducing_p[Master]
      BY <1>3, <2>2, Types DEF DataFollow
    <3>2. PICK y \in Threads : t \in PendingOf(y)
      BY <2>1, PendingIsOfThreads
    <3>3. QED
      BY <1>9, <2>2, <3>1, <3>2 DEF IInv, PendingIsBounded
  <2>3. CASE ~ (x = th /\ q = 16)
    <3>1. returned'[x] = returned[x]
      BY <1>3, <2>3, Types DEF DataFollow
    <3>2. QED
      BY <2>1, <3>1 DEF IInv, GvtIsLowerBound
  <2>4. QED
    BY <2>2, <2>3
<1>11. DoneHasMinimum'
  <2> SUFFICES ASSUME NEW x \in Threads, Pos(x)' = 16
               PROVE  returned'[x] = reducing_p'[Master]
    BY DEF DoneHasMinimum
  <2>1. CASE x = th
    BY <1>3, <1>4, <1>9, <2>1, Types DEF DataFollow
  <2>2. CASE x # th
    <3>1. Pos(x) = 16 /\ returned'[x] = returned[x]
      BY <1>3, <1>4, <2>2, Types DEF DataFollow
    <3>2. p \in Beside(16)
      BY <1>3, <1>4, <2>2, <3>1 DEF InStep
    <3>3. reducing_p' = reducing_p
      BY <1>3, <3>2 DEF Beside, DataFollow
    <3>4. QED
      BY <3>1, <3>3 DEF IInv, DoneHasMinimum
  <2>3. QED
    BY <2>1, <2>2
<1>12. QED
  BY <1>2, <1>6, <1>7, <1>8, <1>10, <1>11 DEF IInv

-----------------------------------------------------------------------------
\* The invariant of the reduction among threads that keep working.
THEOREM IInvHolds == Spec => []IInv
<1>1. Init => IInv
  BY InitIInv
<1>2. IInv /\ [Next]_vars => IInv'
  <2> SUFFICES ASSUME IInv, [Next]_vars PROVE IInv'
    OBVIOUS
  <2>1. CASE UNCHANGED vars
    <3>1. RoundIInv'
      BY <2>1, RoundStutters DEF vars, IInv
    <3>2. /\ \A x \in Threads : Pos(x)' = Pos(x)
          /\ IsComputed' <=> IsComputed
      BY <2>1, PositionsStand DEF vars, gvtVars
    <3>3. TypeOK'
      BY <2>1, <3>1 DEF vars, IInv, TypeOK, RoundIInv
    <3>4. HandsAreCounted' /\ DoneHasMinimum'
      BY <2>1, <3>2 DEF vars, gvtVars, IInv, HandsAreCounted, DoneHasMinimum
    <3>5. PendingIsBounded'
      <4>1. \A x \in Threads : /\ Covered(x)' <=> Covered(x)
                               /\ Bound(x)' = Bound(x)
                               /\ PendingOf(x)' = PendingOf(x)
        BY <2>1, <3>2 DEF vars, gvtVars, Covered, Bound, PendingOf
      <4>2. reducing_p' = reducing_p
        BY <2>1 DEF vars, gvtVars
      <4>3. QED
        BY <3>2, <4>1, <4>2 DEF IInv, PendingIsBounded
    <3>6. GvtIsLowerBound'
      BY <2>1 DEF vars, gvtVars, IInv, GvtIsLowerBound, Pending
    <3>7. QED
      BY <3>1, <3>3, <3>4, <3>5, <3>6 DEF IInv
  <2>2. CASE Next
    BY <2>2, ExtractStep, InsertStep, LoopStep, GvtStepStep DEF Next
  <2>3. QED
    BY <2>1, <2>2
<1>3. QED
  BY <1>1, <1>2, PTL DEF Spec

\* Every value has its type; in particular no counter of gvt.c goes below
\* zero or above the number of threads, which its code never tests.
THEOREM TypeCorrect == Spec => []TypeOK
<1>1. IInv => TypeOK
  BY DEF IInv
<1>2. QED
  BY <1>1, IInvHolds, PTL

\* Nothing earlier than a GVT that gvt_phase_run has returned is queued or
\* processed, now or later, for any number of threads and of messages.
THEOREM LowerBound == Spec => []GvtIsLowerBound
<1>1. IInv => GvtIsLowerBound
  BY DEF IInv
<1>2. QED
  BY <1>1, IInvHolds, PTL

\* The threads of a node get the same GVT from a round, however late one of
\* them reads the slot of the master.
THEOREM Agreement == Spec => []RoundAgrees
<1>1. IInv => RoundAgrees
  <2> SUFFICES ASSUME IInv, NEW a \in Threads, NEW b \in Threads,
                      node_phase[a] = "done", node_phase[b] = "done"
               PROVE  returned[a] = returned[b]
    BY DEF RoundAgrees
  <2>1. Pos(a) \in 0 .. 16 /\ Pos(b) \in 0 .. 16
    BY Types
  <2>2. Pos(a) = 16 /\ Pos(b) = 16
    BY <2>1 DEF Pos
  <2>3. QED
    BY <2>2 DEF IInv, DoneHasMinimum
<1>2. QED
  BY <1>1, IInvHolds, PTL

-----------------------------------------------------------------------------
(***************************************************************************)
(* The GVT never goes back.  What is extracted is not earlier than the     *)
(* last GVT (IInv), so neither is what the threads put in the next one.    *)
(***************************************************************************)
ReturnedIsBelow ==
  \A y \in Threads :
    /\ ~ IsComputed => \A x \in Threads : Pos(x) # 0 => returned[y] <= Bound(x)
    /\ IsComputed => returned[y] <= reducing_p[Master]

\* What is extracted is not below the last GVT.
LEMMA ExtractBelow ==
  ASSUME IInv, ReturnedIsBelow, NEW th \in Threads, Extract(th)
  PROVE  ReturnedIsBelow'
<1> DEFINE t == Min(queue[th])
<1>1. t \in queue[th] /\ t \in Pending
  BY Types, MinIsLeast DEF Extract, Pending
<1>2. /\ \A x \in Threads : Pos(x)' = Pos(x)
      /\ IsComputed' <=> IsComputed
      /\ reducing_p' = reducing_p /\ returned' = returned
      /\ gvt_accumulator' =
           [gvt_accumulator EXCEPT ![th] = IF t < @ THEN t ELSE @]
  BY PositionsStand DEF Extract, OnExtraction
<1>3. \A x \in Threads : Bound(x)' \in {Bound(x), t}
  BY <1>2, Types DEF Bound
<1>4. \A y \in Threads : returned[y] <= t
  BY <1>1 DEF IInv, GvtIsLowerBound
<1>5. QED
  BY <1>2, <1>3, <1>4 DEF ReturnedIsBelow

\* A call of gvt_phase_run returns no less than the last GVT.
LEMMA GvtStepBelow ==
  ASSUME IInv, ReturnedIsBelow, IInv', NEW th \in Threads, GvtStep(th)
  PROVE  /\ ReturnedIsBelow'
         /\ \A y \in Threads : returned[y] <= returned'[y]
<1>1. PICK p, q \in 0 .. 16 : Goes(th, p, q)
  BY StepGoes DEF GvtStep, IInv
<1>2. /\ Moves(th, p, q) /\ Onward(p, q) /\ DataFollow(th, p, q)
      /\ InStep /\ CountersExact /\ InStep' /\ CountersExact'
  BY <1>1 DEF Goes, IInv, RoundIInv
<1>3. Pos(th) = p /\ Pos(th)' = q /\ \A x \in Threads \ {th} : Pos(x)' = Pos(x)
  BY <1>2 DEF Moves
<1>4. /\ \A x \in Threads \ {th} : Pos(x) \in Beside(p) /\ Pos(x) \in 0 .. 16
      /\ \A x \in Threads \ {th} : Pos(x) \in Beside(q)
  BY <1>2, <1>3 DEF InStep
<1>5. IsComputed <=> /\ \E x \in Threads : Pos(x) \in {14, 15, 16}
                     /\ \A x \in Threads : Pos(x) # 13
  BY DEF IsComputed, ThreadsAt
<1>6. IsComputed' <=> /\ q \in {14, 15, 16} \/ \E x \in Threads \ {th} : Pos(x) \in {14, 15, 16}
                      /\ q # 13 /\ \A x \in Threads \ {th} : Pos(x) # 13
  BY <1>3 DEF IsComputed, ThreadsAt
<1>7. \A y \in Threads : returned[y] \in 0 .. Inf
  BY Types
<1>8. CASE p = 13
  <2>1. q = 14 /\ ~ IsComputed /\ IsComputed'
    BY <1>2, <1>3, <1>4, <1>5, <1>6, <1>8 DEF Onward, Beside
  <2>2. PICK x \in Threads : NodeReduce = reducing_p[x]
    BY NodeReduceIsLeast DEF IInv, TypeOK
  <2>3. Pos(x) \in 11 .. 16
    BY <1>3, <1>4, <1>8 DEF Beside
  <2>4. \A y \in Threads : returned[y] <= NodeReduce
    BY <2>1, <2>2, <2>3 DEF ReturnedIsBelow, Bound
  <2>5. returned' = returned /\ reducing_p'[Master] = NodeReduce
    BY <1>2, <1>8, <2>1, GvtAssumption, Types DEF DataFollow
  <2>6. QED
    BY <1>7, <2>1, <2>4, <2>5 DEF ReturnedIsBelow
<1>9. CASE q = 16
  <2>1. IsComputed /\ IsComputed' /\ reducing_p' = reducing_p
    BY <1>2, <1>3, <1>4, <1>5, <1>6, <1>9 DEF Onward, Beside, DataFollow
  <2>2. \A y \in Threads : returned'[y] = IF y = th THEN reducing_p[Master] ELSE returned[y]
    BY <1>2, <1>9, Types DEF DataFollow
  <2>3. \A y \in Threads : returned[y] <= reducing_p[Master]
    BY <2>1 DEF ReturnedIsBelow
  <2>4. reducing_p[Master] \in 0 .. Inf
    BY GvtAssumption, Types
  <2>5. QED
    BY <1>7, <2>1, <2>2, <2>3, <2>4, Types DEF ReturnedIsBelow
<1>10. CASE p = 16
  <2>1. q = 0 /\ returned' = returned /\ reducing_p' = reducing_p
    BY <1>2, <1>10 DEF Onward, DataFollow
  <2>2. IsComputed /\ \A x \in Threads \ {th} : Pos(x) \in {0, 15, 16}
    BY <1>3, <1>4, <1>5, <1>10 DEF Beside
  <2>3. ~ IsComputed' => \A x \in Threads : Pos(x)' = 0
    BY <1>3, <1>6, <2>1, <2>2
  <2>4. QED
    BY <1>7, <2>1, <2>2, <2>3, Types DEF ReturnedIsBelow
<1>11. CASE p \notin {13, 16} /\ q # 16
  <2>1. returned' = returned
    BY <1>2, <1>11 DEF DataFollow
  <2>2. CASE IsComputed'
    <3>1. IsComputed
      <4>1. CASE q = 15
        <5>1. PICK y \in Threads : Pos(y) \in 13 .. 16
          BY <1>2, <1>3, <4>1, CountersTellSome DEF Onward
        <5>2. QED
          BY <1>2, <1>3, <1>5, <1>6, <1>11, <2>2, <4>1, <5>1 DEF Onward
      <4>2. CASE q # 15
        BY <1>2, <1>3, <1>5, <1>6, <1>11, <2>2, <4>2 DEF Onward
      <4>3. QED
        BY <4>1, <4>2
    <3>2. p \notin {3, 10}
      <4>1. p \in {3, 10} => \A y \in Threads : Pos(y) \in {3, 4, 10, 11}
        BY <1>2, CountersTell DEF Onward
      <4>2. QED
        BY <1>5, <3>1, <4>1
    <3>3. reducing_p' = reducing_p
      BY <1>2, <1>11, <3>2 DEF DataFollow
    <3>4. QED
      BY <1>7, <2>1, <2>2, <3>1, <3>3, Types DEF ReturnedIsBelow
  <2>3. CASE ~ IsComputed'
    <3>1. ~ IsComputed
      <4>1. q # 13 \/ \A x \in Threads : Pos(x) \notin 13 .. 16
        BY <1>2, CountersTell DEF Onward
      <4>2. QED
        BY <1>2, <1>3, <1>5, <1>6, <1>11, <2>3, <4>1 DEF Onward
    <3>2. ASSUME NEW y \in Threads, NEW x \in Threads, Pos(x)' # 0
          PROVE  returned[y] <= Bound(x)'
      <4>1. CASE p = 0 /\ x = th
        <5>1. Bound(x)' = Inf
          BY <1>2, <1>3, <4>1, Types DEF Onward, DataFollow, Bound
        <5>2. QED
          BY <1>7, <5>1, Types
      <4>2. CASE ~ (p = 0 /\ x = th)
        <5>1. Pos(x) # 0
          BY <1>3, <3>2, <4>2
        <5>2. Bound(x)' = Bound(x)
          <6>1. gvt_accumulator'[x] = gvt_accumulator[x]
            BY <1>2, <4>2, Types DEF DataFollow
          <6>2. CASE x # th
            BY <1>2, <1>3, <1>11, <6>1, <6>2, Types DEF Bound, DataFollow
          <6>3. CASE x = th /\ p = 10
            BY <1>2, <1>3, <6>1, <6>3, Types DEF Bound, DataFollow, Onward
          <6>4. CASE x = th /\ p \in 1 .. 9
            <7>1. q \in 1 .. 10
              BY <1>2, <6>4 DEF Onward
            <7>2. QED
              BY <1>3, <6>1, <6>4, <7>1 DEF Bound
          <6>5. CASE x = th /\ p \in {11, 12}
            <7>1. q \in 11 .. 16 /\ reducing_p' = reducing_p
              BY <1>2, <6>5 DEF Onward, DataFollow
            <7>2. QED
              BY <1>3, <6>5, <7>1 DEF Bound
          <6>6. p \in 1 .. 12 \/ x # th
            BY <1>2, <1>11, <4>2 DEF Onward
          <6>7. QED
            BY <6>2, <6>3, <6>4, <6>5, <6>6
        <5>3. QED
          BY <3>1, <5>1, <5>2 DEF ReturnedIsBelow
      <4>3. QED
        BY <4>1, <4>2
    <3>3. QED
      BY <1>7, <2>1, <2>3, <3>2, Types DEF ReturnedIsBelow
  <2>4. QED
    BY <2>2, <2>3
<1>12. QED
  BY <1>8, <1>9, <1>10, <1>11

\* The other steps of the main loop change no value of the reduction.
LEMMA LoopBelow ==
  ASSUME IInv, ReturnedIsBelow, UNCHANGED gvtVars
  PROVE  ReturnedIsBelow' /\ returned' = returned
<1>1. /\ \A x \in Threads : Pos(x)' = Pos(x)
      /\ IsComputed' <=> IsComputed
      /\ UNCHANGED <<reducing_p, returned, gvt_accumulator>>
  BY PositionsStand DEF gvtVars
<1>2. \A x \in Threads : Bound(x)' = Bound(x)
  BY <1>1 DEF Bound
<1>3. QED
  BY <1>1, <1>2 DEF ReturnedIsBelow

\* Fossil collection, the release of messages and the end of an LP are final:
\* a thread is never given a GVT earlier than one it was given before.
THEOREM NeverDecreases ==
  Spec => [][\A th \in Threads : returned[th] <= returned'[th]]_vars
<1> DEFINE Grows == \A th \in Threads : returned[th] <= returned'[th]
<1>1. Init => ReturnedIsBelow
  <2> SUFFICES ASSUME Init PROVE ReturnedIsBelow
    OBVIOUS
  <2>1. \A x \in Threads : Pos(x) = 0
    BY DEF Init, GvtInit, Pos
  <2>2. QED
    BY <2>1 DEF ReturnedIsBelow, IsComputed, ThreadsAt
<1>2. IInv /\ IInv' /\ ReturnedIsBelow /\ [Next]_vars => ReturnedIsBelow' /\ Grows
  <2> SUFFICES ASSUME IInv, IInv', ReturnedIsBelow, [Next]_vars
               PROVE  ReturnedIsBelow' /\ Grows
    OBVIOUS
  <2>1. returned' = returned => Grows
    BY Types
  <2>2. CASE UNCHANGED gvtVars
    BY <2>1, <2>2, LoopBelow
  <2>3. ASSUME NEW th \in Threads, Extract(th) PROVE ReturnedIsBelow' /\ Grows
    BY <2>1, <2>3, ExtractBelow DEF Extract, OnExtraction
  <2>4. ASSUME NEW th \in Threads, GvtStep(th) PROVE ReturnedIsBelow' /\ Grows
    BY <2>4, GvtStepBelow
  <2>5. QED
    BY <2>2, <2>3, <2>4 DEF Next, vars, Insert, Finish, Poll, GvtWait
<1>3. QED
  BY <1>1, <1>2, IInvHolds, PTL DEF Spec

=============================================================================
