--------------------------- MODULE ShutdownProofs ---------------------------
(***************************************************************************)
(* Proofs about the end of the worker threads.  The structure of a round   *)
(* of the GVT comes from GvtRoundProofs and the barrier from               *)
(* SyncBarrierProofs; here it is about the places of the threads.          *)
(***************************************************************************)
EXTENDS Shutdown, GvtRoundProofs

BarrierProofs == INSTANCE SyncBarrierProofs

\* The barrier of this module is the one that SyncBarrierProofs is about.
LEMMA SameSets ==
  ASSUME NEW S
  PROVE  /\ Barrier!Cardinality(S) = BarrierProofs!Cardinality(S)
         /\ Cardinality(S) = Barrier!Cardinality(S)
         /\ IsFiniteSet(S) => BarrierProofs!IsFiniteSet(S)
<1>1. Barrier!Cardinality(S) = BarrierProofs!Cardinality(S)
  BY DEF Barrier!Cardinality, BarrierProofs!Cardinality
<1>2. Cardinality(S) = Barrier!Cardinality(S)
  BY DEF Cardinality, Barrier!Cardinality
<1>3. IsFiniteSet(S) => BarrierProofs!IsFiniteSet(S)
  BY DEF IsFiniteSet, BarrierProofs!IsFiniteSet
<1>4. QED
  BY <1>1, <1>2, <1>3

\* Its assumption is one of this module,
LEMMA SameAssumption == BarrierProofs!BarrierAssumption
BY GvtAssumption, SameSets DEF BarrierProofs!BarrierAssumption

\* it counts to the same number of threads,
LEMMA SameN == Barrier!n_threads = BarrierProofs!n_threads /\ Barrier!n_threads = N
BY SameSets DEF Barrier!n_threads, BarrierProofs!n_threads, N

\* and its invariant is the same one,
LEMMA SameInvariant == Barrier!BarrierIInv <=> BarrierProofs!BarrierIInv
<1>1. Barrier!BarrierTypeOK <=> BarrierProofs!BarrierTypeOK
  BY SameN DEF Barrier!BarrierTypeOK, BarrierProofs!BarrierTypeOK
<1>2. \A th, c : Barrier!HasCounted(th, c) <=> BarrierProofs!HasCounted(th, c)
  BY DEF Barrier!HasCounted, BarrierProofs!HasCounted
<1>3. \A c : {th \in Threads : Barrier!HasCounted(th, c)} =
             {th \in Threads : BarrierProofs!HasCounted(th, c)}
  BY <1>2
<1>4. Barrier!CountersExact <=> BarrierProofs!CountersExact
  BY <1>3, SameSets DEF Barrier!CountersExact, BarrierProofs!CountersExact
<1>5. \A th : Barrier!Reached(th) = BarrierProofs!Reached(th)
  BY DEF Barrier!Reached, BarrierProofs!Reached
<1>6. Barrier!NobodyIsLeftBehind <=> BarrierProofs!NobodyIsLeftBehind
  BY DEF Barrier!NobodyIsLeftBehind, BarrierProofs!NobodyIsLeftBehind
<1>7. Barrier!OneLeader <=> BarrierProofs!OneLeader
  BY <1>5 DEF Barrier!OneLeader, BarrierProofs!OneLeader
<1>8. Barrier!LeaderIsLast <=> BarrierProofs!LeaderIsLast
  BY <1>5 DEF Barrier!LeaderIsLast, BarrierProofs!LeaderIsLast
<1>9. Barrier!LeaderIsFirst <=> BarrierProofs!LeaderIsFirst
  BY <1>5 DEF Barrier!LeaderIsFirst, BarrierProofs!LeaderIsFirst
<1>10. QED
  BY <1>1, <1>4, <1>6, <1>7, <1>8, <1>9 DEF Barrier!BarrierIInv, BarrierProofs!BarrierIInv

\* so what is proved there holds here.
LEMMA BarrierStep ==
  ASSUME Barrier!BarrierIInv, NEW th \in Threads, Barrier!Arrive(th) \/ Barrier!Leave(th)
  PROVE  Barrier!BarrierIInv'
<1>1. BarrierProofs!BarrierIInv
  BY SameInvariant
<1>2. Barrier!Arrive(th) => BarrierProofs!Arrive(th)
  BY DEF Barrier!Arrive, BarrierProofs!Arrive, Barrier!Counter, BarrierProofs!Counter,
     Barrier!CountsDown, BarrierProofs!CountsDown
<1>3. Barrier!Leave(th) => BarrierProofs!Leave(th)
  BY SameN DEF Barrier!Leave, BarrierProofs!Leave, Barrier!Counter, BarrierProofs!Counter,
     Barrier!CountsDown, BarrierProofs!CountsDown
<1>4. CASE Barrier!Arrive(th)
  <2>1. BarrierProofs!BarrierIInv'
    BY <1>1, <1>2, <1>4, SameAssumption, BarrierProofs!ArriveInv
  <2>2. QED
    BY <2>1, SameInvariant, PTL
<1>5. CASE Barrier!Leave(th)
  <2>1. BarrierProofs!BarrierIInv'
    BY <1>1, <1>3, <1>5, SameAssumption, BarrierProofs!LeaveInv
  <2>2. QED
    BY <2>1, SameInvariant, PTL
<1>6. QED
  BY <1>4, <1>5

\* The barrier does not move with the rest.
LEMMA BarrierStutters ==
  ASSUME Barrier!BarrierIInv, UNCHANGED barrierVars
  PROVE  Barrier!BarrierIInv'
<1>1. BarrierProofs!BarrierIInv
  BY SameInvariant
<1>2. [BarrierProofs!BarrierNext]_(BarrierProofs!barrierVars)
  BY DEF barrierVars, BarrierProofs!barrierVars
<1>3. BarrierProofs!BarrierIInv'
  BY <1>1, <1>2, SameAssumption, BarrierProofs!StepInv
<1>4. QED
  BY <1>3, SameInvariant, PTL

-----------------------------------------------------------------------------
\* A call of gvt_phase_run changes the position of its thread only, and
\* leaves it done when it returns a GVT.
LEMMA CallMoves ==
  ASSUME RoundIInv, NEW th \in Threads, PhaseRun(th)
  PROVE  /\ RoundIInv'
         /\ \A x \in Threads \ {th} : Pos(x)' = Pos(x)
         /\ Returns(th) => Pos(th)' = 16
<1>1. RoundIInv'
  BY RoundStep
<1>2. \A x \in Threads \ {th} : Pos(x)' = Pos(x)
  BY StepGoes DEF Goes, Moves
<1>3. ASSUME Returns(th) PROVE Pos(th)' = 16
  <2>1. node_phase'[th] = "done"
    BY <1>3 DEF Returns, MinReduceWait, MinWait, RoundIInv, GvtTypeOK
  <2>2. Pos(th)' \in 0 .. 16
    BY <1>1 DEF RoundIInv, InStep
  <2>3. QED
    BY <2>1, <2>2 DEF Pos
<1>4. QED
  BY <1>1, <1>2, <1>3

\* Positions are read from the two phases only.
LEMMA PositionsAreKept ==
  ASSUME UNCHANGED <<thread_phase, node_phase>>
  PROVE  \A x \in Threads : Pos(x)' = Pos(x)
BY DEF Pos

\* A thread that goes from one place to another between the same barriers.
LEMMA SamePassage ==
  ASSUME IInv, NEW th \in Threads, NEW place \in Places, UNCHANGED barrierVars,
         at' = [at EXCEPT ![th] = place],
         at[th] \notin Barriers, Passed(th)' = Passed(th)
  PROVE  /\ at' \in [Threads -> Places]
         /\ Barrier!BarrierIInv'
         /\ PlacesMatch'
         /\ CrossTogether'
<1>1. at \in [Threads -> Places] /\ at' \in [Threads -> Places]
  BY DEF IInv
<1>2. /\ \A x \in Threads : Passed(x)' = Passed(x)
      /\ \A x \in Threads \ {th} : at'[x] = at[x]
      /\ phase' = phase /\ inside' = inside /\ ~ inside[th]
  <2>1. \A x \in Threads \ {th} : at'[x] = at[x]
    BY <1>1
  <2>2. \A x \in Threads \ {th} : Passed(x)' = Passed(x)
    BY <2>1 DEF Passed
  <2>3. QED
    BY <2>1, <2>2 DEF barrierVars, IInv, PlacesMatch
<1>3. PlacesMatch'
  BY <1>2 DEF PlacesMatch, IInv
<1>4. CrossTogether'
  BY <1>2 DEF CrossTogether, IInv
<1>5. QED
  BY <1>1, <1>3, <1>4, BarrierStutters DEF IInv

\* The main loop and the flush, until the thread comes to the first barrier.
LEMMA LoopInv ==
  ASSUME IInv, NEW th \in Threads,
         \/ Test(th) \/ Extract(th) \/ RootsimStop(th) \/ EndBatch(th)
         \/ LoopGvt(th) \/ FlushStep(th) \/ FlushDone(th)
  PROVE  IInv'
<1>1. /\ UNCHANGED barrierVars
      /\ at[th] \in InLoop \cup {"flush"}
      /\ \E place \in InLoop \cup {"flush", "barrier_1"} : at' = [at EXCEPT ![th] = place]
  BY DEF IInv, Test, Extract, RootsimStop, EndBatch, LoopGvt, FlushStep, FlushDone,
     GoTo, InLoop
<1>2. PICK place \in InLoop \cup {"flush", "barrier_1"} : at' = [at EXCEPT ![th] = place]
  BY <1>1
<1>3. at \in [Threads -> Places] /\ place \in Places
  BY DEF IInv, Places, Barriers
<1>4. Passed(th) = 0 /\ Passed(th)' = 0 /\ at[th] \notin Barriers
  BY <1>1, <1>2, <1>3 DEF Passed, InLoop, Drains, Barriers
<1>5. at' \in [Threads -> Places] /\ Barrier!BarrierIInv' /\ PlacesMatch' /\ CrossTogether'
  BY <1>1, <1>2, <1>3, <1>4, SamePassage
<1>6. RoundIInv' /\ \A x \in Threads \ {th} : Pos(x)' = Pos(x)
  <2>1. CASE UNCHANGED gvtVars
    BY <2>1, RoundStutters, PositionsAreKept DEF IInv, gvtVars
  <2>2. CASE PhaseRun(th)
    BY <2>2, CallMoves DEF IInv
  <2>3. CASE Extract(th)
    <3>1. PICK t \in Times : OnExtraction(th, t)
      BY <2>3 DEF Extract
    <3>2. QED
      BY <3>1, RoundExtraction, PositionsAreKept DEF IInv, OnExtraction
  <2>4. QED
    BY <2>1, <2>2, <2>3 DEF Test, RootsimStop, EndBatch, LoopGvt, FlushStep, FlushDone,
       Returns, PhaseRun
<1>7. LastGvtIsKept'
  BY <1>2, <1>3, <1>6 DEF LastGvtIsKept, IInv, InLoop
<1>8. /\ thr_to_end' \in Int /\ stops' \in 0 .. Stops /\ EndIsCounted'
  <2>1. thr_to_end \in Int /\ stops \in 0 .. Stops /\ EndIsCounted /\ Stops \in Nat
    BY ShutdownAssumption DEF IInv
  <2>2. CASE UNCHANGED <<thr_to_end, stops, nodes_to_end>>
    BY <2>1, <2>2 DEF EndIsCounted
  <2>3. CASE RootsimStop(th)
    BY <2>1, <2>3 DEF EndIsCounted, RootsimStop
  <2>4. CASE TerminationOnGvt(th) /\ stops' = stops
    BY <2>1, <2>4 DEF EndIsCounted, TerminationOnGvt
  <2>5. QED
    BY <2>2, <2>3, <2>4 DEF Test, Extract, EndBatch, LoopGvt, FlushStep, FlushDone, endVars
<1>9. QED
  BY <1>5, <1>6, <1>7, <1>8 DEF IInv

\* The last two reductions, and the release of the LPs.
LEMMA DrainInv ==
  ASSUME IInv, NEW th \in Threads, DrainStep(th) \/ Fini(th)
  PROVE  IInv'
<1>1. at \in [Threads -> Places] /\ UNCHANGED <<barrierVars, endVars>>
  BY DEF IInv, DrainStep, Fini
<1>2. CASE DrainStep(th)
  <2>1. at[th] \in Drains /\ RoundIInv' /\ \A x \in Threads \ {th} : Pos(x)' = Pos(x)
    BY <1>2, CallMoves DEF DrainStep, IInv
  <2>2. PICK place \in Drains \cup {"barrier_3"} :
          /\ at' = [at EXCEPT ![th] = place]
          /\ place = "barrier_3" => Pos(th)' = 16
    <3>1. CASE Returns(th)
      BY <1>2, <3>1, CallMoves DEF DrainStep, IInv, GoTo, Drains
    <3>2. CASE ~ Returns(th)
      <4>1. at' = [at EXCEPT ![th] = at[th]]
        BY <1>1, <1>2, <3>2 DEF DrainStep
      <4>2. QED
        BY <2>1, <4>1 DEF Drains
    <3>3. QED
      BY <3>1, <3>2
  <2>3. place \in Places /\ at[th] \notin Barriers /\ Passed(th) = 2 /\ Passed(th)' = 2
    BY <1>1, <2>1, <2>2 DEF Places, Barriers, Drains, Passed
  <2>4. at' \in [Threads -> Places] /\ Barrier!BarrierIInv' /\ PlacesMatch' /\ CrossTogether'
    BY <1>1, <2>2, <2>3, SamePassage
  <2>5. LastGvtIsKept'
    BY <1>1, <2>1, <2>2 DEF LastGvtIsKept, IInv, Drains
  <2>6. QED
    BY <1>1, <2>1, <2>4, <2>5 DEF IInv, endVars, EndIsCounted
<1>3. CASE Fini(th)
  <2>1. at[th] = "fini" /\ at' = [at EXCEPT ![th] = "barrier_4"] /\ UNCHANGED gvtVars
    BY <1>3 DEF Fini, GoTo
  <2>2. "barrier_4" \in Places /\ at[th] \notin Barriers /\ Passed(th)' = Passed(th)
    BY <1>1, <2>1 DEF Places, Barriers, Drains, Passed
  <2>3. at' \in [Threads -> Places] /\ Barrier!BarrierIInv' /\ PlacesMatch' /\ CrossTogether'
    BY <1>1, <2>1, <2>2, SamePassage
  <2>4. RoundIInv' /\ \A x \in Threads : Pos(x)' = Pos(x)
    BY <2>1, RoundStutters, PositionsAreKept DEF gvtVars, IInv
  <2>5. LastGvtIsKept'
    BY <1>1, <2>1, <2>4 DEF LastGvtIsKept, IInv
  <2>6. QED
    BY <1>1, <2>3, <2>4, <2>5 DEF IInv, endVars, EndIsCounted
<1>4. QED
  BY <1>2, <1>3

\* To arrive at a barrier changes the barrier only.
LEMMA ArriveInv ==
  ASSUME IInv, NEW th \in Threads, Arrive(th)
  PROVE  IInv'
<1>1. at[th] \in Barriers /\ Barrier!Arrive(th) /\ UNCHANGED <<gvtVars, at, endVars, missed>>
  BY DEF Arrive
<1>2. Barrier!BarrierIInv'
  BY <1>1, BarrierStep DEF IInv
<1>3. RoundIInv' /\ \A x \in Threads : Pos(x)' = Pos(x)
  BY <1>1, RoundStutters, PositionsAreKept DEF gvtVars, IInv
<1>4. phase' = phase /\ inside' = [inside EXCEPT ![th] = TRUE]
  BY <1>1 DEF Barrier!Arrive
<1>5. \A x \in Threads : Passed(x)' = Passed(x) /\ (inside[x] => inside'[x])
  BY <1>1, <1>4 DEF Passed, IInv, Barrier!BarrierIInv, Barrier!BarrierTypeOK
<1>6. PlacesMatch'
  BY <1>1, <1>4, <1>5 DEF PlacesMatch, IInv, Barrier!BarrierIInv, Barrier!BarrierTypeOK
<1>7. CrossTogether'
  BY <1>5 DEF CrossTogether, IInv
<1>8. LastGvtIsKept'
  BY <1>1, <1>3 DEF LastGvtIsKept, IInv
<1>9. QED
  BY <1>1, <1>2, <1>3, <1>6, <1>7, <1>8 DEF IInv, endVars, EndIsCounted

\* Modulo 4, after one more barrier: a thread is not confused with one that is
\* two behind, and differs from one that is one behind.
LEMMA OneAndTwoApart ==
  ASSUME NEW p \in 0 .. 3
  PROVE  /\ (p + 1 + 3) % 4 # (p - 1 + 3) % 4
         /\ (p + 1 + 3) % 4 # (((p - 1 + 3) % 4) + 1) % 4
         /\ (p - 1 + 3) % 4 # (((p + 1 + 3) % 4) + 1) % 4
         /\ (p + 1 + 3) % 4 # (p + 3) % 4
         /\ (p + 3) % 4 # (((p + 1 + 3) % 4) + 1) % 4
<1>1. CASE p = 0
  BY <1>1
<1>2. CASE p = 1
  BY <1>2
<1>3. CASE p = 2
  BY <1>3
<1>4. CASE p = 3
  BY <1>4
<1>5. QED
  BY <1>1, <1>2, <1>3, <1>4

\* Leaving a barrier: the promise of the barrier, modulo 4, is enough.
LEMMA LeaveInv ==
  ASSUME IInv, NEW th \in Threads, Leave(th)
  PROVE  IInv'
<1>1. /\ at[th] \in Barriers /\ Barrier!Leave(th)
      /\ at' = [at EXCEPT ![th] = After(at[th])]
      /\ UNCHANGED <<gvtVars, endVars>>
      /\ at \in [Threads -> Places]
  BY DEF Leave, GoTo, IInv
<1>2. Barrier!BarrierIInv'
  BY <1>1, BarrierStep DEF IInv
<1>3. RoundIInv' /\ \A x \in Threads : Pos(x)' = Pos(x)
  BY <1>1, RoundStutters, PositionsAreKept DEF gvtVars, IInv
<1>4. After(at[th]) \in Places /\ at' \in [Threads -> Places]
  BY <1>1 DEF After, Barriers, Places, Drains
<1>5. /\ phase' = [phase EXCEPT ![th] = (phase[th] + 1) % 4]
      /\ inside' = [inside EXCEPT ![th] = FALSE]
      /\ phase \in [Threads -> 0 .. 3] /\ inside \in [Threads -> BOOLEAN]
  BY <1>1 DEF Barrier!Leave, IInv, Barrier!BarrierIInv, Barrier!BarrierTypeOK
<1>6. /\ Passed(th) \in 0 .. 3 /\ Passed(th)' = Passed(th) + 1
      /\ \A x \in Threads \ {th} : Passed(x)' = Passed(x) /\ Passed(x) \in 0 .. 4
  BY <1>1, <1>4 DEF Passed, After, Barriers, Drains
<1>7. PlacesMatch'
  <2>1. phase[th] = (Passed(th) + 3) % 4
    BY DEF IInv, PlacesMatch
  <2>2. phase'[th] = (Passed(th) + 4) % 4
    BY <1>5, <1>6, <2>1
  <2>3. QED
    BY <1>1, <1>4, <1>5, <1>6, <2>2 DEF IInv, PlacesMatch
<1>8. CrossTogether'
  <2>1. ASSUME NEW b \in Threads \ {th}
        PROVE  /\ Passed(b)' \in Nat
               /\ \/ Passed(th)' <= Passed(b)'
                  \/ Passed(th)' = Passed(b)' + 1 /\ inside'[b]
               /\ Passed(b)' <= Passed(th)'
    <3>1. Passed(b)' = Passed(b) /\ Passed(b) \in {Passed(th) - 1, Passed(th), Passed(th) + 1}
      BY <1>6 DEF IInv, CrossTogether
    <3>2. /\ phase'[th] = (Passed(th)' + 3) % 4
          /\ phase'[b] = (Passed(b)' + 3) % 4
      BY <1>7 DEF PlacesMatch
    <3>3. phase'[th] # phase'[b] =>
            \/ phase'[th] = (phase'[b] + 1) % 4 /\ inside'[b]
            \/ phase'[b] = (phase'[th] + 1) % 4 /\ inside'[th]
      BY <1>2 DEF Barrier!BarrierIInv, Barrier!NobodyIsLeftBehind
    <3>4. ~ inside'[th]
      BY <1>5
    <3>5. /\ Passed(b) = Passed(th) - 1 => FALSE
          /\ Passed(b) = Passed(th) => inside'[b]
      BY <1>6, <3>1, <3>2, <3>3, <3>4, OneAndTwoApart
    <3>6. QED
      BY <1>6, <3>1, <3>5
  <2>2. ASSUME NEW a \in Threads \ {th}, NEW b \in Threads \ {th}
        PROVE  \/ Passed(a)' <= Passed(b)'
               \/ Passed(a)' = Passed(b)' + 1 /\ inside'[b]
    <3>1. \/ Passed(a) <= Passed(b)
          \/ Passed(a) = Passed(b) + 1 /\ inside[b]
      BY DEF IInv, CrossTogether
    <3>2. Passed(a)' = Passed(a) /\ Passed(b)' = Passed(b) /\ inside'[b] = inside[b]
      BY <1>5, <1>6
    <3>3. QED
      BY <3>1, <3>2
  <2>3. Passed(th)' <= Passed(th)'
    BY <1>6
  <2>4. ASSUME NEW a \in Threads, NEW b \in Threads
        PROVE  \/ Passed(a)' <= Passed(b)'
               \/ Passed(a)' = Passed(b)' + 1 /\ inside'[b]
    BY <2>1, <2>2, <2>3
  <2>5. QED
    BY <2>4 DEF CrossTogether
<1>9. LastGvtIsKept'
  <2>1. After(at[th]) \in {"barrier_3", "fini", "barrier_4", "end"} =>
          at[th] \in {"barrier_3", "barrier_4"}
    BY <1>1 DEF After, Barriers
  <2>2. QED
    BY <1>1, <1>3, <2>1 DEF LastGvtIsKept, IInv
<1>10. QED
  BY <1>1, <1>2, <1>3, <1>4, <1>7, <1>8, <1>9 DEF IInv, endVars, EndIsCounted

-----------------------------------------------------------------------------
\* worker_thread_init has left everything in order.
LEMMA InitIInv == Init => IInv
<1> SUFFICES ASSUME Init PROVE IInv
  OBVIOUS
<1>1. RoundIInv
  BY RoundInit DEF Init
<1>2. Barrier!BarrierTypeOK
  BY GvtAssumption, SameN, SizeTells DEF Init, Barrier!BarrierTypeOK
<1>3. Barrier!CountersExact
  <2>1. \A th \in Threads : ~ Barrier!HasCounted(th, 0) /\ Barrier!HasCounted(th, 1)
    BY DEF Init, Barrier!HasCounted
  <2>2. /\ {th \in Threads : Barrier!HasCounted(th, 0)} = {}
        /\ {th \in Threads : Barrier!HasCounted(th, 1)} = Threads
    BY <2>1
  <2>3. Barrier!Cardinality({}) = 0 /\ Barrier!Cardinality(Threads) = N
    BY FS_EmptySet, SameSets DEF N
  <2>4. QED
    BY <2>2, <2>3 DEF Barrier!CountersExact, Init
<1>4. Barrier!BarrierIInv
  <2>1. \A th \in Threads : Barrier!Reached(th) = 2 /\ ~ inside[th] /\ (led[th] <=> th = Master)
    <3>1. (3 + 3) % 4 = 2
      OBVIOUS
    <3>2. \A th \in Threads : phase[th] = 3 /\ ~ inside[th]
      BY DEF Init
    <3>3. \A th \in Threads : led[th] <=> th = Master
      BY Zenon DEF Init
    <3>4. QED
      BY <3>1, <3>2, <3>3 DEF Barrier!Reached
  <2>2. Barrier!NobodyIsLeftBehind
    BY DEF Init, Barrier!NobodyIsLeftBehind
  <2>3. Barrier!OneLeader /\ Barrier!LeaderIsLast /\ Barrier!LeaderIsFirst
    BY <2>1 DEF Barrier!OneLeader, Barrier!LeaderIsLast, Barrier!LeaderIsFirst
  <2>4. QED
    BY <1>2, <1>3, <2>2, <2>3 DEF Barrier!BarrierIInv
<1>5. \A th \in Threads : at[th] = "test" /\ Passed(th) = 0
  BY DEF Init, Passed, Drains
<1>6. PlacesMatch /\ CrossTogether /\ LastGvtIsKept
  BY <1>5 DEF Init, PlacesMatch, CrossTogether, LastGvtIsKept
<1>7. N \in Nat /\ N > 0
  BY SizeTells
<1>8. QED
  BY <1>1, <1>4, <1>6, <1>7, ShutdownAssumption DEF IInv, Init, EndIsCounted, Places, InLoop

\* Every step keeps the invariant.
LEMMA StepInv ==
  ASSUME IInv, [Next]_vars
  PROVE  IInv'
<1>1. ASSUME NEW th \in Threads,
             \/ Test(th) \/ Extract(th) \/ RootsimStop(th) \/ EndBatch(th)
             \/ LoopGvt(th) \/ FlushStep(th) \/ FlushDone(th)
      PROVE  IInv'
  BY <1>1, LoopInv
<1>2. ASSUME NEW th \in Threads, DrainStep(th) \/ Fini(th)
      PROVE  IInv'
  BY <1>2, DrainInv
<1>3. ASSUME NEW th \in Threads, Arrive(th)
      PROVE  IInv'
  BY <1>3, ArriveInv
<1>4. ASSUME NEW th \in Threads, Leave(th)
      PROVE  IInv'
  BY <1>4, LeaveInv
<1>5. CASE UNCHANGED vars
  <2>1. UNCHANGED gvtVars /\ UNCHANGED barrierVars /\ UNCHANGED <<at, endVars>>
    BY <1>5 DEF vars
  <2>2. RoundIInv' /\ \A x \in Threads : Pos(x)' = Pos(x)
    BY <2>1, RoundStutters, PositionsAreKept DEF gvtVars, IInv
  <2>3. Barrier!BarrierIInv'
    BY <2>1, BarrierStutters DEF IInv
  <2>4. \A x \in Threads : Passed(x)' = Passed(x)
    BY <2>1 DEF Passed
  <2>5. PlacesMatch' /\ CrossTogether' /\ LastGvtIsKept' /\ EndIsCounted'
    BY <2>1, <2>2, <2>4 DEF IInv, PlacesMatch, CrossTogether, LastGvtIsKept, EndIsCounted,
       endVars, barrierVars
  <2>6. QED
    BY <2>1, <2>2, <2>3, <2>5 DEF IInv, endVars
<1>6. QED
  BY <1>1, <1>2, <1>3, <1>4, <1>5 DEF Next

\* The inductive invariant holds in every state.
THEOREM IInvHolds == Spec => []IInv
<1>1. IInv /\ [Next]_vars => IInv'
  BY StepInv
<1>2. QED
  BY InitIInv, <1>1, PTL DEF Spec

\* No thread drains its queue or frees its LPs while another one is in the
\* main loop of parallel_thread_run.
THEOREM LoopEnds == Spec => []LoopIsOverBeforeDrain
<1>1. IInv => LoopIsOverBeforeDrain
  <2> SUFFICES ASSUME IInv, NEW a \in Threads, NEW b \in Threads,
                      at[a] \in {"barrier_2", "fini", "end"} \cup Drains
               PROVE  at[b] \notin InLoop
    BY DEF LoopIsOverBeforeDrain
  <2>1. Passed(a) \in 1 .. 4
    BY DEF Passed, Drains
  <2>2. at[b] \in InLoop => Passed(b) = 0 /\ ~ inside[b]
    BY DEF Passed, InLoop, Drains, Barriers, IInv, PlacesMatch
  <2>3. \/ Passed(a) <= Passed(b)
        \/ Passed(a) = Passed(b) + 1 /\ inside[b]
    BY DEF IInv, CrossTogether
  <2>4. QED
    BY <2>1, <2>2, <2>3
<1>2. QED
  BY IInvHolds, <1>1, PTL

\* When a thread frees its LPs both last reductions are over, for all threads.
THEOREM ReductionsEnd == Spec => []ReductionsAreOver
<1>1. IInv => ReductionsAreOver
  <2> SUFFICES ASSUME IInv, NEW a \in Threads, NEW b \in Threads,
                      at[a] \in {"fini", "barrier_4", "end"}
               PROVE  node_phase[b] = "done" /\ gvt_phase[a] = gvt_phase[b]
    BY DEF ReductionsAreOver
  <2>1. Passed(a) \in 3 .. 4
    BY DEF Passed, Drains
  <2>2. at[b] \in Places /\ (inside[b] => at[b] \in Barriers)
    BY DEF IInv, PlacesMatch
  <2>3. \/ Passed(a) <= Passed(b)
        \/ Passed(a) = Passed(b) + 1 /\ inside[b]
    BY DEF IInv, CrossTogether
  <2>4. at[b] \in {"barrier_3", "fini", "barrier_4", "end"}
    BY <2>1, <2>2, <2>3 DEF Passed, Drains, Barriers, Places, InLoop
  <2>5. Pos(a) = 16 /\ Pos(b) = 16
    BY <2>4 DEF IInv, LastGvtIsKept
  <2>6. QED
    BY <2>5 DEF IInv, RoundIInv, ColoursAgree, Pos
<1>2. QED
  BY IInvHolds, <1>1, PTL

\* The end is counted: nodes_to_end falls by one when the last thread agrees,
\* and by two for each call of RootsimStop.
THEOREM EndCounted == Spec => []EndIsCounted
BY IInvHolds, PTL DEF IInv

=============================================================================
