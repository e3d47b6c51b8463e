------------------------------ MODULE ModelMem ------------------------------
(***************************************************************************)
(* The memory of one LP: buddy systems that grow with its requests, and    *)
(* the full checkpoints of them that a rollback goes back to (mm/buddy).   *)
(*                                                                         *)
(* A buddy system is a binary tree, stored as an array: longest[i] is the  *)
(* exponent of the largest free block below node i, 0 when there is none.  *)
(* The bytes of a smallest block hold one value.  Requests are powers of   *)
(* two: rounding a size up (buddy_allocation_block_compute) is left out.   *)
(***************************************************************************)
EXTENDS Integers, Sequences, FiniteSets, SequencesExt, FiniteSetsExt

CONSTANTS
  B_TOTAL_EXP,   \* the exponent of the size of a buddy system
  B_BLOCK_EXP,   \* the exponent of the smallest block
  CkptHdr,       \* offsetof(struct mm_checkpoint, chkps)
  PtrSize,       \* sizeof(struct buddy_state *)
  BuddyHdr,      \* offsetof(struct buddy_checkpoint, base_mem)
  Addrs,         \* the addresses mm_alloc may return for a buddy system
  Values,        \* what the simulation model may write
  MaxPtrs,       \* bound: allocations held at once
  MaxMsgs,       \* bound: entries of the log of the LP
  MaxCalls       \* bound: calls of the allocator and stores

ASSUME MemAssumption ==
  /\ B_BLOCK_EXP \in Nat \ {0}
  /\ B_TOTAL_EXP \in Nat /\ B_BLOCK_EXP <= B_TOTAL_EXP
  /\ {CkptHdr, PtrSize, BuddyHdr, MaxPtrs, MaxMsgs, MaxCalls} \subseteq Nat
  /\ Addrs \subseteq Nat /\ IsFiniteSet(Addrs)
  /\ Values \subseteq Nat \ {0}

VARIABLES
  mm,        \* the mm_state without its logs
  mem_logs,  \* mm_state.logs
  ref,       \* array_count of the LP's p_msgs
  owned,     \* history variable: what the simulation model holds, and what
             \* it has written there (Unknown where it wrote nothing)
  calls      \* how many calls it has made, for the bound

memVars == <<mm, mem_logs, ref, owned, calls>>

-----------------------------------------------------------------------------
(* The tree of a buddy system.                                             *)

Leaves   == 2 ^ (B_TOTAL_EXP - B_BLOCK_EXP)
TreeNode == 0 .. 2 * Leaves - 2
LeftChild(i)  == 2 * i + 1
RightChild(i) == 2 * i + 2
Parent(i)     == (i - 1) \div 2

\* The exponent of the block that node i stands for.
NodeExp[i \in TreeNode] ==
  IF i = 0 THEN B_TOTAL_EXP ELSE NodeExp[Parent(i)] - 1

\* The nodes above i, from its parent to the root.
Above[i \in TreeNode] ==
  IF i = 0 THEN <<>> ELSE <<Parent(i)>> \o Above[Parent(i)]

\* The first smallest block of node i: ((i + 1) << node_size) - (1 << T).
Offset(i) == ((i + 1) * 2 ^ NodeExp[i] - 2 ^ B_TOTAL_EXP) \div 2 ^ B_BLOCK_EXP

\* The smallest blocks of a block at o of 2^e bytes, in order.
BlocksAt(o, e) == [k \in 1 .. 2 ^ (e - B_BLOCK_EXP) |-> o + k - 1]
Blocks(i) == BlocksAt(Offset(i), NodeExp[i])

BuddyInit == [i \in TreeNode |-> NodeExp[i]]

\* buddy_malloc: go down to a block of exponent e, to the left when it fits.
Descend(lo, e) ==
  LET D[i \in TreeNode] ==
        IF NodeExp[i] = e THEN i
        ELSE D[IF lo[LeftChild(i)] < e THEN RightChild(i) ELSE LeftChild(i)]
  IN  D[0]

TakeBlock(lo, i) ==
  FoldLeft(LAMBDA l, j :
             [l EXCEPT ![j] = Max({l[LeftChild(j)], l[RightChild(j)]})],
           [lo EXCEPT ![i] = 0], Above[i])

\* The node of the block that starts at o: the first 0 on the way up.
AllocatedNode(lo, o) ==
  LET Up[i \in TreeNode] == IF lo[i] = 0 THEN i ELSE Up[Parent(i)]
  IN  Up[o + Leaves - 1]

\* fault: two free halves are not merged
FreeBlockApart(lo, i) ==
  FoldLeft(LAMBDA l, j :
             [l EXCEPT ![j] = Max({l[LeftChild(j)], l[RightChild(j)]})],
           [lo EXCEPT ![i] = NodeExp[i]], Above[i])

\* buddy_free: two free halves make a free block.
FreeBlock(lo, i) ==
  FoldLeft(LAMBDA l, j :
             [l EXCEPT ![j] = IF /\ l[LeftChild(j)] = NodeExp[j] - 1
                                 /\ l[RightChild(j)] = NodeExp[j] - 1
                              THEN NodeExp[j]
                              ELSE Max({l[LeftChild(j)], l[RightChild(j)]})],
           [lo EXCEPT ![i] = NodeExp[i]], Above[i])

\* buddy_tree_visit: the smallest blocks below the nodes that are 0.
Visit(lo) ==
  LET V[i \in TreeNode] ==
        IF lo[i] = 0 THEN Blocks(i)
        ELSE IF lo[i] # NodeExp[i]
             THEN V[LeftChild(i)] \o V[RightChild(i)]
             ELSE <<>>
  IN  V[0]

-----------------------------------------------------------------------------
(* The array buddies is kept in the order of the addresses, so a set of    *)
(* addresses, the domain of longest, stands for it.  All loops over it go  *)
(* from the highest address down.                                          *)

Unknown == 0
Buddies(m) == DOMAIN m.longest
FromLast(m) == SetToSortSeq(Buddies(m), LAMBDA a, b : a > b)

NoMemory == [longest |-> <<>>, base_mem |-> <<>>,
             full_ckpt_size |-> CkptHdr + PtrSize]

\* A new buddy system at address a; what mm_alloc returns is not cleared.
AddBuddy(m, a) ==
  [longest        |-> (a :> BuddyInit) @@ m.longest,
   base_mem       |-> (a :> [o \in 0 .. Leaves - 1 |-> Unknown]) @@ m.base_mem,
   full_ckpt_size |-> m.full_ckpt_size + BuddyHdr]

\* rs_malloc: the last buddy system with room, else a new one at address a.
CanServe(m, e) == {b \in Buddies(m) : m.longest[b][0] >= e}
WithRoom(m, e, a) == IF CanServe(m, e) # {} THEN m ELSE AddBuddy(m, a)
Malloc(m, e, a) ==
  LET n == WithRoom(m, e, a)
      b == Max(CanServe(n, e))
      i == Descend(n.longest[b], e)
  IN  [m   |-> [n EXCEPT !.longest[b] = TakeBlock(@, i),
                         !.full_ckpt_size = @ + 2 ^ e],
       ptr |-> <<b, Offset(i)>>]

\* rs_free of the block that starts at p.  Its bytes stay, but nobody may rely
\* on them: they are unknown from now on.
NodeOf(m, p) == AllocatedNode(m.longest[p[1]], p[2])
FreeAt(m, p) ==
  LET i == NodeOf(m, p) IN
  [m EXCEPT !.longest[p[1]] = FreeBlock(@, i),
            !.base_mem[p[1]] = [o \in DOMAIN @ |-> IF o \in Range(Blocks(i))
                                                   THEN Unknown ELSE @[o]],
            !.full_ckpt_size = @ - 2 ^ NodeExp[i]]

\* A store of the simulation model, or memcpy: vals from the start of p.
Write(m, p, vals) ==
  [m EXCEPT !.base_mem[p[1]] =
     [o \in DOMAIN @ |-> IF o - p[2] + 1 \in DOMAIN vals
                         THEN vals[o - p[2] + 1] ELSE @[o]]]

Content(m, p, e) ==
  LET bs == BlocksAt(p[2], e) IN [k \in DOMAIN bs |-> m.base_mem[p[1]][bs[k]]]

-----------------------------------------------------------------------------
(* Checkpoints.                                                            *)

\* checkpoint_full_take of one buddy system.
Saved(m, b) ==
  LET bs == Visit(m.longest[b]) IN
  [orig |-> b, longest |-> m.longest[b],
   blocks |-> [k \in DOMAIN bs |-> m.base_mem[b][bs[k]]]]

Checkpoint(m) ==
  LET bs == FromLast(m) IN [k \in DOMAIN bs |-> Saved(m, bs[k])]

\* The bytes that a checkpoint takes, with the pointer that ends it.
BytesOf(chk) ==
  FoldLeft(LAMBDA n, c : n + BuddyHdr + Len(c.blocks) * 2 ^ B_BLOCK_EXP,
           CkptHdr + PtrSize, chk)

\* fault: what was written since stays where a block was not allocated then
RestoreFromCurrent(m, b, c) ==
  LET bs == Visit(m.longest[b])
      PosOf(o) == CHOOSE k \in DOMAIN bs : bs[k] = o
  IN  [m EXCEPT !.longest[b] = c.longest,
                !.base_mem[b] = [o \in DOMAIN @ |->
                   IF o \in Range(bs) /\ PosOf(o) \in DOMAIN c.blocks
                   THEN c.blocks[PosOf(o)] ELSE @[o]]]

\* checkpoint_full_restore of buddy system b from c.
RestoreFrom(m, b, c) ==
  LET bs == Visit(c.longest)
      PosOf(o) == CHOOSE k \in DOMAIN bs : bs[k] = o
  IN  [m EXCEPT !.longest[b] = c.longest,
                !.base_mem[b] = [o \in DOMAIN @ |->
                   IF o \in Range(bs) THEN c.blocks[PosOf(o)] ELSE Unknown]]

\* A buddy system that the checkpoint does not know is emptied.
Restored(m, log) ==
  FoldLeft(LAMBDA r, b :
             IF r.left # <<>> /\ Head(r.left).orig = b
             THEN [m |-> RestoreFrom(r.m, b, Head(r.left)), left |-> Tail(r.left)]
             ELSE [r EXCEPT !.m.longest[b] = BuddyInit,
                            !.m.base_mem[b] = [o \in DOMAIN @ |-> Unknown],
                            !.m.full_ckpt_size = @ + BuddyHdr],
           [m |-> [m EXCEPT !.full_ckpt_size = log.size], left |-> log.chkps],
           FromLast(m)).m

\* The last checkpoint that refers to entry i of the log of the LP or before.
LogFor(i) == Max({k \in DOMAIN mem_logs : mem_logs[k].ref_i <= i})

-----------------------------------------------------------------------------
MemInit ==
  /\ mm = NoMemory
  /\ mem_logs = <<>>
  /\ ref = 0
  /\ owned = <<>>
  /\ calls = 0

Exps == B_BLOCK_EXP .. B_TOTAL_EXP
Fresh(e) == [k \in 1 .. 2 ^ (e - B_BLOCK_EXP) |-> Unknown]

\* The addresses a new buddy system may get; any when none is needed.
NewAddrs(e) == IF CanServe(mm, e) # {} THEN {0} ELSE Addrs \ Buddies(mm)

RsMalloc(e, a) ==
  /\ Cardinality(DOMAIN owned) < MaxPtrs
  /\ LET r == Malloc(mm, e, a) IN
     /\ mm' = r.m
     /\ owned' = (r.ptr :> Fresh(e)) @@ owned
  /\ UNCHANGED <<mem_logs, ref>>

RsFree(p) ==
  /\ mm' = FreeAt(mm, p)
  /\ owned' = [q \in DOMAIN owned \ {p} |-> owned[q]]
  /\ UNCHANGED <<mem_logs, ref>>

\* The block stays when its exponent is the one requested, else the content
\* moves to a new block, as much of it as both can hold.
RsRealloc(p, e, a) ==
  LET i == NodeOf(mm, p)
      r == Malloc(mm, e, a)
      kept == [k \in 1 .. 2 ^ (Min({e, NodeExp[i]}) - B_BLOCK_EXP) |->
                 Content(mm, p, NodeExp[i])[k]]
  IN  /\ NodeExp[i] # e
      /\ mm' = FreeAt(Write(r.m, r.ptr, kept), p)
      /\ owned' = (r.ptr :> [k \in DOMAIN Fresh(e) |->
                               IF k \in DOMAIN owned[p] THEN owned[p][k]
                               ELSE Unknown])
                  @@ [q \in DOMAIN owned \ {p} |-> owned[q]]
      /\ UNCHANGED <<mem_logs, ref>>

Store(p, v) ==
  LET vals == [k \in DOMAIN owned[p] |-> v] IN
  /\ mm' = Write(mm, p, vals)
  /\ owned' = [owned EXCEPT ![p] = vals]
  /\ UNCHANGED <<mem_logs, ref>>

\* checkpoint_take, of the memory as it is, for r entries in the log of the LP.
CheckpointTake(r) ==
  [ref_i |-> r, size |-> mm.full_ckpt_size, chkps |-> Checkpoint(mm), owned |-> owned]

\* The end of a message: it is logged, and a checkpoint may be due.  The first
\* one, for LP_INIT, always is.
EndOfMessage(ckpt) ==
  /\ ref < MaxMsgs
  /\ ref' = ref + 1
  /\ mem_logs' = IF ckpt \/ mem_logs = <<>>
                 THEN Append(mem_logs, CheckpointTake(ref + 1))
                 ELSE mem_logs
  /\ UNCHANGED <<mm, owned, calls>>

\* The LP goes back to entry i.  What it did since the checkpoint is done
\* again by the silent execution, as further actions.
Rollback(i) ==
  LET k == LogFor(i) IN
  /\ mm' = Restored(mm, mem_logs[k])
  /\ mem_logs' = SubSeq(mem_logs, 1, k)
  /\ ref' = mem_logs[k].ref_i
  /\ owned' = mem_logs[k].owned
  /\ UNCHANGED calls

FossilCollect(i) ==
  LET k == LogFor(i)
      first == mem_logs[k].ref_i
  IN  /\ mem_logs' = [j \in 1 .. Len(mem_logs) - k + 1 |->
                        [mem_logs[k + j - 1] EXCEPT !.ref_i = @ - first]]
      /\ ref' = ref - first
      /\ UNCHANGED <<mm, owned, calls>>

Reachable == IF mem_logs = <<>> THEN {} ELSE mem_logs[1].ref_i .. ref

Call ==
  \/ \E e \in Exps : \E a \in NewAddrs(e) : RsMalloc(e, a)
  \/ \E p \in DOMAIN owned : RsFree(p)
  \/ \E p \in DOMAIN owned, e \in Exps : \E a \in NewAddrs(e) : RsRealloc(p, e, a)
  \/ \E p \in DOMAIN owned, v \in Values : Store(p, v)

MemNext ==
  \/ calls < MaxCalls /\ calls' = calls + 1 /\ Call
  \/ \E ckpt \in BOOLEAN : EndOfMessage(ckpt)
  \/ \E i \in Reachable : Rollback(i)
  \/ \E i \in Reachable : FossilCollect(i)

MemSpec == MemInit /\ [][MemNext]_memVars

-----------------------------------------------------------------------------
(* What the allocator promises.                                            *)

SizeExp(p) == CHOOSE e \in Exps : Len(owned[p]) = 2 ^ (e - B_BLOCK_EXP)
Used(b) == UNION {Range(BlocksAt(p[2], SizeExp(p))) :
                    p \in {q \in DOMAIN owned : q[1] = b}}

\* The largest free block below node i, from what the model holds.
LargestFree(b, i) ==
  LET below == {j \in TreeNode : j = i \/ i \in Range(Above[j])}
      free  == {j \in below : Range(Blocks(j)) \cap Used(b) = {}}
  IN  IF free = {} THEN 0 ELSE Max({NodeExp[j] : j \in free})

\* Blocks that the model holds do not overlap, and each tree says which block
\* is free at every node above them (below an allocated block its entries are
\* not used): buddy_malloc, buddy_free, over rollbacks to other trees.  And
\* full_ckpt_size, which each operation updates and a rollback resets, is what a
\* checkpoint takes: checkpoint_take writes into a buffer of that size without
\* looking at its end.
TreeIsExact ==
  /\ \A p, q \in DOMAIN owned :
       p # q /\ p[1] = q[1] =>
         Range(BlocksAt(p[2], SizeExp(p))) \cap Range(BlocksAt(q[2], SizeExp(q))) = {}
  /\ \A b \in Buddies(mm), i \in TreeNode :
       (\A p \in DOMAIN owned :
          p[1] = b => \A j \in Range(Above[i]) : Blocks(j) # BlocksAt(p[2], SizeExp(p)))
       => mm.longest[b][i] = LargestFree(b, i)
  /\ mm.full_ckpt_size = BytesOf(Checkpoint(mm))

\* What the model has written is what it reads, also after rollbacks to
\* checkpoints that knew other blocks and buddy systems, and after realloc.
ContentIsKept ==
  \A p \in DOMAIN owned :
    LET c == Content(mm, p, SizeExp(p)) IN
    \A k \in DOMAIN c : owned[p][k] \in {c[k], Unknown}
=============================================================================
