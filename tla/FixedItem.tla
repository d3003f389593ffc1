------------------------------ MODULE FixedItem ------------------------------
(***************************************************************************)
(* sequia::memory::allocator::fixed_item<Type>,                             *)
(* src/sequia/src/memory/allocator/fixed_item.hpp: a pool of max_size()     *)
(* blocks with an intrusive free list.  A free block's 32-bit `index`       *)
(* names the next free block; the list ends at index max_size(), one past  *)
(* the pool.  The pool is built lazily by the first allocate.               *)
(*                                                                         *)
(* impl::block_32 is not defined in the repository; its name and the casts *)
(* between block and Type* make it the union of the index and the Type     *)
(* storage, so a client writing its object overwrites the block's index.   *)
(* Blocks are numbered 0 .. Size-1 by their offset from begin(mem_), and   *)
(* head_ is kept as that offset.                                           *)
(*                                                                         *)
(* The client keeps the preconditions the ASSERTFs state in debug builds:  *)
(* one object per call, at most max_size() objects out, and only blocks it *)
(* holds are given back, once.                                             *)
(***************************************************************************)
EXTENDS Naturals, FiniteSets, Functions

CONSTANTS
  Size  \* max_size(): item_count(mem_), fixed at construction

ASSUME Size \in Nat \ {0}

VARIABLES
  live,   \* mem_ holds an array (`if (!mem_)` is false)
  head,   \* head_ - begin(mem_)
  index,  \* index[b]: the index field of block b (or the object's bytes)
  out     \* out[b]: the client's live objects in block b

vars == <<live, head, index, out>>

\* the blocks of the pool
Blocks == 0 .. Size - 1

\* the end of the free list: begin(mem_) + max_size()
End == Size

\* the values a block's index field can be observed to hold
IndexValues == 0 .. End

\* the blocks the client occupies
Held == {b \in Blocks : out[b] > 0}

\* one more object in block b (a second one means two objects alias)
Occupy(b) == [out EXCEPT ![b] = IF @ < 2 THEN @ + 1 ELSE 2]

\* mutant: the lazy initialisation numbering from 2 (index += 2)
Threaded_offby(b) == b + 2

\* `block.index = ++index` over the blocks in order: block b links to b+1
Threaded(b) == b + 1

\* allocate(1): on first use build the array and thread every block into
\* the free list; then hand out head_ and advance it along its index
Allocate ==
  /\ SumFunction(out) < Size
  /\ LET h   == IF live THEN head ELSE 0
         idx == IF live THEN index ELSE [b \in Blocks |-> Threaded(b)]
     IN  /\ out' = Occupy(h)
         /\ head' = idx[h]
         /\ index' = idx
  /\ live' = TRUE

\* mutant: deallocate makes the block the head without linking it
Deallocate_no_link ==
  \E b \in Held :
    /\ head' = b
    /\ out' = [out EXCEPT ![b] = @ - 1]
    /\ UNCHANGED <<live, index>>

\* deallocate(ptr, 1): link the block in front of head_ and make it head_
Deallocate ==
  \E b \in Held :
    /\ index' = [index EXCEPT ![b] = head]
    /\ head' = b
    /\ out' = [out EXCEPT ![b] = @ - 1]
    /\ UNCHANGED live

\* the client constructs or writes its object in a block it holds, which
\* overwrites the block's index field
ClientWrite ==
  \E b \in Held, v \in IndexValues :
    /\ index' = [index EXCEPT ![b] = v]
    /\ UNCHANGED <<live, head, out>>

\* ~fixed_item: delete[] mem_.items and invalidate it; the next fixed_item
\* built in its place starts again with an empty mem_
Destroy ==
  /\ live
  /\ Held = {}
  /\ live' = FALSE
  /\ UNCHANGED <<head, index, out>>

Init ==
  /\ live = FALSE
  /\ head = 0
  /\ index = [b \in Blocks |-> 0]
  /\ out = [b \in Blocks |-> 0]

Next == Allocate \/ Deallocate \/ ClientWrite \/ Destroy

Spec == Init /\ [][Next]_vars

-----------------------------------------------------------------------------
(* Properties *)

\* the blocks reached from block h by following index, until End or a
\* block already seen
RECURSIVE ChainFrom(_, _)
ChainFrom(h, seen) ==
  IF h \notin Blocks \/ h \in seen THEN seen ELSE ChainFrom(index[h], seen \cup {h})

\* where the walk from h stops: End for a well-formed list
RECURSIVE ChainEnd(_, _)
ChainEnd(h, seen) ==
  IF h \notin Blocks \/ h \in seen THEN h ELSE ChainEnd(index[h], seen \cup {h})

TypeOK ==
  /\ live \in BOOLEAN
  /\ head \in IndexValues
  /\ index \in [Blocks -> IndexValues]
  /\ out \in [Blocks -> 0 .. 2]

\* The intrusive free list stays exact through every interleaving of
\* allocate, deallocate and client writes into live objects (which
\* overwrite the index fields of held blocks): walking from head_ visits
\* each block the client does not hold exactly once and ends at
\* begin + max_size(), so allocate never hands out a held block and never
\* runs off the pool while a block is free
FreeListExact ==
  live =>
    /\ ChainFrom(head, {}) = Blocks \ Held
    /\ ChainEnd(head, {}) = End

=============================================================================
