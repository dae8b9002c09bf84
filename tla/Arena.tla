------------------------------- MODULE Arena -------------------------------
(***************************************************************************)
(* arena.c: an allocator that hands out the space of blocks from bottom to *)
(* top.  Nothing is freed by itself: a mark remembers the top, rewinding   *)
(* to it releases what came after, a reset releases everything.  Released  *)
(* blocks are kept in a list and taken again.                              *)
(*                                                                         *)
(* An arena is [chain, free]: the blocks in use, the head last, and the    *)
(* free list, its head first.  A block is [id, used, cap]; sizes count     *)
(* allocation headers.  An address is [arena, block, end]: what was        *)
(* allocated ends at end.                                                  *)
(***************************************************************************)
EXTENDS Integers, Sequences, SequencesExt

CONSTANTS BlockSize      \* default_block_size

ASSUME BlockSizeAssumption == BlockSize \in Nat \ {0}

NoBlocks == [chain |-> <<>>, free |-> <<>>]
NoMark == [block |-> 0, used |-> 0]

Head_(a) == Last(a.chain)
Emptied(blocks) == [i \in DOMAIN blocks |-> [blocks[i] EXCEPT !.used = 0]]

(* A block of default size, doubled until the request fits.                *)
Capacity(n) ==
  BlockSize * 2 ^ CHOOSE k \in 0 .. n : n <= BlockSize * 2 ^ k /\ \A j \in 0 .. k - 1 : n > BlockSize * 2 ^ j

(* Block ids are their numbers in the order of creation.                   *)
arena_new_block(a, n) == [id |-> Len(a.chain) + Len(a.free) + 1, used |-> n, cap |-> Capacity(n)]

Recycled(a, n) == {i \in DOMAIN a.free : a.free[i].cap >= n}
FirstRecycled(a, n) == CHOOSE i \in Recycled(a, n) : \A j \in Recycled(a, n) : i <= j

(* Mutant: the block stays in the free list.                               *)
arena_take_recycled_block_Shared(a, n) ==
  [a EXCEPT !.chain = Append(@, [a.free[FirstRecycled(a, n)] EXCEPT !.used = n])]

arena_take_recycled_block(a, n) ==
  [chain |-> Append(a.chain, [a.free[FirstRecycled(a, n)] EXCEPT !.used = n]),
   free |-> RemoveAt(a.free, FirstRecycled(a, n))]

arena_alloc_in(a, n) ==
  CASE a.chain # <<>> /\ Head_(a).used + n <= Head_(a).cap ->
         [a EXCEPT !.chain[Len(a.chain)].used = @ + n]
    [] ~(a.chain # <<>> /\ Head_(a).used + n <= Head_(a).cap) /\ Recycled(a, n) # {} ->
         arena_take_recycled_block(a, n)
    [] OTHER -> [a EXCEPT !.chain = Append(@, arena_new_block(a, n))]

arena_mark_take(a) ==
  IF a.chain = <<>> THEN NoMark ELSE [block |-> Head_(a).id, used |-> Head_(a).used]

(* The blocks above the first n become free, the lowest one the head.      *)
Released(a, n) ==
  [chain |-> SubSeq(a.chain, 1, n),
   free |-> Emptied(SubSeq(a.chain, n + 1, Len(a.chain))) \o a.free]

arena_reset(a) == Released(a, 0)

(* How many blocks stay: up to that of the mark, none if it is not in use. *)
Kept(a, mark) ==
  IF \E i \in DOMAIN a.chain : a.chain[i].id = mark.block
  THEN CHOOSE i \in DOMAIN a.chain : a.chain[i].id = mark.block
  ELSE 0

(* Mutant: only the head is looked at.                                     *)
arena_mark_rewind_HeadOnly(a, mark) ==
  IF a.chain # <<>> /\ mark.used <= Head_(a).used
  THEN [a EXCEPT !.chain[Len(a.chain)].used = mark.used] ELSE a

arena_mark_rewind(a, mark) ==
  LET r == Released(a, Kept(a, mark)) IN
  IF r.chain # <<>> /\ mark.used <= Head_(r).used
  THEN [r EXCEPT !.chain[Len(r.chain)].used = mark.used]
  ELSE r

Allocated(name, a) == [arena |-> name, block |-> Head_(a).id, end |-> Head_(a).used]

IsLive(a, address) ==
  \E i \in DOMAIN a.chain : a.chain[i].id = address.block /\ address.end <= a.chain[i].used

Blocks == [id : Nat \ {0}, used : Nat, cap : Nat]
Marks == [block : Nat, used : Nat]
Arenas == [chain : Seq(Blocks), free : Seq(Blocks)]

(* No block is in two places, and none is filled beyond its size.          *)
Intact(a) ==
  /\ \A i, j \in DOMAIN (a.chain \o a.free) : (a.chain \o a.free)[i].id = (a.chain \o a.free)[j].id => i = j
  /\ \A i \in DOMAIN a.chain : a.chain[i].used <= a.chain[i].cap
=============================================================================
