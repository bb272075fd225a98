------------------------------- MODULE Heap --------------------------------
(* The kernel heap of mm/virt/heap.c: blocks that tile a fixed area, each    *)
(* with a header that links it to the next and the previous one, first fit,  *)
(* splitting on kmalloc and merging with both neighbours on kfree.           *)
(*                                                                           *)
(* Addresses and sizes are in units of 16 bytes, to which ALIGN16 rounds;    *)
(* sizeof(block_t) is two units. Requests are in bytes. The headers are a    *)
(* function on the addresses of the blocks; ListIsWhole says that these are  *)
(* the blocks a walk from g_head meets. What the bytes hold is left out.     *)
EXTENDS Integers

CONSTANTS Size,     \* HEAP_SIZE in units
          Requests  \* arguments of kmalloc

ASSUME HeapAssumption == Size \in Nat /\ Size > 2 /\ Requests \subseteq Nat

VARIABLES blk,  \* the headers: size, next, prev and the free bit
          last  \* history: the last kmalloc, its argument and its extent

vars == <<blk, last>>

Header == 2
Nil == -1
Align16(n) == (n + 15) \div 16

(* The first address behind a block.                                         *)
End(f, b) == b + Header + f[b].size
Blk(size, next, prev, free) == [size |-> size, next |-> next, prev |-> prev, free |-> free]

(* heap_init                                                                 *)
Init ==
    /\ blk = [b \in {0} |-> Blk(Size - Header, Nil, Nil, TRUE)]
    /\ last = [want |-> 0, got |-> <<>>]

(* Fault: a block of exactly the size is passed over.                        *)
Fits_Larger(want) == {b \in DOMAIN blk : blk[b].free /\ blk[b].size > want}

Fits(want) == {b \in DOMAIN blk : blk[b].free /\ blk[b].size >= want}

Splits(b, want) == blk[b].size >= want + Header + 1

(* The block b is cut to want units; the rest becomes a free block nb.       *)
Split(b, want) ==
    LET nb == b + Header + want
        old == blk[b].next
    IN [x \in DOMAIN blk \cup {nb} |->
          IF x = nb THEN Blk(blk[b].size - want - Header, old, b, TRUE)
          ELSE IF x = b THEN Blk(want, nb, blk[b].prev, FALSE)
          ELSE IF x = old THEN Blk(blk[x].size, blk[x].next, nb, blk[x].free)
          ELSE blk[x]]

(* The free bit of b becomes v (blk_set_free, blk_set_used).                 *)
Flag(f, b, v) ==
    [x \in DOMAIN f |-> IF x = b THEN Blk(f[b].size, f[b].next, f[b].prev, v) ELSE f[x]]

(* kmalloc: the first block in the list that fits.                           *)
Kmalloc(n) ==
    /\ n > 0
    /\ \E b \in Fits(Align16(n)) :
        /\ \A c \in Fits(Align16(n)) : b <= c
        /\ blk' = IF Splits(b, Align16(n)) THEN Split(b, Align16(n)) ELSE Flag(blk, b, FALSE)
        /\ last' = [want |-> n, got |-> <<b, End(blk', b)>>]

(* kmalloc returns NULL.                                                     *)
KmallocFails(n) ==
    /\ n = 0 \/ Fits(Align16(n)) = {}
    /\ last' = [want |-> n, got |-> <<>>]
    /\ UNCHANGED blk

(* Fault: the header of the absorbed block is not counted.                   *)
Absorb_NoHeader(f, b, c) ==
    [x \in DOMAIN f \ {c} |->
        IF x = b THEN Blk(f[b].size + f[c].size, f[c].next, f[b].prev, f[b].free)
        ELSE IF x = f[c].next THEN Blk(f[x].size, f[x].next, b, f[x].free)
        ELSE f[x]]

(* b takes over its successor c.                                             *)
Absorb(f, b, c) ==
    [x \in DOMAIN f \ {c} |->
        IF x = b THEN Blk(f[b].size + Header + f[c].size, f[c].next, f[b].prev, f[b].free)
        ELSE IF x = f[c].next THEN Blk(f[x].size, f[x].next, b, f[x].free)
        ELSE f[x]]

MergeNext(f, b) == IF f[b].next # Nil /\ f[f[b].next].free THEN Absorb(f, b, f[b].next) ELSE f
MergePrev(f, b) == IF f[b].prev # Nil /\ f[f[b].prev].free THEN Absorb(f, f[b].prev, b) ELSE f

(* kfree of a block that kmalloc handed out.                                 *)
Kfree(b) ==
    /\ ~blk[b].free
    /\ blk' = MergePrev(MergeNext(Flag(blk, b, TRUE), b), b)
    /\ UNCHANGED last

Next ==
    \/ \E n \in Requests : Kmalloc(n) \/ KmallocFails(n)
    \/ \E b \in DOMAIN blk : Kfree(b)

Spec == Init /\ [][Next]_vars

-----------------------------------------------------------------------------
Blocks == [size : Int, next : Int, prev : Int, free : BOOLEAN]

Typed(f) == DOMAIN f \subseteq 0..(Size - 1) /\ f \in [DOMAIN f -> Blocks]

Follows(f) ==
    \A b \in DOMAIN f :
        /\ f[b].size > 0
        /\ End(f, b) <= Size
        /\ f[b].next = IF End(f, b) = Size THEN Nil ELSE End(f, b)
        /\ f[b].next # Nil => f[b].next \in DOMAIN f

Disjoint(f) == \A b, c \in DOMAIN f : b < c => End(f, b) <= c

Covers(f) == \A u \in 0..(Size - 1) : \E b \in DOMAIN f : b <= u /\ u < End(f, b)

Linked(f) ==
    /\ 0 \in DOMAIN f
    /\ f[0].prev = Nil
    /\ \A b \in DOMAIN f : b # 0 => f[b].prev \in DOMAIN f /\ f[f[b].prev].next = b

TypeOK == Typed(blk)

(* The blocks tile the heap: every block ends where its successor starts or  *)
(* where the heap ends, no block starts inside another, and every unit       *)
(* belongs to a block. So no two pieces of memory handed out overlap, and    *)
(* no byte is ever lost, whatever the order of kmalloc and kfree.            *)
Tiled == Follows(blk) /\ Disjoint(blk) /\ Covers(blk)

(* The list reads the same backwards: kfree merges through prev.             *)
DoublyLinked == Linked(blk)

(* No two free blocks are neighbours: kfree merges in both directions, so a  *)
(* request never fails next to enough free memory cut into pieces.           *)
Coalesced ==
    \A b \in DOMAIN blk :
        blk[b].free /\ blk[b].next # Nil => ~blk[blk[b].next].free

(* The list of blocks is well formed between any two calls.                  *)
WellFormed == TypeOK /\ Tiled /\ DoublyLinked /\ Coalesced

(* Once everything is freed the heap is one block again.                     *)
WholeWhenIdle ==
    (\A b \in DOMAIN blk : blk[b].free) => DOMAIN blk = {0} /\ blk[0].size = Size - Header

Used(f) == {b \in DOMAIN f : ~f[b].free}
InUse == {<<b, End(blk, b)>> : b \in Used(blk)}
Abstract == INSTANCE Allocator WITH taken <- InUse

(* kmalloc and kfree are an allocator, with the used blocks as the extents:  *)
(* what is handed out never overlaps what is in use, has room for the        *)
(* request, and is refused only if no run of unused units has that room.     *)
Refines == Abstract!Spec
=============================================================================
