------------------------------- MODULE Arena -------------------------------
(* The arena allocator (mm/arena.c): memory is taken from the front of the   *)
(* block at the head of a list, large pieces get a block of their own behind *)
(* the head, and everything goes at once. Sizes are unsigned and Width bits  *)
(* wide; ARENA_BLOCK_SIZE and the header of a block are constants.           *)
EXTENDS Integers, Sequences, FiniteSets, FiniteSetsExt, SequencesExt

CONSTANTS Sizes,       \* the sizes callers ask for
          BlockSize,   \* ARENA_BLOCK_SIZE
          Header,      \* sizeof(arena_block_t)
          Width,       \* bits of a size (32)
          MaxBlocks    \* blocks the kernel heap can give

VARIABLES chain,    \* the blocks of the arena, head first: [id, used, cap]
          heap,     \* blocks still to be had
          pieces    \* history: what is allocated, [id, from, size asked for]
vars == <<chain, heap, pieces>>

Wrap(n) == n % 2^Width
Large == BlockSize \div 2

(* _block_new, the block it gives for a least capacity.                      *)
BlockNew(min_cap) ==
    LET total == IF min_cap > BlockSize - Header THEN Wrap(Header + min_cap) ELSE BlockSize
    IN [id |-> heap, used |-> 0, cap |-> Wrap(total - Header)]

(* arena_create: the first block is taken at once.                           *)
Init ==
    /\ heap = MaxBlocks - 1
    /\ chain = <<[id |-> MaxBlocks, used |-> 0, cap |-> BlockSize - Header]>>
    /\ pieces = {}

(* Rounded up to 4, in Width bits.                                           *)
Align(size) == (Wrap(size + 3) \div 4) * 4

Piece(block, from, size) == [id |-> block.id, from |-> from, size |-> size]

(* Fault: the blocks that were behind the head are lost.                     *)
AllocLarge_DropsRest(size) ==
    LET block == [BlockNew(Align(size)) EXCEPT !.used = Align(size)]
    IN /\ Align(size) > Large /\ heap > 0
       /\ chain' = <<Head(chain), block>>
       /\ heap' = heap - 1
       /\ pieces' = pieces \cup {Piece(block, 0, size)}

(* A large piece: its block goes behind the head.                            *)
AllocLarge(size) ==
    LET block == [BlockNew(Align(size)) EXCEPT !.used = Align(size)]
    IN /\ Align(size) > Large /\ heap > 0
       /\ chain' = <<Head(chain), block>> \o Tail(chain)
       /\ heap' = heap - 1
       /\ pieces' = pieces \cup {Piece(block, 0, size)}

(* The current block has room.                                               *)
Fits(size) == Head(chain).used + size <= Head(chain).cap

(* A small piece, from the head or from a new block in front of it.          *)
AllocSmall(size) ==
    LET n == Align(size)
    IN /\ n <= Large
       /\ \/ /\ Fits(n)
             /\ pieces' = pieces \cup {Piece(Head(chain), Head(chain).used, size)}
             /\ chain' = [chain EXCEPT ![1].used = @ + n]
             /\ UNCHANGED heap
          \/ /\ ~Fits(n) /\ heap > 0
             /\ pieces' = pieces \cup {Piece(BlockNew(0), 0, size)}
             /\ chain' = <<[BlockNew(0) EXCEPT !.used = n]>> \o chain
             /\ heap' = heap - 1

(* arena_alloc *)
Alloc(size) == size > 0 /\ (AllocLarge(size) \/ AllocSmall(size))

(* arena_reset: what was allocated is given up.                              *)
Reset ==
    /\ chain' = [i \in 1..Len(chain) |-> [chain[i] EXCEPT !.used = 0]]
    /\ pieces' = {}
    /\ UNCHANGED heap

(* arena_destroy, and the arena that is created next.                        *)
Destroy ==
    /\ heap' = heap + Len(chain) - 1
    /\ chain' = <<[id |-> heap + Len(chain), used |-> 0, cap |-> BlockSize - Header]>>
    /\ pieces' = {}

Next == (\E size \in Sizes : Alloc(size)) \/ Reset \/ Destroy

Spec == Init /\ [][Next]_vars

-----------------------------------------------------------------------------
End(p) == p.from + p.size
BlockOf(p) == CHOOSE b \in Range(chain) : b.id = p.id

(* Sizes for which neither the rounding nor the header makes the sum wrap.   *)
Representable(size) == size + 3 + Header < 2^Width

(* Every piece lies inside a block of the arena, as many bytes as were asked *)
(* for, begins at a multiple of 4 and shares none with another piece: in     *)
(* arena_alloc through large and small pieces, new blocks and resets, for    *)
(* every size whose rounding up does not wrap to a smaller one, whatever     *)
(* sizes are asked for in between.                                           *)
PiecesSound ==
    LET sound == {p \in pieces : Representable(p.size)} IN
    \A p \in sound :
        /\ \E b \in Range(chain) : b.id = p.id
        /\ End(p) <= BlockOf(p).cap /\ p.from % 4 = 0
        /\ \A q \in sound \ {p} : p.id = q.id => End(p) <= q.from \/ End(q) <= p.from

(* No block is lost or counted twice: arena_destroy, which walks the chain,  *)
(* gives back everything the heap gave.                                      *)
BlocksAccounted ==
    /\ Len(chain) + heap = MaxBlocks
    /\ \A i, j \in 1..Len(chain) : i # j => chain[i].id # chain[j].id

(* Pieces and blocks are sound after any sequence of arena_alloc and         *)
(* arena_reset.                                                              *)
ArenaSound == PiecesSound /\ BlocksAccounted
=============================================================================
