------------------------------- MODULE MCMemory ------------------------------
(***************************************************************************)
(* The allocators: frames and address spaces, the kernel heap, and the     *)
(* slab and arena allocators that take their blocks from it.  The modules  *)
(* share no state; a behaviour exercises one of them (part) while the      *)
(* others stay as they started.  Address spaces are looked at twice, with  *)
(* constants that make different things happen.                            *)
(***************************************************************************)
EXTENDS Heap, TLC

CONSTANTS p0, p1, p2    \* processes

VARIABLES part,
  (* Memory *)
  used, ref, data, spaces, tab, pte, state, pml4, brk, stack_low,
  op, caller, dst, todo, fresh, arg, halted, exhausted, saturated, lost,
  (* Slab *)
  created, head, word, blocks, b_free, n_free, n_alloc, live,
  (* Arena *)
  chain, heap, pieces

(* Two processes whose heap and stack grow until memory is exhausted.  The *)
(* stack page that exec maps is 2 MB aligned: the pages below it need a    *)
(* table of their own.                                                     *)
Tight == INSTANCE Memory WITH
  Frames <- 1..7, MaxRef <- 3, HeapPages <- 2, USTACK_LIMIT <- 2, USTACK_BASE <- 3,
  PageUnits <- 2, TablesOf <- [va \in 0..3 |-> IF va = 2 THEN {1, 2} ELSE {1}],
  Procs <- {p0, p1}, First <- p0, Images <- {1}, Breaks <- {3, 9}, Values <- {"z"}, Zero <- "z"

(* Three processes that share one page, the stack's, and need no tables;   *)
(* a count that is too small for them saturates.                           *)
Kin == INSTANCE Memory WITH
  Frames <- 1..6, MaxRef <- 2, HeapPages <- 0, USTACK_LIMIT <- 0, USTACK_BASE <- 0,
  PageUnits <- 2, TablesOf <- [va \in {0} |-> {}],
  Procs <- {p0, p1, p2}, First <- p0, Images <- {0}, Breaks <- {}, Values <- {"z"}, Zero <- "z"

(* The instances are as the proofs about Memory suppose.                   *)
ASSUME MemoryConstants == Tight!Constants /\ Kin!Constants

(* Two caches over a heap with room for two blocks.                         *)
Slabs == INSTANCE Slab WITH
  Caches <- {"c", "d"}, Bases <- {"b1", "b2"}, GrowBy <- 2, Listed <- 2

(* Blocks of 16 bytes with a header of 4, sizes of 6 bits; 62 rounds up to *)
(* 0.                                                                      *)
Arenas == INSTANCE Arena WITH
  Sizes <- {1, 5, 20, 62}, BlockSize <- 16, Header <- 4, Width <- 6, MaxBlocks <- 3

heapVars == <<blk, last>>
memoryVars == <<used, ref, data, spaces, tab, pte, state, pml4, brk, stack_low,
                op, caller, dst, todo, fresh, arg, halted, exhausted, saturated, lost>>
slabVars == <<created, head, word, blocks, b_free, n_free, n_alloc, live>>
arenaVars == <<chain, heap, pieces>>
allVars == <<part, heapVars, memoryVars, slabVars, arenaVars>>

AllInit ==
  /\ part \in {"heap", "tight", "kin", "slab", "arena"}
  /\ Init /\ Slabs!Init /\ Arenas!Init
  /\ \/ part = "kin" /\ Kin!Init
     \/ part # "kin" /\ Tight!Init

AllNext ==
  /\ UNCHANGED part
  /\ \/ part = "heap" /\ Next /\ UNCHANGED <<memoryVars, slabVars, arenaVars>>
     \/ part = "tight" /\ Tight!Next /\ UNCHANGED <<heapVars, slabVars, arenaVars>>
     \/ part = "kin" /\ Kin!Next /\ UNCHANGED <<heapVars, slabVars, arenaVars>>
     \/ part = "slab" /\ Slabs!Next /\ UNCHANGED <<heapVars, memoryVars, arenaVars>>
     \/ part = "arena" /\ Arenas!Next /\ UNCHANGED <<heapVars, memoryVars, slabVars>>

AllSpec == AllInit /\ [][AllNext]_allVars

(* Children are interchangeable.                                           *)
Symmetry == Permutations({p1, p2})

(* A bound: the three processes stop when an allocation fails or a count   *)
(* saturates.                                                              *)
KinUntilExhausted == part = "kin" => ~exhausted /\ ~saturated

-----------------------------------------------------------------------------
(* Every frame is counted, held and promised exactly (pmm_addref,          *)
(* pmm_free_frame, sys_exec, sys_brk), and a writable page is mapped once  *)
(* (vmm_cow_user_space, vmm_page_fault_handler), while allocations fail at *)
(* every point, and until a count saturates.                               *)
MemorySound ==
  /\ part = "tight" => Tight!FramesAccounted /\ Tight!WritablePagesPrivate
  /\ part = "kin" => Kin!RefcountsExact /\ Kin!NothingLost /\ Kin!WritablePagesPrivate

(* The free lists, the counters and the objects in use agree (slab_alloc,  *)
(* slab_free, slab_reap).                                                  *)
SlabSound == part = "slab" => Slabs!SlabSound

(* arena_alloc hands out disjoint pieces of the size asked for, and        *)
(* arena_destroy gives back every block.                                   *)
ArenaSound == part = "arena" => Arenas!ArenaSound
=============================================================================
