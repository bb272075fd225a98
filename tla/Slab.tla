-------------------------------- MODULE Slab -------------------------------
(* The slab allocator (mm/slab.c): caches of equal objects, cut from blocks  *)
(* that come from the kernel heap and go back to it when slab_reap finds     *)
(* them idle. The free list runs through the first word of the objects; that *)
(* word belongs to the caller while an object is in use.                     *)
EXTENDS Integers, Sequences, FiniteSets, FiniteSetsExt, SequencesExt

CONSTANTS Caches,
          Bases,      \* places where the heap can put a block
          GrowBy,     \* objects per block
          Listed      \* rows of g_all_caches (8)

Objects == Bases \X (0..(GrowBy - 1))
Nil == <<"nil">>
Data == <<"data">>

VARIABLES created,    \* the caches in the order of slab_create
          head,       \* free_head of each cache
          word,       \* the first word of every object
          blocks,     \* the block list of each cache: bases, newest first
          b_free,     \* n_free of the block at each base
          n_free, n_alloc,
          live        \* history: the objects each cache has handed out
vars == <<created, head, word, blocks, b_free, n_free, n_alloc, live>>

Init ==
    /\ created = <<>>
    /\ head = [c \in Caches |-> Nil] /\ word = [o \in Objects |-> Data]
    /\ blocks = [c \in Caches |-> <<>>] /\ b_free = [b \in Bases |-> 0]
    /\ n_free = [c \in Caches |-> 0] /\ n_alloc = [c \in Caches |-> 0]
    /\ live = [c \in Caches |-> {}]

Taken == UNION {Range(blocks[c]) : c \in Caches}
ObjectsOf(base) == {<<base, i>> : i \in 0..(GrowBy - 1)}

(* The objects on the free list of c, following the words; a walk that does  *)
(* not end at Nil ends in Data.                                              *)
FreeList(c) ==
    LET Step(walk, n) == IF Last(walk) \in {Nil, Data} THEN walk
                         ELSE Append(walk, word[Last(walk)])
    IN FoldLeft(Step, <<head[c]>>, [n \in 1..(Cardinality(Objects) + 1) |-> n])

(* slab_create *)
Create(c) ==
    /\ c \notin Range(created)
    /\ created' = Append(created, c)
    /\ UNCHANGED <<head, word, blocks, b_free, n_free, n_alloc, live>>

(* _slab_grow: the objects of the new block, the last one in front.          *)
Grown(base, c) ==
    [o \in Objects |-> IF o[1] # base THEN word[o]
                       ELSE IF o[2] = 0 THEN head[c] ELSE <<base, o[2] - 1>>]

(* The object leaves the list, is counted against its block and zeroed.      *)
Take(c, o, words, frees) ==
    /\ head' = [head EXCEPT ![c] = words[o]]
    /\ word' = [words EXCEPT ![o] = Data]
    /\ b_free' = [frees EXCEPT ![o[1]] = IF @ > 0 THEN @ - 1 ELSE 0]

(* slab_alloc, from the list or from a new block. Without memory it returns  *)
(* NULL and changes nothing.                                                 *)
Alloc(c) ==
    /\ c \in Range(created)
    /\ \/ /\ head[c] # Nil
          /\ Take(c, head[c], word, b_free)
          /\ n_free' = [n_free EXCEPT ![c] = @ - 1]
          /\ live' = [live EXCEPT ![c] = @ \cup {head[c]}]
          /\ UNCHANGED blocks
       \/ /\ head[c] = Nil
          /\ \E base \in Bases \ Taken :
                /\ blocks' = [blocks EXCEPT ![c] = <<base>> \o @]
                /\ Take(c, <<base, GrowBy - 1>>, Grown(base, c), [b_free EXCEPT ![base] = GrowBy])
                /\ live' = [live EXCEPT ![c] = @ \cup {<<base, GrowBy - 1>>}]
          /\ n_free' = [n_free EXCEPT ![c] = @ + GrowBy - 1]
    /\ n_alloc' = [n_alloc EXCEPT ![c] = @ + 1]
    /\ UNCHANGED created

(* slab_free *)
Free(c, o) ==
    /\ o \in live[c]
    /\ word' = [word EXCEPT ![o] = head[c]]
    /\ head' = [head EXCEPT ![c] = o]
    /\ n_free' = [n_free EXCEPT ![c] = @ + 1]
    /\ n_alloc' = [n_alloc EXCEPT ![c] = @ - 1]
    /\ b_free' = [b_free EXCEPT ![o[1]] = @ + 1]
    /\ live' = [live EXCEPT ![c] = @ \ {o}]
    /\ UNCHANGED <<created, blocks>>

(* Fault: a block with one object in use passes for idle.                    *)
Idle_OffByOne(c) == {b \in Range(blocks[c]) : b_free[b] >= GrowBy - 1}

(* The test of slab_reap.                                                    *)
Idle(c) == {b \in Range(blocks[c]) : b_free[b] = GrowBy}

(* What stays on the free list when idle blocks are released.                *)
Kept(c, o) == o[1] \notin Idle(c)

(* slab_reap: per idle block, its objects are unlinked, then it is freed.    *)
Reaped(c) ==
    LET list == SelectSeq(Front(FreeList(c)), LAMBDA o : Kept(c, o))
    IN [head |-> IF list = <<>> THEN Nil ELSE Head(list),
        word |-> [o \in Range(list) |->
                    LET i == CHOOSE k \in 1..Len(list) : list[k] = o
                    IN IF i = Len(list) THEN Nil ELSE list[i + 1]],
        gone |-> Len(FreeList(c)) - 1 - Len(list)]

(* The caches in the set are reaped one after the other.                     *)
Reap(caches) ==
    LET reaped == [c \in caches |-> Reaped(c)]
        relinked == UNION {DOMAIN reaped[c].word : c \in caches}
        cacheOf(o) == CHOOSE c \in caches : o \in DOMAIN reaped[c].word
    IN /\ head' = [c \in Caches |-> IF c \in caches THEN reaped[c].head ELSE head[c]]
       /\ word' = [o \in Objects |->
                     IF o \in relinked THEN reaped[cacheOf(o)].word[o] ELSE word[o]]
       /\ blocks' = [c \in Caches |->
                       IF c \in caches THEN SelectSeq(blocks[c], LAMBDA b : b \notin Idle(c))
                       ELSE blocks[c]]
       /\ n_free' = [c \in Caches |->
                       IF c \in caches THEN n_free[c] - reaped[c].gone ELSE n_free[c]]
       /\ UNCHANGED <<created, b_free, n_alloc, live>>

(* slab_reap_all: the caches that found a row in g_all_caches.               *)
InList == {created[i] : i \in 1..Min({Len(created), Listed})}
ReapAll == Reap(InList)

Next ==
    \/ \E c \in Caches : Create(c) \/ Alloc(c) \/ (c \in Range(created) /\ Reap({c}))
    \/ \E c \in Caches, o \in Objects : Free(c, o)
    \/ ReapAll

Spec == Init /\ [][Next]_vars

-----------------------------------------------------------------------------
(* The free list of a cache, read through the words in memory, ends, holds   *)
(* no object twice, and holds exactly the objects of the cache's blocks that *)
(* are not in use: no live object and none of a released block is on it, and *)
(* none is lost.                                                             *)
FreeListExact ==
    \A c \in Caches :
        LET list == Front(FreeList(c))
        IN /\ Last(FreeList(c)) = Nil
           /\ Cardinality(Range(list)) = Len(list)
           /\ Range(list) = UNION {ObjectsOf(b) : b \in Range(blocks[c])} \ live[c]

(* Every object in use lies in a block its cache still holds, whatever has   *)
(* been reaped, and belongs to one cache.                                    *)
LiveObjectsKept ==
    \A c \in Caches :
        /\ \A o \in live[c] : o[1] \in Range(blocks[c])
        /\ \A d \in Caches \ {c} : live[c] \cap live[d] = {}

(* The counters say what the lists say: per cache and per block, so that     *)
(* slab_reap sees every idle block and no other.                             *)
CountersExact ==
    \A c \in Caches :
        /\ n_alloc[c] = Cardinality(live[c])
        /\ n_free[c] = Len(FreeList(c)) - 1
        /\ \A b \in Range(blocks[c]) :
              b_free[b] = Cardinality(ObjectsOf(b) \ live[c])

(* The lists, the counters and the objects in use agree after any sequence   *)
(* of slab_alloc, slab_free and slab_reap.                                   *)
SlabSound == FreeListExact /\ LiveObjectsKept /\ CountersExact
=============================================================================
