----------------------------- MODULE BufferCache -----------------------------
(***************************************************************************)
(* The buffer cache of fs/noxfs/buffer.c: a fixed set of buffers, found    *)
(* through hash chains and recycled in least-recently-used order.          *)
(*                                                                         *)
(* A caller (noxfs.c) takes a buffer with bread, changes its data and sets *)
(* B_DIRTY, writes it with bwrite and gives it back with brelse, for       *)
(* several blocks at a time but never twice for one: what it reads while   *)
(* it holds an indirect block are bitmap blocks and the superblock.        *)
(* balloc has no caller and is left out, so every hashed buffer is valid.  *)
(***************************************************************************)
EXTENDS Integers, Sequences, Functions

CONSTANTS
  NBUF,        \* number of buffers
  Blocks,      \* block numbers
  Buckets, HashOf,   \* hash chains, and the chain of a block
  Contents,    \* contents of a block
  ReadFails, WriteFails   \* whether blk_rw may fail

(* &g_buffers[i], numbered from 1. *)
Bufs == 1..NBUF

(* What the constants are. *)
CacheConstants == NBUF \in Nat /\ HashOf \in [Blocks -> Buckets]

VARIABLES
  valid, dirty, busy,   \* the buffers with B_VALID, B_DIRTY, B_BUSY
  blockno, data,        \* buf_t
  chain,                \* g_hash: the buffers of a chain, first to last
  lru,                  \* the LRU list, most recently used first
  disk,                 \* the medium
  held, holder,         \* the blocks a caller holds, the buffer bread returned
  store,                \* history: what was last stored in each block
  hurt                  \* history: the blocks an operation of the device failed for

cacheVars == <<valid, dirty, busy, blockno, data, chain, lru, disk, held, holder, store, hurt>>

(* buf_init links the buffers head first: the first one is the LRU tail. *)
CacheInit ==
  /\ valid = {} /\ dirty = {} /\ busy = {}
  /\ blockno = [c \in Bufs |-> 0]
  /\ \E d \in Contents : data = [c \in Bufs |-> d] /\ disk = [b \in Blocks |-> d]
  /\ chain = [h \in Buckets |-> <<>>]
  /\ lru = [i \in Bufs |-> NBUF + 1 - i]
  /\ held = {} /\ holder = [b \in Blocks |-> 0]
  /\ store = disk /\ hurt = {}

(* Fault: the head of the chain is taken for the block. *)
Lookup_HeadOnly(b) == IF chain[HashOf[b]] = <<>> THEN 0 ELSE chain[HashOf[b]][1]

(* _hash_lookup: the first buffer of the chain with that block number, 0   *)
(* for NULL.                                                               *)
Lookup(b) ==
  LET c == chain[HashOf[b]]
      where == {i \in DOMAIN c : blockno[c[i]] = b}
  IN IF where = {} THEN 0 ELSE c[CHOOSE i \in where : \A j \in where : i <= j]

(* A linked list without one of its nodes. *)
Without(q, c) ==
  IF \E i \in DOMAIN q : q[i] = c
  THEN LET i == CHOOSE i \in DOMAIN q : q[i] = c
       IN [j \in 1..(Len(q) - 1) |-> IF j < i THEN q[j] ELSE q[j + 1]]
  ELSE q

(* _lru_remove and _lru_insert_head. *)
ToHead(c) == <<c>> \o Without(lru, c)

(* _evict: from the tail, the first buffer that is neither busy nor dirty, *)
(* or else the first that is not busy, which is written back.              *)
LastIn(S) ==
  LET where == {i \in DOMAIN lru : lru[i] \in S}
  IN lru[CHOOSE i \in where : \A j \in where : i >= j]
Victim == IF Bufs \ (busy \cup dirty) # {} THEN LastIn(Bufs \ (busy \cup dirty))
          ELSE LastIn(Bufs \ busy)

(* bread when the block has a buffer. *)
BreadHit(b) ==
  LET c == Lookup(b) IN
  /\ c # 0 /\ b \notin held
  /\ lru' = ToHead(c)
  /\ busy' = busy \cup {c}
  /\ held' = held \cup {b} /\ holder' = [holder EXCEPT ![b] = c]
  /\ UNCHANGED <<valid, dirty, blockno, data, chain, disk, store, hurt>>

(* Fault: the victim stays in its old chain. *)
Rehashed_Leaves(c, b) == [chain EXCEPT ![HashOf[b]] = <<c>> \o @]

(* Unhashing the victim, when it holds a block, and hashing it again.  *)
Rehashed(c, b) ==
  LET out == IF c \in valid THEN [chain EXCEPT ![HashOf[blockno[c]]] = Without(@, c)]
             ELSE chain
  IN [out EXCEPT ![HashOf[b]] = <<c>> \o @]

(* bread otherwise.  A victim whose write-back fails is recycled all the   *)
(* same, and a buffer whose read fails counts as valid.  When every buffer *)
(* is busy bread returns NULL and changes nothing.                         *)
BreadMiss(b) ==
  LET c == Victim IN
  /\ Lookup(b) = 0 /\ Bufs \ busy # {}
  /\ \E wrote \in {TRUE, ~WriteFails}, got \in {TRUE, ~ReadFails} :
       /\ disk' = IF c \in dirty /\ wrote THEN [disk EXCEPT ![blockno[c]] = data[c]] ELSE disk
       /\ data' = IF got THEN [data EXCEPT ![c] = disk'[b]] ELSE data
       /\ hurt' = hurt \cup (IF c \in dirty /\ ~wrote THEN {blockno[c]} ELSE {})
                       \cup (IF got THEN {} ELSE {b})
  /\ chain' = Rehashed(c, b)
  /\ blockno' = [blockno EXCEPT ![c] = b]
  /\ valid' = valid \cup {c} /\ dirty' = dirty \ {c} /\ busy' = busy \cup {c}
  /\ lru' = ToHead(c)
  /\ held' = held \cup {b} /\ holder' = [holder EXCEPT ![b] = c]
  /\ UNCHANGED store

(* The caller changes a block it holds. *)
Modify(b, d) ==
  /\ b \in held
  /\ data' = [data EXCEPT ![holder[b]] = d]
  /\ dirty' = dirty \cup {holder[b]}
  /\ store' = [store EXCEPT ![b] = d]
  /\ UNCHANGED <<valid, busy, blockno, chain, lru, disk, held, holder, hurt>>

(* bwrite: a failed write leaves the buffer dirty. *)
Bwrite(b) ==
  LET c == holder[b] IN
  /\ b \in held /\ c \in dirty
  /\ disk' = [disk EXCEPT ![blockno[c]] = data[c]]
  /\ dirty' = dirty \ {c}
  /\ UNCHANGED <<valid, busy, blockno, data, chain, lru, held, holder, store, hurt>>

Brelse(b) ==
  /\ b \in held
  /\ busy' = busy \ {holder[b]}
  /\ held' = held \ {b}
  /\ UNCHANGED <<valid, dirty, blockno, data, chain, lru, disk, holder, store, hurt>>

CacheNext ==
  \E b \in Blocks :
    \/ BreadHit(b) \/ BreadMiss(b) \/ Bwrite(b) \/ Brelse(b)
    \/ \E d \in Contents : Modify(b, d)

CacheSpec == CacheInit /\ [][CacheNext]_cacheVars

-----------------------------------------------------------------------------
(* The contents of a block as the next bread will see them. *)
View(b) == IF Lookup(b) = 0 THEN disk[b] ELSE data[Lookup(b)]

(* A block never goes back to an older value: after any sequence of hits,  *)
(* evictions and write-backs, what bread returns for it is what was last   *)
(* stored in it.  A device that fails harms only the block it failed for:  *)
(* _evict drops a victim it could not write and bread keeps a buffer it    *)
(* could not fill, but neither touches another block.                      *)
Coherent == \A b \in Blocks \ hurt : View(b) = store[b]

(* Two buffers never hold the same block, and a chain holds exactly the    *)
(* valid buffers that hash to it: _hash_insert and _hash_remove stay       *)
(* paired while blockno changes in between.                                *)
OneBufferPerBlock ==
  /\ \A h \in Buckets : IsInjective(chain[h])
  /\ \A h \in Buckets : Range(chain[h]) = {c \in valid : HashOf[blockno[c]] = h}
  /\ \A c, e \in valid : blockno[c] = blockno[e] => c = e

(* A block that a caller holds stays in the buffer the caller was given:   *)
(* bread never recycles a buffer between bread and brelse.                 *)
HeldBuffersStay ==
  \A b \in held : holder[b] \in valid /\ blockno[holder[b]] = b

(* What is not on the medium can still be written: a block whose last      *)
(* value has not reached it has a dirty buffer (bwrite clears B_DIRTY only *)
(* after a write that succeeded), unless the device failed for it.         *)
UnwrittenStaysDirty ==
  \A b \in Blocks \ hurt : disk[b] # store[b] => \E c \in dirty : blockno[c] = b

(* The bookkeeping of the buffers is right at every call boundary: chains, *)
(* held buffers and dirty flags (bread, bwrite, brelse).                   *)
BuffersSound == OneBufferPerBlock /\ HeldBuffersStay /\ UnwrittenStaysDirty
=============================================================================
