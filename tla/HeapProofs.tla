---------------------------- MODULE HeapProofs -----------------------------
(* The heap of heap.c keeps its list well formed, for every heap size and    *)
(* every set of requests, and implements Allocator.                          *)
EXTENDS Heap, TLAPS

(* A step that cites no prover is left to the SMT solver. *)
USE SMTT(30)

IsHeap(f) == Typed(f) /\ Follows(f) /\ Disjoint(f) /\ Covers(f) /\ Linked(f)

(* The inductive invariant.                                                  *)
Inv == IsHeap(blk) /\ Coalesced

(* Rounding up to 16 bytes leaves room for what was asked for (ALIGN16).     *)
LEMMA AlignFacts ==
    ASSUME NEW n \in Nat
    PROVE  /\ Align16(n) \in Nat
           /\ n > 0 => Align16(n) > 0
           /\ 16 * Align16(n) >= n
           /\ 16 * Align16(n) < n + 16
BY DEF Align16

(* A predecessor that is there is in front, and names the block.             *)
LEMMA PrevFacts ==
    ASSUME NEW f, IsHeap(f), NEW b \in DOMAIN f, f[b].prev # Nil
    PROVE  b # 0 /\ f[b].prev \in DOMAIN f /\ f[f[b].prev].next = b
BY Zenon DEF IsHeap, Linked

(* Changing the free bit of a block changes nothing else of the list.        *)
LEMMA FlagHeap ==
    ASSUME NEW f, IsHeap(f), NEW b \in DOMAIN f, NEW v \in BOOLEAN
    PROVE  /\ IsHeap(Flag(f, b, v)) /\ DOMAIN Flag(f, b, v) = DOMAIN f
           /\ \A x \in DOMAIN f :
                /\ Flag(f, b, v)[x].next = f[x].next
                /\ Flag(f, b, v)[x].free = IF x = b THEN v ELSE f[x].free
                /\ End(Flag(f, b, v), x) = End(f, x)
<1> DEFINE g == Flag(f, b, v)
<1>1. DOMAIN g = DOMAIN f
  BY Zenon DEF Flag
<1>2. \A x \in DOMAIN f : /\ g[x].size = f[x].size /\ g[x].next = f[x].next
                          /\ g[x].prev = f[x].prev
                          /\ g[x].free = IF x = b THEN v ELSE f[x].free
  BY Zenon DEF Flag, Blk
<1>3. Typed(g)
  BY Zenon DEF IsHeap, Typed, Flag, Blk, Blocks
<1> HIDE DEF g
<1>4. \A x \in DOMAIN f : End(g, x) = End(f, x)
  BY <1>2, Zenon DEF End
<1>5. Follows(g)
  BY <1>1, <1>2, <1>4, Zenon DEF IsHeap, Follows
<1>6. Disjoint(g) /\ Covers(g)
  BY <1>1, <1>4, Zenon DEF IsHeap, Disjoint, Covers
<1>7. Linked(g)
  BY <1>1, <1>2 DEF IsHeap, Linked
<1> QED BY <1>1, <1>2, <1>3, <1>4, <1>5, <1>6, <1>7, Zenon DEF IsHeap, g

(* Taking over the next block keeps the list well formed (both merges of     *)
(* kfree).                                                                   *)
LEMMA AbsorbHeap ==
    ASSUME NEW f, IsHeap(f), NEW b \in DOMAIN f, NEW c, c = f[b].next, c # Nil
    PROVE  /\ IsHeap(Absorb(f, b, c))
           /\ c \in DOMAIN f /\ b < c /\ DOMAIN Absorb(f, b, c) = DOMAIN f \ {c}
           /\ \A x \in DOMAIN f \ {c} :
                /\ Absorb(f, b, c)[x].free = f[x].free
                /\ Absorb(f, b, c)[x].next = IF x = b THEN f[c].next ELSE f[x].next
                /\ x # b => End(Absorb(f, b, c), x) = End(f, x)
<1> DEFINE g == Absorb(f, b, c)
<1>1. c \in DOMAIN f /\ c = End(f, b) /\ b < c /\ f[b].size \in Int /\ f[b].size > 0
      /\ f[c].size \in Int /\ f[c].size > 0 /\ b \in Int /\ c \in Int
  BY DEF IsHeap, Follows, Typed, Blocks, End, Header
<1>2. DOMAIN g = DOMAIN f \ {c}
  BY Zenon DEF Absorb
<1>3. \A x \in DOMAIN g :
        /\ g[x].size = IF x = b THEN f[b].size + Header + f[c].size ELSE f[x].size
        /\ g[x].next = IF x = b THEN f[c].next ELSE f[x].next
        /\ g[x].prev = IF x = f[c].next /\ x # b THEN b ELSE f[x].prev
        /\ g[x].free = f[x].free
  BY <1>2, Zenon DEF Absorb, Blk
<1>4. f[c].next # b
  BY <1>1, HeapAssumption DEF IsHeap, Follows, Typed, Blocks, End, Header, Nil
<1>5. Typed(g)
  BY <1>1, <1>2 DEF IsHeap, Typed, Absorb, Blk, Blocks, Header
<1> HIDE DEF g
<1>6. End(g, b) = End(f, c) /\ \A x \in DOMAIN g : x # b => End(g, x) = End(f, x)
  BY <1>1, <1>2, <1>3 DEF End, Header
<1>7. Follows(g)
  <2> SUFFICES ASSUME NEW x \in DOMAIN g
               PROVE  /\ g[x].size > 0 /\ End(g, x) <= Size
                      /\ g[x].next = IF End(g, x) = Size THEN Nil ELSE End(g, x)
                      /\ g[x].next # Nil => g[x].next \in DOMAIN g
    BY Zenon DEF Follows
  <2>1. CASE x = b
    <3>1. f[c].next # c
      BY <1>1 DEF IsHeap, Follows, Typed, Blocks, End, Header, Nil
    <3>2. End(f, c) <= Size /\ f[c].next = (IF End(f, c) = Size THEN Nil ELSE End(f, c))
          /\ (f[c].next # Nil => f[c].next \in DOMAIN f)
      BY <1>1, Zenon DEF IsHeap, Follows
    <3>3. g[b].size > 0
      BY <1>1, <1>2, <1>3 DEF Header
    <3> QED BY <2>1, <1>2, <1>3, <1>6, <3>1, <3>2, <3>3, Zenon
  <2>2. CASE x # b
    <3>1. x \in DOMAIN f /\ x # c
      BY <1>2, Zenon
    <3>2. f[x].next # c
      <4>1. x \in Int /\ End(f, x) \in Int /\ f[x].size \in Int /\ End(f, b) \in Int
        BY <1>1, <3>1 DEF IsHeap, Typed, Blocks, End, Header
      <4>2. x < b \/ b < x
        BY <4>1, <1>1, <2>2
      <4>3. CASE x < b
        BY <4>1, <4>3, <1>1, <3>1 DEF IsHeap, Follows, Disjoint, Nil
      <4>4. CASE b < x
        BY <4>1, <4>4, <1>1, <3>1 DEF IsHeap, Follows, Disjoint, Nil, End, Header
      <4> QED BY <4>2, <4>3, <4>4, Zenon
    <3> QED BY <2>2, <3>1, <3>2, <1>2, <1>3, <1>6 DEF IsHeap, Follows
  <2> QED BY <2>1, <2>2, Zenon
<1>8. Disjoint(g)
  <2> SUFFICES ASSUME NEW x \in DOMAIN g, NEW y \in DOMAIN g, x < y
               PROVE  End(g, x) <= y
    BY Zenon DEF Disjoint
  <2>0. x \in DOMAIN f /\ y \in DOMAIN f /\ y # c /\ x \in Int /\ y \in Int
    BY <1>2 DEF IsHeap, Typed
  <2>1. CASE x # b
    BY <2>0, <2>1, <1>6, Zenon DEF IsHeap, Disjoint
  <2>2. CASE x = b
    <3>1. End(f, b) <= y
      BY <2>0, <2>2, Zenon DEF IsHeap, Disjoint
    <3>2. c < y
      BY <3>1, <2>0, <1>1
    <3> QED BY <3>2, <2>0, <2>2, <1>1, <1>6, Zenon DEF IsHeap, Disjoint
  <2> QED BY <2>1, <2>2, Zenon
<1>9. Covers(g)
  <2> SUFFICES ASSUME NEW u \in 0..(Size - 1)
               PROVE  \E x \in DOMAIN g : x <= u /\ u < End(g, x)
    BY Zenon DEF Covers
  <2>1. PICK x \in DOMAIN f : x <= u /\ u < End(f, x)
    BY Zenon DEF IsHeap, Covers
  <2>2. u \in Int /\ x \in Int /\ End(f, c) \in Int /\ c < End(f, c)
    BY <1>1, HeapAssumption DEF IsHeap, Typed, Blocks, End, Header
  <2>3. CASE x = b
    BY <2>1, <2>2, <2>3, <1>1, <1>2, <1>6
  <2>4. CASE x = c
    BY <2>1, <2>2, <2>4, <1>1, <1>2, <1>6
  <2>5. CASE x # b /\ x # c
    BY <2>1, <2>5, <1>2, <1>6, Zenon
  <2> QED BY <2>3, <2>4, <2>5, Zenon
<1>10. Linked(g)
  <2>1. 0 \in DOMAIN g
    BY <1>1, <1>2 DEF IsHeap, Linked, Typed
  <2>2. f[c].next # 0
    BY <1>1 DEF IsHeap, Follows, Typed, Blocks, End, Header, Nil
  <2>3. g[0].prev = Nil
    BY <2>1, <2>2, <1>3, Zenon DEF IsHeap, Linked
  <2>4. ASSUME NEW x \in DOMAIN g, x # 0
        PROVE  g[x].prev \in DOMAIN g /\ g[g[x].prev].next = x
    <3>0. x \in DOMAIN f /\ f[x].prev \in DOMAIN f /\ f[f[x].prev].next = x /\ x # c
      BY <2>4, <1>2, Zenon DEF IsHeap, Linked
    <3>1. CASE x = f[c].next
      BY <3>1, <1>1, <1>2, <1>3, <1>4, Zenon
    <3>2. CASE x # f[c].next
      <4>1. f[x].prev # c
        BY <3>0, <3>2, Zenon
      <4>2. f[x].prev # b
        BY <3>0, Zenon
      <4> QED BY <3>0, <3>2, <4>1, <4>2, <1>2, <1>3
    <3> QED BY <3>1, <3>2, Zenon
  <2> QED BY <2>1, <2>3, <2>4, Zenon DEF Linked
<1> QED BY <1>1, <1>2, <1>3, <1>5, <1>6, <1>7, <1>8, <1>9, <1>10, Zenon DEF IsHeap, g

(* Cutting a block in two keeps the list well formed (kmalloc).              *)
LEMMA SplitHeap ==
    ASSUME IsHeap(blk), NEW b \in DOMAIN blk, NEW w \in Nat, w > 0, Splits(b, w),
           NEW nb, nb = b + Header + w, NEW g, g = Split(b, w)
    PROVE  /\ IsHeap(g)
           /\ nb \notin DOMAIN blk /\ DOMAIN g = DOMAIN blk \cup {nb}
           /\ End(g, b) = nb /\ g[b].next = nb /\ ~g[b].free
           /\ g[nb].next = blk[b].next /\ g[nb].free
           /\ \A x \in DOMAIN blk : x # b =>
                /\ g[x].free = blk[x].free /\ g[x].next = blk[x].next
                /\ End(g, x) = End(blk, x)
<1> DEFINE old == blk[b].next
<1>1. /\ b \in Int /\ blk[b].size \in Int /\ nb \in Int /\ b < nb /\ nb < End(blk, b)
      /\ End(blk, b) \in Int /\ End(blk, b) <= Size /\ nb \in 0..(Size - 1)
  BY HeapAssumption DEF IsHeap, Follows, Typed, Blocks, End, Header, Splits
<1>2. nb \notin DOMAIN blk
  BY <1>1 DEF IsHeap, Disjoint
<1>3. DOMAIN g = DOMAIN blk \cup {nb}
  BY Zenon DEF Split
<1>4. old # b /\ old # nb
  BY <1>1 DEF IsHeap, Follows, Nil, Typed
<1>5. /\ g[nb].size = blk[b].size - w - Header /\ g[nb].next = old /\ g[nb].prev = b
      /\ g[nb].free
  BY <1>1, <1>3, Zenon DEF Split, Blk
<1>6. /\ g[b].size = w /\ g[b].next = nb /\ g[b].prev = blk[b].prev /\ ~g[b].free
  BY <1>1, <1>3 DEF Split, Blk
<1>7. \A x \in DOMAIN blk : x # b =>
        /\ g[x].size = blk[x].size /\ g[x].next = blk[x].next /\ g[x].free = blk[x].free
        /\ g[x].prev = IF x = old THEN nb ELSE blk[x].prev
  BY <1>2, <1>3, Zenon DEF Split, Blk
<1>8. Typed(g)
  BY <1>1, <1>3 DEF IsHeap, Typed, Split, Blk, Blocks, Header
<1>9. End(g, b) = nb /\ End(g, nb) = End(blk, b)
      /\ \A x \in DOMAIN blk : x # b => End(g, x) = End(blk, x)
  BY <1>1, <1>2, <1>5, <1>6, <1>7 DEF End, Header
<1> HIDE DEF old
<1>10. Follows(g)
  <2> SUFFICES ASSUME NEW x \in DOMAIN g
               PROVE  /\ g[x].size > 0 /\ End(g, x) <= Size
                      /\ g[x].next = IF End(g, x) = Size THEN Nil ELSE End(g, x)
                      /\ g[x].next # Nil => g[x].next \in DOMAIN g
    BY Zenon DEF Follows
  <2>1. CASE x = b
    BY <2>1, <1>1, <1>3, <1>6, <1>9, HeapAssumption
  <2>2. CASE x = nb
    <3>1. g[nb].size > 0
      BY <1>1, <1>5 DEF Splits, Header
    <3>2. old = (IF End(blk, b) = Size THEN Nil ELSE End(blk, b))
          /\ (old # Nil => old \in DOMAIN blk)
      BY Zenon DEF IsHeap, Follows, old
    <3> QED BY <2>2, <3>1, <3>2, <1>1, <1>3, <1>5, <1>9, Zenon
  <2>3. CASE x # b /\ x # nb
    BY <2>3, <1>3, <1>7, <1>9 DEF IsHeap, Follows
  <2> QED BY <2>1, <2>2, <2>3, Zenon
<1>11. Disjoint(g)
  <2> SUFFICES ASSUME NEW x \in DOMAIN g, NEW y \in DOMAIN g, x < y
               PROVE  End(g, x) <= y
    BY Zenon DEF Disjoint
  <2>1. x \in Int /\ y \in Int
    BY <1>8 DEF Typed
  <2>2. CASE x = nb
    BY <2>1, <2>2, <1>1, <1>3, <1>9 DEF IsHeap, Disjoint
  <2>3. CASE x = b
    BY <2>1, <2>3, <1>1, <1>3, <1>9 DEF IsHeap, Disjoint
  <2>4. CASE x # b /\ x # nb /\ y # nb
    BY <2>1, <2>4, <1>3, <1>9, Zenon DEF IsHeap, Disjoint
  <2>5. CASE x # b /\ x # nb /\ y = nb
    <3>1. x \in DOMAIN blk /\ End(blk, x) \in Int
      BY <2>1, <2>5, <1>3 DEF IsHeap, Typed, Blocks, End, Header
    <3>2. x < b
      BY <3>1, <2>1, <2>5, <1>1 DEF IsHeap, Disjoint
    <3> QED BY <3>1, <3>2, <2>1, <2>5, <1>1, <1>9 DEF IsHeap, Disjoint
  <2> QED BY <2>2, <2>3, <2>4, <2>5, Zenon
<1>12. Covers(g)
  <2> SUFFICES ASSUME NEW u \in 0..(Size - 1)
               PROVE  \E x \in DOMAIN g : x <= u /\ u < End(g, x)
    BY Zenon DEF Covers
  <2>1. PICK x \in DOMAIN blk : x <= u /\ u < End(blk, x)
    BY Zenon DEF IsHeap, Covers
  <2>2. u \in Int /\ x \in Int
    BY HeapAssumption DEF IsHeap, Typed
  <2>3. CASE x = b
    BY <2>1, <2>2, <2>3, <1>1, <1>3, <1>9
  <2>4. CASE x # b
    BY <2>1, <2>4, <1>3, <1>9, Zenon
  <2> QED BY <2>3, <2>4, Zenon
<1>13. Linked(g)
  <2>1. 0 \in DOMAIN g
    BY <1>3, Zenon DEF IsHeap, Linked
  <2>2. old # 0
    BY <1>1 DEF IsHeap, Follows, Typed, Nil, old
  <2>3. g[0].prev = Nil
    BY <2>1, <2>2, <1>6, <1>7, Zenon DEF IsHeap, Linked
  <2>4. ASSUME NEW x \in DOMAIN g, x # 0
        PROVE  g[x].prev \in DOMAIN g /\ g[g[x].prev].next = x
    <3>1. CASE x = nb
      BY <3>1, <1>3, <1>5, <1>6, Zenon
    <3>2. CASE x = old /\ x # nb
      BY <3>2, <1>3, <1>4, <1>5, <1>7
    <3>3. CASE x # nb /\ x # old
      <4>1. x \in DOMAIN blk /\ blk[x].prev \in DOMAIN blk /\ blk[blk[x].prev].next = x
        BY <2>4, <3>3, <1>3, Zenon DEF IsHeap, Linked
      <4>2. blk[x].prev # b
        BY <4>1, <3>3, Zenon DEF old
      <4>3. g[x].prev = blk[x].prev
        BY <4>1, <3>3, <1>6, <1>7, Zenon
      <4> QED BY <4>1, <4>2, <4>3, <1>3, <1>7, Zenon
    <3> QED BY <3>1, <3>2, <3>3, Zenon
  <2> QED BY <2>1, <2>3, <2>4, Zenon DEF Linked
<1> QED BY <1>2, <1>3, <1>5, <1>6, <1>7, <1>8, <1>9, <1>10, <1>11, <1>12, <1>13, Zenon DEF IsHeap, old

(* A block has one predecessor, which is the one prev names.                 *)
LEMMA OnePrev ==
    ASSUME NEW f, IsHeap(f), NEW b \in DOMAIN f, NEW x \in DOMAIN f, f[x].next = b
    PROVE  f[b].prev # Nil /\ x = f[b].prev
<1>1. /\ b \in 0..(Size - 1) /\ x \in Int /\ f[x].size \in Int /\ f[x].size > 0
      /\ b = End(f, x) /\ x < b /\ x >= 0
  BY DEF IsHeap, Typed, Blocks, Follows, End, Header, Nil
<1>2. b # 0 /\ b \in Int
  BY <1>1
<1>3. f[b].prev \in DOMAIN f /\ f[f[b].prev].next = b
  BY <1>2, Zenon DEF IsHeap, Linked
<1> DEFINE y == f[b].prev
<1>4. y \in Int /\ y >= 0 /\ f[y].size \in Int /\ f[y].size > 0 /\ b = End(f, y) /\ y < b
  BY <1>1, <1>3 DEF IsHeap, Typed, Blocks, Follows, End, Header, Nil
<1>5. ~(x < y) /\ ~(y < x)
  BY <1>1, <1>3, <1>4 DEF IsHeap, Disjoint
<1> QED BY <1>1, <1>4, <1>5 DEF Nil

(* No two neighbours but b and its predecessor are both free.                *)
QuietBut(f, b) ==
    \A x \in DOMAIN f :
        f[x].free /\ f[x].next # Nil /\ f[x].next # b => ~f[f[x].next].free

Quiet(f) == \A x \in DOMAIN f : f[x].free /\ f[x].next # Nil => ~f[f[x].next].free

(* The first half of kfree: the block is free and merged with what follows.  *)
LEMMA MergeNextHeap ==
    ASSUME Inv, NEW b \in DOMAIN blk, ~blk[b].free,
           NEW g, g = MergeNext(Flag(blk, b, TRUE), b)
    PROVE  /\ IsHeap(g) /\ QuietBut(g, b) /\ b \in DOMAIN g /\ g[b].free
           /\ Used(g) = Used(blk) \ {b}
           /\ \A x \in Used(g) : End(g, x) = End(blk, x)
<1> DEFINE h == Flag(blk, b, TRUE)
           c == blk[b].next
<1>1. /\ IsHeap(h) /\ DOMAIN h = DOMAIN blk
      /\ \A x \in DOMAIN blk : /\ h[x].next = blk[x].next
                               /\ h[x].free = IF x = b THEN TRUE ELSE blk[x].free
                               /\ End(h, x) = End(blk, x)
  BY FlagHeap, Zenon DEF Inv
<1>2. h[b].next = c
  BY <1>1, Zenon
<1>3. \A x \in DOMAIN blk : h[x].next # Nil => h[x].next \in DOMAIN blk
  BY <1>1, Zenon DEF IsHeap, Follows
<1> HIDE DEF h, c
<1>4. CASE c # Nil /\ h[c].free
  <2>0. IsHeap(h) /\ b \in DOMAIN h /\ c = h[b].next /\ c # Nil
    BY <1>1, <1>2, <1>4, Zenon
  <2>1. g = Absorb(h, b, c)
    BY <1>2, <1>4, Zenon DEF MergeNext, h
  <2>2. /\ IsHeap(g) /\ c \in DOMAIN h /\ b < c /\ DOMAIN g = DOMAIN h \ {c}
        /\ \A x \in DOMAIN h \ {c} :
              /\ g[x].free = h[x].free
              /\ g[x].next = IF x = b THEN h[c].next ELSE h[x].next
              /\ x # b => End(g, x) = End(h, x)
    <3>1. /\ IsHeap(Absorb(h, b, c)) /\ c \in DOMAIN h /\ b < c
          /\ DOMAIN Absorb(h, b, c) = DOMAIN h \ {c}
          /\ \A x \in DOMAIN h \ {c} :
                /\ Absorb(h, b, c)[x].free = h[x].free
                /\ Absorb(h, b, c)[x].next = IF x = b THEN h[c].next ELSE h[x].next
                /\ x # b => End(Absorb(h, b, c), x) = End(h, x)
      BY <2>0, AbsorbHeap
    <3> QED BY <2>1, <3>1, Zenon
  <2>7. b # c
    BY <2>0, <2>2, HeapAssumption DEF IsHeap, Typed
  <2>3. b # c /\ b \in DOMAIN g /\ g[b].free
    BY <1>1, <2>0, <2>2, <2>7, Zenon
  <2>4. blk[c].free
    BY <1>1, <1>4, <2>2, <2>3, Zenon
  <2>5. ASSUME NEW x \in DOMAIN g, g[x].free, g[x].next # Nil, g[x].next # b
        PROVE  ~g[g[x].next].free
    <3>1. g[x].next \in DOMAIN g
      BY <2>2, <2>5, Zenon DEF IsHeap, Follows
    <3>2. PICK y \in DOMAIN blk : y = g[x].next /\ y \in DOMAIN h \ {c} /\ y # b
      BY <3>1, <2>2, <2>5, <1>1, Zenon
    <3>3. g[y].free = blk[y].free
      BY <3>2, <2>2, <1>1, ZenonT(30)
    <3>4. CASE x = b
      <4>1. y = blk[c].next /\ c \in DOMAIN blk
        BY <3>2, <3>4, <2>2, <2>3, <1>1, Zenon
      <4> QED BY <4>1, <3>2, <3>3, <2>4, <2>5, Zenon DEF Inv, Coalesced
    <3>5. CASE x # b
      <4>1. x \in DOMAIN h \ {c} /\ x \in DOMAIN blk
        BY <2>2, <2>5, <1>1, Zenon
      <4>2. blk[x].free /\ blk[x].next = y
        BY <4>1, <3>2, <3>5, <2>2, <2>5, <1>1, ZenonT(30)
      <4>3. ~blk[y].free
        BY <4>1, <4>2, <3>2, <2>5, Zenon DEF Inv, Coalesced
      <4> QED BY <4>3, <3>2, <3>3, Zenon
    <3> QED BY <3>4, <3>5, Zenon
  <2>6. Used(g) = Used(blk) \ {b}
    BY <1>1, <2>2, <2>3, <2>4, Zenon DEF Used
  <2>8. \A x \in Used(g) : End(g, x) = End(blk, x)
    <3> SUFFICES ASSUME NEW x \in Used(g) PROVE End(g, x) = End(blk, x)
      BY Zenon
    <3>1. x \in DOMAIN g /\ ~g[x].free
      BY Zenon DEF Used
    <3>2. x \in DOMAIN h \ {c} /\ x \in DOMAIN blk /\ x # b
      BY <3>1, <1>1, <2>2, <2>3, Zenon
    <3> QED BY <3>2, <1>1, <2>2, Zenon
  <2>9. QuietBut(g, b)
    BY <2>5, Zenon DEF QuietBut
  <2> QED BY <2>2, <2>3, <2>6, <2>8, <2>9, Zenon
<1>5. CASE ~(c # Nil /\ h[c].free)
  <2>1. g = h
    BY <1>2, <1>5, Zenon DEF MergeNext, h
  <2>2. QuietBut(h, b)
    BY <1>1, <1>2, <1>3, <1>5, ZenonT(30) DEF Inv, Coalesced, QuietBut, c
  <2> QED BY <1>1, <2>1, <2>2, Zenon DEF Used
<1> QED BY <1>4, <1>5, Zenon

(* kfree keeps the list well formed, merges completely, and ends the use of  *)
(* its own block only.                                                       *)
LEMMA KfreeHeap ==
    ASSUME Inv, NEW b \in DOMAIN blk, Kfree(b)
    PROVE  /\ IsHeap(blk') /\ Quiet(blk')
           /\ Used(blk') = Used(blk) \ {b}
           /\ \A x \in Used(blk') : End(blk', x) = End(blk, x)
<1> DEFINE g == MergeNext(Flag(blk, b, TRUE), b)
           p == g[b].prev
<1>1. /\ IsHeap(g) /\ QuietBut(g, b) /\ b \in DOMAIN g /\ g[b].free
      /\ Used(g) = Used(blk) \ {b}
      /\ \A x \in Used(g) : End(g, x) = End(blk, x)
  BY MergeNextHeap, Zenon DEF Kfree
<1>2. blk' = MergePrev(g, b)
  BY Zenon DEF Kfree
<1>3. \A x \in DOMAIN g : g[x].next # Nil => g[x].next \in DOMAIN g
  BY <1>1, Zenon DEF IsHeap, Follows
<1>4. \A x \in DOMAIN g : g[x].next = b => p # Nil /\ x = p
  BY <1>1, OnePrev, Zenon
<1>5. CASE p # Nil /\ g[p].free
  <2>1. p \in DOMAIN g /\ g[p].next = b
    BY <1>1, <1>5, PrevFacts, Zenon
  <2>2. blk' = Absorb(g, p, b)
    BY <1>2, <1>5, Zenon DEF MergePrev
  <2> HIDE DEF g, p
  <2>7. b # Nil
    BY <1>1, HeapAssumption DEF IsHeap, Typed, Nil
  <2>3. /\ IsHeap(blk') /\ p < b /\ DOMAIN blk' = DOMAIN g \ {b}
        /\ \A x \in DOMAIN g \ {b} :
              /\ blk'[x].free = g[x].free
              /\ blk'[x].next = IF x = p THEN g[b].next ELSE g[x].next
              /\ x # p => End(blk', x) = End(g, x)
    BY <1>1, <2>1, <2>2, <2>7, AbsorbHeap
  <2>4. ASSUME NEW x \in DOMAIN blk', blk'[x].free, blk'[x].next # Nil
        PROVE  ~blk'[blk'[x].next].free
    <3>1. blk'[x].next \in DOMAIN blk'
      BY <2>3, <2>4, Zenon DEF IsHeap, Follows
    <3>2. CASE x = p
      BY <1>1, <2>3, <2>4, <3>1, <3>2, Zenon DEF QuietBut
    <3>3. CASE x # p
      BY <1>1, <2>3, <2>4, <3>1, <3>3 DEF QuietBut
    <3> QED BY <3>2, <3>3, Zenon
  <2>5. Used(blk') = Used(g)
    BY <1>1, <2>3, Zenon DEF Used
  <2>6. \A x \in Used(blk') : End(blk', x) = End(g, x)
    BY <1>5, <2>3, <2>5, Zenon DEF Used
  <2> QED BY <1>1, <2>3, <2>4, <2>5, <2>6, Zenon DEF Quiet
<1>6. CASE ~(p # Nil /\ g[p].free)
  <2>1. blk' = g
    BY <1>2, <1>6, Zenon DEF MergePrev
  <2> HIDE DEF g, p
  <2>2. Quiet(g)
    BY <1>1, <1>3, <1>4, <1>6, Zenon DEF Quiet, QuietBut
  <2> QED BY <1>1, <2>1, <2>2, Zenon
<1> QED BY <1>5, <1>6, Zenon

(* What a successful kmalloc does: the block b was free and now is in use,   *)
(* no longer than before, with room for the request.                         *)
Allocates(b, n) ==
    /\ IsHeap(blk') /\ Quiet(blk')
    /\ blk[b].free /\ Used(blk') = Used(blk) \cup {b}
    /\ \A x \in Used(blk) : End(blk', x) = End(blk, x)
    /\ End(blk', b) <= End(blk, b)
    /\ End(blk', b) >= b + Header + Align16(n)
    /\ last' = [want |-> n, got |-> <<b, End(blk', b)>>]

(* kmalloc carves its block from a free one. *)
LEMMA KmallocHeap ==
    ASSUME Inv, NEW n \in Requests, Kmalloc(n)
    PROVE  n > 0 /\ \E b \in DOMAIN blk : Allocates(b, n)
<1> DEFINE w == Align16(n)
<1>1. n \in Nat /\ n > 0 /\ w \in Nat /\ w > 0
  BY HeapAssumption, AlignFacts, Zenon DEF Kmalloc
<1> HIDE DEF w
<1>2. PICK b \in DOMAIN blk :
        /\ blk[b].free /\ blk[b].size >= w
        /\ blk' = IF Splits(b, w) THEN Split(b, w) ELSE Flag(blk, b, FALSE)
        /\ last' = [want |-> n, got |-> <<b, End(blk', b)>>]
  BY Zenon DEF Kmalloc, Fits, w
<1>3. /\ b \in Int /\ blk[b].size \in Int /\ End(blk, b) = b + Header + blk[b].size
      /\ End(blk, b) \in Int /\ IsHeap(blk)
  BY DEF Inv, IsHeap, Typed, Blocks, End, Header
<1>4. \A x \in DOMAIN blk : blk[x].next # Nil => blk[x].next \in DOMAIN blk
  BY Zenon DEF Inv, IsHeap, Follows
<1>5. CASE Splits(b, w)
  <2> DEFINE nb == b + Header + w
  <2>1. blk' = Split(b, w)
    BY <1>2, <1>5, Zenon
  <2>2. /\ IsHeap(blk')
        /\ nb \notin DOMAIN blk /\ DOMAIN blk' = DOMAIN blk \cup {nb}
        /\ End(blk', b) = nb /\ blk'[b].next = nb /\ ~blk'[b].free
        /\ blk'[nb].next = blk[b].next /\ blk'[nb].free
        /\ \A x \in DOMAIN blk : x # b =>
             /\ blk'[x].free = blk[x].free /\ blk'[x].next = blk[x].next
             /\ End(blk', x) = End(blk, x)
    <3> DEFINE g == Split(b, w)
    <3>1. /\ IsHeap(g)
          /\ nb \notin DOMAIN blk /\ DOMAIN g = DOMAIN blk \cup {nb}
          /\ End(g, b) = nb /\ g[b].next = nb /\ ~g[b].free
          /\ g[nb].next = blk[b].next /\ g[nb].free
          /\ \A x \in DOMAIN blk : x # b =>
               /\ g[x].free = blk[x].free /\ g[x].next = blk[x].next
               /\ End(g, x) = End(blk, x)
      <4>1. nb = b + Header + w /\ g = Split(b, w)
        BY Zenon DEF nb
      <4> HIDE DEF nb, g
      <4> QED BY <4>1, <1>1, <1>3, <1>5, SplitHeap
    <3> QED BY <2>1, <3>1, Zenon
  <2>3. nb <= End(blk, b) /\ nb >= b + Header + w /\ nb \in Int
    BY <1>1, <1>2, <1>3 DEF Header
  <2> HIDE DEF nb
  <2>4. ASSUME NEW x \in DOMAIN blk', blk'[x].free, blk'[x].next # Nil
        PROVE  ~blk'[blk'[x].next].free
    <3>1. blk[b].next # b
      BY <1>3, HeapAssumption DEF IsHeap, Follows, Typed, Blocks, End, Header, Nil
    <3>2. CASE x = nb
      <4>1. blk'[x].next = blk[b].next /\ blk[b].next \in DOMAIN blk
        BY <3>2, <2>2, <2>4, <1>4, Zenon
      <4>2. ~blk[blk[b].next].free
        BY <4>1, <2>4, <1>2, Zenon DEF Inv, Coalesced
      <4> QED BY <4>1, <4>2, <3>1, <2>2, Zenon
    <3>3. CASE x # nb
      <4>1. x \in DOMAIN blk /\ x # b /\ blk[x].free /\ blk'[x].next = blk[x].next
        BY <3>3, <2>2, <2>4, Zenon
      <4>2. blk[x].next \in DOMAIN blk /\ ~blk[blk[x].next].free
        BY <4>1, <2>4, <1>4, Zenon DEF Inv, Coalesced
      <4>3. blk[x].next # b
        BY <4>2, <1>2, Zenon
      <4> QED BY <4>1, <4>2, <4>3, <2>2, Zenon
    <3> QED BY <3>2, <3>3, Zenon
  <2>5. Used(blk') = Used(blk) \cup {b}
    BY <2>2, <1>2, Zenon DEF Used
  <2>6. \A x \in Used(blk) : End(blk', x) = End(blk, x)
    BY <2>2, <1>2, Zenon DEF Used
  <2> QED BY <1>1, <1>2, <2>2, <2>3, <2>4, <2>5, <2>6, Zenon DEF Quiet, Allocates, w
<1>6. CASE ~Splits(b, w)
  <2>1. blk' = Flag(blk, b, FALSE)
    BY <1>2, <1>6, Zenon
  <2>2. /\ IsHeap(blk') /\ DOMAIN blk' = DOMAIN blk
        /\ \A x \in DOMAIN blk : /\ blk'[x].next = blk[x].next
                                 /\ blk'[x].free = IF x = b THEN FALSE ELSE blk[x].free
                                 /\ End(blk', x) = End(blk, x)
    <3> DEFINE g == Flag(blk, b, FALSE)
    <3>1. /\ IsHeap(g) /\ DOMAIN g = DOMAIN blk
          /\ \A x \in DOMAIN blk : /\ g[x].next = blk[x].next
                                   /\ g[x].free = IF x = b THEN FALSE ELSE blk[x].free
                                   /\ End(g, x) = End(blk, x)
      <4>1. FALSE \in BOOLEAN
        OBVIOUS
      <4> QED BY <4>1, <1>3, FlagHeap, ZenonT(30)
    <3> QED BY <2>1, <3>1, Zenon
  <2>3. Quiet(blk')
    <3> SUFFICES ASSUME NEW x \in DOMAIN blk', blk'[x].free, blk'[x].next # Nil
                 PROVE  ~blk'[blk'[x].next].free
      BY Zenon DEF Quiet
    <3>1. x \in DOMAIN blk /\ blk[x].free /\ blk'[x].next = blk[x].next
      BY <2>2, Zenon
    <3>2. blk[x].next \in DOMAIN blk /\ ~blk[blk[x].next].free
      BY <3>1, <1>4, Zenon DEF Inv, Coalesced
    <3> QED BY <3>1, <3>2, <2>2, Zenon
  <2>4. Used(blk') = Used(blk) \cup {b}
    BY <2>2, <1>2, Zenon DEF Used
  <2>5. End(blk', b) <= End(blk, b) /\ End(blk', b) >= b + Header + w
    <3>1. End(blk', b) = End(blk, b)
      BY <2>2, Zenon
    <3> QED BY <3>1, <1>1, <1>2, <1>3 DEF Header
  <2> QED BY <1>1, <1>2, <2>2, <2>3, <2>4, <2>5, Zenon DEF Used, Allocates, w
<1> QED BY <1>5, <1>6, Zenon

(* The invariant holds of the heap at boot. *)
LEMMA InitInv == Init => Inv
<1> SUFFICES ASSUME Init PROVE Inv
  BY Zenon
<1>1. /\ DOMAIN blk = {0} /\ blk[0].size = Size - 2 /\ blk[0].next = -1
      /\ blk[0].prev = -1 /\ blk[0].free
  BY Zenon DEF Init, Blk, Header, Nil
<1>2. Typed(blk)
  BY HeapAssumption DEF Init, Typed, Blk, Blocks, Header, Nil
<1>3. End(blk, 0) = Size
  BY <1>1, HeapAssumption DEF End, Header
<1>4. Follows(blk) /\ Disjoint(blk) /\ Covers(blk)
  BY <1>1, <1>3, HeapAssumption DEF Follows, Disjoint, Covers, Nil
<1>5. Linked(blk) /\ Coalesced
  BY <1>1, Zenon DEF Linked, Coalesced, Nil
<1> QED BY <1>2, <1>4, <1>5, Zenon DEF Inv, IsHeap

(* kmalloc and kfree keep the invariant. *)
LEMMA NextInv == Inv /\ [Next]_vars => Inv'
<1> SUFFICES ASSUME Inv, [Next]_vars PROVE Inv'
  BY Zenon
<1>1. ASSUME NEW n \in Requests, Kmalloc(n) PROVE Inv'
  BY <1>1, KmallocHeap, Zenon DEF Allocates, Inv, Quiet, Coalesced
<1>2. ASSUME NEW n \in Requests, KmallocFails(n) PROVE Inv'
  BY <1>2, Zenon DEF KmallocFails, Inv, IsHeap, Typed, Follows, Disjoint, Covers, Linked, Coalesced, End
<1>3. ASSUME NEW b \in DOMAIN blk, Kfree(b) PROVE Inv'
  BY <1>3, KfreeHeap, Zenon DEF Inv, Quiet, Coalesced
<1>4. CASE UNCHANGED vars
  BY <1>4, Zenon DEF vars, Inv, IsHeap, Typed, Follows, Disjoint, Covers, Linked, Coalesced, End
<1> QED BY <1>1, <1>2, <1>3, <1>4, Zenon DEF Next

(* The list of blocks is well formed in every reachable state: it tiles the  *)
(* heap, reads the same both ways and has no two free neighbours, after any  *)
(* sequence of kmalloc and kfree.                                            *)
THEOREM HeapCorrect == Spec => []WellFormed
<1>1. Inv => WellFormed
  BY Zenon DEF Inv, IsHeap, WellFormed, TypeOK, Tiled, DoublyLinked
<1> QED BY <1>1, InitInv, NextInv, PTL DEF Spec

(* When every block has been freed the heap is the one block heap_init made: *)
(* no order of kfree calls leaves it in pieces.                              *)
THEOREM WholeAgain == Spec => []WholeWhenIdle
<1>1. Inv => WholeWhenIdle
  <2> SUFFICES ASSUME Inv, \A b \in DOMAIN blk : blk[b].free
               PROVE  DOMAIN blk = {0} /\ blk[0].size = Size - Header
    BY Zenon DEF WholeWhenIdle
  <2>1. 0 \in DOMAIN blk /\ blk[0].size \in Int
    BY Zenon DEF Inv, IsHeap, Linked, Typed, Blocks
  <2>2. blk[0].next = Nil
    BY <2>1, Zenon DEF Inv, IsHeap, Follows, Coalesced
  <2>3. End(blk, 0) = Size
    BY <2>1, <2>2, HeapAssumption DEF Inv, IsHeap, Follows, End, Header, Nil
  <2>4. \A c \in DOMAIN blk : c = 0
    BY <2>1, <2>3, HeapAssumption DEF Inv, IsHeap, Disjoint, Typed
  <2> QED BY <2>1, <2>3, <2>4, HeapAssumption DEF End, Header
<1> QED BY <1>1, InitInv, NextInv, PTL DEF Spec

(* kmalloc returns NULL only where no run of unused units has room: a run    *)
(* starts in some block, which is free; the next block is in use, so the run *)
(* ends inside the first one, and that one fits.                             *)
LEMMA RefusedRightly ==
    ASSUME Inv, NEW n \in Nat, n > 0, Fits(Align16(n)) = {},
           NEW e \in Abstract!Extents, Abstract!Unowned(e)
    PROVE  ~Abstract!Holds(e, n)
<1> SUFFICES ASSUME Abstract!Holds(e, n) PROVE FALSE
  BY Zenon
<1> DEFINE w == Align16(n)
           lo == e[1]
           hi == e[2]
<1>1. lo \in 0..Size /\ hi \in 0..Size /\ lo < hi /\ 16 * (hi - lo - Header) >= n
  BY Zenon DEF Abstract!Extents, Abstract!Holds
<1>2. w \in Nat /\ 16 * w < n + 16
  BY AlignFacts, Zenon
<1>3. \A d \in InUse : d[2] <= lo \/ hi <= d[1]
  BY Zenon DEF Abstract!Unowned, Abstract!Apart
<1> HIDE DEF w, lo, hi
<1>4. hi - lo >= Header + w /\ lo \in Int /\ hi \in Int /\ lo \in 0..(Size - 1) /\ hi <= Size
  BY <1>1, <1>2, HeapAssumption DEF Header
<1>5. PICK b \in DOMAIN blk : b <= lo /\ lo < End(blk, b)
  BY <1>4, Zenon DEF Inv, IsHeap, Covers
<1>6. \A x \in DOMAIN blk : x \in Int /\ End(blk, x) \in Int /\ x < End(blk, x)
  BY DEF Inv, IsHeap, Typed, Blocks, Follows, End, Header
<1>7. \A x \in DOMAIN blk : ~blk[x].free => End(blk, x) <= lo \/ hi <= x
  <2> SUFFICES ASSUME NEW x \in DOMAIN blk, ~blk[x].free
               PROVE  End(blk, x) <= lo \/ hi <= x
    BY Zenon
  <2>1. <<x, End(blk, x)>> \in InUse
    BY Zenon DEF InUse, Used
  <2>2. <<x, End(blk, x)>>[1] = x /\ <<x, End(blk, x)>>[2] = End(blk, x)
    BY Zenon
  <2> QED BY <2>1, <2>2, <1>3, Zenon
<1>8. blk[b].free
  BY <1>1, <1>4, <1>5, <1>6, <1>7
<1>9. End(blk, b) >= hi
  <2> SUFFICES ASSUME End(blk, b) < hi PROVE FALSE
    BY <1>4, <1>5, <1>6
  <2>1. /\ blk[b].next = End(blk, b) /\ blk[b].next \in DOMAIN blk /\ blk[b].next # Nil
    BY <1>4, <1>5, <1>6, HeapAssumption DEF Inv, IsHeap, Follows, Nil
  <2>2. ~blk[blk[b].next].free
    BY <2>1, <1>5, <1>8, Zenon DEF Inv, Coalesced
  <2> QED BY <2>1, <2>2, <1>4, <1>5, <1>6, <1>7
<1>10. blk[b].size \in Int /\ End(blk, b) = b + Header + blk[b].size
  BY <1>5, Zenon DEF Inv, IsHeap, Typed, Blocks, End
<1>11. blk[b].size >= w
  BY <1>2, <1>4, <1>5, <1>6, <1>9, <1>10 DEF Header
<1> QED BY <1>5, <1>8, <1>11, Zenon DEF Fits, w

(* kmalloc is an allocation of the abstract heap. *)
LEMMA KmallocRefines ==
    ASSUME Inv, NEW n \in Requests, Kmalloc(n)
    PROVE  Abstract!Alloc(n)
<1>1. n \in Nat /\ n > 0 /\ Align16(n) \in Nat /\ 16 * Align16(n) >= n
  BY HeapAssumption, AlignFacts, Zenon DEF Kmalloc
<1>2. PICK b \in DOMAIN blk : Allocates(b, n)
  BY KmallocHeap, Zenon
<1> DEFINE e == <<b, End(blk', b)>>
<1>3. /\ b \in Int /\ b >= 0 /\ b < Size /\ End(blk, b) \in Int /\ End(blk, b) <= Size
      /\ blk[b].size \in Int
  BY HeapAssumption DEF Inv, IsHeap, Typed, Blocks, Follows, End, Header
<1>4. b \in DOMAIN blk' /\ End(blk', b) \in Int
  BY <1>2 DEF Allocates, IsHeap, Typed, Blocks, End, Header, Used
<1>5. e[1] = b /\ e[2] = End(blk', b) /\ e \in Abstract!Extents /\ Abstract!Holds(e, n)
  BY <1>1, <1>2, <1>3, <1>4, HeapAssumption
     DEF Allocates, Abstract!Extents, Abstract!Holds, Header
<1>6. Abstract!Unowned(e)
  <2> SUFFICES ASSUME NEW d \in InUse PROVE d[2] <= b \/ End(blk', b) <= d[1]
    BY <1>5, Zenon DEF Abstract!Unowned, Abstract!Apart
  <2>1. PICK x \in Used(blk) : d = <<x, End(blk, x)>>
    BY Zenon DEF InUse
  <2>2. x \in DOMAIN blk /\ x # b /\ x \in Int /\ End(blk, x) \in Int
    BY <2>1, <1>2 DEF Used, Allocates, Inv, IsHeap, Typed, Blocks, End, Header
  <2>3. End(blk, x) <= b \/ End(blk, b) <= x
    BY <2>2, <1>3 DEF Inv, IsHeap, Disjoint
  <2> QED BY <2>1, <2>2, <2>3, <1>2, <1>3, <1>4 DEF Allocates
<1>7. InUse' = InUse \cup {e}
  BY <1>2, Zenon DEF Allocates, InUse
<1> QED BY <1>1, <1>2, <1>5, <1>6, <1>7, Zenon DEF Abstract!Alloc, Allocates

(* The heap of heap.c implements Allocator, for every heap size and every    *)
(* set of requests.                                                          *)
THEOREM HeapRefinement == Spec => Refines
<1>1. Init => Abstract!Init
  <2> SUFFICES ASSUME Init PROVE Abstract!Init
    BY Zenon
  <2>1. Used(blk) = {}
    BY Zenon DEF Init, Used, Blk
  <2> QED BY <2>1, Zenon DEF Init, Abstract!Init, InUse
<1>2. Inv /\ [Next]_vars => [Abstract!Next]_<<InUse, last>>
  <2> SUFFICES ASSUME Inv, [Next]_vars PROVE [Abstract!Next]_<<InUse, last>>
    BY Zenon
  <2>1. ASSUME NEW n \in Requests, Kmalloc(n) PROVE Abstract!Next
    BY <2>1, KmallocRefines, Zenon DEF Abstract!Next
  <2>2. ASSUME NEW n \in Requests, KmallocFails(n) PROVE Abstract!Next
    <3>1. n > 0 => \A e \in Abstract!Extents : Abstract!Unowned(e) => ~Abstract!Holds(e, n)
      BY <2>2, RefusedRightly, HeapAssumption DEF KmallocFails
    <3>2. UNCHANGED InUse
      BY <2>2, Zenon DEF KmallocFails, InUse, Used, End
    <3> QED BY <2>2, <3>1, <3>2, Zenon DEF KmallocFails, Abstract!Refuse, Abstract!Next
  <2>3. ASSUME NEW b \in DOMAIN blk, Kfree(b) PROVE Abstract!Next
    <3>1. /\ Used(blk') = Used(blk) \ {b}
          /\ \A x \in Used(blk') : End(blk', x) = End(blk, x)
      BY <2>3, KfreeHeap, Zenon
    <3>2. b \in Used(blk) /\ UNCHANGED last
      BY <2>3, Zenon DEF Kfree, Used
    <3>3. <<b, End(blk, b)>> \in InUse
      BY <3>2, Zenon DEF InUse
    <3>4. InUse' = InUse \ {<<b, End(blk, b)>>}
      BY <3>1, <3>2 DEF InUse
    <3> QED BY <3>2, <3>3, <3>4, Zenon DEF Abstract!Release, Abstract!Next
  <2>4. CASE UNCHANGED vars
    BY <2>4, Zenon DEF vars, InUse, Used, End
  <2> QED BY <2>1, <2>2, <2>3, <2>4, Zenon DEF Next
<1> QED BY <1>1, <1>2, InitInv, NextInv, PTL DEF Spec, Refines, Abstract!Spec
=============================================================================
