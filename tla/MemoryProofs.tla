---------------------------- MODULE MemoryProofs ----------------------------
(***************************************************************************)
(* Reference counts and privacy of pages, for every number of frames,      *)
(* pages, tables, processes and every largest reference count.             *)
(*                                                                         *)
(* The counts are exact only because a frame has one role at a time: it is *)
(* a PML4, a table of one space, the frame an operation is about to map,   *)
(* or a page, and a page sits at the same address in all spaces that share *)
(* it.  Without that, vmm_free_user_space, which drops one reference per   *)
(* frame it finds, would drop too few or too many.  All of it is lost when *)
(* a count saturates, so it is claimed only until then.                    *)
(***************************************************************************)
EXTENDS Memory, FiniteSetTheorems, WellFoundedInduction, TLAPS

(* A step that cites no prover is left to the SMT solver. *)
USE SMTT(30)

(* The operation in progress and the processes. *)
Control ==
  /\ \A p \in Procs : state[p] = "none" <=> pml4[p] = 0
  /\ op = "none" => todo = {}
  /\ op \in {"none", "fork"} => fresh = 0
  /\ fresh # 0 => todo # {}
  /\ op # "none" => dst # 0
  /\ op \in {"fork", "brk", "stack"} => state[caller] = "live"
  /\ op \in {"brk", "stack"} => dst = pml4[caller]
  /\ op = "fork" => state[arg] = "none"

(* A frame number outside spaces has no entries left over. *)
Outside ==
  \A s \in Frames \ spaces : /\ \A va \in Pages : pte[s][va].fr = 0
                             /\ \A k \in Tables : tab[s][k] = 0

(* Every process has a space of its own, and so has an operation that      *)
(* builds one; a fork has still to share the pages in todo.                *)
Owners ==
  /\ \A p \in Procs : pml4[p] # 0 => pml4[p] \in spaces
  /\ \A p, q \in Procs : pml4[p] = pml4[q] /\ pml4[p] # 0 => p = q
  /\ op # "none" => dst \in spaces
  /\ op \in {"fork", "exec"} => \A p \in Procs : pml4[p] # dst
  /\ op = "fork" => \A va \in todo : /\ pte[pml4[caller]][va].fr # 0
                                     /\ pte[dst][va].fr = 0

Counted(f) ==
  /\ ref[f] = Cardinality(Mappers(f)) + Cardinality(TableUses(f)) + Holds(f) + lost[f]
  /\ f \in used <=> ref[f] > 0

OneRole(f) ==
  /\ \A m, n \in Mappers(f) : m[2] = n[2]
  /\ \A u, v \in TableUses(f) : u = v
  /\ Mappers(f) # {} => TableUses(f) = {} /\ f \notin spaces /\ f # fresh
  /\ TableUses(f) # {} => f \notin spaces /\ f # fresh
  /\ ~(f \in spaces /\ f = fresh)

(* A writable page has one entry. *)
RwAlone(f) ==
  \A m \in Mappers(f) : pte[m[1]][m[2]].rw => Mappers(f) = {m}

FrameOK(f) == Counted(f) /\ OneRole(f) /\ RwAlone(f)

Sound == Outside /\ Owners /\ \A f \in Frames : FrameOK(f)

Inv == TypeOK /\ Control /\ (~saturated => Sound)

-----------------------------------------------------------------------------
(* Facts about the operators *)

(* Least of a set of natural numbers. *)
LEMMA LeastIn ==
  ASSUME NEW S \in SUBSET Nat, S # {}
  PROVE  Least(S) \in S /\ \A m \in S : Least(S) <= m
<1>1. \E n \in S : \A m \in S : ~(m < n)
  <2>1. PICK n \in S : \A m \in S : ~(<<m, n>> \in OpToRel(<, Nat))
    BY Zenon, WFMin, NatLessThanWellFounded
  <2> QED
    BY <2>1, Zenon DEF OpToRel
<1>2. \E n \in S : \A m \in S : n <= m
  BY <1>1
<1> QED
  BY <1>2, Zenon DEF Least

(* Frames, pages and tables are finite sets of numbers. *)
LEMMA Sizes ==
  ASSUME Constants
  PROVE  /\ 0 \notin Frames /\ Frames \subseteq Nat /\ IsFiniteSet(Frames)
         /\ IsFiniteSet(Pages) /\ Pages \subseteq Nat /\ IsFiniteSet(Tables)
         /\ USTACK_BASE \in Pages /\ 0 \in Pages
<1>1. USTACK_BASE \in Nat
  BY Zenon DEF Constants
<1>2. IsFiniteSet(Pages)
  BY <1>1, FS_Interval DEF Pages
<1> QED
  BY <1>1, <1>2 DEF Constants, Pages

(* pmm_alloc_frame returns a frame that was free. *)
LEMMA TakenFree ==
  ASSUME Constants, TypeOK, NEW f, Free # {}, f = Least(Free)
  PROVE  f \in Frames /\ f \notin used
<1>1. Free \in SUBSET Nat
  BY Sizes, Zenon DEF Free
<1> QED
  BY <1>1, LeastIn, Zenon DEF Free

(* The page copied or mapped next is one of those to do. *)
LEMMA NextVa ==
  ASSUME Constants, TypeOK, todo # {}
  PROVE  Next_va \in todo /\ Next_va \in Pages
<1>1. todo \in SUBSET Nat /\ todo \subseteq Pages
  BY Sizes, Zenon DEF TypeOK
<1> QED
  BY <1>1, LeastIn, Zenon DEF Next_va

(* The users of a frame can be counted. *)
LEMMA UsersFinite ==
  ASSUME Constants, TypeOK, NEW f
  PROVE  IsFiniteSet(Mappers(f)) /\ IsFiniteSet(TableUses(f))
<1>1. IsFiniteSet(spaces)
  BY Sizes, FS_Subset, Zenon DEF TypeOK
<1>2. IsFiniteSet(spaces \X Pages) /\ IsFiniteSet(spaces \X Tables)
  BY <1>1, Sizes, FS_Product, Zenon
<1>3. Mappers(f) \subseteq spaces \X Pages /\ TableUses(f) \subseteq spaces \X Tables
  BY Zenon DEF Mappers, TableUses
<1> QED
  BY <1>2, <1>3, FS_Subset, Zenon

(* The counts of a frame are numbers. *)
LEMMA Numbers ==
  ASSUME Constants, TypeOK, NEW f \in Frames
  PROVE  /\ Cardinality(Mappers(f)) \in Nat /\ Cardinality(TableUses(f)) \in Nat
         /\ Holds(f) \in 0..2 /\ ref[f] \in Nat /\ lost[f] \in Nat
<1>1. Cardinality(Mappers(f)) \in Nat /\ Cardinality(TableUses(f)) \in Nat
  BY UsersFinite, FS_CardinalityType, Zenon
<1>2. ref[f] \in Nat /\ lost[f] \in Nat
  BY DEF TypeOK, Constants
<1> QED
  BY <1>1, <1>2 DEF Holds

(* A free frame is referred to by nothing. *)
LEMMA FreeUnused ==
  ASSUME Constants, TypeOK, NEW f \in Frames, FrameOK(f), f \notin used
  PROVE  /\ Mappers(f) = {} /\ TableUses(f) = {} /\ f \notin spaces /\ f # fresh
         /\ ref[f] = 0 /\ lost[f] = 0
<1>1. ref[f] = 0
  BY Numbers DEF FrameOK, Counted
<1>2. /\ Cardinality(Mappers(f)) = 0 /\ Cardinality(TableUses(f)) = 0
      /\ Holds(f) = 0 /\ lost[f] = 0
  BY <1>1, Numbers DEF FrameOK, Counted
<1>3. Mappers(f) = {} /\ TableUses(f) = {}
  BY <1>2, UsersFinite, FS_EmptySet, Zenon
<1>4. f \notin spaces /\ f # fresh
  BY <1>2 DEF Holds
<1> QED
  BY <1>1, <1>2, <1>3, <1>4, Zenon

(* A step that does not concern a frame. *)
LEMMA FrameSame ==
  ASSUME NEW f \in Frames, FrameOK(f),
         Mappers(f)' = Mappers(f), TableUses(f)' = TableUses(f),
         f \in spaces' <=> f \in spaces, f = fresh' <=> f = fresh,
         ref'[f] = ref[f], lost'[f] = lost[f], f \in used' <=> f \in used,
         \A m \in Mappers(f) : pte'[m[1]][m[2]].rw => pte[m[1]][m[2]].rw
  PROVE  FrameOK(f)'
<1>1. Holds(f)' = Holds(f)
  BY Zenon DEF Holds
<1>2. Counted(f)'
  BY <1>1, Zenon DEF FrameOK, Counted
<1>3. OneRole(f)'
  BY Zenon DEF FrameOK, OneRole
<1>4. RwAlone(f)'
  BY Zenon DEF FrameOK, RwAlone
<1> QED
  BY <1>2, <1>3, <1>4, Zenon DEF FrameOK

-----------------------------------------------------------------------------
(* Each action keeps the invariant *)

(* vmm_create_address_space *)
LEMMA NewSpaceRefs ==
  ASSUME Constants, TypeOK, Outside, \A g \in Frames : FrameOK(g),
         NEW s \in Frames, NewSpace(s), lost' = lost, fresh' = fresh
  PROVE  /\ s \notin spaces /\ Outside' /\ \A g \in Frames : FrameOK(g)'
         /\ \A t \in Frames : t # s => pte'[t] = pte[t]
         /\ \A va \in Pages : pte'[s][va] = NoPage
<1>1. s \notin used /\ used' = used \cup {s}
  BY TakenFree, Zenon DEF NewSpace, Taken
<1>2. /\ Mappers(s) = {} /\ TableUses(s) = {} /\ s \notin spaces /\ s # fresh
      /\ ref[s] = 0 /\ lost[s] = 0
  BY <1>1, FreeUnused, Zenon
<1>3. /\ ref' = [ref EXCEPT ![s] = 1] /\ spaces' = spaces \cup {s}
      /\ tab' = [tab EXCEPT ![s] = NoTables] /\ pte' = [pte EXCEPT ![s] = NoPages]
  BY Zenon DEF NewSpace
<1>4. /\ \A t \in Frames : t # s => pte'[t] = pte[t] /\ tab'[t] = tab[t]
      /\ \A va \in Pages : pte'[s][va] = NoPage
      /\ \A k \in Tables : tab'[s][k] = 0
  BY <1>3, Zenon DEF TypeOK, NoPages, NoTables
<1>5. NoPage.fr = 0 /\ 0 \notin Frames /\ spaces \subseteq Frames
  BY Sizes, Zenon DEF NoPage, TypeOK
<1>6. ASSUME NEW g \in Frames
      PROVE  Mappers(g)' = Mappers(g)
  <2> SUFFICES ASSUME NEW m
               PROVE  m \in Mappers(g)' <=> m \in Mappers(g)
    BY Zenon
  <2>1. m \in Mappers(g)' <=> m \in spaces' \X Pages /\ pte'[m[1]][m[2]].fr = g
    BY Zenon DEF Mappers
  <2>2. m \in Mappers(g) <=> m \in spaces \X Pages /\ pte[m[1]][m[2]].fr = g
    BY Zenon DEF Mappers
  <2>3. m \in spaces' \X Pages /\ m[1] = s => pte'[m[1]][m[2]].fr # g
    BY <1>4, <1>5
  <2>4. m \in spaces \X Pages => m[1] \in Frames /\ m[1] # s
    BY <1>2, <1>5, Zenon
  <2>5. m \in spaces' \X Pages /\ m[1] # s <=> m \in spaces \X Pages
    BY <1>2, <1>3, Zenon
  <2> QED
    BY <1>4, <2>1, <2>2, <2>3, <2>4, <2>5, Zenon
<1>7. ASSUME NEW g \in Frames
      PROVE  TableUses(g)' = TableUses(g)
  <2> SUFFICES ASSUME NEW m
               PROVE  m \in TableUses(g)' <=> m \in TableUses(g)
    BY Zenon
  <2>1. m \in TableUses(g)' <=> m \in spaces' \X Tables /\ tab'[m[1]][m[2]] = g
    BY Zenon DEF TableUses
  <2>2. m \in TableUses(g) <=> m \in spaces \X Tables /\ tab[m[1]][m[2]] = g
    BY Zenon DEF TableUses
  <2>3. m \in spaces' \X Tables /\ m[1] = s => tab'[m[1]][m[2]] # g
    BY <1>4, <1>5
  <2>4. m \in spaces \X Tables => m[1] \in Frames /\ m[1] # s
    BY <1>2, <1>5, Zenon
  <2>5. m \in spaces' \X Tables /\ m[1] # s <=> m \in spaces \X Tables
    BY <1>2, <1>3, Zenon
  <2> QED
    BY <1>4, <2>1, <2>2, <2>3, <2>4, <2>5, Zenon
<1>8. Outside'
  BY <1>3, <1>4 DEF Outside
<1>9. ASSUME NEW g \in Frames, g # s
      PROVE  FrameOK(g)'
  <2>1. ref'[g] = ref[g] /\ (g \in used' <=> g \in used) /\ (g \in spaces' <=> g \in spaces)
    BY <1>1, <1>3, <1>9, Zenon DEF TypeOK
  <2>2. \A m \in Mappers(g) : pte'[m[1]][m[2]].rw => pte[m[1]][m[2]].rw
    <3>1. \A m \in Mappers(g) : m[1] \in Frames /\ m[1] # s
      BY <1>2, <1>5, Zenon DEF Mappers
    <3> QED
      BY <1>4, <3>1, Zenon
  <2> QED
    BY <1>6, <1>7, <2>1, <2>2, FrameSame, Zenon
<1>10. FrameOK(s)'
  <2>1. /\ Mappers(s)' = {} /\ TableUses(s)' = {} /\ s \in spaces' /\ s \in used'
        /\ s # fresh' /\ Holds(s)' = 1
    BY <1>1, <1>2, <1>3, <1>6, <1>7 DEF Holds
  <2>2. ref'[s] = 1 /\ lost'[s] = 0
    BY <1>2, <1>3, Zenon DEF TypeOK
  <2>3. Counted(s)'
    <3>1. Cardinality(Mappers(s)') = 0 /\ Cardinality(TableUses(s)') = 0
      BY <2>1, FS_EmptySet, Zenon
    <3> QED
      BY <2>1, <2>2, <3>1 DEF Counted
  <2>4. OneRole(s)' /\ RwAlone(s)'
    BY <2>1, Zenon DEF OneRole, RwAlone
  <2> QED
    BY <2>3, <2>4, Zenon DEF FrameOK
<1> QED
  BY <1>2, <1>4, <1>8, <1>9, <1>10, Zenon

-----------------------------------------------------------------------------
(* The steps of an operation keep the invariant *)

(* What a fork in progress can rely on. *)
LEMMA ForkState ==
  ASSUME Constants, TypeOK, Control, Filling, op = "fork"
  PROVE  /\ Next_va \in todo /\ Next_va \in Pages /\ caller \in Procs
         /\ pml4[caller] \in Frames /\ dst \in Frames /\ fresh = 0
<1>1. todo # {} /\ state[caller] = "live" /\ dst # 0 /\ fresh = 0 /\ caller \in Procs
  BY Zenon DEF Filling, Control, TypeOK
<1>2. pml4[caller] # 0
  BY <1>1, Zenon DEF Control
<1> QED
  BY <1>1, <1>2, NextVa, Zenon DEF TypeOK

(* The entry vmm_cow_user_space leaves in a parent: the same frame, read only. *)
LEMMA SharedPte ==
  ASSUME NEW e \in Ptes
  PROVE  Shared(e) \in Ptes /\ Shared(e).fr = e.fr /\ ~Shared(e).rw
BY Zenon DEF Shared, Ptes

-----------------------------------------------------------------------------
(* The system calls keep the invariant *)

(* The pages of a break below USER_HEAP_MAX are heap pages. *)
LEMMA BreakPages ==
  ASSUME NEW u \in Nat \ {0}, NEW h \in Nat, NEW b \in Nat, b < h * u
  PROVE  (b + u - 1) \div u \in Nat /\ (b + u - 1) \div u <= h
<1>1. PICK q \in Int : q = (b + u - 1) \div u
  OBVIOUS
<1>2. q * u <= b + u - 1 /\ b + u - 1 < (q + 1) * u
  BY <1>1
<1>3. q >= 0
  BY <1>1, <1>2
<1>4. q * u < (h + 1) * u
  BY <1>2
<1>5. q < h + 1
  BY <1>3, <1>4
<1> QED
  BY <1>1, <1>3, <1>5

-----------------------------------------------------------------------------
(* Accesses and page faults keep the invariant *)

-----------------------------------------------------------------------------
(* The invariant holds at boot. *)
LEMMA InitInv ==
  ASSUME Constants, Init
  PROVE  Inv
<1>1. PICK s \in Frames, n \in Images :
    /\ s = Least(Frames)
    /\ used = {s}
    /\ ref = [f \in Frames |-> IF f = s THEN 1 ELSE 0]
    /\ data = [f \in Frames |-> Zero]
    /\ spaces = {s}
    /\ tab = [f \in Frames |-> NoTables]
    /\ pte = [f \in Frames |-> NoPages]
    /\ state = [p \in Procs |-> "none"]
    /\ pml4 = [p \in Procs |-> 0]
    /\ brk = [p \in Procs |-> 0]
    /\ stack_low = [p \in Procs |-> 0]
    /\ op = "exec" /\ caller = First /\ dst = s /\ fresh = 0 /\ arg = n
    /\ todo = ImagePages(n)
    /\ halted = "no"
    /\ exhausted = FALSE /\ saturated = FALSE
    /\ lost = [f \in Frames |-> 0]
  BY Zenon DEF Init
<1>2. 0 \notin Frames /\ 0 \in Pages
  BY Sizes, Zenon
<1>3. TypeOK
  <2>1. n \in Nat /\ ImagePages(n) \subseteq Pages
    BY DEF ImagePages, Pages, Constants
  <2>2. NoPages \in [Pages -> Ptes] /\ NoTables \in [Tables -> Frames \cup {0}]
    BY Zenon DEF NoPages, NoTables, NoPage, Ptes
  <2>3. 1 \in 0..MaxRef /\ 0 \in 0..MaxRef
    BY DEF Constants
  <2>4. First \in Procs /\ Zero \in Values
    BY Zenon DEF Constants
  <2>5. ref \in [Frames -> 0..MaxRef]
    BY <1>1, <2>3, Zenon
  <2>6. /\ tab \in [Frames -> [Tables -> Frames \cup {0}]]
        /\ pte \in [Frames -> [Pages -> Ptes]] /\ lost \in [Frames -> Nat]
        /\ data \in [Frames -> Values]
    BY <1>1, <2>2, <2>4, Zenon
  <2>7. /\ state \in [Procs -> {"none", "live", "zombie"}]
        /\ pml4 \in [Procs -> Frames \cup {0}]
        /\ brk \in [Procs -> Nat] /\ stack_low \in [Procs -> Pages]
    BY <1>1, <1>2, Zenon
  <2> QED
    BY <1>1, <2>1, <2>4, <2>5, <2>6, <2>7, Zenon DEF TypeOK
<1>4. Control
  BY <1>1, <1>2, Zenon DEF Control
<1>5. /\ \A t \in Frames, va \in Pages : pte[t][va].fr = 0
      /\ \A t \in Frames, k \in Tables : tab[t][k] = 0
  BY <1>1, Zenon DEF NoPages, NoPage, NoTables
<1>6. Outside /\ Owners
  BY <1>1, <1>2, <1>5, Zenon DEF Outside, Owners
<1>7. ASSUME NEW f \in Frames
      PROVE  FrameOK(f)
  <2>1. Mappers(f) = {} /\ TableUses(f) = {}
    BY <1>1, <1>2, <1>5, Zenon DEF Mappers, TableUses
  <2>2. Cardinality(Mappers(f)) = 0 /\ Cardinality(TableUses(f)) = 0
    BY <2>1, FS_EmptySet, Zenon
  <2>3. /\ Holds(f) = (IF f = s THEN 1 ELSE 0) /\ ref[f] = (IF f = s THEN 1 ELSE 0)
        /\ lost[f] = 0 /\ f # fresh
    BY <1>1, <1>2 DEF Holds
  <2>4. Counted(f)
    BY <1>1, <2>2, <2>3 DEF Counted
  <2> QED
    BY <2>1, <2>3, <2>4, Zenon DEF FrameOK, OneRole, RwAlone
<1> QED
  BY <1>3, <1>4, <1>6, <1>7, Zenon DEF Inv, Sound

(* Every step of the memory manager keeps the invariant. *)
LEMMA NextInv ==
  Constants /\ Inv /\ [Next]_vars => Inv'
<1>AddOne.
    ASSUME NEW A, NEW B, NEW x, IsFiniteSet(A), x \notin A, B = A \cup {x}
    PROVE  IsFiniteSet(B) /\ Cardinality(B) = Cardinality(A) + 1
  BY <1>AddOne, FS_AddElement, Zenon
<1>DropOne.
    ASSUME NEW A, NEW B, NEW x, IsFiniteSet(A), x \in A, B = A \ {x}
    PROVE  IsFiniteSet(B) /\ Cardinality(B) = Cardinality(A) - 1
  BY <1>DropOne, FS_RemoveElement, Zenon
(* A step that changes no reference at all. *)
<1>RefsSame.
    ASSUME TypeOK, Outside, \A f \in Frames : FrameOK(f),
           UNCHANGED <<used, ref, spaces, tab, pte, lost>>, fresh' = fresh
    PROVE  Outside' /\ \A f \in Frames : FrameOK(f)'
  <2> USE <1>RefsSame
  <2>1. Outside'
    BY Zenon DEF Outside
  <2>2. ASSUME NEW f \in Frames
        PROVE  FrameOK(f)'
    <3>1. Mappers(f)' = Mappers(f) /\ TableUses(f)' = TableUses(f)
      BY Zenon DEF Mappers, TableUses
    <3> QED
      BY <3>1, FrameSame, Zenon
  <2> QED
    BY <2>1, <2>2, Zenon
(* One leaf entry changes its frame. *)
<1>PteSet.
    ASSUME TypeOK, NEW s \in spaces, NEW va \in Pages, NEW e, spaces' = spaces,
           \A t \in Frames, vb \in Pages :
             pte'[t][vb].fr = IF t = s /\ vb = va THEN e ELSE pte[t][vb].fr
    PROVE  \A f : Mappers(f)' = IF f = e THEN Mappers(f) \cup {<<s, va>>}
                                ELSE Mappers(f) \ {<<s, va>>}
  <2> USE <1>PteSet
  <2> SUFFICES ASSUME NEW f, NEW m
               PROVE  m \in Mappers(f)' <=>
                        m \in IF f = e THEN Mappers(f) \cup {<<s, va>>}
                              ELSE Mappers(f) \ {<<s, va>>}
    BY Zenon
  <2>1. spaces \subseteq Frames
    BY Zenon DEF TypeOK
  <2>2. m \in Mappers(f)' <=> m \in spaces \X Pages /\ pte'[m[1]][m[2]].fr = f
    BY Zenon DEF Mappers
  <2>3. m \in Mappers(f) <=> m \in spaces \X Pages /\ pte[m[1]][m[2]].fr = f
    BY Zenon DEF Mappers
  <2>4. CASE m \in spaces \X Pages
    <3>1. m = <<m[1], m[2]>> /\ m[1] \in Frames /\ m[2] \in Pages
      BY <2>1, <2>4
    <3>2. m = <<s, va>> <=> m[1] = s /\ m[2] = va
      BY <3>1
    <3>3. pte'[m[1]][m[2]].fr = IF m = <<s, va>> THEN e ELSE pte[m[1]][m[2]].fr
      BY <3>1, <3>2, Zenon
    <3> QED
      BY <2>2, <2>3, <2>4, <3>3
  <2>5. CASE m \notin spaces \X Pages
    BY <2>2, <2>3, <2>5
  <2> QED
    BY <2>4, <2>5, Zenon
(* One table entry changes. *)
<1>TabSet.
    ASSUME TypeOK, NEW s \in spaces, NEW k \in Tables, NEW e, spaces' = spaces,
           \A t \in Frames, j \in Tables :
             tab'[t][j] = IF t = s /\ j = k THEN e ELSE tab[t][j]
    PROVE  \A f : TableUses(f)' = IF f = e THEN TableUses(f) \cup {<<s, k>>}
                                  ELSE TableUses(f) \ {<<s, k>>}
  <2> USE <1>TabSet
  <2> SUFFICES ASSUME NEW f, NEW m
               PROVE  m \in TableUses(f)' <=>
                        m \in IF f = e THEN TableUses(f) \cup {<<s, k>>}
                              ELSE TableUses(f) \ {<<s, k>>}
    BY Zenon
  <2>1. spaces \subseteq Frames
    BY Zenon DEF TypeOK
  <2>2. m \in TableUses(f)' <=> m \in spaces \X Tables /\ tab'[m[1]][m[2]] = f
    BY Zenon DEF TableUses
  <2>3. m \in TableUses(f) <=> m \in spaces \X Tables /\ tab[m[1]][m[2]] = f
    BY Zenon DEF TableUses
  <2>4. CASE m \in spaces \X Tables
    <3>1. m = <<m[1], m[2]>> /\ m[1] \in Frames /\ m[2] \in Tables
      BY <2>1, <2>4
    <3>2. m = <<s, k>> <=> m[1] = s /\ m[2] = k
      BY <3>1
    <3>3. tab'[m[1]][m[2]] = IF m = <<s, k>> THEN e ELSE tab[m[1]][m[2]]
      BY <3>1, <3>2, Zenon
    <3> QED
      BY <2>2, <2>3, <2>4, <3>3
  <2>5. CASE m \notin spaces \X Tables
    BY <2>2, <2>3, <2>5
  <2> QED
    BY <2>4, <2>5, Zenon
<1>ControlSame.
    ASSUME Control, UNCHANGED <<state, pml4, op, caller, dst, todo, fresh, arg>>
    PROVE  Control'
  BY <1>ControlSame, Zenon DEF Control
<1>MissingIn.
    ASSUME Constants, NEW s, NEW va \in Pages, Missing(s, va) # {}
    PROVE  /\ Least(Missing(s, va)) \in Tables
           /\ tab[s][Least(Missing(s, va))] = 0
  <2> USE <1>MissingIn
  <2>1. Missing(s, va) \subseteq Tables
    BY Zenon DEF Missing, Tables
  <2>2. Missing(s, va) \in SUBSET Nat
    BY <2>1, Zenon DEF Constants
  <2> QED
    BY <2>1, <2>2, LeastIn, Zenon DEF Missing
<1>AllocTableInv.
    ASSUME Constants, Inv, AllocTable
    PROVE  Inv'
  <2> USE <1>AllocTableInv
  <2>1. TypeOK /\ Control
    BY Zenon DEF Inv
  <2>2. Next_va \in Pages /\ op # "none" /\ todo # {}
    BY <2>1, NextVa, Zenon DEF AllocTable, Filling
  <2>3. PICK k : k = Least(Missing(dst, Next_va))
    BY Zenon
  <2>4. k \in Tables /\ tab[dst][k] = 0
    BY <2>2, <2>3, <1>MissingIn, Zenon DEF AllocTable
  <2>5. PICK f \in Frames :
          /\ Taken(f) /\ ref' = [ref EXCEPT ![f] = 1]
          /\ tab' = [tab EXCEPT ![dst][k] = f]
          /\ UNCHANGED <<data, spaces, pte, procVars, opVars, halted, histVars>>
    BY <2>3, Zenon DEF AllocTable
  <2>6. f \notin used /\ used' = used \cup {f}
    BY <2>1, <2>5, TakenFree, Zenon DEF Taken
  <2>7. /\ UNCHANGED <<data, spaces, pte, state, pml4, brk, stack_low>>
        /\ UNCHANGED <<op, caller, dst, todo, fresh, arg>>
        /\ UNCHANGED <<halted, exhausted, saturated, lost>>
    BY <2>5, Zenon DEF procVars, opVars, histVars
  <2>8. TypeOK'
    <3>1. used' \subseteq Frames
      BY <2>1, <2>6, Zenon DEF TypeOK
    <3>2. ref' \in [Frames -> 0..MaxRef]
      <4>1. 1 \in 0..MaxRef
        BY DEF Constants
      <4> QED
        BY <2>1, <2>5, <4>1, Zenon DEF TypeOK
    <3>3. tab' \in [Frames -> [Tables -> Frames \cup {0}]]
      BY <2>1, <2>5, Zenon DEF TypeOK
    <3> QED
      BY <2>1, <2>7, <3>1, <3>2, <3>3, Zenon DEF TypeOK
  <2>9. Control'
    BY <2>1, <2>7, <1>ControlSame, Zenon
  <2>10. ASSUME ~saturated, Sound
         PROVE  Sound'
    <3>1. dst \in spaces /\ dst \in Frames
      BY <2>1, <2>2, <2>10, Zenon DEF Sound, Owners, TypeOK
    <3>2. \A t \in Frames, j \in Tables :
            tab'[t][j] = IF t = dst /\ j = k THEN f ELSE tab[t][j]
      BY <2>1, <2>4, <2>5, <3>1, Zenon DEF TypeOK
    <3>3. \A g : TableUses(g)' = IF g = f THEN TableUses(g) \cup {<<dst, k>>}
                                 ELSE TableUses(g) \ {<<dst, k>>}
      BY <2>1, <2>4, <2>7, <3>1, <3>2, <1>TabSet, Zenon
    <3>4. \A g : Mappers(g)' = Mappers(g)
      BY <2>7, Zenon DEF Mappers
    <3>5. Outside'
      BY <2>7, <2>10, <3>1, <3>2 DEF Sound, Outside
    <3>6. Owners'
      BY <2>7, <2>10, Zenon DEF Sound, Owners
    <3>7. ASSUME NEW g \in Frames, g # f
          PROVE  FrameOK(g)'
      <4>1. <<dst, k>> \notin TableUses(g)
        <5>1. 0 \notin Frames
          BY Sizes, Zenon
        <5> QED
          BY <2>4, <5>1, Zenon DEF TableUses
      <4>2. TableUses(g)' = TableUses(g)
        BY <3>3, <3>7, <4>1, Zenon
      <4>3. ref'[g] = ref[g] /\ (g \in used' <=> g \in used)
        BY <2>1, <2>5, <2>6, <3>7, Zenon DEF TypeOK
      <4> QED
        BY <2>7, <2>10, <3>4, <4>2, <4>3, FrameSame, Zenon DEF Sound
    <3>8. FrameOK(f)'
      <4>1. /\ Mappers(f) = {} /\ TableUses(f) = {} /\ f \notin spaces /\ f # fresh
            /\ ref[f] = 0 /\ lost[f] = 0
        BY <2>1, <2>6, <2>10, FreeUnused, Zenon DEF Sound
      <4>2. /\ Mappers(f)' = {} /\ TableUses(f)' = {<<dst, k>>} /\ Holds(f)' = 0
            /\ f \notin spaces' /\ f # fresh' /\ f \in used'
        BY <2>6, <2>7, <3>3, <3>4, <4>1 DEF Holds
      <4>3. ref'[f] = 1 /\ lost'[f] = 0
        BY <2>1, <2>5, <2>7, <4>1, Zenon DEF TypeOK
      <4>4. Counted(f)'
        <5>1. Cardinality(Mappers(f)') = 0 /\ Cardinality(TableUses(f)') = 1
          BY <4>2, FS_EmptySet, FS_Singleton, Zenon
        <5> QED
          BY <4>2, <4>3, <5>1 DEF Counted
      <4>5. OneRole(f)' /\ RwAlone(f)'
        BY <4>2, Zenon DEF OneRole, RwAlone
      <4> QED
        BY <4>4, <4>5, Zenon DEF FrameOK
    <3> QED
      BY <3>5, <3>6, <3>7, <3>8, Zenon DEF Sound
  <2> QED
    BY <2>7, <2>8, <2>9, <2>10, Zenon DEF Inv
(* A frame is taken for the next page. *)
<1>TakenFresh.
    ASSUME Constants, TypeOK, Outside, \A g \in Frames : FrameOK(g),
           NEW f \in Frames, f \notin used, fresh = 0, fresh' = f,
           used' = used \cup {f}, ref' = [ref EXCEPT ![f] = 1],
           UNCHANGED <<spaces, tab, pte, lost>>
    PROVE  Outside' /\ \A g \in Frames : FrameOK(g)'
  <2> USE <1>TakenFresh
  <2>1. \A g : Mappers(g)' = Mappers(g) /\ TableUses(g)' = TableUses(g)
    BY Zenon DEF Mappers, TableUses
  <2>2. Outside'
    BY Zenon DEF Outside
  <2>3. 0 \notin Frames
    BY Sizes, Zenon
  <2>4. ASSUME NEW g \in Frames, g # f
        PROVE  FrameOK(g)'
    <3>1. ref'[g] = ref[g] /\ (g \in used' <=> g \in used)
      BY <2>4, Zenon DEF TypeOK
    <3>2. g # fresh /\ g # fresh'
      BY <2>3, <2>4, Zenon
    <3> QED
      BY <2>1, <3>1, <3>2, FrameSame, Zenon
  <2>5. FrameOK(f)'
    <3>1. /\ Mappers(f) = {} /\ TableUses(f) = {} /\ f \notin spaces /\ f # fresh
          /\ ref[f] = 0 /\ lost[f] = 0
      BY FreeUnused, Zenon
    <3>2. /\ Mappers(f)' = {} /\ TableUses(f)' = {} /\ f \notin spaces' /\ f \in used'
          /\ Holds(f)' = 1
      BY <2>1, <3>1 DEF Holds
    <3>3. ref'[f] = 1 /\ lost'[f] = 0
      BY <3>1, Zenon DEF TypeOK
    <3>4. Counted(f)'
      <4>1. Cardinality(Mappers(f)') = 0 /\ Cardinality(TableUses(f)') = 0
        BY <3>2, FS_EmptySet, Zenon
      <4> QED
        BY <3>2, <3>3, <4>1 DEF Counted
    <3>5. OneRole(f)' /\ RwAlone(f)'
      BY <3>2, Zenon DEF OneRole, RwAlone
    <3> QED
      BY <3>4, <3>5, Zenon DEF FrameOK
  <2> QED
    BY <2>2, <2>4, <2>5, Zenon
(* vmm_free_user_space drops exactly the references of the space: a frame  *)
(* occurs in it at most once.                                              *)
<1>FreeRefs.
    ASSUME Constants, TypeOK, Outside, \A g \in Frames : FrameOK(g),
           NEW s \in spaces, FreeUserSpace(s), lost' = lost, fresh' = fresh
    PROVE  Outside' /\ \A g \in Frames : FrameOK(g)'
  <2> USE <1>FreeRefs
  <2>1. s \in Frames /\ 0 \notin Frames /\ spaces \subseteq Frames /\ NoPage.fr = 0
    BY Sizes, Zenon DEF TypeOK, NoPage
  <2>2. PICK S : S = FramesOf(s) \cup TablesIn(s) \cup {s}
    BY Zenon
  <2>3. /\ used' = used \ {f \in S : ref[f] <= 1}
        /\ ref' = [f \in Frames |-> IF f \in S /\ f \in used
                                    THEN IF ref[f] > 1 THEN ref[f] - 1 ELSE 0
                                    ELSE ref[f]]
        /\ spaces' = spaces \ {s}
        /\ tab' = [tab EXCEPT ![s] = NoTables] /\ pte' = [pte EXCEPT ![s] = NoPages]
    BY <2>2, Zenon DEF FreeUserSpace, Released
  <2>4. /\ \A t \in Frames : t # s => pte'[t] = pte[t] /\ tab'[t] = tab[t]
        /\ \A va \in Pages : pte'[s][va] = NoPage
        /\ \A k \in Tables : tab'[s][k] = 0
    BY <2>1, <2>3, Zenon DEF TypeOK, NoPages, NoTables
  <2>5. Outside'
    BY <2>1, <2>3, <2>4 DEF Outside
  <2>6. ASSUME NEW g \in Frames
        PROVE  Mappers(g)' = {m \in Mappers(g) : m[1] # s}
    <3> SUFFICES ASSUME NEW m
                 PROVE  m \in Mappers(g)' <=> m \in Mappers(g) /\ m[1] # s
      BY Zenon
    <3>1. m \in Mappers(g)' <=> m \in spaces' \X Pages /\ pte'[m[1]][m[2]].fr = g
      BY Zenon DEF Mappers
    <3>2. m \in Mappers(g) <=> m \in spaces \X Pages /\ pte[m[1]][m[2]].fr = g
      BY Zenon DEF Mappers
    <3>3. m \in spaces' \X Pages <=> m \in spaces \X Pages /\ m[1] # s
      BY <2>3, Zenon
    <3>4. m \in spaces \X Pages => m[1] \in Frames
      BY <2>1, Zenon
    <3> QED
      BY <2>4, <3>1, <3>2, <3>3, <3>4, Zenon
  <2>7. ASSUME NEW g \in Frames
        PROVE  TableUses(g)' = {u \in TableUses(g) : u[1] # s}
    <3> SUFFICES ASSUME NEW u
                 PROVE  u \in TableUses(g)' <=> u \in TableUses(g) /\ u[1] # s
      BY Zenon
    <3>1. u \in TableUses(g)' <=> u \in spaces' \X Tables /\ tab'[u[1]][u[2]] = g
      BY Zenon DEF TableUses
    <3>2. u \in TableUses(g) <=> u \in spaces \X Tables /\ tab[u[1]][u[2]] = g
      BY Zenon DEF TableUses
    <3>3. u \in spaces' \X Tables <=> u \in spaces \X Tables /\ u[1] # s
      BY <2>3, Zenon
    <3>4. u \in spaces \X Tables => u[1] \in Frames
      BY <2>1, Zenon
    <3> QED
      BY <2>4, <3>1, <3>2, <3>3, <3>4, Zenon
  <2>8. ASSUME NEW g \in Frames
        PROVE  g \in S <=> \/ g = s \/ (\E m \in Mappers(g) : m[1] = s)
                           \/ (\E u \in TableUses(g) : u[1] = s)
    <3>1. g \in FramesOf(s) <=> \E m \in Mappers(g) : m[1] = s
      <4>1. g \in FramesOf(s) <=> \E va \in Pages : pte[s][va].fr = g
        BY <2>1, Zenon DEF FramesOf, Mapped
      <4>2. ASSUME NEW va \in Pages, pte[s][va].fr = g
            PROVE  \E m \in Mappers(g) : m[1] = s
        <5>1. <<s, va>> \in Mappers(g) /\ <<s, va>>[1] = s
          BY <4>2, Zenon DEF Mappers
        <5> QED
          BY <5>1, Zenon
      <4>3. ASSUME NEW m \in Mappers(g), m[1] = s
            PROVE  \E va \in Pages : pte[s][va].fr = g
        BY <4>3, Zenon DEF Mappers
      <4> QED
        BY <4>1, <4>2, <4>3, Zenon
    <3>2. g \in TablesIn(s) <=> \E u \in TableUses(g) : u[1] = s
      <4>1. g \in TablesIn(s) <=> \E k \in Tables : tab[s][k] = g
        BY <2>1, Zenon DEF TablesIn
      <4>2. ASSUME NEW k \in Tables, tab[s][k] = g
            PROVE  \E u \in TableUses(g) : u[1] = s
        <5>1. <<s, k>> \in TableUses(g) /\ <<s, k>>[1] = s
          BY <4>2, Zenon DEF TableUses
        <5> QED
          BY <5>1, Zenon
      <4>3. ASSUME NEW u \in TableUses(g), u[1] = s
            PROVE  \E k \in Tables : tab[s][k] = g
        BY <4>3, Zenon DEF TableUses
      <4> QED
        BY <4>1, <4>2, <4>3, Zenon
    <3> QED
      BY <2>2, <3>1, <3>2, Zenon
  <2>9. ASSUME NEW g \in Frames
        PROVE  FrameOK(g)'
    <3>0. /\ Counted(g) /\ OneRole(g) /\ RwAlone(g)
          /\ Cardinality(Mappers(g)) \in Nat /\ Cardinality(TableUses(g)) \in Nat
          /\ Holds(g) \in 0..2 /\ ref[g] \in Nat /\ lost[g] \in Nat
          /\ IsFiniteSet(Mappers(g)) /\ IsFiniteSet(TableUses(g))
      BY Numbers, UsersFinite, Zenon DEF FrameOK
    <3>1. ASSUME g \in S, ref[g] >= 1
          PROVE  ref'[g] = ref[g] - 1 /\ (g \in used' <=> ref[g] - 1 > 0)
      <4>1. g \in used
        BY <3>0, <3>1 DEF Counted
      <4> QED
        BY <2>3, <3>0, <3>1, <4>1
    <3>2. CASE g = s
      <4>1. /\ Mappers(g) = {} /\ TableUses(g) = {} /\ g # fresh
            /\ Holds(g) = 1
        BY <3>0, <3>2 DEF OneRole, Holds
      <4>2. /\ Mappers(g)' = {} /\ TableUses(g)' = {} /\ Holds(g)' = 0 /\ g \notin spaces'
        BY <2>3, <2>6, <2>7, <3>2, <4>1 DEF Holds
      <4>3. Cardinality(Mappers(g)) = 0 /\ Cardinality(TableUses(g)) = 0
        BY <4>1, FS_EmptySet, Zenon
      <4>4. Cardinality(Mappers(g)') = 0 /\ Cardinality(TableUses(g)') = 0
        BY <4>2, FS_EmptySet, Zenon
      <4>5. ref[g] = 1 + lost[g]
        BY <3>0, <4>1, <4>3 DEF Counted
      <4>6. ref'[g] = lost[g] /\ (g \in used' <=> lost[g] > 0)
        BY <2>8, <3>0, <3>1, <3>2, <4>5
      <4>7. Counted(g)'
        BY <3>0, <4>2, <4>4, <4>6 DEF Counted
      <4>8. OneRole(g)' /\ RwAlone(g)'
        BY <4>2, Zenon DEF OneRole, RwAlone
      <4> QED
        BY <4>7, <4>8, Zenon DEF FrameOK
    <3>3. CASE \E m \in Mappers(g) : m[1] = s
      <4>1. PICK m \in Mappers(g) : m[1] = s
        BY <3>3, Zenon
      <4>2. TableUses(g) = {} /\ g \notin spaces /\ g # fresh /\ Holds(g) = 0
        BY <3>0, <4>1 DEF OneRole, Holds
      <4>3. ASSUME NEW n \in Mappers(g)
            PROVE  n[1] # s <=> n # m
        <5>1. n = <<n[1], n[2]>> /\ m = <<m[1], m[2]>>
          BY DEF Mappers
        <5>2. n[2] = m[2]
          BY <3>0, Zenon DEF OneRole
        <5> QED
          BY <4>1, <5>1, <5>2, Zenon
      <4>4. Mappers(g)' = Mappers(g) \ {m}
        BY <2>6, <4>3, Zenon
      <4>5. TableUses(g)' = {} /\ g \notin spaces' /\ g # fresh' /\ Holds(g)' = 0
        BY <2>3, <2>7, <4>2, Zenon DEF Holds
      <4>6. Cardinality(Mappers(g)') = Cardinality(Mappers(g)) - 1
        BY Zenon, <3>0, <4>1, <4>4, <1>DropOne
      <4>7. Cardinality(TableUses(g)) = 0 /\ Cardinality(TableUses(g)') = 0
        BY <4>2, <4>5, FS_EmptySet, Zenon
      <4>8. Cardinality(Mappers(g)) >= 1
        <5>1. Cardinality(Mappers(g)) # 0
          BY <3>0, <4>1, FS_EmptySet, Zenon
        <5> QED
          BY <3>0, <5>1
      <4>9. ref[g] >= 1 /\ ref[g] = Cardinality(Mappers(g)) + lost[g]
        BY <3>0, <4>2, <4>7, <4>8 DEF Counted
      <4>10. Counted(g)'
        BY <2>8, <3>0, <3>1, <3>3, <4>5, <4>6, <4>7, <4>9 DEF Counted
      <4>11. OneRole(g)'
        BY <3>0, <4>4, <4>5, Zenon DEF OneRole
      <4>12. RwAlone(g)'
        <5> SUFFICES ASSUME NEW n \in Mappers(g), n # m
                     PROVE  ~pte'[n[1]][n[2]].rw
          BY <4>4, Zenon DEF RwAlone
        <5>1. n[1] \in Frames /\ n[1] # s
          BY <2>1, <4>3, Zenon DEF Mappers
        <5>2. Mappers(g) # {n}
          BY <4>1, Zenon
        <5> QED
          BY <2>4, <3>0, <5>1, <5>2, Zenon DEF RwAlone
      <4> QED
        BY <4>10, <4>11, <4>12, Zenon DEF FrameOK
    <3>4. CASE \E u \in TableUses(g) : u[1] = s
      <4>1. PICK u \in TableUses(g) : u[1] = s
        BY <3>4, Zenon
      <4>2. TableUses(g) = {u} /\ Mappers(g) = {} /\ g \notin spaces /\ g # fresh
        BY <3>0, <4>1, Zenon DEF OneRole
      <4>3. /\ TableUses(g)' = {} /\ Mappers(g)' = {} /\ g \notin spaces' /\ g # fresh'
            /\ Holds(g) = 0 /\ Holds(g)' = 0
        BY <2>3, <2>6, <2>7, <4>1, <4>2 DEF Holds
      <4>4. Cardinality(TableUses(g)) = 1 /\ Cardinality(Mappers(g)) = 0
        BY <4>2, FS_EmptySet, FS_Singleton, Zenon
      <4>5. Cardinality(TableUses(g)') = 0 /\ Cardinality(Mappers(g)') = 0
        BY <4>3, FS_EmptySet, Zenon
      <4>6. ref[g] = 1 + lost[g]
        BY <3>0, <4>3, <4>4 DEF Counted
      <4>7. ref'[g] = lost[g] /\ (g \in used' <=> lost[g] > 0)
        BY <2>8, <3>0, <3>1, <3>4, <4>6
      <4>8. Counted(g)'
        BY <3>0, <4>3, <4>5, <4>7 DEF Counted
      <4>9. OneRole(g)' /\ RwAlone(g)'
        BY <4>3, Zenon DEF OneRole, RwAlone
      <4> QED
        BY <4>8, <4>9, Zenon DEF FrameOK
    <3>5. CASE g # s /\ (\A m \in Mappers(g) : m[1] # s) /\ (\A u \in TableUses(g) : u[1] # s)
      <4>1. Mappers(g)' = Mappers(g) /\ TableUses(g)' = TableUses(g)
        BY <2>6, <2>7, <3>5, Zenon
      <4>2. /\ ref'[g] = ref[g] /\ (g \in used' <=> g \in used)
            /\ (g \in spaces' <=> g \in spaces)
        BY <2>3, <2>8, <3>5, Zenon
      <4>3. \A m \in Mappers(g) : pte'[m[1]][m[2]].rw => pte[m[1]][m[2]].rw
        <5>1. \A m \in Mappers(g) : m[1] \in Frames /\ m[1] # s
          BY <2>1, <3>5, Zenon DEF Mappers
        <5> QED
          BY <2>4, <5>1, Zenon
      <4> QED
        BY Zenon, <4>1, <4>2, <4>3, FrameSame
    <3> QED
      BY <3>2, <3>3, <3>4, <3>5, Zenon
  <2> QED
    BY <2>5, <2>9, Zenon
(* vmm_map_page_into stores the frame that was taken. *)
<1>MapRefs.
    ASSUME Constants, TypeOK, Outside, \A g \in Frames : FrameOK(g),
           NEW s \in spaces, NEW va \in Pages, fresh \in Frames, fresh' = 0,
           \A t \in Frames, vb \in Pages :
             pte'[t][vb] = IF t = s /\ vb = va THEN Writable(fresh) ELSE pte[t][vb],
           \A g \in Frames :
             lost'[g] = IF g = pte[s][va].fr THEN lost[g] + 1 ELSE lost[g],
           UNCHANGED <<used, ref, spaces, tab>>
    PROVE  Outside' /\ \A g \in Frames : FrameOK(g)'
  <2> USE <1>MapRefs
  <2>1. s \in Frames /\ 0 \notin Frames /\ spaces \subseteq Frames
    BY Sizes, Zenon DEF TypeOK
  <2>2. Writable(fresh).fr = fresh /\ Writable(fresh).rw
    BY Zenon DEF Writable
  <2>3. \A g : Mappers(g)' = IF g = fresh THEN Mappers(g) \cup {<<s, va>>}
                             ELSE Mappers(g) \ {<<s, va>>}
    <3>1. PICK e : e = fresh
      BY Zenon
    <3>2. \A t \in Frames, vb \in Pages :
            pte'[t][vb].fr = IF t = s /\ vb = va THEN e ELSE pte[t][vb].fr
      BY <2>2, <3>1, Zenon
    <3>3. \A g : Mappers(g)' = IF g = e THEN Mappers(g) \cup {<<s, va>>}
                               ELSE Mappers(g) \ {<<s, va>>}
      BY <3>2, <1>PteSet
    <3> QED
      BY Zenon, <3>1, <3>3
  <2>4. \A g : TableUses(g)' = TableUses(g)
    BY Zenon DEF TableUses
  <2>5. \A g : <<s, va>> \in Mappers(g) <=> g = pte[s][va].fr
    BY Zenon DEF Mappers
  <2>6. Outside'
    BY <2>1 DEF Outside
  <2>7. /\ Mappers(fresh) = {} /\ TableUses(fresh) = {} /\ fresh \notin spaces
        /\ pte[s][va].fr # fresh
    BY <2>5, Zenon DEF FrameOK, OneRole
  <2>8. ASSUME NEW f \in Frames, f = fresh
        PROVE  FrameOK(f)'
    <3>1. /\ Mappers(f)' = {<<s, va>>} /\ TableUses(f)' = {} /\ f \notin spaces'
          /\ f # fresh' /\ Holds(f) = 1 /\ Holds(f)' = 0 /\ lost'[f] = lost[f]
      BY <2>1, <2>3, <2>4, <2>7, <2>8 DEF Holds
    <3>2. Cardinality(Mappers(f)) = 0 /\ Cardinality(TableUses(f)) = 0
      BY <2>7, <2>8, FS_EmptySet, Zenon
    <3>3. Cardinality(Mappers(f)') = 1 /\ Cardinality(TableUses(f)') = 0
      BY <3>1, FS_EmptySet, FS_Singleton, ZenonT(30)
    <3>4. Counted(f)'
      <4>1. Counted(f) /\ lost[f] \in Nat
        BY Numbers, Zenon DEF FrameOK
      <4> QED
        BY <3>1, <3>2, <3>3, <4>1 DEF Counted
    <3>5. OneRole(f)' /\ RwAlone(f)'
      BY <3>1, Zenon DEF OneRole, RwAlone
    <3> QED
      BY <3>4, <3>5, Zenon DEF FrameOK
  <2>9. ASSUME NEW g \in Frames, g = pte[s][va].fr
        PROVE  FrameOK(g)'
    <3>1. <<s, va>> \in Mappers(g) /\ g # fresh /\ g # fresh'
      BY <2>1, <2>5, <2>7, <2>9, Zenon
    <3>2. Mappers(g)' = Mappers(g) \ {<<s, va>>} /\ lost'[g] = lost[g] + 1
      BY <2>3, <2>9, <3>1, Zenon
    <3>3. Counted(g) /\ OneRole(g) /\ RwAlone(g) /\ Holds(g)' = Holds(g)
          /\ Cardinality(Mappers(g)) \in Nat /\ Cardinality(TableUses(g)) \in Nat
          /\ Holds(g) \in 0..2 /\ ref[g] \in Nat /\ lost[g] \in Nat
      BY <3>1, Numbers, Zenon DEF FrameOK, Holds
    <3>4. Cardinality(Mappers(g)') = Cardinality(Mappers(g)) - 1
      BY ZenonT(30), <3>1, <3>2, UsersFinite, <1>DropOne
    <3>5. Counted(g)'
      BY <2>4, <3>2, <3>3, <3>4 DEF Counted
    <3>6. OneRole(g)'
      BY <2>4, <3>1, <3>2, <3>3, Zenon DEF OneRole
    <3>7. RwAlone(g)'
      <4> SUFFICES ASSUME NEW m \in Mappers(g), m # <<s, va>>
                   PROVE  ~pte'[m[1]][m[2]].rw
        BY <3>2, Zenon DEF RwAlone
      <4>1. m = <<m[1], m[2]>> /\ m[1] \in Frames /\ m[2] \in Pages
        BY <2>1 DEF Mappers
      <4>2. pte'[m[1]][m[2]] = pte[m[1]][m[2]]
        BY <4>1
      <4>3. Mappers(g) # {m}
        BY <3>1
      <4> QED
        BY <3>3, <4>2, <4>3, Zenon DEF RwAlone
    <3> QED
      BY <3>5, <3>6, <3>7, Zenon DEF FrameOK
  <2>10. ASSUME NEW g \in Frames, g # pte[s][va].fr, g # fresh
         PROVE  FrameOK(g)'
    <3>1. Mappers(g)' = Mappers(g) /\ g # fresh' /\ <<s, va>> \notin Mappers(g)
      BY Zenon, <2>1, <2>3, <2>5, <2>10
    <3>2. \A m \in Mappers(g) : pte'[m[1]][m[2]].rw => pte[m[1]][m[2]].rw
      <4> SUFFICES ASSUME NEW m \in Mappers(g)
                   PROVE  pte'[m[1]][m[2]] = pte[m[1]][m[2]]
        BY Zenon
      <4>1. m = <<m[1], m[2]>> /\ m[1] \in Frames /\ m[2] \in Pages
        BY <2>1 DEF Mappers
      <4> QED
        BY <3>1, <4>1
    <3> QED
      BY Zenon, <2>4, <2>10, <3>1, <3>2, FrameSame
  <2> QED
    BY Zenon, <2>6, <2>8, <2>9, <2>10
(* A frame with a count of 1 that is mapped has no other user. *)
<1>SoleOwner.
    ASSUME Constants, TypeOK, NEW f \in Frames, FrameOK(f), ref[f] = 1,
           NEW m \in Mappers(f)
    PROVE  Mappers(f) = {m}
  <2> USE <1>SoleOwner
  <2>1. /\ IsFiniteSet(Mappers(f)) /\ Cardinality(Mappers(f)) \in Nat
        /\ Cardinality(TableUses(f)) \in Nat /\ Holds(f) \in 0..2 /\ lost[f] \in Nat
    BY Numbers, UsersFinite, Zenon
  <2>2. Cardinality(Mappers(f)) <= 1
    BY <2>1 DEF FrameOK, Counted
  <2>3. Cardinality(Mappers(f) \ {m}) = Cardinality(Mappers(f)) - 1
        /\ IsFiniteSet(Mappers(f) \ {m})
    BY <2>1, <1>DropOne, Zenon
  <2>4. Cardinality(Mappers(f) \ {m}) \in Nat
    BY <2>3, FS_CardinalityType, Zenon
  <2>5. Cardinality(Mappers(f) \ {m}) = 0
    BY <2>1, <2>2, <2>3, <2>4
  <2>6. Mappers(f) \ {m} = {}
    BY <2>3, <2>5, FS_EmptySet, Zenon
  <2> QED
    BY <2>6, Zenon
(* vmm_page_fault_handler gives the last owner of a page its write access  *)
(* back.                                                                   *)
<1>CowOwnRefs.
    ASSUME Constants, TypeOK, Outside, \A g \in Frames : FrameOK(g),
           NEW s \in spaces, NEW va \in Pages, NEW old \in Frames,
           old = pte[s][va].fr, ref[old] = 1,
           \A t \in Frames, vb \in Pages :
             pte'[t][vb] = IF t = s /\ vb = va THEN Writable(old) ELSE pte[t][vb],
           UNCHANGED <<used, ref, spaces, tab, lost>>, fresh' = fresh
    PROVE  Outside' /\ \A g \in Frames : FrameOK(g)'
  <2> USE <1>CowOwnRefs
  <2>1. s \in Frames /\ spaces \subseteq Frames
    BY Zenon DEF TypeOK
  <2>2. \A t \in Frames, vb \in Pages : pte'[t][vb].fr = pte[t][vb].fr
    BY DEF Writable
  <2>3. \A g : Mappers(g)' = Mappers(g) /\ TableUses(g)' = TableUses(g)
    <3>1. ASSUME NEW g, NEW m \in spaces \X Pages
          PROVE  pte'[m[1]][m[2]].fr = g <=> pte[m[1]][m[2]].fr = g
      BY <2>1, <2>2, Zenon
    <3> QED
      BY <3>1, ZenonT(30) DEF Mappers, TableUses
  <2>4. Outside'
    BY <2>2 DEF Outside
  <2>5. Mappers(old) = {<<s, va>>}
    <3>1. <<s, va>> \in Mappers(old)
      BY Zenon DEF Mappers
    <3> QED
      BY <3>1, <1>SoleOwner, Zenon
  <2>6. FrameOK(old)'
    <3>1. Counted(old)' /\ OneRole(old)'
      BY <2>3 DEF FrameOK, Counted, OneRole, Holds
    <3>2. RwAlone(old)'
      BY <2>3, <2>5, Zenon DEF RwAlone
    <3> QED
      BY <3>1, <3>2, Zenon DEF FrameOK
  <2>7. ASSUME NEW g \in Frames, g # old
        PROVE  FrameOK(g)'
    <3>1. \A m \in Mappers(g) : pte'[m[1]][m[2]].rw => pte[m[1]][m[2]].rw
      <4> SUFFICES ASSUME NEW m \in Mappers(g)
                   PROVE  pte'[m[1]][m[2]] = pte[m[1]][m[2]]
        BY Zenon
      <4>1. m[1] \in Frames /\ m[2] \in Pages /\ pte[m[1]][m[2]].fr = g
        BY <2>1, Zenon DEF Mappers
      <4> QED
        BY Zenon, <2>7, <4>1
    <3> QED
      BY Zenon, <2>3, <3>1, FrameSame
  <2> QED
    BY <2>4, <2>6, <2>7, Zenon
<1>FewHolds. \A k \in 0..2 : k \in Nat
  OBVIOUS
(* vmm_page_fault_handler copies a page that others use. *)
<1>CowCopyRefs.
    ASSUME Constants, TypeOK, Outside, \A g \in Frames : FrameOK(g),
           NEW s \in spaces, NEW va \in Pages, NEW old \in Frames,
           old = pte[s][va].fr, ref[old] # 1, NEW f \in Frames, f \notin used,
           \A t \in Frames, vb \in Pages :
             pte'[t][vb] = IF t = s /\ vb = va THEN Writable(f) ELSE pte[t][vb],
           used' = (used \cup {f}) \ {g \in {old} : ref[g] <= 1},
           ref' = [ref EXCEPT ![f] = 1, ![old] = IF @ > 1 THEN @ - 1 ELSE 0],
           UNCHANGED <<spaces, tab, lost>>, fresh' = fresh
    PROVE  Outside' /\ \A g \in Frames : FrameOK(g)'
  <2> USE <1>CowCopyRefs
  <2>1. s \in Frames /\ spaces \subseteq Frames
    BY Zenon DEF TypeOK
  <2>2. Writable(f).fr = f
    BY Zenon DEF Writable
  <2>3. \A g : Mappers(g)' = IF g = f THEN Mappers(g) \cup {<<s, va>>}
                             ELSE Mappers(g) \ {<<s, va>>}
    BY <2>2, <1>PteSet
  <2>4. \A g : TableUses(g)' = TableUses(g)
    BY Zenon DEF TableUses
  <2>5. \A g : <<s, va>> \in Mappers(g) <=> g = old
    BY Zenon DEF Mappers
  <2>6. /\ Mappers(f) = {} /\ TableUses(f) = {} /\ f \notin spaces /\ f # fresh
        /\ ref[f] = 0 /\ lost[f] = 0 /\ f # old
    <3>1. /\ Mappers(f) = {} /\ TableUses(f) = {} /\ f \notin spaces /\ f # fresh
          /\ ref[f] = 0 /\ lost[f] = 0
      BY Zenon, FreeUnused
    <3> QED
      BY <2>5, <3>1, Zenon
  <2>7. /\ Counted(old) /\ OneRole(old) /\ RwAlone(old)
        /\ Cardinality(Mappers(old)) \in Nat /\ Cardinality(TableUses(old)) \in Nat
        /\ Holds(old) \in 0..2 /\ ref[old] \in Nat /\ lost[old] \in Nat
        /\ IsFiniteSet(Mappers(old)) /\ <<s, va>> \in Mappers(old)
    BY <2>5, Numbers, UsersFinite, ZenonT(30) DEF FrameOK
  <2>a. PICK r \in Nat, a \in Nat, b \in Nat, h \in Nat, l \in Nat :
          /\ r = ref[old] /\ a = Cardinality(Mappers(old))
          /\ b = Cardinality(TableUses(old)) /\ h = Holds(old) /\ l = lost[old]
    BY <2>7, <1>FewHolds, Zenon
  <2>b. r = a + b + h + l /\ a # 0 /\ r # 1
    <3>1. Cardinality(Mappers(old)) # 0
      BY <2>7, FS_EmptySet, ZenonT(30)
    <3> QED
      BY <2>7, <2>a, <3>1, Zenon DEF Counted
  <2>8. r > 0 /\ r > 1 /\ ~(r <= 1) /\ r - 1 > 0 /\ r - 1 = (a - 1) + b + h + l
    <3> HIDE <1>CowCopyRefs
    <3> QED
      BY <2>b
  <2>9. /\ used' = used \cup {f} /\ ref'[f] = 1 /\ ref'[old] = ref[old] - 1
        /\ \A g \in Frames : g # f /\ g # old => ref'[g] = ref[g]
    <3>1. used' = used \cup {f}
      BY <2>8, <2>a, Zenon
    <3>2. ref'[old] = ref[old] - 1
      BY <2>6, <2>8, <2>a, Zenon DEF TypeOK
    <3>3. ref'[f] = 1 /\ \A g \in Frames : g # f /\ g # old => ref'[g] = ref[g]
      BY <2>6, ZenonT(30) DEF TypeOK
    <3> QED
      BY <3>1, <3>2, <3>3, Zenon
  <2>10. Outside'
    BY <2>1 DEF Outside
  <2>11. FrameOK(f)'
    <3>1. /\ Mappers(f)' = {<<s, va>>} /\ TableUses(f)' = {} /\ f \notin spaces'
          /\ f # fresh' /\ Holds(f)' = 0 /\ lost'[f] = 0 /\ f \in used'
      BY <2>3, <2>4, <2>6, <2>9 DEF Holds
    <3>2. Cardinality(Mappers(f)') = 1 /\ Cardinality(TableUses(f)') = 0
      BY <3>1, FS_EmptySet, FS_Singleton, ZenonT(30)
    <3>3. Counted(f)'
      BY <2>9, <3>1, <3>2 DEF Counted
    <3>4. OneRole(f)' /\ RwAlone(f)'
      BY <3>1, Zenon DEF OneRole, RwAlone
    <3> QED
      BY <3>3, <3>4, ZenonT(30) DEF FrameOK
  <2>12. FrameOK(old)'
    <3>1. Mappers(old)' = Mappers(old) \ {<<s, va>>} /\ Holds(old)' = Holds(old)
      BY <2>3, <2>6, Zenon DEF Holds
    <3>2. Cardinality(Mappers(old)') = Cardinality(Mappers(old)) - 1
      BY Zenon, <2>7, <3>1, <1>DropOne
    <3>a. /\ ref[old] = Cardinality(Mappers(old)) + Cardinality(TableUses(old))
                        + Holds(old) + lost[old]
          /\ old \in used <=> ref[old] > 0
      BY <2>7, ZenonT(30) DEF Counted
    <3>3. old \in used' /\ ref'[old] > 0
      BY <2>8, <2>9, <2>a, <3>a, Zenon
    <3>b. TableUses(old)' = TableUses(old) /\ lost'[old] = lost[old]
      BY <2>4, Zenon
    <3>c. ref'[old] = Cardinality(Mappers(old)') + Cardinality(TableUses(old)')
                      + Holds(old)' + lost'[old]
      BY <2>8, <2>9, <2>a, <3>1, <3>2, <3>b, Zenon
    <3>4. Counted(old)'
      BY <3>c, <3>3, Zenon DEF Counted
    <3>5. OneRole(old)'
      BY <2>4, <2>7, <3>1, Zenon DEF OneRole
    <3>6. RwAlone(old)'
      <4> SUFFICES ASSUME NEW m \in Mappers(old), m # <<s, va>>
                   PROVE  ~pte'[m[1]][m[2]].rw
        BY <3>1, ZenonT(30) DEF RwAlone
      <4>1. m = <<m[1], m[2]>> /\ m[1] \in Frames /\ m[2] \in Pages
        BY <2>1 DEF Mappers
      <4>2. pte'[m[1]][m[2]] = pte[m[1]][m[2]] /\ Mappers(old) # {m}
        BY Zenon, <2>7, <4>1
      <4> QED
        BY <2>7, <4>2, Zenon DEF RwAlone
    <3> QED
      BY <3>4, <3>5, <3>6, Zenon DEF FrameOK
  <2>13. ASSUME NEW g \in Frames, g # f, g # old
         PROVE  FrameOK(g)'
    <3>1. Mappers(g)' = Mappers(g) /\ <<s, va>> \notin Mappers(g)
      BY ZenonT(30), <2>3, <2>5, <2>13
    <3>2. \A m \in Mappers(g) : pte'[m[1]][m[2]].rw => pte[m[1]][m[2]].rw
      <4> SUFFICES ASSUME NEW m \in Mappers(g)
                   PROVE  pte'[m[1]][m[2]] = pte[m[1]][m[2]]
        BY Zenon
      <4>1. m = <<m[1], m[2]>> /\ m[1] \in Frames /\ m[2] \in Pages
        BY <2>1 DEF Mappers
      <4> QED
        BY <3>1, <4>1
    <3> QED
      BY Zenon, <2>4, <2>9, <2>13, <3>1, <3>2, FrameSame
  <2> QED
    BY Zenon, <2>10, <2>11, <2>12, <2>13
(* Taking write access away from an entry disturbs no count. *)
<1>DemoteRefs.
    ASSUME TypeOK, Outside, \A g \in Frames : FrameOK(g),
           \A t \in Frames, vb \in Pages :
             /\ pte'[t][vb].fr = pte[t][vb].fr
             /\ pte'[t][vb].rw => pte[t][vb].rw,
           UNCHANGED <<used, ref, spaces, tab, lost>>, fresh' = fresh
    PROVE  Outside' /\ \A g \in Frames : FrameOK(g)'
  <2> USE <1>DemoteRefs
  <2>1. spaces \subseteq Frames
    BY ZenonT(30) DEF TypeOK
  <2>2. \A g : Mappers(g)' = Mappers(g) /\ TableUses(g)' = TableUses(g)
    <3>1. ASSUME NEW g, NEW m \in spaces \X Pages
          PROVE  pte'[m[1]][m[2]].fr = g <=> pte[m[1]][m[2]].fr = g
      BY <2>1, Zenon
    <3> QED
      BY <3>1 DEF Mappers, TableUses
  <2>3. Outside'
    BY DEF Outside
  <2>4. ASSUME NEW g \in Frames
        PROVE  FrameOK(g)'
    <3>1. \A m \in Mappers(g) : pte'[m[1]][m[2]].rw => pte[m[1]][m[2]].rw
      <4> SUFFICES ASSUME NEW m \in Mappers(g)
                   PROVE  pte'[m[1]][m[2]].rw => pte[m[1]][m[2]].rw
        BY Zenon
      <4>1. m[1] \in Frames /\ m[2] \in Pages
        BY <2>1, Zenon DEF Mappers
      <4> QED
        BY <4>1, Zenon
    <3> QED
      BY <2>2, <3>1, FrameSame, Zenon
  <2> QED
    BY <2>3, <2>4, Zenon
(* vmm_cow_user_space shares a page: one more entry, none of them writable. *)
<1>CowShareRefs.
    ASSUME Constants, TypeOK, Outside, \A g \in Frames : FrameOK(g),
           NEW src \in spaces, NEW s \in spaces, src # s, NEW va \in Pages,
           NEW old \in Frames, old = pte[src][va].fr, pte[s][va].fr = 0,
           \A t \in Frames, vb \in Pages :
             pte'[t][vb] = IF t \in {src, s} /\ vb = va THEN Shared(pte[src][va])
                           ELSE pte[t][vb],
           ref'[old] = ref[old] + 1, \A g \in Frames : g # old => ref'[g] = ref[g],
           UNCHANGED <<used, spaces, tab, lost>>, fresh' = fresh
    PROVE  Outside' /\ \A g \in Frames : FrameOK(g)'
  <2> USE <1>CowShareRefs
  <2>1. s \in Frames /\ src \in Frames /\ spaces \subseteq Frames /\ 0 \notin Frames
    BY Sizes, Zenon DEF TypeOK
  <2>2. pte[src][va] \in Ptes
    BY <2>1 DEF TypeOK
  <2>3. Shared(pte[src][va]).fr = old /\ ~Shared(pte[src][va]).rw
    BY <2>2, Zenon DEF Shared, Ptes
  <2>4. \A t \in Frames, vb \in Pages :
          pte'[t][vb].fr = IF t = s /\ vb = va THEN old ELSE pte[t][vb].fr
    BY <2>1, <2>3
  <2>5. \A g : Mappers(g)' = IF g = old THEN Mappers(g) \cup {<<s, va>>}
                             ELSE Mappers(g) \ {<<s, va>>}
    BY <2>4, <1>PteSet
  <2>6. \A g : TableUses(g)' = TableUses(g)
    BY Zenon DEF TableUses
  <2>7. <<src, va>> \in Mappers(old) /\ \A g \in Frames : <<s, va>> \notin Mappers(g)
    BY <2>1, Zenon DEF Mappers
  <2>8. /\ Counted(old) /\ OneRole(old) /\ RwAlone(old)
        /\ Cardinality(Mappers(old)) \in Nat /\ Cardinality(TableUses(old)) \in Nat
        /\ Holds(old) \in 0..2 /\ ref[old] \in Nat /\ lost[old] \in Nat
        /\ IsFiniteSet(Mappers(old))
    BY Numbers, UsersFinite, ZenonT(30) DEF FrameOK
  <2>9. Outside'
    BY <2>1, <2>4 DEF Outside
  <2>10. FrameOK(old)'
    <3>1. Mappers(old)' = Mappers(old) \cup {<<s, va>>} /\ Holds(old)' = Holds(old)
      BY <2>5, Zenon DEF Holds
    <3>2. Cardinality(Mappers(old)') = Cardinality(Mappers(old)) + 1
      BY Zenon, <2>7, <2>8, <3>1, <1>AddOne
    <3>3. /\ ref[old] = Cardinality(Mappers(old)) + Cardinality(TableUses(old))
                        + Holds(old) + lost[old]
          /\ old \in used <=> ref[old] > 0
      BY <2>8, Zenon DEF Counted
    <3>4. Cardinality(Mappers(old)) # 0
      BY Zenon, <2>7, <2>8, FS_EmptySet
    <3>a. PICK r \in Nat, a \in Nat, b \in Nat, h \in Nat, l \in Nat :
            /\ r = ref[old] /\ a = Cardinality(Mappers(old))
            /\ b = Cardinality(TableUses(old)) /\ h = Holds(old) /\ l = lost[old]
      <4>1. Holds(old) \in Nat
        BY <2>8
      <4> QED
        BY <2>8, <4>1, ZenonT(30)
    <3>b. r = a + b + h + l /\ a # 0
      BY ZenonT(30), <3>3, <3>4, <3>a
    <3>c. r > 0 /\ r + 1 > 0
      BY <3>b
    <3>5. old \in used /\ ref'[old] > 0
      BY Zenon, <3>3, <3>a, <3>c
    <3>6. ref'[old] = Cardinality(Mappers(old)') + Cardinality(TableUses(old)')
                      + Holds(old)' + lost'[old]
      <4>1. r + 1 = (a + 1) + b + h + l
        BY <3>b
      <4> QED
        BY <2>6, <3>1, <3>2, <3>a, <4>1, ZenonT(30)
    <3>7. Counted(old)'
      BY <3>5, <3>6, Zenon DEF Counted
    <3>8. OneRole(old)'
      <4>1. <<s, va>>[2] = va /\ <<src, va>>[2] = va
        OBVIOUS
      <4>2. \A m \in Mappers(old) : m[2] = va
        BY <2>7, <2>8, <4>1, ZenonT(30) DEF OneRole
      <4>3. \A m \in Mappers(old)' : m[2] = va
        BY <3>1, <4>1, <4>2, Zenon
      <4> QED
        BY <2>6, <2>7, <2>8, <3>1, <4>3, ZenonT(30) DEF OneRole
    <3>9. RwAlone(old)'
      <4> SUFFICES ASSUME NEW m \in Mappers(old)', pte'[m[1]][m[2]].rw
                   PROVE  FALSE
        BY Zenon DEF RwAlone
      <4>1. m = <<m[1], m[2]>> /\ m[1] \in Frames /\ m[2] \in Pages
        BY <2>1 DEF Mappers
      <4>2. ~(m[1] \in {src, s} /\ m[2] = va)
        BY <2>3, <4>1
      <4>3. m \in Mappers(old) /\ pte[m[1]][m[2]].rw /\ m # <<src, va>>
        BY <3>1, <4>1, <4>2
      <4>4. Mappers(old) = {m}
        BY <2>8, <4>3, Zenon DEF RwAlone
      <4> QED
        BY Zenon, <2>7, <4>3, <4>4
    <3> QED
      BY <3>7, <3>8, <3>9, Zenon DEF FrameOK
  <2>11. ASSUME NEW g \in Frames, g # old
         PROVE  FrameOK(g)'
    <3>1. Mappers(g)' = Mappers(g)
      BY Zenon, <2>5, <2>7, <2>11
    <3>2. \A m \in Mappers(g) : pte'[m[1]][m[2]].rw => pte[m[1]][m[2]].rw
      <4> SUFFICES ASSUME NEW m \in Mappers(g)
                   PROVE  pte'[m[1]][m[2]].rw => pte[m[1]][m[2]].rw
        BY Zenon
      <4>1. m[1] \in Frames /\ m[2] \in Pages
        BY <2>1, Zenon DEF Mappers
      <4> QED
        BY Zenon, <2>3, <4>1
    <3> QED
      BY Zenon, <2>6, <2>11, <3>1, <3>2, FrameSame
  <2> QED
    BY <2>9, <2>10, <2>11, Zenon
(* An operation ends without changing a process. *)
<1>EndControl.
    ASSUME Control, End, UNCHANGED <<state, pml4>>
    PROVE  Control'
  BY <1>EndControl, Zenon DEF Control, End
<1>EndOwners.
    ASSUME Owners, End, UNCHANGED <<pml4, spaces>>
    PROVE  Owners'
  BY <1>EndOwners, Zenon DEF Owners, End
<1>EndTypes.
    ASSUME Constants, End
    PROVE  /\ op' \in {"none", "fork", "exec", "brk", "stack"}
           /\ caller' \in Procs /\ dst' \in Frames \cup {0} /\ todo' \subseteq Pages
           /\ fresh' \in Frames \cup {0}
           /\ arg' \in IF op' = "fork" THEN Procs ELSE Nat
  BY <1>EndTypes, Zenon DEF End, Constants
<1>CowPageInv.
    ASSUME Constants, Inv, CowPage
    PROVE  Inv'
  <2> USE <1>CowPageInv
  <2>1. TypeOK /\ Control /\ Filling /\ op = "fork"
    BY Zenon DEF Inv, CowPage
  <2>2. /\ Next_va \in todo /\ Next_va \in Pages /\ caller \in Procs
        /\ pml4[caller] \in Frames /\ dst \in Frames /\ fresh = 0
    BY <2>1, ForkState, Zenon
  <2>3. PICK va \in Pages : va = Next_va
    BY <2>2, Zenon
  <2>4. PICK src \in Frames : src = pml4[caller]
    BY <2>2, Zenon
  <2>5. PICK e : e = Shared(pte[src][va])
    BY Zenon
  <2>6. e \in Ptes /\ e.fr = pte[src][va].fr
    <3>1. pte[src][va] \in Ptes
      BY <2>1 DEF TypeOK
    <3> QED
      BY <2>5, <3>1, SharedPte, Zenon
  <2>7. /\ pte' = [pte EXCEPT ![src][va] = e, ![dst][va] = e]
        /\ ref' = [ref EXCEPT ![e.fr] = IF @ < MaxRef THEN @ + 1 ELSE @]
        /\ saturated' = (saturated \/ ref[e.fr] >= MaxRef)
        /\ todo' = todo \ {va}
        /\ UNCHANGED <<used, data, spaces, tab, state, pml4, brk, stack_low>>
        /\ UNCHANGED <<op, caller, dst, fresh, arg, halted, exhausted, lost>>
    BY <2>3, <2>4, <2>5, Zenon DEF CowPage, AddRef, procVars
  <2>8. TypeOK'
    <3>1. pte' \in [Frames -> [Pages -> Ptes]]
      BY <2>1, <2>2, <2>6, <2>7, Zenon DEF TypeOK
    <3>2. ref' \in [Frames -> 0..MaxRef]
      <4>1. ref \in [Frames -> 0..MaxRef] /\ MaxRef \in Nat
        BY <2>1, Zenon DEF TypeOK, Constants
      <4>2. \A f \in Frames :
              ref'[f] = IF f = e.fr /\ ref[f] < MaxRef THEN ref[f] + 1 ELSE ref[f]
        BY <2>7, <4>1, Zenon
      <4>3. \A f \in Frames : ref'[f] \in 0..MaxRef
        BY <4>1, <4>2
      <4> QED
        BY Zenon, <2>7, <4>1, <4>3
    <3>3. {exhausted', saturated'} \subseteq BOOLEAN
      BY <2>1, <2>7, Zenon DEF TypeOK
    <3>4. todo' \subseteq Pages
      BY <2>1, <2>7, Zenon DEF TypeOK
    <3> QED
      BY <2>1, <2>7, <3>1, <3>2, <3>3, <3>4, ZenonT(30) DEF TypeOK
  <2>9. Control'
    BY <2>1, <2>2, <2>7, Zenon DEF Control
  <2>10. ASSUME ~saturated', Sound
         PROVE  Sound'
    <3>1. /\ src \in spaces /\ dst \in spaces /\ src # dst
          /\ pte[src][va].fr # 0 /\ pte[dst][va].fr = 0
      BY <2>1, <2>2, <2>3, <2>4, <2>10, Sizes, Zenon DEF Sound, Owners
    <3>2. \A t \in Frames, vb \in Pages :
            pte'[t][vb] = IF t \in {src, dst} /\ vb = va THEN Shared(pte[src][va])
                          ELSE pte[t][vb]
      BY <2>1, <2>2, <2>5, <2>7, Zenon DEF TypeOK
    <3>3. PICK old \in Frames : old = pte[src][va].fr
      <4>1. pte[src][va] \in Ptes
        BY <2>1 DEF TypeOK
      <4> QED
        BY <3>1, <4>1, Zenon DEF Ptes
    <3>4. ref'[old] = ref[old] + 1 /\ \A g \in Frames : g # old => ref'[g] = ref[g]
      <4>1. ~(ref[old] >= MaxRef)
        BY ZenonT(30), <2>6, <2>7, <2>10, <3>3
      <4>2. ref[old] \in Int /\ MaxRef \in Int
        BY <2>1 DEF TypeOK, Constants
      <4>3. ref[old] < MaxRef
        BY <4>1, <4>2
      <4> QED
        BY <2>1, <2>6, <2>7, <3>3, <4>3, ZenonT(30) DEF TypeOK
    <3>5. PICK d \in spaces : d = dst
      BY <3>1, Zenon
    <3>a. \A t \in Frames, vb \in Pages :
            pte'[t][vb] = IF t \in {src, d} /\ vb = va THEN Shared(pte[src][va])
                          ELSE pte[t][vb]
      BY <3>2, <3>5, Zenon
    <3>b. src # d /\ pte[d][va].fr = 0 /\ src \in spaces
      BY <3>1, <3>5, Zenon
    <3>c. UNCHANGED <<used, spaces, tab, lost>> /\ fresh' = fresh
      BY <2>7, Zenon
    <3>6. Outside' /\ \A g \in Frames : FrameOK(g)'
      <4>1. TypeOK /\ Outside /\ \A g \in Frames : FrameOK(g)
        BY <2>1, <2>10, Zenon DEF Sound
      <4> QED
        BY <3>3, <3>4, <3>a, <3>b, <3>c, <4>1, <1>CowShareRefs, ZenonT(30)
    <3>7. Owners'
      <4>1. \A p \in Procs : pml4'[p] # 0 => pml4'[p] \in spaces'
        BY <2>7, <2>10, Zenon DEF Sound, Owners
      <4>2. \A p, q \in Procs : pml4'[p] = pml4'[q] /\ pml4'[p] # 0 => p = q
        BY <2>7, <2>10, Zenon DEF Sound, Owners
      <4>3. \A vb \in todo' : pte'[src][vb].fr # 0 /\ pte'[dst][vb].fr = 0
        <5> SUFFICES ASSUME NEW vb \in todo'
                     PROVE  pte'[src][vb].fr # 0 /\ pte'[dst][vb].fr = 0
          BY Zenon
        <5>1. vb \in todo /\ vb # va /\ vb \in Pages
          BY <2>1, <2>7, Zenon DEF TypeOK
        <5>2. pte'[src][vb] = pte[src][vb] /\ pte'[dst][vb] = pte[dst][vb]
          BY <2>2, <3>2, <5>1, Zenon
        <5> QED
          BY <2>1, <2>4, <2>10, <5>1, <5>2, Zenon DEF Sound, Owners
      <4>4. \A p \in Procs : pml4'[p] # dst'
        BY <2>1, <2>7, <2>10, Zenon DEF Sound, Owners
      <4> QED
        BY <2>1, <2>4, <2>7, <3>1, <4>1, <4>2, <4>3, <4>4, Zenon DEF Owners
    <3> QED
      BY <3>6, <3>7, Zenon DEF Sound
  <2>11. ~saturated' => ~saturated
    BY Zenon, <2>7
  <2> QED
    BY <2>8, <2>9, <2>10, <2>11, Zenon DEF Inv
(* A frame that could not be mapped is never released. *)
<1>LoseRefs.
    ASSUME Constants, TypeOK, Outside, \A g \in Frames : FrameOK(g),
           fresh \in Frames, fresh' = 0,
           \A g \in Frames : lost'[g] = IF g = fresh THEN lost[g] + 1 ELSE lost[g],
           UNCHANGED <<used, ref, spaces, tab, pte>>
    PROVE  Outside' /\ \A g \in Frames : FrameOK(g)'
  <2> USE <1>LoseRefs
  <2>1. \A g : Mappers(g)' = Mappers(g) /\ TableUses(g)' = TableUses(g)
    BY Zenon DEF Mappers, TableUses
  <2>2. Outside'
    BY Zenon DEF Outside
  <2>3. 0 \notin Frames
    BY Sizes, Zenon
  <2>4. ASSUME NEW g \in Frames, g # fresh
        PROVE  FrameOK(g)'
    <3>1. g # fresh' /\ lost'[g] = lost[g]
      BY <2>3, <2>4, Zenon
    <3> QED
      BY <2>1, <2>4, <3>1, FrameSame, Zenon
  <2>5. ASSUME NEW f \in Frames, f = fresh
        PROVE  FrameOK(f)'
    <3>1. Counted(f) /\ OneRole(f) /\ RwAlone(f)
      BY Zenon DEF FrameOK
    <3>2. f \notin spaces
      BY <2>5, <3>1, Zenon DEF OneRole
    <3>3. Holds(f) = 1 /\ Holds(f)' = 0
      BY <2>3, <2>5, <3>2 DEF Holds
    <3>4. PICK a \in Nat, b \in Nat, l \in Nat :
            /\ a = Cardinality(Mappers(f)) /\ b = Cardinality(TableUses(f))
            /\ l = lost[f]
      BY Numbers, Zenon
    <3>5. ref'[f] = a + b + 1 + l /\ (f \in used' <=> ref'[f] > 0)
      BY <3>1, <3>3, <3>4, Zenon DEF Counted
    <3>6. lost'[f] = l + 1 /\ Cardinality(Mappers(f)') = a /\ Cardinality(TableUses(f)') = b
      BY <2>1, <2>5, <3>4, Zenon
    <3>7. a + b + 1 + l = a + b + 0 + (l + 1)
      OBVIOUS
    <3>8. Counted(f)'
      BY <3>3, <3>5, <3>6, <3>7, Zenon DEF Counted
    <3>9. OneRole(f)' /\ RwAlone(f)'
      BY <2>1, <2>3, <3>1, Zenon DEF OneRole, RwAlone
    <3> QED
      BY <3>8, <3>9, Zenon DEF FrameOK
  <2> QED
    BY <2>2, <2>4, <2>5, Zenon
<1>CowFailsInv.
    ASSUME Constants, Inv, CowFails
    PROVE  Inv'
  <2> USE <1>CowFailsInv
  <2>1. TypeOK /\ Control /\ Filling /\ op = "fork"
    BY Zenon DEF Inv, CowFails
  <2>2. Next_va \in Pages /\ pml4[caller] \in Frames /\ fresh = 0
    BY <2>1, ForkState, Zenon
  <2>3. PICK va \in Pages, src \in Frames : va = Next_va /\ src = pml4[caller]
    BY <2>2, Zenon
  <2>4. /\ pte' = [pte EXCEPT ![src][va] = Shared(pte[src][va])]
        /\ End /\ exhausted' = TRUE
        /\ UNCHANGED <<used, ref, data, spaces, tab, state, pml4, brk, stack_low>>
        /\ UNCHANGED <<halted, saturated, lost>>
    BY <2>1, <2>3, Zenon DEF CowFails, frameVars, procVars, TypeOK
  <2>5. /\ Shared(pte[src][va]) \in Ptes /\ Shared(pte[src][va]).fr = pte[src][va].fr
        /\ ~Shared(pte[src][va]).rw
    <3>1. pte[src][va] \in Ptes
      BY <2>1 DEF TypeOK
    <3> QED
      BY <3>1, SharedPte, Zenon
  <2>6. TypeOK'
    <3>1. pte' \in [Frames -> [Pages -> Ptes]]
      BY <2>1, <2>4, <2>5, Zenon DEF TypeOK
    <3>2. {exhausted', saturated'} \subseteq BOOLEAN
      BY <2>1, <2>4, Zenon DEF TypeOK
    <3> QED
      BY <2>1, <2>4, <3>1, <3>2, <1>EndTypes, Zenon DEF TypeOK
  <2>7. Control'
    BY <2>1, <2>4, <1>EndControl, Zenon
  <2>8. ASSUME Sound
        PROVE  Sound'
    <3>1. \A t \in Frames, vb \in Pages :
            /\ pte'[t][vb].fr = pte[t][vb].fr
            /\ pte'[t][vb].rw => pte[t][vb].rw
      BY <2>1, <2>4, <2>5, Zenon DEF TypeOK
    <3>2. fresh' = fresh
      BY <2>2, <2>4, Zenon DEF End
    <3>3. Outside' /\ \A g \in Frames : FrameOK(g)'
      BY <2>1, <2>4, <2>8, <3>1, <3>2, <1>DemoteRefs, Zenon DEF Sound
    <3>4. Owners'
      BY <2>4, <2>8, <1>EndOwners, Zenon DEF Sound
    <3> QED
      BY <3>3, <3>4, Zenon DEF Sound
  <2> QED
    BY <2>4, <2>6, <2>7, <2>8, Zenon DEF Inv
<1>TakeFrameInv.
    ASSUME Constants, Inv, TakeFrame
    PROVE  Inv'
  <2> USE <1>TakeFrameInv
  <2>1. /\ TypeOK /\ Control /\ op \in {"exec", "brk"} /\ fresh = 0 /\ todo # {}
        /\ UNCHANGED <<spaces, tab, pte, state, pml4, brk, stack_low>>
        /\ UNCHANGED <<op, caller, dst, todo, arg, halted, exhausted, saturated, lost>>
    BY Zenon DEF Inv, TakeFrame, Filling, spaceVars, procVars, histVars
  <2>2. PICK f \in Frames :
          /\ Taken(f) /\ ref' = [ref EXCEPT ![f] = 1]
          /\ data' = [data EXCEPT ![f] = Zero] /\ fresh' = f
    BY Zenon DEF TakeFrame
  <2>3. f \notin used /\ used' = used \cup {f}
    BY <2>1, <2>2, TakenFree, Zenon DEF Taken
  <2>4. TypeOK'
    <3>1. used' \subseteq Frames
      BY <2>1, <2>3, Zenon DEF TypeOK
    <3>2. ref' \in [Frames -> 0..MaxRef]
      <4>1. 1 \in 0..MaxRef
        BY DEF Constants
      <4> QED
        BY <2>1, <2>2, <4>1, Zenon DEF TypeOK
    <3>3. data' \in [Frames -> Values]
      BY <2>1, <2>2, Zenon DEF TypeOK, Constants
    <3>4. fresh' \in Frames \cup {0}
      BY <2>2, Zenon
    <3> QED
      BY <2>1, <3>1, <3>2, <3>3, <3>4, Zenon DEF TypeOK
  <2>5. Control'
    BY <2>1, Zenon DEF Control
  <2>6. ASSUME Sound
        PROVE  Sound'
    <3>1. Outside' /\ \A g \in Frames : FrameOK(g)'
      BY <2>1, <2>2, <2>3, <2>6, <1>TakenFresh, Zenon DEF Sound
    <3>2. Owners'
      BY <2>1, <2>6, Zenon DEF Sound, Owners
    <3> QED
      BY <3>1, <3>2, Zenon DEF Sound
  <2> QED
    BY <2>1, <2>4, <2>5, <2>6, Zenon DEF Inv
<1>NoFrameInv.
    ASSUME Constants, Inv, NoFrame
    PROVE  Inv'
  <2> USE <1>NoFrameInv
  <2>1. /\ TypeOK /\ Control /\ fresh = 0 /\ End /\ exhausted' = TRUE
        /\ UNCHANGED <<used, ref, data, spaces, tab, pte, state, pml4, brk, stack_low>>
        /\ UNCHANGED <<halted, saturated, lost>>
    BY Zenon DEF Inv, NoFrame, frameVars, spaceVars, procVars
  <2>2. TypeOK'
    <3>1. {exhausted', saturated'} \subseteq BOOLEAN
      BY <2>1, Zenon DEF TypeOK
    <3> QED
      BY <2>1, <3>1, <1>EndTypes, Zenon DEF TypeOK
  <2>3. Control'
    BY <2>1, <1>EndControl, Zenon
  <2>4. fresh' = fresh
    BY <2>1, Zenon DEF End
  <2>5. ASSUME Sound
        PROVE  Sound'
    BY <2>1, <2>4, <2>5, <1>RefsSame, <1>EndOwners, Zenon DEF Sound
  <2> QED
    BY <2>1, <2>2, <2>3, <2>5, Zenon DEF Inv
(* A page is done: the operation goes to the next one or ends. *)
<1>AdvanceKeeps.
    ASSUME Constants, TypeOK, Control, Filling, fresh # 0, UNCHANGED <<state, pml4>>,
           Advance \/ (End /\ UNCHANGED stack_low)
    PROVE  /\ op' \in {"none", "fork", "exec", "brk", "stack"}
           /\ caller' \in Procs /\ dst' \in Frames \cup {0} /\ todo' \subseteq Pages
           /\ fresh' = 0
           /\ arg' \in IF op' = "fork" THEN Procs ELSE Nat
           /\ stack_low' \in [Procs -> Pages]
           /\ Control'
           /\ Owners /\ spaces' = spaces => Owners'
  <2> USE <1>AdvanceKeeps
  <2>1. Next_va \in Pages /\ op \in {"exec", "brk", "stack"} /\ fresh \in Frames
        /\ caller \in Procs
    BY NextVa, Zenon DEF Control, Filling, TypeOK
  <2>2. CASE op = "stack" /\ Advance
    <3>1. End /\ stack_low' = [stack_low EXCEPT ![caller] = Next_va]
      BY <2>2, Zenon DEF Advance
    <3>2. stack_low' \in [Procs -> Pages]
      BY <2>1, <3>1, Zenon DEF TypeOK
    <3> QED
      BY <3>1, <3>2, <1>EndTypes, <1>EndControl, <1>EndOwners, Zenon DEF End
  <2>3. CASE op # "stack" /\ Advance
    <3>1. /\ todo' = todo \ {Next_va} /\ fresh' = 0
          /\ UNCHANGED <<op, caller, dst, arg, stack_low>>
      BY <2>3, Zenon DEF Advance
    <3>2. Control'
      BY <2>1, <3>1, Zenon DEF Control
    <3>3. Owners /\ spaces' = spaces => Owners'
      BY <2>1, <3>1, Zenon DEF Owners
    <3> QED
      BY <2>1, <3>1, <3>2, <3>3, Zenon DEF TypeOK
  <2>4. CASE End /\ UNCHANGED stack_low
    <3>1. stack_low' \in [Procs -> Pages]
      BY <2>4, Zenon DEF TypeOK
    <3> QED
      BY <2>4, <3>1, <1>EndTypes, <1>EndControl, <1>EndOwners, Zenon DEF End
  <2> QED
    BY <2>2, <2>3, <2>4, Zenon
<1>MapPageInv.
    ASSUME Constants, Inv, MapPage
    PROVE  Inv'
  <2> USE <1>MapPageInv
  <2>1. /\ TypeOK /\ Control /\ Filling /\ fresh # 0 /\ Advance
        /\ UNCHANGED <<used, ref, data, spaces, tab, state, pml4, brk>>
        /\ UNCHANGED <<halted, exhausted, saturated>>
    BY Zenon DEF Inv, MapPage, frameVars
  <2>2. Next_va \in Pages /\ dst \in Frames /\ fresh \in Frames
    BY <2>1, NextVa, Zenon DEF Control, Filling, TypeOK
  <2>3. PICK va \in Pages, d \in Frames : va = Next_va /\ d = dst
    BY <2>2, Zenon
  <2>4. /\ pte' = [pte EXCEPT ![d][va] = Writable(fresh)]
        /\ lost' = IF pte[d][va].fr = 0 THEN lost
                   ELSE [lost EXCEPT ![pte[d][va].fr] = @ + 1]
    BY <2>3, Zenon DEF MapPage
  <2>5. pte[d][va] \in Ptes /\ pte[d][va].fr \in Frames \cup {0}
    BY <2>1 DEF TypeOK, Ptes
  <2>6. \A g \in Frames : lost'[g] = IF g = pte[d][va].fr THEN lost[g] + 1 ELSE lost[g]
    <3>1. lost \in [Frames -> Nat] /\ 0 \notin Frames
      BY <2>1, Sizes, Zenon DEF TypeOK
    <3>2. CASE pte[d][va].fr = 0
      BY <2>4, <3>1, <3>2, Zenon
    <3>3. CASE pte[d][va].fr # 0
      BY <2>4, <3>1, <3>3, Zenon
    <3> QED
      BY Zenon, <3>2, <3>3
  <2>7. /\ op' \in {"none", "fork", "exec", "brk", "stack"}
        /\ caller' \in Procs /\ dst' \in Frames \cup {0} /\ todo' \subseteq Pages
        /\ fresh' = 0
        /\ arg' \in IF op' = "fork" THEN Procs ELSE Nat
        /\ stack_low' \in [Procs -> Pages]
        /\ Control'
        /\ Owners /\ spaces' = spaces => Owners'
    BY <2>1, <1>AdvanceKeeps, Zenon
  <2>8. TypeOK'
    <3>1. pte' \in [Frames -> [Pages -> Ptes]]
      <4>1. Writable(fresh) \in Ptes
        BY <2>2, Zenon DEF Writable, Ptes
      <4> QED
        BY <2>1, <2>4, <4>1, Zenon DEF TypeOK
    <3>2. lost' \in [Frames -> Nat]
      <4>1. lost \in [Frames -> Nat]
        BY <2>1, Zenon DEF TypeOK
      <4>2. \A g \in Frames : lost'[g] \in Nat
        BY <2>6, <4>1
      <4>3. lost' = [g \in Frames |-> lost'[g]]
        BY Zenon, <2>4, <4>1
      <4> QED
        BY <4>2, <4>3, Zenon
    <3> QED
      BY <2>1, <2>7, <3>1, <3>2, ZenonT(30) DEF TypeOK
  <2>9. ASSUME Sound
        PROVE  Sound'
    <3>1. d \in spaces
      BY <2>1, <2>3, <2>9, Zenon DEF Sound, Owners, Filling
    <3>2. \A t \in Frames, vb \in Pages :
            pte'[t][vb] = IF t = d /\ vb = va THEN Writable(fresh) ELSE pte[t][vb]
      BY <2>1, <2>4, Zenon DEF TypeOK
    <3>3. Outside' /\ \A g \in Frames : FrameOK(g)'
      BY <2>1, <2>2, <2>6, <2>7, <2>9, <3>1, <3>2, <1>MapRefs, Zenon DEF Sound
    <3> QED
      BY <2>1, <2>7, <2>9, <3>3, Zenon DEF Sound
  <2> QED
    BY <2>1, <2>7, <2>8, <2>9, Zenon DEF Inv
<1>MapFailsInv.
    ASSUME Constants, Inv, MapFails
    PROVE  Inv'
  <2> USE <1>MapFailsInv
  <2>1. /\ TypeOK /\ Control /\ Filling /\ fresh # 0
        /\ Advance \/ (End /\ UNCHANGED stack_low)
        /\ lost' = [lost EXCEPT ![fresh] = @ + 1] /\ exhausted' = TRUE
        /\ UNCHANGED <<used, ref, data, spaces, tab, pte, state, pml4, brk>>
        /\ UNCHANGED <<halted, saturated>>
    BY Zenon DEF Inv, MapFails, frameVars, spaceVars
  <2>2. fresh \in Frames
    BY <2>1, Zenon DEF TypeOK
  <2>3. /\ op' \in {"none", "fork", "exec", "brk", "stack"}
        /\ caller' \in Procs /\ dst' \in Frames \cup {0} /\ todo' \subseteq Pages
        /\ fresh' = 0
        /\ arg' \in IF op' = "fork" THEN Procs ELSE Nat
        /\ stack_low' \in [Procs -> Pages]
        /\ Control'
        /\ Owners /\ spaces' = spaces => Owners'
    BY <2>1, <1>AdvanceKeeps, Zenon
  <2>4. \A g \in Frames : lost'[g] = IF g = fresh THEN lost[g] + 1 ELSE lost[g]
    BY <2>1, <2>2, Zenon DEF TypeOK
  <2>5. TypeOK'
    <3>1. lost' \in [Frames -> Nat]
      BY <2>1, <2>2 DEF TypeOK
    <3>2. {exhausted', saturated'} \subseteq BOOLEAN
      BY <2>1, Zenon DEF TypeOK
    <3> QED
      BY <2>1, <2>3, <3>1, <3>2, ZenonT(30) DEF TypeOK
  <2>6. ASSUME Sound
        PROVE  Sound'
    <3>1. Outside' /\ \A g \in Frames : FrameOK(g)'
      BY <2>1, <2>2, <2>3, <2>4, <2>6, <1>LoseRefs, Zenon DEF Sound
    <3> QED
      BY <2>1, <2>3, <2>6, <3>1, Zenon DEF Sound
  <2> QED
    BY <2>1, <2>3, <2>5, <2>6, Zenon DEF Inv
<1>NewSpaceTypes.
    ASSUME Constants, TypeOK, NEW s \in Frames, NewSpace(s)
    PROVE  /\ used' \subseteq Frames /\ ref' \in [Frames -> 0..MaxRef]
           /\ data' \in [Frames -> Values] /\ spaces' \subseteq Frames
           /\ tab' \in [Frames -> [Tables -> Frames \cup {0}]]
           /\ pte' \in [Frames -> [Pages -> Ptes]]
  <2> USE <1>NewSpaceTypes
  <2>1. 1 \in 0..MaxRef
    BY DEF Constants
  <2>2. used' \subseteq Frames /\ spaces' \subseteq Frames
    BY Zenon DEF NewSpace, Taken, TypeOK
  <2>3. ref' \in [Frames -> 0..MaxRef]
    BY <2>1, Zenon DEF NewSpace, TypeOK
  <2>4. NoPages \in [Pages -> Ptes] /\ NoTables \in [Tables -> Frames \cup {0}]
    BY Zenon DEF NoPages, NoTables, NoPage, Ptes
  <2> QED
    BY <2>2, <2>3, <2>4, ZenonT(30) DEF NewSpace, TypeOK
<1>FreeTypes.
    ASSUME Constants, TypeOK, NEW s \in Frames, FreeUserSpace(s)
    PROVE  /\ used' \subseteq Frames /\ ref' \in [Frames -> 0..MaxRef]
           /\ data' \in [Frames -> Values] /\ spaces' \subseteq Frames
           /\ tab' \in [Frames -> [Tables -> Frames \cup {0}]]
           /\ pte' \in [Frames -> [Pages -> Ptes]]
  <2> USE <1>FreeTypes
  <2>1. used' \subseteq Frames /\ spaces' \subseteq Frames
    BY Zenon DEF FreeUserSpace, Released, TypeOK
  <2>2. ref' \in [Frames -> 0..MaxRef]
    <3>1. ref \in [Frames -> 0..MaxRef] /\ MaxRef \in Nat
      BY Zenon DEF TypeOK, Constants
    <3>2. PICK S : ref' = [f \in Frames |-> IF f \in S /\ f \in used
                                            THEN IF ref[f] > 1 THEN ref[f] - 1 ELSE 0
                                            ELSE ref[f]]
      BY Zenon DEF FreeUserSpace, Released
    <3> QED
      BY <3>1, <3>2
  <2>3. NoPages \in [Pages -> Ptes] /\ NoTables \in [Tables -> Frames \cup {0}]
    BY Zenon DEF NoPages, NoTables, NoPage, Ptes
  <2> QED
    BY <2>1, <2>2, <2>3, Zenon DEF FreeUserSpace, TypeOK
<1>ForkStartInv.
    ASSUME Constants, Inv, NEW p \in Procs, NEW c \in Procs, ForkStart(p, c)
    PROVE  Inv'
  <2> USE <1>ForkStartInv
  <2>1. /\ TypeOK /\ Control /\ op = "none" /\ state[p] = "live" /\ state[c] = "none"
        /\ UNCHANGED <<state, pml4, brk, stack_low>>
        /\ UNCHANGED <<halted, exhausted, saturated, lost>>
    BY Zenon DEF Inv, ForkStart, Idle, Live, procVars, histVars
  <2>2. PICK s \in Frames : NewSpace(s) /\ Begin("fork", p, s, Mapped(pml4[p]), 0, c)
    BY Zenon DEF ForkStart
  <2>3. /\ op' = "fork" /\ caller' = p /\ dst' = s /\ todo' = Mapped(pml4[p])
        /\ fresh' = 0 /\ arg' = c /\ fresh = 0 /\ 0 \notin Frames
    BY <2>1, <2>2, Sizes, Zenon DEF Begin, Control
  <2>4. TypeOK'
    <3>1. todo' \subseteq Pages
      BY <2>3, Zenon DEF Mapped
    <3> QED
      BY <2>1, <2>2, <2>3, <3>1, <1>NewSpaceTypes, ZenonT(30) DEF TypeOK
  <2>5. Control'
    BY <2>1, <2>3, Zenon DEF Control
  <2>6. ASSUME Sound
        PROVE  Sound'
    <3>1. /\ s \notin spaces /\ Outside' /\ \A g \in Frames : FrameOK(g)'
          /\ \A t \in Frames : t # s => pte'[t] = pte[t]
          /\ \A va \in Pages : pte'[s][va] = NoPage
      BY <2>1, <2>2, <2>3, <2>6, NewSpaceRefs, Zenon DEF Sound
    <3>2. spaces' = spaces \cup {s}
      BY <2>2, Zenon DEF NewSpace
    <3>3. \A q \in Procs : pml4[q] # s
      BY <2>3, <2>6, <3>1, Zenon DEF Sound, Owners
    <3>4. pml4[p] \in Frames
      BY <2>1, ZenonT(30) DEF TypeOK, Control
    <3>5. \A va \in todo' : pte'[pml4[p]][va].fr # 0 /\ pte'[s][va].fr = 0
      BY <2>3, <3>1, <3>3, <3>4 DEF Mapped, NoPage
    <3>6. Owners'
      <4>1. \A q \in Procs : pml4'[q] # 0 => pml4'[q] \in spaces'
        BY <2>1, <2>6, <3>2, Zenon DEF Sound, Owners
      <4>2. \A q, r \in Procs : pml4'[q] = pml4'[r] /\ pml4'[q] # 0 => q = r
        BY <2>1, <2>6, Zenon DEF Sound, Owners
      <4> QED
        BY <2>1, <2>3, <3>2, <3>3, <3>5, <4>1, <4>2, Zenon DEF Owners
    <3> QED
      BY <3>1, <3>6, Zenon DEF Sound
  <2> QED
    BY <2>1, <2>4, <2>5, <2>6, Zenon DEF Inv
<1>ExecStartInv.
    ASSUME Constants, Inv, NEW p \in Procs, NEW n \in Images, ExecStart(p, n)
    PROVE  Inv'
  <2> USE <1>ExecStartInv
  <2>1. /\ TypeOK /\ Control /\ op = "none" /\ state[p] = "live"
        /\ UNCHANGED <<state, pml4, brk, stack_low>>
        /\ UNCHANGED <<halted, exhausted, saturated, lost>>
    BY Zenon DEF Inv, ExecStart, Idle, Live, procVars, histVars
  <2>2. PICK s \in Frames : NewSpace(s) /\ Begin("exec", p, s, ImagePages(n), 0, n)
    BY Zenon DEF ExecStart
  <2>3. /\ op' = "exec" /\ caller' = p /\ dst' = s /\ todo' = ImagePages(n)
        /\ fresh' = 0 /\ arg' = n /\ fresh = 0 /\ 0 \notin Frames
    BY <2>1, <2>2, Sizes, Zenon DEF Begin, Control
  <2>4. TypeOK'
    <3>1. n \in Nat /\ ImagePages(n) \subseteq Pages
      BY DEF ImagePages, Pages, Constants
    <3> QED
      BY <2>1, <2>2, <2>3, <3>1, <1>NewSpaceTypes, ZenonT(30) DEF TypeOK
  <2>5. Control'
    BY <2>1, <2>3, Zenon DEF Control
  <2>6. ASSUME Sound
        PROVE  Sound'
    <3>1. /\ s \notin spaces /\ Outside' /\ \A g \in Frames : FrameOK(g)'
      BY <2>1, <2>2, <2>3, <2>6, NewSpaceRefs, Zenon DEF Sound
    <3>2. spaces' = spaces \cup {s}
      BY <2>2, Zenon DEF NewSpace
    <3>3. \A q \in Procs : pml4[q] # s
      BY <2>3, <2>6, <3>1, Zenon DEF Sound, Owners
    <3>4. Owners'
      <4>1. \A q \in Procs : pml4'[q] # 0 => pml4'[q] \in spaces'
        BY <2>1, <2>6, <3>2, Zenon DEF Sound, Owners
      <4>2. \A q, r \in Procs : pml4'[q] = pml4'[r] /\ pml4'[q] # 0 => q = r
        BY <2>1, <2>6, Zenon DEF Sound, Owners
      <4> QED
        BY <2>1, <2>3, <3>2, <3>3, <4>1, <4>2, Zenon DEF Owners
    <3> QED
      BY <3>1, <3>4, Zenon DEF Sound
  <2> QED
    BY <2>1, <2>4, <2>5, <2>6, Zenon DEF Inv
<1>ForkEndInv.
    ASSUME Constants, Inv, ForkEnd
    PROVE  Inv'
  <2> USE <1>ForkEndInv
  <2>1. /\ TypeOK /\ Control /\ op = "fork" /\ todo = {} /\ End
        /\ UNCHANGED <<used, ref, data, spaces, tab, pte, halted, saturated, lost>>
    BY Zenon DEF Inv, ForkEnd, frameVars, spaceVars
  <2>2. /\ arg \in Procs /\ caller \in Procs /\ dst \in Frames /\ state[arg] = "none"
        /\ fresh = 0 /\ fresh' = 0 /\ op' = "none" /\ 0 \notin Frames
    BY <2>1, Sizes, Zenon DEF TypeOK, Control, End
  <2>3. CASE exhausted' = TRUE /\ UNCHANGED procVars
    <3>0. UNCHANGED <<state, pml4, brk, stack_low>>
      BY <2>3, Zenon DEF procVars
    <3>1. {exhausted', saturated'} \subseteq BOOLEAN
      BY <2>1, <2>3, Zenon DEF TypeOK
    <3>2. TypeOK'
      BY <2>1, <3>0, <3>1, <1>EndTypes, Zenon DEF TypeOK
    <3>3. Control'
      BY <2>1, <3>0, <1>EndControl, Zenon
    <3>4. Sound => Sound'
      BY <2>1, <2>2, <3>0, <1>RefsSame, <1>EndOwners, Zenon DEF Sound
    <3> QED
      BY <2>1, <3>2, <3>3, <3>4, Zenon DEF Inv
  <2>4. CASE /\ state' = [state EXCEPT ![arg] = "live"]
             /\ pml4' = [pml4 EXCEPT ![arg] = dst]
             /\ brk' = [brk EXCEPT ![arg] = brk[caller]]
             /\ stack_low' = [stack_low EXCEPT ![arg] = stack_low[caller]]
             /\ UNCHANGED exhausted
    <3>1. /\ state' \in [Procs -> {"none", "live", "zombie"}]
          /\ pml4' \in [Procs -> Frames \cup {0}]
          /\ brk' \in [Procs -> Nat] /\ stack_low' \in [Procs -> Pages]
      BY <2>1, <2>2, <2>4, Zenon DEF TypeOK
    <3>2. TypeOK'
      BY <2>1, <2>4, <3>1, <1>EndTypes, Zenon DEF TypeOK
    <3>3. /\ \A p \in Procs : pml4'[p] = IF p = arg THEN dst ELSE pml4[p]
          /\ \A p \in Procs : state'[p] = IF p = arg THEN "live" ELSE state[p]
      BY <2>1, <2>2, <2>4, ZenonT(30) DEF TypeOK
    <3>4. Control'
      BY <2>1, <2>2, <3>3, Zenon DEF Control, End
    <3>5. ASSUME Sound
          PROVE  Sound'
      <4>1. Outside' /\ \A g \in Frames : FrameOK(g)'
        BY <2>1, <2>2, <3>5, <1>RefsSame, Zenon DEF Sound
      <4>2. dst \in spaces /\ \A p \in Procs : pml4[p] # dst
        BY <2>1, <3>5, Zenon DEF Sound, Owners
      <4>3. \A p \in Procs : pml4'[p] # 0 => pml4'[p] \in spaces'
        BY <2>1, <3>3, <3>5, <4>2, ZenonT(30) DEF Sound, Owners
      <4>4. \A p, q \in Procs : pml4'[p] = pml4'[q] /\ pml4'[p] # 0 => p = q
        BY <3>3, <3>5, <4>2 DEF Sound, Owners
      <4>5. Owners'
        BY <2>2, <4>3, <4>4, Zenon DEF Owners
      <4> QED
        BY <4>1, <4>5, Zenon DEF Sound
    <3> QED
      BY <2>1, <3>2, <3>4, <3>5, Zenon DEF Inv
  <2> QED
    BY <2>3, <2>4, Zenon DEF ForkEnd
<1>ExecEndInv.
    ASSUME Constants, Inv, ExecEnd
    PROVE  Inv'
  <2> USE <1>ExecEndInv
  <2>1. /\ TypeOK /\ Control /\ op = "exec" /\ todo = {} /\ End
        /\ pml4' = [pml4 EXCEPT ![caller] = dst]
        /\ stack_low' = [stack_low EXCEPT ![caller] = USTACK_BASE]
        /\ brk' = [brk EXCEPT ![caller] = arg * PageUnits]
        /\ state' = [state EXCEPT ![caller] = "live"]
        /\ UNCHANGED <<halted, exhausted, saturated, lost>>
    BY Zenon DEF Inv, ExecEnd, histVars
  <2>2. /\ caller \in Procs /\ dst \in Frames /\ fresh = 0 /\ fresh' = 0
        /\ op' = "none" /\ 0 \notin Frames /\ USTACK_BASE \in Pages
    BY <2>1, Sizes, Zenon DEF TypeOK, Control, End
  <2>3. \/ pml4[caller] = 0 /\ UNCHANGED <<used, ref, data, spaces, tab, pte>>
        \/ pml4[caller] \in Frames /\ FreeUserSpace(pml4[caller])
    BY <2>1, <2>2, Zenon DEF ExecEnd, frameVars, spaceVars, TypeOK
  <2>4. TypeOK'
    <3>1. /\ used' \subseteq Frames /\ ref' \in [Frames -> 0..MaxRef]
          /\ data' \in [Frames -> Values] /\ spaces' \subseteq Frames
          /\ tab' \in [Frames -> [Tables -> Frames \cup {0}]]
          /\ pte' \in [Frames -> [Pages -> Ptes]]
      <4>1. CASE UNCHANGED <<used, ref, data, spaces, tab, pte>>
        BY <2>1, <4>1, Zenon DEF TypeOK
      <4>2. CASE pml4[caller] \in Frames /\ FreeUserSpace(pml4[caller])
        BY <2>1, <4>2, <1>FreeTypes, ZenonT(30)
      <4> QED
        BY <2>3, <4>1, <4>2, Zenon
    <3>2. arg * PageUnits \in Nat
      BY <2>1 DEF TypeOK, Constants
    <3>3. /\ state' \in [Procs -> {"none", "live", "zombie"}]
          /\ pml4' \in [Procs -> Frames \cup {0}]
          /\ stack_low' \in [Procs -> Pages]
      BY <2>1, <2>2, Zenon DEF TypeOK
    <3>4. brk' \in [Procs -> Nat]
      BY <2>1, <2>2, <3>2, Zenon DEF TypeOK
    <3> QED
      BY <2>1, <3>1, <3>3, <3>4, <1>EndTypes, ZenonT(30) DEF TypeOK
  <2>5. /\ \A p \in Procs : pml4'[p] = IF p = caller THEN dst ELSE pml4[p]
        /\ \A p \in Procs : state'[p] = IF p = caller THEN "live" ELSE state[p]
    BY <2>1, <2>2, ZenonT(30) DEF TypeOK
  <2>6. Control'
    BY <2>1, <2>2, <2>5 DEF Control, End
  <2>7. ASSUME Sound
        PROVE  Sound'
    <3>1. /\ dst \in spaces /\ \A p \in Procs : pml4[p] # dst
          /\ pml4[caller] # 0 => pml4[caller] \in spaces
      BY <2>1, <2>2, <2>7, Zenon DEF Sound, Owners
    <3>2. Outside' /\ \A g \in Frames : FrameOK(g)'
      <4>1. CASE UNCHANGED <<used, ref, data, spaces, tab, pte>>
        BY <2>1, <2>2, <2>7, <4>1, <1>RefsSame, Zenon DEF Sound
      <4>2. CASE pml4[caller] \in Frames /\ FreeUserSpace(pml4[caller])
        <5>1. PICK s \in spaces : s = pml4[caller]
          BY <2>2, <3>1, <4>2, Zenon
        <5>2. FreeUserSpace(s)
          BY <4>2, <5>1, Zenon
        <5> QED
          BY <2>1, <2>2, <2>7, <5>2, <1>FreeRefs, Zenon DEF Sound
      <4> QED
        BY <2>3, <4>1, <4>2, Zenon
    <3>3. \A s \in spaces : s # pml4[caller] => s \in spaces'
      BY <2>3, Zenon DEF FreeUserSpace
    <3>4. \A p \in Procs : pml4'[p] # 0 => pml4'[p] \in spaces'
      <4> SUFFICES ASSUME NEW p \in Procs, pml4'[p] # 0
                   PROVE  pml4'[p] \in spaces'
        BY Zenon
      <4>1. CASE p = caller
        BY Zenon, <2>2, <2>5, <3>1, <3>3, <4>1
      <4>2. CASE p # caller
        <5>1. pml4'[p] = pml4[p] /\ pml4[p] \in spaces /\ pml4[p] # pml4[caller]
          BY <2>2, <2>5, <2>7, <4>2, ZenonT(30) DEF Sound, Owners
        <5> QED
          BY <3>3, <5>1, Zenon
      <4> QED
        BY <4>1, <4>2, Zenon
    <3>5. \A p, q \in Procs : pml4'[p] = pml4'[q] /\ pml4'[p] # 0 => p = q
      BY <2>5, <2>7, <3>1 DEF Sound, Owners
    <3>6. Owners'
      BY <2>2, <3>4, <3>5, Zenon DEF Owners
    <3> QED
      BY <3>2, <3>6, Zenon DEF Sound
  <2> QED
    BY <2>1, <2>4, <2>6, <2>7, Zenon DEF Inv
<1>BrkStartInv.
    ASSUME Constants, Inv, NEW p \in Procs, NEW b \in Breaks, BrkStart(p, b)
    PROVE  Inv'
  <2> USE <1>BrkStartInv
  <2>1. /\ TypeOK /\ Control /\ op = "none" /\ state[p] = "live"
        /\ UNCHANGED <<used, ref, data, spaces, tab, pte, state, pml4, brk, stack_low>>
        /\ UNCHANGED <<halted, exhausted, saturated, lost>>
    BY Zenon DEF Inv, BrkStart, Idle, Live, frameVars, spaceVars, procVars, histVars
  <2>2. /\ op' = "brk" /\ caller' = p /\ dst' = pml4[p] /\ fresh' = 0 /\ arg' = b
        /\ todo' = PagesUpTo(brk[p])..(PagesUpTo(b) - 1) /\ fresh = 0
        /\ b > brk[p] /\ b < HeapPages * PageUnits
    BY <2>1, Zenon DEF BrkStart, Begin, Control
  <2>3. pml4[p] \in Frames /\ brk[p] \in Nat /\ b \in Nat
    BY <2>1, ZenonT(30) DEF TypeOK, Control, Constants
  <2>4. todo' \subseteq Pages
    <3>1. HeapPages \in Nat /\ PageUnits \in Nat \ {0} /\ HeapPages <= USTACK_BASE
          /\ USTACK_BASE \in Nat
      BY DEF Constants
    <3>2. brk[p] < HeapPages * PageUnits
      BY <2>2, <2>3, <3>1
    <3>3. PagesUpTo(b) \in Nat /\ PagesUpTo(b) <= HeapPages /\ PagesUpTo(brk[p]) \in Nat
      BY <2>2, <2>3, <3>1, <3>2, BreakPages, Zenon DEF PagesUpTo
    <3> QED
      BY <2>2, <3>1, <3>3 DEF Pages
  <2>5. TypeOK'
    BY <2>1, <2>2, <2>3, <2>4, Zenon DEF TypeOK
  <2>6. Control'
    BY <2>1, <2>2, <2>3, Sizes, Zenon DEF Control
  <2>7. ASSUME Sound
        PROVE  Sound'
    <3>1. Outside' /\ \A g \in Frames : FrameOK(g)'
      BY <2>1, <2>2, <2>7, <1>RefsSame, Zenon DEF Sound
    <3>2. Owners'
      BY <2>1, <2>2, <2>3, <2>7, Sizes, Zenon DEF Sound, Owners
    <3> QED
      BY <3>1, <3>2, Zenon DEF Sound
  <2> QED
    BY <2>1, <2>5, <2>6, <2>7, Zenon DEF Inv
<1>BrkEndInv.
    ASSUME Constants, Inv, BrkEnd
    PROVE  Inv'
  <2> USE <1>BrkEndInv
  <2>1. /\ TypeOK /\ Control /\ op = "brk" /\ todo = {} /\ End
        /\ brk' = [brk EXCEPT ![caller] = arg]
        /\ UNCHANGED <<used, ref, data, spaces, tab, pte, state, pml4, stack_low>>
        /\ UNCHANGED <<halted, exhausted, saturated, lost>>
    BY Zenon DEF Inv, BrkEnd, frameVars, spaceVars, histVars
  <2>2. fresh = 0 /\ fresh' = 0
    BY <2>1, Zenon DEF Control, End
  <2>3. TypeOK'
    <3>1. brk' \in [Procs -> Nat]
      BY <2>1, Zenon DEF TypeOK
    <3> QED
      BY <2>1, <3>1, <1>EndTypes, Zenon DEF TypeOK
  <2>4. Control'
    BY <2>1, <1>EndControl, Zenon
  <2>5. Sound => Sound'
    BY <2>1, <2>2, <1>RefsSame, <1>EndOwners, Zenon DEF Sound
  <2> QED
    BY <2>1, <2>3, <2>4, <2>5, Zenon DEF Inv
<1>ExitInv.
    ASSUME Constants, Inv, NEW p \in Procs, Exit(p)
    PROVE  Inv'
  <2> USE <1>ExitInv
  <2>1. /\ TypeOK /\ Control /\ op = "none" /\ state[p] = "live"
        /\ state' = [state EXCEPT ![p] = "zombie"]
        /\ UNCHANGED <<used, ref, data, spaces, tab, pte, pml4, brk, stack_low>>
        /\ UNCHANGED <<op, caller, dst, todo, fresh, arg>>
        /\ UNCHANGED <<halted, exhausted, saturated, lost>>
    BY Zenon DEF Inv, Exit, Idle, Live, frameVars, spaceVars, opVars, histVars
  <2>2. TypeOK'
    <3>1. state' \in [Procs -> {"none", "live", "zombie"}]
      BY <2>1, Zenon DEF TypeOK
    <3> QED
      BY <2>1, <3>1, Zenon DEF TypeOK
  <2>3. Control'
    BY <2>1, Zenon DEF Control, TypeOK
  <2>4. Sound => Sound'
    <3>1. Owners => Owners'
      BY <2>1, Zenon DEF Owners
    <3> QED
      BY <2>1, <3>1, <1>RefsSame, Zenon DEF Sound
  <2> QED
    BY <2>1, <2>2, <2>3, <2>4, Zenon DEF Inv
<1>ReapInv.
    ASSUME Constants, Inv, NEW p \in Procs, Reap(p)
    PROVE  Inv'
  <2> USE <1>ReapInv
  <2>1. /\ TypeOK /\ Control /\ op = "none" /\ state[p] = "zombie"
        /\ FreeUserSpace(pml4[p])
        /\ state' = [state EXCEPT ![p] = "none"] /\ pml4' = [pml4 EXCEPT ![p] = 0]
        /\ brk' = [brk EXCEPT ![p] = 0] /\ stack_low' = [stack_low EXCEPT ![p] = 0]
        /\ UNCHANGED <<op, caller, dst, todo, fresh, arg>>
        /\ UNCHANGED <<halted, exhausted, saturated, lost>>
    BY Zenon DEF Inv, Reap, Idle, opVars, histVars
  <2>2. PICK s \in Frames : s = pml4[p]
    BY <2>1, Zenon DEF TypeOK, Control
  <2>3. FreeUserSpace(s)
    BY <2>1, <2>2, Zenon
  <2>4. TypeOK'
    <3>1. /\ state' \in [Procs -> {"none", "live", "zombie"}]
          /\ pml4' \in [Procs -> Frames \cup {0}]
          /\ brk' \in [Procs -> Nat]
      BY <2>1, Zenon DEF TypeOK
    <3>2. stack_low' \in [Procs -> Pages]
      BY <2>1, Sizes, Zenon DEF TypeOK
    <3> QED
      BY <2>1, <2>3, <3>1, <3>2, <1>FreeTypes, ZenonT(30) DEF TypeOK
  <2>5. /\ \A q \in Procs : pml4'[q] = IF q = p THEN 0 ELSE pml4[q]
        /\ \A q \in Procs : state'[q] = IF q = p THEN "none" ELSE state[q]
    BY <2>1, Zenon DEF TypeOK
  <2>6. Control'
    BY <2>1, <2>5 DEF Control
  <2>7. ASSUME Sound
        PROVE  Sound'
    <3>1. s \in spaces
      BY <2>2, <2>7, Sizes, Zenon DEF Sound, Owners
    <3>2. Outside' /\ \A g \in Frames : FrameOK(g)'
      BY <2>1, <2>3, <2>7, <3>1, <1>FreeRefs, Zenon DEF Sound
    <3>3. spaces' = spaces \ {s}
      BY <2>3, Zenon DEF FreeUserSpace
    <3>4. \A q \in Procs : pml4'[q] # 0 => pml4'[q] \in spaces'
      <4> SUFFICES ASSUME NEW q \in Procs, pml4'[q] # 0
                   PROVE  pml4'[q] \in spaces'
        BY Zenon
      <4>1. q # p /\ pml4'[q] = pml4[q]
        BY Zenon, <2>5
      <4>2. pml4[q] \in spaces /\ pml4[q] # s
        BY <2>2, <2>7, <4>1, ZenonT(30) DEF Sound, Owners
      <4> QED
        BY <3>3, <4>1, <4>2, Zenon
    <3>5. \A q, r \in Procs : pml4'[q] = pml4'[r] /\ pml4'[q] # 0 => q = r
      BY <2>5, <2>7 DEF Sound, Owners
    <3>6. Owners'
      BY <2>1, <3>4, <3>5, Zenon DEF Owners
    <3> QED
      BY <3>2, <3>6, Zenon DEF Sound
  <2> QED
    BY <2>1, <2>4, <2>6, <2>7, Zenon DEF Inv
<1>StoreInv.
    ASSUME Constants, Inv, NEW p \in Procs, NEW va \in Pages, NEW v \in Values,
           Store(p, va, v)
    PROVE  Inv'
  <2> USE <1>StoreInv
  <2>1. /\ TypeOK /\ Control
        /\ data' = [data EXCEPT ![Pte(p, va).fr] = v]
        /\ UNCHANGED <<used, ref, spaces, tab, pte, state, pml4, brk, stack_low>>
        /\ UNCHANGED <<op, caller, dst, todo, fresh, arg>>
        /\ UNCHANGED <<halted, exhausted, saturated, lost>>
    BY Zenon DEF Inv, Store, spaceVars, procVars, opVars, histVars
  <2>2. TypeOK'
    <3>1. data' \in [Frames -> Values]
      BY <2>1, Zenon DEF TypeOK
    <3> QED
      BY <2>1, <3>1, Zenon DEF TypeOK
  <2>3. Control'
    BY <2>1, <1>ControlSame, Zenon
  <2>4. Sound => Sound'
    <3>1. Owners => Owners'
      BY <2>1, Zenon DEF Owners
    <3> QED
      BY <2>1, <3>1, <1>RefsSame, Zenon DEF Sound
  <2> QED
    BY <2>1, <2>2, <2>3, <2>4, Zenon DEF Inv
(* Changing the entries leaves the owners of spaces alone. *)
<1>IdleOwners.
    ASSUME Owners, op = "none", op' = op, UNCHANGED <<pml4, spaces>>
    PROVE  Owners'
  BY <1>IdleOwners, Zenon DEF Owners
<1>CowFaultInv.
    ASSUME Constants, Inv, NEW p \in Procs, NEW va \in Pages, CowFault(p, va)
    PROVE  Inv'
  <2> USE <1>CowFaultInv
  <2>1. /\ TypeOK /\ Control /\ op = "none" /\ state[p] = "live"
        /\ pte[pml4[p]][va].fr # 0
        /\ UNCHANGED <<spaces, tab, state, pml4, brk, stack_low>>
        /\ UNCHANGED <<op, caller, dst, todo, fresh, arg>>
        /\ UNCHANGED <<saturated, lost>>
    BY Zenon DEF Inv, CowFault, Idle, Live, Pte, procVars, opVars
  <2>2. PICK s \in Frames : s = pml4[p]
    BY <2>1, Zenon DEF TypeOK, Control
  <2>3. PICK old \in Frames : old = pte[s][va].fr
    <3>1. pte[s][va] \in Ptes
      BY <2>1, Zenon DEF TypeOK
    <3> QED
      BY <2>1, <2>2, <3>1, Zenon DEF Ptes
  <2>4. Control'
    BY Zenon, <2>1, <1>ControlSame
  <2>5. Sound => s \in spaces
    BY <2>2, Sizes, Zenon DEF Sound, Owners
  <2>6. Sound => Owners'
    BY <2>1, <1>IdleOwners, Zenon DEF Sound
  <2>7. CASE /\ ref[old] = 1 /\ pte' = [pte EXCEPT ![s][va] = Writable(old)]
             /\ UNCHANGED <<frameVars, halted, exhausted>>
    <3>1. UNCHANGED <<used, ref, data, halted, exhausted>>
      BY <2>7, Zenon DEF frameVars
    <3>2. pte' \in [Frames -> [Pages -> Ptes]]
      BY <2>1, <2>7, Zenon DEF TypeOK, Writable, Ptes
    <3>3. TypeOK'
      BY <2>1, <3>1, <3>2, ZenonT(30) DEF TypeOK
    <3>4. \A t \in Frames, vb \in Pages :
            pte'[t][vb] = IF t = s /\ vb = va THEN Writable(old) ELSE pte[t][vb]
      BY <2>1, <2>7, Zenon DEF TypeOK
    <3>5. Sound => Sound'
      BY <2>1, <2>3, <2>5, <2>6, <2>7, <3>1, <3>4, <1>CowOwnRefs, ZenonT(30) DEF Sound
    <3> QED
      BY <2>1, <2>4, <3>3, <3>5, Zenon DEF Inv
  <2>8. CASE /\ ref[old] # 1
             /\ \E f \in Frames :
                  /\ Free # {} /\ f = Least(Free)
                  /\ data' = [data EXCEPT ![f] = data[old]]
                  /\ used' = (used \cup {f}) \ {g \in {old} : ref[g] <= 1}
                  /\ ref' = [ref EXCEPT ![f] = 1, ![old] = IF @ > 1 THEN @ - 1 ELSE 0]
                  /\ pte' = [pte EXCEPT ![s][va] = Writable(f)]
             /\ UNCHANGED <<halted, exhausted>>
    <3>1. PICK f \in Frames :
            /\ Free # {} /\ f = Least(Free)
            /\ data' = [data EXCEPT ![f] = data[old]]
            /\ used' = (used \cup {f}) \ {g \in {old} : ref[g] <= 1}
            /\ ref' = [ref EXCEPT ![f] = 1, ![old] = IF @ > 1 THEN @ - 1 ELSE 0]
            /\ pte' = [pte EXCEPT ![s][va] = Writable(f)]
      BY Zenon, <2>8
    <3>2. f \notin used
      BY <2>1, <3>1, TakenFree, Zenon
    <3>3. used' \subseteq Frames /\ data' \in [Frames -> Values]
      BY <2>1, <3>1, Zenon DEF TypeOK
    <3>4. ref' \in [Frames -> 0..MaxRef]
      <4>1. ref \in [Frames -> 0..MaxRef] /\ MaxRef \in Nat \ {0}
        BY <2>1, Zenon DEF TypeOK, Constants
      <4>2. 1 \in 0..MaxRef /\ (IF ref[old] > 1 THEN ref[old] - 1 ELSE 0) \in 0..MaxRef
        BY <4>1
      <4>3. [ref EXCEPT ![f] = 1] \in [Frames -> 0..MaxRef]
        BY <4>1, <4>2, Zenon
      <4>4. \A g \in Frames : ref'[g] \in 0..MaxRef
        BY <3>1, <4>1, <4>2, Zenon
      <4> QED
        BY <3>1, <4>1, <4>4, Zenon
    <3>5. pte' \in [Frames -> [Pages -> Ptes]]
      BY <2>1, <3>1, Zenon DEF TypeOK, Writable, Ptes
    <3>6. TypeOK'
      BY <2>1, <2>8, <3>3, <3>4, <3>5, ZenonT(30) DEF TypeOK
    <3>7. \A t \in Frames, vb \in Pages :
            pte'[t][vb] = IF t = s /\ vb = va THEN Writable(f) ELSE pte[t][vb]
      BY <2>1, <3>1, Zenon DEF TypeOK
    <3>8. Sound => Sound'
      <4> SUFFICES ASSUME Sound
                   PROVE  Sound'
        BY Zenon
      <4>1. /\ used' = (used \cup {f}) \ {g \in {old} : ref[g] <= 1}
            /\ ref' = [ref EXCEPT ![f] = 1, ![old] = IF @ > 1 THEN @ - 1 ELSE 0]
            /\ ref[old] # 1
        BY <2>8, <3>1, Zenon
      <4>2. UNCHANGED <<spaces, tab, lost>> /\ fresh' = fresh
        BY Zenon, <2>1
      <4>3. Outside /\ \A g \in Frames : FrameOK(g)
        BY Zenon DEF Sound
      <4>4. Outside' /\ \A g \in Frames : FrameOK(g)'
        BY ZenonT(30), <2>1, <2>3, <2>5, <3>2, <3>7, <4>1, <4>2, <4>3, <1>CowCopyRefs
      <4> QED
        BY <2>6, <4>4, Zenon DEF Sound
    <3> QED
      BY <2>1, <2>4, <3>6, <3>8, Zenon DEF Inv
  <2>9. CASE halted' = "oom" /\ exhausted' = TRUE /\ UNCHANGED <<frameVars, pte>>
    <3>1. UNCHANGED <<used, ref, data, pte>>
      BY <2>9, Zenon DEF frameVars
    <3>2. {exhausted', saturated'} \subseteq BOOLEAN
      BY <2>1, <2>9, Zenon DEF TypeOK
    <3>3. TypeOK'
      BY <2>1, <2>9, <3>1, <3>2, ZenonT(30) DEF TypeOK
    <3>4. Sound => Sound'
      BY <2>1, <2>6, <3>1, <1>RefsSame, Zenon DEF Sound
    <3> QED
      BY <2>1, <2>4, <3>3, <3>4, Zenon DEF Inv
  <2> QED
    BY <2>2, <2>3, <2>7, <2>8, <2>9, ZenonT(30) DEF CowFault, Pte
<1>StackFaultInv.
    ASSUME Constants, Inv, NEW p \in Procs, NEW va \in Pages, StackFault(p, va)
    PROVE  Inv'
  <2> USE <1>StackFaultInv
  <2>1. /\ TypeOK /\ Control /\ op = "none" /\ state[p] = "live"
        /\ UNCHANGED <<spaces, tab, pte, state, pml4, brk, stack_low, saturated, lost>>
    BY Zenon DEF Inv, StackFault, Idle, Live, spaceVars, procVars
  <2>2. pml4[p] \in Frames /\ 0 \notin Frames /\ fresh = 0
    BY <2>1, Sizes, Zenon DEF TypeOK, Control
  <2>3. CASE /\ \E f \in Frames :
                  /\ Taken(f)
                  /\ ref' = [ref EXCEPT ![f] = 1]
                  /\ data' = [data EXCEPT ![f] = Zero]
                  /\ Begin("stack", p, pml4[p], {va}, f, 0)
             /\ UNCHANGED <<halted, exhausted>>
    <3>1. PICK f \in Frames :
            /\ Taken(f) /\ ref' = [ref EXCEPT ![f] = 1]
            /\ data' = [data EXCEPT ![f] = Zero]
            /\ op' = "stack" /\ caller' = p /\ dst' = pml4[p] /\ todo' = {va}
            /\ fresh' = f /\ arg' = 0
      BY <2>3, Zenon DEF Begin
    <3>2. f \notin used /\ used' = used \cup {f}
      BY <2>1, <3>1, TakenFree, Zenon DEF Taken
    <3>3. used' \subseteq Frames /\ data' \in [Frames -> Values]
      BY <2>1, <3>1, <3>2, ZenonT(30) DEF TypeOK, Constants
    <3>4. ref' \in [Frames -> 0..MaxRef]
      <4>1. 1 \in 0..MaxRef
        BY DEF Constants
      <4> QED
        BY <2>1, <3>1, <4>1, ZenonT(30) DEF TypeOK
    <3>5. TypeOK'
      BY <2>1, <2>2, <2>3, <3>1, <3>3, <3>4, ZenonT(30) DEF TypeOK
    <3>6. Control'
      BY <2>1, <2>2, <3>1, Zenon DEF Control
    <3>7. ASSUME Sound
          PROVE  Sound'
      <4>1. Outside' /\ \A g \in Frames : FrameOK(g)'
        BY <2>1, <2>2, <3>1, <3>2, <3>7, <1>TakenFresh, Zenon DEF Sound
      <4>2. Owners'
        BY <2>1, <2>2, <3>1, <3>7, Zenon DEF Sound, Owners
      <4> QED
        BY <4>1, <4>2, Zenon DEF Sound
    <3> QED
      BY <2>1, <3>5, <3>6, <3>7, Zenon DEF Inv
  <2>4. CASE halted' = "oom" /\ exhausted' = TRUE /\ UNCHANGED <<frameVars, opVars>>
    <3>1. UNCHANGED <<used, ref, data, op, caller, dst, todo, fresh, arg>>
      BY <2>4, Zenon DEF frameVars, opVars
    <3>2. {exhausted', saturated'} \subseteq BOOLEAN
      BY <2>1, <2>4, Zenon DEF TypeOK
    <3>3. TypeOK'
      BY <2>1, <2>4, <3>1, <3>2, ZenonT(30) DEF TypeOK
    <3>4. Control'
      BY <2>1, <3>1, <1>ControlSame, Zenon
    <3>5. Sound => Sound'
      BY <2>1, <3>1, <1>RefsSame, <1>IdleOwners, Zenon DEF Sound
    <3> QED
      BY <2>1, <3>3, <3>4, <3>5, Zenon DEF Inv
  <2> QED
    BY <2>3, <2>4, Zenon DEF StackFault
<1>BadFaultInv.
    ASSUME Constants, Inv, NEW p \in Procs, NEW va \in Pages, BadFault(p, va)
    PROVE  Inv'
  <2> USE <1>BadFaultInv
  <2>1. /\ TypeOK /\ Control /\ op = "none"
        /\ halted' \in {"stack", "heap", "fault"}
        /\ UNCHANGED <<used, ref, data, spaces, tab, pte, state, pml4, brk, stack_low>>
        /\ UNCHANGED <<op, caller, dst, todo, fresh, arg>>
        /\ UNCHANGED <<exhausted, saturated, lost>>
    BY Zenon DEF Inv, BadFault, Idle, frameVars, spaceVars, procVars, opVars, histVars
  <2>2. TypeOK'
    BY <2>1, Zenon DEF TypeOK
  <2>3. Control'
    BY <2>1, <1>ControlSame, Zenon
  <2>4. Sound => Sound'
    BY <2>1, <1>RefsSame, <1>IdleOwners, Zenon DEF Sound
  <2> QED
    BY <2>1, <2>2, <2>3, <2>4, Zenon DEF Inv
<1> SUFFICES ASSUME Constants, Inv, [Next]_vars
             PROVE  Inv'
  BY Zenon
<1>1. CASE UNCHANGED vars
  <2>1. /\ UNCHANGED <<used, ref, data, spaces, tab, pte, state, pml4, brk, stack_low>>
        /\ UNCHANGED <<op, caller, dst, todo, fresh, arg>>
        /\ UNCHANGED <<halted, exhausted, saturated, lost>>
    BY <1>1, Zenon DEF vars, frameVars, spaceVars, procVars, opVars, histVars
  <2>2. TypeOK' /\ Control'
    BY <2>1, <1>ControlSame, ZenonT(30) DEF Inv, TypeOK
  <2>3. Owners => Owners'
    BY <2>1, Zenon DEF Owners
  <2>4. Sound => Sound'
    BY <2>1, <2>3, <1>RefsSame, Zenon DEF Sound, Inv
  <2> QED
    BY <2>1, <2>2, <2>4, Zenon DEF Inv
<1>2. CASE AllocTable \/ CowPage \/ CowFails \/ TakeFrame \/ NoFrame
  BY <1>2, <1>AllocTableInv, <1>CowPageInv, <1>CowFailsInv, <1>TakeFrameInv, <1>NoFrameInv, ZenonT(30)
<1>3. CASE MapPage \/ MapFails \/ ForkEnd \/ ExecEnd \/ BrkEnd
  BY <1>3, <1>MapPageInv, <1>MapFailsInv, <1>ForkEndInv, <1>ExecEndInv, <1>BrkEndInv, Zenon
<1>4. ASSUME NEW p \in Procs,
             \/ \E c \in Procs : ForkStart(p, c)
             \/ \E n \in Images : ExecStart(p, n)
             \/ \E b \in Breaks : BrkStart(p, b)
             \/ Exit(p) \/ Reap(p)
      PROVE  Inv'
  BY <1>4, <1>ForkStartInv, <1>ExecStartInv, <1>BrkStartInv, <1>ExitInv, <1>ReapInv, Zenon
<1>5. ASSUME NEW p \in Procs, NEW va \in Pages,
             \/ \E v \in Values : UserStore(p, va, v) \/ KernelStore(p, va, v)
             \/ CowFault(p, va) \/ StackFault(p, va) \/ BadFault(p, va)
      PROVE  Inv'
  BY Zenon, <1>5, <1>StoreInv, <1>CowFaultInv, <1>StackFaultInv, <1>BadFaultInv
     DEF UserStore, KernelStore
<1> QED
  BY <1>1, <1>2, <1>3, <1>4, <1>5, Zenon DEF Next

(* The invariant holds in every reachable state, from early.c's first      *)
(* process on, whatever sequence of system calls, faults and failed        *)
(* allocations follows.                                                    *)
THEOREM Invariance ==
  ASSUME Constants
  PROVE  Spec => []Inv
<1>1. Init => Inv
  BY InitInv, Zenon
<1>2. Inv /\ [Next]_vars => Inv'
  BY NextInv, Zenon
<1> QED
  BY <1>1, <1>2, PTL DEF Spec

(* Every variable stays within its type; in particular a count never       *)
(* leaves the uint8_t of g_refcount and every entry names a frame that     *)
(* pmm.c manages.                                                          *)
THEOREM TypeCorrect ==
  ASSUME Constants
  PROVE  Spec => []TypeOK
<1>1. Inv => TypeOK
  BY Zenon DEF Inv
<1> QED
  BY <1>1, Invariance, PTL

(* pmm_addref and pmm_free_frame are called once for every entry, table    *)
(* and PML4 that vmm.c makes and drops: until a count saturates, the count *)
(* of a frame is the number of its users, and the bitmap marks exactly the *)
(* frames that have one.                                                   *)
THEOREM RefcountsCorrect ==
  ASSUME Constants
  PROVE  Spec => []RefcountsExact
<1>1. Inv => RefcountsExact
  BY Zenon DEF Inv, Sound, FrameOK, Counted, RefcountsExact
<1> QED
  BY <1>1, Invariance, PTL

(* A page that a process may write has no other entry anywhere and is      *)
(* neither a table nor a PML4: vmm_cow_user_space demotes both sides, and  *)
(* vmm_page_fault_handler returns write access only to the last owner or   *)
(* to a fresh copy.                                                        *)
THEOREM PrivacyCorrect ==
  ASSUME Constants
  PROVE  Spec => []WritablePagesPrivate
<1>1. ASSUME Inv
      PROVE  WritablePagesPrivate
  <2> SUFFICES ASSUME ~saturated, NEW s \in spaces, NEW va \in Pages,
                      pte[s][va].fr # 0, pte[s][va].rw
               PROVE  /\ Mappers(pte[s][va].fr) = {<<s, va>>}
                      /\ TableUses(pte[s][va].fr) = {} /\ Holds(pte[s][va].fr) = 0
    BY Zenon DEF WritablePagesPrivate
  <2>1. TypeOK /\ Sound /\ s \in Frames
    BY <1>1, Zenon DEF Inv, TypeOK
  <2>2. PICK f \in Frames : f = pte[s][va].fr
    <3>1. pte[s][va] \in Ptes
      BY <2>1, Zenon DEF TypeOK
    <3> QED
      BY <3>1, Zenon DEF Ptes
  <2>3. OneRole(f) /\ RwAlone(f)
    BY <2>1, Zenon DEF Sound, FrameOK
  <2>4. <<s, va>> \in Mappers(f)
    BY <2>2, Zenon DEF Mappers
  <2>5. Mappers(f) = {<<s, va>>}
    BY <2>3, <2>4, Zenon DEF RwAlone
  <2>6. TableUses(f) = {} /\ Holds(f) = 0
    BY <2>3, <2>4 DEF OneRole, Holds
  <2> QED
    BY <2>2, <2>5, <2>6, Zenon
<1> QED
  BY <1>1, Invariance, PTL
=============================================================================
