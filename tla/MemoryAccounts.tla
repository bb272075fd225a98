--------------------------- MODULE MemoryAccounts ---------------------------
(***************************************************************************)
(* Where the pages are until memory is exhausted, for every value of the   *)
(* constants: nothing is lost, and every page below a break is there.      *)
(*                                                                         *)
(* Neither follows from the step at hand.  That vmm_map_page_into, which   *)
(* stores over whatever was there, loses no frame needs the pages above a  *)
(* break to be absent, and sys_brk, exec and fork each leave them so only  *)
(* when the loop has come to its end: the invariant says what the loop has *)
(* mapped so far.                                                          *)
(***************************************************************************)
EXTENDS MemoryContents

(* A step that cites no prover is left to the SMT solver. *)
USE SMTT(30)

(* The pages a brk in progress has already mapped. *)
Grown(p) == IF op = "brk" /\ caller = p
            THEN (PagesUpTo(brk[p])..(PagesUpTo(arg) - 1)) \ todo
            ELSE {}

(* Below its break a process has every page, above it none but those.      *)
Backed(p) ==
  /\ PagesUpTo(brk[p]) <= USTACK_BASE
  /\ 0..(PagesUpTo(brk[p]) - 1) \subseteq Mapped(pml4[p])
  /\ Mapped(pml4[p]) \cap (PagesUpTo(brk[p])..(HeapPages - 1)) = Grown(p)

NoneLost == \A f \in Frames : lost[f] = 0

AllOwned ==
  \A s \in spaces : (\E p \in Procs : pml4[p] = s) \/ (op # "none" /\ dst = s)

Progress ==
  /\ op = "exec" => /\ arg \in Images /\ todo \subseteq ImagePages(arg)
                    /\ Mapped(dst) = ImagePages(arg) \ todo
  /\ op = "stack" => /\ todo \cap Mapped(dst) = {}
                     /\ todo \subseteq USTACK_LIMIT..USTACK_BASE
  /\ op = "brk" => /\ brk[caller] < arg /\ arg < HeapPages * PageUnits
                   /\ todo \subseteq PagesUpTo(brk[caller])..(PagesUpTo(arg) - 1)

(* No frame is lost, the operation under way is where it should be, and the *)
(* pages a process may use are mapped: its address space is filled.         *)
Filled == /\ NoneLost /\ AllOwned /\ Progress
          /\ \A p \in Procs : state[p] # "none" => Backed(p)

Placed == ~exhausted /\ ~saturated => Filled

-----------------------------------------------------------------------------
(* How many pages a break takes *)

(* The pages up to a break: more for a higher one, and within the heap. *)
LEMMA UpTo ==
  ASSUME Constants, NEW b \in Nat
  PROVE  /\ PagesUpTo(b) \in Nat
         /\ \A c \in Nat : b <= c => PagesUpTo(b) <= PagesUpTo(c)
         /\ b < HeapPages * PageUnits => PagesUpTo(b) <= HeapPages
<1>1. PICK u \in Nat \ {0} : u = PageUnits
  BY Zenon DEF Constants
<1>2. HeapPages \in Nat
  BY Zenon DEF Constants
<1>3. ASSUME NEW c \in Nat
      PROVE  (c + u - 1) \div u \in Nat
  <2>1. PICK q \in Int : q = (c + u - 1) \div u
    OBVIOUS
  <2>2. q * u <= c + u - 1 /\ c + u - 1 < (q + 1) * u
    BY <2>1
  <2>3. q >= 0
    BY <2>2
  <2> QED
    BY <2>1, <2>3
<1>4. ASSUME NEW c \in Nat, b <= c
      PROVE  (b + u - 1) \div u <= (c + u - 1) \div u
  <2>1. PICK q \in Nat : q = (b + u - 1) \div u
    BY <1>3, Zenon
  <2>2. PICK r \in Nat : r = (c + u - 1) \div u
    BY <1>3, Zenon
  <2>3. q * u <= b + u - 1 /\ c + u - 1 < (r + 1) * u
    BY <2>1, <2>2
  <2>4. q * u < (r + 1) * u
    BY <1>4, <2>3
  <2>5. q < r + 1
    BY <2>4
  <2> QED
    BY <2>1, <2>2, <2>5
<1>5. b < HeapPages * u => (b + u - 1) \div u <= HeapPages
  BY <1>2, BreakPages, Zenon
<1> QED
  BY <1>1, <1>3, <1>4, <1>5, Zenon DEF PagesUpTo

(* An image of n pages ends where page n does. *)
LEMMA UpToImage ==
  ASSUME Constants, NEW n \in Nat
  PROVE  PagesUpTo(n * PageUnits) = n
<1>1. PICK u \in Nat \ {0} : u = PageUnits
  BY Zenon DEF Constants
<1>2. PICK q \in Int : q = (n * u + u - 1) \div u
  OBVIOUS
<1>3. q * u <= n * u + u - 1 /\ n * u + u - 1 < (q + 1) * u
  BY <1>2
<1>4. q * u < (n + 1) * u /\ n * u < (q + 1) * u
  BY <1>3
<1>5. q < n + 1 /\ n < q + 1
  BY <1>4
<1> QED
  BY <1>1, <1>2, <1>5 DEF PagesUpTo

-----------------------------------------------------------------------------
(* A step that maps and unmaps nothing leaves the mapped pages alone. *)
LEMMA MappedSame ==
  ASSUME NEW t, \A va \in Pages : pte'[t][va].fr = 0 <=> pte[t][va].fr = 0
  PROVE  Mapped(t)' = Mapped(t)
BY Zenon DEF Mapped

(* Steps that change neither which pages are there nor who owns them.      *)
LEMMA FilledSame ==
  ASSUME TypeOK, Control, Filled, \A t \in Frames : Mapped(t)' = Mapped(t),
         UNCHANGED <<spaces, pml4, brk, op, caller, dst, todo, arg, lost>>,
         \A p \in Procs : state'[p] # "none" => state[p] # "none"
  PROVE  Filled'
<1>1. NoneLost' /\ AllOwned'
  BY Zenon DEF Filled, NoneLost, AllOwned
<1>2. Progress'
  <2>1. op # "none" => dst \in Frames
    BY Zenon DEF TypeOK, Control
  <2> QED
    BY <2>1, Zenon DEF Filled, Progress
<1>3. ASSUME NEW p \in Procs, state'[p] # "none"
      PROVE  Backed(p)'
  <2>1. Backed(p) /\ pml4[p] \in Frames
    BY <1>3, Zenon DEF Filled, Control, TypeOK
  <2>2. Mapped(pml4[p])' = Mapped(pml4[p])
    BY <2>1, Zenon
  <2>3. Grown(p)' = Grown(p)
    BY Zenon DEF Grown
  <2> QED
    BY <2>1, <2>2, <2>3, Zenon DEF Backed
<1> QED
  BY <1>1, <1>2, <1>3, Zenon DEF Filled

(* A step that fills one entry maps one page more. *)
LEMMA OneMapped ==
  ASSUME NEW d \in Frames, NEW va \in Pages,
         \A t \in Frames, vb \in Pages :
           pte'[t][vb].fr = 0 <=> ~(t = d /\ vb = va) /\ pte[t][vb].fr = 0
  PROVE  \A t \in Frames :
           Mapped(t)' = IF t = d THEN Mapped(t) \cup {va} ELSE Mapped(t)
<1> SUFFICES ASSUME NEW t \in Frames, NEW vb
             PROVE  vb \in Mapped(t)' <=>
                      vb \in IF t = d THEN Mapped(t) \cup {va} ELSE Mapped(t)
  BY Zenon
<1>1. vb \in Mapped(t)' <=> vb \in Pages /\ pte'[t][vb].fr # 0
  BY Zenon DEF Mapped
<1>2. vb \in Mapped(t) <=> vb \in Pages /\ pte[t][vb].fr # 0
  BY Zenon DEF Mapped
<1> QED
  BY <1>1, <1>2, Zenon

(* Sharing a page in fork keeps address spaces filled. *)
LEMMA CowPageFilled ==
  ASSUME Constants, Inv, ~saturated, Filled, CowPage
  PROVE  Filled'
<1>1. /\ TypeOK /\ Control /\ Owners /\ Filling /\ op = "fork"
      /\ UNCHANGED <<spaces, state, pml4, brk, op, caller, dst, lost, arg>>
  BY Zenon DEF Inv, Sound, CowPage, procVars
<1>2. PICK va \in Pages, src \in Frames, d \in Frames :
        va = Next_va /\ src = pml4[caller] /\ d = dst /\ va \in todo
  BY <1>1, ForkState, Zenon
<1>3. /\ pte' = [pte EXCEPT ![src][va] = Shared(pte[src][va]),
                            ![d][va] = Shared(pte[src][va])]
  BY <1>2, Zenon DEF CowPage
<1>4. Shared(pte[src][va]).fr = pte[src][va].fr
  <2>1. pte[src][va] \in Ptes
    BY <1>1 DEF TypeOK
  <2> QED
    BY <2>1, SharedPte, Zenon
<1>5. \A q \in Procs : pml4[q] # d
  BY <1>1, <1>2, Zenon DEF Owners
<1>6. \A t \in Frames, vb \in Pages : t # d => pte'[t][vb].fr = pte[t][vb].fr
  BY <1>1, <1>3, <1>4, Zenon DEF TypeOK
<1>7. NoneLost' /\ AllOwned'
  BY <1>1, Zenon DEF Filled, NoneLost, AllOwned
<1>8. Progress'
  BY <1>1, Zenon DEF Progress
<1>9. ASSUME NEW p \in Procs, state'[p] # "none"
      PROVE  Backed(p)'
  <2>1. Backed(p) /\ pml4[p] \in Frames
    BY <1>1, <1>9, Zenon DEF Filled, Control, TypeOK
  <2>2. PICK t \in Frames : t = pml4[p] /\ t # d
    BY <1>5, <2>1, Zenon
  <2>3. Mapped(t)' = Mapped(t)
    BY <1>6, <2>2, MappedSame, Zenon
  <2>4. Grown(p)' = {} /\ Grown(p) = {}
    BY <1>1, Zenon DEF Grown
  <2> QED
    BY <1>1, <2>1, <2>2, <2>3, <2>4, Zenon DEF Backed
<1> QED
  BY <1>7, <1>8, <1>9, Zenon DEF Filled

(* vmm_map_page_into stores over nothing. *)
LEMMA MapPageVacant ==
  ASSUME Constants, Inv, ~saturated, Filled, Filling, fresh # 0
  PROVE  Next_va \notin Mapped(dst)
<1>1. TypeOK /\ Control /\ todo # {} /\ op \in {"exec", "brk", "stack"}
  BY Zenon DEF Inv, Filling, Control, TypeOK
<1>2. PICK va \in todo : va = Next_va
  BY <1>1, NextVa, Zenon
<1>3. CASE op = "exec"
  BY <1>2, <1>3, Zenon DEF Filled, Progress
<1>4. CASE op = "stack"
  BY <1>2, <1>4, Zenon DEF Filled, Progress
<1>5. CASE op = "brk"
  <2>1. PICK p \in Procs : p = caller /\ state[p] = "live" /\ dst = pml4[p]
    BY <1>1, <1>5, Zenon DEF Control, TypeOK
  <2>2. Backed(p) /\ brk[p] \in Nat /\ arg \in Nat
    BY <1>1, <1>5, <2>1, Zenon DEF Filled, TypeOK
  <2>3. /\ arg < HeapPages * PageUnits
        /\ va \in PagesUpTo(brk[p])..(PagesUpTo(arg) - 1)
    BY <1>2, <1>5, <2>1, Zenon DEF Filled, Progress
  <2>4. PagesUpTo(brk[p]) \in Nat /\ PagesUpTo(arg) \in Nat /\ PagesUpTo(arg) <= HeapPages
    BY <2>2, <2>3, UpTo, Zenon
  <2>5. va \in PagesUpTo(brk[p])..(HeapPages - 1)
    BY <2>3, <2>4 DEF Constants
  <2>6. va \notin Grown(p)
    BY <1>2, <1>5, <2>1, Zenon DEF Grown
  <2> QED
    BY <1>2, <2>1, <2>2, <2>5, <2>6, Zenon DEF Backed
<1> QED
  BY <1>1, <1>3, <1>4, <1>5, Zenon

(* Mapping a page in exec or brk keeps address spaces filled. *)
LEMMA MapPageFilled ==
  ASSUME Constants, Inv, ~saturated, Filled, MapPage
  PROVE  Filled'
<1>1. /\ TypeOK /\ Control /\ Owners /\ Filling /\ fresh # 0 /\ Advance
      /\ UNCHANGED <<spaces, state, pml4, brk>>
  BY Zenon DEF Inv, Sound, MapPage
<1>2. Next_va \in todo /\ Next_va \in Pages /\ dst \in Frames
      /\ op \in {"exec", "brk", "stack"} /\ caller \in Procs
  BY <1>1, NextVa, Zenon DEF Control, Filling, TypeOK
<1>3. PICK va \in Pages, d \in Frames, p \in Procs :
        va = Next_va /\ d = dst /\ p = caller
  BY <1>2, Zenon
<1>4. pte' = [pte EXCEPT ![d][va] = Writable(fresh)]
  BY <1>3, Zenon DEF MapPage
<1>5. va \notin Mapped(d)
  BY <1>1, <1>3, MapPageVacant, Zenon
<1>6. NoneLost'
  <2>1. pte[d][va].fr = 0
    BY <1>5, Zenon DEF Mapped
  <2>2. lost' = lost
    BY <1>3, <2>1, Zenon DEF MapPage
  <2> QED
    BY <2>2, Zenon DEF Filled, NoneLost
<1>7. \A t \in Frames : Mapped(t)' = IF t = d THEN Mapped(t) \cup {va} ELSE Mapped(t)
  <2>1. \A t \in Frames, vb \in Pages :
          pte'[t][vb].fr = 0 <=> ~(t = d /\ vb = va) /\ pte[t][vb].fr = 0
    BY <1>1, <1>4, Zenon DEF TypeOK, Writable
  <2> QED
    BY <2>1, OneMapped, Zenon
<1>8. ASSUME NEW q \in Procs, state[q] # "none", pml4[q] # d,
             Grown(q)' = {}, Grown(q) = {}
      PROVE  Backed(q)'
  <2>1. Backed(q) /\ pml4[q] \in Frames
    BY <1>1, <1>8, Zenon DEF Filled, Control, TypeOK
  <2>2. PICK t \in Frames : t = pml4[q] /\ t # d
    BY <1>8, <2>1, Zenon
  <2>3. Mapped(t)' = Mapped(t)
    BY <1>7, <2>2, Zenon
  <2> QED
    BY <1>1, <1>8, <2>1, <2>2, <2>3, Zenon DEF Backed
<1>9. CASE op = "exec"
  <2>1. todo' = todo \ {va} /\ UNCHANGED <<op, caller, dst, arg>>
    BY <1>1, <1>3, <1>9, Zenon DEF Advance
  <2>2. AllOwned'
    BY <1>1, <2>1, Zenon DEF Filled, AllOwned
  <2>3. Progress'
    <3>1. arg \in Images /\ todo \subseteq ImagePages(arg) /\ va \in todo
          /\ Mapped(d) = ImagePages(arg) \ todo
      BY <1>2, <1>3, <1>9, Zenon DEF Filled, Progress
    <3>2. Mapped(d)' = ImagePages(arg) \ todo'
      BY <1>7, <2>1, <3>1, Zenon
    <3> QED
      BY <1>3, <1>9, <2>1, <3>1, <3>2, Zenon DEF Progress
  <2>4. ASSUME NEW q \in Procs, state'[q] # "none"
        PROVE  Backed(q)'
    <3>1. Grown(q)' = {} /\ Grown(q) = {}
      BY <1>9, <2>1, Zenon DEF Grown
    <3>2. pml4[q] # d
      BY <1>1, <1>3, <1>9, Zenon DEF Owners
    <3> QED
      BY <1>1, <1>8, <2>4, <3>1, <3>2, Zenon
  <2> QED
    BY <1>6, <2>2, <2>3, <2>4, Zenon DEF Filled
<1>10. CASE op = "stack"
  <2>1. End
    BY <1>1, <1>10, Zenon DEF Advance
  <2>2. pml4[p] = d /\ state[p] = "live"
    BY <1>1, <1>3, <1>10, Zenon DEF Control
  <2>3. AllOwned'
    BY <1>1, <1>3, <2>2, Zenon DEF Filled, AllOwned
  <2>4. Progress'
    BY <2>1, Zenon DEF Progress, End
  <2>5. ASSUME NEW q \in Procs, state'[q] # "none"
        PROVE  Backed(q)'
    <3>1. Grown(q)' = {} /\ Grown(q) = {}
      BY <1>10, <2>1, Zenon DEF Grown, End
    <3>2. CASE pml4[q] # d
      BY <1>1, <1>8, <2>5, <3>1, <3>2, Zenon
    <3>3. CASE pml4[q] = d
      <4>1. Backed(q) /\ brk[q] \in Nat
        BY <1>1, <2>5, Zenon DEF Filled, TypeOK
      <4>2. va >= HeapPages /\ va \in Nat /\ HeapPages \in Nat
        BY <1>2, <1>3, <1>10 DEF Filled, Progress, Constants, Pages
      <4>3. va \notin PagesUpTo(brk[q])..(HeapPages - 1)
        BY <4>1, <4>2, UpTo
      <4>4. Mapped(pml4[q])' = Mapped(d) \cup {va}
        BY <1>1, <1>7, <3>3, Zenon
      <4>5. Mapped(pml4[q])' \cap (PagesUpTo(brk[q])..(HeapPages - 1)) = {}
        BY <3>1, <3>3, <4>1, <4>3, <4>4, Zenon DEF Backed
      <4>6. 0..(PagesUpTo(brk[q]) - 1) \subseteq Mapped(pml4[q])'
        BY <3>3, <4>1, <4>4, Zenon DEF Backed
      <4> QED
        BY <1>1, <3>1, <4>1, <4>5, <4>6, Zenon DEF Backed
    <3> QED
      BY <3>2, <3>3, Zenon
  <2> QED
    BY <1>6, <2>3, <2>4, <2>5, Zenon DEF Filled
<1>11. CASE op = "brk"
  <2>1. todo' = todo \ {va} /\ UNCHANGED <<op, caller, dst, arg>>
    BY <1>1, <1>3, <1>11, Zenon DEF Advance
  <2>2. pml4[p] = d /\ state[p] = "live"
    BY <1>1, <1>3, <1>11, Zenon DEF Control
  <2>3. AllOwned'
    BY <1>1, <2>1, Zenon DEF Filled, AllOwned
  <2>4. Progress'
    BY <1>1, <1>11, <2>1, Zenon DEF Filled, Progress
  <2>5. ASSUME NEW q \in Procs, state'[q] # "none"
        PROVE  Backed(q)'
    <3>1. CASE q # p
      <4>1. Grown(q)' = {} /\ Grown(q) = {}
        BY <1>3, <2>1, <3>1, Zenon DEF Grown
      <4>2. pml4[q] # d
        BY <1>1, <2>2, <3>1, Sizes, Zenon DEF Owners
      <4> QED
        BY <1>1, <1>8, <2>5, <4>1, <4>2, Zenon
    <3>2. CASE q = p
      <4>1. Backed(p) /\ brk[p] \in Nat /\ arg \in Nat
        BY <1>1, <1>11, <2>2, Zenon DEF Filled, TypeOK
      <4>2. /\ arg < HeapPages * PageUnits /\ va \in todo
            /\ todo \subseteq PagesUpTo(brk[p])..(PagesUpTo(arg) - 1)
        BY <1>2, <1>3, <1>11, Zenon DEF Filled, Progress
      <4>3. PICK B \in Nat, A \in Nat :
              B = PagesUpTo(brk[p]) /\ A = PagesUpTo(arg) /\ A <= HeapPages
        BY <4>1, <4>2, UpTo, Zenon
      <4>4. HeapPages \in Nat
        BY Zenon DEF Constants
      <4>5. Grown(p) = (B..(A - 1)) \ todo
        BY <1>3, <1>11, <4>3, Zenon DEF Grown
      <4>6. Grown(p)' = (B..(A - 1)) \ todo'
        BY <1>1, <1>3, <1>11, <2>1, <4>3, Zenon DEF Grown
      <4>7. va \in B..(A - 1) /\ va \in B..(HeapPages - 1)
        BY <4>2, <4>3, <4>4
      <4>8. Mapped(pml4[p])' = Mapped(d) \cup {va}
        BY <1>1, <1>7, <2>2, Zenon
      <4>9. Mapped(d) \cap (B..(HeapPages - 1)) = (B..(A - 1)) \ todo
            /\ 0..(B - 1) \subseteq Mapped(d) /\ B <= USTACK_BASE
        BY <2>2, <4>1, <4>3, <4>5, Zenon DEF Backed
      <4>10. Mapped(pml4[p])' \cap (B..(HeapPages - 1)) = (B..(A - 1)) \ todo'
        BY <2>1, <4>7, <4>8, <4>9, Zenon
      <4>11. 0..(B - 1) \subseteq Mapped(pml4[p])'
        BY <4>8, <4>9, Zenon
      <4>12. PagesUpTo(brk[p])' = B
        BY <1>1, <4>3, Zenon
      <4>13. Backed(p)'
        BY <4>6, <4>9, <4>10, <4>11, <4>12, Zenon DEF Backed
      <4> QED
        BY <3>2, <4>13, Zenon
    <3> QED
      BY <3>1, <3>2, Zenon
  <2> QED
    BY <1>6, <2>3, <2>4, <2>5, Zenon DEF Filled
<1> QED
  BY <1>2, <1>9, <1>10, <1>11, Zenon

(* A process whose space, break and pages stay, in a step without brk.     *)
LEMMA BackedSame ==
  ASSUME TypeOK, Control, Filled, NEW q \in Procs, state[q] # "none",
         pml4'[q] = pml4[q], brk'[q] = brk[q], op # "brk", op' # "brk",
         \A va \in Pages : pte'[pml4[q]][va].fr = pte[pml4[q]][va].fr
  PROVE  Backed(q)'
<1>1. Backed(q) /\ pml4[q] \in Frames
  BY Zenon DEF Filled, Control, TypeOK
<1>2. PICK t \in Frames : t = pml4[q]
  BY <1>1, Zenon
<1>3. Mapped(t)' = Mapped(t)
  BY <1>2, MappedSame, Zenon
<1>4. Grown(q)' = {} /\ Grown(q) = {}
  BY Zenon DEF Grown
<1> QED
  BY <1>1, <1>2, <1>3, <1>4, Zenon DEF Backed

(* A new address space, of fork or of exec, keeps the others filled. *)
LEMMA NewSpaceFilled ==
  ASSUME Constants, Inv, ~saturated, Filled, op = "none", fresh' = 0, lost' = lost,
         UNCHANGED <<state, pml4, brk>>, NEW s \in Frames, NewSpace(s),
         dst' = s, op' \in {"fork", "exec"}, Progress'
  PROVE  Filled'
<1>1. TypeOK /\ Control
  BY Zenon DEF Inv
<1>2. /\ \A p \in Procs : pml4[p] # s
      /\ \A t \in Frames : t # s => pte'[t] = pte[t]
      /\ spaces' = spaces \cup {s}
  BY NewSpaceView, Zenon
<1>3. NoneLost' /\ AllOwned'
  BY <1>2, Zenon DEF Filled, NoneLost, AllOwned
<1>4. ASSUME NEW q \in Procs, state'[q] # "none"
      PROVE  Backed(q)'
  <2>1. pml4[q] \in Frames /\ state[q] # "none"
    BY <1>1, <1>4, Zenon DEF Control, TypeOK
  <2>2. pte'[pml4[q]] = pte[pml4[q]]
    BY <1>2, <2>1, Zenon
  <2> QED
    BY <1>1, <2>1, <2>2, BackedSame, Zenon
<1> QED
  BY <1>3, <1>4, Zenon DEF Filled

(* The start of fork keeps address spaces filled. *)
LEMMA ForkStartFilled ==
  ASSUME Constants, Inv, ~saturated, Filled, NEW p \in Procs, NEW c \in Procs,
         ForkStart(p, c)
  PROVE  Filled'
<1>1. op = "none" /\ lost' = lost /\ UNCHANGED <<state, pml4, brk>>
  BY Zenon DEF ForkStart, Idle, procVars, histVars
<1>2. PICK s \in Frames : NewSpace(s) /\ op' = "fork" /\ dst' = s /\ fresh' = 0
  BY Zenon DEF ForkStart, Begin
<1>3. Progress'
  BY <1>2, Zenon DEF Progress
<1> QED
  BY <1>1, <1>2, <1>3, NewSpaceFilled, Zenon

(* The start of exec keeps address spaces filled. *)
LEMMA ExecStartFilled ==
  ASSUME Constants, Inv, ~saturated, Filled, NEW p \in Procs, NEW n \in Images,
         ExecStart(p, n)
  PROVE  Filled'
<1>1. op = "none" /\ lost' = lost /\ UNCHANGED <<state, pml4, brk>>
  BY Zenon DEF ExecStart, Idle, procVars, histVars
<1>2. PICK s \in Frames : /\ NewSpace(s) /\ op' = "exec" /\ dst' = s /\ fresh' = 0
                          /\ arg' = n /\ todo' = ImagePages(n)
  BY Zenon DEF ExecStart, Begin
<1>3. Mapped(s)' = {}
  <2>1. \A va \in Pages : pte'[s][va].fr = 0
    BY <1>1, <1>2, NewSpaceView, Zenon
  <2> QED
    BY <2>1, Zenon DEF Mapped
<1>4. Progress'
  BY <1>2, <1>3, Zenon DEF Progress
<1> QED
  BY <1>1, <1>2, <1>4, NewSpaceFilled, Zenon

(* A child starts with an address space as full as its parent's. *)
LEMMA ForkEndFilled ==
  ASSUME Constants, Inv, ~saturated, Shown, Filled, ForkEnd, ~exhausted'
  PROVE  Filled'
<1>1. /\ TypeOK /\ Control /\ Owners /\ op = "fork" /\ todo = {} /\ End
      /\ UNCHANGED <<spaces, pte, lost>>
      /\ state' = [state EXCEPT ![arg] = "live"]
      /\ pml4' = [pml4 EXCEPT ![arg] = dst]
      /\ brk' = [brk EXCEPT ![arg] = brk[caller]]
  BY Zenon DEF Inv, Sound, ForkEnd, spaceVars
<1>2. PICK p \in Procs, c \in Procs, d \in Frames : p = caller /\ c = arg /\ d = dst
  BY <1>1, Zenon DEF TypeOK, Control
<1>3. /\ \A q \in Procs : pml4'[q] = IF q = c THEN d ELSE pml4[q]
      /\ \A q \in Procs : brk'[q] = IF q = c THEN brk[p] ELSE brk[q]
      /\ \A q \in Procs : state'[q] = IF q = c THEN "live" ELSE state[q]
      /\ op' = "none"
  BY <1>1, <1>2, Zenon DEF TypeOK, End
<1>4. state[c] = "none" /\ pml4[c] = 0 /\ state[p] = "live" /\ d # 0
  BY <1>1, <1>2, Sizes, Zenon DEF Control
<1>5. NoneLost'
  BY <1>1, Zenon DEF Filled, NoneLost
<1>6. AllOwned'
  <2> SUFFICES ASSUME NEW s \in spaces
               PROVE  \E q \in Procs : pml4'[q] = s
    BY <1>1, Zenon DEF AllOwned
  <2>1. CASE s = d
    BY <1>3, <2>1, Zenon
  <2>2. CASE s # d
    <3>1. PICK q \in Procs : pml4[q] = s
      BY <1>2, <2>2, Zenon DEF Filled, AllOwned
    <3>2. s # 0
      BY <1>1, Sizes, Zenon DEF TypeOK
    <3> QED
      BY <1>3, <1>4, <3>1, <3>2, Zenon
  <2> QED
    BY <2>1, <2>2, Zenon
<1>7. Progress'
  BY <1>3, Zenon DEF Progress
<1>8. ASSUME NEW q \in Procs, state'[q] # "none"
      PROVE  Backed(q)'
  <2>1. CASE q # c
    BY <1>1, <1>3, <1>8, <2>1, BackedSame, Zenon
  <2>2. CASE q = c
    <3>1. \A va \in Pages : pte[d][va].fr = pte[pml4[p]][va].fr
      BY <1>1, <1>2, Zenon DEF Shown, ForkCopied
    <3>2. Mapped(d) = Mapped(pml4[p])
      BY <3>1, Zenon DEF Mapped
    <3>3. Mapped(pml4[c])' = Mapped(d)
      BY <1>1, <1>3, Zenon DEF Mapped
    <3>4. Backed(p)
      BY <1>4, Zenon DEF Filled
    <3>5. Grown(c)' = {} /\ Grown(p) = {}
      BY <1>1, <1>3, Zenon DEF Grown
    <3>6. PagesUpTo(brk[c])' = PagesUpTo(brk[p])
      BY <1>3, Zenon DEF PagesUpTo
    <3>7. Backed(c)'
      BY <3>2, <3>3, <3>4, <3>5, <3>6, Zenon DEF Backed
    <3> QED
      BY <2>2, <3>7, Zenon
  <2> QED
    BY <2>1, <2>2, Zenon
<1> QED
  BY <1>5, <1>6, <1>7, <1>8, Zenon DEF Filled

(* The others keep their pages when a space is released. *)
LEMMA FreeBacked ==
  ASSUME Constants, Inv, ~saturated, Filled, NEW p \in Procs, pml4[p] # 0,
         FreeUserSpace(pml4[p]), NEW q \in Procs, q # p, state[q] # "none",
         pml4'[q] = pml4[q], brk'[q] = brk[q], op # "brk", op' # "brk"
  PROVE  Backed(q)'
<1>1. TypeOK /\ Control /\ Owners
  BY Zenon DEF Inv, Sound
<1>2. PICK s \in Frames : s = pml4[p]
  BY <1>1, Zenon DEF TypeOK
<1>3. \A t \in Frames : t # s => pte'[t] = pte[t]
  BY <1>1, <1>2, Zenon DEF TypeOK, FreeUserSpace
<1>4. pml4[q] \in Frames /\ pml4[q] # s
  BY <1>1, <1>2, Zenon DEF TypeOK, Control, Owners
<1> QED
  BY <1>1, <1>3, <1>4, BackedSame, Zenon

(* A process leaves exec with its image and its stack mapped. *)
LEMMA ExecEndFilled ==
  ASSUME Constants, Inv, ~saturated, Filled, ExecEnd
  PROVE  Filled'
<1>1. /\ TypeOK /\ Control /\ Owners /\ op = "exec" /\ todo = {} /\ End
      /\ pml4' = [pml4 EXCEPT ![caller] = dst]
      /\ brk' = [brk EXCEPT ![caller] = arg * PageUnits]
      /\ state' = [state EXCEPT ![caller] = "live"]
      /\ lost' = lost
  BY Zenon DEF Inv, Sound, ExecEnd, histVars
<1>2. PICK p \in Procs, d \in Frames, n \in Images :
        p = caller /\ d = dst /\ n = arg /\ Mapped(d) = ImagePages(n)
  BY <1>1 DEF TypeOK, Control, Filled, Progress
<1>3. /\ \A q \in Procs : pml4'[q] = IF q = p THEN d ELSE pml4[q]
      /\ \A q \in Procs : brk'[q] = IF q = p THEN n * PageUnits ELSE brk[q]
      /\ \A q \in Procs : state'[q] = IF q = p THEN "live" ELSE state[q]
      /\ op' = "none"
  BY <1>1, <1>2, Zenon DEF TypeOK, End
<1>4. d # 0 /\ d \in spaces /\ pml4[p] # d
  BY <1>1, <1>2, Sizes, Zenon DEF Owners
<1>5. \/ pml4[p] = 0 /\ UNCHANGED <<spaces, pte>>
      \/ pml4[p] # 0 /\ FreeUserSpace(pml4[p])
  BY <1>2, Zenon DEF ExecEnd, spaceVars
<1>6. pte'[d] = pte[d]
  BY <1>1, <1>4, <1>5, Zenon DEF FreeUserSpace, TypeOK
<1>7. NoneLost'
  BY <1>1, Zenon DEF Filled, NoneLost
<1>8. AllOwned'
  <2> SUFFICES ASSUME NEW s \in spaces'
               PROVE  \E q \in Procs : pml4'[q] = s
    BY Zenon DEF AllOwned
  <2>1. CASE s = d
    BY <1>3, <2>1, Zenon
  <2>2. CASE s # d
    <3>1. s \in spaces /\ s # pml4[p]
      <4>1. 0 \notin spaces
        BY <1>1, Sizes, Zenon DEF TypeOK
      <4> QED
        BY <1>5, <4>1 DEF FreeUserSpace
    <3>2. PICK q \in Procs : pml4[q] = s
      BY <1>2, <2>2, <3>1, Zenon DEF Filled, AllOwned
    <3> QED
      BY <1>3, <3>1, <3>2, Zenon
  <2> QED
    BY <2>1, <2>2, Zenon
<1>9. Progress'
  BY <1>3, Zenon DEF Progress
<1>10. ASSUME NEW q \in Procs, state'[q] # "none"
       PROVE  Backed(q)'
  <2>1. CASE q # p /\ pml4[p] = 0 /\ UNCHANGED <<spaces, pte>>
    BY <1>1, <1>3, <1>10, <2>1, BackedSame, Zenon
  <2>2. CASE q # p /\ pml4[p] # 0 /\ FreeUserSpace(pml4[p])
    BY <1>1, <1>3, <1>10, <2>2, FreeBacked, Zenon
  <2>3. CASE q = p
    <3>1. n \in Nat /\ n <= USTACK_BASE /\ USTACK_BASE \in Nat /\ HeapPages \in Nat
          /\ HeapPages <= USTACK_BASE
      BY DEF Constants
    <3>2. PagesUpTo(brk[p])' = n
      <4>1. PagesUpTo(n * PageUnits) = n
        BY <3>1, UpToImage, Zenon
      <4> QED
        BY <1>3, <4>1, Zenon DEF PagesUpTo
    <3>3. Mapped(pml4[p])' = Mapped(d)
      BY <1>3, <1>6, Zenon DEF Mapped
    <3>4. Grown(p)' = {}
      BY <1>3, Zenon DEF Grown
    <3>5. 0..(n - 1) \subseteq ImagePages(n)
          /\ ImagePages(n) \cap (n..(HeapPages - 1)) = {}
      BY <3>1 DEF ImagePages
    <3>6. Backed(p)'
      BY <1>2, <3>1, <3>2, <3>3, <3>4, <3>5, Zenon DEF Backed
    <3> QED
      BY <2>3, <3>6, Zenon
  <2> QED
    BY <1>5, <2>1, <2>2, <2>3, Zenon
<1> QED
  BY <1>7, <1>8, <1>9, <1>10, Zenon DEF Filled

(* Reaping a process keeps the address spaces of the others filled. *)
LEMMA ReapFilled ==
  ASSUME Constants, Inv, ~saturated, Filled, NEW p \in Procs, Reap(p)
  PROVE  Filled'
<1>1. /\ TypeOK /\ Control /\ op = "none" /\ op' = "none" /\ state[p] = "zombie"
      /\ FreeUserSpace(pml4[p]) /\ lost' = lost
      /\ state' = [state EXCEPT ![p] = "none"] /\ pml4' = [pml4 EXCEPT ![p] = 0]
      /\ brk' = [brk EXCEPT ![p] = 0]
  BY Zenon DEF Inv, Reap, Idle, opVars, histVars
<1>2. /\ \A q \in Procs : pml4'[q] = IF q = p THEN 0 ELSE pml4[q]
      /\ \A q \in Procs : brk'[q] = IF q = p THEN 0 ELSE brk[q]
      /\ \A q \in Procs : state'[q] = IF q = p THEN "none" ELSE state[q]
      /\ pml4[p] # 0
  BY <1>1, Zenon DEF TypeOK, Control
<1>3. NoneLost'
  BY <1>1, Zenon DEF Filled, NoneLost
<1>4. AllOwned'
  <2> SUFFICES ASSUME NEW s \in spaces'
               PROVE  \E q \in Procs : pml4'[q] = s
    BY Zenon DEF AllOwned
  <2>1. s \in spaces /\ s # pml4[p]
    BY <1>1, Zenon DEF FreeUserSpace
  <2>2. PICK q \in Procs : pml4[q] = s
    BY <1>1, <2>1, Zenon DEF Filled, AllOwned
  <2> QED
    BY <1>2, <2>1, <2>2, Zenon
<1>5. Progress'
  BY <1>1, Zenon DEF Progress
<1>6. ASSUME NEW q \in Procs, state'[q] # "none"
      PROVE  Backed(q)'
  BY <1>1, <1>2, <1>6, FreeBacked, Zenon
<1> QED
  BY <1>3, <1>4, <1>5, <1>6, Zenon DEF Filled

(* The start of brk keeps address spaces filled. *)
LEMMA BrkStartFilled ==
  ASSUME Constants, Inv, ~saturated, Filled, NEW p \in Procs, NEW b \in Breaks,
         BrkStart(p, b)
  PROVE  Filled'
<1>1. /\ TypeOK /\ Control /\ op = "none" /\ state[p] = "live"
      /\ UNCHANGED <<spaces, pte, state, pml4, brk, lost>>
      /\ op' = "brk" /\ caller' = p /\ dst' = pml4[p] /\ arg' = b
      /\ todo' = PagesUpTo(brk[p])..(PagesUpTo(b) - 1)
      /\ b > brk[p] /\ b < HeapPages * PageUnits /\ brk[p] \in Nat /\ b \in Nat
  BY Zenon DEF Inv, BrkStart, Begin, Idle, Live, spaceVars, procVars, histVars, TypeOK, Constants
<1>2. NoneLost' /\ AllOwned'
  BY <1>1, Zenon DEF Filled, NoneLost, AllOwned
<1>3. Progress'
  <2>1. PagesUpTo(brk'[caller']) = PagesUpTo(brk[p]) /\ PagesUpTo(arg') = PagesUpTo(b)
        /\ brk'[caller'] = brk[p]
    BY <1>1, Zenon
  <2> QED
    BY <1>1, <2>1, Zenon DEF Progress, PagesUpTo
<1>4. ASSUME NEW q \in Procs, state'[q] # "none"
      PROVE  Backed(q)'
  <2>1. Backed(q)
    BY <1>1, <1>4, Zenon DEF Filled
  <2>2. Grown(q) = {}
    BY <1>1, Zenon DEF Grown
  <2>3. Grown(q)' = {}
    BY <1>1, Zenon DEF Grown, PagesUpTo
  <2>4. Mapped(pml4[q])' = Mapped(pml4[q])
    BY <1>1, Zenon DEF Mapped
  <2>5. PagesUpTo(brk[q])' = PagesUpTo(brk[q])
    BY <1>1, Zenon
  <2> QED
    BY <2>1, <2>2, <2>3, <2>4, <2>5, Zenon DEF Backed
<1> QED
  BY <1>2, <1>3, <1>4, Zenon DEF Filled

(* brk ends with every page up to the new break mapped. *)
LEMMA BrkEndFilled ==
  ASSUME Constants, Inv, ~saturated, Filled, BrkEnd
  PROVE  Filled'
<1>1. /\ TypeOK /\ Control /\ op = "brk" /\ op' = "none" /\ todo = {}
      /\ brk' = [brk EXCEPT ![caller] = arg]
      /\ UNCHANGED <<spaces, pte, state, pml4, lost>>
  BY Zenon DEF Inv, BrkEnd, End, spaceVars, histVars
<1>2. PICK p \in Procs : p = caller /\ state[p] = "live" /\ dst = pml4[p]
  BY <1>1, Zenon DEF TypeOK, Control
<1>3. \A q \in Procs : brk'[q] = IF q = p THEN arg ELSE brk[q]
  BY <1>1, <1>2, Zenon DEF TypeOK
<1>4. NoneLost' /\ AllOwned'
  BY <1>1, <1>2, Zenon DEF Filled, NoneLost, AllOwned
<1>5. Progress'
  BY <1>1, Zenon DEF Progress
<1>6. ASSUME NEW q \in Procs, state'[q] # "none"
      PROVE  Backed(q)'
  <2>1. Backed(q) /\ Grown(q)' = {}
    BY <1>1, <1>6, Zenon DEF Filled, Grown
  <2>2. Mapped(pml4[q])' = Mapped(pml4[q])
    BY <1>1, Zenon DEF Mapped
  <2>3. CASE q # p
    <3>1. Grown(q) = {} /\ PagesUpTo(brk[q])' = PagesUpTo(brk[q])
      BY <1>2, <1>3, <2>3, Zenon DEF Grown, PagesUpTo
    <3> QED
      BY <2>1, <2>2, <3>1, Zenon DEF Backed
  <2>4. CASE q = p
    <3>1. brk[p] \in Nat /\ arg \in Nat /\ brk[p] < arg /\ arg < HeapPages * PageUnits
      BY <1>1, <1>2, Zenon DEF TypeOK, Filled, Progress
    <3>2. PICK B \in Nat, A \in Nat : /\ B = PagesUpTo(brk[p]) /\ A = PagesUpTo(arg)
                                      /\ A <= HeapPages /\ B <= A
      <4>1. brk[p] <= arg
        BY <3>1
      <4> QED
        BY <3>1, <4>1, UpTo, Zenon
    <3>3. HeapPages \in Nat /\ USTACK_BASE \in Nat /\ HeapPages <= USTACK_BASE
      BY DEF Constants
    <3>4. Grown(p) = B..(A - 1)
      BY <1>1, <1>2, <3>2, Zenon DEF Grown
    <3>5. PICK M : M = Mapped(pml4[p])
      BY Zenon
    <3>6. M \cap (B..(HeapPages - 1)) = B..(A - 1) /\ 0..(B - 1) \subseteq M
      BY <2>1, <2>4, <3>2, <3>4, <3>5, Zenon DEF Backed
    <3>7. 0..(A - 1) \subseteq M
      BY <3>2, <3>3, <3>6
    <3>8. M \cap (A..(HeapPages - 1)) = {}
      BY <3>2, <3>3, <3>6
    <3>9. PagesUpTo(brk[p])' = A
      BY <1>3, <3>2, Zenon DEF PagesUpTo
    <3>10. A <= USTACK_BASE
      BY <3>2, <3>3
    <3> QED
      BY <2>1, <2>2, <2>4, <3>5, <3>7, <3>8, <3>9, <3>10, Zenon DEF Backed
  <2> QED
    BY <2>3, <2>4, Zenon
<1> QED
  BY <1>4, <1>5, <1>6, Zenon DEF Filled

(* A fault on the stack keeps address spaces filled. *)
LEMMA StackFaultFilled ==
  ASSUME Constants, Inv, ~saturated, Filled, NEW p \in Procs, NEW va \in Pages,
         StackFault(p, va), ~exhausted'
  PROVE  Filled'
<1>1. /\ TypeOK /\ Control /\ op = "none" /\ state[p] = "live"
      /\ pte[pml4[p]][va].fr = 0 /\ va >= USTACK_LIMIT /\ va < stack_low[p]
      /\ UNCHANGED <<spaces, pte, state, pml4, brk, lost>>
  BY Zenon DEF Inv, StackFault, Idle, Live, Pte, GrowsStack, spaceVars, procVars
<1>2. op' = "stack" /\ dst' = pml4[p] /\ todo' = {va}
  BY Zenon DEF StackFault, Begin
<1>3. NoneLost' /\ AllOwned'
  BY <1>1, Zenon DEF Filled, NoneLost, AllOwned
<1>4. Progress'
  <2>1. Mapped(dst)' = Mapped(pml4[p]) /\ va \notin Mapped(pml4[p])
    BY <1>1, <1>2, Zenon DEF Mapped
  <2>2. va \in USTACK_LIMIT..USTACK_BASE
    BY <1>1 DEF Constants, Pages
  <2> QED
    BY <1>2, <2>1, <2>2, Zenon DEF Progress
<1>5. ASSUME NEW q \in Procs, state'[q] # "none"
      PROVE  Backed(q)'
  BY <1>1, <1>2, <1>5, BackedSame, Zenon
<1> QED
  BY <1>3, <1>4, <1>5, Zenon DEF Filled

(* A write to a shared page keeps address spaces filled. *)
LEMMA CowFaultFilled ==
  ASSUME Constants, Inv, ~saturated, Filled, NEW p \in Procs, NEW va \in Pages,
         CowFault(p, va), ~exhausted'
  PROVE  Filled'
<1>1. /\ TypeOK /\ Control /\ pte[pml4[p]][va].fr # 0 /\ state[p] = "live"
      /\ UNCHANGED <<spaces, state, pml4, brk, op, caller, dst, todo, arg, lost>>
  BY Zenon DEF Inv, CowFault, Live, Pte, procVars, opVars
<1>2. PICK t \in Frames, f \in Frames :
        t = pml4[p] /\ pte' = [pte EXCEPT ![t][va] = Writable(f)]
  <2>1. pml4[p] \in Frames /\ pte[pml4[p]][va] \in Ptes
    BY <1>1, Zenon DEF Control, TypeOK
  <2>2. pte[pml4[p]][va].fr \in Frames
    BY <1>1, <2>1, Zenon DEF Ptes
  <2> QED
    BY <2>1, <2>2, Zenon DEF CowFault, Pte
<1>3. \A s \in Frames, vb \in Pages : pte'[s][vb].fr = 0 <=> pte[s][vb].fr = 0
  BY <1>1, <1>2, Sizes, ZenonT(30) DEF TypeOK, Writable
<1>4. \A s \in Frames : Mapped(s)' = Mapped(s)
  BY <1>3, MappedSame, Zenon
<1> QED
  BY <1>1, <1>4, FilledSame, Zenon

(* Every step with memory to spare keeps address spaces filled. *)
LEMMA NextPlaced ==
  ASSUME Constants, Inv, ~saturated, Shown, Filled, [Next]_vars, ~exhausted'
  PROVE  Filled'
<1>0. TypeOK /\ Control
  BY Zenon DEF Inv
<1>1. ASSUME pte' = pte, UNCHANGED <<spaces, pml4, brk, op, caller, dst, todo, arg, lost>>,
             \A p \in Procs : state'[p] # "none" => state[p] # "none"
      PROVE  Filled'
  <2>1. \A t \in Frames : Mapped(t)' = Mapped(t)
    BY <1>1, Zenon DEF Mapped
  <2> QED
    BY <1>0, <1>1, <2>1, FilledSame, Zenon
<1>2. CASE UNCHANGED vars
  BY <1>1, <1>2, Zenon DEF vars, spaceVars, procVars, opVars, histVars
<1>3. CASE AllocTable \/ TakeFrame
  BY <1>1, <1>3, Zenon DEF AllocTable, TakeFrame, spaceVars, procVars, opVars, histVars
<1>4. CASE CowPage \/ MapPage
  BY <1>4, CowPageFilled, MapPageFilled, Zenon
<1>5. CASE CowFails \/ NoFrame \/ MapFails
  BY <1>5, Zenon DEF CowFails, NoFrame, MapFails
<1>6. CASE ForkEnd \/ ExecEnd \/ BrkEnd
  BY <1>6, ForkEndFilled, ExecEndFilled, BrkEndFilled, Zenon
<1>7. ASSUME NEW p \in Procs,
             \/ \E c \in Procs : ForkStart(p, c)
             \/ \E n \in Images : ExecStart(p, n)
             \/ \E b \in Breaks : BrkStart(p, b)
             \/ Reap(p)
      PROVE  Filled'
  BY <1>7, ForkStartFilled, ExecStartFilled, BrkStartFilled, ReapFilled, Zenon
<1>8. ASSUME NEW p \in Procs, Exit(p)
      PROVE  Filled'
  <2>1. \A q \in Procs : state'[q] # "none" => state[q] # "none"
    BY <1>0, <1>8, Zenon DEF Exit, Live, TypeOK
  <2>2. pte' = pte /\ UNCHANGED <<spaces, pml4, brk, op, caller, dst, todo, arg, lost>>
    BY <1>8, Zenon DEF Exit, spaceVars, opVars, histVars
  <2> QED
    BY Zenon, <1>1, <2>1, <2>2
<1>9. ASSUME NEW p \in Procs, NEW va \in Pages,
             \/ \E v \in Values : UserStore(p, va, v) \/ KernelStore(p, va, v)
             \/ BadFault(p, va)
      PROVE  Filled'
  <2>1. UNCHANGED <<spaceVars, procVars, opVars, histVars>>
    BY <1>9, Zenon DEF UserStore, KernelStore, Store, BadFault
  <2>2. /\ pte' = pte /\ state' = state
        /\ UNCHANGED <<spaces, pml4, brk, op, caller, dst, todo, arg, lost>>
    BY <2>1, Zenon DEF spaceVars, procVars, opVars, histVars
  <2> QED
    BY <1>1, <2>2, Zenon
<1>10. ASSUME NEW p \in Procs, NEW va \in Pages, CowFault(p, va) \/ StackFault(p, va)
       PROVE  Filled'
  BY <1>10, CowFaultFilled, StackFaultFilled, Zenon
<1> QED
  BY <1>2, <1>3, <1>4, <1>5, <1>6, <1>7, <1>8, <1>9, <1>10, ZenonT(30) DEF Next

(* exhausted is a history variable: it stays TRUE once it is. *)
LEMMA ExhaustedStays ==
  ASSUME TypeOK, [Next]_vars
  PROVE  ~exhausted' => ~exhausted
<1>1. CASE UNCHANGED vars
  BY <1>1, Zenon DEF vars, histVars
<1>2. CASE CowFails \/ NoFrame \/ MapFails
  BY <1>2, Zenon DEF CowFails, NoFrame, MapFails
<1>3. CASE AllocTable \/ TakeFrame \/ ExecEnd \/ BrkEnd
  BY <1>3, Zenon DEF AllocTable, TakeFrame, ExecEnd, BrkEnd, histVars
<1>4. CASE CowPage \/ MapPage \/ ForkEnd
  BY <1>4, Zenon DEF CowPage, MapPage, ForkEnd
<1>5. ASSUME NEW p \in Procs,
             \/ \E c \in Procs : ForkStart(p, c)
             \/ \E n \in Images : ExecStart(p, n)
             \/ \E b \in Breaks : BrkStart(p, b)
             \/ Exit(p) \/ Reap(p)
      PROVE  exhausted' = exhausted
  BY <1>5, Zenon DEF ForkStart, ExecStart, BrkStart, Exit, Reap, histVars
<1>6. ASSUME NEW p \in Procs, NEW va \in Pages,
             \/ \E v \in Values : UserStore(p, va, v) \/ KernelStore(p, va, v)
             \/ CowFault(p, va) \/ StackFault(p, va) \/ BadFault(p, va)
      PROVE  ~exhausted' => ~exhausted
  <2>1. CASE \E v \in Values : UserStore(p, va, v) \/ KernelStore(p, va, v)
    BY <2>1, Zenon DEF UserStore, KernelStore, Store, histVars
  <2>2. CASE CowFault(p, va) \/ StackFault(p, va) \/ BadFault(p, va)
    BY <2>2, Zenon DEF CowFault, StackFault, BadFault, histVars
  <2> QED
    BY <1>6, <2>1, <2>2, Zenon
<1> QED
  BY <1>1, <1>2, <1>3, <1>4, <1>5, <1>6, Zenon DEF Next

(* The address spaces at boot are filled. *)
LEMMA InitFilled ==
  ASSUME Constants, Init
  PROVE  Filled
<1>1. PICK s \in Frames, n \in Images :
        /\ spaces = {s} /\ pte = [f \in Frames |-> NoPages]
        /\ state = [p \in Procs |-> "none"] /\ op = "exec" /\ dst = s /\ arg = n
        /\ todo = ImagePages(n) /\ lost = [f \in Frames |-> 0]
  BY Zenon DEF Init
<1>2. Mapped(dst) = {}
  BY <1>1, Zenon DEF Mapped, NoPages, NoPage
<1>3. NoneLost /\ AllOwned
  BY <1>1, Zenon DEF NoneLost, AllOwned
<1>4. Progress
  BY <1>1, <1>2, Zenon DEF Progress
<1>5. \A p \in Procs : state[p] = "none"
  BY <1>1, Zenon
<1> QED
  BY <1>3, <1>4, <1>5, Zenon DEF Filled

(* Every frame is accounted for, for any memory and any number of          *)
(* processes: until an allocation fails or a count saturates, every        *)
(* reference that pmm.c counts belongs to a space that a process or the    *)
(* system call in progress owns, and every page below the break that       *)
(* sys_exec, sys_brk and sys_fork record is present.                       *)
THEOREM AccountsCorrect ==
  ASSUME Constants
  PROVE  Spec => []FramesAccounted
<1> DEFINE I == Inv /\ (~saturated => Shown) /\ Placed
<1>1. Init => I
  <2> SUFFICES ASSUME Init
               PROVE  I
    BY Zenon
  <2>1. op = "exec" /\ fresh = 0 /\ dst \in Frames
        /\ \A t \in Frames, va \in Pages : pte[t][va].fr = 0
    BY DEF Init, NoPages, NoPage
  <2>2. Shown
    BY <2>1, Zenon DEF Shown, ForkCopied, Zeroed
  <2> QED
    BY <2>2, InitInv, InitFilled, Zenon DEF Placed
<1>2. I /\ [Next]_vars => I'
  <2> SUFFICES ASSUME Inv, ~saturated => Shown, Placed, [Next]_vars
               PROVE  I'
    BY Zenon
  <2>1. Inv'
    BY NextInv, Zenon
  <2>2. (~saturated' => ~saturated) /\ (~exhausted' => ~exhausted)
    BY SaturatedStays, ExhaustedStays, Zenon DEF Inv
  <2>3. ~exhausted' /\ ~saturated' => Filled'
    BY <2>2, NextPlaced, Zenon DEF Placed
  <2>4. ~saturated' => Shown'
    BY <2>2, NextShown, Zenon
  <2> QED
    BY <2>1, <2>3, <2>4, Zenon DEF Placed
<1>3. I => FramesAccounted
  <2> SUFFICES ASSUME Inv, Placed
               PROVE  FramesAccounted
    BY Zenon
  <2>1. TypeOK /\ RefcountsExact
    BY Zenon DEF Inv, Sound, FrameOK, Counted, RefcountsExact
  <2>2. NothingLost
    BY Zenon DEF Placed, Filled, NoneLost, AllOwned, NothingLost
  <2>3. BreakBacked
    <3> SUFFICES ASSUME ~exhausted, ~saturated, NEW p \in Procs, Live(p),
                        NEW va \in 0..(PagesUpTo(brk[p]) - 1)
                 PROVE  Pte(p, va).fr # 0
      BY Zenon DEF BreakBacked
    <3>1. Backed(p)
      BY Zenon DEF Placed, Filled, Live
    <3> QED
      BY <3>1, Zenon DEF Backed, Mapped, Pte
  <2> QED
    BY <2>1, <2>2, <2>3, Zenon DEF FramesAccounted
<1> QED
  BY <1>1, <1>2, <1>3, PTL DEF Spec
=============================================================================
