--------------------------- MODULE MemoryContents ---------------------------
(***************************************************************************)
(* What the frames hold and where they are, for every value of the         *)
(* constants: nothing is lost before memory is exhausted, the pages a      *)
(* process was promised are there, and copy-on-write is invisible.         *)
(*                                                                         *)
(* The reference counts of MemoryProofs are the ground.  On top of them,   *)
(* an operation in progress has left behind exactly what it has done so    *)
(* far: a fork has given the child the parent's frames but for todo, an    *)
(* exec the pages of the image but for todo, all zero, a brk the pages     *)
(* from the old break on but for todo.                                     *)
(***************************************************************************)
EXTENDS MemoryProofs

(* A step that cites no prover is left to the SMT solver. *)
USE SMTT(30)

ForkCopied == op = "fork" => \A va \in Pages :
  pte[dst][va].fr = IF va \in todo THEN 0 ELSE pte[pml4[caller]][va].fr

Zeroed ==
  /\ fresh # 0 => data[fresh] = Zero
  /\ op = "exec" => \A va \in Pages :
       pte[dst][va].fr # 0 => data[pte[dst][va].fr] = Zero

Shown == ForkCopied /\ Zeroed

-----------------------------------------------------------------------------
(* A frame that is still free is in no entry. *)
LEMMA FreeNowhere ==
  ASSUME Constants, TypeOK, Sound, NEW f \in Frames, f \notin used,
         NEW s \in spaces, NEW va \in Pages
  PROVE  pte[s][va].fr # f
<1>1. FrameOK(f)
  BY Zenon DEF Sound
<1>2. Mappers(f) = {}
  BY <1>1, FreeUnused, Zenon
<1>3. ASSUME pte[s][va].fr = f
      PROVE  <<s, va>> \in Mappers(f)
  BY <1>3, Zenon DEF Mappers
<1> QED
  BY <1>2, <1>3, Zenon

(* A new space is one that no process has. *)
LEMMA NewSpaceView ==
  ASSUME Constants, Inv, ~saturated, op = "none", fresh' = 0, lost' = lost,
         NEW s \in Frames, NewSpace(s)
  PROVE  /\ \A p \in Procs : pml4[p] # s
         /\ s \notin spaces
         /\ \A t \in Frames : t # s => pte'[t] = pte[t]
         /\ \A va \in Pages : pte'[s][va].fr = 0
         /\ data' = data /\ spaces' = spaces \cup {s}
<1>1. TypeOK /\ Control /\ Outside /\ Owners /\ \A g \in Frames : FrameOK(g)
  BY Zenon DEF Inv, Sound
<1>2. fresh' = fresh
  BY <1>1, Zenon DEF Control
<1>3. /\ s \notin spaces
      /\ \A t \in Frames : t # s => pte'[t] = pte[t]
      /\ \A va \in Pages : pte'[s][va] = NoPage
  BY <1>1, <1>2, NewSpaceRefs, Zenon
<1>4. \A p \in Procs : pml4[p] # s
  BY <1>1, <1>3, Sizes, Zenon DEF Owners
<1>5. data' = data /\ spaces' = spaces \cup {s}
  BY Zenon DEF NewSpace
<1> QED
  BY <1>3, <1>4, <1>5 DEF NoPage

(* Every step keeps what the tables show as the pages of their processes. *)
LEMMA NextShown ==
  Constants /\ Inv /\ ~saturated /\ Shown /\ [Next]_vars => Shown'
<1>ShownIdle.
    ASSUME op' \notin {"fork", "exec"}, fresh' = 0
    PROVE  Shown'
  BY <1>ShownIdle, Zenon DEF Shown, ForkCopied, Zeroed
<1>ShownSame.
    ASSUME Shown, UNCHANGED <<pte, data, pml4, op, caller, dst, todo, fresh>>
    PROVE  Shown'
  BY <1>ShownSame, Zenon DEF Shown, ForkCopied, Zeroed
<1>CowPageShown.
    ASSUME Constants, Inv, ~saturated, Shown, CowPage
    PROVE  Shown'
  <2> USE <1>CowPageShown
  <2>1. TypeOK /\ Control /\ Sound /\ Filling /\ op = "fork" /\ todo # {}
    BY Zenon DEF Inv, CowPage, Filling
  <2>2. /\ Next_va \in todo /\ Next_va \in Pages /\ caller \in Procs
        /\ pml4[caller] \in Frames /\ dst \in Frames /\ fresh = 0
    BY <2>1, ForkState, Zenon
  <2>3. PICK va \in Pages, src \in Frames, d \in Frames :
          va = Next_va /\ src = pml4[caller] /\ d = dst
    BY <2>2, Zenon
  <2>4. /\ pte' = [pte EXCEPT ![src][va] = Shared(pte[src][va]),
                              ![d][va] = Shared(pte[src][va])]
        /\ todo' = todo \ {va} /\ UNCHANGED <<pml4, op, caller, dst, fresh>>
    BY <2>3, Zenon DEF CowPage, procVars
  <2>5. Shared(pte[src][va]).fr = pte[src][va].fr
    <3>1. pte[src][va] \in Ptes
      BY <2>1 DEF TypeOK
    <3> QED
      BY <3>1, SharedPte, Zenon
  <2>6. src # d
    BY <2>1, <2>2, <2>3, Zenon DEF Sound, Owners
  <2>7. \A vb \in Pages :
          /\ pte'[src][vb].fr = pte[src][vb].fr
          /\ pte'[d][vb].fr = IF vb = va THEN pte[src][va].fr ELSE pte[d][vb].fr
    BY <2>1, <2>4, <2>5, <2>6, Zenon DEF TypeOK
  <2>8. \A vb \in Pages : pte[d][vb].fr = IF vb \in todo THEN 0 ELSE pte[src][vb].fr
    <3>1. \A vb \in Pages :
            pte[dst][vb].fr = IF vb \in todo THEN 0 ELSE pte[pml4[caller]][vb].fr
      BY <2>1, Zenon DEF Shown, ForkCopied
    <3> QED
      BY <2>3, <3>1, Zenon
  <2>9. ASSUME NEW vb \in Pages
        PROVE  pte'[d][vb].fr = IF vb \in todo' THEN 0 ELSE pte'[src][vb].fr
    <3>1. CASE vb = va
      BY Zenon, <2>4, <2>7, <3>1
    <3>2. CASE vb # va
      BY ZenonT(30), <2>4, <2>7, <2>8, <3>2
    <3> QED
      BY <3>1, <3>2, Zenon
  <2>10. pml4'[caller'] = src /\ dst' = d
    BY <2>3, <2>4, Zenon
  <2>11. ForkCopied'
    <3>1. ForkCopied' <=> (op' = "fork" => \A vb \in Pages :
            pte'[dst'][vb].fr = IF vb \in todo' THEN 0 ELSE pte'[pml4'[caller']][vb].fr)
      BY Zenon DEF ForkCopied
    <3> QED
      BY <2>9, <2>10, <3>1, Zenon
  <2>12. Zeroed'
    BY <2>1, <2>2, <2>4, Zenon DEF Zeroed
  <2> QED
    BY <2>11, <2>12, Zenon DEF Shown
<1>TakeFrameShown.
    ASSUME Constants, Inv, ~saturated, Shown, TakeFrame
    PROVE  Shown'
  <2> USE <1>TakeFrameShown
  <2>1. /\ TypeOK /\ Sound /\ op \in {"exec", "brk"}
        /\ UNCHANGED <<pte, op, dst>>
    BY Zenon DEF Inv, TakeFrame, spaceVars
  <2>2. PICK f \in Frames :
          /\ Taken(f) /\ data' = [data EXCEPT ![f] = Zero] /\ fresh' = f
    BY Zenon DEF TakeFrame
  <2>3. f \notin used /\ data \in [Frames -> Values]
    BY <2>1, <2>2, TakenFree, Zenon DEF Taken, TypeOK
  <2>4. data'[f] = Zero /\ \A g : g # f => data'[g] = data[g]
    BY <2>2, <2>3
  <2>5. dst \in spaces
    BY <2>1, Zenon DEF Sound, Owners
  <2>6. \A va \in Pages : pte[dst][va].fr # f
    BY <2>1, <2>3, <2>5, FreeNowhere, Zenon
  <2> QED
    BY <2>1, <2>2, <2>4, <2>6, Zenon DEF Shown, ForkCopied, Zeroed
<1>MapPageShown.
    ASSUME Constants, Inv, ~saturated, Shown, MapPage
    PROVE  Shown'
  <2> USE <1>MapPageShown
  <2>1. TypeOK /\ Control /\ Filling /\ fresh # 0 /\ Advance /\ data' = data
    BY Zenon DEF Inv, MapPage, frameVars
  <2>2. Next_va \in Pages /\ dst \in Frames /\ op \in {"exec", "brk", "stack"}
    BY <2>1, NextVa, Zenon DEF Control, Filling, TypeOK
  <2>3. CASE op # "exec"
    BY <2>1, <2>2, <2>3, <1>ShownIdle, Zenon DEF Advance, End
  <2>4. CASE op = "exec"
    <3>1. fresh' = 0 /\ op' = op /\ dst' = dst
      BY <2>1, <2>4, Zenon DEF Advance
    <3>2. PICK va \in Pages, d \in Frames : va = Next_va /\ d = dst
      BY <2>2, Zenon
    <3>3. pte' = [pte EXCEPT ![d][va] = Writable(fresh)]
      BY <3>2, Zenon DEF MapPage
    <3>4. \A vb \in Pages : pte'[d][vb].fr = IF vb = va THEN fresh ELSE pte[d][vb].fr
      BY <2>1, <3>3, Zenon DEF TypeOK, Writable
    <3>5. \A vb \in Pages : pte'[d][vb].fr # 0 => data[pte'[d][vb].fr] = Zero
      BY <2>1, <2>4, <3>2, <3>4, Zenon DEF Shown, Zeroed
    <3> QED
      BY <2>1, <2>4, <3>1, <3>2, <3>5, Zenon DEF Shown, ForkCopied, Zeroed
  <2> QED
    BY <2>3, <2>4, Zenon
<1>MapFailsShown.
    ASSUME Constants, Inv, ~saturated, Shown, MapFails
    PROVE  Shown'
  <2> USE <1>MapFailsShown
  <2>1. /\ TypeOK /\ Control /\ Filling /\ fresh # 0 /\ UNCHANGED <<pte, data, pml4>>
        /\ Advance \/ (End /\ UNCHANGED stack_low)
    BY Zenon DEF Inv, MapFails, frameVars, spaceVars
  <2>2. op \in {"exec", "brk", "stack"}
    BY <2>1, Zenon DEF Control, Filling, TypeOK
  <2>3. fresh' = 0 /\ (op' = "none" \/ UNCHANGED <<op, dst>>)
    BY <2>1, Zenon DEF Advance, End
  <2> QED
    BY <2>1, <2>2, <2>3, Zenon DEF Shown, ForkCopied, Zeroed
<1>ForkStartShown.
    ASSUME Constants, Inv, ~saturated, NEW p \in Procs, NEW c \in Procs, ForkStart(p, c)
    PROVE  Shown'
  <2> USE <1>ForkStartShown
  <2>1. /\ TypeOK /\ Control /\ op = "none" /\ state[p] = "live"
        /\ UNCHANGED <<pml4, lost>>
    BY Zenon DEF Inv, ForkStart, Idle, Live, procVars, histVars
  <2>2. PICK s \in Frames : NewSpace(s) /\ Begin("fork", p, s, Mapped(pml4[p]), 0, c)
    BY Zenon DEF ForkStart
  <2>3. /\ op' = "fork" /\ caller' = p /\ dst' = s /\ todo' = Mapped(pml4[p])
        /\ fresh' = 0
    BY <2>2, Zenon DEF Begin
  <2>4. PICK src \in Frames : src = pml4[p]
    BY <2>1, Zenon DEF TypeOK, Control
  <2>5. src # s /\ pte'[src] = pte[src] /\ \A va \in Pages : pte'[s][va].fr = 0
    BY <2>1, <2>2, <2>3, <2>4, NewSpaceView, Zenon
  <2>6. \A va \in Pages : va \in todo' <=> pte[src][va].fr # 0
    BY <2>3, <2>4, Zenon DEF Mapped
  <2>7. \A va \in Pages : pte'[s][va].fr = IF va \in todo' THEN 0 ELSE pte'[src][va].fr
    BY <2>5, <2>6, Zenon
  <2>8. pml4'[caller'] = src /\ dst' = s
    BY <2>1, <2>3, <2>4, Zenon
  <2>9. ForkCopied'
    <3>1. ForkCopied' <=> (op' = "fork" => \A vb \in Pages :
            pte'[dst'][vb].fr = IF vb \in todo' THEN 0 ELSE pte'[pml4'[caller']][vb].fr)
      BY Zenon DEF ForkCopied
    <3> QED
      BY <2>7, <2>8, <3>1, Zenon
  <2>10. Zeroed'
    BY <2>3, Zenon DEF Zeroed
  <2> QED
    BY <2>9, <2>10, Zenon DEF Shown
<1>ExecStartShown.
    ASSUME Constants, Inv, ~saturated, NEW p \in Procs, NEW n \in Images, ExecStart(p, n)
    PROVE  Shown'
  <2> USE <1>ExecStartShown
  <2>1. op = "none" /\ lost' = lost
    BY Zenon DEF ExecStart, Idle, histVars
  <2>2. PICK s \in Frames : NewSpace(s) /\ Begin("exec", p, s, ImagePages(n), 0, n)
    BY Zenon DEF ExecStart
  <2>3. op' = "exec" /\ dst' = s /\ fresh' = 0
    BY <2>2, Zenon DEF Begin
  <2>4. \A va \in Pages : pte'[s][va].fr = 0
    BY <2>1, <2>2, <2>3, NewSpaceView, Zenon
  <2> QED
    BY <2>3, <2>4, Zenon DEF Shown, ForkCopied, Zeroed
<1>StackFaultShown.
    ASSUME Constants, Inv, NEW p \in Procs, NEW va \in Pages, StackFault(p, va)
    PROVE  Shown'
  <2> USE <1>StackFaultShown
  <2>1. /\ TypeOK /\ Control /\ op = "none" /\ fresh = 0
    BY Zenon DEF Inv, StackFault, Idle, Control
  <2>2. CASE \E f \in Frames :
               /\ Taken(f)
               /\ data' = [data EXCEPT ![f] = Zero]
               /\ Begin("stack", p, pml4[p], {va}, f, 0)
    <3>1. PICK f \in Frames : /\ data' = [data EXCEPT ![f] = Zero]
                              /\ op' = "stack" /\ fresh' = f
      BY <2>2, Zenon DEF Begin
    <3>2. data'[f] = Zero
      BY <2>1, <3>1, Zenon DEF TypeOK
    <3> QED
      BY <3>1, <3>2, Zenon DEF Shown, ForkCopied, Zeroed
  <2>3. CASE UNCHANGED opVars
    <3>1. op' = "none" /\ fresh' = 0
      BY <2>1, <2>3, Zenon DEF opVars
    <3> QED
      BY <3>1, <1>ShownIdle, Zenon
  <2> QED
    BY <2>2, <2>3, Zenon DEF StackFault
<1> SUFFICES ASSUME Constants, Inv, ~saturated, Shown, [Next]_vars
             PROVE  Shown'
  BY Zenon
<1>0. Control
  BY Zenon DEF Inv
<1>1. CASE UNCHANGED vars
  BY <1>1, <1>ShownSame, Zenon DEF vars, frameVars, spaceVars, procVars, opVars
<1>2. CASE AllocTable
  BY <1>2, <1>ShownSame, Zenon DEF AllocTable, procVars, opVars
<1>3. CASE CowPage \/ TakeFrame \/ MapPage \/ MapFails
  BY <1>3, <1>CowPageShown, <1>TakeFrameShown, <1>MapPageShown, <1>MapFailsShown, Zenon
<1>4. CASE CowFails \/ NoFrame \/ ForkEnd \/ ExecEnd \/ BrkEnd
  <2>1. End
    BY <1>4, Zenon DEF CowFails, NoFrame, ForkEnd, ExecEnd, BrkEnd
  <2> QED
    BY <2>1, <1>ShownIdle, Zenon DEF End
<1>5. ASSUME NEW p \in Procs,
             \/ \E c \in Procs : ForkStart(p, c)
             \/ \E n \in Images : ExecStart(p, n)
      PROVE  Shown'
  BY <1>5, <1>ForkStartShown, <1>ExecStartShown, Zenon
<1>6. ASSUME NEW p \in Procs, NEW b \in Breaks, BrkStart(p, b)
      PROVE  Shown'
  BY <1>6, <1>ShownIdle, Zenon DEF BrkStart, Begin
<1>7. ASSUME NEW p \in Procs, Exit(p) \/ Reap(p)
      PROVE  Shown'
  <2>1. op' = "none" /\ fresh' = 0
    BY <1>0, <1>7, Zenon DEF Exit, Reap, Idle, opVars, Control
  <2> QED
    BY <2>1, <1>ShownIdle, Zenon
<1>8. ASSUME NEW p \in Procs, NEW va \in Pages,
             \/ \E v \in Values : UserStore(p, va, v) \/ KernelStore(p, va, v)
             \/ CowFault(p, va) \/ BadFault(p, va)
      PROVE  Shown'
  <2>1. op = "none" /\ UNCHANGED opVars
    BY <1>8, Zenon DEF UserStore, KernelStore, Store, CowFault, BadFault, Idle
  <2>2. op' = "none" /\ fresh' = 0
    BY <1>0, <2>1, Zenon DEF opVars, Control
  <2> QED
    BY <2>2, <1>ShownIdle, Zenon
<1>9. ASSUME NEW p \in Procs, NEW va \in Pages, StackFault(p, va)
      PROVE  Shown'
  BY <1>9, <1>StackFaultShown, Zenon
<1> QED
  BY <1>1, <1>2, <1>3, <1>4, <1>5, <1>6, <1>7, <1>8, <1>9, Zenon DEF Next

-----------------------------------------------------------------------------
(* What the processes see *)

Cell(p, va) == IF pml4[p] = 0 \/ pte[pml4[p]][va].fr = 0 THEN Absent
               ELSE data[pte[pml4[p]][va].fr]

(* What processes see, page by page. *)
LEMMA SeenCells == Seen = [p \in Procs |-> [va \in Pages |-> Cell(p, va)]]
BY Zenon DEF Seen, View, Pte, Cell

(* The same of the next state. *)
LEMMA SeenCellsPrime == Seen' = [p \in Procs |-> [va \in Pages |-> Cell(p, va)']]
BY Zenon DEF Seen, View, Pte, Cell

(* A step that changes no page changes nothing that is seen. *)
LEMMA SameCells ==
  ASSUME \A p \in Procs, va \in Pages : Cell(p, va)' = Cell(p, va)
  PROVE  Seen' = Seen
BY SeenCells, SeenCellsPrime, Zenon

(* Nobody sees anything when the frames of the processes and what they     *)
(* hold stay as they are.                                                  *)
LEMMA SeenSame ==
  ASSUME pml4' = pml4,
         \A p \in Procs, va \in Pages : pml4[p] # 0 =>
           /\ pte'[pml4[p]][va].fr = pte[pml4[p]][va].fr
           /\ pte[pml4[p]][va].fr # 0 =>
                data'[pte[pml4[p]][va].fr] = data[pte[pml4[p]][va].fr]
  PROVE  Seen' = Seen
<1>1. ASSUME NEW p \in Procs, NEW va \in Pages
      PROVE  Cell(p, va)' = Cell(p, va)
  <2>1. Cell(p, va)' = IF pml4'[p] = 0 \/ pte'[pml4'[p]][va].fr = 0 THEN Absent
                       ELSE data'[pte'[pml4'[p]][va].fr]
    BY Zenon DEF Cell
  <2>2. CASE pml4[p] = 0
    BY <2>1, <2>2, Zenon DEF Cell
  <2>3. CASE pml4[p] # 0
    BY <2>1, <2>3, Zenon DEF Cell
  <2> QED
    BY <2>2, <2>3, Zenon
<1> QED
  BY <1>1, SameCells, Zenon

(* The space of a process is a space. *)
LEMMA SpaceOf ==
  ASSUME Constants, Inv, ~saturated, NEW p \in Procs, pml4[p] # 0
  PROVE  pml4[p] \in spaces /\ pml4[p] \in Frames
BY Zenon DEF Inv, Sound, Owners, TypeOK

(* The page fault that copies a page, or returns the page to its last      *)
(* owner, is invisible.                                                    *)
LEMMA CowFaultSeen ==
  ASSUME Constants, Inv, ~saturated, NEW p \in Procs, NEW va \in Pages, CowFault(p, va)
  PROVE  Seen' = Seen
<1>1. /\ TypeOK /\ Control /\ Sound /\ Owners /\ state[p] = "live"
      /\ pte[pml4[p]][va].fr # 0 /\ pml4' = pml4
  BY Zenon DEF Inv, Sound, CowFault, Live, Pte, procVars
<1>2. PICK s \in spaces : s = pml4[p]
  BY <1>1, SpaceOf, Zenon DEF Control
<1>3. s \in Frames
  BY <1>1, Zenon DEF TypeOK
<1>4. PICK old \in Frames : old = pte[s][va].fr
  <2>1. pte[s][va] \in Ptes
    BY <1>1, <1>3, Zenon DEF TypeOK
  <2> QED
    BY <1>1, <1>2, <2>1, Zenon DEF Ptes
<1>5. \A q \in Procs : pml4[q] # 0 => pml4[q] \in Frames
  BY SpaceOf, Zenon
<1>6. CASE /\ pte' = [pte EXCEPT ![s][va] = Writable(old)]
           /\ UNCHANGED <<frameVars, halted, exhausted>>
  <2>1. data' = data
    BY <1>6, Zenon DEF frameVars
  <2>2. \A t \in Frames, vb \in Pages : pte'[t][vb].fr = pte[t][vb].fr
    BY <1>1, <1>3, <1>4, <1>6, Zenon DEF TypeOK, Writable
  <2> QED
    BY <1>1, <1>5, <2>1, <2>2, SeenSame, Zenon
<1>7. CASE \E f \in Frames :
             /\ Free # {} /\ f = Least(Free)
             /\ data' = [data EXCEPT ![f] = data[old]]
             /\ pte' = [pte EXCEPT ![s][va] = Writable(f)]
  <2>1. PICK f \in Frames :
          /\ Free # {} /\ f = Least(Free)
          /\ data' = [data EXCEPT ![f] = data[old]]
          /\ pte' = [pte EXCEPT ![s][va] = Writable(f)]
    BY Zenon, <1>7
  <2>2. f \notin used /\ f # 0
    BY <1>1, <2>1, TakenFree, Sizes, Zenon
  <2>3. data'[f] = data[old] /\ \A g : g # f => data'[g] = data[g]
    BY <1>1, <2>1 DEF TypeOK
  <2>4. \A t \in Frames, vb \in Pages :
          pte'[t][vb].fr = IF t = s /\ vb = va THEN f ELSE pte[t][vb].fr
    BY <1>1, <1>3, <2>1, Zenon DEF TypeOK, Writable
  <2>5. ASSUME NEW q \in Procs, NEW vb \in Pages
        PROVE  Cell(q, vb)' = Cell(q, vb)
    <3>1. Cell(q, vb)' = IF pml4[q] = 0 \/ pte'[pml4[q]][vb].fr = 0 THEN Absent
                         ELSE data'[pte'[pml4[q]][vb].fr]
      BY <1>1, Zenon DEF Cell
    <3>2. CASE pml4[q] = 0
      BY <3>1, <3>2, Zenon DEF Cell
    <3>3. CASE pml4[q] = s /\ vb = va
      <4>1. pte'[pml4[q]][vb].fr = f /\ pte[pml4[q]][vb].fr = old
        BY <1>3, <1>4, <2>4, <3>3, Zenon
      <4>2. old # 0 /\ pml4[q] # 0
        BY <1>3, <3>3, Sizes, Zenon
      <4> QED
        BY <2>2, <2>3, <3>1, <4>1, <4>2, Zenon DEF Cell
    <3>4. CASE pml4[q] # 0 /\ ~(pml4[q] = s /\ vb = va)
      <4>1. pml4[q] \in Frames /\ pml4[q] \in spaces
        BY <3>4, SpaceOf, Zenon
      <4>2. pte'[pml4[q]][vb].fr = pte[pml4[q]][vb].fr
        BY <2>4, <3>4, <4>1, Zenon
      <4>3. pte[pml4[q]][vb].fr # f
        BY <1>1, <2>2, <4>1, FreeNowhere, Zenon
      <4> QED
        BY <2>3, <3>1, <3>4, <4>2, <4>3, Zenon DEF Cell
    <3> QED
      BY <3>2, <3>3, <3>4, Zenon
  <2> QED
    BY <2>5, SameCells, Zenon
<1>8. CASE UNCHANGED <<frameVars, pte>>
  <2>1. data' = data /\ pte' = pte
    BY <1>8, Zenon DEF frameVars
  <2> QED
    BY <1>1, <2>1, SeenSame, Zenon
<1> QED
  BY <1>2, <1>4, <1>6, <1>7, <1>8, Zenon DEF CowFault, Pte

(* A step of the address spaces is a step of private memories, a store of  *)
(* the kernel to a shared page, or invisible.                              *)
LEMMA StepPrivate ==
  Constants /\ Inv /\ ~saturated /\ Shown /\ Next => [Private!Next]_Seen \/ KernelStoreToShared
<1>CowPageSeen.
    ASSUME Constants, Inv, ~saturated, CowPage
    PROVE  Seen' = Seen
  <2> USE <1>CowPageSeen
  <2>1. TypeOK /\ Control /\ Sound /\ Filling /\ op = "fork" /\ UNCHANGED <<data, pml4>>
    BY Zenon DEF Inv, CowPage, procVars
  <2>2. PICK va \in Pages, src \in Frames, d \in Frames :
          va = Next_va /\ src = pml4[caller] /\ d = dst
    BY <2>1, ForkState, Zenon
  <2>3. /\ pte' = [pte EXCEPT ![src][va] = Shared(pte[src][va]),
                              ![d][va] = Shared(pte[src][va])]
    BY <2>2, Zenon DEF CowPage
  <2>4. Shared(pte[src][va]).fr = pte[src][va].fr
    <3>1. pte[src][va] \in Ptes
      BY <2>1 DEF TypeOK
    <3> QED
      BY <3>1, SharedPte, Zenon
  <2>5. \A q \in Procs : pml4[q] # d
    BY <2>1, <2>2, Zenon DEF Sound, Owners
  <2>6. \A t \in Frames, vb \in Pages : t # d => pte'[t][vb].fr = pte[t][vb].fr
    BY <2>1, <2>3, <2>4, Zenon DEF TypeOK
  <2>7. \A q \in Procs : pml4[q] # 0 => pml4[q] \in Frames
    BY <2>1, Zenon DEF TypeOK
  <2> QED
    BY <2>1, <2>5, <2>6, <2>7, SeenSame, Zenon
<1>CowFailsSeen.
    ASSUME Constants, Inv, ~saturated, CowFails
    PROVE  Seen' = Seen
  <2> USE <1>CowFailsSeen
  <2>1. TypeOK /\ Control /\ Filling /\ op = "fork" /\ UNCHANGED <<data, pml4>>
    BY Zenon DEF Inv, CowFails, procVars, frameVars
  <2>2. PICK va \in Pages, src \in Frames : va = Next_va /\ src = pml4[caller]
    BY <2>1, ForkState, Zenon
  <2>3. pte' = [pte EXCEPT ![src][va] = Shared(pte[src][va])]
    BY <2>1, <2>2, Zenon DEF CowFails, TypeOK
  <2>4. Shared(pte[src][va]).fr = pte[src][va].fr
    <3>1. pte[src][va] \in Ptes
      BY <2>1 DEF TypeOK
    <3> QED
      BY <3>1, SharedPte, Zenon
  <2>5. \A t \in Frames, vb \in Pages : pte'[t][vb].fr = pte[t][vb].fr
    BY <2>1, <2>3, <2>4, Zenon DEF TypeOK
  <2>6. \A q \in Procs : pml4[q] # 0 => pml4[q] \in Frames
    BY <2>1, Zenon DEF TypeOK
  <2> QED
    BY <2>1, <2>5, <2>6, SeenSame, Zenon
(* Clearing a free frame is invisible. *)
<1>ClearFree.
    ASSUME Constants, Inv, ~saturated, NEW f \in Frames, f \notin used, NEW v,
           data' = [data EXCEPT ![f] = v], UNCHANGED <<pml4, pte>>
    PROVE  Seen' = Seen
  <2> USE <1>ClearFree
  <2>1. TypeOK /\ Sound
    BY Zenon DEF Inv
  <2>2. \A g : g # f => data'[g] = data[g]
    BY <2>1 DEF TypeOK
  <2>3. ASSUME NEW p \in Procs, NEW va \in Pages, pml4[p] # 0
        PROVE  pte[pml4[p]][va].fr # f
    BY <2>1, <2>3, SpaceOf, FreeNowhere, Zenon
  <2> QED
    BY <2>2, <2>3, SeenSame, Zenon
<1>NewSpaceSeen.
    ASSUME Constants, Inv, ~saturated, op = "none", fresh' = 0, lost' = lost,
           pml4' = pml4, NEW s \in Frames, NewSpace(s)
    PROVE  Seen' = Seen
  <2> USE <1>NewSpaceSeen
  <2>1. /\ \A p \in Procs : pml4[p] # s
        /\ \A t \in Frames : t # s => pte'[t] = pte[t]
        /\ data' = data
    BY NewSpaceView, Zenon
  <2>2. \A q \in Procs : pml4[q] # 0 => pml4[q] \in Frames
    BY SpaceOf, Zenon
  <2> QED
    BY <2>1, <2>2, SeenSame, Zenon
<1>OneCell.
    ASSUME NEW p \in Procs, NEW va \in Pages, NEW v,
           \A q \in Procs, vb \in Pages :
             Cell(q, vb)' = IF q = p /\ vb = va THEN v ELSE Cell(q, vb)
    PROVE  Seen' = [Seen EXCEPT ![p][va] = v]
  <2> USE <1>OneCell
  <2>1. Seen' = [q \in Procs |-> [vb \in Pages |->
                   IF q = p /\ vb = va THEN v ELSE Cell(q, vb)]]
    BY SeenCellsPrime, Zenon
  <2> QED
    BY <2>1, SeenCells, Zenon
<1>OneRow.
    ASSUME NEW p \in Procs, NEW row,
           \A q \in Procs, vb \in Pages : q # p => Cell(q, vb)' = Cell(q, vb),
           row = [vb \in Pages |-> row[vb]],
           \A vb \in Pages : Cell(p, vb)' = row[vb]
    PROVE  Seen' = [Seen EXCEPT ![p] = row]
  <2> USE <1>OneRow
  <2>1. Seen' = [q \in Procs |-> IF q = p THEN row ELSE [vb \in Pages |-> Cell(q, vb)]]
    <3>1. ASSUME NEW q \in Procs, q # p
          PROVE  [vb \in Pages |-> Cell(q, vb)'] = [vb \in Pages |-> Cell(q, vb)]
      BY <3>1, Zenon
    <3>2. [vb \in Pages |-> Cell(p, vb)'] = row
      <4>1. [vb \in Pages |-> Cell(p, vb)'] = [vb \in Pages |-> row[vb]]
        BY Zenon
      <4> QED
        BY <4>1, Zenon
    <3>3. \A q \in Procs : [vb \in Pages |-> Cell(q, vb)'] =
                           IF q = p THEN row ELSE [vb \in Pages |-> Cell(q, vb)]
      BY <3>1, <3>2, Zenon
    <3> QED
      BY <3>3, SeenCellsPrime, Zenon
  <2> QED
    BY <2>1, SeenCells, Zenon
(* A page of the heap or the stack appears, and holds zeros. *)
<1>MapPageSeen.
    ASSUME Constants, Inv, ~saturated, Shown, MapPage
    PROVE  Seen' = Seen \/ \E p \in Procs, va \in Pages : Private!Grow(p, va)
  <2> USE <1>MapPageSeen
  <2>1. /\ TypeOK /\ Control /\ Owners /\ Filling /\ fresh # 0
        /\ UNCHANGED <<data, pml4>>
    BY Zenon DEF Inv, Sound, MapPage, frameVars
  <2>2. Next_va \in Pages /\ dst \in Frames /\ op \in {"exec", "brk", "stack"}
        /\ caller \in Procs
    BY <2>1, NextVa, Zenon DEF Control, Filling, TypeOK
  <2>3. PICK va \in Pages, d \in Frames, p \in Procs :
          va = Next_va /\ d = dst /\ p = caller
    BY <2>2, Zenon
  <2>4. pte' = [pte EXCEPT ![d][va] = Writable(fresh)]
    BY <2>3, Zenon DEF MapPage
  <2>5. \A t \in Frames, vb \in Pages :
          pte'[t][vb].fr = IF t = d /\ vb = va THEN fresh ELSE pte[t][vb].fr
    BY <2>1, <2>4, Zenon DEF TypeOK, Writable
  <2>6. \A q \in Procs : pml4[q] # 0 => pml4[q] \in Frames
    BY SpaceOf, Zenon
  <2>7. CASE op = "exec"
    <3>1. \A q \in Procs : pml4[q] # d
      BY <2>1, <2>3, <2>7, Zenon DEF Owners
    <3> QED
      BY Zenon, <2>1, <2>5, <2>6, <3>1, SeenSame
  <2>8. CASE op # "exec"
    <3>1. pml4[p] = d /\ \A q \in Procs : q # p => pml4[q] # d
      BY <2>1, <2>2, <2>3, <2>8, Sizes, Zenon DEF Owners, Control
    <3>2. data[fresh] = Zero
      BY <2>1, Zenon DEF Shown, Zeroed
    <3>3. ASSUME NEW q \in Procs, NEW vb \in Pages
          PROVE  Cell(q, vb)' = IF q = p /\ vb = va THEN Zero ELSE Cell(q, vb)
      <4>1. Cell(q, vb)' = IF pml4[q] = 0 \/ pte'[pml4[q]][vb].fr = 0 THEN Absent
                           ELSE data[pte'[pml4[q]][vb].fr]
        BY <2>1, Zenon DEF Cell
      <4>2. CASE pml4[q] = 0
        BY <3>1, <4>1, <4>2, Sizes, Zenon DEF Cell
      <4>3. CASE pml4[q] # 0
        <5>1. pte'[pml4[q]][vb].fr = IF q = p /\ vb = va THEN fresh
                                     ELSE pte[pml4[q]][vb].fr
          BY <2>5, <2>6, <3>1, <4>3, Zenon
        <5> QED
          BY <2>1, <3>2, <4>1, <4>3, <5>1, Zenon DEF Cell
      <4> QED
        BY <4>2, <4>3, Zenon
    <3>4. Seen' = [Seen EXCEPT ![p][va] = Zero]
      BY <3>3, <1>OneCell, Zenon
    <3> QED
      BY <3>4, Zenon DEF Private!Grow
  <2> QED
    BY <2>7, <2>8, Zenon
(* A store to a writable page is seen by its process alone. *)
<1>StoreSeen.
    ASSUME Constants, Inv, ~saturated, NEW p \in Procs, NEW va \in Pages,
           NEW v \in Values, state[p] = "live", Pte(p, va).fr # 0, Pte(p, va).rw,
           Store(p, va, v)
    PROVE  Private!Write(p, va, v)
  <2> USE <1>StoreSeen
  <2>1. TypeOK /\ Control /\ Sound /\ Owners /\ UNCHANGED <<pte, pml4>>
    BY Zenon DEF Inv, Sound, Store, spaceVars, procVars
  <2>2. PICK s \in spaces : s = pml4[p]
    BY <2>1, SpaceOf, Zenon DEF Control
  <2>3. s \in Frames /\ s # 0
    BY <2>1, <2>2, Sizes, Zenon DEF TypeOK
  <2>4. PICK f \in Frames : f = pte[s][va].fr
    <3>1. pte[s][va] \in Ptes
      BY <2>1, <2>3, Zenon DEF TypeOK
    <3> QED
      BY <2>2, <3>1, Zenon DEF Ptes, Pte
  <2>5. Mappers(f) = {<<s, va>>}
    <3>1. <<s, va>> \in Mappers(f) /\ pte[s][va].rw
      BY <2>2, <2>4, Zenon DEF Mappers, Pte
    <3>2. RwAlone(f)
      BY <2>1, Zenon DEF Sound, FrameOK
    <3> QED
      BY <3>1, <3>2, Zenon DEF RwAlone
  <2>6. data' = [data EXCEPT ![f] = v] /\ data \in [Frames -> Values]
    BY <2>1, <2>2, <2>4, Zenon DEF Store, Pte, TypeOK
  <2>7. data'[f] = v /\ \A g : g # f => data'[g] = data[g]
    BY <2>6
  <2>8. ASSUME NEW q \in Procs, NEW vb \in Pages, pml4[q] # 0, pte[pml4[q]][vb].fr = f
        PROVE  q = p /\ vb = va
    <3>1. pml4[q] \in spaces
      BY <2>8, SpaceOf, Zenon
    <3>2. <<pml4[q], vb>> \in Mappers(f)
      BY <2>8, <3>1, Zenon DEF Mappers
    <3>3. pml4[q] = s /\ vb = va
      BY <2>5, <3>2
    <3> QED
      BY <2>1, <2>2, <2>3, <3>3, Zenon DEF Owners
  <2>9. ASSUME NEW q \in Procs, NEW vb \in Pages
        PROVE  Cell(q, vb)' = IF q = p /\ vb = va THEN v ELSE Cell(q, vb)
    <3>1. Cell(q, vb)' = IF pml4[q] = 0 \/ pte[pml4[q]][vb].fr = 0 THEN Absent
                         ELSE data'[pte[pml4[q]][vb].fr]
      BY <2>1, Zenon DEF Cell
    <3>2. CASE q = p /\ vb = va
      BY <2>2, <2>3, <2>4, <2>7, <3>1, <3>2, Sizes, Zenon
    <3>3. CASE ~(q = p /\ vb = va)
      BY <2>7, <2>8, <3>1, <3>3, Zenon DEF Cell
    <3> QED
      BY <3>2, <3>3, Zenon
  <2>10. Seen' = [Seen EXCEPT ![p][va] = v]
    BY <2>9, <1>OneCell, Zenon
  <2>11. Seen[p][va] # Absent
    <3>1. Seen[p][va] = Cell(p, va)
      BY SeenCells, Zenon
    <3>2. Cell(p, va) = data[f] /\ data[f] \in Values
      BY <2>2, <2>3, <2>4, <2>6, Sizes, Zenon DEF Cell
    <3> QED
      BY <3>1, <3>2, Zenon DEF Constants
  <2> QED
    BY <2>10, <2>11, Zenon DEF Private!Write
(* The child of a fork sees what its parent sees. *)
<1>ForkEndSeen.
    ASSUME Constants, Inv, ~saturated, Shown, ForkEnd
    PROVE  Seen' = Seen \/ \E p, c \in Procs : Private!Fork(p, c)
  <2> USE <1>ForkEndSeen
  <2>1. /\ TypeOK /\ Control /\ Owners /\ op = "fork" /\ todo = {}
        /\ UNCHANGED <<data, pte>>
    BY Zenon DEF Inv, Sound, ForkEnd, frameVars, spaceVars
  <2>2. PICK p \in Procs, c \in Procs, d \in Frames : p = caller /\ c = arg /\ d = dst
    BY <2>1, Zenon DEF TypeOK, Control
  <2>3. CASE UNCHANGED procVars
    <3>1. pml4' = pml4
      BY <2>3, Zenon DEF procVars
    <3> QED
      BY <2>1, <3>1, SeenSame, Zenon
  <2>4. CASE pml4' = [pml4 EXCEPT ![arg] = dst]
    <3>1. state[c] = "none" /\ pml4[c] = 0 /\ pml4[p] # 0 /\ d # 0 /\ p # c
      BY <2>1, <2>2, Sizes, Zenon DEF Control
    <3>2. \A q \in Procs : pml4'[q] = IF q = c THEN d ELSE pml4[q]
      BY <2>1, <2>2, <2>4, Zenon DEF TypeOK
    <3>3. \A va \in Pages : pte[d][va].fr = pte[pml4[p]][va].fr
      BY <2>1, <2>2, Zenon DEF Shown, ForkCopied
    <3>4. ASSUME NEW q \in Procs, NEW vb \in Pages, q # c
          PROVE  Cell(q, vb)' = Cell(q, vb)
      <4>1. Cell(q, vb)' = IF pml4'[q] = 0 \/ pte'[pml4'[q]][vb].fr = 0 THEN Absent
                           ELSE data'[pte'[pml4'[q]][vb].fr]
        BY Zenon DEF Cell
      <4> QED
        BY <2>1, <3>2, <3>4, <4>1, Zenon DEF Cell
    <3>5. ASSUME NEW vb \in Pages
          PROVE  Cell(c, vb)' = Seen[p][vb]
      <4>1. Cell(c, vb)' = IF pml4'[c] = 0 \/ pte'[pml4'[c]][vb].fr = 0 THEN Absent
                           ELSE data'[pte'[pml4'[c]][vb].fr]
        BY Zenon DEF Cell
      <4>2. Cell(c, vb)' = Cell(p, vb)
        BY <2>1, <3>1, <3>2, <3>3, <4>1, Zenon DEF Cell
      <4> QED
        BY <4>2, SeenCells, Zenon
    <3>6. Seen[p] = [vb \in Pages |-> Seen[p][vb]]
      BY SeenCells, Zenon
    <3>7. PICK row : row = Seen[p]
      BY Zenon
    <3>8. Seen' = [Seen EXCEPT ![c] = row]
      BY <3>4, <3>5, <3>6, <3>7, <1>OneRow, Zenon
    <3>9. Seen[c] = Private!NoMemory
      <4>1. \A vb \in Pages : Cell(c, vb) = Absent
        BY <3>1, Zenon DEF Cell
      <4> QED
        BY <4>1, SeenCells, Zenon DEF Private!NoMemory
    <3>10. CASE Seen[p] = Private!NoMemory
      <4>1. Seen' = [Seen EXCEPT ![c] = Seen[c]]
        BY <3>7, <3>8, <3>9, <3>10, Zenon
      <4>2. Seen = [q \in Procs |-> Seen[q]]
        BY SeenCells, Zenon
      <4> QED
        BY <4>1, <4>2, Zenon
    <3>11. CASE Seen[p] # Private!NoMemory
      <4>1. Private!Fork(p, c)
        BY <3>7, <3>8, <3>9, <3>11, Zenon DEF Private!Fork
      <4> QED
        BY <4>1, Zenon
    <3> QED
      BY <3>10, <3>11, Zenon
  <2> QED
    BY <2>3, <2>4, Zenon DEF ForkEnd
(* Releasing a space is invisible to the processes that have others. *)
<1>FreeSeen.
    ASSUME Constants, Inv, ~saturated, NEW p \in Procs, pml4[p] # 0,
           FreeUserSpace(pml4[p]), NEW q \in Procs, NEW vb \in Pages, q # p,
           pml4'[q] = pml4[q]
    PROVE  Cell(q, vb)' = Cell(q, vb)
  <2> USE <1>FreeSeen
  <2>1. TypeOK /\ Owners
    BY Zenon DEF Inv, Sound
  <2>2. PICK s \in Frames : s = pml4[p]
    BY <2>1, Zenon DEF TypeOK
  <2>3. pte' = [pte EXCEPT ![s] = NoPages] /\ data' = data
    BY <2>2, Zenon DEF FreeUserSpace
  <2>4. \A t \in Frames : t # s => pte'[t] = pte[t]
    BY <2>1, <2>3, Zenon DEF TypeOK
  <2>5. Cell(q, vb)' = IF pml4'[q] = 0 \/ pte'[pml4'[q]][vb].fr = 0 THEN Absent
                       ELSE data'[pte'[pml4'[q]][vb].fr]
    BY Zenon DEF Cell
  <2>6. CASE pml4[q] = 0
    BY <2>5, <2>6, Zenon DEF Cell
  <2>7. CASE pml4[q] # 0
    <3>1. pml4[q] \in Frames /\ pml4[q] # s
      BY <2>1, <2>2, <2>7, Zenon DEF TypeOK, Owners
    <3>2. pte'[pml4[q]] = pte[pml4[q]]
      BY <2>4, <3>1, Zenon
    <3> QED
      BY <2>3, <2>5, <2>7, <3>2 DEF Cell
  <2> QED
    BY <2>6, <2>7, Zenon
(* A process that has called exec sees the new image and nothing else. *)
<1>ExecEndSeen.
    ASSUME Constants, Inv, ~saturated, Shown, ExecEnd
    PROVE  \E p \in Procs : Private!Exec(p)
  <2> USE <1>ExecEndSeen
  <2>1. /\ TypeOK /\ Control /\ Sound /\ Owners /\ op = "exec"
        /\ pml4' = [pml4 EXCEPT ![caller] = dst]
    BY Zenon DEF Inv, Sound, ExecEnd
  <2>2. PICK p \in Procs, d \in Frames : p = caller /\ d = dst
    BY <2>1, Zenon DEF TypeOK, Control
  <2>3. \A q \in Procs : pml4'[q] = IF q = p THEN d ELSE pml4[q]
    BY <2>1, <2>2, Zenon DEF TypeOK
  <2>4. d # 0 /\ pml4[p] # d
    BY <2>1, <2>2, Sizes, Zenon DEF Owners
  <2>5. \/ pml4[p] = 0 /\ UNCHANGED <<data, pte>>
        \/ pml4[p] # 0 /\ FreeUserSpace(pml4[p])
    BY <2>2, Zenon DEF ExecEnd, frameVars, spaceVars
  <2>6. pte'[d] = pte[d] /\ data' = data
    <3>1. CASE UNCHANGED <<data, pte>>
      BY <3>1, Zenon
    <3>2. CASE pml4[p] # 0 /\ FreeUserSpace(pml4[p])
      BY <2>1, <2>4, <3>2, Zenon DEF FreeUserSpace, TypeOK
    <3> QED
      BY <2>5, <3>1, <3>2, Zenon
  <2>7. ASSUME NEW q \in Procs, NEW vb \in Pages, q # p
        PROVE  Cell(q, vb)' = Cell(q, vb)
    <3>1. CASE UNCHANGED <<data, pte>>
      <4>1. Cell(q, vb)' = IF pml4'[q] = 0 \/ pte'[pml4'[q]][vb].fr = 0 THEN Absent
                           ELSE data'[pte'[pml4'[q]][vb].fr]
        BY Zenon DEF Cell
      <4> QED
        BY <2>3, <2>7, <3>1, <4>1, Zenon DEF Cell
    <3>2. CASE pml4[p] # 0 /\ FreeUserSpace(pml4[p])
      BY <2>3, <2>7, <3>2, <1>FreeSeen, Zenon
    <3> QED
      BY <2>5, <3>1, <3>2, Zenon
  <2>8. PICK image : image = Mapped(d)
    BY Zenon
  <2>9. PICK row : row = [va \in Pages |-> IF va \in image THEN Zero ELSE Absent]
    BY Zenon
  <2>10. ASSUME NEW vb \in Pages
         PROVE  Cell(p, vb)' = row[vb]
    <3>1. Cell(p, vb)' = IF pml4'[p] = 0 \/ pte'[pml4'[p]][vb].fr = 0 THEN Absent
                         ELSE data'[pte'[pml4'[p]][vb].fr]
      BY Zenon DEF Cell
    <3>2. Cell(p, vb)' = IF pte[d][vb].fr = 0 THEN Absent ELSE data[pte[d][vb].fr]
      BY <2>3, <2>4, <2>6, <3>1, Zenon
    <3>3. pte[d][vb].fr # 0 => data[pte[d][vb].fr] = Zero
      BY <2>1, <2>2, Zenon DEF Shown, Zeroed
    <3>4. vb \in image <=> pte[d][vb].fr # 0
      BY <2>8, Zenon DEF Mapped
    <3> QED
      BY <2>9, <3>2, <3>3, <3>4, Zenon
  <2>11. Seen' = [Seen EXCEPT ![p] = row]
    <3>1. row = [va \in Pages |-> row[va]]
      BY <2>9, Zenon
    <3> QED
      BY <2>7, <2>10, <3>1, <1>OneRow, Zenon
  <2>12. image \in SUBSET Pages
    BY <2>8, Zenon DEF Mapped
  <2> QED
    BY <2>9, <2>11, <2>12, Zenon DEF Private!Exec
<1>ReapSeen.
    ASSUME Constants, Inv, ~saturated, NEW p \in Procs, Reap(p)
    PROVE  Private!Release(p)
  <2> USE <1>ReapSeen
  <2>1. /\ TypeOK /\ Control /\ state[p] = "zombie" /\ FreeUserSpace(pml4[p])
        /\ pml4' = [pml4 EXCEPT ![p] = 0]
    BY Zenon DEF Inv, Reap
  <2>2. pml4[p] # 0 /\ \A q \in Procs : pml4'[q] = IF q = p THEN 0 ELSE pml4[q]
    BY <2>1, Zenon DEF TypeOK, Control
  <2>3. ASSUME NEW q \in Procs, NEW vb \in Pages, q # p
        PROVE  Cell(q, vb)' = Cell(q, vb)
    BY <2>1, <2>2, <2>3, <1>FreeSeen, Zenon
  <2>4. PICK row : row = [va \in Pages |-> Absent]
    BY Zenon
  <2>5. \A vb \in Pages : Cell(p, vb)' = row[vb]
    BY <2>2, <2>4, Zenon DEF Cell
  <2>6. Seen' = [Seen EXCEPT ![p] = row]
    <3>1. row = [va \in Pages |-> row[va]]
      BY <2>4, Zenon
    <3> QED
      BY <2>3, <2>5, <3>1, <1>OneRow, Zenon
  <2> QED
    BY <2>4, <2>6, Zenon DEF Private!Release, Private!NoMemory
<1>StackFaultSeen.
    ASSUME Constants, Inv, ~saturated, NEW p \in Procs, NEW va \in Pages,
           StackFault(p, va)
    PROVE  Seen' = Seen
  <2> USE <1>StackFaultSeen
  <2>1. TypeOK /\ UNCHANGED <<pte, pml4>>
    BY Zenon DEF Inv, StackFault, spaceVars, procVars
  <2>2. CASE \E f \in Frames : Taken(f) /\ data' = [data EXCEPT ![f] = Zero]
    <3>1. PICK f \in Frames : Taken(f) /\ data' = [data EXCEPT ![f] = Zero]
      BY Zenon, <2>2
    <3>2. f \notin used
      BY <2>1, <3>1, TakenFree, Zenon DEF Taken
    <3> QED
      BY Zenon, <2>1, <3>1, <3>2, <1>ClearFree
  <2>3. CASE UNCHANGED frameVars
    BY <2>1, <2>3, SeenSame, Zenon DEF frameVars
  <2> QED
    BY <2>2, <2>3, Zenon DEF StackFault
<1>TakeFrameSeen.
    ASSUME Constants, Inv, ~saturated, TakeFrame
    PROVE  Seen' = Seen
  <2> USE <1>TakeFrameSeen
  <2>1. TypeOK /\ UNCHANGED <<pte, pml4>>
    BY Zenon DEF Inv, TakeFrame, spaceVars, procVars
  <2>2. PICK f \in Frames : Taken(f) /\ data' = [data EXCEPT ![f] = Zero]
    BY Zenon DEF TakeFrame
  <2>3. f \notin used
    BY <2>1, <2>2, TakenFree, Zenon DEF Taken
  <2> QED
    BY Zenon, <2>1, <2>2, <2>3, <1>ClearFree
<1> SUFFICES ASSUME Constants, Inv, ~saturated, Shown, Next
             PROVE  [Private!Next]_Seen \/ KernelStoreToShared
  BY Zenon
<1>1. CASE AllocTable \/ NoFrame \/ MapFails \/ BrkEnd
  <2>1. UNCHANGED <<pml4, pte, data>>
    BY <1>1, Zenon DEF AllocTable, NoFrame, MapFails, BrkEnd, frameVars, spaceVars, procVars
  <2> QED
    BY <2>1, SeenSame, Zenon
<1>2. CASE CowPage \/ CowFails \/ TakeFrame
  BY <1>2, <1>CowPageSeen, <1>CowFailsSeen, <1>TakeFrameSeen, Zenon
<1>3. CASE MapPage
  BY <1>3, <1>MapPageSeen, Zenon DEF Private!Next
<1>4. CASE ForkEnd
  BY <1>4, <1>ForkEndSeen, Zenon DEF Private!Next
<1>5. CASE ExecEnd
  BY <1>5, <1>ExecEndSeen, Zenon DEF Private!Next
<1>6. ASSUME NEW p \in Procs, NEW c \in Procs, ForkStart(p, c)
      PROVE  Seen' = Seen
  <2>1. op = "none" /\ lost' = lost /\ pml4' = pml4
    BY <1>6, Zenon DEF ForkStart, Idle, procVars, histVars
  <2>2. \E s \in Frames : NewSpace(s) /\ fresh' = 0
    BY <1>6, Zenon DEF ForkStart, Begin
  <2> QED
    BY <2>1, <2>2, <1>NewSpaceSeen, Zenon
<1>7. ASSUME NEW p \in Procs, NEW n \in Images, ExecStart(p, n)
      PROVE  Seen' = Seen
  <2>1. op = "none" /\ lost' = lost /\ pml4' = pml4
    BY <1>7, Zenon DEF ExecStart, Idle, procVars, histVars
  <2>2. \E s \in Frames : NewSpace(s) /\ fresh' = 0
    BY <1>7, Zenon DEF ExecStart, Begin
  <2> QED
    BY <2>1, <2>2, <1>NewSpaceSeen, Zenon
<1>8. ASSUME NEW p \in Procs, (\E b \in Breaks : BrkStart(p, b)) \/ Exit(p)
      PROVE  Seen' = Seen
  <2>1. UNCHANGED <<pml4, pte, data>>
    BY <1>8, Zenon DEF BrkStart, Exit, frameVars, spaceVars, procVars
  <2> QED
    BY <2>1, SeenSame, Zenon
<1>9. ASSUME NEW p \in Procs, Reap(p)
      PROVE  Private!Next
  BY <1>9, <1>ReapSeen, Zenon DEF Private!Next
<1>10. ASSUME NEW p \in Procs, NEW va \in Pages, NEW v \in Values,
              UserStore(p, va, v) \/ KernelStore(p, va, v)
       PROVE  Private!Next \/ KernelStoreToShared
  <2>1. CASE Pte(p, va).rw
    <3>1. Private!Write(p, va, v)
      BY <1>10, <2>1, <1>StoreSeen, Zenon DEF UserStore, KernelStore, Live
    <3> QED
      BY <3>1, Zenon DEF Private!Next
  <2>2. CASE ~Pte(p, va).rw
    <3>1. KernelStore(p, va, v)
      BY <1>10, <2>2, Zenon DEF UserStore
    <3> QED
      BY <2>2, <3>1, Zenon DEF KernelStoreToShared
  <2> QED
    BY <2>1, <2>2, Zenon
<1>11. ASSUME NEW p \in Procs, NEW va \in Pages,
              CowFault(p, va) \/ StackFault(p, va) \/ BadFault(p, va)
       PROVE  Seen' = Seen
  <2>1. CASE BadFault(p, va)
    <3>1. UNCHANGED <<pml4, pte, data>>
      BY <2>1, Zenon DEF BadFault, frameVars, spaceVars, procVars
    <3> QED
      BY <3>1, SeenSame, Zenon
  <2> QED
    BY <1>11, <2>1, CowFaultSeen, <1>StackFaultSeen, Zenon
<1> QED
  BY <1>1, <1>2, <1>3, <1>4, <1>5, <1>6, <1>7, <1>8, <1>9, <1>10, <1>11, ZenonT(30) DEF Next

(* The histories only grow. *)
LEMMA SaturatedStays ==
  ASSUME [Next]_vars
  PROVE  ~saturated' => ~saturated
<1>1. CASE UNCHANGED vars
  BY <1>1, Zenon DEF vars, histVars
<1>2. CASE CowPage
  BY <1>2, Zenon DEF CowPage, AddRef
<1>3. CASE AllocTable \/ TakeFrame \/ ExecEnd \/ BrkEnd
  BY <1>3, Zenon DEF AllocTable, TakeFrame, ExecEnd, BrkEnd, histVars
<1>4. CASE CowFails \/ NoFrame \/ MapPage \/ MapFails \/ ForkEnd
  BY <1>4, Zenon DEF CowFails, NoFrame, MapPage, MapFails, ForkEnd
<1>5. ASSUME NEW p \in Procs,
             \/ \E c \in Procs : ForkStart(p, c)
             \/ \E n \in Images : ExecStart(p, n)
             \/ \E b \in Breaks : BrkStart(p, b)
             \/ Exit(p) \/ Reap(p)
      PROVE  saturated' = saturated
  BY <1>5, Zenon DEF ForkStart, ExecStart, BrkStart, Exit, Reap, histVars
<1>6. ASSUME NEW p \in Procs, NEW va \in Pages,
             \/ \E v \in Values : UserStore(p, va, v) \/ KernelStore(p, va, v)
             \/ CowFault(p, va) \/ StackFault(p, va) \/ BadFault(p, va)
      PROVE  saturated' = saturated
  <2>1. CASE \E v \in Values : UserStore(p, va, v) \/ KernelStore(p, va, v)
    BY <2>1, Zenon DEF UserStore, KernelStore, Store, histVars
  <2>2. CASE CowFault(p, va) \/ StackFault(p, va) \/ BadFault(p, va)
    BY <2>2, Zenon DEF CowFault, StackFault, BadFault, histVars
  <2> QED
    BY <1>6, <2>1, <2>2, Zenon
<1> QED
  BY <1>1, <1>2, <1>3, <1>4, <1>5, <1>6, Zenon DEF Next

(* Copy-on-write is invisible, for any number of processes and pages: with *)
(* vmm_cow_user_space, vmm_page_fault_handler and vmm_free_user_space      *)
(* sharing and dropping frames as they do, every process has the memory it *)
(* would have with full copies.  The exception is a store by the kernel    *)
(* into a shared page, and the promise lasts until a count saturates.      *)
THEOREM PrivateRefinement ==
  ASSUME Constants
  PROVE  Spec => PrivateSpec
<1> DEFINE I == Inv /\ (~saturated => Shown)
<1>1. Init => I
  <2> SUFFICES ASSUME Init
               PROVE  I
    BY Zenon
  <2>1. op = "exec" /\ fresh = 0 /\ dst \in Frames
        /\ \A t \in Frames, va \in Pages : pte[t][va].fr = 0
    BY DEF Init, NoPages, NoPage
  <2> QED
    BY <2>1, InitInv, Zenon DEF Shown, ForkCopied, Zeroed
<1>2. I /\ [Next]_vars => I'
  <2> SUFFICES ASSUME Inv, ~saturated => Shown, [Next]_vars
               PROVE  I'
    BY Zenon
  <2>1. Inv'
    BY NextInv, Zenon
  <2>2. ~saturated' => ~saturated
    BY SaturatedStays, Zenon
  <2> QED
    BY <2>1, <2>2, NextShown, Zenon
<1>3. Init => PrivateInit
  <2> SUFFICES ASSUME Init
               PROVE  PrivateInit
    BY Zenon
  <2>1. \A p \in Procs, va \in Pages : Cell(p, va) = Absent
    BY Zenon DEF Init, Cell
  <2> QED
    BY <2>1, SeenCells, Zenon DEF PrivateInit, Private!Init, Private!NoMemory
<1>4. I /\ [Next]_vars => [PrivateStep]_vars
  BY StepPrivate, CowFaultSeen, Zenon DEF PrivateStep
<1> QED
  BY <1>1, <1>2, <1>3, <1>4, PTL DEF Spec, PrivateSpec
=============================================================================
