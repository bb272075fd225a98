------------------------------- MODULE Memory -------------------------------
(***************************************************************************)
(* Physical frames and address spaces: mm/phys/pmm.c, mm/virt/vmm.c and    *)
(* the callers that create, share, grow and release user memory: sys_fork, *)
(* sys_exec with elf64_load_into, sys_brk, sys_waitpid and the page-fault  *)
(* handler.                                                                *)
(*                                                                         *)
(* An operation that maps several pages is a sequence of steps, one per    *)
(* frame it takes, because each of them may be the one that finds memory   *)
(* exhausted.  No other action runs in between (the handlers run with      *)
(* interrupts off and yield to nobody): everything but the next step of    *)
(* the operation has the guard Idle.                                       *)
(***************************************************************************)
EXTENDS Integers, FiniteSets

CONSTANTS
  Frames,        \* frame numbers the allocator hands out
  MaxRef,        \* largest reference count (255, a uint8_t)
  HeapPages,     \* pages below USER_HEAP_MAX
  USTACK_LIMIT,  \* lowest page the stack may grow to
  USTACK_BASE,   \* the stack page that exec maps
  PageUnits,     \* addresses per page, the unit in which a break is given
  TablesOf,      \* for a page, the tables below the PML4 on its walk
  Procs,         \* process_t's
  First,         \* the process that early.c builds
  Images,        \* sizes in pages of the ELF images a process can exec
  Breaks,        \* arguments of sys_brk
  Values,        \* contents of a page
  Zero           \* the contents of a page that was just mapped

(* The pages of the lower half, 0 .. USTACK_BASE. *)
Pages == 0..USTACK_BASE
(* Tables are numbered top-down: a table comes after the one that points   *)
(* to it.                                                                  *)
Tables == UNION {TablesOf[va] : va \in Pages}

(* What a process sees where it has no page.                               *)
Absent == "absent"

(* What the constants are: finite memory without frame 0, images and heap  *)
(* below the stack.                                                        *)
Constants ==
  /\ IsFiniteSet(Frames) /\ Frames \subseteq Nat \ {0} /\ Frames # {}
  /\ MaxRef \in Nat \ {0} /\ PageUnits \in Nat \ {0}
  /\ {HeapPages, USTACK_LIMIT, USTACK_BASE} \subseteq Nat
  /\ HeapPages <= USTACK_LIMIT /\ USTACK_LIMIT <= USTACK_BASE
  /\ IsFiniteSet(Tables) /\ Tables \subseteq Nat
  /\ First \in Procs /\ Images \subseteq 0..USTACK_LIMIT /\ Breaks \subseteq Nat
  /\ Zero \in Values /\ Absent \notin Values

VARIABLES
  used,       \* g_bitmap: the frames that are taken
  ref,        \* g_refcount
  data,       \* what each frame holds
  spaces,     \* PML4 frames of the address spaces that exist
  tab,        \* the page-table frames of a space, 0 where there is none
  pte,        \* its leaf entries
  state,      \* "none", "live" or "zombie", per process
  pml4, brk, stack_low,      \* process_t
  op,         \* the operation in progress: "none", "fork", "exec", "brk",
              \* "stack"
  caller,     \* its process
  dst,        \* the space it fills
  todo,       \* the pages it has still to fill
  fresh,      \* the frame taken for the next of them, 0 if none
  arg,        \* the child of a fork, the image of an exec, the new break
  halted,     \* "no", or why the machine stopped: "oom" or the
              \* region of the fault, "stack", "heap" or "fault"
  exhausted,  \* history: an allocation has failed
  saturated,  \* history: pmm_addref has dropped a reference
  lost        \* history: references to a frame that nothing will drop

frameVars == <<used, ref, data>>
spaceVars == <<spaces, tab, pte>>
procVars  == <<state, pml4, brk, stack_low>>
opVars    == <<op, caller, dst, todo, fresh, arg>>
histVars  == <<exhausted, saturated, lost>>
vars == <<frameVars, spaceVars, procVars, opVars, halted, histVars>>

NoPage == [fr |-> 0, rw |-> FALSE, cow |-> FALSE]
Writable(f) == [fr |-> f, rw |-> TRUE, cow |-> FALSE]
Ptes == [fr : Frames \cup {0}, rw : BOOLEAN, cow : BOOLEAN]

Least(S) == CHOOSE n \in S : \A m \in S : n <= m
PagesUpTo(b) == (b + PageUnits - 1) \div PageUnits

(***************************************************************************)
(* pmm.c                                                                   *)
(***************************************************************************)
Free == Frames \ used

(* pmm_alloc_frame takes the lowest free frame. *)
Taken(f) == /\ Free # {} /\ f = Least(Free)
            /\ used' = used \cup {f}

(* pmm_free_frame for every frame of S. *)
Released(S) ==
  /\ used' = used \ {f \in S : ref[f] <= 1}
  /\ ref' = [f \in Frames |-> IF f \in S /\ f \in used
                              THEN IF ref[f] > 1 THEN ref[f] - 1 ELSE 0
                              ELSE ref[f]]

AddRef(f) ==
  /\ ref' = [ref EXCEPT ![f] = IF @ < MaxRef THEN @ + 1 ELSE @]
  /\ saturated' = (saturated \/ ref[f] >= MaxRef)
  /\ UNCHANGED used

(***************************************************************************)
(* vmm.c: tables and leaf entries of a space                               *)
(***************************************************************************)
NoTables == [k \in Tables |-> 0]
NoPages  == [va \in Pages |-> NoPage]

Mapped(s) == {va \in Pages : pte[s][va].fr # 0}
Missing(s, va) == {k \in TablesOf[va] : tab[s][k] = 0}

(* vmm_create_address_space *)
NewSpace(s) ==
  /\ Taken(s)
  /\ ref' = [ref EXCEPT ![s] = 1]
  /\ spaces' = spaces \cup {s}
  /\ tab' = [tab EXCEPT ![s] = NoTables]
  /\ pte' = [pte EXCEPT ![s] = NoPages]
  /\ UNCHANGED data

(* vmm_free_user_space: leaf frames by reference, then the tables and the  *)
(* PML4.                                                                   *)
FramesOf(s) == {pte[s][va].fr : va \in Mapped(s)}
TablesIn(s) == {tab[s][k] : k \in Tables} \ {0}
FreeUserSpace(s) ==
  /\ Released(FramesOf(s) \cup TablesIn(s) \cup {s})
  /\ spaces' = spaces \ {s}
  /\ tab' = [tab EXCEPT ![s] = NoTables]
  /\ pte' = [pte EXCEPT ![s] = NoPages]
  /\ UNCHANGED data

(***************************************************************************)
(* Operations                                                              *)
(***************************************************************************)
Idle == op = "none" /\ halted = "no"
Live(p) == state[p] = "live"

Begin(kind, p, s, S, f, a) ==
  /\ op' = kind /\ caller' = p /\ dst' = s /\ todo' = S /\ fresh' = f
  /\ arg' = a
(* The pages of an image of n pages and the stack page that exec maps. *)
ImagePages(n) == 0..(n - 1) \cup {USTACK_BASE}

End == /\ op' = "none" /\ todo' = {} /\ fresh' = 0
       /\ caller' = First /\ dst' = 0 /\ arg' = 0

(* early.c builds the first process the way exec does, in memory that      *)
(* nobody uses yet: Init is that point, with its PML4 taken.               *)
Init ==
  \E s \in Frames, n \in Images :
    /\ s = Least(Frames)
    /\ used = {s}
    /\ ref = [f \in Frames |-> IF f = s THEN 1 ELSE 0]
    /\ data = [f \in Frames |-> Zero]
    /\ spaces = {s}
    /\ tab = [f \in Frames |-> NoTables]
    /\ pte = [f \in Frames |-> NoPages]
    /\ state = [p \in Procs |-> "none"]
    /\ pml4 = [p \in Procs |-> 0]
    /\ brk = [p \in Procs |-> 0]
    /\ stack_low = [p \in Procs |-> 0]
    /\ op = "exec" /\ caller = First /\ dst = s /\ fresh = 0 /\ arg = n
    /\ todo = ImagePages(n)
    /\ halted = "no"
    /\ exhausted = FALSE /\ saturated = FALSE
    /\ lost = [f \in Frames |-> 0]

(***************************************************************************)
(* Filling the space dst, page by page in address order                    *)
(***************************************************************************)
Next_va == Least(todo)
Filling == halted = "no" /\ op # "none" /\ todo # {}
(* A fork maps the parent's frame; the others first take a frame.          *)
HasFrame == op = "fork" \/ fresh # 0

(* The allocations of vmm_map_page_into: a table that the walk lacks.      *)
AllocTable ==
  /\ Filling /\ HasFrame /\ Missing(dst, Next_va) # {}
  /\ \E f \in Frames :
       /\ Taken(f)
       /\ ref' = [ref EXCEPT ![f] = 1]
       /\ tab' = [tab EXCEPT ![dst][Least(Missing(dst, Next_va))] = f]
  /\ UNCHANGED <<data, spaces, pte, procVars, opVars, halted, histVars>>

(* The entry of a page that vmm_cow_user_space has shared. *)
Shared(e) == [e EXCEPT !.rw = FALSE, !.cow = TRUE]

(* Fault: the parent keeps its writable entry. *)
CowPage_NotDemoted ==
  /\ Filling /\ op = "fork" /\ Missing(dst, Next_va) = {}
  /\ LET e == Shared(pte[pml4[caller]][Next_va])
     IN /\ pte' = [pte EXCEPT ![dst][Next_va] = e]
        /\ AddRef(e.fr)
  /\ todo' = todo \ {Next_va}
  /\ UNCHANGED <<data, spaces, tab, procVars, op, caller, dst, fresh, arg,
                 halted, exhausted, lost>>

(* One page of vmm_cow_user_space: demote the parent's entry, copy it to   *)
(* the child, count the reference.                                         *)
CowPage ==
  /\ Filling /\ op = "fork" /\ Missing(dst, Next_va) = {}
  /\ LET src == pml4[caller]
         e == Shared(pte[src][Next_va])
     IN /\ pte' = [pte EXCEPT ![src][Next_va] = e, ![dst][Next_va] = e]
        /\ AddRef(e.fr)
  /\ todo' = todo \ {Next_va}
  /\ UNCHANGED <<data, spaces, tab, procVars, op, caller, dst, fresh, arg,
                 halted, exhausted, lost>>

(* vmm_map_page_into fails inside vmm_cow_user_space: the parent's entry   *)
(* has been demoted, sys_fork returns -1 and nobody frees the new space.   *)
CowFails ==
  /\ Filling /\ op = "fork" /\ Missing(dst, Next_va) # {} /\ Free = {}
  /\ pte' = [pte EXCEPT ![pml4[caller]][Next_va] = Shared(@)]
  /\ End /\ exhausted' = TRUE
  /\ UNCHANGED <<frameVars, spaces, tab, procVars, halted, saturated, lost>>

(* The frame for the next page of an image, of the stack page of exec or   *)
(* of a heap; memory comes zeroed or is overwritten by the image.          *)
TakeFrame ==
  /\ Filling /\ op \in {"exec", "brk"} /\ fresh = 0
  /\ \E f \in Frames :
       /\ Taken(f)
       /\ ref' = [ref EXCEPT ![f] = 1]
       /\ data' = [data EXCEPT ![f] = Zero]
       /\ fresh' = f
  /\ UNCHANGED <<spaceVars, procVars, op, caller, dst, todo, arg, halted,
                 histVars>>

(* No frame: sys_brk returns the old break and keeps the pages it has      *)
(* mapped, sys_exec returns -1 and abandons the space.                     *)
NoFrame ==
  /\ Filling /\ op \in {"exec", "brk"} /\ fresh = 0 /\ Free = {}
  /\ End /\ exhausted' = TRUE
  /\ UNCHANGED <<frameVars, spaceVars, procVars, halted, saturated, lost>>

(* The end of a page: a page fault is over, a loop goes to the next page.  *)
Advance ==
  IF op = "stack"
  THEN /\ End
       /\ stack_low' = [stack_low EXCEPT ![caller] = Next_va]
  ELSE /\ todo' = todo \ {Next_va} /\ fresh' = 0
       /\ UNCHANGED <<op, caller, dst, arg, stack_low>>

(* vmm_map_page_into stores the leaf entry, over whatever was there.       *)
MapPage ==
  /\ Filling /\ fresh # 0 /\ Missing(dst, Next_va) = {}
  /\ LET old == pte[dst][Next_va].fr
     IN lost' = IF old = 0 THEN lost ELSE [lost EXCEPT ![old] = @ + 1]
  /\ pte' = [pte EXCEPT ![dst][Next_va] = Writable(fresh)]
  /\ Advance
  /\ UNCHANGED <<frameVars, spaces, tab, state, pml4, brk, halted, exhausted, saturated>>

(* Its failure costs the frame.  elf64_load_into finds the page unmapped   *)
(* when it copies the image, or finds no frame for the next one, and exec  *)
(* fails; the others go on as if the page were there.                      *)
MapFails ==
  /\ Filling /\ fresh # 0 /\ Missing(dst, Next_va) # {} /\ Free = {}
  /\ lost' = [lost EXCEPT ![fresh] = @ + 1] /\ exhausted' = TRUE
  /\ IF op = "exec" /\ Next_va # USTACK_BASE THEN End /\ UNCHANGED stack_low
     ELSE Advance
  /\ UNCHANGED <<frameVars, spaceVars, state, pml4, brk, halted, saturated>>

(***************************************************************************)
(* The system calls: where an operation starts and ends                    *)
(***************************************************************************)
(* sys_fork up to the loop of vmm_cow_user_space.  Without a frame for the *)
(* PML4 it returns -1 and nothing changes.                                 *)
ForkStart(p, c) ==
  /\ Idle /\ Live(p) /\ state[c] = "none"
  /\ \E s \in Frames : NewSpace(s) /\ Begin("fork", p, s, Mapped(pml4[p]), 0, c)
  /\ UNCHANGED <<procVars, halted, histVars>>

(* The rest of sys_fork: proc_alloc may fail, and then the space is        *)
(* abandoned.                                                              *)
ForkEnd ==
  /\ halted = "no" /\ op = "fork" /\ todo = {}
  /\ \/ /\ state' = [state EXCEPT ![arg] = "live"]
        /\ pml4' = [pml4 EXCEPT ![arg] = dst]
        /\ brk' = [brk EXCEPT ![arg] = brk[caller]]
        /\ stack_low' = [stack_low EXCEPT ![arg] = stack_low[caller]]
        /\ UNCHANGED exhausted
     \/ exhausted' = TRUE /\ UNCHANGED procVars
  /\ End
  /\ UNCHANGED <<frameVars, spaceVars, halted, saturated, lost>>

ExecStart(p, n) ==
  /\ Idle /\ Live(p)
  /\ \E s \in Frames : NewSpace(s) /\ Begin("exec", p, s, ImagePages(n), 0, n)
  /\ UNCHANGED <<procVars, halted, histVars>>

(* Fault: the old space is not freed. *)
ExecEnd_KeepsOld ==
  /\ halted = "no" /\ op = "exec" /\ todo = {}
  /\ pml4' = [pml4 EXCEPT ![caller] = dst]
  /\ stack_low' = [stack_low EXCEPT ![caller] = USTACK_BASE]
  /\ brk' = [brk EXCEPT ![caller] = arg * PageUnits]
  /\ state' = [state EXCEPT ![caller] = "live"]
  /\ End
  /\ UNCHANGED <<frameVars, spaceVars, halted, histVars>>

(* The process moves to the new space and frees the old one; the first     *)
(* process has no old one and starts here.                                 *)
ExecEnd ==
  /\ halted = "no" /\ op = "exec" /\ todo = {}
  /\ IF pml4[caller] = 0 THEN UNCHANGED <<frameVars, spaceVars>>
     ELSE FreeUserSpace(pml4[caller])
  /\ pml4' = [pml4 EXCEPT ![caller] = dst]
  /\ stack_low' = [stack_low EXCEPT ![caller] = USTACK_BASE]
  /\ brk' = [brk EXCEPT ![caller] = arg * PageUnits]
  /\ state' = [state EXCEPT ![caller] = "live"]
  /\ End
  /\ UNCHANGED <<halted, histVars>>

(* sys_brk up to its loop.  Other arguments change nothing. *)
BrkStart(p, addr) ==
  /\ Idle /\ Live(p)
  /\ addr > brk[p] /\ addr < HeapPages * PageUnits
  /\ Begin("brk", p, pml4[p], PagesUpTo(brk[p])..(PagesUpTo(addr) - 1), 0, addr)
  /\ UNCHANGED <<frameVars, spaceVars, procVars, halted, histVars>>

BrkEnd ==
  /\ halted = "no" /\ op = "brk" /\ todo = {}
  /\ brk' = [brk EXCEPT ![caller] = arg]
  /\ End
  /\ UNCHANGED <<frameVars, spaceVars, state, pml4, stack_low, halted, histVars>>

(* sys_exit leaves the memory to the parent's sys_waitpid. *)
Exit(p) ==
  /\ Idle /\ Live(p)
  /\ state' = [state EXCEPT ![p] = "zombie"]
  /\ UNCHANGED <<frameVars, spaceVars, pml4, brk, stack_low, opVars, halted, histVars>>

Reap(p) ==
  /\ Idle /\ state[p] = "zombie"
  /\ FreeUserSpace(pml4[p])
  /\ state' = [state EXCEPT ![p] = "none"]
  /\ pml4' = [pml4 EXCEPT ![p] = 0]
  /\ brk' = [brk EXCEPT ![p] = 0]
  /\ stack_low' = [stack_low EXCEPT ![p] = 0]
  /\ UNCHANGED <<opVars, halted, histVars>>

(***************************************************************************)
(* Accesses and page faults                                                *)
(***************************************************************************)
Pte(p, va) == pte[pml4[p]][va]

Store(p, va, v) ==
  /\ data' = [data EXCEPT ![Pte(p, va).fr] = v]
  /\ UNCHANGED <<used, ref, spaceVars, procVars, opVars, halted, histVars>>

(* A store in ring 3 honours the entry. *)
UserStore(p, va, v) ==
  /\ Idle /\ Live(p) /\ Pte(p, va).fr # 0 /\ Pte(p, va).rw
  /\ Store(p, va, v)

(* A store of a system call into a user buffer (read, waitpid, getcwd and  *)
(* others): CR0.WP is clear, so ring 0 writes to read-only pages.          *)
KernelStore(p, va, v) ==
  /\ Idle /\ Live(p) /\ Pte(p, va).fr # 0
  /\ Store(p, va, v)

(* Fault: the new frame is mapped without the copy. *)
CowFault_NotCopied(p, va) ==
  /\ Idle /\ Live(p) /\ Pte(p, va).fr # 0 /\ ~Pte(p, va).rw /\ Pte(p, va).cow
  /\ ref[Pte(p, va).fr] > 1
  /\ \E f \in Frames :
       /\ Taken(f)
       /\ data' = [data EXCEPT ![f] = Zero]
       /\ ref' = [ref EXCEPT ![f] = 1, ![Pte(p, va).fr] = @ - 1]
       /\ pte' = [pte EXCEPT ![pml4[p]][va] = Writable(f)]
  /\ UNCHANGED <<spaces, tab, procVars, opVars, halted, histVars>>

(* vmm_page_fault_handler on a write to a copy-on-write page. *)
CowFault(p, va) ==
  /\ Idle /\ Live(p) /\ Pte(p, va).fr # 0 /\ ~Pte(p, va).rw /\ Pte(p, va).cow
  /\ LET old == Pte(p, va).fr IN
     \/ /\ ref[old] = 1
        /\ pte' = [pte EXCEPT ![pml4[p]][va] = Writable(old)]
        /\ UNCHANGED <<frameVars, halted, exhausted>>
     \/ /\ ref[old] # 1
        /\ \E f \in Frames :
             /\ Free # {} /\ f = Least(Free)
             /\ data' = [data EXCEPT ![f] = data[old]]
             /\ used' = (used \cup {f}) \ {g \in {old} : ref[g] <= 1}
             /\ ref' = [ref EXCEPT ![f] = 1, ![old] = IF @ > 1 THEN @ - 1 ELSE 0]
             /\ pte' = [pte EXCEPT ![pml4[p]][va] = Writable(f)]
        /\ UNCHANGED <<halted, exhausted>>
     \/ /\ ref[old] # 1 /\ Free = {}
        /\ halted' = "oom" /\ exhausted' = TRUE
        /\ UNCHANGED <<frameVars, pte>>
  /\ UNCHANGED <<spaces, tab, procVars, opVars, saturated, lost>>

GrowsStack(p, va) ==
  /\ stack_low[p] > USTACK_LIMIT
  /\ va < stack_low[p] /\ va >= USTACK_LIMIT

(* vmm_page_fault_handler on an access to a page that is not present. *)
StackFault(p, va) ==
  /\ Idle /\ Live(p) /\ Pte(p, va).fr = 0 /\ GrowsStack(p, va)
  /\ \/ /\ \E f \in Frames :
             /\ Taken(f)
             /\ ref' = [ref EXCEPT ![f] = 1]
             /\ data' = [data EXCEPT ![f] = Zero]
             /\ Begin("stack", p, pml4[p], {va}, f, 0)
        /\ UNCHANGED <<halted, exhausted>>
     \/ /\ Free = {}
        /\ halted' = "oom" /\ exhausted' = TRUE
        /\ UNCHANGED <<frameVars, opVars>>
  /\ UNCHANGED <<spaceVars, procVars, saturated, lost>>

(* Any other page fault stops the machine. *)
BadFault(p, va) ==
  /\ Idle /\ Live(p) /\ Pte(p, va).fr = 0 /\ ~GrowsStack(p, va)
  /\ halted' = IF va >= USTACK_LIMIT THEN "stack"
               ELSE IF va < PagesUpTo(brk[p]) THEN "heap" ELSE "fault"
  /\ UNCHANGED <<frameVars, spaceVars, procVars, opVars, histVars>>

Next ==
  \/ AllocTable \/ CowPage \/ CowFails \/ TakeFrame \/ NoFrame
  \/ MapPage \/ MapFails \/ ForkEnd \/ ExecEnd \/ BrkEnd
  \/ \E p \in Procs :
       \/ \E c \in Procs : ForkStart(p, c)
       \/ \E n \in Images : ExecStart(p, n)
       \/ \E b \in Breaks : BrkStart(p, b)
       \/ Exit(p) \/ Reap(p)
       \/ \E va \in Pages :
            \/ \E v \in Values : UserStore(p, va, v) \/ KernelStore(p, va, v)
            \/ CowFault(p, va) \/ StackFault(p, va) \/ BadFault(p, va)

Spec == Init /\ [][Next]_vars

-----------------------------------------------------------------------------
(***************************************************************************)
(* Properties                                                              *)
(***************************************************************************)
(* Every variable stays within its type. *)
TypeOK ==
  /\ used \subseteq Frames /\ ref \in [Frames -> 0..MaxRef]
  /\ data \in [Frames -> Values]
  /\ spaces \subseteq Frames
  /\ tab \in [Frames -> [Tables -> Frames \cup {0}]]
  /\ pte \in [Frames -> [Pages -> Ptes]]
  /\ state \in [Procs -> {"none", "live", "zombie"}]
  /\ pml4 \in [Procs -> Frames \cup {0}]
  /\ brk \in [Procs -> Nat] /\ stack_low \in [Procs -> Pages]
  /\ op \in {"none", "fork", "exec", "brk", "stack"}
  /\ caller \in Procs /\ dst \in Frames \cup {0} /\ todo \subseteq Pages
  /\ fresh \in Frames \cup {0}
  /\ arg \in IF op = "fork" THEN Procs ELSE Nat
  /\ halted \in {"no", "oom", "stack", "heap", "fault"}
  /\ {exhausted, saturated} \subseteq BOOLEAN /\ lost \in [Frames -> Nat]

(* What refers to a frame: leaf entries, tables, PML4s, the operation that *)
(* is about to map it.                                                     *)
Mappers(f) == {m \in spaces \X Pages : pte[m[1]][m[2]].fr = f}
TableUses(f) == {u \in spaces \X Tables : tab[u[1]][u[2]] = f}
Holds(f) == (IF f \in spaces THEN 1 ELSE 0) + (IF f = fresh THEN 1 ELSE 0)

(* The reference count of a frame is the number of page-table entries,     *)
(* spaces and operations that hold it, plus the references that ignored    *)
(* failures have orphaned, and exactly the frames with a count are taken,  *)
(* through every fork, fault, exec and exhaustion: pmm_addref and          *)
(* pmm_free_frame are called once for every entry vmm.c makes and drops.   *)
RefcountsExact ==
  ~saturated => \A f \in Frames :
    /\ ref[f] = Cardinality(Mappers(f)) + Cardinality(TableUses(f)) + Holds(f) + lost[f]
    /\ f \in used <=> ref[f] > 0

(* A page that a process may write is mapped nowhere else and is no table: *)
(* vmm_cow_user_space demotes both sides and vmm_page_fault_handler makes  *)
(* a page writable only as its sole owner.                                 *)
WritablePagesPrivate ==
  ~saturated => \A s \in spaces, va \in Pages :
    pte[s][va].fr # 0 /\ pte[s][va].rw =>
      /\ Mappers(pte[s][va].fr) = {<<s, va>>}
      /\ TableUses(pte[s][va].fr) = {} /\ Holds(pte[s][va].fr) = 0

(* Until an allocation fails or a count saturates nothing leaks: every     *)
(* reference is held by the space of a process or by the operation in      *)
(* progress.                                                               *)
NothingLost == ~exhausted /\ ~saturated =>
  /\ \A f \in Frames : lost[f] = 0
  /\ \A s \in spaces : (\E p \in Procs : pml4[p] = s) \/ (op # "none" /\ dst = s)

(* As long, every page below a process's break is present: the break that  *)
(* exec, brk and fork record agrees with what they mapped, at every        *)
(* address within a page.                                                  *)
BreakBacked == ~exhausted /\ ~saturated =>
  \A p \in Procs : Live(p) =>
    \A va \in 0..(PagesUpTo(brk[p]) - 1) : Pte(p, va).fr # 0

(* Every frame is accounted for: counted right, lost nowhere, and there    *)
(* where a process was promised one.                                       *)
FramesAccounted == TypeOK /\ RefcountsExact /\ NothingLost /\ BreakBacked

(* What a process sees of its memory.  *)
View(p) == [va \in Pages |-> IF pml4[p] = 0 \/ Pte(p, va).fr = 0 THEN Absent
                             ELSE data[Pte(p, va).fr]]
Seen == [p \in Procs |-> View(p)]
Private == INSTANCE PrivateMemory WITH mem <- Seen

(* A system call stores through an entry that ring 3 could not write to.   *)
KernelStoreToShared ==
  \E p \in Procs, va \in Pages, v \in Values : ~Pte(p, va).rw /\ KernelStore(p, va, v)

(* Copy-on-write is invisible: sharing frames on fork and copying them on  *)
(* "the first write by either side" (vmm.c:163) gives every process the    *)
(* memory it would have with a full copy, and a released or failed fork    *)
(* takes nothing from the others; the fault itself changes nothing anyone  *)
(* sees.  The one step that is not a step of PrivateMemory is a store by   *)
(* the kernel into a shared page, which every sharer sees because CR0.WP   *)
(* is clear.  When a count saturates, a frame is freed under its sharers   *)
(* and the promise ends.                                                   *)
PrivateInit == Private!Init
PrivateStep == ~saturated =>
  /\ [Private!Next]_Seen \/ KernelStoreToShared
  /\ (\E p \in Procs, va \in Pages : CowFault(p, va)) => UNCHANGED Seen
PrivateSpec == PrivateInit /\ [][PrivateStep]_vars
=============================================================================
