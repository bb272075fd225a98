------------------------------ MODULE Processes ------------------------------
(***************************************************************************)
(* Processes, the round-robin scheduler, waitpid and signals: proc/        *)
(* scheduler.c, proc/process.c, proc/signal.c and the process part of      *)
(* proc/syscalls.c.                                                        *)
(*                                                                         *)
(* There is one CPU.  SYSCALL clears IF, so a system call runs without     *)
(* interruption between its calls of scheduler_yield, and an action below  *)
(* is one such uninterrupted stretch.  ctx[p] is the place where process p *)
(* continues when it next has the CPU:                                     *)
(*   "ring3"    user code, IF = 1 (also the first return of a fork child)  *)
(*   "kthread"  the idle loop or the heartbeat thread, IF = 1              *)
(*   "console"  the sti/hlt loop of sys_read on the keyboard, ring 0, IF=1 *)
(*   "waitpid"  the loop of sys_waitpid, IF = 0                            *)
(*   "block"    the yield loop of sys_sleep, pipe_read or pipe_write, IF=0 *)
(*   "sysret"   do_syscall has returned, deliver_signals is next, IF = 0   *)
(* In an IF = 0 place the process on the CPU has exactly one next step.    *)
(***************************************************************************)
EXTENDS Integers, Sequences, Functions

CONSTANTS
  Procs,        \* addresses kmalloc may return for a process_t
  Nsh,          \* the process_t of nsh, created by kernel_main
  Heartbeat,    \* the process_t of the heartbeat kernel thread
  Idle,         \* &g_idle, the boot context
  NULL,
  Spaces,       \* frames that may hold the PML4 of a private address space
  NshSpace,     \* the PML4 kernel_main builds for nsh
  KernelSpace,  \* g_kernel_pml4
  Signals,      \* the signal numbers in use
  TargetPids,   \* pids that programs pass to kill and setfg
  Quantum,      \* PROC_QUANTUM
  MaxPid        \* bound on g_next_pid

SIGINT == 2
Fatal == {2, 9, 15}
ASSUME ProcsAssumption ==
  /\ Nsh \in Procs /\ Heartbeat \in Procs /\ Nsh # Heartbeat
  /\ Idle \notin Procs /\ NULL \notin Procs \cup {Idle}
ASSUME SpacesAssumption ==
  /\ NshSpace \in Spaces
  /\ KernelSpace \notin Spaces /\ NULL \notin Spaces \cup {KernelSpace}
ASSUME NumbersAssumption ==
  /\ Signals \subseteq 1..31 /\ TargetPids \subseteq Nat
  /\ Quantum \in Nat \ {0}
  /\ MaxPid \in Nat /\ MaxPid > 2

VARIABLES
  state,        \* process_t.state, "FREE" for memory that holds no process
  ready,        \* the queue g_ready_head .. g_ready_tail
  all,          \* the list g_all_head
  current,      \* g_current
  quantum,      \* g_current->quantum_remaining (the others are reset by yield)
  pid,          \* process_t.pid
  parent,       \* process_t.parent, an address nobody clears
  exit_code,    \* process_t.exit_code
  sig_pending,  \* process_t.sig_pending as a set
  sig_handler,  \* the signals whose sig_handler entry is not 0
  ctx,          \* where the process continues, see above
  wpid,         \* the pid argument of the sys_waitpid in progress
  g_next_pid,
  g_fg_pid,
  pml4,         \* process_t.pml4, NULL for 0
  spaces,       \* PML4 frames that are allocated
  cr3,          \* the address space that is loaded
  creator       \* history: pid of the process that called fork

schedVars == <<state, ready, current, quantum, cr3>>
tableVars == <<all, pid, parent, exit_code, creator, g_next_pid>>
sigVars   == <<sig_pending, sig_handler, g_fg_pid>>
spaceVars == <<pml4, spaces>>
vars == <<schedVars, tableVars, sigVars, spaceVars, ctx, wpid>>

Threads == Procs \cup {Idle}
States  == {"FREE", "READY", "RUNNING", "ZOMBIE"}
Ctxs    == {"ring3", "kthread", "console", "waitpid", "block", "sysret"}

(***************************************************************************)
(* kernel_main: scheduler_init, nsh and heartbeat registered, then the     *)
(* first scheduler_yield puts nsh on the CPU and the boot context last.    *)
(***************************************************************************)
Init ==
  /\ state = [p \in Threads |-> IF p = Nsh THEN "RUNNING"
                              ELSE IF p \in {Heartbeat, Idle} THEN "READY"
                              ELSE "FREE"]
  /\ ready = <<Heartbeat, Idle>>
  /\ all = <<Heartbeat, Nsh>>
  /\ current = Nsh
  /\ quantum = Quantum
  /\ pid = [p \in Threads |-> IF p = Nsh THEN 1
                            ELSE IF p = Heartbeat THEN 2 ELSE 0]
  /\ parent = [p \in Threads |-> NULL]
  /\ exit_code = [p \in Threads |-> 0]
  /\ sig_pending = [p \in Threads |-> {}]
  /\ sig_handler = [p \in Threads |-> {}]
  /\ ctx = [p \in Threads |-> IF p \in {Heartbeat, Idle} THEN "kthread"
                                                         ELSE "ring3"]
  /\ wpid = [p \in Threads |-> 0]
  /\ g_next_pid = 3
  /\ g_fg_pid = 0
  /\ pml4 = [p \in Threads |-> IF p = Nsh THEN NshSpace ELSE NULL]
  /\ spaces = {NshSpace}
  /\ cr3 = NshSpace
  /\ creator = [p \in Threads |-> 0]

-----------------------------------------------------------------------------
(* proc/scheduler.c *)

SpaceOf(as) == IF as = NULL THEN KernelSpace ELSE as

Runnable(s) == s \in {"RUNNING", "READY"}

(* scheduler_add: the rest q of the queue after the process p that gives   *)
(* up the CPU in state s is back in it.  Here and below, a definition      *)
(* Name_Fault is Name with a plausible mistake in it; the specification    *)
(* does not use it (see the README).                                       *)
Requeued_InFront(q, p, s) == IF Runnable(s) THEN <<p>> \o q ELSE q
Requeued(q, p, s) == IF Runnable(s) THEN Append(q, p) ELSE q

(* scheduler_yield, called when the states are st and the quantum of the   *)
(* running process is q.                                                   *)
scheduler_yield(st, q) ==
  \/ /\ ready = <<>>
     /\ state' = st
     /\ quantum' = q
     /\ UNCHANGED <<ready, current, cr3>>
  \/ /\ ready # <<>>
     /\ LET prev == current
            next == Head(ready)
        IN /\ ready' = Requeued(Tail(ready), prev, st[prev])
           /\ state' = [st EXCEPT ![prev] = IF Runnable(@) THEN "READY" ELSE @,
                                  ![next] = "RUNNING"]
           /\ quantum' = Quantum
           /\ current' = next
           /\ cr3' = IF pml4[next] # pml4[prev] THEN SpaceOf(pml4[next])
                                                ELSE cr3

(* scheduler_exit: the process keeps its table entry, as a zombie. *)
scheduler_exit(code) ==
  /\ exit_code' = [exit_code EXCEPT ![current] = code]
  /\ scheduler_yield([state EXCEPT ![current] = "ZOMBIE"], quantum)

(* scheduler_reap: the places of the zombies that the scan of g_all_head   *)
(* accepts, and the first of them.                                         *)
Reapable_Alive(p, w) ==
  {i \in DOMAIN all : parent[all[i]] = p /\ (w > 0 => pid[all[i]] = w)}
Reapable_AnyParent(p, w) ==
  {i \in DOMAIN all : state[all[i]] = "ZOMBIE" /\ (w > 0 => pid[all[i]] = w)}
Reapable(p, w) ==
  {i \in DOMAIN all : /\ state[all[i]] = "ZOMBIE"
                      /\ parent[all[i]] = p
                      /\ w > 0 => pid[all[i]] = w}
scheduler_reap(p, w) ==
  CHOOSE i \in Reapable(p, w) : \A j \in Reapable(p, w) : i <= j

(* scheduler_remove: the list s without its i-th process. *)
scheduler_remove_Kept(s, i) == s
scheduler_remove(s, i) ==
  [j \in 1..(Len(s) - 1) |-> IF j < i THEN s[j] ELSE s[j + 1]]

(* scheduler_register: a new process heads g_all_head and is last to run.  *)
scheduler_register(c) ==
  /\ all' = <<c>> \o all
  /\ ready' = Append(ready, c)

(* scheduler_find: the processes on g_all_head whose pid is k. *)
scheduler_find(k) == {p \in Range(all) : pid[p] = k}

-----------------------------------------------------------------------------
(* System calls of the process on the CPU *)

Running(where) == state[current] = "RUNNING" /\ ctx[current] \in where
Goto(where) == ctx' = [ctx EXCEPT ![current] = where]

(* A system call, or a failure path of one, that leaves this module's      *)
(* state alone: getpid, kill of an unknown pid, fork and exec failing      *)
(* before they have an address space, and so on.                           *)
OtherSyscall ==
  /\ Running({"ring3"})
  /\ Goto("sysret")
  /\ UNCHANGED <<schedVars, tableVars, sigVars, spaceVars, wpid>>

(* proc_alloc: the fields of the new process_t that fork leaves as set. *)
proc_alloc(c) ==
  /\ state[c] = "FREE" /\ g_next_pid <= MaxPid
  /\ state' = [state EXCEPT ![c] = "READY"]
  /\ pid' = [pid EXCEPT ![c] = g_next_pid]
  /\ g_next_pid' = g_next_pid + 1
  /\ exit_code' = [exit_code EXCEPT ![c] = 0]
  /\ sig_pending' = [sig_pending EXCEPT ![c] = {}]

sys_fork(c, as) ==
  /\ Running({"ring3"})
  /\ as \notin spaces
  /\ proc_alloc(c)
  /\ scheduler_register(c)
  /\ parent' = [parent EXCEPT ![c] = current]
  /\ creator' = [creator EXCEPT ![c] = pid[current]]
  /\ sig_handler' = [sig_handler EXCEPT ![c] = sig_handler[current]]
  /\ pml4' = [pml4 EXCEPT ![c] = as]
  /\ spaces' = spaces \cup {as}
  /\ ctx' = [ctx EXCEPT ![c] = "ring3", ![current] = "sysret"]
  /\ UNCHANGED <<current, quantum, cr3, g_fg_pid, wpid>>

sys_exec_NoSwitch(as) ==
  /\ Running({"ring3"})
  /\ as \notin spaces
  /\ pml4' = [pml4 EXCEPT ![current] = as]
  /\ spaces' = (spaces \cup {as}) \ {pml4[current]}
  /\ Goto("sysret")
  /\ UNCHANGED <<schedVars, tableVars, sigVars, wpid>>

(* sys_exec: the new space is loaded before the old one is released.       *)
sys_exec(as) ==
  /\ Running({"ring3"})
  /\ as \notin spaces
  /\ pml4' = [pml4 EXCEPT ![current] = as]
  /\ cr3' = as
  /\ spaces' = (spaces \cup {as}) \ {pml4[current]}
  /\ Goto("sysret")
  /\ UNCHANGED <<state, ready, current, quantum, tableVars, sigVars, wpid>>

(* sys_fork failing in vmm_cow_user_space or proc_alloc, sys_exec failing  *)
(* in elf64_load_into or pmm_alloc_frame: the new PML4 is not released.    *)
LeakSpace(as) ==
  /\ Running({"ring3"})
  /\ as \notin spaces
  /\ spaces' = spaces \cup {as}
  /\ Goto("sysret")
  /\ UNCHANGED <<schedVars, tableVars, sigVars, pml4, wpid>>

(* Code 0 stands for every code that a program passes to exit. *)
sys_exit ==
  /\ Running({"ring3"})
  /\ scheduler_exit(0)
  /\ UNCHANGED <<all, pid, parent, creator, g_next_pid, sigVars, spaceVars,
                 ctx, wpid>>

(* sys_waitpid up to its loop; w <= 0 stands for any child. *)
sys_waitpid(w) ==
  /\ Running({"ring3"})
  /\ wpid' = [wpid EXCEPT ![current] = w]
  /\ Goto("waitpid")
  /\ UNCHANGED <<schedVars, tableVars, sigVars, spaceVars>>

WaitpidYield_NoRecheck ==
  /\ Running({"waitpid"})
  /\ scheduler_yield(state, quantum)
  /\ UNCHANGED <<tableVars, sigVars, spaceVars, ctx, wpid>>

(* One round of the loop that finds no child: yield and look again. *)
WaitpidYield ==
  /\ Running({"waitpid"})
  /\ Reapable(current, wpid[current]) = {}
  /\ scheduler_yield(state, quantum)
  /\ UNCHANGED <<tableVars, sigVars, spaceVars, ctx, wpid>>

(* The round that finds one: scheduler_remove, vmm_free_user_space and the *)
(* kfree of the kernel stack and the process_t.                            *)
WaitpidReap ==
  /\ Running({"waitpid"})
  /\ Reapable(current, wpid[current]) # {}
  /\ LET i == scheduler_reap(current, wpid[current])
         z == all[i]
     IN /\ all' = scheduler_remove(all, i)
        /\ state' = [state EXCEPT ![z] = "FREE"]
        /\ spaces' = spaces \ {pml4[z]}
        /\ pml4' = [pml4 EXCEPT ![z] = NULL]
        /\ pid' = [pid EXCEPT ![z] = 0]
        /\ parent' = [parent EXCEPT ![z] = NULL]
        /\ creator' = [creator EXCEPT ![z] = 0]
        /\ exit_code' = [exit_code EXCEPT ![z] = 0]
        /\ sig_pending' = [sig_pending EXCEPT ![z] = {}]
        /\ sig_handler' = [sig_handler EXCEPT ![z] = {}]
        /\ ctx' = [ctx EXCEPT ![z] = "ring3", ![current] = "sysret"]
        /\ wpid' = [wpid EXCEPT ![z] = 0, ![current] = 0]
  /\ UNCHANGED <<ready, current, quantum, cr3, g_next_pid, g_fg_pid>>

(* Entry of a system call that waits in a yield loop for a condition this  *)
(* module does not model (time, pipe contents).                            *)
BlockEnter ==
  /\ Running({"ring3"})
  /\ Goto("block")
  /\ UNCHANGED <<schedVars, tableVars, sigVars, spaceVars, wpid>>

BlockYield ==
  /\ Running({"block"})
  /\ scheduler_yield(state, quantum)
  /\ UNCHANGED <<tableVars, sigVars, spaceVars, ctx, wpid>>

BlockReturn ==
  /\ Running({"block"})
  /\ Goto("sysret")
  /\ UNCHANGED <<schedVars, tableVars, sigVars, spaceVars, wpid>>

(* sys_read of the keyboard: interrupts are on until a line is complete.   *)
ConsoleRead ==
  /\ Running({"ring3"})
  /\ Goto("console")
  /\ UNCHANGED <<schedVars, tableVars, sigVars, spaceVars, wpid>>

ConsoleReturn ==
  /\ Running({"console"})
  /\ Goto("sysret")
  /\ UNCHANGED <<schedVars, tableVars, sigVars, spaceVars, wpid>>

-----------------------------------------------------------------------------
(* proc/signal.c *)

sys_signal(s, on) ==
  /\ Running({"ring3"})
  /\ sig_handler' = [sig_handler EXCEPT
                        ![current] = IF on THEN @ \cup {s} ELSE @ \ {s}]
  /\ Goto("sysret")
  /\ UNCHANGED <<schedVars, tableVars, sig_pending, g_fg_pid, spaceVars, wpid>>

(* sys_kill does not look at the target's state: a zombie is accepted.     *)
sys_kill(k, s) ==
  /\ Running({"ring3"})
  /\ \E t \in scheduler_find(k) :
       sig_pending' = [sig_pending EXCEPT ![t] = @ \cup {s}]
  /\ Goto("sysret")
  /\ UNCHANGED <<schedVars, tableVars, sig_handler, g_fg_pid, spaceVars, wpid>>

sys_setfg(k) ==
  /\ Running({"ring3"})
  /\ g_fg_pid' = k
  /\ Goto("sysret")
  /\ UNCHANGED <<schedVars, tableVars, sig_pending, sig_handler, spaceVars, wpid>>

(* The loop of deliver_signals and deliver_signals_isr goes up from signal *)
(* 1 and drops every pending signal it passes; it stops at the first one   *)
(* that has a handler or terminates the process.                           *)
Stoppers(p) == {s \in sig_pending[p] : s \in sig_handler[p] \/ s \in Fatal}
Lowest_Downward(S) == CHOOSE s \in S : \A t \in S : s >= t
Lowest(S) == CHOOSE s \in S : \A t \in S : s <= t
Stopper(p) == Lowest(Stoppers(p))
Left(p) == IF Stoppers(p) = {} THEN {}
           ELSE {s \in sig_pending[p] : s > Stopper(p)}
Dies(p) == Stoppers(p) # {} /\ Stopper(p) \notin sig_handler[p]

(* deliver_signals on the way out of a system call. *)
DeliverReturn ==
  /\ Running({"sysret"})
  /\ ~Dies(current)
  /\ sig_pending' = [sig_pending EXCEPT ![current] = Left(current)]
  /\ Goto("ring3")
  /\ UNCHANGED <<schedVars, tableVars, sig_handler, g_fg_pid, spaceVars, wpid>>

(* deliver_signals or deliver_signals_isr taking the default action:       *)
(* sys_exit(128 + sig).                                                    *)
DieBySignal ==
  /\ Dies(current)
  /\ sig_pending' = [sig_pending EXCEPT ![current] = Left(current)]
  /\ scheduler_exit(128 + Stopper(current))
  /\ UNCHANGED <<all, pid, parent, creator, g_next_pid, sig_handler, g_fg_pid,
                 spaceVars, ctx, wpid>>

DeliverExit == Running({"sysret"}) /\ DieBySignal

-----------------------------------------------------------------------------
(* Interrupts, taken only where IF = 1 *)

(* scheduler_tick of a process that survives it: signals are injected when *)
(* the tick hit ring 3, then the quantum is charged.                       *)
TickCharge ==
  /\ Running({"ring3", "kthread", "console"})
  /\ IF ctx[current] = "ring3"
       THEN ~Dies(current)
            /\ sig_pending' = [sig_pending EXCEPT ![current] = Left(current)]
       ELSE UNCHANGED sig_pending
  /\ LET q == IF quantum > 0 THEN quantum - 1 ELSE 0
     IN IF q = 0 THEN scheduler_yield(state, q)
        ELSE quantum' = q /\ UNCHANGED <<state, ready, current, cr3>>
  /\ UNCHANGED <<tableVars, sig_handler, g_fg_pid, spaceVars, ctx, wpid>>

(* scheduler_tick whose signal delivery ends in sys_exit. *)
TickExit == Running({"ring3"}) /\ DieBySignal

(* scheduler_sigint_fg from the keyboard interrupt. *)
CtrlC ==
  /\ Running({"ring3", "kthread", "console"})
  /\ g_fg_pid # 0 /\ SIGINT \in Signals
  /\ \E t \in scheduler_find(g_fg_pid) :
       /\ state[t] # "ZOMBIE"
       /\ sig_pending' = [sig_pending EXCEPT ![t] = @ \cup {SIGINT}]
  /\ UNCHANGED <<schedVars, tableVars, sig_handler, g_fg_pid, spaceVars, ctx, wpid>>

-----------------------------------------------------------------------------
Tick == TickCharge \/ TickExit

(* What the kernel does by itself once the CPU is in it with IF = 0. *)
KernelStep == WaitpidYield \/ WaitpidReap \/ BlockYield \/ BlockReturn
              \/ DeliverReturn \/ DeliverExit

Syscall ==
  \/ OtherSyscall
  \/ \E c \in Procs, as \in Spaces : sys_fork(c, as)
  \/ \E as \in Spaces : sys_exec(as)
  \/ \E as \in Spaces : LeakSpace(as)
  \/ sys_exit
  \/ \E w \in 0..MaxPid : sys_waitpid(w)
  \/ BlockEnter
  \/ ConsoleRead
  \/ \E s \in Signals, on \in BOOLEAN : sys_signal(s, on)
  \/ \E k \in TargetPids, s \in Signals : sys_kill(k, s)
  \/ \E k \in TargetPids : sys_setfg(k)

Next == Tick \/ CtrlC \/ KernelStep \/ ConsoleReturn \/ Syscall

Spec == Init /\ [][Next]_vars

(* The timer keeps firing, and a tick that arrives while IF = 0 is held by *)
(* the PIC until IF = 1 again, hence strong fairness; code running with    *)
(* IF = 0 is never suspended; user programs promise nothing.               *)
FairSpec == Spec /\ SF_vars(Tick) /\ WF_vars(KernelStep)

-----------------------------------------------------------------------------
(* Properties *)

TypeOK ==
  /\ state \in [Threads -> States]
  /\ ready \in Seq(Threads)
  /\ all \in Seq(Procs)
  /\ current \in Threads
  /\ quantum \in 0..Quantum
  /\ pid \in [Threads -> Nat]
  /\ parent \in [Threads -> Threads \cup {NULL}]
  /\ exit_code \in [Threads -> Nat]
  /\ sig_pending \in [Threads -> SUBSET Signals]
  /\ sig_handler \in [Threads -> SUBSET Signals]
  /\ ctx \in [Threads -> Ctxs]
  /\ wpid \in [Threads -> Nat]
  /\ g_next_pid \in Nat \ {0}
  /\ g_fg_pid \in Nat
  /\ pml4 \in [Threads -> Spaces \cup {NULL}]
  /\ spaces \in SUBSET Spaces
  /\ cr3 \in Spaces \cup {KernelSpace}
  /\ creator \in [Threads -> Nat]

(* The ready queue holds every READY process exactly once and nothing      *)
(* else, and the CPU holds the only RUNNING one: scheduler_yield, exit,    *)
(* fork and the timer between them never lose, duplicate or resurrect a    *)
(* process, and a freed process_t is never linked in the queue.            *)
RunQueueExact ==
  /\ \A i, j \in DOMAIN ready : ready[i] = ready[j] => i = j
  /\ \A p \in Threads : p \in Range(ready) <=> state[p] = "READY"
  /\ \A p \in Threads : p = current <=> state[p] = "RUNNING"

(* scheduler_exit never comes back from scheduler_yield to its cli; hlt    *)
(* loop: the queue is empty only while the idle context itself runs, and   *)
(* the idle context is not a process that exits.                           *)
ExitHasSuccessor ==
  /\ Runnable(state[Idle])
  /\ ready = <<>> => current = Idle
  /\ ctx[Idle] = "kthread"

(* g_all_head links exactly the processes that exist, newest first with    *)
(* strictly falling pids, so a pid names at most one process and the scans *)
(* of scheduler_find and scheduler_reap never touch freed memory.          *)
ProcessListExact ==
  /\ \A p \in Procs : p \in Range(all) <=> state[p] # "FREE"
  /\ \A i, j \in DOMAIN all : i < j => pid[all[j]] < pid[all[i]]
  /\ \A i \in DOMAIN all : pid[all[i]] < g_next_pid

(* The address space that is loaded is the one of the process on the CPU   *)
(* (the kernel's for kernel threads), private spaces are allocated and     *)
(* never shared: what sys_waitpid and sys_exec release is not in use.      *)
AddressSpacesOwned ==
  /\ cr3 = SpaceOf(pml4[current])
  /\ cr3 \in spaces \cup {KernelSpace}
  /\ \A p \in Threads : pml4[p] # NULL => pml4[p] \in spaces
  /\ \A p, q \in Threads : p # q /\ pml4[p] # NULL => pml4[p] # pml4[q]

(* A zombie never runs again and keeps its pid and exit code, whatever     *)
(* other processes do (kill, fork, waitpid of other children), until the   *)
(* waitpid of the process its parent field points to frees it.             *)
ZombieStep ==
  \A p \in Procs : state[p] = "ZOMBIE" =>
    \/ /\ state'[p] = "ZOMBIE"
       /\ pid'[p] = pid[p] /\ exit_code'[p] = exit_code[p]
       /\ pml4'[p] = pml4[p] /\ p \in Range(all')
    \/ /\ state'[p] = "FREE"
       /\ parent[p] = current /\ ctx[current] = "waitpid"

(* ZombieStep is what every step does to the zombies. *)
ZombieIsFinal == [][ZombieStep]_vars

(* Only a default-action signal that is pending kills a process, and no    *)
(* handled signal of a lower number was still waiting when it did: the     *)
(* loops of deliver_signals and deliver_signals_isr go through the pending *)
(* signals in ascending order.                                             *)
KillStep ==
  \A p \in Procs : state[p] # "ZOMBIE" /\ state'[p] = "ZOMBIE" =>
    \/ exit_code'[p] = 0
    \/ \E s \in Fatal \cap sig_pending[p] :
         /\ exit_code'[p] = 128 + s
         /\ \A t \in sig_pending[p] : t \in sig_handler[p] => t > s

(* KillStep is what every step that makes a zombie obeys. *)
KilledInOrder == [][KillStep]_vars

(* Round robin: a process in the ready queue eventually gets the CPU.      *)
EveryReadyRuns ==
  \A p \in Threads : state[p] = "READY" ~> state[p] = "RUNNING"

(* sys_waitpid returns once a child it may reap has exited. *)
WaitpidCompletes ==
  \A p \in Procs :
    (ctx[p] = "waitpid" /\ Reapable(p, wpid[p]) # {}) ~> ctx[p] # "waitpid"

(* sys_waitpid hands back only processes its caller created with fork.     *)
WaitpidReapsOwnChild ==
  [][\A p \in Procs : state[p] = "ZOMBIE" /\ state'[p] = "FREE" =>
       creator[p] = pid[current]]_vars

(* The SIGINT that Ctrl-C marks on the foreground process is delivered     *)
(* by some later timer tick: it does not stay pending on a live process.   *)
SigintDelivered ==
  \A p \in Procs : (SIGINT \in sig_pending[p] /\ state[p] # "ZOMBIE")
                     ~> (SIGINT \notin sig_pending[p] \/ state[p] = "ZOMBIE")
=============================================================================
