--------------------------- MODULE ProcessesProofs ---------------------------
(***************************************************************************)
(* Proofs that the safety invariants of Processes hold for any number of   *)
(* processes, address spaces, signals and pids and for any quantum.        *)
(***************************************************************************)
EXTENDS Processes, WellFoundedInduction, TLAPS

(* A step that cites no prover is left to the SMT solver. *)
USE SMTT(30)

(* The invariants support each other: the queue tells that whoever is      *)
(* reaped is not queued, the process list that a new process is in neither *)
(* structure, the scheduler that somebody else is there when a process     *)
(* exits.  Together they are inductive.                                    *)
Inv == TypeOK /\ RunQueueExact /\ ExitHasSuccessor /\ ProcessListExact
       /\ AddressSpacesOwned

-----------------------------------------------------------------------------
(* A nonempty set of naturals has a least element: the scans that stop at  *)
(* the first match (scheduler_reap, deliver_signals) find one.             *)
LEMMA LeastElement ==
  ASSUME NEW S \in SUBSET Nat, S # {}
  PROVE  \E m \in S : \A k \in S : m <= k
<1>1. PICK m \in S : \A k \in S : ~(<<k, m>> \in OpToRel(<, Nat))
  BY WFMin, NatLessThanWellFounded, Zenon
<1>2. \A k \in S : k \in Nat /\ m \in Nat /\ ~(k < m)
  BY <1>1, Zenon DEF OpToRel
<1>3. \A k \in S : m <= k
  BY <1>2
<1> QED
  BY <1>3, Zenon

(* The processes a queue or list holds, by their places. *)
LEMMA RangeOfSeq ==
  ASSUME NEW T, NEW s \in Seq(T)
  PROVE  \A p : p \in Range(s) <=> \E i \in 1..Len(s) : s[i] = p
  BY DEF Range

-----------------------------------------------------------------------------
(* The state kernel_main hands over satisfies the invariants. *)
LEMMA InitInv == Init => Inv
<1> SUFFICES ASSUME Init PROVE Inv
  BY Zenon
<1> USE ProcsAssumption, SpacesAssumption, NumbersAssumption
<1>1. TypeOK
  BY DEF Init, TypeOK, Threads, States, Ctxs
<1>2. RunQueueExact
  BY DEF Init, RunQueueExact, Threads, Range
<1>3. ExitHasSuccessor
  BY Zenon DEF Init, ExitHasSuccessor, Runnable, Threads
<1>4. ProcessListExact
  BY DEF Init, ProcessListExact, Range, Threads
<1>5. AddressSpacesOwned
  BY Zenon DEF Init, AddressSpacesOwned, SpaceOf, Threads
<1> QED
  BY <1>1, <1>2, <1>3, <1>4, <1>5, Zenon DEF Inv

-----------------------------------------------------------------------------
(* What scheduler_yield leaves behind when the process on the CPU either   *)
(* is runnable or, not being the idle context, has just become a zombie.   *)
LEMMA YieldInv ==
  ASSUME Inv, NEW st \in [Threads -> States], NEW q \in 0..Quantum,
         \/ st = state
         \/ st = [state EXCEPT ![current] = "ZOMBIE"] /\ current # Idle,
         scheduler_yield(st, q), UNCHANGED spaceVars
  PROVE  /\ state' \in [Threads -> States] /\ ready' \in Seq(Threads)
         /\ current' \in Threads /\ quantum' \in 0..Quantum
         /\ cr3' \in Spaces \cup {KernelSpace}
         /\ RunQueueExact'
         /\ Runnable(state'[Idle])
         /\ ready' = <<>> => current' = Idle
         /\ \A p \in Threads : state'[p] = "FREE" <=> state[p] = "FREE"
         /\ \A p \in Threads : state'[p] = "ZOMBIE" <=> st[p] = "ZOMBIE"
         /\ AddressSpacesOwned'
<1> USE ProcsAssumption, SpacesAssumption, NumbersAssumption
<1>0. /\ TypeOK /\ RunQueueExact /\ ExitHasSuccessor /\ AddressSpacesOwned
      /\ Idle \in Threads /\ current \in Threads /\ state[current] = "RUNNING"
  BY Zenon DEF Inv, Threads, TypeOK, RunQueueExact
<1>1. CASE ready = <<>>
  <2>1. st = state
    BY <1>0, <1>1, Zenon DEF ExitHasSuccessor
  <2>2. UNCHANGED <<state, ready, current, cr3, pml4, spaces>> /\ quantum' = q
    BY <1>1, <2>1, Zenon DEF scheduler_yield, spaceVars
  <2> QED
    BY <1>0, <2>1, <2>2 DEF TypeOK, RunQueueExact, ExitHasSuccessor, AddressSpacesOwned,
                      Runnable, Range
<1>2. CASE ready # <<>>
  <2> DEFINE next == Head(ready)
             n == Len(ready)
  <2>1. /\ ready \in Seq(Threads) /\ n \in Nat \ {0}
        /\ next = ready[1] /\ next \in Threads
        /\ DOMAIN ready = 1..n
        /\ Tail(ready) \in Seq(Threads) /\ Len(Tail(ready)) = n - 1
        /\ \A i \in 1..(n - 1) : Tail(ready)[i] = ready[i + 1]
    <3>1. ready \in Seq(Threads)
      BY <1>0, Zenon DEF TypeOK
    <3>2. n \in Nat \ {0} /\ DOMAIN ready = 1..n /\ next = ready[1]
      BY <1>2, <3>1
    <3>3. next \in Threads
      BY <3>1, <3>2
    <3> QED
      BY <1>2, <3>1, <3>2, <3>3
  <2>2. /\ state[next] = "READY" /\ next # current
        /\ \A i, j \in 1..n : ready[i] = ready[j] => i = j
        /\ \A i \in 1..n : ready[i] # current
    BY <1>0, <2>1, RangeOfSeq DEF RunQueueExact
  <2>3. /\ ready' = Requeued(Tail(ready), current, st[current])
        /\ state' = [st EXCEPT ![current] = IF Runnable(@) THEN "READY" ELSE @,
                               ![next] = "RUNNING"]
        /\ quantum' = Quantum /\ current' = next
        /\ cr3' = IF pml4[next] # pml4[current] THEN SpaceOf(pml4[next]) ELSE cr3
        /\ pml4' = pml4 /\ spaces' = spaces
    BY <1>2, Zenon DEF scheduler_yield, spaceVars
  <2>4. /\ state' \in [Threads -> States]
        /\ \A p \in Threads \ {current, next} : state'[p] = state[p]
        /\ state'[next] = "RUNNING"
        /\ state'[current] = IF st = state THEN "READY" ELSE "ZOMBIE"
    <3>1. /\ st[current] = IF st = state THEN "RUNNING" ELSE "ZOMBIE"
          /\ \A p \in Threads \ {current} : st[p] = state[p]
      BY <1>0, Zenon DEF TypeOK
    <3>2. \A p \in Threads : state'[p] = IF p = next THEN "RUNNING"
                             ELSE IF p = current /\ Runnable(st[p]) THEN "READY"
                             ELSE st[p]
      BY <1>0, <2>1, <2>2, <2>3
    <3>3. state' \in [Threads -> States]
      BY <1>0, <2>1, <2>2, <2>3, Zenon DEF States
    <3> QED
      BY <1>0, <2>1, <2>2, <3>1, <3>2, <3>3, Zenon DEF Runnable
  <2>7. current' \in Threads /\ quantum' \in 0..Quantum
    BY <2>1, <2>3
  <2>5. CASE st = state
    <3>1. ready' = Append(Tail(ready), current)
      BY <1>0, <2>3, <2>5, Zenon DEF Requeued, Runnable
    <3>2. /\ ready' \in Seq(Threads) /\ Len(ready') = n /\ DOMAIN ready' = 1..n
          /\ \A i \in 1..(n - 1) : ready'[i] = ready[i + 1]
          /\ ready'[n] = current
      BY <1>0, <2>1, <3>1
    <3>3. RunQueueExact'
      <4>1. \A i, j \in 1..n : ready'[i] = ready'[j] => i = j
        BY <2>1, <2>2, <3>2
      <4>2. ASSUME NEW p \in Threads
            PROVE  (\E i \in 1..n : ready'[i] = p) <=> state'[p] = "READY"
        <5>1. (\E i \in 1..n : ready[i] = p) <=> state[p] = "READY"
          BY <1>0, <2>1, RangeOfSeq, Zenon DEF RunQueueExact
        <5>2. CASE p = current
          BY <2>1, <2>4, <2>5, <3>2, <5>2
        <5>3. CASE p = next
          BY <2>1, <2>2, <2>4, <3>2, <5>3
        <5>4. CASE p \notin {current, next}
          <6>1. ASSUME NEW i \in 1..n, ready[i] = p
                PROVE  i > 1 /\ i - 1 \in 1..n /\ ready'[i - 1] = p
            BY <2>1, <3>2, <5>4, <6>1
          <6>2. ASSUME NEW i \in 1..n, ready'[i] = p
                PROVE  i + 1 \in 1..n /\ ready[i + 1] = p
            BY <2>1, <3>2, <5>4, <6>2
          <6> QED
            BY <2>4, <5>1, <5>4, <6>1, <6>2, Zenon
        <5> QED
          BY <5>2, <5>3, <5>4, Zenon
      <4>3. \A p \in Threads : p = current' <=> state'[p] = "RUNNING"
        BY <1>0, <2>1, <2>2, <2>3, <2>4, <2>5, Zenon DEF RunQueueExact
      <4> QED
        <5>1. \A p : p \in Range(ready') <=> \E i \in DOMAIN ready' : ready'[i] = p
          BY Zenon DEF Range
        <5> QED
          BY <3>2, <4>1, <4>2, <4>3, <5>1, ZenonT(30) DEF RunQueueExact
    <3>4. ready' # <<>>
      BY <2>1, <3>2, Zenon
    <3>5. Runnable(state'[Idle])
      BY <1>0, <2>1, <2>4, <2>5, Zenon DEF ExitHasSuccessor, Runnable
    <3>6. \A p \in Threads : state'[p] = "FREE" <=> state[p] = "FREE"
      BY <1>0, <2>2, <2>4, <2>5, Zenon
    <3>7. \A p \in Threads : state'[p] = "ZOMBIE" <=> st[p] = "ZOMBIE"
      BY <1>0, <2>2, <2>4, <2>5, Zenon
    <3>8. cr3' \in Spaces \cup {KernelSpace} /\ AddressSpacesOwned'
      BY <1>0, <2>1, <2>2, <2>3, Zenon DEF TypeOK, AddressSpacesOwned, SpaceOf
    <3> QED
      BY <2>4, <2>7, <3>2, <3>3, <3>4, <3>5, <3>6, <3>7, <3>8, Zenon
  <2>6. CASE st # state
    <3>1. ready' = Tail(ready) /\ current # Idle
      BY <1>0, <2>3, <2>6, Zenon DEF Requeued, Runnable, TypeOK
    <3>2. /\ ready' \in Seq(Threads) /\ Len(ready') = n - 1 /\ DOMAIN ready' = 1..(n - 1)
          /\ \A i \in 1..(n - 1) : ready'[i] = ready[i + 1]
      BY <2>1, <3>1
    <3>3. RunQueueExact'
      <4>1. ASSUME NEW i \in 1..(n - 1), NEW j \in 1..(n - 1), ready'[i] = ready'[j]
            PROVE  i = j
        <5>1. i + 1 \in 1..n /\ j + 1 \in 1..n
          BY <2>1
        <5>2. i + 1 = j + 1
          BY <2>2, <3>2, <4>1, <5>1, ZenonT(30)
        <5> QED
          BY <5>2
      <4>2. ASSUME NEW p \in Threads
            PROVE  (\E i \in 1..(n - 1) : ready'[i] = p) <=> state'[p] = "READY"
        <5>1. (\E i \in 1..n : ready[i] = p) <=> state[p] = "READY"
          BY <1>0, <2>1, RangeOfSeq, Zenon DEF RunQueueExact
        <5>2. CASE p = current
          BY <1>0, <2>1, <2>4, <2>6, <3>2, <5>1, <5>2
        <5>3. CASE p = next
          BY <2>1, <2>2, <2>4, <3>2, <5>3
        <5>4. CASE p \notin {current, next}
          <6>1. ASSUME NEW i \in 1..n, ready[i] = p
                PROVE  i > 1 /\ i - 1 \in 1..(n - 1) /\ ready'[i - 1] = p
            BY <2>1, <3>2, <5>4, <6>1
          <6>2. ASSUME NEW i \in 1..(n - 1), ready'[i] = p
                PROVE  i + 1 \in 1..n /\ ready[i + 1] = p
            BY <2>1, <3>2, <5>4, <6>2
          <6> QED
            BY <2>4, <5>1, <5>4, <6>1, <6>2, Zenon
        <5> QED
          BY <5>2, <5>3, <5>4, Zenon
      <4>3. \A p \in Threads : p = current' <=> state'[p] = "RUNNING"
        BY <1>0, <2>1, <2>2, <2>3, <2>4, <2>6 DEF RunQueueExact
      <4> QED
        <5>1. \A p : p \in Range(ready') <=> \E i \in DOMAIN ready' : ready'[i] = p
          BY Zenon DEF Range
        <5> QED
          BY <3>2, <4>1, <4>2, <4>3, <5>1, Zenon DEF RunQueueExact
    <3>4. Runnable(state'[Idle])
      BY <1>0, <2>1, <2>4, <3>1, Zenon DEF ExitHasSuccessor, Runnable
    <3>5. ready' = <<>> => current' = Idle
      BY <1>0, <3>2, <3>3, <3>4 DEF RunQueueExact, Runnable, Range
    <3>6. \A p \in Threads : state'[p] = "FREE" <=> state[p] = "FREE"
      BY <1>0, <2>2, <2>4, <2>6, Zenon
    <3>7. \A p \in Threads : state'[p] = "ZOMBIE" <=> st[p] = "ZOMBIE"
      <4>1. \A p \in Threads : st[p] = IF p = current THEN "ZOMBIE" ELSE state[p]
        BY <1>0, <2>6, Zenon DEF TypeOK
      <4> QED
        BY <2>2, <2>4, <2>6, <4>1, Zenon
    <3>8. cr3' \in Spaces \cup {KernelSpace} /\ AddressSpacesOwned'
      BY <1>0, <2>1, <2>2, <2>3, Zenon DEF TypeOK, AddressSpacesOwned, SpaceOf
    <3> QED
      BY <2>4, <2>7, <3>2, <3>3, <3>4, <3>5, <3>6, <3>7, <3>8, Zenon
  <2> QED
    BY <2>5, <2>6, Zenon
<1> QED
  BY <1>1, <1>2, Zenon

-----------------------------------------------------------------------------
(* The part of TypeOK about fields the scheduler does not look at. *)
BookTypes ==
  /\ parent \in [Threads -> Threads \cup {NULL}]
  /\ exit_code \in [Threads -> Nat]
  /\ sig_pending \in [Threads -> SUBSET Signals]
  /\ sig_handler \in [Threads -> SUBSET Signals]
  /\ wpid \in [Threads -> Nat]
  /\ g_fg_pid \in Nat
  /\ creator \in [Threads -> Nat]

(* An action that ends in scheduler_yield and otherwise only changes those *)
(* fields keeps the invariants.                                            *)
LEMMA YieldKeeps ==
  ASSUME Inv, NEW st \in [Threads -> States], NEW q \in 0..Quantum,
         \/ st = state
         \/ st = [state EXCEPT ![current] = "ZOMBIE"] /\ current # Idle,
         scheduler_yield(st, q), UNCHANGED spaceVars,
         UNCHANGED <<all, pid, g_next_pid, ctx>>, BookTypes'
  PROVE  Inv'
<1>1. /\ state' \in [Threads -> States] /\ ready' \in Seq(Threads)
      /\ current' \in Threads /\ quantum' \in 0..Quantum
      /\ cr3' \in Spaces \cup {KernelSpace}
      /\ RunQueueExact' /\ AddressSpacesOwned'
      /\ Runnable(state'[Idle]) /\ (ready' = <<>> => current' = Idle)
      /\ \A p \in Threads : state'[p] = "FREE" <=> state[p] = "FREE"
  BY YieldInv, Zenon
<1>2. TypeOK'
  BY <1>1, Zenon DEF Inv, TypeOK, BookTypes, spaceVars
<1>3. ExitHasSuccessor'
  BY <1>1, Zenon DEF Inv, ExitHasSuccessor
<1>4. ProcessListExact'
  BY <1>1, Zenon DEF Inv, ProcessListExact, Threads
<1> QED
  BY <1>1, <1>2, <1>3, <1>4, Zenon DEF Inv

(* So does an action that leaves the scheduler, the process list and the   *)
(* address spaces alone and moves the process on the CPU to another place, *)
(* as long as the idle context stays where it is.                          *)
LEMMA FrameKeeps ==
  ASSUME Inv, UNCHANGED <<state, ready, current, cr3, all, pid, g_next_pid>>,
         UNCHANGED spaceVars, quantum' \in 0..Quantum,
         ctx' \in [Threads -> Ctxs], ctx'[Idle] = "kthread", BookTypes'
  PROVE  Inv'
<1>1. TypeOK'
  BY Zenon DEF Inv, TypeOK, BookTypes, spaceVars
<1>2. RunQueueExact'
  BY Zenon DEF Inv, RunQueueExact
<1>3. ExitHasSuccessor'
  BY Zenon DEF Inv, ExitHasSuccessor, Runnable
<1>4. ProcessListExact'
  BY Zenon DEF Inv, ProcessListExact
<1>5. AddressSpacesOwned'
  BY Zenon DEF Inv, AddressSpacesOwned, spaceVars, SpaceOf
<1> QED
  BY <1>1, <1>2, <1>3, <1>4, <1>5, Zenon DEF Inv

(* Facts about the process on the CPU that the cases below share. *)
LEMMA OnCPU ==
  ASSUME Inv
  PROVE  /\ BookTypes /\ TypeOK /\ Idle \in Threads /\ current \in Threads
         /\ ctx[Idle] = "kthread"
         /\ state[current] = "RUNNING"
         /\ ctx[current] # "kthread" => current \in Procs /\ current # Idle
  BY ProcsAssumption, Zenon
     DEF Inv, TypeOK, BookTypes, ExitHasSuccessor, RunQueueExact, Threads

(* Moving the process on the CPU to another place. *)
LEMMA GotoKeeps ==
  ASSUME Inv, NEW where \in Ctxs, Goto(where), ctx[current] # "kthread"
  PROVE  ctx' \in [Threads -> Ctxs] /\ ctx'[Idle] = "kthread"
  BY OnCPU, Zenon DEF Goto, TypeOK

(* The signal at which deliver_signals stops is one of those in use, the   *)
(* lowest of the pending ones that are handled or fatal.                   *)
LEMMA StopperProps ==
  ASSUME TypeOK, NEW p \in Threads
  PROVE  /\ Left(p) \in SUBSET Signals
         /\ Stoppers(p) # {} => /\ Stopper(p) \in Stoppers(p)
                                /\ Stopper(p) \in Nat
                                /\ \A s \in Stoppers(p) : Stopper(p) <= s
<1>1. sig_pending[p] \in SUBSET Signals /\ Stoppers(p) \in SUBSET Nat
  <2>1. sig_pending[p] \in SUBSET Signals
    BY Zenon DEF TypeOK
  <2>2. \A s \in Signals : s \in Nat
    BY NumbersAssumption
  <2>3. \A s \in Stoppers(p) : s \in Signals
    BY <2>1, Zenon DEF Stoppers
  <2> QED
    BY <2>1, <2>2, <2>3, Zenon
<1>2. CASE Stoppers(p) = {}
  BY <1>1, <1>2, Zenon DEF Left
<1>3. CASE Stoppers(p) # {}
  <2>1. \E m \in Stoppers(p) : \A k \in Stoppers(p) : m <= k
    BY <1>1, <1>3, LeastElement, Zenon
  <2>2. /\ Stopper(p) \in Stoppers(p)
        /\ \A s \in Stoppers(p) : Stopper(p) <= s
    BY <2>1, Zenon DEF Stopper, Lowest
  <2> QED
    BY <1>1, <1>3, <2>2, Zenon DEF Left
<1> QED
  BY <1>2, <1>3, Zenon

-----------------------------------------------------------------------------
(* The actions that only move the process on the CPU and change signal or  *)
(* wait bookkeeping.                                                       *)
LEMMA PlainStepKeeps ==
  ASSUME Inv,
         \/ OtherSyscall \/ BlockEnter \/ BlockReturn
         \/ ConsoleRead \/ ConsoleReturn \/ DeliverReturn \/ CtrlC
         \/ \E w \in 0..MaxPid : sys_waitpid(w)
         \/ \E s \in Signals, on \in BOOLEAN : sys_signal(s, on)
         \/ \E k \in TargetPids, s \in Signals : sys_kill(k, s)
         \/ \E k \in TargetPids : sys_setfg(k)
  PROVE  Inv'
<1> USE OnCPU
<1> USE DEF Running, schedVars, tableVars, sigVars, spaceVars
<1>0. /\ quantum \in 0..Quantum
      /\ \A p \in Threads : sig_pending[p] \in SUBSET Signals
      /\ \A p \in Threads : sig_handler[p] \in SUBSET Signals
      /\ all \in Seq(Procs)
  BY Zenon DEF TypeOK
<1>1. CASE \/ OtherSyscall \/ BlockEnter \/ BlockReturn
           \/ ConsoleRead \/ ConsoleReturn
  <2>1. \E where \in Ctxs : Goto(where)
    BY <1>1, Zenon DEF OtherSyscall, BlockEnter, BlockReturn, ConsoleRead,
                ConsoleReturn, Ctxs
  <2>2. ctx[current] # "kthread"
    BY <1>1, Zenon DEF OtherSyscall, BlockEnter, BlockReturn, ConsoleRead, ConsoleReturn
  <2>3. UNCHANGED <<schedVars, tableVars, sigVars, spaceVars, wpid>>
    BY <1>1, Zenon DEF OtherSyscall, BlockEnter, BlockReturn, ConsoleRead, ConsoleReturn
  <2>4. BookTypes'
    BY <2>3, Zenon DEF BookTypes
  <2> QED
    BY <1>0, <2>1, <2>2, <2>3, <2>4, GotoKeeps, FrameKeeps, Zenon
<1>2. CASE DeliverReturn
  <2>1. Goto("ring3") /\ "ring3" \in Ctxs /\ ctx[current] # "kthread"
    BY <1>2, Zenon DEF DeliverReturn, Ctxs
  <2>2. BookTypes'
    BY <1>2, StopperProps, Zenon DEF DeliverReturn, BookTypes
  <2> QED
    BY <1>0, <1>2, <2>1, <2>2, GotoKeeps, FrameKeeps, Zenon DEF DeliverReturn
<1>3. CASE CtrlC
  <2>1. PICK t \in scheduler_find(g_fg_pid) :
               sig_pending' = [sig_pending EXCEPT ![t] = @ \cup {SIGINT}]
    BY <1>3, Zenon DEF CtrlC
  <2>2. t \in Threads
    BY <1>0, <2>1, RangeOfSeq DEF scheduler_find, Threads
  <2>3. BookTypes'
    BY <1>0, <1>3, <2>1, <2>2, Zenon DEF CtrlC, BookTypes
  <2>4. UNCHANGED ctx /\ ctx \in [Threads -> Ctxs]
    BY <1>3, Zenon DEF CtrlC, TypeOK
  <2> QED
    BY <1>0, <1>3, <2>3, <2>4, FrameKeeps, Zenon DEF CtrlC
<1>4. ASSUME NEW w \in 0..MaxPid, sys_waitpid(w) PROVE Inv'
  <2>1. Goto("waitpid") /\ "waitpid" \in Ctxs /\ ctx[current] # "kthread"
    BY <1>4, Zenon DEF sys_waitpid, Ctxs
  <2>2. BookTypes'
    BY <1>4, NumbersAssumption DEF sys_waitpid, BookTypes
  <2> QED
    BY <1>0, <1>4, <2>1, <2>2, GotoKeeps, FrameKeeps, Zenon DEF sys_waitpid
<1>5. ASSUME NEW s \in Signals, NEW on \in BOOLEAN, sys_signal(s, on) PROVE Inv'
  <2>1. Goto("sysret") /\ "sysret" \in Ctxs /\ ctx[current] # "kthread"
    BY <1>5, Zenon DEF sys_signal, Ctxs
  <2>2. BookTypes'
    BY <1>0, <1>5, Zenon DEF sys_signal, BookTypes
  <2> QED
    BY <1>0, <1>5, <2>1, <2>2, GotoKeeps, FrameKeeps, Zenon DEF sys_signal
<1>6. ASSUME NEW k \in TargetPids, NEW s \in Signals, sys_kill(k, s) PROVE Inv'
  <2>1. PICK t \in scheduler_find(k) :
               sig_pending' = [sig_pending EXCEPT ![t] = @ \cup {s}]
    BY <1>6, Zenon DEF sys_kill
  <2>2. t \in Threads
    BY <1>0, <2>1, RangeOfSeq DEF scheduler_find, Threads
  <2>3. BookTypes'
    BY <1>0, <1>6, <2>1, <2>2, Zenon DEF sys_kill, BookTypes
  <2>4. Goto("sysret") /\ "sysret" \in Ctxs /\ ctx[current] # "kthread"
    BY <1>6, Zenon DEF sys_kill, Ctxs
  <2> QED
    BY <1>0, <1>6, <2>3, <2>4, GotoKeeps, FrameKeeps, Zenon DEF sys_kill
<1>7. ASSUME NEW k \in TargetPids, sys_setfg(k) PROVE Inv'
  <2>1. Goto("sysret") /\ "sysret" \in Ctxs /\ ctx[current] # "kthread"
    BY <1>7, Zenon DEF sys_setfg, Ctxs
  <2>2. BookTypes'
    BY <1>7, NumbersAssumption, Zenon DEF sys_setfg, BookTypes
  <2> QED
    BY <1>0, <1>7, <2>1, <2>2, GotoKeeps, FrameKeeps, Zenon DEF sys_setfg
<1> QED
  BY <1>1, <1>2, <1>3, <1>4, <1>5, <1>6, <1>7, Zenon

(* The actions in which the process on the CPU yields, exits or is killed. *)
LEMMA YieldStepKeeps ==
  ASSUME Inv,
         \/ WaitpidYield \/ BlockYield \/ sys_exit \/ DeliverExit \/ TickExit
         \/ TickCharge
  PROVE  Inv'
<1> USE OnCPU
<1> USE DEF Running, schedVars, tableVars, sigVars, spaceVars
<1>0. /\ quantum \in 0..Quantum /\ state \in [Threads -> States]
      /\ [state EXCEPT ![current] = "ZOMBIE"] \in [Threads -> States]
      /\ ctx \in [Threads -> Ctxs]
  BY Zenon DEF TypeOK, States
<1>1. CASE WaitpidYield \/ BlockYield
  <2>1. BookTypes'
    BY <1>1, Zenon DEF WaitpidYield, BlockYield, BookTypes
  <2> QED
    BY <1>0, <1>1, <2>1, YieldKeeps, Zenon DEF WaitpidYield, BlockYield
<1>2. ASSUME NEW code \in Nat, scheduler_exit(code), ctx[current] # "kthread",
             UNCHANGED <<all, pid, g_next_pid, ctx, spaceVars>>,
             UNCHANGED <<parent, creator, sig_handler, g_fg_pid, wpid>>,
             sig_pending' \in [Threads -> SUBSET Signals]
      PROVE  Inv'
  <2>1. BookTypes'
    BY <1>2, Zenon DEF scheduler_exit, BookTypes
  <2> QED
    BY <1>0, <1>2, <2>1, YieldKeeps, Zenon DEF scheduler_exit
<1>3. CASE sys_exit
  BY <1>2, <1>3, Zenon DEF sys_exit, BookTypes
<1>4. CASE DeliverExit \/ TickExit
  <2>1. DieBySignal /\ ctx[current] # "kthread"
    BY <1>4, Zenon DEF DeliverExit, TickExit
  <2>2. 128 + Stopper(current) \in Nat
    BY <2>1, StopperProps DEF DieBySignal, Dies
  <2>3. sig_pending' \in [Threads -> SUBSET Signals]
    BY <2>1, StopperProps, Zenon DEF DieBySignal, BookTypes
  <2> QED
    BY <1>2, <2>1, <2>2, <2>3, Zenon DEF DieBySignal
<1>5. CASE TickCharge
  <2> DEFINE q == IF quantum > 0 THEN quantum - 1 ELSE 0
  <2>1. q \in 0..Quantum
    BY <1>0, NumbersAssumption
  <2>2. BookTypes'
    BY <1>5, StopperProps, Zenon DEF TickCharge, BookTypes
  <2>3. CASE q = 0
    <3>1. scheduler_yield(state, q)
      BY <1>5, <2>3, Zenon DEF TickCharge
    <3> QED
      BY <1>0, <1>5, <2>1, <2>2, <3>1, YieldKeeps, Zenon DEF TickCharge
  <2>4. CASE q # 0
    <3>1. quantum' = q /\ UNCHANGED <<state, ready, current, cr3>>
      BY <1>5, <2>4, Zenon DEF TickCharge
    <3> QED
      BY <1>0, <1>5, <2>1, <2>2, <3>1, FrameKeeps, Zenon DEF TickCharge
  <2> QED
    BY <2>3, <2>4, Zenon
<1> QED
  BY <1>1, <1>3, <1>4, <1>5, Zenon

-----------------------------------------------------------------------------
(* sys_exec, and the failure paths that only take an address space. *)
LEMMA ExecKeeps ==
  ASSUME Inv, NEW as \in Spaces, sys_exec(as) \/ LeakSpace(as)
  PROVE  Inv'
<1> USE OnCPU, ProcsAssumption, SpacesAssumption
<1> USE DEF Running, schedVars, tableVars, sigVars, spaceVars
<1>1. /\ as \notin spaces /\ Goto("sysret") /\ "sysret" \in Ctxs
      /\ ctx[current] # "kthread"
      /\ UNCHANGED <<state, ready, current, quantum, all, pid, g_next_pid>>
      /\ UNCHANGED <<parent, exit_code, creator, sig_pending, sig_handler,
                     g_fg_pid, wpid>>
  BY Zenon DEF sys_exec, LeakSpace, Ctxs
<1>2. ctx' \in [Threads -> Ctxs] /\ ctx'[Idle] = "kthread"
  BY <1>1, GotoKeeps, Zenon
<1>3. RunQueueExact' /\ ProcessListExact' /\ ExitHasSuccessor'
  BY <1>1, <1>2, Zenon DEF Inv, RunQueueExact, ProcessListExact, ExitHasSuccessor, Runnable
<1>4. AddressSpacesOwned /\ pml4 \in [Threads -> Spaces \cup {NULL}]
      /\ spaces \in SUBSET Spaces
  BY Zenon DEF Inv, TypeOK
<1>5. CASE sys_exec(as)
  <2>1. /\ pml4' = [pml4 EXCEPT ![current] = as] /\ cr3' = as
        /\ spaces' = (spaces \cup {as}) \ {pml4[current]}
    BY <1>5, Zenon DEF sys_exec
  <2>2. TypeOK'
    BY <1>1, <1>2, <1>4, <2>1, Zenon DEF TypeOK
  <2>3. \A p \in Threads : pml4'[p] = IF p = current THEN as ELSE pml4[p]
    BY <1>4, <2>1, Zenon
  <2>4. \A p \in Threads : pml4[p] # as
    BY <1>1, <1>4, Zenon DEF AddressSpacesOwned
  <2>5. \A p \in Threads : pml4'[p] # NULL => pml4'[p] \in spaces'
    BY <1>4, <2>1, <2>3, <2>4, Zenon DEF AddressSpacesOwned
  <2>6. \A p, q \in Threads : p # q /\ pml4'[p] # NULL => pml4'[p] # pml4'[q]
    BY <1>4, <2>3, <2>4, Zenon DEF AddressSpacesOwned
  <2>7. cr3' = SpaceOf(pml4[current])' /\ cr3' \in spaces'
    BY <1>1, <2>1, <2>3, <2>4, Zenon DEF SpaceOf
  <2>8. AddressSpacesOwned'
    BY <2>5, <2>6, <2>7, Zenon DEF AddressSpacesOwned
  <2> QED
    BY <1>3, <2>2, <2>8, Zenon DEF Inv
<1>6. CASE LeakSpace(as)
  <2>1. UNCHANGED <<pml4, cr3>> /\ spaces' = spaces \cup {as}
    BY <1>6, Zenon DEF LeakSpace
  <2>2. TypeOK'
    BY <1>1, <1>2, <1>4, <2>1, Zenon DEF TypeOK
  <2>3. AddressSpacesOwned'
    BY <1>1, <1>4, <2>1, Zenon DEF AddressSpacesOwned, SpaceOf
  <2> QED
    BY <1>3, <2>2, <2>3, Zenon DEF Inv
<1> QED
  BY <1>5, <1>6, Zenon

(* sys_fork: the child's memory held no process, so it was in neither the  *)
(* queue nor the list, and its pid is the largest so far.                  *)
LEMMA ForkKeeps ==
  ASSUME Inv, NEW c \in Procs, NEW as \in Spaces, sys_fork(c, as)
  PROVE  Inv'
<1> USE OnCPU, ProcsAssumption, SpacesAssumption
<1> USE DEF Running, spaceVars
<1> DEFINE n == Len(ready)
           m == Len(all)
<1>1. /\ ctx[current] = "ring3" /\ as \notin spaces /\ state[c] = "FREE"
      /\ state' = [state EXCEPT ![c] = "READY"]
      /\ pid' = [pid EXCEPT ![c] = g_next_pid]
      /\ g_next_pid' = g_next_pid + 1
      /\ all' = <<c>> \o all /\ ready' = Append(ready, c)
      /\ pml4' = [pml4 EXCEPT ![c] = as]
      /\ spaces' = spaces \cup {as}
      /\ ctx' = [ctx EXCEPT ![c] = "ring3", ![current] = "sysret"]
      /\ UNCHANGED <<current, quantum, cr3>>
  BY Zenon DEF sys_fork, proc_alloc, scheduler_register
<1>2. c \in Threads /\ c # current /\ c # Idle /\ current # Idle
  BY <1>1, Zenon DEF Threads, Inv, ExitHasSuccessor, Runnable
<1>3. /\ ready \in Seq(Threads) /\ all \in Seq(Procs) /\ n \in Nat /\ m \in Nat
      /\ DOMAIN ready = 1..n /\ DOMAIN all = 1..m
      /\ g_next_pid \in Nat \ {0} /\ pid \in [Threads -> Nat]
      /\ \A p \in Procs : p \in Threads
  <2>1. ready \in Seq(Threads) /\ all \in Seq(Procs)
    BY Zenon DEF TypeOK
  <2>2. g_next_pid \in Nat \ {0} /\ pid \in [Threads -> Nat]
    BY Zenon DEF TypeOK
  <2>3. \A p \in Procs : p \in Threads
    BY Zenon DEF Threads
  <2> QED
    BY <2>1, <2>2, <2>3
<1>4. /\ ready' \in Seq(Threads) /\ Len(ready') = n + 1
      /\ DOMAIN ready' = 1..(n + 1)
      /\ \A i \in 1..n : ready'[i] = ready[i]
      /\ ready'[n + 1] = c
  BY <1>1, <1>2, <1>3
<1>5. /\ all' \in Seq(Procs) /\ Len(all') = m + 1
      /\ DOMAIN all' = 1..(m + 1)
      /\ all'[1] = c
      /\ \A i \in 1..m : all'[i + 1] = all[i]
  BY <1>1, <1>3
<1>6. \A p \in Threads : state'[p] = IF p = c THEN "READY" ELSE state[p]
  BY <1>1, <1>2, Zenon DEF TypeOK
<1>7. TypeOK'
  <2>1. BookTypes'
    BY <1>1, <1>2, <1>3, Zenon DEF sys_fork, proc_alloc, BookTypes
  <2>2. state' \in [Threads -> States] /\ ctx' \in [Threads -> Ctxs]
    BY <1>1, <1>2, Zenon DEF TypeOK, States, Ctxs
  <2>3. pid' \in [Threads -> Nat] /\ g_next_pid' \in Nat \ {0}
    BY <1>1, <1>2, <1>3
  <2>4. pml4' \in [Threads -> Spaces \cup {NULL}] /\ spaces' \in SUBSET Spaces
    BY <1>1, <1>2, Zenon DEF TypeOK
  <2> QED
    BY <1>1, <1>4, <1>5, <2>1, <2>2, <2>3, <2>4, Zenon DEF TypeOK, BookTypes
<1>8. RunQueueExact'
  <2>1. /\ \A i, j \in 1..n : ready[i] = ready[j] => i = j
        /\ \A p \in Threads : (\E i \in 1..n : ready[i] = p) <=> state[p] = "READY"
        /\ \A p \in Threads : p = current <=> state[p] = "RUNNING"
    BY <1>3, RangeOfSeq, Zenon DEF Inv, RunQueueExact
  <2>2. \A i \in 1..n : ready[i] # c
    BY <1>1, <1>2, <2>1, Zenon
  <2>3. \A i : i \in 1..(n + 1) <=> i \in 1..n \/ i = n + 1
    BY <1>3
  <2>4. \A i, j \in 1..(n + 1) : ready'[i] = ready'[j] => i = j
    BY <1>4, <2>1, <2>2, <2>3
  <2>5. \A p \in Threads :
          (\E i \in 1..(n + 1) : ready'[i] = p) <=> state'[p] = "READY"
    <3>1. \A p : (\E i \in 1..(n + 1) : ready'[i] = p)
                 <=> (\E i \in 1..n : ready[i] = p) \/ p = c
      BY <1>4, <2>3, Zenon
    <3> QED
      BY <1>6, <2>1, <3>1, Zenon
  <2>6. \A p \in Threads : p = current' <=> state'[p] = "RUNNING"
    BY <1>1, <1>2, <1>6, <2>1
  <2>7. \A p : p \in Range(ready') <=> \E i \in DOMAIN ready' : ready'[i] = p
    BY Zenon DEF Range
  <2> QED
    BY <1>4, <2>4, <2>5, <2>6, <2>7 DEF RunQueueExact
<1>9. ExitHasSuccessor'
  <2>1. ready' # <<>>
    BY <1>3, <1>4
  <2>2. ctx'[Idle] = "kthread"
    BY <1>1, <1>2, Zenon DEF TypeOK
  <2> QED
    BY <1>2, <1>6, <2>1, <2>2, Zenon DEF Inv, ExitHasSuccessor, Runnable
<1>10. ProcessListExact'
  <2>1. /\ \A p \in Procs : (\E i \in 1..m : all[i] = p) <=> state[p] # "FREE"
        /\ \A i, j \in 1..m : i < j => pid[all[j]] < pid[all[i]]
        /\ \A i \in 1..m : pid[all[i]] < g_next_pid
    BY <1>3, RangeOfSeq, Zenon DEF Inv, ProcessListExact
  <2>2. \A i \in 1..m : all[i] # c /\ all[i] \in Threads
    <3>1. \A i \in 1..m : all[i] \in Procs
      BY <1>3
    <3>2. c \in Procs /\ state[c] = "FREE"
      BY <1>1, Zenon
    <3> QED
      BY <1>3, <2>1, <3>1, <3>2, Zenon
  <2>3. \A p \in Threads : pid'[p] = IF p = c THEN g_next_pid ELSE pid[p]
    BY <1>1, <1>2, <1>3, Zenon
  <2>4. \A i \in 1..m : pid'[all'[i + 1]] = pid[all[i]]
    BY <1>5, <2>2, <2>3, Zenon
  <2>5. pid'[all'[1]] = g_next_pid
    BY <1>2, <1>5, <2>3, Zenon
  <2>6. /\ \A i \in 1..(m + 1) : i = 1 \/ (i - 1 \in 1..m /\ i = (i - 1) + 1)
        /\ \A i \in 1..m : i + 1 \in 1..(m + 1)
        /\ 1 \in 1..(m + 1)
    BY <1>3
  <2>7. \A i \in 2..(m + 1) : pid'[all'[i]] = pid[all[i - 1]]
    BY <1>3, <2>4, <2>6
  <2>8. \A i, j \in 1..(m + 1) : i < j => pid'[all'[j]] < pid'[all'[i]]
    <3> SUFFICES ASSUME NEW i \in 1..(m + 1), NEW j \in 1..(m + 1), i < j
                 PROVE  pid'[all'[j]] < pid'[all'[i]]
      BY Zenon
    <3>1. j - 1 \in 1..m /\ pid'[all'[j]] = pid[all[j - 1]]
      BY <1>3, <2>7
    <3>2. CASE i = 1
      BY <2>1, <2>5, <3>1, <3>2, Zenon
    <3>3. CASE i # 1
      <4>1. /\ i \in 2..(m + 1) /\ i - 1 \in 1..m
            /\ j - 1 \in 1..m /\ i - 1 < j - 1
        <5> HIDE DEF m
        <5>1. i \in Int /\ j \in Int /\ 1 < i /\ i < j /\ j <= m + 1 /\ m \in Nat
          BY <1>3, <3>3
        <5> QED
          BY <5>1
      <4>2. pid'[all'[i]] = pid[all[i - 1]]
        BY <2>7, <4>1, Zenon
      <4> QED
        BY <2>1, <3>1, <4>1, <4>2, Zenon
    <3> QED
      BY <3>2, <3>3, Zenon
  <2>9. \A i \in 1..(m + 1) : pid'[all'[i]] < g_next_pid'
    <3> SUFFICES ASSUME NEW i \in 1..(m + 1) PROVE pid'[all'[i]] < g_next_pid + 1
      BY <1>1, Zenon
    <3>1. CASE i = 1
      BY <1>3, <2>5, <3>1
    <3>2. CASE i # 1
      <4>1. i \in 2..(m + 1) /\ i - 1 \in 1..m
        BY <1>3, <3>2
      <4>2. pid[all[i - 1]] \in Nat /\ pid[all[i - 1]] < g_next_pid
        BY <1>3, <2>1, <2>2, <4>1, Zenon
      <4>3. pid'[all'[i]] = pid[all[i - 1]]
        BY <2>7, <4>1, Zenon
      <4> QED
        BY <1>3, <4>2, <4>3
    <3> QED
      BY <3>1, <3>2, Zenon
  <2>10. \A p \in Procs : (\E i \in 1..(m + 1) : all'[i] = p) <=> state'[p] # "FREE"
    <3>1. \A p : (\E i \in 1..(m + 1) : all'[i] = p)
                 <=> p = c \/ (\E i \in 1..m : all[i] = p)
      <4>1. ASSUME NEW p, NEW i \in 1..(m + 1), all'[i] = p
            PROVE  p = c \/ \E k \in 1..m : all[k] = p
        <5>1. CASE i = 1
          BY <1>5, <4>1, <5>1, Zenon
        <5>2. CASE i # 1
          BY <1>5, <2>6, <4>1, <5>2, Zenon
        <5> QED
          BY <5>1, <5>2, Zenon
      <4>2. ASSUME NEW p, NEW i \in 1..m, all[i] = p
            PROVE  \E k \in 1..(m + 1) : all'[k] = p
        BY <1>5, <2>6, <4>2, Zenon
      <4> QED
        BY <1>5, <2>6, <4>1, <4>2, Zenon
    <3> QED
      BY <1>3, <1>6, <2>1, <3>1, Zenon
  <2>11. \A p : p \in Range(all') <=> \E i \in DOMAIN all' : all'[i] = p
    BY Zenon DEF Range
  <2> QED
    BY <1>5, <2>8, <2>9, <2>10, <2>11, ZenonT(30) DEF ProcessListExact
<1>11. AddressSpacesOwned'
  <2>1. \A p \in Threads : pml4'[p] = IF p = c THEN as ELSE pml4[p]
    BY <1>1, <1>2, Zenon DEF TypeOK
  <2>2. AddressSpacesOwned /\ \A p \in Threads : pml4[p] # as
    BY <1>1, Zenon DEF Inv, AddressSpacesOwned
  <2>3. cr3' = SpaceOf(pml4[current])' /\ cr3' \in spaces' \cup {KernelSpace}
    BY <1>1, <1>2, <2>1, <2>2, Zenon DEF AddressSpacesOwned, SpaceOf
  <2>4. \A p \in Threads : pml4'[p] # NULL => pml4'[p] \in spaces'
    <3>1. \A p \in Threads : pml4[p] # NULL => pml4[p] \in spaces
      BY <2>2, Zenon DEF AddressSpacesOwned
    <3>2. spaces' = spaces \cup {as}
      BY <1>1, Zenon
    <3> QED
      BY <2>1, <3>1, <3>2, Zenon
  <2>5. \A p, q \in Threads : p # q /\ pml4'[p] # NULL => pml4'[p] # pml4'[q]
    BY <2>1, <2>2, Zenon DEF AddressSpacesOwned
  <2> QED
    BY <2>3, <2>4, <2>5, Zenon DEF AddressSpacesOwned
<1> QED
  BY <1>7, <1>8, <1>9, <1>10, <1>11, Zenon DEF Inv

(* The list scheduler_remove returns: everything but the i-th element, in  *)
(* the same order.                                                         *)
LEMMA RemoveProps ==
  ASSUME NEW T, NEW s \in Seq(T), NEW i \in 1..Len(s)
  PROVE  /\ scheduler_remove(s, i) \in Seq(T)
         /\ DOMAIN scheduler_remove(s, i) = 1..(Len(s) - 1)
         /\ \A j \in 1..(Len(s) - 1) :
              scheduler_remove(s, i)[j] = IF j < i THEN s[j] ELSE s[j + 1]
<1> DEFINE n == Len(s)
<1>1. n \in Nat /\ n - 1 \in Nat /\ \A j \in 1..n : s[j] \in T
  OBVIOUS
<1>2. \A j \in 1..(n - 1) : j \in 1..n /\ j + 1 \in 1..n
  BY <1>1
<1>3. scheduler_remove(s, i) \in [1..(n - 1) -> T]
  BY <1>1, <1>2, Zenon DEF scheduler_remove
<1>4. scheduler_remove(s, i) \in Seq(T)
  BY <1>1, <1>3
<1> QED
  BY <1>3, <1>4, Zenon DEF scheduler_remove

(* The zombie that sys_waitpid frees is on the list and not on the CPU. *)
LEMMA ReapProps ==
  ASSUME Inv, Reapable(current, wpid[current]) # {}
  PROVE  LET i == scheduler_reap(current, wpid[current])
         IN  /\ i \in DOMAIN all /\ state[all[i]] = "ZOMBIE"
             /\ parent[all[i]] = current
             /\ all[i] \in Procs /\ all[i] # current
<1> DEFINE S == Reapable(current, wpid[current])
<1>1. all \in Seq(Procs) /\ DOMAIN all = 1..Len(all)
  BY DEF Inv, TypeOK
<1>2. S \in SUBSET Nat
  <2>1. \A k \in S : k \in 1..Len(all)
    BY <1>1, Zenon DEF Reapable
  <2>2. \A k \in 1..Len(all) : k \in Nat
    BY <1>1
  <2> QED
    BY <2>1, <2>2, Zenon
<1>3. \E m \in S : \A k \in S : m <= k
  BY <1>2, LeastElement, Zenon
<1>4. scheduler_reap(current, wpid[current]) \in S
  BY <1>3, Zenon DEF scheduler_reap
<1> QED
  BY <1>1, <1>4, OnCPU DEF Reapable

(* sys_waitpid freeing a zombie. *)
LEMMA ReapKeeps ==
  ASSUME Inv, WaitpidReap
  PROVE  Inv'
<1> USE DEF Running, spaceVars
<1> DEFINE i == scheduler_reap(current, wpid[current])
           z == all[i]
           m == Len(all)
<1>0. /\ TypeOK /\ BookTypes /\ AddressSpacesOwned /\ current \in Threads
      /\ Idle \in Threads /\ NULL \notin Spaces
      /\ \A p \in Procs : p \in Threads /\ p # Idle
  BY OnCPU, ProcsAssumption, SpacesAssumption, Zenon DEF Inv, Threads
<1>1. /\ ctx[current] = "waitpid"
      /\ all' = scheduler_remove(all, i)
      /\ state' = [state EXCEPT ![z] = "FREE"]
      /\ spaces' = spaces \ {pml4[z]}
      /\ pml4' = [pml4 EXCEPT ![z] = NULL]
      /\ pid' = [pid EXCEPT ![z] = 0]
      /\ ctx' = [ctx EXCEPT ![z] = "ring3", ![current] = "sysret"]
      /\ UNCHANGED <<ready, current, quantum, cr3, g_next_pid, g_fg_pid>>
  BY Zenon DEF WaitpidReap
<1>2. /\ i \in DOMAIN all /\ state[z] = "ZOMBIE" /\ z \in Procs
      /\ z # current /\ z \in Threads /\ z # Idle /\ current # Idle
  BY <1>0, <1>1, ReapProps, OnCPU, Zenon DEF WaitpidReap
<1>3. /\ all \in Seq(Procs) /\ DOMAIN all = 1..m /\ m \in Nat /\ i \in 1..m
      /\ \A k \in 1..m : all[k] \in Procs
  <2> HIDE DEF i, z
  <2>1. all \in Seq(Procs)
    BY <1>0, Zenon DEF TypeOK
  <2> QED
    BY <1>2, <2>1
<1>4. /\ all' \in Seq(Procs) /\ DOMAIN all' = 1..(m - 1)
      /\ \A j \in 1..(m - 1) : all'[j] = IF j < i THEN all[j] ELSE all[j + 1]
  BY <1>1, <1>3, RemoveProps, Zenon
<1>5. \A p \in Threads : /\ state'[p] = IF p = z THEN "FREE" ELSE state[p]
                         /\ pid'[p] = IF p = z THEN 0 ELSE pid[p]
                         /\ pml4'[p] = IF p = z THEN NULL ELSE pml4[p]
  BY <1>0, <1>1, <1>2, Zenon DEF TypeOK
<1> HIDE DEF i, z, m
<1>6. TypeOK'
  <2>1. BookTypes'
    <3>1. /\ parent' = [parent EXCEPT ![z] = NULL]
          /\ creator' = [creator EXCEPT ![z] = 0]
          /\ exit_code' = [exit_code EXCEPT ![z] = 0]
          /\ sig_pending' = [sig_pending EXCEPT ![z] = {}]
          /\ sig_handler' = [sig_handler EXCEPT ![z] = {}]
          /\ wpid' = [wpid EXCEPT ![z] = 0, ![current] = 0]
      BY Zenon DEF WaitpidReap, i, z
    <3> QED
      BY <1>0, <1>1, <1>2, <3>1, Zenon DEF BookTypes
  <2>2. state' \in [Threads -> States] /\ ctx' \in [Threads -> Ctxs]
    BY <1>0, <1>1, <1>2, Zenon DEF TypeOK, States, Ctxs
  <2>3. pid' \in [Threads -> Nat] /\ spaces' \in SUBSET Spaces
        /\ pml4' \in [Threads -> Spaces \cup {NULL}]
    BY <1>0, <1>1, <1>2, Zenon DEF TypeOK
  <2> QED
    BY <1>0, <1>1, <1>4, <2>1, <2>2, <2>3, Zenon DEF TypeOK, BookTypes
<1>7. RunQueueExact'
  BY <1>1, <1>2, <1>5 DEF Inv, RunQueueExact
<1>8. ExitHasSuccessor'
  <2>1. ctx'[Idle] = "kthread"
    BY <1>0, <1>1, <1>2, Zenon DEF TypeOK, Inv, ExitHasSuccessor
  <2> QED
    BY <1>0, <1>1, <1>2, <1>5, <2>1, Zenon DEF Inv, ExitHasSuccessor
<1>9. ProcessListExact'
  <2>1. /\ \A p \in Procs : (\E k \in 1..m : all[k] = p) <=> state[p] # "FREE"
        /\ \A j, k \in 1..m : j < k => pid[all[k]] < pid[all[j]]
        /\ \A k \in 1..m : pid[all[k]] < g_next_pid
    BY <1>3, RangeOfSeq, Zenon DEF Inv, ProcessListExact, m
  <2>2. \A k \in 1..m : k # i => all[k] # z
    <3>1. \A k \in 1..m : pid[all[k]] \in Nat
      BY <1>0, <1>3, Zenon DEF TypeOK
    <3>2. z = all[i]
      BY Zenon DEF z
    <3>3. \A k \in 1..m : k # i => k < i \/ i < k
      BY <1>3
    <3>4. \A k \in 1..m : k # i => pid[all[k]] # pid[z]
      BY <1>3, <2>1, <3>1, <3>2, <3>3
    <3> QED
      BY <3>4, Zenon
  <2>3. \A j \in 1..(m - 1) : j \in 1..m /\ j + 1 \in 1..m
    BY <1>3
  <2>4. \A j \in 1..(m - 1) : all'[j] # z /\ pid'[all'[j]] = pid[all'[j]]
    <3> SUFFICES ASSUME NEW j \in 1..(m - 1)
                 PROVE  all'[j] # z /\ pid'[all'[j]] = pid[all'[j]]
      BY Zenon
    <3>1. \E k \in 1..m : k # i /\ all'[j] = all[k]
      <4>1. CASE j < i
        BY <1>3, <1>4, <2>3, <4>1
      <4>2. CASE ~(j < i)
        BY <1>3, <1>4, <2>3, <4>2
      <4> QED
        BY <4>1, <4>2, Zenon
    <3> QED
      BY <1>0, <1>3, <1>5, <2>2, <3>1, Zenon
  <2>5. ASSUME NEW j \in 1..(m - 1), NEW k \in 1..(m - 1), j < k
        PROVE  pid'[all'[k]] < pid'[all'[j]]
    <3> DEFINE at(x) == IF x < i THEN x ELSE x + 1
    <3>1. at(j) \in 1..m /\ at(k) \in 1..m /\ at(j) < at(k)
      BY <1>3, <2>5
    <3>2. all'[j] = all[at(j)] /\ all'[k] = all[at(k)]
      BY <1>4, Zenon
    <3> HIDE DEF at
    <3> QED
      BY <2>1, <2>4, <3>1, <3>2
  <2>6. \A j \in 1..(m - 1) : pid'[all'[j]] < g_next_pid'
    BY <1>1, <1>4, <2>1, <2>3, <2>4
  <2>7. \A p \in Procs : (\E j \in 1..(m - 1) : all'[j] = p)
                         <=> p # z /\ (\E k \in 1..m : all[k] = p)
    <3>1. ASSUME NEW j \in 1..(m - 1)
          PROVE  all'[j] # z /\ \E k \in 1..m : all[k] = all'[j]
      BY <1>4, <2>3, <2>4, Zenon
    <3>2. ASSUME NEW k \in 1..m, all[k] # z
          PROVE  \E j \in 1..(m - 1) : all'[j] = all[k]
      <4>1. k # i
        BY <3>2, Zenon DEF z
      <4>2. CASE k < i
        <5>1. k \in 1..(m - 1)
          BY <1>3, <4>2
        <5> QED
          BY <1>4, <4>2, <5>1, Zenon
      <4>3. CASE k > i
        <5>1. k - 1 \in 1..(m - 1) /\ ~(k - 1 < i) /\ (k - 1) + 1 = k
          BY <1>3, <4>3
        <5> QED
          BY <1>4, <5>1, Zenon
      <4> QED
        BY <1>3, <4>1, <4>2, <4>3
    <3> QED
      BY <3>1, <3>2, Zenon
  <2>8. \A p : p \in Range(all') <=> \E j \in DOMAIN all' : all'[j] = p
    BY Zenon DEF Range
  <2>9. \A p \in Procs : p \in Range(all') <=> state'[p] # "FREE"
    BY <1>0, <1>4, <1>5, <2>1, <2>7, <2>8
  <2> QED
    BY <1>4, <2>5, <2>6, <2>9, Zenon DEF ProcessListExact
<1>10. AddressSpacesOwned'
  <2>1. /\ cr3 = SpaceOf(pml4[current]) /\ cr3 \in spaces \cup {KernelSpace}
        /\ \A p \in Threads : pml4[p] # NULL => pml4[p] \in spaces
        /\ \A p, q \in Threads : p # q /\ pml4[p] # NULL => pml4[p] # pml4[q]
    BY <1>0, Zenon DEF AddressSpacesOwned
  <2>2. cr3' = SpaceOf(pml4[current])'
    BY <1>0, <1>1, <1>2, <1>5, <2>1, Zenon DEF SpaceOf
  <2>3. cr3' \in spaces' \cup {KernelSpace}
    BY <1>0, <1>1, <1>2, <2>1, Zenon DEF SpaceOf
  <2>4. \A p \in Threads : pml4'[p] # NULL => pml4'[p] \in spaces'
    BY <1>1, <1>2, <1>5, <2>1
  <2>5. \A p, q \in Threads : p # q /\ pml4'[p] # NULL => pml4'[p] # pml4'[q]
    BY <1>5, <2>1, Zenon
  <2> QED
    BY <2>2, <2>3, <2>4, <2>5, Zenon DEF AddressSpacesOwned
<1> QED
  BY <1>6, <1>7, <1>8, <1>9, <1>10, Zenon DEF Inv

-----------------------------------------------------------------------------
(* Every step keeps the invariants. *)
LEMMA NextKeeps == Inv /\ [Next]_vars => Inv'
<1> SUFFICES ASSUME Inv, [Next]_vars PROVE Inv'
  BY Zenon
<1>1. CASE UNCHANGED vars
  <2>1. /\ UNCHANGED <<state, ready, current, cr3, all, pid, g_next_pid>>
        /\ UNCHANGED spaceVars /\ UNCHANGED <<quantum, ctx>>
    BY <1>1, Zenon DEF vars, schedVars, tableVars, sigVars, spaceVars
  <2>2. BookTypes'
    BY <1>1, OnCPU, Zenon DEF vars, schedVars, tableVars, sigVars, spaceVars, BookTypes
  <2> QED
    BY <2>1, <2>2, OnCPU, FrameKeeps, Zenon DEF TypeOK
<1>2. CASE Tick
  BY <1>2, YieldStepKeeps, Zenon DEF Tick
<1>3. CASE CtrlC \/ ConsoleReturn
  BY <1>3, PlainStepKeeps, Zenon
<1>4. CASE KernelStep
  BY <1>4, PlainStepKeeps, YieldStepKeeps, ReapKeeps, Zenon DEF KernelStep
<1>5. CASE Syscall
  <2>1. CASE \E c \in Procs, as \in Spaces : sys_fork(c, as)
    BY <2>1, ForkKeeps, Zenon
  <2>2. CASE \E as \in Spaces : sys_exec(as) \/ LeakSpace(as)
    BY <2>2, ExecKeeps, Zenon
  <2>3. CASE sys_exit
    BY <2>3, YieldStepKeeps, Zenon
  <2>4. CASE \/ OtherSyscall \/ BlockEnter \/ ConsoleRead
             \/ \E w \in 0..MaxPid : sys_waitpid(w)
             \/ \E s \in Signals, on \in BOOLEAN : sys_signal(s, on)
             \/ \E k \in TargetPids, s \in Signals : sys_kill(k, s)
             \/ \E k \in TargetPids : sys_setfg(k)
    BY <2>4, PlainStepKeeps, Zenon
  <2> QED
    BY <1>5, <2>1, <2>2, <2>3, <2>4, Zenon DEF Syscall
<1> QED
  BY <1>1, <1>2, <1>3, <1>4, <1>5, Zenon DEF Next

(* The joint invariant holds in every reachable state. *)
THEOREM Invariance == Spec => []Inv
<1>1. Init => Inv
  BY InitInv, Zenon
<1>2. Inv /\ [Next]_vars => Inv'
  BY NextKeeps, Zenon
<1> QED
  BY <1>1, <1>2, PTL DEF Spec

(* Every variable keeps its type: in particular g_current is always a      *)
(* thread and the queue and the list link processes.                       *)
THEOREM TypeCorrect == Spec => []TypeOK
<1>1. Inv => TypeOK
  BY Zenon DEF Inv
<1> QED
  BY <1>1, Invariance, PTL

(* The ready queue is exactly the READY processes, each once, and the CPU  *)
(* holds the only RUNNING one.                                             *)
THEOREM RunQueueCorrect == Spec => []RunQueueExact
<1>1. Inv => RunQueueExact
  BY Zenon DEF Inv
<1> QED
  BY <1>1, Invariance, PTL

(* scheduler_exit always finds another process to switch to. *)
THEOREM ExitCorrect == Spec => []ExitHasSuccessor
<1>1. Inv => ExitHasSuccessor
  BY Zenon DEF Inv
<1> QED
  BY <1>1, Invariance, PTL

(* g_all_head links exactly the existing processes, in order of pid. *)
THEOREM ProcessListCorrect == Spec => []ProcessListExact
<1>1. Inv => ProcessListExact
  BY Zenon DEF Inv
<1> QED
  BY <1>1, Invariance, PTL

(* The loaded address space is the running process's own, and no private   *)
(* address space is shared or released while in use.                       *)
THEOREM AddressSpacesCorrect == Spec => []AddressSpacesOwned
<1>1. Inv => AddressSpacesOwned
  BY Zenon DEF Inv
<1> QED
  BY <1>1, Invariance, PTL

-----------------------------------------------------------------------------
(* Only scheduler_exit makes a zombie, of the process on the CPU, and only *)
(* WaitpidReap ends one.  Every other step leaves the set of zombies, and  *)
(* their pids, exit codes and address spaces, as they are.                 *)
ZombiesKept ==
  \A p \in Procs : /\ state'[p] = "ZOMBIE" <=> state[p] = "ZOMBIE"
                   /\ state[p] = "ZOMBIE" => /\ pid'[p] = pid[p]
                                             /\ exit_code'[p] = exit_code[p]
                                             /\ pml4'[p] = pml4[p]

(* A step that exits: code is what scheduler_exit is called with. *)
Exits(code) ==
  /\ scheduler_exit(code) /\ current # Idle
  /\ UNCHANGED <<all, pid>> /\ UNCHANGED spaceVars

(* What a step may do to zombies: keep them, make one by exit or a signal, or reap one. *)
LEMMA ZombieCases ==
  ASSUME Inv, [Next]_vars
  PROVE  ZombiesKept \/ Exits(0) \/ WaitpidReap
         \/ (DieBySignal /\ Exits(128 + Stopper(current)))
<1> USE DEF schedVars, tableVars, sigVars, spaceVars
<1>0. /\ state \in [Threads -> States] /\ pml4 \in [Threads -> Spaces \cup {NULL}]
      /\ pid \in [Threads -> Nat] /\ exit_code \in [Threads -> Nat]
      /\ quantum \in 0..Quantum /\ current \in Threads
      /\ state[current] = "RUNNING"
      /\ \A p \in Procs : p \in Threads
  BY OnCPU, Zenon DEF TypeOK, Threads
<1>1. ASSUME UNCHANGED <<state, pid, exit_code>>,
             \A p \in Procs : state[p] = "ZOMBIE" => pml4'[p] = pml4[p]
      PROVE  ZombiesKept
  BY <1>1, Zenon DEF ZombiesKept
<1>2. ASSUME NEW q \in 0..Quantum, scheduler_yield(state, q),
             UNCHANGED <<pid, exit_code>>, UNCHANGED spaceVars
      PROVE  ZombiesKept
  <2>1. \A p \in Threads : state'[p] = "ZOMBIE" <=> state[p] = "ZOMBIE"
    BY <1>0, <1>2, YieldInv, Zenon
  <2> QED
    BY <1>0, <1>2, <2>1, Zenon DEF ZombiesKept
<1>3. CASE UNCHANGED vars
  BY <1>1, <1>3, Zenon DEF vars
<1>4. CASE TickCharge
  <2> DEFINE q == IF quantum > 0 THEN quantum - 1 ELSE 0
  <2>1. q \in 0..Quantum
    BY <1>0, NumbersAssumption
  <2>2. scheduler_yield(state, q) \/ UNCHANGED state
    BY <1>4, Zenon DEF TickCharge
  <2>3. UNCHANGED <<pid, exit_code>> /\ UNCHANGED spaceVars
    BY <1>4, Zenon DEF TickCharge
  <2> QED
    BY <1>1, <1>2, <2>1, <2>2, <2>3, Zenon
<1>5. CASE TickExit \/ DeliverExit
  BY <1>5, OnCPU, ZenonT(30) DEF TickExit, DeliverExit, DieBySignal, Exits, Running
<1>6. CASE CtrlC \/ ConsoleReturn \/ BlockReturn \/ DeliverReturn
  BY <1>1, <1>6, Zenon DEF CtrlC, ConsoleReturn, BlockReturn, DeliverReturn
<1>7. CASE WaitpidYield \/ BlockYield
  BY <1>0, <1>2, <1>7, Zenon DEF WaitpidYield, BlockYield
<1>8. CASE sys_exit
  BY <1>8, OnCPU, Zenon DEF sys_exit, Exits, Running
<1>9. CASE \/ OtherSyscall \/ BlockEnter \/ ConsoleRead
           \/ \E w \in 0..MaxPid : sys_waitpid(w)
           \/ \E s \in Signals, on \in BOOLEAN : sys_signal(s, on)
           \/ \E k \in TargetPids, s \in Signals : sys_kill(k, s)
           \/ \E k \in TargetPids : sys_setfg(k)
           \/ \E as \in Spaces : LeakSpace(as)
  <2>1. UNCHANGED <<state, pid, exit_code, pml4>>
    BY <1>9, Zenon DEF OtherSyscall, BlockEnter, ConsoleRead, sys_waitpid, sys_signal,
                sys_kill, sys_setfg, LeakSpace
  <2> QED
    BY <1>1, <2>1, Zenon
<1>10. ASSUME NEW as \in Spaces, sys_exec(as) PROVE ZombiesKept
  <2>1. /\ UNCHANGED <<state, pid, exit_code>>
        /\ pml4' = [pml4 EXCEPT ![current] = as]
    BY <1>10, Zenon DEF sys_exec
  <2> QED
    BY <1>0, <1>1, <2>1, Zenon
<1>11. ASSUME NEW c \in Procs, NEW as \in Spaces, sys_fork(c, as) PROVE ZombiesKept
  <2>1. /\ state[c] = "FREE" /\ state' = [state EXCEPT ![c] = "READY"]
        /\ pid' = [pid EXCEPT ![c] = g_next_pid]
        /\ exit_code' = [exit_code EXCEPT ![c] = 0]
        /\ pml4' = [pml4 EXCEPT ![c] = as]
    BY <1>11, Zenon DEF sys_fork, proc_alloc
  <2> QED
    BY <1>0, <2>1, Zenon DEF ZombiesKept
<1> QED
  BY Zenon, <1>3, <1>4, <1>5, <1>6, <1>7, <1>8, <1>9, <1>10, <1>11
     DEF Next, Tick, KernelStep, Syscall

(* What an exiting step does to the states and exit codes. *)
LEMMA ExitProps ==
  ASSUME Inv, NEW code, Exits(code)
  PROVE  /\ \A p \in Threads : state'[p] = "ZOMBIE"
                               <=> state[p] = "ZOMBIE" \/ p = current
         /\ \A p \in Threads : exit_code'[p] = IF p = current THEN code
                                                ELSE exit_code[p]
<1> DEFINE st == [state EXCEPT ![current] = "ZOMBIE"]
<1>1. /\ st \in [Threads -> States] /\ quantum \in 0..Quantum
      /\ exit_code \in [Threads -> Nat]
      /\ \A p \in Threads : st[p] = IF p = current THEN "ZOMBIE" ELSE state[p]
  BY OnCPU, Zenon DEF TypeOK, States
<1>2. scheduler_yield(st, quantum) /\ current # Idle /\ UNCHANGED spaceVars
  BY Zenon DEF Exits, scheduler_exit
<1>3. \A p \in Threads : state'[p] = "ZOMBIE" <=> st[p] = "ZOMBIE"
  <2> HIDE DEF st
  <2>1. st = [state EXCEPT ![current] = "ZOMBIE"]
    BY Zenon DEF st
  <2> QED
    BY <1>1, <1>2, <2>1, YieldInv, Zenon
<1>4. exit_code' = [exit_code EXCEPT ![current] = code]
  BY Zenon DEF Exits, scheduler_exit
<1> QED
  BY <1>1, <1>3, <1>4, Zenon

(* A zombie stays one, with its pid, exit code and address space, until    *)
(* the process its parent field names frees it in sys_waitpid.             *)
THEOREM ZombieFinality == Spec => ZombieIsFinal
<1>1. ASSUME Inv, Inv', [Next]_vars PROVE ZombieStep
  <2> SUFFICES ASSUME NEW p \in Procs, state[p] = "ZOMBIE"
               PROVE  \/ /\ state'[p] = "ZOMBIE"
                         /\ pid'[p] = pid[p] /\ exit_code'[p] = exit_code[p]
                         /\ pml4'[p] = pml4[p] /\ p \in Range(all')
                      \/ /\ state'[p] = "FREE"
                         /\ parent[p] = current /\ ctx[current] = "waitpid"
    BY Zenon DEF ZombieStep
  <2>1. p \in Threads /\ p # current
    BY <1>1, OnCPU, Zenon DEF Threads
  <2>2. state'[p] = "ZOMBIE" => p \in Range(all')
    BY <1>1, Zenon DEF Inv, ProcessListExact
  <2>3. CASE ZombiesKept
    BY <2>2, <2>3, Zenon DEF ZombiesKept
  <2>4. ASSUME NEW code, Exits(code)
        PROVE  /\ state'[p] = "ZOMBIE" /\ exit_code'[p] = exit_code[p]
               /\ pid'[p] = pid[p] /\ pml4'[p] = pml4[p]
    BY <1>1, <2>1, <2>4, ExitProps, Zenon DEF Exits, spaceVars
  <2>5. CASE WaitpidReap
    <3> DEFINE i == scheduler_reap(current, wpid[current])
               z == all[i]
    <3>1. /\ ctx[current] = "waitpid"
          /\ state' = [state EXCEPT ![z] = "FREE"]
          /\ pid' = [pid EXCEPT ![z] = 0]
          /\ exit_code' = [exit_code EXCEPT ![z] = 0]
          /\ pml4' = [pml4 EXCEPT ![z] = NULL]
      BY <2>5, Zenon DEF WaitpidReap, Running
    <3>2. z \in Threads /\ parent[z] = current
      BY <1>1, <2>5, ReapProps, Zenon DEF WaitpidReap, Threads
    <3> HIDE DEF i, z
    <3>3. CASE p = z
      BY <1>1, <3>1, <3>2, <3>3, Zenon DEF Inv, TypeOK
    <3>4. CASE p # z
      BY <1>1, <2>1, <2>2, <3>1, <3>4, Zenon DEF Inv, TypeOK
    <3> QED
      BY <3>3, <3>4, Zenon
  <2> QED
    BY <1>1, <2>2, <2>3, <2>4, <2>5, ZombieCases, Zenon
<1> QED
  BY <1>1, Invariance, PTL DEF Spec, ZombieIsFinal

(* A process killed by a signal is killed by a pending fatal one, and no   *)
(* handled signal of a lower number was pending.                           *)
THEOREM KillOrder == Spec => KilledInOrder
<1>1. ASSUME Inv, [Next]_vars PROVE KillStep
  <2> SUFFICES ASSUME NEW p \in Procs, state[p] # "ZOMBIE", state'[p] = "ZOMBIE"
               PROVE  \/ exit_code'[p] = 0
                      \/ \E s \in Fatal \cap sig_pending[p] :
                           /\ exit_code'[p] = 128 + s
                           /\ \A t \in sig_pending[p] :
                                 t \in sig_handler[p] => t > s
    BY Zenon DEF KillStep
  <2>1. p \in Threads
    BY Zenon DEF Threads
  <2>2. CASE ZombiesKept
    BY <2>2, Zenon DEF ZombiesKept
  <2>3. CASE Exits(0)
    BY <1>1, <2>1, <2>3, ExitProps, Zenon
  <2>4. CASE WaitpidReap
    <3>1. \E z \in Threads : state' = [state EXCEPT ![z] = "FREE"]
      BY <1>1, <2>4, ReapProps, Zenon DEF WaitpidReap, Threads
    <3> QED
      BY <1>1, <2>1, <3>1, Zenon DEF Inv, TypeOK
  <2>5. CASE DieBySignal /\ Exits(128 + Stopper(current))
    <3>1. p = current /\ exit_code'[p] = 128 + Stopper(p)
      BY <1>1, <2>1, <2>5, ExitProps, Zenon
    <3>2. Stoppers(p) # {} /\ Stopper(p) \notin sig_handler[p]
      BY <2>5, <3>1, Zenon DEF DieBySignal, Dies
    <3>3. TypeOK
      BY <1>1, Zenon DEF Inv
    <3>4. /\ Stopper(p) \in Stoppers(p) /\ Stopper(p) \in Nat
          /\ \A t \in Stoppers(p) : Stopper(p) <= t
      BY <2>1, <3>2, <3>3, StopperProps, Zenon
    <3>5. Stopper(p) \in Fatal \cap sig_pending[p]
      BY <3>2, <3>4, Zenon DEF Stoppers
    <3>6. ASSUME NEW t \in sig_pending[p], t \in sig_handler[p]
          PROVE  t > Stopper(p)
      <4>1. t \in Stoppers(p) /\ t # Stopper(p)
        BY <3>2, <3>6, Zenon DEF Stoppers
      <4>2. t \in Nat
        BY <2>1, <3>3, NumbersAssumption DEF TypeOK
      <4>3. Stopper(p) <= t
        BY <3>4, <4>1, Zenon
      <4> QED
        BY <3>4, <4>1, <4>2, <4>3
    <3> QED
      BY <3>1, <3>5, <3>6, Zenon
  <2> QED
    BY <1>1, <2>2, <2>3, <2>4, <2>5, ZombieCases, Zenon
<1> QED
  BY <1>1, Invariance, PTL DEF Spec, KilledInOrder
=============================================================================
