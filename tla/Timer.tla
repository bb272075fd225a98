------------------------------- MODULE Timer -------------------------------
(* The timer interrupt from the PIT through the PIC and isr_handler to       *)
(* _pit_isr and scheduler_tick, the tick counter, and sys_sleep, which polls *)
(* the counter between yields.                                               *)
(*                                                                           *)
(* A process is in ring 3, where interrupts are on; in the loop of           *)
(* sys_sleep, where they are off; or switched away from within the handler.  *)
(* The boot context idles; it is resumed from a yield with interrupts off    *)
(* and enables them first.                                                   *)
EXTENDS Integers, Sequences, FiniteSets, Functions

CONSTANTS Procs,    \* processes besides the boot context
          Width,    \* values of g_ticks (2^32)
          Quantum,  \* PROC_QUANTUM
          MaxMs     \* longest sleep

(* What the constants are. *)
Constants == Width \in Nat \ {0} /\ Quantum \in Nat \ {0} /\ MaxMs \in Nat

VARIABLES g_ticks,
          requested, inService,  \* the PIC: IRQ 0 wanted, IRQ 0 not acknowledged
          ready, current,        \* ready queue and running process
          quantum,               \* quantum_remaining of the running one
          at,                    \* where each process is
          wake,                  \* its wake-up time
          ms, passed,            \* history: what it asked for, ticks since then, up to that
          wrapped,               \* history: the sum exceeded the counter
          woken                  \* history: the last sleep that ended

vars == <<g_ticks, requested, inService, ready, current, quantum, at, wake, ms,
          passed, wrapped, woken>>

Idle == "idle"
All == Procs \cup {Idle}
Due == requested /\ ~inService

Init ==
    /\ g_ticks \in 0..(Width - 1)
    /\ requested = FALSE /\ inService = FALSE
    /\ quantum = Quantum
    /\ \E q \in Injection(1..Cardinality(Procs), Procs) :
          current = Head(q) /\ ready = Append(Tail(q), Idle)
    /\ at = [p \in All |-> IF p = Idle THEN "yielded" ELSE "on"]
    /\ wake = [p \in Procs |-> 0] /\ ms = [p \in Procs |-> 0] /\ passed = [p \in Procs |-> 0]
    /\ wrapped = [p \in Procs |-> FALSE]
    /\ woken = [ms |-> 0, passed |-> 0, wrapped |-> FALSE]

(* The next process of the queue, with the running one behind it.            *)
Yield ==
    /\ current' = Head(ready)
    /\ ready' = Append(Tail(ready), current)
    /\ quantum' = Quantum

(* The PIT; a request while one is waiting is lost.                          *)
Pulse ==
    /\ requested' = TRUE
    /\ UNCHANGED <<g_ticks, inService, ready, current, quantum, at, wake, ms, passed, wrapped, woken>>

(* Fault: the interrupt is acknowledged after its handler.                   *)
EoiFirst_Late == FALSE

(* isr_handler acknowledges the interrupt before it calls the handler.       *)
EoiFirst == TRUE

(* isr_handler, _pit_isr and scheduler_tick; at the end of a quantum the     *)
(* process stays in the handler until it runs again.                         *)
Interrupt ==
    /\ at[current] = "on" /\ Due
    /\ requested' = FALSE
    /\ g_ticks' = (g_ticks + 1) % Width
    /\ passed' = [p \in Procs |-> IF passed[p] < ms[p] THEN passed[p] + 1 ELSE passed[p]]
    /\ IF quantum > 1 THEN quantum' = quantum - 1 /\ UNCHANGED <<ready, current, at, inService>>
       ELSE /\ Yield
            /\ at' = [at EXCEPT ![current] = "handler"]
            /\ inService' = ~EoiFirst
    /\ UNCHANGED <<wake, ms, wrapped, woken>>

(* A process that was switched away in the handler returns from it; the boot *)
(* context, back from its yield, enables interrupts.                         *)
Return ==
    /\ at[current] \in {"handler", "yielded"}
    /\ at' = [at EXCEPT ![current] = "on"]
    /\ inService' = IF at[current] = "handler" THEN FALSE ELSE inService
    /\ UNCHANGED <<g_ticks, requested, ready, current, quantum, wake, ms, passed, wrapped, woken>>

(* sys_sleep: a 32-bit sum. An interrupt that is due comes before the next   *)
(* instruction of a program.                                                 *)
Sleep(p, n) ==
    /\ current = p /\ at[p] = "on" /\ ~Due
    /\ at' = [at EXCEPT ![p] = "sleep"]
    /\ wake' = [wake EXCEPT ![p] = (g_ticks + n) % Width]
    /\ ms' = [ms EXCEPT ![p] = n] /\ passed' = [passed EXCEPT ![p] = 0]
    /\ wrapped' = [wrapped EXCEPT ![p] = g_ticks + n >= Width]
    /\ UNCHANGED <<g_ticks, requested, inService, ready, current, quantum, woken>>

(* Fault: the sleeper is woken in the tick before its time.                  *)
Asleep_Early(p) == g_ticks + 1 < wake[p]

Asleep(p) == g_ticks < wake[p]

(* The loop of sys_sleep.                                                    *)
Check(p) ==
    /\ current = p /\ at[p] = "sleep"
    /\ IF Asleep(p) THEN Yield /\ UNCHANGED <<at, wake, ms, passed, wrapped, woken>>
       ELSE /\ at' = [at EXCEPT ![p] = "on"]
            /\ woken' = [ms |-> ms[p], passed |-> passed[p], wrapped |-> wrapped[p]]
            /\ wake' = [wake EXCEPT ![p] = 0] /\ ms' = [ms EXCEPT ![p] = 0]
            /\ passed' = [passed EXCEPT ![p] = 0] /\ wrapped' = [wrapped EXCEPT ![p] = FALSE]
            /\ UNCHANGED <<ready, current, quantum>>
    /\ UNCHANGED <<g_ticks, requested, inService>>

Next ==
    \/ Pulse
    \/ Interrupt
    \/ Return
    \/ \E p \in Procs : Check(p) \/ \E n \in 0..MaxMs : Sleep(p, n)

Spec == Init /\ [][Next]_vars

(* The PIT runs freely, the CPU takes interrupts and executes instructions.  *)
(* Programs in ring 3 owe nothing.                                           *)
FairSpec == /\ Spec /\ WF_vars(Pulse) /\ WF_vars(Interrupt) /\ WF_vars(Return)
            /\ \A p \in Procs : WF_vars(Check(p))

-----------------------------------------------------------------------------
(* sys_sleep returns no sooner than after the milliseconds it was given      *)
(* ("block for at least ms milliseconds"), except where its 32-bit sum       *)
(* exceeded the tick counter.                                                *)
EarlyOnlyIfWrapped == woken.passed >= woken.ms \/ woken.wrapped

(* However interrupts, switches inside the handler and sleeping processes    *)
(* mix, every process gets the CPU again and again: a tick that switches     *)
(* away leaves the timer able to interrupt the next process.                 *)
EveryoneRuns == \A p \in All : []<>(current = p)

(* A sleep ends where its wake-up time leaves the counter room for a round   *)
(* of the ready queue before it wraps.                                       *)
SleepEnds ==
    \A p \in Procs :
        (at[p] = "sleep" /\ wake[p] < Width - Quantum * Cardinality(All))
            ~> at[p] = "on"
=============================================================================
