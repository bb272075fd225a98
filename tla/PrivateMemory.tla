---------------------------- MODULE PrivateMemory ----------------------------
(***************************************************************************)
(* What the address spaces promise: every process has a memory of its own, *)
(* which only its own stores, its break, its stack and its exec change.    *)
(* A fork gives the child a copy.                                          *)
(***************************************************************************)
CONSTANTS Procs, Pages, Values, Zero, Absent

VARIABLE mem    \* per process and page, the contents or Absent

vars == <<mem>>

NoMemory == [va \in Pages |-> Absent]

Init == mem = [p \in Procs |-> NoMemory]

(* A program writes to a page it has. *)
Write(p, va, v) ==
  /\ mem[p][va] # Absent
  /\ mem' = [mem EXCEPT ![p][va] = v]

(* A page is added to the heap or the stack. *)
Grow(p, va) == mem' = [mem EXCEPT ![p][va] = Zero]

Fork(p, c) ==
  /\ mem[p] # NoMemory /\ mem[c] = NoMemory
  /\ mem' = [mem EXCEPT ![c] = mem[p]]

(* A new image: nothing of the old memory remains. *)
Exec(p) ==
  \E image \in SUBSET Pages :
    mem' = [mem EXCEPT ![p] = [va \in Pages |-> IF va \in image THEN Zero ELSE Absent]]

Release(p) == mem' = [mem EXCEPT ![p] = NoMemory]

Next ==
  \E p \in Procs :
    \/ \E va \in Pages : Grow(p, va) \/ \E v \in Values : Write(p, va, v)
    \/ \E c \in Procs : Fork(p, c)
    \/ Exec(p) \/ Release(p)

Spec == Init /\ [][Next]_vars
=============================================================================
