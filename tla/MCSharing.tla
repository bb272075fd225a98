------------------------------ MODULE MCSharing ------------------------------
(***************************************************************************)
(* An instance of Memory in which two processes store different values.    *)
(* The page of the heap comes from brk; the stack has the page that exec   *)
(* maps and one below it, which needs a table of its own.                  *)
(***************************************************************************)
EXTENDS Memory, TLC

Walk == [va \in 0..2 |-> IF va = 1 THEN {1} ELSE {}]

(* The instance is as the proofs suppose.                                  *)
ASSUME ConstantsHold == Constants

(* Processes other than the first are interchangeable.                     *)
Symmetry == Permutations(Procs \ {First})

(* A bound: an instance of MCMemory looks at what follows a failure.       *)
UntilExhausted == ~exhausted
=============================================================================
