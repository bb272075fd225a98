----------------------------- MODULE MCProcesses -----------------------------
(* Instances of Processes for TLC. *)
EXTENDS Processes, TLC

(* Free process slots and free PML4 frames are interchangeable. *)
Symmetry == Permutations(Procs \ {Nsh, Heartbeat})
            \cup Permutations(Spaces \ {NshSpace})
=============================================================================
