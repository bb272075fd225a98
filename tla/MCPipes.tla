------------------------------- MODULE MCPipes -------------------------------
(* Instances of Pipes for TLC. *)
EXTENDS Pipes, TLC

(* Process slots other than the shell's are interchangeable, and so are    *)
(* byte values.                                                            *)
Symmetry == Permutations(Procs \ {Shell}) \cup Permutations(Byte)

(* Bound for the run on data transfer: at most two descriptors per end.    *)
FewEnds == \A x \in Pipe : readers[x] <= 2 /\ writers[x] <= 2
=============================================================================
