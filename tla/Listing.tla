------------------------------ MODULE Listing ------------------------------
(***************************************************************************)
(* How user programs enumerate the processes: ps asks for the idx-th       *)
(* process of the global list, one system call per line, while others fork *)
(* and reap; ls of /proc takes one getdents, which walks the same list     *)
(* with interrupts off.  The list is g_all_head of proc/scheduler.c: new   *)
(* processes go in front.                                                  *)
(***************************************************************************)
EXTENDS Naturals, Sequences, FiniteSets, SequencesExt

CONSTANT MaxPid          \* bound on the pids handed out

VARIABLES
  all,       \* g_all_head and the all_next links, as a sequence of pids
  nextPid,   \* the next pid
  scan       \* what ps holds, and a history of what happened meanwhile

vars == <<all, nextPid, scan>>

Pids == 1 .. MaxPid
Idle == [by |-> 0, idx |-> 0, shown |-> <<>>, done |-> FALSE,
         present |-> {}, gone |-> {}, born |-> {}]

Members == ToSet(all)

(* The shell is the one process to begin with. *)
Init == all = <<1>> /\ nextPid = 2 /\ scan = Idle

-----------------------------------------------------------------------------
(* scheduler_register, from fork: a new process goes to the front. *)
Register ==
  /\ nextPid \in Pids
  /\ all' = <<nextPid>> \o all
  /\ nextPid' = nextPid + 1
  /\ scan' = [scan EXCEPT !.born = @ \cup {nextPid}]

(* Fault: the walk stops at the head's successor when it removes it. *)
Removed_CutsTail(p) ==
  LET at == CHOOSE i \in DOMAIN all : all[i] = p IN
  IF at = 2 THEN SubSeq(all, 1, 1) ELSE RemoveAt(all, at)

(* scheduler_remove: the list without p. *)
Removed(p) == RemoveAt(all, CHOOSE i \in DOMAIN all : all[i] = p)

(* waitpid reaps a child; ps itself and the first process stay. *)
Reap(p) ==
  /\ p \in Members \ {1, scan.by}
  /\ all' = Removed(p)
  /\ scan' = [scan EXCEPT !.gone = @ \cup {p}]
  /\ UNCHANGED nextPid

(* scheduler_at: the idx-th process as a sequence of one, empty past the end. *)
At(idx) == IF idx + 1 \in DOMAIN all THEN <<all[idx + 1]>> ELSE <<>>

(* ps starts, in a process of its own. *)
Start(p) ==
  /\ scan.by = 0
  /\ p \in Members \ {1}
  /\ scan' = [Idle EXCEPT !.by = p, !.present = Members]
  /\ UNCHANGED <<all, nextPid>>

(* One round of the loop in ps: sys_procinfo, then the line it prints. *)
ProcInfo ==
  /\ scan.by # 0 /\ ~scan.done
  /\ scan' = IF At(scan.idx) = <<>>
             THEN [scan EXCEPT !.done = TRUE]
             ELSE [scan EXCEPT !.idx = @ + 1, !.shown = @ \o At(scan.idx)]
  /\ UNCHANGED <<all, nextPid>>

(* ps has exited; its zombie is reaped like any other. *)
Exit ==
  /\ scan.done
  /\ scan' = Idle
  /\ UNCHANGED <<all, nextPid>>

Next ==
  \/ Register
  \/ \E p \in Pids : Reap(p) \/ Start(p)
  \/ ProcInfo
  \/ Exit

Spec == Init /\ [][Next]_vars

-----------------------------------------------------------------------------
(* The entries of /proc that do not depend on processes. *)
Fixed == <<"dot", "dotdot", "uptime", "meminfo">>

(* procfs_getdents on /proc: from entry off on, as many as there is room for. *)
(* Fixed entries come first, then the processes in the order of the list.    *)
ProcfsGetdents(off, room) ==
  LET skip  == IF off < Len(Fixed) THEN off ELSE Len(Fixed)
      first == SubSeq(Fixed, skip + 1,
                      IF skip + room < Len(Fixed) THEN skip + room ELSE Len(Fixed))
      from  == off - skip
      last  == from + room - Len(first)
  IN IF skip + Len(first) < Len(Fixed) THEN first
     ELSE first \o SubSeq(all, from + 1, IF last < Len(all) THEN last ELSE Len(all))

RECURSIVE Chunks(_, _)
(* What repeated calls with the returned offset deliver in total. *)
Chunks(off, room) ==
  LET got == ProcfsGetdents(off, room) IN
  IF got = <<>> THEN <<>> ELSE got \o Chunks(off + Len(got), room)

-----------------------------------------------------------------------------
(* What ps left out of the processes that lived from its start to its end. *)
Missed == (scan.present \ scan.gone) \ ToSet(scan.shown)

(* ps leaves out at most one living process for every reaped one that was    *)
(* created after it: a reaped process moves one other below the index, and   *)
(* nothing else does; the loop of bin/ps/ps.c over scheduler_at.             *)
MissedOnlyIfShifted ==
  scan.done =>
    Cardinality(Missed) <=
      Cardinality({q \in scan.gone : \E p \in Missed : q > p})

(* ps prints a process twice only if one was created while it ran: each one  *)
(* pushes the list past the index by one.                                    *)
RepeatsOnlyIfForked ==
  Len(scan.shown) - Cardinality(ToSet(scan.shown)) <= Cardinality(scan.born)

(* A directory of /proc read in pieces of any size is the whole directory,   *)
(* each entry once: the two-part offset arithmetic of procfs_getdents.       *)
ChunksComplete ==
  \A room \in 1 .. Len(Fixed) + 2 : Chunks(0, room) = Fixed \o all

(* What ps and a listing of /proc show of the processes that exist.          *)
PsExact == MissedOnlyIfShifted /\ RepeatsOnlyIfForked /\ ChunksComplete
=============================================================================
