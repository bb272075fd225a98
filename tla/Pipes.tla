-------------------------------- MODULE Pipes --------------------------------
(***************************************************************************)
(* Anonymous pipes and the file-descriptor tables that refer to them:      *)
(* proc/pipe.c, proc/fd.c and the descriptor part of sys_fork and sys_exit.*)
(*                                                                         *)
(* A read or write of a pipe runs without interruption until it returns or *)
(* yields (SYSCALL clears IF), so one action moves a whole burst of bytes. *)
(* The scheduler is left open: any process may take the next step, which   *)
(* covers every order the ready queue can produce.                         *)
(***************************************************************************)
EXTENDS Integers, Sequences, FiniteSets

CONSTANTS
  Procs,       \* process_t's
  Shell,       \* the process that exists at the start
  MaxFds,      \* PROC_MAX_FDS
  NPIPES,
  PIPE_CAP,
  Byte,        \* values a byte of pipe data takes
  Lens,        \* lengths of reads and writes
  OpenKinds    \* kinds of descriptor that sys_open produces

ASSUME ProcsAssumption == Shell \in Procs /\ IsFiniteSet(Procs)
ASSUME SizesAssumption ==
  /\ MaxFds \in Nat /\ MaxFds > 1
  /\ NPIPES \in Nat /\ NPIPES > 0
  /\ PIPE_CAP \in Nat /\ PIPE_CAP > 0
ASSUME DataAssumption == Byte # {} /\ Lens \subseteq Nat
ASSUME OpenAssumption == OpenKinds \subseteq {"OTHER", "DEV_TTY"}

FDs   == 0..(MaxFds - 1)
Pipe  == 1..NPIPES              \* &g_pipes[0] .. &g_pipes[NPIPES - 1]
Slots == 0..(PIPE_CAP - 1)

(* Descriptor kinds.  Console, file, null, zero and random descriptors are *)
(* all "OTHER": none of them refers to a pipe.                             *)
Closed == <<"CLOSED", 0>>
Other  == <<"OTHER", 0>>
Tty    == <<"DEV_TTY", 0>>
ReadEnd(x)  == <<"PIPE_R", x>>
WriteEnd(x) == <<"PIPE_W", x>>
Entries == {Closed, Other, Tty}
           \cup {ReadEnd(x) : x \in Pipe} \cup {WriteEnd(x) : x \in Pipe}

VARIABLES
  alive,    \* the processes that exist and have not exited
  fds,      \* process_t.fds: <<kind, pipe or 0>>
  buf, head, tail, count, readers, writers, used,   \* pipe_t, per pipe
  op,       \* the pipe operation a process is inside: "none", "read", "write"
  on,       \* the pipe of that operation
  want,     \* bytes a read has still to deliver, len - got
  data,     \* bytes a write has still to store, buf[put .. len - 1]
  xfer      \* history: what the last step moved, see NoXfer

ringVars == <<buf, head, tail, count>>
refVars  == <<readers, writers, used>>
opVars   == <<op, on, want, data>>
vars == <<alive, fds, ringVars, refVars, opVars, xfer>>

(* op, pipe: the operation; bytes: what a read delivered; short: the call  *)
(* returned less than it was asked for.                                    *)
NoXfer == [op |-> "none", pipe |-> 1, bytes |-> <<>>, short |-> FALSE]

Least(S) == CHOOSE n \in S : \A m \in S : n <= m
Min2(a, b) == IF a <= b THEN a ELSE b

(* proc_alloc gives a new process the three console descriptors. *)
ConsoleFds == [f \in FDs |-> IF f < 3 THEN Other ELSE Closed]

Init ==
  /\ alive = {Shell}
  /\ fds = [p \in Procs |-> ConsoleFds]
  /\ \E b \in Byte : buf = [x \in Pipe |-> [i \in Slots |-> b]]
  /\ head = [x \in Pipe |-> 0]
  /\ tail = [x \in Pipe |-> 0]
  /\ count = [x \in Pipe |-> 0]
  /\ readers = [x \in Pipe |-> 0]
  /\ writers = [x \in Pipe |-> 0]
  /\ used = [x \in Pipe |-> FALSE]
  /\ op = [p \in Procs |-> "none"]
  /\ on = [p \in Procs |-> 1]
  /\ want = [p \in Procs |-> 0]
  /\ data = [p \in Procs |-> <<>>]
  /\ xfer = NoXfer

-----------------------------------------------------------------------------
(* proc/fd.c *)

InUser(p) == p \in alive /\ op[p] = "none"
ClosedFds(p) == {f \in FDs : fds[p][f] = Closed}
IsPipe(e) == e[1] \in {"PIPE_R", "PIPE_W"}

(* pipe_addref and pipe_close for one descriptor: the reader and writer    *)
(* counts of every pipe after an entry e gained or lost a reference.       *)
(* Here and below, a definition Name_Fault is Name with a plausible        *)
(* mistake in it; the specification does not use it (see the README).      *)
AddReader_Missing(rd, e) == rd
AddReader(rd, e) == IF e[1] = "PIPE_R" THEN [rd EXCEPT ![e[2]] = @ + 1] ELSE rd
AddWriter(wr, e) == IF e[1] = "PIPE_W" THEN [wr EXCEPT ![e[2]] = @ + 1] ELSE wr
DropReader(rd, e) ==
  IF e[1] = "PIPE_R" /\ rd[e[2]] > 0 THEN [rd EXCEPT ![e[2]] = @ - 1] ELSE rd
DropWriter(wr, e) ==
  IF e[1] = "PIPE_W" /\ wr[e[2]] > 0 THEN [wr EXCEPT ![e[2]] = @ - 1] ELSE wr
(* pipe_close's last line. *)
StillUsed_EitherEnd(e, rd, wr) ==
  [x \in Pipe |-> used[x] /\ ~(IsPipe(e) /\ x = e[2] /\ (rd[x] = 0 \/ wr[x] = 0))]
StillUsed(e, rd, wr) ==
  [x \in Pipe |-> used[x] /\ ~(IsPipe(e) /\ x = e[2] /\ rd[x] = 0 /\ wr[x] = 0)]

(* sys_open binds the lowest closed descriptor from 3 on. *)
sys_open(p, k) ==
  /\ InUser(p)
  /\ \E f \in ClosedFds(p) : f >= 3
  /\ fds' = [fds EXCEPT ![p][Least({f \in ClosedFds(p) : f >= 3})] = <<k, 0>>]
  /\ xfer' = NoXfer
  /\ UNCHANGED <<alive, ringVars, refVars, opVars>>

sys_close(p, f) ==
  /\ InUser(p)
  /\ fds[p][f] # Closed
  /\ readers' = DropReader(readers, fds[p][f])
  /\ writers' = DropWriter(writers, fds[p][f])
  /\ used' = StillUsed(fds[p][f], readers', writers')
  /\ fds' = [fds EXCEPT ![p][f] = Closed]
  /\ xfer' = NoXfer
  /\ UNCHANGED <<alive, ringVars, opVars>>

sys_dup(p, f) ==
  /\ InUser(p)
  /\ fds[p][f] # Closed /\ ClosedFds(p) # {}
  /\ fds' = [fds EXCEPT ![p][Least(ClosedFds(p))] = fds[p][f]]
  /\ readers' = AddReader(readers, fds[p][f])
  /\ writers' = AddWriter(writers, fds[p][f])
  /\ xfer' = NoXfer
  /\ UNCHANGED <<alive, used, ringVars, opVars>>

(* sys_dup2 closes what newfd held, then refers it to the entry of oldfd.  *)
sys_dup2(p, oldfd, newfd) ==
  /\ InUser(p)
  /\ fds[p][oldfd] # Closed /\ oldfd # newfd
  /\ LET e  == fds[p][oldfd]
         n  == fds[p][newfd]
         rd == DropReader(readers, n)
         wr == DropWriter(writers, n)
     IN /\ used' = StillUsed(n, rd, wr)
        /\ fds' = [fds EXCEPT ![p][newfd] = e]
        /\ readers' = AddReader(rd, e)
        /\ writers' = AddWriter(wr, e)
  /\ xfer' = NoXfer
  /\ UNCHANGED <<alive, ringVars, opVars>>

-----------------------------------------------------------------------------
(* Descriptor tables in proc/syscalls.c *)

EndsOf(p, e) == {f \in FDs : fds[p][f] = e}

(* sys_fork: the child's table is a copy, every pipe end in it counts.     *)
sys_fork(p, c) ==
  /\ InUser(p)
  /\ c \notin alive
  /\ alive' = alive \cup {c}
  /\ fds' = [fds EXCEPT ![c] = fds[p]]
  /\ readers' = [x \in Pipe |-> readers[x] + Cardinality(EndsOf(p, ReadEnd(x)))]
  /\ writers' = [x \in Pipe |-> writers[x] + Cardinality(EndsOf(p, WriteEnd(x)))]
  /\ xfer' = NoXfer
  /\ UNCHANGED <<used, ringVars, opVars>>

(* k calls of pipe_close on a count of n. *)
DropMany(n, k) == IF n > k THEN n - k ELSE 0

sys_exit_LeavesOpen(p) ==
  /\ InUser(p)
  /\ alive' = alive \ {p}
  /\ fds' = [fds EXCEPT ![p] = ConsoleFds]
  /\ xfer' = NoXfer
  /\ UNCHANGED <<refVars, ringVars, opVars>>

(* sys_exit: pipe_close for every pipe end.  The code leaves the table of  *)
(* the zombie as it is; it is never read again, so the model resets it.    *)
sys_exit(p) ==
  /\ InUser(p)
  /\ alive' = alive \ {p}
  /\ fds' = [fds EXCEPT ![p] = ConsoleFds]
  /\ readers' = [x \in Pipe |->
                   DropMany(readers[x], Cardinality(EndsOf(p, ReadEnd(x))))]
  /\ writers' = [x \in Pipe |->
                   DropMany(writers[x], Cardinality(EndsOf(p, WriteEnd(x))))]
  /\ used' = [x \in Pipe |->
                /\ used[x]
                /\ ~ /\ EndsOf(p, ReadEnd(x)) \cup EndsOf(p, WriteEnd(x)) # {}
                     /\ readers'[x] = 0 /\ writers'[x] = 0]
  /\ xfer' = NoXfer
  /\ UNCHANGED <<ringVars, opVars>>

-----------------------------------------------------------------------------
(* proc/pipe.c *)

Free == {x \in Pipe : ~used[x]}

(* pp->head = pp->tail = pp->count = 0 *)
ResetRing_Missing(x) == UNCHANGED <<head, tail, count>>
ResetRing(x) ==
  /\ head' = [head EXCEPT ![x] = 0]
  /\ tail' = [tail EXCEPT ![x] = 0]
  /\ count' = [count EXCEPT ![x] = 0]

sys_pipe(p) ==
  /\ InUser(p)
  /\ Free # {} /\ Cardinality(ClosedFds(p)) >= 2
  /\ LET x   == Least(Free)
         rfd == Least(ClosedFds(p))
         wfd == Least(ClosedFds(p) \ {rfd})
     IN /\ ResetRing(x)
        /\ readers' = [readers EXCEPT ![x] = 1]
        /\ writers' = [writers EXCEPT ![x] = 1]
        /\ used' = [used EXCEPT ![x] = TRUE]
        /\ fds' = [fds EXCEPT ![p][rfd] = ReadEnd(x), ![p][wfd] = WriteEnd(x)]
  /\ xfer' = NoXfer
  /\ UNCHANGED <<alive, buf, opVars>>

(* The first n bytes of a pipe. *)
Front(x, n) == [i \in 1..n |-> buf[x][(head[x] + i - 1) % PIPE_CAP]]

(* End of file, tested when the ring is empty. *)
Eof_NoWait(x) == TRUE
Eof(x) == writers[x] = 0

(* One stretch of pipe_read that has n bytes still to deliver: it takes    *)
(* what there is, and returns when it has all or no writer is left.        *)
pipe_read(p, x, n) ==
  LET m   == Min2(n, count[x])
      fin == m = n \/ Eof(x)
  IN /\ head' = [head EXCEPT ![x] = (@ + m) % PIPE_CAP]
     /\ count' = [count EXCEPT ![x] = @ - m]
     /\ op' = [op EXCEPT ![p] = IF fin THEN "none" ELSE "read"]
     /\ on' = [on EXCEPT ![p] = IF fin THEN 1 ELSE x]
     /\ want' = [want EXCEPT ![p] = IF fin THEN 0 ELSE n - m]
     /\ xfer' = [op |-> "read", pipe |-> x, bytes |-> Front(x, m),
                 short |-> fin /\ m < n]
     /\ UNCHANGED <<alive, fds, buf, tail, refVars, data>>

(* buf with the sequence d stored from tail on. *)
Stored(x, d) ==
  [i \in Slots |-> LET k == (i - tail[x] + PIPE_CAP) % PIPE_CAP
                   IN IF k < Len(d) THEN d[k + 1] ELSE buf[x][i]]

(* The tests at the top of pipe_write's loop: broken first, full second.   *)
Room(x) == PIPE_CAP - count[x]
Broken(x) == readers[x] = 0

(* One stretch of pipe_write that has the bytes d still to store.          *)
pipe_write(p, x, d) ==
  LET m   == IF Broken(x) THEN 0 ELSE Min2(Len(d), Room(x))
      fin == m = Len(d) \/ Broken(x)
  IN /\ buf' = [buf EXCEPT ![x] = Stored(x, SubSeq(d, 1, m))]
     /\ tail' = [tail EXCEPT ![x] = (@ + m) % PIPE_CAP]
     /\ count' = [count EXCEPT ![x] = @ + m]
     /\ op' = [op EXCEPT ![p] = IF fin THEN "none" ELSE "write"]
     /\ on' = [on EXCEPT ![p] = IF fin THEN 1 ELSE x]
     /\ data' = [data EXCEPT ![p] = IF fin THEN <<>> ELSE SubSeq(d, m + 1, Len(d))]
     /\ xfer' = [op |-> "write", pipe |-> x, bytes |-> <<>>,
                 short |-> fin /\ m < Len(d)]
     /\ UNCHANGED <<alive, fds, head, refVars, want>>

(* sys_read and sys_write look through /dev/tty to descriptor 0 or 1; the  *)
(* kinds that are not pipes do not change this module's state.             *)
Reroute(p, f, std) == IF fds[p][f][1] = "DEV_TTY" THEN fds[p][std] ELSE fds[p][f]

sys_read(p, f, n) ==
  /\ InUser(p)
  /\ Reroute(p, f, 0)[1] = "PIPE_R"
  /\ pipe_read(p, Reroute(p, f, 0)[2], n)

sys_write(p, f, d) ==
  /\ InUser(p)
  /\ Reroute(p, f, 1)[1] = "PIPE_W"
  /\ pipe_write(p, Reroute(p, f, 1)[2], d)

(* The loops continue after their scheduler_yield returns. *)
ReadResume(p)  == op[p] = "read" /\ pipe_read(p, on[p], want[p])
WriteResume(p) == op[p] = "write" /\ pipe_write(p, on[p], data[p])

-----------------------------------------------------------------------------
Payloads == UNION {[1..n -> Byte] : n \in Lens}

Next ==
  \/ \E p \in Procs, k \in OpenKinds : sys_open(p, k)
  \/ \E p \in Procs, f \in FDs : sys_close(p, f)
  \/ \E p \in Procs, f \in FDs : sys_dup(p, f)
  \/ \E p \in Procs, f, g \in FDs : sys_dup2(p, f, g)
  \/ \E p, c \in Procs : sys_fork(p, c)
  \/ \E p \in Procs : sys_exit(p)
  \/ \E p \in Procs : sys_pipe(p)
  \/ \E p \in Procs, f \in FDs, n \in Lens : sys_read(p, f, n)
  \/ \E p \in Procs, f \in FDs, d \in Payloads : sys_write(p, f, d)
  \/ \E p \in Procs : ReadResume(p)
  \/ \E p \in Procs : WriteResume(p)

Spec == Init /\ [][Next]_vars

(* Every blocked process gets the CPU again and again (EveryReadyRuns of   *)
(* module Processes) and then re-checks its loop; programs promise nothing.*)
FairSpec == Spec /\ \A p \in Procs : WF_vars(ReadResume(p) \/ WriteResume(p))

-----------------------------------------------------------------------------
(* Properties *)

TypeOK ==
  /\ alive \in SUBSET Procs
  /\ fds \in [Procs -> [FDs -> Entries]]
  /\ buf \in [Pipe -> [Slots -> Byte]]
  /\ head \in [Pipe -> Slots] /\ tail \in [Pipe -> Slots]
  /\ count \in [Pipe -> 0..PIPE_CAP]
  /\ readers \in [Pipe -> Nat] /\ writers \in [Pipe -> Nat]
  /\ used \in [Pipe -> BOOLEAN]
  /\ op \in [Procs -> {"none", "read", "write"}]
  /\ on \in [Procs -> Pipe]
  /\ want \in [Procs -> Nat]
  /\ data \in [Procs -> Seq(Byte)]
  /\ xfer \in [op : {"none", "read", "write"}, pipe : Pipe, bytes : Seq(Byte),
               short : BOOLEAN]

(* The descriptors of live processes that refer to an end of a pipe.       *)
Ends(e) == {r \in Procs \X FDs : r[1] \in alive /\ fds[r[1]][r[2]] = e}

(* The open counts of a pipe are exactly the descriptors of live processes *)
(* for its two ends, through any mix of dup, dup2, close, fork and exit,   *)
(* and the pool slot is in use exactly while there is one: sys_pipe never  *)
(* recycles a pipe that somebody can still reach, and none is leaked.      *)
RefcountsExact ==
  \A x \in Pipe :
    /\ readers[x] = Cardinality(Ends(ReadEnd(x)))
    /\ writers[x] = Cardinality(Ends(WriteEnd(x)))
    /\ used[x] <=> (readers[x] > 0 \/ writers[x] > 0)

(* A read returns less than it was asked for only at end of file (pipe     *)
(* drained and no live process holds a write end), a write only when the   *)
(* pipe is broken (no live process holds a read end): whoever blocked in   *)
(* pipe_read or pipe_write is not turned away by another process's close.  *)
ShortTransferJustified ==
  xfer.short =>
    \/ xfer.op = "read" /\ count[xfer.pipe] = 0 /\ Ends(WriteEnd(xfer.pipe)) = {}
    \/ xfer.op = "write" /\ Ends(ReadEnd(xfer.pipe)) = {}

(* While a process is blocked inside pipe_read or pipe_write, the pipe its *)
(* local pointer pp refers to stays allocated to the descriptor it came    *)
(* from, although other processes close their ends and create pipes.       *)
BlockedPipeStays ==
  \A p \in Procs :
    /\ op[p] # "none" => p \in alive /\ used[on[p]]
    /\ op[p] = "read" => EndsOf(p, ReadEnd(on[p])) # {}
    /\ op[p] = "write" => EndsOf(p, WriteEnd(on[p])) # {}

(* The ring indices agree with the count in every pipe. *)
RingConsistent ==
  \A x \in Pipe : tail[x] = (head[x] + count[x]) % PIPE_CAP

Contents == [x \in Pipe |-> Front(x, count[x])]

Chan == INSTANCE Channel WITH
          Chans <- Pipe, Capacity <- PIPE_CAP,
          open <- used, queue <- Contents, todo <- data,
          out <- xfer.bytes

(* The ring buffer implements a bounded FIFO channel: interleaved partial  *)
(* reads and writes of several processes, wrap-around included, deliver    *)
(* each writer's bytes in order, exactly once.                             *)
ChannelSpec == Chan!Spec

(* End of file and broken pipe reach a blocked process: once no live       *)
(* process holds the other end, a blocked reader or writer returns.        *)
EofReached ==
  \A p \in Procs, x \in Pipe :
    (op[p] = "read" /\ on[p] = x /\ Ends(WriteEnd(x)) = {}) ~> op[p] = "none"
BrokenPipeReached ==
  \A p \in Procs, x \in Pipe :
    (op[p] = "write" /\ on[p] = x /\ Ends(ReadEnd(x)) = {}) ~> op[p] = "none"

(* A process blocked on a pipe notices that the other end is gone.         *)
EndsNoticed == EofReached /\ BrokenPipeReached
=============================================================================
