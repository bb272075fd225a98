------------------------------ MODULE Pipeline -----------------------------
(* A pipeline as nsh runs it: run_pipeline with its children, one action per *)
(* system call, over descriptor tables and pipes. Pipes are counted, not     *)
(* stored: what they deliver and when they report an end or a broken pipe is *)
(* shown in module Pipes.                                                    *)
(*                                                                           *)
(* The first stage writes Output units, the others copy; any stage may end   *)
(* before it has read everything.                                            *)
EXTENDS Integers, FiniteSets, FiniteSetsExt

CONSTANTS N,        \* stages on the command line
          MaxFds,   \* PROC_MAX_FDS
          Capacity, \* of a pipe
          Output    \* units the first stage writes

Stages == 0..(N - 1)
PipeIds == 0..(N - 2)
Shell == N               \* the shell, numbered behind its children
Everyone == {Shell} \cup Stages
Fds == 0..(MaxFds - 1)
NotOpen == MaxFds        \* some number that is no open descriptor

VARIABLES table,    \* the descriptors of every process
          fds,      \* the array of run_pipeline
          at,       \* what a process does next: a step and its loop index
          buf,      \* units in each pipe
          held,     \* units a stage has read, or has to write, and not written
          arrived,  \* history: units the last stage has read
          cut       \* history: a stage ended early
vars == <<table, fds, at, buf, held, arrived, cut>>

Closed == <<"closed", 0>>
Console == <<"console", 0>>
Reads(i) == <<"read", i>>
Writes(i) == <<"write", i>>
Step(step, i) == [step |-> step, i |-> i]

Init ==
    /\ table = [p \in Everyone |-> [fd \in Fds |-> IF p = Shell /\ fd < 3 THEN Console ELSE Closed]]
    /\ fds = [i \in PipeIds |-> <<NotOpen, NotOpen>>]
    /\ at = [p \in Everyone |-> IF p = Shell THEN Step("pipe", 0) ELSE Step("unborn", 0)]
    /\ buf = [i \in PipeIds |-> 0]
    /\ held = [s \in Stages |-> IF s = 0 THEN Output ELSE 0]
    /\ arrived = 0 /\ cut = FALSE

Open(end) == \E p \in Everyone, fd \in Fds : table[p][fd] = end
Go(p, step, i) == at' = [at EXCEPT ![p] = Step(step, i)]
(* The next round of a loop over n, or the step behind the loop.             *)
Loop(p, n, step) == IF at[p].i + 1 < n THEN Go(p, at[p].step, at[p].i + 1) ELSE Go(p, step, 0)

(* pipe(fds[i]), whose result is not looked at: when it fails, fds[i] keeps  *)
(* whatever the stack held.                                                  *)
MakePipe ==
    LET i == at[Shell].i
        free == {fd \in Fds : table[Shell][fd] = Closed}
        r == Min(free)
        w == Min(free \ {r})
    IN /\ at[Shell].step = "pipe"
       /\ \/ /\ Cardinality(free) >= 2
             /\ table' = [table EXCEPT ![Shell][r] = Reads(i), ![Shell][w] = Writes(i)]
             /\ fds' = [fds EXCEPT ![i] = <<r, w>>]
          \/ /\ Cardinality(free) < 2
             /\ \E a, b \in 0..NotOpen : fds' = [fds EXCEPT ![i] = <<a, b>>]
             /\ UNCHANGED table
       /\ Loop(Shell, N - 1, "fork")
       /\ UNCHANGED <<buf, held, arrived, cut>>

(* pids[i] = fork() *)
Fork ==
    LET i == at[Shell].i
        next == IF i + 1 < N THEN Step("fork", i + 1) ELSE Step("close", 0)
    IN /\ at[Shell].step = "fork"
       /\ table' = [table EXCEPT ![i] = table[Shell]]
       /\ at' = [at EXCEPT ![Shell] = next, ![i] = Step("in", 0)]
       /\ UNCHANGED <<fds, buf, held, arrived, cut>>

(* sys_dup2 on a table: nothing happens when the old number is not open.     *)
Dup2(t, old, new) ==
    IF old \notin Fds \/ t[old] = Closed THEN t ELSE [t EXCEPT ![new] = t[old]]

(* The child's two dup2 calls.                                               *)
Redirect(s) ==
    \/ /\ at[s].step = "in"
       /\ table' = IF s = 0 THEN table ELSE [table EXCEPT ![s] = Dup2(@, fds[s - 1][1], 0)]
       /\ Go(s, "out", 0)
       /\ UNCHANGED <<fds, buf, held, arrived, cut>>
    \/ /\ at[s].step = "out"
       /\ table' = IF s = N - 1 THEN table ELSE [table EXCEPT ![s] = Dup2(@, fds[s][2], 1)]
       /\ Go(s, "close", 0)
       /\ UNCHANGED <<fds, buf, held, arrived, cut>>

(* The ends in the order in which the loops close them.                      *)
EndAt(k) == fds[k \div 2][(k % 2) + 1]

(* Fault: a child closes only the ends it has moved.                         *)
CloseNext_OwnOnly(p, next) ==
    LET fd == EndAt(at[p].i)
        mine == p = Shell \/ at[p].i \in {2 * (p - 1), 2 * p + 1}
    IN /\ at[p].step = "close"
       /\ table' = IF fd \in Fds /\ mine THEN [table EXCEPT ![p][fd] = Closed] ELSE table
       /\ Loop(p, 2 * (N - 1), next)
       /\ UNCHANGED <<fds, buf, held, arrived, cut>>

(* Fault: the last pipe is left out of the closing loop of the shell.        *)
CloseNext_ShellKeepsLast(p, next) ==
    LET fd == EndAt(at[p].i)
    IN /\ at[p].step = "close"
       /\ table' = IF fd \in Fds /\ ~(p = Shell /\ at[p].i \div 2 = N - 2)
                   THEN [table EXCEPT ![p][fd] = Closed] ELSE table
       /\ Loop(p, 2 * (N - 1), next)
       /\ UNCHANGED <<fds, buf, held, arrived, cut>>

(* One close() of the loop over all ends, in a child and in the shell.       *)
CloseNext(p, next) ==
    LET fd == EndAt(at[p].i)
    IN /\ at[p].step = "close"
       /\ table' = IF fd \in Fds THEN [table EXCEPT ![p][fd] = Closed] ELSE table
       /\ Loop(p, 2 * (N - 1), next)
       /\ UNCHANGED <<fds, buf, held, arrived, cut>>

Ends(s) ==
    /\ Go(s, "exited", 0)
    /\ table' = [table EXCEPT ![s] = [fd \in Fds |-> Closed]]

(* The program of a stage reads its input: a unit, the end, or, on the       *)
(* console, nothing for as long as nobody types.                             *)
Read(s) ==
    /\ at[s].step = "run" /\ s > 0 /\ held[s] = 0
    /\ \E i \in PipeIds :
          /\ table[s][0] = Reads(i)
          /\ \/ /\ buf[i] > 0
                /\ buf' = [buf EXCEPT ![i] = @ - 1]
                /\ held' = [held EXCEPT ![s] = IF s = N - 1 THEN 0 ELSE 1]
                /\ arrived' = IF s = N - 1 THEN arrived + 1 ELSE arrived
                /\ UNCHANGED <<table, at>>
             \/ /\ buf[i] = 0 /\ ~Open(Writes(i))
                /\ Ends(s)
                /\ UNCHANGED <<buf, held, arrived>>
    /\ UNCHANGED <<fds, cut>>

(* It writes: room, a broken pipe, or the console.                           *)
Write(s) ==
    /\ at[s].step = "run" /\ held[s] > 0
    /\ held' = [held EXCEPT ![s] = @ - 1]
    /\ \/ \E i \in PipeIds :
             /\ table[s][1] = Writes(i)
             /\ \/ Open(Reads(i)) /\ buf[i] < Capacity /\ buf' = [buf EXCEPT ![i] = @ + 1]
                \/ ~Open(Reads(i)) /\ UNCHANGED buf
       \/ table[s][1] = Console /\ UNCHANGED buf
    /\ UNCHANGED <<table, fds, at, arrived, cut>>

(* The first stage has written everything, or a stage ends early.            *)
Exit(s) ==
    /\ at[s].step = "run"
    /\ cut' = (cut \/ s > 0 \/ held[s] > 0)
    /\ Ends(s)
    /\ UNCHANGED <<fds, buf, held, arrived>>

(* waitpid, in the order of the stages.                                      *)
Wait ==
    /\ at[Shell].step = "wait"
    /\ at[at[Shell].i].step = "exited"
    /\ Loop(Shell, N, "prompt")
    /\ UNCHANGED <<table, fds, buf, held, arrived, cut>>

ShellStep == MakePipe \/ Fork \/ CloseNext(Shell, "wait") \/ Wait
StageStep(s) == Redirect(s) \/ CloseNext(s, "run") \/ Read(s) \/ Write(s)

Next == ShellStep \/ \E s \in Stages : StageStep(s) \/ Exit(s)

Spec == Init /\ [][Next]_vars

(* The scheduler runs every process that can run (module Timer), and a first *)
(* stage that has written everything exits; nobody has to end early.         *)
FairSpec ==
    /\ Spec /\ WF_vars(ShellStep)
    /\ \A s \in Stages : WF_vars(StageStep(s))
    /\ WF_vars(held[0] = 0 /\ Exit(0))

-----------------------------------------------------------------------------
(* When its program starts, a stage reads from the pipe of the stage before, *)
(* writes to the pipe of the stage behind, and holds no other end, so that   *)
(* ends and broken pipes are seen (the dup2 and close calls of run_pipeline). *)
Connected ==
    \A s \in Stages : at[s].step = "run" =>
        /\ table[s][0] = IF s = 0 THEN Console ELSE Reads(s - 1)
        /\ table[s][1] = IF s = N - 1 THEN Console ELSE Writes(s)
        /\ \A fd \in Fds \ {0, 1} : table[s][fd] \in {Console, Closed}

(* The wiring is right; and back at the prompt the shell has the descriptors *)
(* it started with, no end of a pipe is left open anywhere, and unless a     *)
(* stage ended early the last one has read everything the first one wrote.   *)
CleanPrompt ==
    /\ Connected
    /\ at[Shell].step = "prompt" =>
        /\ \A fd \in Fds : table[Shell][fd] = IF fd < 3 THEN Console ELSE Closed
        /\ \A i \in PipeIds : ~Open(Reads(i)) /\ ~Open(Writes(i))
        /\ cut \/ arrived = Output

(* Every pipeline comes back to the prompt: no stage waits for an end that   *)
(* somebody still holds open, and the waitpid calls return.                  *)
PipelineEnds == <>(at[Shell].step = "prompt")
=============================================================================
