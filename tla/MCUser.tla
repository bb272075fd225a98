-------------------------------- MODULE MCUser -------------------------------
(***************************************************************************)
(* What a user at the terminal meets: the keyboard and the console, sleeps, *)
(* the shell's control flow, its pipelines, and ps.  The modules share no  *)
(* state; a behaviour exercises one of them (part) while the others stay   *)
(* as they started.  The console and the shell are looked at twice, with   *)
(* constants that make different things happen.                            *)
(***************************************************************************)
EXTENDS Timer

VARIABLES part,
  (* Console; lastRead is its last *)
  g_buf, g_head, g_tail, g_shift, g_ctrl, g_caps, down, codes, canon, isig, vmin,
  cpu, pc, raw, len, min, got, c, t, pushed, polled, taken, lastRead,
  (* Shell *)
  sb, blocks, last,
  (* Pipeline; does is its at *)
  table, fds, does, buf, held, arrived, cut,
  (* Listing *)
  all, nextPid, scan

(* Lines with erasures and carriage returns, in a ring that fills up.      *)
Lines == INSTANCE Console WITH
  Readers <- {"r"}, KBD_BUF <- 4, MaxRead <- 3, MaxKeys <- 4, last <- lastRead,
  KeysUsed <- {"m", "back", "enter", "caps"}, Repeats <- FALSE, MayTune <- FALSE

(* A terminal whose mode changes, and keys with modifiers.                 *)
Modes == INSTANCE Console WITH
  Readers <- {"r"}, KBD_BUF <- 3, MaxRead <- 2, MaxKeys <- 3, last <- lastRead,
  KeysUsed <- {"c", "f1", "ctrl"}, Repeats <- FALSE, MayTune <- TRUE

(* The tick counter of the configuration has a few values, so that it      *)
(* wraps; it is as the proofs about Timer suppose.                         *)
ASSUME ClockConstants == Constants

(* Four stages.                                                            *)
Stages4 == INSTANCE Pipeline WITH N <- 4, MaxFds <- 9, Capacity <- 1, Output <- 2, at <- does

Ps == INSTANCE Listing WITH MaxPid <- 6

-----------------------------------------------------------------------------
(* Programs for the shell.                                                 *)
Syntax == INSTANCE Shell WITH
  Programs <- {}, Outcomes <- {}, Interactive <- FALSE, Inline <- FALSE, MaxBlocks <- 1, SbMax <- 40
Cmd(name) == Syntax!Cmd(name)
If(arms, else) == Syntax!If(arms, else)
While(cond, body) == Syntax!While(cond, body)
For(n, body) == Syntax!For(n, body)

Arm(cond, body) == [cond |-> cond, body |-> body]
X == Cmd("x")
Y == Cmd("y")
Z == Cmd("z")

(* One if, elif chain, while or for around the given bodies.               *)
Around(cond, bodies) ==
  {If(<<Arm(cond, b)>>, e) : b \in bodies, e \in {<<>>, <<Y>>}}
    \cup {If(<<Arm(cond, <<Y>>)>>, b) : b \in bodies}
    \cup {If(<<Arm(cond, <<Y>>), Arm("e", b)>>, e) : b \in bodies, e \in {<<>>, <<Z>>}}
    \cup {While(cond, b) : b \in bodies} \cup {For(2, b) : b \in bodies}

Flat == Around("p", {<<X>>})
Beside(statements) == {<<s, Z>> : s \in statements} \cup {<<Y, s>> : s \in statements}
Nested == Around("q", {<<s>> : s \in Flat} \cup Beside(Flat))
AnyPrograms == Beside(Flat) \cup {<<s>> : s \in Nested}

(* Blocks that hold only blocks with the same closing word.                *)
Ifs == {If(<<Arm("p", <<X>>)>>, <<>>), If(<<Arm("p", <<X>>)>>, <<Y>>)}
Loops == {While("p", <<X>>), For(2, <<X>>)}
SameClose ==
  {<<s>> : s \in Flat}
    \cup {<<If(<<Arm("q", b)>>, e)>> : b \in {<<s>> : s \in Ifs} \cup Beside(Ifs), e \in {<<>>, <<Z>>}}
    \cup {<<While("q", b)>> : b \in {<<s>> : s \in Loops} \cup Beside(Loops)}
    \cup {<<For(2, b)>> : b \in {<<s>> : s \in Loops}}

Bits(n) == UNION {[1..k -> BOOLEAN] : k \in 0..n}

(* One shell runs scripts, the other is typed into.                        *)
Scripts == INSTANCE Shell WITH
  Programs <- AnyPrograms, Outcomes <- Bits(4), Interactive <- FALSE, Inline <- FALSE,
  MaxBlocks <- 1, SbMax <- 40
Prompt == INSTANCE Shell WITH
  Programs <- SameClose, Outcomes <- Bits(2), Interactive <- TRUE, Inline <- FALSE,
  MaxBlocks <- 1, SbMax <- 40

-----------------------------------------------------------------------------
consoleVars == <<g_buf, g_head, g_tail, g_shift, g_ctrl, g_caps, down, codes, canon, isig, vmin,
                 cpu, pc, raw, len, min, got, c, t, pushed, polled, taken, lastRead>>
timerVars == <<g_ticks, requested, inService, ready, current, quantum, at, wake, ms, passed,
               wrapped, woken>>
shellVars == <<sb, blocks, last>>
pipelineVars == <<table, fds, does, buf, held, arrived, cut>>
listingVars == <<all, nextPid, scan>>
allVars == <<part, consoleVars, timerVars, shellVars, pipelineVars, listingVars>>

AllInit ==
  /\ part \in {"lines", "modes", "timer", "script", "prompt", "pipeline", "ps"}
  /\ \/ part = "modes" /\ Modes!Init
     \/ part # "modes" /\ Lines!Init
  /\ part \in {"lines", "modes"} \/ down = {}
  /\ Init
  /\ part = "timer" \/ (g_ticks = 0 /\ current = "p")
  /\ Scripts!Init /\ Stages4!Init /\ Ps!Init

AllNext ==
  /\ UNCHANGED part
  /\ \/ /\ \/ part = "lines" /\ Lines!Next
           \/ part = "modes" /\ Modes!Next
        /\ UNCHANGED <<timerVars, shellVars, pipelineVars, listingVars>>
     \/ /\ part = "timer" /\ Next
        /\ UNCHANGED <<consoleVars, shellVars, pipelineVars, listingVars>>
     \/ /\ \/ part = "script" /\ Scripts!Next
           \/ part = "prompt" /\ Prompt!Next
        /\ UNCHANGED <<consoleVars, timerVars, pipelineVars, listingVars>>
     \/ /\ part = "pipeline" /\ Stages4!Next
        /\ UNCHANGED <<consoleVars, timerVars, shellVars, listingVars>>
     \/ /\ part = "ps" /\ Ps!Next
        /\ UNCHANGED <<consoleVars, timerVars, shellVars, pipelineVars>>

AllSpec == AllInit /\ [][AllNext]_allVars

-----------------------------------------------------------------------------
(* What a program reads is what was typed, however _kbd_isr and kbd_poll   *)
(* interleave and whatever mode the terminal is in (sys_read).             *)
TypedIsRead ==
  /\ part = "lines" => Lines!TypedIsRead
  /\ part = "modes" => Modes!TypedIsRead

(* The commands that run are those the program means (exec_block).         *)
RunsAsWritten ==
  /\ part = "script" => Scripts!RunsAsWritten
  /\ part = "prompt" => Prompt!RunsAsWritten

(* The stages are wired as written, and after a pipeline no end is open    *)
(* and nothing is lost (run_pipeline).                                     *)
CleanPrompt == part = "pipeline" => Stages4!CleanPrompt

(* ps leaves out at most one process per reaped one, prints one twice only *)
(* if one was created meanwhile, and /proc read in pieces is the whole     *)
(* directory (scheduler_at, procfs_getdents).                              *)
PsExact == part = "ps" => Ps!PsExact
=============================================================================
