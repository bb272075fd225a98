------------------------------ MODULE MCWaiting ------------------------------
(***************************************************************************)
(* Everything in the system that waits: a reader or a writer on a pipe, a  *)
(* reader on the console, a sleeper and a process on the ready queue, the  *)
(* disk driver, the shell behind a pipeline.  The modules share no state;  *)
(* a behaviour exercises one of them (part), under the fairness of that    *)
(* module's FairSpec, while the others stay as they started.               *)
(***************************************************************************)
EXTENDS Integers

VARIABLES part,
  (* Pipes *)
  alive, fds, buf, head, tail, count, readers, writers, used, op, on, want, data, xfer,
  (* Console *)
  g_buf, g_head, g_tail, g_shift, g_ctrl, g_caps, down, codes, canon, isig, vmin,
  cpu, pc, raw, len, min, got, c, t, pushed, polled, taken, last,
  (* Timer *)
  g_ticks, requested, inService, ready, current, quantum, at, wake, ms, passed, wrapped, woken,
  (* Disk; doing, sectors, memory and sector are its pc, count, buf and next *)
  doing, polls, write, lba, sectors, s, memory, status, req,
  bsy, drq, err, sector, left, moved, latch, medium, dropped,
  (* Pipeline; opened, does and inPipe are its fds, at and buf *)
  table, opened, does, inPipe, held, arrived, cut

(* Two descriptors are what a process at an end of a pipe needs.          *)
Ends == INSTANCE Pipes WITH
  Procs <- {"sh", "a"}, Shell <- "sh", MaxFds <- 2, NPIPES <- 1, PIPE_CAP <- 1, Byte <- {"x"},
  Lens <- {2}, OpenKinds <- {}

Keys == INSTANCE Console WITH
  Readers <- {"r"}, KBD_BUF <- 3, MaxRead <- 2, MaxKeys <- 3, KeysUsed <- {"m", "back", "enter"},
  Repeats <- FALSE, MayTune <- FALSE

Clock == INSTANCE Timer WITH Procs <- {"p", "q"}, Width <- 12, Quantum <- 2, MaxMs <- 2

Drive == INSTANCE Disk WITH
  Sectors <- 2, MaxCount <- 2, MaxChunk <- 1, MaxPolls <- 2, Data <- {"x", "y"}, Faults <- TRUE,
  pc <- doing, count <- sectors, buf <- memory, next <- sector

Line == INSTANCE Pipeline WITH
  N <- 3, MaxFds <- 7, Capacity <- 1, Output <- 2, fds <- opened, at <- does, buf <- inPipe

-----------------------------------------------------------------------------
pipesVars == <<alive, fds, buf, head, tail, count, readers, writers, used, op, on, want, data, xfer>>
consoleVars == <<g_buf, g_head, g_tail, g_shift, g_ctrl, g_caps, down, codes, canon, isig, vmin,
                 cpu, pc, raw, len, min, got, c, t, pushed, polled, taken, last>>
timerVars == <<g_ticks, requested, inService, ready, current, quantum, at, wake, ms, passed,
               wrapped, woken>>
diskVars == <<doing, polls, write, lba, sectors, s, memory, status, req,
              bsy, drq, err, sector, left, moved, latch, medium, dropped>>
pipelineVars == <<table, opened, does, inPipe, held, arrived, cut>>
vars == <<part, pipesVars, consoleVars, timerVars, diskVars, pipelineVars>>

Init ==
  /\ part \in {"pipes", "console", "timer", "disk", "pipeline"}
  /\ Ends!Init /\ Line!Init
  /\ Keys!Init /\ (part = "console" \/ down = {})
  /\ Clock!Init /\ (part = "timer" \/ (g_ticks = 0 /\ current = "p"))
  /\ Drive!DiskInit /\ (part = "disk" \/ medium[0] = "x")

Next ==
  /\ UNCHANGED part
  /\ \/ /\ part = "pipes" /\ Ends!Next
        /\ UNCHANGED <<consoleVars, timerVars, diskVars, pipelineVars>>
     \/ /\ part = "console" /\ Keys!Next
        /\ UNCHANGED <<pipesVars, timerVars, diskVars, pipelineVars>>
     \/ /\ part = "timer" /\ Clock!Next
        /\ UNCHANGED <<pipesVars, consoleVars, diskVars, pipelineVars>>
     \/ /\ part = "disk" /\ Drive!DiskNext
        /\ UNCHANGED <<pipesVars, consoleVars, timerVars, pipelineVars>>
     \/ /\ part = "pipeline" /\ Line!Next
        /\ UNCHANGED <<pipesVars, consoleVars, timerVars, diskVars>>

FairSpec ==
  /\ Init /\ [][Next]_vars
  /\ \A p \in {"sh", "a"} :
        WF_pipesVars(part = "pipes" /\ (Ends!ReadResume(p) \/ Ends!WriteResume(p)))
  /\ WF_consoleVars(part = "console" /\ Keys!Tick)
  /\ WF_consoleVars(part = "console" /\ Keys!Step("r"))
  /\ WF_timerVars(part = "timer" /\ Clock!Pulse)
  /\ WF_timerVars(part = "timer" /\ Clock!Interrupt)
  /\ WF_timerVars(part = "timer" /\ Clock!Return)
  /\ \A p \in {"p", "q"} : WF_timerVars(part = "timer" /\ Clock!Check(p))
  /\ WF_diskVars(part = "disk" /\ (Drive!Timeout \/ Drive!WaitDrq))
  /\ WF_pipelineVars(part = "pipeline" /\ Line!ShellStep)
  /\ \A n \in 0..2 : WF_pipelineVars(part = "pipeline" /\ Line!StageStep(n))
  /\ WF_pipelineVars(part = "pipeline" /\ held[0] = 0 /\ Line!Exit(0))

-----------------------------------------------------------------------------
(* A process blocked on a pipe returns once nobody holds the other end     *)
(* (pipe_read, pipe_write).                                                *)
EndsNoticed == part = "pipes" => Ends!EofReached /\ Ends!BrokenPipeReached

(* A reader of the console gets a line that is in the ring (sys_read).     *)
LineArrives == part = "console" => Keys!LineArrives

(* Every process gets the CPU again and again, and a sleep ends            *)
(* (scheduler_tick, sys_sleep).                                            *)
SleepEnds == part = "timer" => Clock!EveryoneRuns /\ Clock!SleepEnds

(* A disk request returns even if the drive never answers (_ata_transfer). *)
RequestsReturn == part = "disk" => Drive!RequestsReturn

(* A pipeline comes back to the prompt (run_pipeline).                     *)
PipelineEnds == part = "pipeline" => Line!PipelineEnds
=============================================================================
