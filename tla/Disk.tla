-------------------------------- MODULE Disk --------------------------------
(***************************************************************************)
(* Block I/O: blk_rw of drivers/block/block.c over the PIO driver of       *)
(* drivers/ata.c, and the drive as the driver sees it, through its status  *)
(* register and its data port.                                             *)
(*                                                                         *)
(* blk_rw is synchronous, so its queue holds the one request in progress   *)
(* and its pool never runs out.  The drive runs at its own pace: it may    *)
(* answer late, not at all, or with an error.                              *)
(***************************************************************************)
EXTENDS Integers, Sequences

CONSTANTS
  Sectors,     \* sectors of the drive, from IDENTIFY
  MaxCount,    \* longest request, in sectors
  MaxChunk,    \* sectors per command (255)
  MaxPolls,    \* status reads before the driver gives up (1000000)
  Data,        \* contents of a sector
  Faults       \* whether the drive may report errors

(* What the constants are. *)
DiskConstants == {Sectors, MaxCount} \subseteq Nat /\ MaxChunk \in Nat \ {0} /\ MaxPolls \in Nat

VARIABLES
  (* the driver *)
  pc,         \* "idle", or the loop it is in: "timeout", "wait_drq"
  polls,      \* iterations of that loop
  write, lba, count,   \* the rest of the request, as _ata_transfer has it
  s,          \* sectors of the current command that are done
  buf,        \* the caller's buffer
  status,     \* what blk_rw returned last
  req,        \* history: the request as it was made
  (* the drive *)
  bsy, drq, err,       \* status register; DRDY is set unless BSY is
  next, left,            \* its next sector and the sectors it has still to move
  moved,               \* the host has moved the sector it asked for
  latch,               \* data of a sector on its way to the medium
  medium,
  dropped              \* history: it gave up a sector of this request it had taken

driver == <<pc, polls, write, lba, count, s, buf, status, req>>
drive  == <<bsy, drq, err, next, left, moved, latch, medium>>
diskVars == <<driver, drive, dropped>>

None == <<>>

DiskInit ==
  /\ pc = "idle" /\ polls = 0 /\ write = FALSE /\ lba = 0 /\ count = 0 /\ s = 0
  /\ buf = <<>> /\ status = "none" /\ req = [write |-> FALSE, lba |-> 0, buf |-> <<>>]
  /\ bsy = FALSE /\ drq = FALSE /\ err = FALSE /\ next = 0 /\ left = 0
  /\ moved = FALSE /\ latch = None /\ dropped = FALSE
  /\ \E d \in Data : medium = [n \in 0..(Sectors - 1) |-> d]

(***************************************************************************)
(* The driver                                                              *)
(***************************************************************************)
(* blk_rw refuses a request beyond the end of the device; else             *)
(* _run_queue calls _ata_transfer, which selects the drive.                *)
BlkRw(w, l, b) ==
  /\ pc = "idle"
  /\ req' = [write |-> w, lba |-> l, buf |-> b]
  /\ buf' = b
  /\ IF l + Len(b) > Sectors
     THEN status' = "RANGE" /\ UNCHANGED <<pc, polls, write, lba, count, s>>
     ELSE /\ pc' = "timeout" /\ polls' = 0
          /\ write' = w /\ lba' = l /\ count' = Len(b) /\ s' = 0
          /\ UNCHANGED status
  /\ dropped' = FALSE
  /\ UNCHANGED drive

Finish(st) == pc' = "idle" /\ status' = st /\ polls' = 0 /\ s' = 0

(* Fault: no bound on the loop. *)
Poll_Forever == UNCHANGED diskVars

(* A status read that shows nothing; the last one is a timeout.  *)
Poll ==
  /\ IF polls + 1 < MaxPolls
     THEN polls' = polls + 1 /\ UNCHANGED <<pc, status, s>>
     ELSE Finish("IO")
  /\ UNCHANGED <<write, lba, count, buf, req, drive, dropped>>

Chunk == IF count > MaxChunk THEN MaxChunk ELSE count

(* One read of the status in _timeout; when the drive is ready, ata_read   *)
(* or ata_write issues the command.                                        *)
Timeout ==
  /\ pc = "timeout"
  /\ \/ /\ bsy /\ Poll
     \/ /\ ~bsy
        /\ pc' = "wait_drq" /\ polls' = 0 /\ s' = 0
        /\ bsy' = TRUE /\ drq' = FALSE /\ err' = FALSE
        /\ next' = lba /\ left' = Chunk
        /\ moved' = FALSE /\ latch' = None
        /\ UNCHANGED <<write, lba, count, buf, status, req, medium, dropped>>

(* Fault: the next command starts at the same sector. *)
AfterSector_SameLba ==
  IF s + 1 < Chunk THEN /\ s' = s + 1 /\ polls' = 0 /\ UNCHANGED <<pc, lba, count, status>>
  ELSE /\ count' = count - Chunk /\ UNCHANGED lba
       /\ IF count > Chunk THEN /\ pc' = "timeout" /\ polls' = 0 /\ s' = 0 /\ UNCHANGED status
          ELSE Finish("OK")

(* The rest of _ata_transfer after a sector: the next one, the next        *)
(* command or the end.                                                     *)
AfterSector ==
  IF s + 1 < Chunk THEN /\ s' = s + 1 /\ polls' = 0 /\ UNCHANGED <<pc, lba, count, status>>
  ELSE /\ lba' = lba + Chunk /\ count' = count - Chunk
       /\ IF count > Chunk THEN /\ pc' = "timeout" /\ polls' = 0 /\ s' = 0 /\ UNCHANGED status
          ELSE Finish("OK")

(* Position in the caller's buffer: p advances with every command. *)
Index == Len(buf) - count + s + 1

(* One read of the status in _wait_drq, and the 256 words of a sector.     *)
WaitDrq ==
  /\ pc = "wait_drq"
  /\ \/ /\ err /\ Finish("IO")
        /\ UNCHANGED <<write, lba, count, buf, req, drive, dropped>>
     \/ /\ ~err /\ ~drq /\ Poll
     \/ /\ ~err /\ drq
        /\ IF write THEN latch' = <<buf[Index]>> /\ UNCHANGED buf
           ELSE buf' = [buf EXCEPT ![Index] = medium[next]] /\ UNCHANGED latch
        /\ drq' = FALSE /\ bsy' = TRUE /\ moved' = TRUE
        /\ AfterSector
        /\ UNCHANGED <<write, req, err, next, left, medium, dropped>>

(***************************************************************************)
(* The drive                                                               *)
(***************************************************************************)
(* It finishes a sector: data of a write reach the medium, and it asks for *)
(* the next sector or is done.                                             *)
Serve ==
  /\ bsy
  /\ bsy' = FALSE /\ moved' = FALSE /\ latch' = None
  /\ medium' = IF latch = None THEN medium ELSE [medium EXCEPT ![next] = latch[1]]
  /\ LET n == IF moved THEN 1 ELSE 0
     IN next' = next + n /\ left' = left - n /\ drq' = (left > n)
  /\ UNCHANGED <<err, driver, dropped>>

(* It gives up the command, before or after the data of a sector.          *)
Fail ==
  /\ Faults /\ bsy
  /\ bsy' = FALSE /\ drq' = FALSE /\ err' = TRUE
  /\ moved' = FALSE /\ latch' = None /\ left' = 0
  /\ dropped' = (dropped \/ latch # None)
  /\ UNCHANGED <<next, medium, driver>>

Buffers == UNION {[1..n -> Data] : n \in 1..MaxCount}

DiskNext ==
  \/ \E w \in BOOLEAN, l \in 0..(Sectors - 1), b \in Buffers : BlkRw(w, l, b)
  \/ Timeout \/ WaitDrq \/ Serve \/ Fail

DiskSpec == DiskInit /\ [][DiskNext]_diskVars

(* The driver's loops run until they end; nothing is assumed of the drive. *)
DiskFairSpec == DiskSpec /\ WF_diskVars(Timeout \/ WaitDrq)

-----------------------------------------------------------------------------
(* A read that succeeds has delivered every sector, in its place in the    *)
(* caller's buffer, with everything written before: across the commands    *)
(* _ata_transfer splits it into, and after commands that timed out.        *)
ReadsDeliver ==
  pc = "idle" /\ status = "OK" /\ ~req.write =>
    \A i \in DOMAIN req.buf : buf[i] = medium[req.lba + i - 1]

(* A write that succeeds is on the medium once the drive is done, unless   *)
(* the drive gave up a sector after taking its data from the host: ata_write *)
(* looks at ERR before every sector and not after the last one of a command. *)
WritesReachMedium ==
  pc = "idle" /\ status = "OK" /\ req.write /\ ~bsy /\ ~dropped =>
    \A i \in DOMAIN req.buf : medium[req.lba + i - 1] = req.buf[i]

(* No command reaches beyond the end of the drive, whatever the request    *)
(* and however it is split.                                                *)
CommandsInRange == next + left <= Sectors

(* Every request returns, even when the drive never answers.               *)
RequestsReturn == pc # "idle" ~> pc = "idle"

(* What blk_rw reports is what happened, within the drive.                 *)
TransfersExact == ReadsDeliver /\ WritesReachMedium /\ CommandsInRange
=============================================================================
