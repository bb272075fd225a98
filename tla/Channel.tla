------------------------------- MODULE Channel -------------------------------
(***************************************************************************)
(* What a pipe promises: a bounded first-in first-out channel of bytes.    *)
(* A writer's bytes move from todo to the back of the queue in order, a    *)
(* reader takes bytes from the front, nothing is lost, repeated or         *)
(* reordered, and the contents are discarded only when the channel is      *)
(* closed and opened anew.                                                 *)
(***************************************************************************)
EXTENDS Integers, Sequences

CONSTANTS Chans, Procs, Byte, Capacity, Lens

VARIABLES
  open,    \* is the channel in use
  queue,   \* bytes sent and not yet received, per channel
  todo,    \* bytes a sender has still to send, per process
  out      \* bytes delivered by the last step

vars == <<open, queue, todo, out>>

Messages == UNION {[1..n -> Byte] : n \in Lens}

Init ==
  /\ open = [c \in Chans |-> FALSE]
  /\ queue = [c \in Chans |-> <<>>]
  /\ todo = [p \in Procs |-> <<>>]
  /\ out = <<>>

Open(c) ==
  /\ ~open[c]
  /\ open' = [open EXCEPT ![c] = TRUE]
  /\ queue' = [queue EXCEPT ![c] = <<>>]
  /\ out' = <<>>
  /\ UNCHANGED todo

(* One step of a process, such as its exit, may close several channels. *)
Close(S) ==
  /\ open' = [c \in Chans |-> open[c] /\ c \notin S]
  /\ out' = <<>>
  /\ UNCHANGED <<queue, todo>>

(* Send the first n bytes of d, then go on with the rest or give up.       *)
Send(p, c, d, n) ==
  /\ open[c]
  /\ n <= Len(d) /\ Len(queue[c]) + n <= Capacity
  /\ queue' = [queue EXCEPT ![c] = @ \o SubSeq(d, 1, n)]
  /\ \E rest \in {<<>>, SubSeq(d, n + 1, Len(d))} :
       todo' = [todo EXCEPT ![p] = rest]
  /\ out' = <<>>
  /\ UNCHANGED open

SendNew(p, c) == /\ todo[p] = <<>>
                 /\ \E d \in Messages, n \in 0..Capacity : Send(p, c, d, n)
SendMore(p, c) == \E n \in 0..Capacity : Send(p, c, todo[p], n)

Receive(c, n) ==
  /\ open[c]
  /\ n <= Len(queue[c])
  /\ out' = SubSeq(queue[c], 1, n)
  /\ queue' = [queue EXCEPT ![c] = SubSeq(@, n + 1, Len(@))]
  /\ UNCHANGED <<open, todo>>

Next ==
  \/ \E c \in Chans : Open(c)
  \/ \E S \in SUBSET Chans : Close(S)
  \/ \E p \in Procs, c \in Chans : SendNew(p, c) \/ SendMore(p, c)
  \/ \E c \in Chans, n \in 0..Capacity : Receive(c, n)

Spec == Init /\ [][Next]_vars
=============================================================================
