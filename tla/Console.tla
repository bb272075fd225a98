------------------------------ MODULE Console ------------------------------
(* Keyboard and terminal: the interrupt handler and the ring of              *)
(* drivers/kbd.c, and the console branch of sys_read in proc/fd.c.           *)
(*                                                                           *)
(* The handler runs to its end. A reader runs with interrupts on, so a key   *)
(* or a tick may come between any two of its accesses to the ring, and a     *)
(* tick may hand the CPU to another reader. Echo is left out.                *)
EXTENDS Integers, Sequences, FiniteSets, SequencesExt

CONSTANTS Readers,  \* processes that read the console
          KBD_BUF,  \* slots of the ring (256)
          MaxRead,  \* longest read
          MaxKeys,  \* bound on the scan codes of the keyboard
          KeysUsed, \* the keys that are pressed
          Repeats,  \* whether a held key repeats its make code
          MayTune   \* whether programs change the terminal mode

VARIABLES g_buf, g_head, g_tail,  \* the ring
          g_shift, g_ctrl, g_caps,
          down,                   \* the keyboard: modifier keys held
          codes,                  \* scan codes so far
          canon, isig, vmin,      \* g_termios
          cpu,                    \* the reader that has the CPU
          pc,                     \* where a reader is in sys_read
          raw, len, min,          \* how its read was called
          got,                    \* its buffer up to got
          c, t,                   \* its byte and its copy of g_tail
          pushed, polled,         \* history: bytes into and out of the ring
          taken,                  \* history: the bytes of a reader's read
          last                    \* history: the last read that returned

ring == <<g_buf, g_head, g_tail, pushed, polled>>
keyboard == <<g_shift, g_ctrl, g_caps, down, codes>>
termios == <<canon, isig, vmin>>
reader == <<pc, raw, len, min, got, c, t, taken, last>>
vars == <<ring, keyboard, termios, cpu, reader>>

Shifts == {"lshift", "rshift"}
Modifiers == Shifts \cup {"ctrl"}

(* _us_low and _us_high for the keys used here; F1 has no character.         *)
Low  == [m |-> "m", c |-> "c", enter |-> "LF", back |-> "BS", f1 |-> "NUL"]
High == [m |-> "M", c |-> "C", enter |-> "LF", back |-> "BS", f1 |-> "NUL"]
Letters == {"m", "M", "c", "C"}
OtherCase == [m |-> "M", M |-> "m", c |-> "C", C |-> "c"]
Control == [m |-> "CR", M |-> "CR", c |-> "ETX", C |-> "ETX"]
Chars == Letters \cup {"LF", "BS", "CR", "ETX"}

None == [raw |-> FALSE, len |-> 0, min |-> 0, got |-> <<>>, read |-> <<>>]

Init ==
    /\ g_buf = [i \in 0..(KBD_BUF - 1) |-> "NUL"] /\ g_head = 0 /\ g_tail = 0
    /\ g_shift = 0 /\ g_ctrl = 0 /\ g_caps = FALSE
    /\ down \in SUBSET Modifiers /\ codes = 0
    /\ canon = TRUE /\ isig = TRUE /\ vmin = 1
    /\ cpu \in Readers
    /\ pc = [r \in Readers |-> "user"]
    /\ raw = [r \in Readers |-> FALSE] /\ len = [r \in Readers |-> 0]
    /\ min = [r \in Readers |-> 0] /\ got = [r \in Readers |-> <<>>]
    /\ c = [r \in Readers |-> "NUL"] /\ t = [r \in Readers |-> 0]
    /\ pushed = <<>> /\ polled = <<>> /\ taken = [r \in Readers |-> <<>>] /\ last = None

NextSlot(i) == (i + 1) % KBD_BUF

(* The bytes not yet polled.                                                 *)
Pending == [i \in 1..((g_head - g_tail) % KBD_BUF) |-> g_buf[(g_tail + i - 1) % KBD_BUF]]

(* Every interrupt ends the hlt of the reader it finds on the CPU.           *)
Woken == IF pc[cpu] = "hlt" THEN [pc EXCEPT ![cpu] = "test"] ELSE pc

(* _kbd_isr                                                                  *)
ScanCode ==
    /\ codes < MaxKeys /\ codes' = codes + 1
    /\ pc' = Woken
    /\ UNCHANGED <<termios, cpu, raw, len, min, got, c, t, taken, last>>

Press(k) ==
    /\ k \notin down \/ Repeats
    /\ down' = down \cup {k}
    /\ g_shift' = IF k \in Shifts THEN (g_shift + 1) % 256 ELSE g_shift
    /\ g_ctrl' = IF k = "ctrl" THEN (g_ctrl + 1) % 256 ELSE g_ctrl
    /\ ScanCode
    /\ UNCHANGED <<ring, g_caps>>

Release(k) ==
    /\ k \in down
    /\ down' = down \ {k}
    /\ g_shift' = IF k \in Shifts /\ g_shift > 0 THEN g_shift - 1 ELSE g_shift
    /\ g_ctrl' = IF k = "ctrl" /\ g_ctrl > 0 THEN g_ctrl - 1 ELSE g_ctrl
    /\ ScanCode
    /\ UNCHANGED <<ring, g_caps>>

CapsLock ==
    /\ g_caps' = ~g_caps
    /\ ScanCode
    /\ UNCHANGED <<ring, g_shift, g_ctrl, down>>

Translate(key) ==
    LET plain == IF g_shift # 0 THEN High[key] ELSE Low[key]
        cased == IF g_caps /\ plain \in Letters THEN OtherCase[plain] ELSE plain
    IN IF g_ctrl # 0 /\ cased \in Letters THEN Control[cased] ELSE cased

(* Fault: a full ring is not noticed.                                        *)
BufPush_Overruns(b) ==
    /\ g_buf' = [g_buf EXCEPT ![g_head] = b]
    /\ g_head' = NextSlot(g_head)
    /\ pushed' = Append(pushed, b)
    /\ UNCHANGED <<g_tail, polled>>

(* _buf_push: a full ring loses the new byte.                                *)
BufPush(b) ==
    LET n == NextSlot(g_head)
    IN IF n = g_tail THEN UNCHANGED ring
       ELSE /\ g_buf' = [g_buf EXCEPT ![g_head] = b]
            /\ g_head' = n
            /\ pushed' = Append(pushed, b)
            /\ UNCHANGED <<g_tail, polled>>

(* A key with a character; Ctrl-C becomes a signal while ISIG is set.        *)
Key(key) ==
    /\ LET b == Translate(key)
       IN IF b = "NUL" \/ (b = "ETX" /\ isig) THEN UNCHANGED ring ELSE BufPush(b)
    /\ ScanCode
    /\ UNCHANGED <<g_shift, g_ctrl, g_caps, down>>

(* Fault: a tick does not end a hlt.                                         *)
Tick_KeepsHalted ==
    /\ cpu' \in Readers
    /\ UNCHANGED <<ring, keyboard, termios, reader>>

(* The timer ends a hlt and may switch to another reader.                    *)
Tick ==
    /\ cpu' \in Readers
    /\ pc' = Woken
    /\ UNCHANGED <<ring, keyboard, termios, raw, len, min, got, c, t, taken, last>>

(* sys_tcsetattr, by whatever process; a VMIN of 1 means what 0 does.        *)
SetTermios ==
    /\ MayTune
    /\ canon' \in BOOLEAN /\ isig' \in BOOLEAN /\ vmin' \in {0, 2}
    /\ UNCHANGED <<ring, keyboard, cpu, reader>>

(* sys_read on the console: the mode is looked at once.                      *)
Call(r, n) ==
    /\ cpu = r /\ pc[r] = "user"
    /\ pc' = [pc EXCEPT ![r] = "test"]
    /\ raw' = [raw EXCEPT ![r] = ~canon]
    /\ min' = [min EXCEPT ![r] = IF vmin = 0 THEN 1 ELSE vmin]
    /\ len' = [len EXCEPT ![r] = n]
    /\ got' = [got EXCEPT ![r] = <<>>]
    /\ taken' = [taken EXCEPT ![r] = <<>>]
    /\ UNCHANGED <<ring, keyboard, termios, cpu, c, t, last>>

(* kbd_poll, access by access: the test, the byte, the index.                *)
Test(r) ==
    /\ cpu = r /\ pc[r] = "test"
    /\ pc' = [pc EXCEPT ![r] = IF g_tail = g_head THEN "empty" ELSE "fetch"]
    /\ UNCHANGED <<ring, keyboard, termios, cpu, raw, len, min, got, c, t, taken, last>>

(* Nothing there: the CPU halts, until the next interrupt.                   *)
Hlt(r) ==
    /\ cpu = r /\ pc[r] = "empty"
    /\ pc' = [pc EXCEPT ![r] = "hlt"]
    /\ UNCHANGED <<ring, keyboard, termios, cpu, raw, len, min, got, c, t, taken, last>>

Fetch(r) ==
    /\ cpu = r /\ pc[r] = "fetch"
    /\ c' = [c EXCEPT ![r] = g_buf[g_tail]]
    /\ pc' = [pc EXCEPT ![r] = "load"]
    /\ UNCHANGED <<ring, keyboard, termios, cpu, raw, len, min, got, t, taken, last>>

LoadTail(r) ==
    /\ cpu = r /\ pc[r] = "load"
    /\ t' = [t EXCEPT ![r] = g_tail]
    /\ pc' = [pc EXCEPT ![r] = "store"]
    /\ UNCHANGED <<ring, keyboard, termios, cpu, raw, len, min, got, c, taken, last>>

(* What the loops of sys_read make of a byte.                                *)
Accepted(r) ==
    IF raw[r] THEN Append(got[r], c[r])
    ELSE IF c[r] = "BS" THEN IF got[r] = <<>> THEN <<>> ELSE Front(got[r])
    ELSE Append(got[r], IF c[r] = "CR" THEN "LF" ELSE c[r])

Done(r, data) ==
    \/ Len(data) >= len[r]
    \/ raw[r] /\ Len(data) >= min[r]
    \/ ~raw[r] /\ c[r] \in {"LF", "CR"}

(* The index is stored, and the loop goes on with the byte.                  *)
StoreTail(r) ==
    /\ cpu = r /\ pc[r] = "store"
    /\ g_tail' = NextSlot(t[r])
    /\ polled' = Append(polled, c[r])
    /\ taken' = [taken EXCEPT ![r] = Append(@, c[r])]
    /\ LET data == Accepted(r)
       IN /\ got' = [got EXCEPT ![r] = data]
          /\ IF Done(r, data)
             THEN /\ pc' = [pc EXCEPT ![r] = "user"]
                  /\ last' = [raw |-> raw[r], len |-> len[r], min |-> min[r],
                              got |-> data, read |-> taken'[r]]
             ELSE pc' = [pc EXCEPT ![r] = "test"] /\ UNCHANGED last
    /\ UNCHANGED <<g_buf, g_head, pushed, keyboard, termios, cpu, raw, len, min, c, t>>

Step(r) ==
    \/ Test(r)
    \/ Hlt(r)
    \/ Fetch(r)
    \/ LoadTail(r)
    \/ StoreTail(r)

Next ==
    \/ \E k \in Modifiers \cap KeysUsed : Press(k)
    \/ \E k \in Modifiers : Release(k)
    \/ "caps" \in KeysUsed /\ CapsLock
    \/ \E key \in KeysUsed \cap DOMAIN Low : Key(key)
    \/ Tick
    \/ SetTermios
    \/ \E r \in Readers : (\E n \in 1..MaxRead : Call(r, n)) \/ Step(r)

Spec == Init /\ [][Next]_vars

(* The timer keeps ticking and the reader's instructions are executed; the   *)
(* keyboard owes nothing.                                                    *)
FairSpec == Spec /\ WF_vars(Tick) /\ \A r \in Readers : WF_vars(Step(r))

-----------------------------------------------------------------------------
TypeOK ==
    /\ g_head \in 0..(KBD_BUF - 1) /\ g_tail \in 0..(KBD_BUF - 1)
    /\ \A i \in DOMAIN g_buf : g_buf[i] \in Chars \cup {"NUL"}
    /\ g_shift \in 0..255 /\ g_ctrl \in 0..255 /\ g_caps \in BOOLEAN
    /\ \A r \in Readers : /\ pc[r] \in {"user", "test", "empty", "hlt", "fetch", "load", "store"}
                          /\ Len(got[r]) <= len[r]

(* Every byte the handler stored is polled once and in order, or still in    *)
(* the ring: kbd_poll neither repeats nor skips a key, a full ring loses     *)
(* only new ones, whatever the handler does between the accesses of a poll.  *)
KeysInOrder == pushed = polled \o Pending

(* A modifier counts as pressed only while one of its keys is held: the      *)
(* counters of _kbd_isr never stay up after the last release.                *)
NoStuckModifier ==
    /\ down \cap Shifts = {} => g_shift = 0
    /\ "ctrl" \notin down => g_ctrl = 0

(* What line editing has to leave of the bytes of a read: a byte goes if     *)
(* later on more bytes are erased than entered since.                        *)
Erased(s, i) ==
    \E j \in (i + 1)..Len(s) :
        2 * Cardinality({k \in (i + 1)..j : s[k] = "BS"}) > j - i
Edited(s) ==
    LET kept == {i \in 1..Len(s) : s[i] # "BS" /\ ~Erased(s, i)}
    IN [n \in 1..Cardinality(kept) |->
          LET i == CHOOSE i \in kept : Cardinality({k \in kept : k <= i}) = n
          IN IF s[i] = "CR" THEN "LF" ELSE s[i]]

(* A read of the console returns what the terminal mode promises: in         *)
(* canonical mode the edited line, ended by its newline or by the caller's   *)
(* buffer, in raw mode VMIN bytes unless the buffer is shorter.              *)
ReadsSatisfied ==
    last # None =>
        IF last.raw
        THEN last.got = last.read /\ Len(last.got) = IF last.len < last.min THEN last.len ELSE last.min
        ELSE /\ last.got = Edited(last.read)
             /\ \A i \in 1..(Len(last.got) - 1) : last.got[i] # "LF"
             /\ Len(last.got) = last.len \/ Last(last.got) = "LF"

(* What a program reads is what was typed, with the modifiers that were      *)
(* held, edited as the mode says.                                            *)
TypedIsRead == TypeOK /\ KeysInOrder /\ NoStuckModifier /\ ReadsSatisfied

(* A reader that waits for a line returns once the end of the line is in     *)
(* the ring, although the test and the hlt of its loop are not atomic: the   *)
(* key may come between the two.                                             *)
LineArrives ==
    \A r \in Readers :
        (pc[r] # "user" /\ ~raw[r] /\ \E i \in 1..Len(Pending) : Pending[i] = "LF")
            ~> pc[r] = "user"
=============================================================================
