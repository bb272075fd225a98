---------------------------- MODULE DeviceProofs ----------------------------
(***************************************************************************)
(* What the kernel is promised by its devices and the layers over them:    *)
(* the timer's sleeps, the ATA driver's transfers and the buffer cache     *)
(* under NoxFS, for every number of processes, sectors, blocks and buffers *)
(* and every width of the tick counter.                                    *)
(*                                                                         *)
(* The invariant of the timer: as long as fewer ticks than a sleep asked   *)
(* for have passed, the counter stands exactly where the sleep began plus  *)
(* those ticks, so it has neither reached the wake-up time nor wrapped.    *)
(*                                                                         *)
(* The invariant of the cache: the chains and the LRU list have no buffer  *)
(* twice, every valid buffer is in the chain of its block and in no other, *)
(* and a block that no operation of the device failed for is in a buffer   *)
(* with its last value, or on the medium.                                  *)
(*                                                                         *)
(* The invariant of the disk: during a command the drive's position is     *)
(* that of the driver, the sectors before it are where they belong, and at *)
(* most the last of them is still in the drive's latch.  A latch left over *)
(* from a request that timed out is empty before the first sector moves.   *)
(***************************************************************************)
EXTENDS BufferCache, Disk, Timer, SequenceTheorems, WellFoundedInduction, TLAPS

(* A step that cites no prover is left to the SMT solver. *)
USE SMTT(30)

(* The timer: every variable the sleeps depend on has its type. *)
Times ==
  /\ g_ticks \in 0..(Width - 1)
  /\ at \in [All -> {"on", "sleep", "handler", "yielded"}]
  /\ wake \in [Procs -> 0..(Width - 1)]
  /\ ms \in [Procs -> Nat] /\ passed \in [Procs -> Nat]
  /\ wrapped \in [Procs -> BOOLEAN]

(* Where the counter stands during the sleep of p. *)
OnTime(p) ==
  at[p] = "sleep" /\ ~wrapped[p] =>
    passed[p] >= ms[p] \/ g_ticks = wake[p] - ms[p] + passed[p]

TimerInv == Times /\ (\A p \in Procs : OnTime(p)) /\ EarlyOnlyIfWrapped

(* The timer's invariant holds at boot. *)
LEMMA TimerInitInv ==
  ASSUME Constants, Init
  PROVE  TimerInv
<1>1. Times
  BY DEF Constants, Init, Times
<1>2. \A p \in Procs : ms[p] = 0 /\ passed[p] = 0
  BY Zenon DEF Init
<1>3. EarlyOnlyIfWrapped
  BY DEF Init, EarlyOnlyIfWrapped
<1> QED
  BY <1>1, <1>2, <1>3 DEF TimerInv, OnTime

(* Every step of the timer keeps its invariant. *)
LEMMA TimerNextInv ==
  Constants /\ TimerInv /\ [Next]_vars => TimerInv'
(* A tick: the counter of a sleeper cannot wrap before its time is over.   *)
<1>InterruptInv.
    ASSUME Constants, TimerInv, Interrupt
    PROVE  TimerInv'
  <2> USE <1>InterruptInv
  <2>1. /\ g_ticks' = (g_ticks + 1) % Width
        /\ passed' = [p \in Procs |-> IF passed[p] < ms[p] THEN passed[p] + 1 ELSE passed[p]]
        /\ UNCHANGED <<wake, ms, wrapped, woken>>
        /\ at[current] = "on"
        /\ at' = at \/ at' = [at EXCEPT ![current] = "handler"]
    BY Zenon DEF Interrupt
  <2>2. Times /\ Width \in Nat /\ Width > 0
    BY DEF TimerInv, Constants
  <2>3. g_ticks' = IF g_ticks + 1 = Width THEN 0 ELSE g_ticks + 1
    BY <2>1, <2>2 DEF Times
  <2>4. Times'
    <3>1. passed' \in [Procs -> Nat]
      BY <2>1, <2>2 DEF Times
    <3>2. at' \in [All -> {"on", "sleep", "handler", "yielded"}]
      BY <2>1, <2>2, Zenon DEF Times
    <3>3. g_ticks' \in 0..(Width - 1)
      BY <2>2, <2>3 DEF Times
    <3> QED
      BY <2>1, <2>2, <3>1, <3>2, <3>3, Zenon DEF Times
  <2>5. ASSUME NEW p \in Procs
        PROVE  OnTime(p)'
    <3> SUFFICES ASSUME at'[p] = "sleep", ~wrapped[p], passed'[p] < ms[p]
                 PROVE  g_ticks' = wake[p] - ms[p] + passed'[p]
      BY <2>1, <2>2, <2>4 DEF OnTime, Times
    <3>1. at[p] = "sleep"
      BY <2>1, <2>2, Zenon DEF Times, All
    <3>2. /\ wake[p] \in 0..(Width - 1) /\ ms[p] \in Nat /\ passed[p] \in Nat
          /\ passed'[p] = IF passed[p] < ms[p] THEN passed[p] + 1 ELSE passed[p]
          /\ g_ticks \in Nat
      BY <2>1, <2>2 DEF Times
    <3>3. passed[p] < ms[p] /\ passed'[p] = passed[p] + 1
      BY <3>2, Zenon
    <3>4. g_ticks = wake[p] - ms[p] + passed[p]
      BY <3>1, <3>2, <3>3 DEF TimerInv, OnTime
    <3> QED
      BY <2>2, <2>3, <3>2, <3>3, <3>4
  <2>6. EarlyOnlyIfWrapped'
    BY <2>1, Zenon DEF TimerInv, EarlyOnlyIfWrapped
  <2> QED
    BY <2>4, <2>5, <2>6, Zenon DEF TimerInv
(* sys_sleep computes the wake-up time. *)
<1>SleepInv.
    ASSUME Constants, TimerInv, NEW p \in Procs, NEW n \in 0..MaxMs, Sleep(p, n)
    PROVE  TimerInv'
  <2> USE <1>SleepInv
  <2>1. /\ at' = [at EXCEPT ![p] = "sleep"]
        /\ wake' = [wake EXCEPT ![p] = (g_ticks + n) % Width]
        /\ ms' = [ms EXCEPT ![p] = n] /\ passed' = [passed EXCEPT ![p] = 0]
        /\ wrapped' = [wrapped EXCEPT ![p] = g_ticks + n >= Width]
        /\ UNCHANGED <<g_ticks, woken>>
    BY Zenon DEF Sleep
  <2>2. Times /\ Width \in Nat /\ Width > 0 /\ n \in Nat /\ g_ticks \in 0..(Width - 1)
    BY DEF TimerInv, Times, Constants
  <2>3. (g_ticks + n) % Width \in 0..(Width - 1)
    BY <2>2
  <2>4. Times'
    <3>1. wake' \in [Procs -> 0..(Width - 1)]
      BY <2>1, <2>2, <2>3, Zenon DEF Times
    <3>2. ms' \in [Procs -> Nat] /\ passed' \in [Procs -> Nat]
      BY <2>1, <2>2, Zenon DEF Times
    <3>3. wrapped' \in [Procs -> BOOLEAN]
      BY <2>1, <2>2 DEF Times
    <3>4. at' \in [All -> {"on", "sleep", "handler", "yielded"}]
      BY <2>1, <2>2, Zenon DEF Times
    <3> QED
      BY <2>1, <2>2, <3>1, <3>2, <3>3, <3>4, Zenon DEF Times
  <2>5. ASSUME NEW q \in Procs
        PROVE  OnTime(q)'
    <3>1. CASE q = p
      <4>0. wrapped'[p] <=> g_ticks + n >= Width
        BY <2>1, <2>2, Zenon DEF Times
      <4>1. /\ wake'[p] = (g_ticks + n) % Width /\ ms'[p] = n /\ passed'[p] = 0
            /\ g_ticks' = g_ticks
        BY <2>1, <2>2, Zenon DEF Times
      <4>2. g_ticks + n < Width => (g_ticks + n) % Width = g_ticks + n
        BY <2>2
      <4> QED
        BY <2>2, <3>1, <4>0, <4>1, <4>2 DEF OnTime
    <3>2. CASE q # p
      <4>1. /\ wake'[q] = wake[q] /\ ms'[q] = ms[q] /\ passed'[q] = passed[q]
            /\ wrapped'[q] = wrapped[q] /\ at'[q] = at[q]
        BY <2>1, <2>2, <3>2, Zenon DEF Times, All
      <4> QED
        BY <2>1, <4>1, Zenon DEF TimerInv, OnTime
    <3> QED
      BY <3>1, <3>2, Zenon
  <2>6. EarlyOnlyIfWrapped'
    BY <2>1, Zenon DEF TimerInv, EarlyOnlyIfWrapped
  <2> QED
    BY <2>4, <2>5, <2>6, Zenon DEF TimerInv
(* The loop of sys_sleep: it ends when the counter has reached the time.   *)
<1>CheckInv.
    ASSUME Constants, TimerInv, NEW p \in Procs, Check(p)
    PROVE  TimerInv'
  <2> USE <1>CheckInv
  <2>0. Times /\ g_ticks \in Nat
    BY DEF TimerInv, Times
  <2>1. CASE UNCHANGED <<g_ticks, at, wake, ms, passed, wrapped, woken>>
    BY <2>1, Zenon DEF TimerInv, Times, OnTime, EarlyOnlyIfWrapped
  <2>2. CASE ~Asleep(p)
    <3>1. /\ at' = [at EXCEPT ![p] = "on"] /\ at[p] = "sleep"
          /\ woken' = [ms |-> ms[p], passed |-> passed[p], wrapped |-> wrapped[p]]
          /\ wake' = [wake EXCEPT ![p] = 0] /\ ms' = [ms EXCEPT ![p] = 0]
          /\ passed' = [passed EXCEPT ![p] = 0]
          /\ wrapped' = [wrapped EXCEPT ![p] = FALSE]
          /\ g_ticks' = g_ticks
      BY <2>2, Zenon DEF Check
    <3>2. Times'
      <4>1. 0 \in 0..(Width - 1)
        BY DEF Constants
      <4>2. wake' \in [Procs -> 0..(Width - 1)]
        BY <2>0, <3>1, <4>1, Zenon DEF Times
      <4>3. ms' \in [Procs -> Nat] /\ passed' \in [Procs -> Nat]
        BY <2>0, <3>1, Zenon DEF Times
      <4>4. wrapped' \in [Procs -> BOOLEAN]
        BY <2>0, <3>1, Zenon DEF Times
      <4>5. at' \in [All -> {"on", "sleep", "handler", "yielded"}]
        BY <2>0, <3>1, Zenon DEF Times
      <4> QED
        BY <2>0, <3>1, <4>2, <4>3, <4>4, <4>5, Zenon DEF Times
    <3>3. ASSUME NEW q \in Procs
          PROVE  OnTime(q)'
      <4>1. CASE q = p
        <5>1. at'[p] = "on"
          BY <2>0, <3>1, Zenon DEF Times, All
        <5> QED
          BY <4>1, <5>1, Zenon DEF OnTime
      <4>2. CASE q # p
        <5>1. /\ wake'[q] = wake[q] /\ ms'[q] = ms[q] /\ passed'[q] = passed[q]
              /\ wrapped'[q] = wrapped[q] /\ at'[q] = at[q]
          BY <2>0, <3>1, <4>2, Zenon DEF Times, All
        <5> QED
          BY <3>1, <5>1, Zenon DEF TimerInv, OnTime
      <4> QED
        BY <4>1, <4>2, Zenon
    <3>4. EarlyOnlyIfWrapped'
      <4>1. wrapped[p] \/ passed[p] >= ms[p]
        <5>1. /\ wake[p] \in Nat /\ ms[p] \in Nat /\ passed[p] \in Nat
              /\ g_ticks >= wake[p]
          BY <2>0, <2>2 DEF Times, Asleep
        <5>2. ~wrapped[p] => passed[p] >= ms[p] \/ g_ticks = wake[p] - ms[p] + passed[p]
          BY <3>1, Zenon DEF TimerInv, OnTime
        <5> QED
          BY <2>0, <5>1, <5>2
      <4> QED
        BY <3>1, <4>1, Zenon DEF EarlyOnlyIfWrapped
    <3> QED
      BY <3>2, <3>3, <3>4, Zenon DEF TimerInv
  <2> QED
    BY <2>1, <2>2, Zenon DEF Check
<1> SUFFICES ASSUME Constants, TimerInv, [Next]_vars
             PROVE  TimerInv'
  BY Zenon
<1>1. CASE Pulse \/ UNCHANGED vars
  BY <1>1, Zenon DEF Pulse, vars, TimerInv, Times, OnTime, EarlyOnlyIfWrapped
<1>2. CASE Return
  <2>1. /\ at' = [at EXCEPT ![current] = "on"]
        /\ UNCHANGED <<g_ticks, wake, ms, passed, wrapped, woken>>
    BY <1>2, Zenon DEF Return
  <2>2. Times'
    BY <2>1, Zenon DEF TimerInv, Times
  <2>3. ASSUME NEW p \in Procs
        PROVE  OnTime(p)'
    <3>1. at'[p] = "sleep" => at[p] = "sleep"
      BY <2>1, Zenon DEF TimerInv, Times, All
    <3> QED
      BY <2>1, <3>1, Zenon DEF TimerInv, OnTime
  <2> QED
    BY <2>1, <2>2, <2>3, Zenon DEF TimerInv, EarlyOnlyIfWrapped
<1> QED
  BY <1>1, <1>2, <1>InterruptInv, <1>SleepInv, <1>CheckInv, Zenon DEF Next

(* sys_sleep(ms) blocks for at least ms ticks of the timer, or the 32-bit  *)
(* sum of the counter and ms has wrapped.                                  *)
THEOREM SleepsLongEnough ==
  ASSUME Constants
  PROVE  Spec => []EarlyOnlyIfWrapped
<1>1. Init => TimerInv
  BY TimerInitInv, Zenon
<1>2. TimerInv /\ [Next]_vars => TimerInv'
  BY TimerNextInv, Zenon
<1>3. TimerInv => EarlyOnlyIfWrapped
  BY Zenon DEF TimerInv
<1> QED
  BY <1>1, <1>2, <1>3, PTL DEF Spec

-----------------------------------------------------------------------------
(* The state is well formed; every buffer is in the LRU list. *)
CacheTypeOK ==
  /\ valid \subseteq Bufs /\ dirty \subseteq valid /\ busy \subseteq valid
  /\ blockno \in [Bufs -> Blocks \cup {0}]
  /\ data \in [Bufs -> Contents]
  /\ disk \in [Blocks -> Contents] /\ store \in [Blocks -> Contents]
  /\ held \subseteq Blocks /\ hurt \subseteq Blocks
  /\ holder \in [Blocks -> Bufs \cup {0}]

(* The two lists: every buffer is in the LRU list. *)
Lists ==
  /\ chain \in [Buckets -> Seq(Bufs)]
  /\ lru \in Seq(Bufs) /\ Bufs \subseteq Range(lru)

(* A valid buffer has a block, and no other valid buffer has it. *)
Numbered ==
  /\ \A c \in valid : blockno[c] \in Blocks
  /\ \A c, e \in valid : blockno[c] = blockno[e] => c = e

(* A chain holds the valid buffers that hash to it, each of them once. *)
Chained ==
  \A h \in Buckets :
    /\ IsInjective(chain[h])
    /\ Range(chain[h]) = {c \in valid : HashOf[blockno[c]] = h}

(* The buffer of a held block is busy, and has that block. *)
Held == \A b \in held : holder[b] \in busy /\ blockno[holder[b]] = b

(* A buffer has what was last stored in its block. *)
Fresh ==
  \A c \in valid : blockno[c] \notin hurt => data[c] = store[blockno[c]]

(* The medium has it too, unless there is a dirty buffer for the block. *)
Stored ==
  \A b \in Blocks \ hurt : disk[b] = store[b] \/ \E c \in dirty : blockno[c] = b

CacheInv == CacheTypeOK /\ Lists /\ Numbered /\ Chained /\ Held /\ Fresh /\ Stored

-----------------------------------------------------------------------------
(* Every non-empty set of natural numbers has a least element. *)
LEMMA LeastElement ==
  ASSUME NEW S \in SUBSET Nat, S # {}
  PROVE  \E m \in S : \A k \in S : m <= k
<1>1. PICK m \in S : \A k \in S : ~(<<k, m>> \in OpToRel(<, Nat))
  BY Zenon, WFMin, NatLessThanWellFounded
<1>2. \A k \in S : k \in Nat /\ m \in Nat /\ ~(k < m)
  BY <1>1, Zenon DEF OpToRel
<1> QED
  BY <1>2

-----------------------------------------------------------------------------
(* _hash_lookup finds the one valid buffer of a block, if there is one. *)
LEMMA LookupFacts ==
  ASSUME CacheConstants, CacheTypeOK, Lists, Chained, NEW b \in Blocks
  PROVE  \/ Lookup(b) = 0 /\ \A c \in valid : blockno[c] # b
         \/ Lookup(b) \in valid /\ blockno[Lookup(b)] = b
<1> DEFINE h == HashOf[b]
           q == chain[h]
           where == {i \in DOMAIN q : blockno[q[i]] = b}
<1>1. h \in Buckets /\ q \in Seq(Bufs)
  BY Zenon DEF CacheConstants, Lists
<1>2. Range(q) = {c \in valid : HashOf[blockno[c]] = h}
  BY <1>1, Zenon DEF Chained
<1>3. Lookup(b) = IF where = {} THEN 0 ELSE q[CHOOSE i \in where : \A j \in where : i <= j]
  BY Zenon DEF Lookup
<1>4. CASE where = {}
  <2>1. ASSUME NEW c \in valid, blockno[c] = b
        PROVE  FALSE
    <3>1. c \in Range(q)
      BY <2>1, <1>2, Zenon
    <3>2. PICK i \in DOMAIN q : q[i] = c
      BY <3>1, Zenon DEF Range
    <3> QED
      BY <3>2, <2>1, <1>4, Zenon
  <2> QED
    BY <2>1, <1>3, <1>4, Zenon
<1>5. CASE where # {}
  <2>1. where \in SUBSET Nat
    BY <1>1
  <2> HIDE DEF where
  <2>2. \E i \in where : \A j \in where : i <= j
    BY <2>1, <1>5, LeastElement, Zenon
  <2>3. PICK i \in where : Lookup(b) = q[i]
    BY Zenon, <2>2, <1>3, <1>5
  <2>4. i \in DOMAIN q /\ blockno[q[i]] = b
    BY Zenon DEF where
  <2>5. q[i] \in Range(q)
    BY <2>4, Zenon DEF Range
  <2> QED
    BY <2>3, <2>4, <2>5, <1>2, Zenon
<1> QED
  BY <1>4, <1>5, Zenon

-----------------------------------------------------------------------------
(* buf_init leaves an empty cache with every buffer in the LRU list. *)
LEMMA CacheInitInv == CacheConstants /\ CacheInit => CacheInv
<1> SUFFICES ASSUME CacheConstants, CacheInit PROVE CacheInv
  BY Zenon
<1> USE DEF CacheInit
<1>1. CacheTypeOK
  BY Zenon DEF CacheTypeOK
<1>2. Lists
  <2>1. chain \in [Buckets -> Seq(Bufs)]
    OBVIOUS
  <2>2. NBUF \in Nat /\ lru = [i \in 1..NBUF |-> NBUF + 1 - i]
    BY Zenon DEF CacheConstants, Bufs
  <2>3. \A i \in 1..NBUF : NBUF + 1 - i \in 1..NBUF
    BY <2>2
  <2>4. lru \in [1..NBUF -> Bufs]
    BY <2>2, <2>3, Zenon DEF Bufs
  <2>5. lru \in Seq(Bufs)
    BY <2>4, <2>2
  <2>6. ASSUME NEW c \in Bufs
        PROVE  c \in Range(lru)
    <3>1. NBUF + 1 - c \in 1..NBUF /\ NBUF + 1 - (NBUF + 1 - c) = c
      BY <2>2 DEF Bufs
    <3>2. lru[NBUF + 1 - c] = c /\ DOMAIN lru = 1..NBUF
      BY <3>1, <2>2, Zenon
    <3> QED
      BY <3>1, <3>2, Zenon DEF Range
  <2> QED
    BY <2>1, <2>5, <2>6, Zenon DEF Lists
<1>3. Numbered /\ Held /\ Fresh /\ Stored
  BY Zenon DEF Numbered, Held, Fresh, Stored
<1>4. Chained
  <2>1. \A h \in Buckets : chain[h] = <<>>
    BY Zenon
  <2>2. DOMAIN <<>> = {}
    OBVIOUS
  <2> QED
    BY <2>1, <2>2, Zenon DEF Chained, Range, IsInjective
<1> QED
  BY <1>1, <1>2, <1>3, <1>4, Zenon DEF CacheInv

(* Every step of the buffer cache keeps its invariant. *)
LEMMA CacheNextInv == CacheConstants /\ CacheInv /\ [CacheNext]_cacheVars => CacheInv'
(* Every non-empty set of places of a list has a last one. *)
<1>LastPlace.
    ASSUME NEW n \in Nat, NEW S \in SUBSET (1..n), S # {}
    PROVE  \E m \in S : \A k \in S : m >= k
  <2> USE <1>LastPlace
  <2> DEFINE R == {n - i : i \in S}
  <2>1. \A i \in S : i \in Nat /\ n - i \in Nat
    OBVIOUS
  <2>2. R \in SUBSET Nat /\ R # {}
    BY Zenon, <2>1
  <2>3. PICK r \in R : \A k \in R : r <= k
    <3> HIDE DEF R
    <3> QED
      BY <2>2, LeastElement, Zenon
  <2>4. PICK m \in S : r = n - m
    BY Zenon
  <2>5. \A k \in S : n - m <= n - k
    BY <2>3, <2>4, Zenon
  <2> QED
    BY <2>1, <2>5
(* Unlinking a node takes that node from the list and leaves the others. *)
<1>WithoutFacts.
    ASSUME NEW T, NEW q \in Seq(T), NEW c
    PROVE  /\ Without(q, c) \in Seq(T)
           /\ Range(q) \ {c} \subseteq Range(Without(q, c))
           /\ IsInjective(q) => /\ IsInjective(Without(q, c))
                                /\ Range(Without(q, c)) = Range(q) \ {c}
  <2> USE <1>WithoutFacts
  <2>1. CASE ~\E i \in DOMAIN q : q[i] = c
    BY <2>1, Zenon DEF Without, Range
  <2>2. CASE \E i \in DOMAIN q : q[i] = c
    <3> DEFINE i == CHOOSE i \in DOMAIN q : q[i] = c
               r == [j \in 1..(Len(q) - 1) |-> IF j < i THEN q[j] ELSE q[j + 1]]
    <3>1. i \in 1..Len(q) /\ q[i] = c
      BY <2>2
    <3>2. Without(q, c) = r
      BY <2>2, Zenon DEF Without
    <3>3. /\ r \in Seq(T) /\ Len(r) = Len(q) - 1
          /\ \A j \in 1..(Len(q) - 1) : r[j] = IF j < i THEN q[j] ELSE q[j + 1]
      <4> HIDE DEF i
      <4>1. PICK n \in Nat : n = Len(q) - 1
        BY <3>1
      <4>2. \A j \in 1..n : q[j] \in T /\ q[j + 1] \in T
        BY <4>1
      <4>3. r = [j \in 1..n |-> IF j < i THEN q[j] ELSE q[j + 1]]
        BY <4>1, Zenon
      <4>4. r \in Seq(T) /\ Len(r) = n
        <5>1. \A j \in 1..n : (IF j < i THEN q[j] ELSE q[j + 1]) \in T
          BY <4>2, Zenon
        <5> HIDE DEF r
        <5>2. r \in [1..n -> T]
          BY <5>1, <4>3, Zenon
        <5> QED
          BY <5>2
      <4> QED
        BY <4>1, <4>3, <4>4, Zenon
    <3> HIDE DEF i, r
    <3>4. ASSUME NEW e \in Range(q) \ {c}
          PROVE  e \in Range(r)
      <4>1. PICK k \in 1..Len(q) : q[k] = e
        BY DEF Range
      <4>2. CASE k < i
        BY <4>1, <4>2, <3>1, <3>3 DEF Range
      <4>3. CASE k > i
        <5>1. k - 1 \in 1..(Len(q) - 1) /\ ~(k - 1 < i) /\ (k - 1) + 1 = k
          BY <4>3, <3>1
        <5>2. r[k - 1] = e
          BY <5>1, <4>1, <3>3, Zenon
        <5> QED
          BY <5>1, <5>2, <3>3 DEF Range
      <4> QED
        BY <4>1, <4>2, <4>3, <3>1
    <3>5. ASSUME IsInjective(q)
          PROVE  IsInjective(r) /\ Range(r) = Range(q) \ {c}
      <4>1. \A j, k \in 1..Len(q) : q[j] = q[k] => j = k
        BY <3>5 DEF IsInjective
      <4>2. ASSUME NEW j \in 1..(Len(q) - 1), NEW k \in 1..(Len(q) - 1), r[j] = r[k]
            PROVE  j = k
        <5>1. PICK a \in 1..Len(q) : a = IF j < i THEN j ELSE j + 1
          BY <3>1
        <5>2. PICK b \in 1..Len(q) : b = IF k < i THEN k ELSE k + 1
          BY <3>1
        <5>3. q[a] = q[b]
          BY <5>1, <5>2, <4>2, <3>3, Zenon
        <5>4. a = b
          BY <5>3, <4>1, Zenon
        <5> QED
          BY <5>1, <5>2, <5>4, <3>1
      <4>3. IsInjective(r)
        BY <4>2, <3>3 DEF IsInjective
      <4>4. ASSUME NEW j \in 1..(Len(q) - 1)
            PROVE  r[j] \in Range(q) /\ r[j] # c
        <5>1. PICK a \in 1..Len(q) : a = IF j < i THEN j ELSE j + 1
          BY <3>1
        <5>2. r[j] = q[a] /\ a # i
          BY <5>1, <3>3, <3>1
        <5> QED
          BY <5>2, <4>1, <3>1 DEF Range
      <4>5. Range(r) \subseteq Range(q) \ {c}
        BY <4>4, <3>3 DEF Range
      <4> QED
        BY <4>3, <4>5, <3>4, Zenon
    <3> QED
      BY <3>2, <3>3, <3>4, <3>5, Zenon
  <2> QED
    BY <2>1, <2>2, Zenon
(* Inserting a node at the head of a list. *)
<1>FrontFacts.
    ASSUME NEW T, NEW q \in Seq(T), NEW c \in T
    PROVE  /\ <<c>> \o q \in Seq(T)
           /\ Range(<<c>> \o q) = {c} \cup Range(q)
           /\ IsInjective(q) /\ c \notin Range(q) => IsInjective(<<c>> \o q)
  <2> USE <1>FrontFacts
  <2> DEFINE r == <<c>> \o q
  <2>1. r \in Seq(T) /\ Len(r) = Len(q) + 1
    OBVIOUS
  <2>2. r[1] = c /\ \A j \in 1..Len(q) : r[j + 1] = q[j]
    OBVIOUS
  <2> HIDE DEF r
  <2>3. \A k \in 1..Len(r) : k = 1 \/ (k - 1 \in 1..Len(q) /\ r[k] = q[k - 1])
    <3> SUFFICES ASSUME NEW k \in 1..Len(r), k # 1
                 PROVE  k - 1 \in 1..Len(q) /\ r[k] = q[k - 1]
      BY Zenon
    <3>1. k - 1 \in 1..Len(q) /\ (k - 1) + 1 = k
      BY <2>1
    <3> QED
      BY <3>1, <2>2, Zenon
  <2>4. Range(r) = {c} \cup Range(q)
    <3>1. Range(r) \subseteq {c} \cup Range(q)
      BY <2>1, <2>2, <2>3 DEF Range
    <3>2. \A j \in 1..Len(q) : j + 1 \in 1..Len(r) /\ 1 \in 1..Len(r)
      BY <2>1
    <3>3. c \in Range(r)
      BY <2>1, <2>2 DEF Range
    <3>4. Range(q) \subseteq Range(r)
      BY <2>1, <2>2, <3>2 DEF Range
    <3> QED
      BY <3>1, <3>3, <3>4, Zenon
  <2>5. ASSUME IsInjective(q), c \notin Range(q)
        PROVE  IsInjective(r)
    <3>1. \A j \in 1..Len(q) : q[j] # c
      BY <2>5 DEF Range
    <3>2. \A j, k \in 1..Len(q) : q[j] = q[k] => j = k
      BY <2>5 DEF IsInjective
    <3>3. ASSUME NEW j \in 1..Len(r), NEW k \in 1..Len(r), r[j] = r[k]
          PROVE  j = k
      <4>1. CASE j = 1
        BY <4>1, <3>3, <3>1, <2>2, <2>3, Zenon
      <4>2. CASE k = 1
        BY <4>2, <3>3, <3>1, <2>2, <2>3, Zenon
      <4>3. CASE j # 1 /\ k # 1
        <5>1. j - 1 \in 1..Len(q) /\ k - 1 \in 1..Len(q) /\ q[j - 1] = q[k - 1]
          BY <4>3, <3>3, <2>3, Zenon
        <5>2. j - 1 = k - 1
          BY <5>1, <3>2, Zenon
        <5> QED
          BY <5>2, <2>1
      <4> QED
        BY <4>1, <4>2, <4>3, Zenon
    <3> QED
      BY <3>3, <2>1 DEF IsInjective
  <2> QED
    BY <2>1, <2>4, <2>5, Zenon DEF r
(* _evict finds a buffer when one is not busy, and takes none that is. *)
<1>VictimFacts.
    ASSUME Lists, Bufs \ busy # {}
    PROVE  Victim \in Bufs \ busy
  <2> USE <1>VictimFacts
  <2>1. ASSUME NEW S \in SUBSET Bufs, S # {}
        PROVE  LastIn(S) \in S
    <3> DEFINE where == {i \in DOMAIN lru : lru[i] \in S}
    <3>1. PICK n \in Nat : n = Len(lru) /\ DOMAIN lru = 1..n
      BY DEF Lists
    <3>2. where # {} /\ where \in SUBSET (1..n)
      BY <2>1, <3>1 DEF Lists, Range
    <3>3. LastIn(S) = lru[CHOOSE i \in where : \A j \in where : i >= j]
      BY Zenon DEF LastIn
    <3>4. \A i \in where : lru[i] \in S
      BY Zenon
    <3> HIDE DEF where
    <3>5. \E i \in where : \A j \in where : i >= j
      BY Zenon, <3>2, <1>LastPlace
    <3> QED
      BY <3>3, <3>4, <3>5, Zenon
  <2>2. CASE Bufs \ (busy \cup dirty) # {}
    <3>1. Victim = LastIn(Bufs \ (busy \cup dirty))
      BY <2>2, Zenon DEF Victim
    <3> QED
      BY <2>1, <2>2, <3>1, Zenon
  <2>3. CASE Bufs \ (busy \cup dirty) = {}
    <3>1. Victim = LastIn(Bufs \ busy)
      BY <2>3, Zenon DEF Victim
    <3> QED
      BY <2>1, <3>1, Zenon
  <2> QED
    BY <2>2, <2>3, Zenon
(* A buffer that moves to the head of the LRU list pushes none out. *)
<1>ToHeadFacts.
    ASSUME Lists, NEW c \in Bufs
    PROVE  ToHead(c) \in Seq(Bufs) /\ Bufs \subseteq Range(ToHead(c))
  <2> USE <1>ToHeadFacts
  <2> DEFINE q == Without(lru, c)
  <2>1. q \in Seq(Bufs) /\ Range(lru) \ {c} \subseteq Range(q)
    BY <1>WithoutFacts, Zenon DEF Lists
  <2>2. ToHead(c) = <<c>> \o q
    BY Zenon DEF ToHead
  <2> HIDE DEF q
  <2>3. <<c>> \o q \in Seq(Bufs) /\ Range(<<c>> \o q) = {c} \cup Range(q)
    BY <2>1, <1>FrontFacts, Zenon
  <2> QED
    BY <2>1, <2>2, <2>3, Zenon DEF Lists
(* Unhashing and hashing a buffer leaves every chain with the buffers that *)
(* belong there: the block number changes in between.                      *)
<1>RehashedFacts.
    ASSUME CacheConstants, CacheTypeOK, Lists, Numbered, Chained, NEW c \in Bufs, NEW b \in Blocks
    PROVE  /\ Rehashed(c, b) \in [Buckets -> Seq(Bufs)]
           /\ \A h \in Buckets :
                /\ IsInjective(Rehashed(c, b)[h])
                /\ Range(Rehashed(c, b)[h]) =
                     {e \in valid \ {c} : HashOf[blockno[e]] = h}
                     \cup (IF h = HashOf[b] THEN {c} ELSE {})
  <2> USE <1>RehashedFacts
  <2> DEFINE out == IF c \in valid THEN [chain EXCEPT ![HashOf[blockno[c]]] = Without(@, c)]
                    ELSE chain
  <2>1. Rehashed(c, b) = [out EXCEPT ![HashOf[b]] = <<c>> \o @]
    BY Zenon DEF Rehashed
  <2>2. chain \in [Buckets -> Seq(Bufs)] /\ HashOf[b] \in Buckets
    BY Zenon DEF Lists, CacheConstants
  <2>3. /\ out \in [Buckets -> Seq(Bufs)]
        /\ \A h \in Buckets : /\ IsInjective(out[h])
                              /\ Range(out[h]) = {e \in valid \ {c} : HashOf[blockno[e]] = h}
    <3>1. CASE c \notin valid
      <4>1. out = chain
        BY <3>1, Zenon
      <4> QED
        BY <4>1, <3>1, <2>2, Zenon DEF Chained
    <3>2. CASE c \in valid
      <4> DEFINE k == HashOf[blockno[c]]
      <4>1. k \in Buckets
        BY <3>2, Zenon DEF Numbered, CacheConstants
      <4>2. out = [chain EXCEPT ![k] = Without(chain[k], c)]
        BY <3>2, <2>2, <4>1, Zenon
      <4>3. IsInjective(chain[k]) /\ Range(chain[k]) = {e \in valid : HashOf[blockno[e]] = k}
        BY <4>1, Zenon DEF Chained
      <4> HIDE DEF out
      <4>4. /\ Without(chain[k], c) \in Seq(Bufs)
            /\ IsInjective(Without(chain[k], c))
            /\ Range(Without(chain[k], c)) = Range(chain[k]) \ {c}
        <5>1. chain[k] \in Seq(Bufs)
          BY <4>1, <2>2, Zenon
        <5> QED
          BY <5>1, <4>3, <1>WithoutFacts
      <4>5. out \in [Buckets -> Seq(Bufs)]
        BY <4>2, <4>4, <2>2, <4>1, Zenon
      <4>6. out[k] = Without(chain[k], c)
        BY <4>2, <4>1, <2>2, Zenon
      <4>7. ASSUME NEW h \in Buckets
            PROVE  /\ IsInjective(out[h])
                   /\ Range(out[h]) = {e \in valid \ {c} : HashOf[blockno[e]] = h}
        <5>1. CASE h = k
          BY <5>1, <4>6, <4>4, <4>3, Zenon
        <5>2. CASE h # k
          <6>1. out[h] = chain[h]
            BY <5>2, <4>2, <2>2, Zenon
          <6>2. IsInjective(chain[h]) /\ Range(chain[h]) = {e \in valid : HashOf[blockno[e]] = h}
            BY Zenon DEF Chained
          <6> QED
            BY <6>1, <6>2, <5>2, Zenon
        <5> QED
          BY <5>1, <5>2, Zenon
      <4> QED
        BY <4>5, <4>7, Zenon
    <3> QED
      BY Zenon, <3>1, <3>2
  <2> HIDE DEF out
  <2> DEFINE k == HashOf[b]
             r == <<c>> \o out[k]
  <2>4. Rehashed(c, b) = [out EXCEPT ![k] = r]
    BY <2>1, <2>2, <2>3, Zenon
  <2>5. r \in Seq(Bufs) /\ IsInjective(r) /\ Range(r) = {c} \cup Range(out[k])
    <3>1. out[k] \in Seq(Bufs) /\ IsInjective(out[k]) /\ c \notin Range(out[k])
      BY <2>2, <2>3, Zenon
    <3> QED
      BY <3>1, <1>FrontFacts, Zenon
  <2>6. k \in Buckets
    BY <2>2, Zenon
  <2> HIDE DEF r, k
  <2>7. Rehashed(c, b) \in [Buckets -> Seq(Bufs)]
    BY Zenon, <2>4, <2>5, <2>3
  <2>8. ASSUME NEW h \in Buckets
        PROVE  /\ IsInjective(Rehashed(c, b)[h])
               /\ Range(Rehashed(c, b)[h]) =
                    {e \in valid \ {c} : HashOf[blockno[e]] = h}
                    \cup (IF h = k THEN {c} ELSE {})
    <3>1. CASE h = k
      <4>1. Rehashed(c, b)[h] = r
        BY <3>1, <2>4, <2>3, Zenon
      <4>2. Range(out[k]) = {e \in valid \ {c} : HashOf[blockno[e]] = k}
        BY <2>3, <2>6, Zenon
      <4> QED
        BY <3>1, <4>1, <4>2, <2>5, Zenon
    <3>2. CASE h # k
      <4>1. Rehashed(c, b)[h] = out[h]
        BY <3>2, <2>4, <2>3, Zenon
      <4> QED
        BY <3>2, <4>1, <2>3, Zenon
    <3> QED
      BY <3>1, <3>2, Zenon
  <2> QED
    BY <2>7, <2>8, Zenon DEF k
(* bread of a block that has a buffer. *)
<1>BreadHitInv.
    ASSUME CacheConstants, CacheInv, NEW b \in Blocks, BreadHit(b)
    PROVE  CacheInv'
  <2> USE <1>BreadHitInv
  <2> DEFINE c == Lookup(b)
  <2> USE DEF CacheInv
  <2>1. c \in valid /\ blockno[c] = b /\ c \in Bufs
    BY LookupFacts, Zenon DEF BreadHit, CacheTypeOK
  <2>2. /\ lru' = ToHead(c) /\ busy' = busy \cup {c}
        /\ held' = held \cup {b} /\ holder' = [holder EXCEPT ![b] = c]
        /\ UNCHANGED <<valid, dirty, blockno, data, chain, disk, store, hurt>>
    BY Zenon DEF BreadHit
  <2> HIDE DEF c
  <2>3. CacheTypeOK'
    BY <2>1, <2>2, Zenon DEF CacheTypeOK
  <2>4. Lists'
    BY <2>1, <2>2, <1>ToHeadFacts, Zenon DEF Lists
  <2>5. Numbered' /\ Chained' /\ Fresh' /\ Stored'
    BY <2>2, Zenon DEF Numbered, Chained, Fresh, Stored
  <2>6. Held'
    BY <2>1, <2>2, Zenon DEF Held, CacheTypeOK
  <2> QED
    BY <2>3, <2>4, <2>5, <2>6, Zenon
(* bread of a block that has none: the block the victim had is on the      *)
(* medium, or was hurt; the buffer has what the medium has.                *)
<1>BreadMissInv.
    ASSUME CacheConstants, CacheInv, NEW b \in Blocks, BreadMiss(b)
    PROVE  CacheInv'
  <2> USE <1>BreadMissInv
  <2> DEFINE c == Victim
  <2> USE DEF CacheInv
  <2>1. c \in Bufs /\ c \notin busy
    BY <1>VictimFacts, Zenon DEF BreadMiss
  <2>2. \A e \in valid : blockno[e] # b
    BY LookupFacts DEF BreadMiss, CacheTypeOK, Bufs
  <2>3. PICK wrote \in BOOLEAN, got \in BOOLEAN :
          /\ disk' = IF c \in dirty /\ wrote THEN [disk EXCEPT ![blockno[c]] = data[c]] ELSE disk
          /\ data' = IF got THEN [data EXCEPT ![c] = disk'[b]] ELSE data
          /\ hurt' = hurt \cup (IF c \in dirty /\ ~wrote THEN {blockno[c]} ELSE {})
                          \cup (IF got THEN {} ELSE {b})
    BY Zenon DEF BreadMiss
  <2>4. /\ chain' = Rehashed(c, b)
        /\ blockno' = [blockno EXCEPT ![c] = b]
        /\ valid' = valid \cup {c} /\ dirty' = dirty \ {c} /\ busy' = busy \cup {c}
        /\ lru' = ToHead(c)
        /\ held' = held \cup {b} /\ holder' = [holder EXCEPT ![b] = c]
        /\ store' = store
    BY Zenon DEF BreadMiss
  <2> HIDE DEF c
  <2>5. /\ blockno'[c] = b
        /\ \A e \in Bufs \ {c} : blockno'[e] = blockno[e] /\ data'[e] = data[e]
    BY <2>1, <2>3, <2>4, Zenon DEF CacheTypeOK
  <2>6. c \in dirty => c \in valid /\ blockno[c] \in Blocks /\ blockno[c] # b
    BY <2>2, Zenon DEF CacheTypeOK, Numbered
  <2>7. disk' \in [Blocks -> Contents] /\ disk'[b] = disk[b]
    BY <2>1, <2>3, <2>6, Zenon DEF CacheTypeOK
  <2>8. CacheTypeOK'
    <3>1. data' \in [Bufs -> Contents]
      BY <2>1, <2>3, <2>7, Zenon DEF CacheTypeOK
    <3>2. hurt' \subseteq Blocks
      BY <2>3, <2>6, Zenon DEF CacheTypeOK
    <3>3. blockno' \in [Bufs -> Blocks \cup {0}] /\ holder' \in [Blocks -> Bufs \cup {0}]
      BY <2>1, <2>4, Zenon DEF CacheTypeOK
    <3> QED
      BY <3>1, <3>2, <3>3, <2>1, <2>4, <2>7, Zenon DEF CacheTypeOK
  <2>9. Lists'
    BY <2>1, <2>4, <1>ToHeadFacts, <1>RehashedFacts, Zenon DEF Lists
  <2>10. Numbered'
    <3>1. \A e \in valid' : e = c \/ (e \in valid /\ e \in Bufs \ {c})
      BY <2>4, Zenon DEF CacheTypeOK
    <3> QED
      BY <3>1, <2>2, <2>5, Zenon DEF Numbered
  <2>11. Chained'
    <3> SUFFICES ASSUME NEW h \in Buckets
                 PROVE  /\ IsInjective(chain'[h])
                        /\ Range(chain'[h]) = {e \in valid' : HashOf[blockno'[e]] = h}
      BY Zenon DEF Chained
    <3>1. /\ IsInjective(chain'[h])
          /\ Range(chain'[h]) = {e \in valid \ {c} : HashOf[blockno[e]] = h}
                                \cup (IF h = HashOf[b] THEN {c} ELSE {})
      BY <2>1, <2>4, <1>RehashedFacts
    <3>2. valid' = (valid \ {c}) \cup {c}
      BY <2>4, Zenon
    <3>3. \A e \in valid \ {c} : blockno'[e] = blockno[e]
      BY <2>5, Zenon DEF CacheTypeOK
    <3>4. \A e : e \in Range(chain'[h]) <=> e \in {d \in valid' : HashOf[blockno'[d]] = h}
      BY Zenon, <3>1, <3>2, <3>3, <2>5
    <3> QED
      BY Zenon, <3>1, <3>4
  <2>12. Held'
    <3>1. ASSUME NEW d \in held
          PROVE  d # b /\ holder'[d] = holder[d] /\ holder[d] \in busy /\ blockno'[holder[d]] = d
      <4>1. holder[d] \in busy /\ blockno[holder[d]] = d /\ holder[d] \in valid /\ holder[d] \in Bufs
        BY Zenon DEF Held, CacheTypeOK
      <4>2. d # b /\ holder[d] # c
        BY <4>1, <2>1, <2>2, Zenon
      <4>3. holder'[d] = holder[d]
        BY <4>2, <2>4, Zenon DEF CacheTypeOK
      <4> QED
        BY Zenon, <4>1, <4>2, <4>3, <2>5
    <3>2. holder'[b] = c
      BY <2>4, Zenon DEF CacheTypeOK
    <3> QED
      BY <3>1, <3>2, <2>4, <2>5, Zenon DEF Held
  <2>13. b \notin hurt => disk[b] = store[b]
    <3>1. \A e \in dirty : blockno[e] # b
      BY <2>2, Zenon DEF CacheTypeOK
    <3> QED
      BY <3>1, Zenon DEF Stored
  <2>14. hurt \subseteq hurt'
    BY <2>3, Zenon
  <2>15. Fresh'
    <3> SUFFICES ASSUME NEW e \in valid', blockno'[e] \notin hurt'
                 PROVE  data'[e] = store'[blockno'[e]]
      BY Zenon DEF Fresh
    <3>1. CASE e = c
      <4>1. got /\ b \notin hurt
        BY <3>1, <2>3, <2>5, <2>14, Zenon
      <4>2. data'[c] = disk[b]
        BY <4>1, <2>1, <2>3, <2>7, Zenon DEF CacheTypeOK
      <4> QED
        BY <3>1, <4>1, <4>2, <2>4, <2>5, <2>13, Zenon
    <3>2. CASE e # c
      <4>1. e \in valid /\ e \in Bufs \ {c}
        BY <3>2, <2>4, Zenon DEF CacheTypeOK
      <4>2. blockno'[e] = blockno[e] /\ data'[e] = data[e] /\ blockno[e] \notin hurt
        BY Zenon, <4>1, <2>5, <2>14
      <4> QED
        BY <4>1, <4>2, <2>4, Zenon DEF Fresh
    <3> QED
      BY <3>1, <3>2, Zenon
  <2>16. Stored'
    <3> SUFFICES ASSUME NEW d \in Blocks \ hurt'
                 PROVE  disk'[d] = store'[d] \/ \E e \in dirty' : blockno'[e] = d
      BY Zenon DEF Stored
    <3>1. d \in Blocks \ hurt /\ store'[d] = store[d]
      BY <2>4, <2>14, Zenon
    <3>2. CASE c \in dirty /\ d = blockno[c]
      <4>1. wrote
        BY <3>2, <2>3, Zenon
      <4>2. disk'[d] = data[c]
        BY <4>1, <3>2, <2>3, Zenon DEF CacheTypeOK
      <4>3. data[c] = store[d]
        BY <3>1, <3>2, <2>6, Zenon DEF Fresh
      <4> QED
        BY <4>2, <4>3, <3>1, Zenon
    <3>3. CASE ~(c \in dirty /\ d = blockno[c])
      <4>1. disk'[d] = disk[d]
        BY <3>3, <2>3, Zenon DEF CacheTypeOK
      <4>2. CASE disk[d] = store[d]
        BY <4>1, <4>2, <3>1, Zenon
      <4>3. CASE disk[d] # store[d]
        <5>1. PICK e \in dirty : blockno[e] = d
          BY <4>3, <3>1, Zenon DEF Stored
        <5>2. e # c /\ e \in Bufs \ {c}
          BY <5>1, <3>3, Zenon DEF CacheTypeOK
        <5>3. blockno'[e] = d /\ e \in dirty'
          BY Zenon, <5>1, <5>2, <2>4, <2>5
        <5> QED
          BY <5>3, Zenon
      <4> QED
        BY <4>2, <4>3, Zenon
    <3> QED
      BY <3>2, <3>3, Zenon
  <2> QED
    BY <2>8, <2>9, <2>10, <2>11, <2>12, <2>15, <2>16, Zenon
(* A change of a held block makes its buffer dirty. *)
<1>ModifyInv.
    ASSUME CacheConstants, CacheInv, NEW b \in Blocks, NEW v \in Contents, Modify(b, v)
    PROVE  CacheInv'
  <2> USE <1>ModifyInv
  <2> DEFINE c == holder[b]
  <2> USE DEF CacheInv
  <2>1. b \in held /\ c \in busy /\ c \in valid /\ c \in Bufs /\ blockno[c] = b
    BY Zenon DEF Modify, Held, CacheTypeOK
  <2>2. /\ data' = [data EXCEPT ![c] = v] /\ dirty' = dirty \cup {c}
        /\ store' = [store EXCEPT ![b] = v]
        /\ UNCHANGED <<valid, busy, blockno, chain, lru, disk, held, holder, hurt>>
    BY Zenon DEF Modify
  <2>3. Lists' /\ Numbered' /\ Chained' /\ Held'
    BY <2>2, Zenon DEF Lists, Numbered, Chained, Held
  <2> HIDE DEF c
  <2>4. CacheTypeOK'
    BY <2>1, <2>2, Zenon DEF CacheTypeOK
  <2>5. /\ data'[c] = v /\ \A e \in Bufs \ {c} : data'[e] = data[e]
        /\ store'[b] = v /\ \A d \in Blocks \ {b} : store'[d] = store[d]
    BY <2>1, <2>2, Zenon DEF CacheTypeOK
  <2>6. Fresh'
    <3> SUFFICES ASSUME NEW e \in valid, blockno[e] \notin hurt
                 PROVE  data'[e] = store'[blockno[e]]
      BY <2>2, Zenon DEF Fresh
    <3>1. CASE e = c
      BY Zenon, <3>1, <2>1, <2>5
    <3>2. CASE e # c
      <4>1. e \in Bufs \ {c} /\ blockno[e] \in Blocks \ {b}
        BY <3>2, <2>1, Zenon DEF CacheTypeOK, Numbered
      <4> QED
        BY <4>1, <2>5, Zenon DEF Fresh
    <3> QED
      BY <3>1, <3>2, Zenon
  <2>7. Stored'
    <3> SUFFICES ASSUME NEW d \in Blocks \ hurt
                 PROVE  disk[d] = store'[d] \/ \E e \in dirty' : blockno[e] = d
      BY <2>2, Zenon DEF Stored
    <3>1. CASE d = b
      BY <3>1, <2>1, <2>2, Zenon
    <3>2. CASE d # b
      <4>1. store'[d] = store[d]
        BY <3>2, <2>5, Zenon
      <4> QED
        BY <4>1, <2>2, Zenon DEF Stored
    <3> QED
      BY <3>1, <3>2, Zenon
  <2> QED
    BY <2>3, <2>4, <2>6, <2>7, Zenon
(* bwrite: the buffer that loses B_DIRTY is on the medium. *)
<1>BwriteInv.
    ASSUME CacheConstants, CacheInv, NEW b \in Blocks, Bwrite(b)
    PROVE  CacheInv'
  <2> USE <1>BwriteInv
  <2> DEFINE c == holder[b]
  <2> USE DEF CacheInv
  <2>1. c \in dirty /\ c \in valid /\ c \in Bufs /\ blockno[c] = b
    BY Zenon DEF Bwrite, Held, CacheTypeOK
  <2>2. /\ disk' = [disk EXCEPT ![b] = data[c]] /\ dirty' = dirty \ {c}
        /\ UNCHANGED <<valid, busy, blockno, data, chain, lru, held, holder, store, hurt>>
    BY <2>1, Zenon DEF Bwrite
  <2>3. Lists' /\ Numbered' /\ Chained' /\ Held' /\ Fresh'
    BY <2>2, Zenon DEF Lists, Numbered, Chained, Held, Fresh
  <2> HIDE DEF c
  <2>4. CacheTypeOK'
    BY <2>1, <2>2, Zenon DEF CacheTypeOK
  <2>5. Stored'
    <3> SUFFICES ASSUME NEW d \in Blocks \ hurt
                 PROVE  disk'[d] = store[d] \/ \E e \in dirty' : blockno[e] = d
      BY <2>2, Zenon DEF Stored
    <3>1. CASE d = b
      <4>1. disk'[d] = data[c]
        BY <3>1, <2>2, Zenon DEF CacheTypeOK
      <4> QED
        BY <3>1, <4>1, <2>1, Zenon DEF Fresh
    <3>2. CASE d # b
      <4>1. disk'[d] = disk[d]
        BY <3>2, <2>2, Zenon DEF CacheTypeOK
      <4>2. \A e \in dirty : blockno[e] = d => e \in dirty'
        BY <3>2, <2>1, <2>2, Zenon
      <4> QED
        BY <4>1, <4>2, Zenon DEF Stored
    <3> QED
      BY Zenon, <3>1, <3>2
  <2> QED
    BY <2>3, <2>4, <2>5, Zenon
(* brelse: the buffer that loses B_BUSY is no other caller's. *)
<1>BrelseInv.
    ASSUME CacheConstants, CacheInv, NEW b \in Blocks, Brelse(b)
    PROVE  CacheInv'
  <2> USE <1>BrelseInv
  <2> USE DEF CacheInv
  <2>1. /\ b \in held /\ busy' = busy \ {holder[b]} /\ held' = held \ {b}
        /\ UNCHANGED <<valid, dirty, blockno, data, chain, lru, disk, holder, store, hurt>>
    BY Zenon DEF Brelse
  <2>2. Lists' /\ Numbered' /\ Chained' /\ Fresh' /\ Stored'
    BY <2>1, Zenon DEF Lists, Numbered, Chained, Fresh, Stored
  <2>3. CacheTypeOK'
    BY <2>1, Zenon DEF CacheTypeOK
  <2>4. Held'
    BY <2>1, Zenon DEF Held
  <2> QED
    BY <2>2, <2>3, <2>4, Zenon
<1> SUFFICES ASSUME CacheConstants, CacheInv, [CacheNext]_cacheVars PROVE CacheInv'
  BY Zenon
<1>1. ASSUME NEW b \in Blocks, BreadHit(b) PROVE CacheInv'
  BY <1>1, <1>BreadHitInv, Zenon
<1>2. ASSUME NEW b \in Blocks, BreadMiss(b) PROVE CacheInv'
  BY <1>2, <1>BreadMissInv, Zenon
<1>3. ASSUME NEW b \in Blocks, Bwrite(b) PROVE CacheInv'
  BY <1>3, <1>BwriteInv, Zenon
<1>4. ASSUME NEW b \in Blocks, Brelse(b) PROVE CacheInv'
  BY <1>4, <1>BrelseInv, Zenon
<1>5. ASSUME NEW b \in Blocks, NEW v \in Contents, Modify(b, v) PROVE CacheInv'
  BY <1>5, <1>ModifyInv, Zenon
<1>6. CASE UNCHANGED cacheVars
  BY <1>6, Zenon DEF cacheVars, CacheInv, CacheTypeOK, Lists, Numbered, Chained, Held, Fresh, Stored
<1> QED
  BY <1>1, <1>2, <1>3, <1>4, <1>5, <1>6, Zenon DEF CacheNext

(* The lists, the flags and the contents of the buffers agree with the     *)
(* medium and with what was stored, at every call boundary of the cache.   *)
THEOREM CacheInvariance == ASSUME CacheConstants PROVE CacheSpec => []CacheInv
<1>1. CacheInit => CacheInv
  BY CacheInitInv, Zenon
<1>2. CacheInv /\ [CacheNext]_cacheVars => CacheInv'
  BY CacheNextInv, Zenon
<1> QED
  BY <1>1, <1>2, PTL DEF CacheSpec

(* bread returns what was last stored in a block, for every block the      *)
(* device has not failed for: _evict, bwrite and the two lists never bring *)
(* an older value back.                                                    *)
THEOREM CoherenceCorrect == ASSUME CacheConstants PROVE CacheSpec => []Coherent
<1>1. CacheInv => Coherent
  <2> SUFFICES ASSUME CacheInv, NEW b \in Blocks \ hurt PROVE View(b) = store[b]
    BY Zenon DEF Coherent
  <2> USE DEF CacheInv
  <2>1. CASE Lookup(b) = 0
    <3>1. \A c \in valid : blockno[c] # b
      BY <2>1, LookupFacts DEF CacheTypeOK, Bufs
    <3>2. disk[b] = store[b]
      BY <3>1, Zenon DEF Stored, CacheTypeOK
    <3> QED
      BY <2>1, <3>2, Zenon DEF View
  <2>2. CASE Lookup(b) # 0
    <3>1. Lookup(b) \in valid /\ blockno[Lookup(b)] = b
      BY <2>2, LookupFacts, Zenon
    <3>2. data[Lookup(b)] = store[b]
      BY <3>1, Zenon DEF Fresh
    <3> QED
      BY <2>2, <3>2, Zenon DEF View
  <2> QED
    BY <2>1, <2>2, Zenon
<1> QED
  BY <1>1, CacheInvariance, PTL

(* No two buffers have the same block, a chain holds exactly its valid     *)
(* buffers, a held buffer stays with its caller, and a block that is not   *)
(* on the medium has a dirty buffer: bread, _evict, bwrite and brelse,     *)
(* whatever fails.                                                         *)
THEOREM BuffersCorrect == ASSUME CacheConstants PROVE CacheSpec => []BuffersSound
<1>1. CacheInv => BuffersSound
  <2> SUFFICES ASSUME CacheInv PROVE BuffersSound
    BY Zenon
  <2> USE DEF CacheInv
  <2>1. OneBufferPerBlock
    BY Zenon DEF OneBufferPerBlock, Chained, Numbered
  <2>2. HeldBuffersStay
    BY Zenon DEF HeldBuffersStay, Held, CacheTypeOK
  <2>3. UnwrittenStaysDirty
    BY Zenon DEF UnwrittenStaysDirty, Stored
  <2> QED
    BY <2>1, <2>2, <2>3, Zenon DEF BuffersSound
<1> QED
  BY <1>1, CacheInvariance, PTL

-----------------------------------------------------------------------------
(* The disk: blk_rw, the driver and the drive. *)

DiskTypeOK ==
  /\ pc \in {"idle", "timeout", "wait_drq"} /\ polls \in Nat
  /\ write \in BOOLEAN /\ lba \in Nat /\ count \in Nat /\ s \in Nat
  /\ buf \in Seq(Data) /\ status \in {"none", "OK", "IO", "RANGE"}
  /\ req \in [write : BOOLEAN, lba : Nat, buf : Seq(Data)]
  /\ bsy \in BOOLEAN /\ drq \in BOOLEAN /\ err \in BOOLEAN /\ moved \in BOOLEAN
  /\ dropped \in BOOLEAN /\ next \in Nat /\ left \in Nat
  /\ latch = None \/ \E d \in Data : latch = <<d>>
  /\ medium \in [0..(Sectors - 1) -> Data]

(* A request is in progress or has succeeded, and this many of its sectors *)
(* have passed through the data port.                                      *)
Active == pc # "idle" \/ status = "OK"
Done == Len(buf) - count + s

(* What the driver has still to do is the rest of the request.             *)
Request ==
  Active =>
    /\ write = req.write /\ Len(buf) = Len(req.buf) /\ count <= Len(buf)
    /\ lba = req.lba + Len(buf) - count /\ req.lba + Len(buf) <= Sectors
    /\ write => buf = req.buf
    /\ IF pc = "idle" THEN count = 0 /\ s = 0 ELSE count > 0 /\ s < Chunk
    /\ pc = "timeout" => s = 0

(* The states of the drive, and that it never runs off its end.            *)
Drive ==
  /\ next + left <= Sectors
  /\ moved => bsy /\ left > 0
  /\ latch # None => moved
  /\ drq => ~bsy /\ ~err
  /\ err => ~bsy

(* During a command driver and drive agree on the next sector.             *)
InStep ==
  pc = "wait_drq" /\ ~err =>
    LET n == IF moved THEN 1 ELSE 0
    IN next + n = lba + s /\ left - n = Chunk - s

(* The latch holds the last sector of a write, or nothing; only before the *)
(* first command may it hold a sector of an earlier request.               *)
Latched ==
  /\ pc = "wait_drq" /\ Done = 0 => latch = None
  /\ Active /\ Done > 0 /\ latch # None =>
       write /\ latch = <<req.buf[Done]>> /\ next = req.lba + Done - 1

(* The sectors that have moved are in their places.                        *)
Moved ==
  Active => \A i \in 1..Done :
    IF write
    THEN dropped \/ (i = Done /\ latch # None) \/ medium[req.lba + i - 1] = req.buf[i]
    ELSE buf[i] = medium[req.lba + i - 1]

DiskInv == DiskTypeOK /\ Request /\ Drive /\ InStep /\ Latched /\ Moved
-----------------------------------------------------------------------------
(* The disk's invariant holds before the first transfer. *)
LEMMA DiskInitInv ==
  ASSUME DiskConstants, DiskInit
  PROVE  DiskInv
<1>1. /\ pc = "idle" /\ status = "none" /\ buf = <<>> /\ Len(<<>>) = 0 /\ <<>> \in Seq(Data)
      /\ write = FALSE /\ lba = 0 /\ count = 0 /\ s = 0 /\ polls = 0
      /\ req = [write |-> FALSE, lba |-> 0, buf |-> <<>>]
  BY DEF DiskInit
<1>2. /\ bsy = FALSE /\ drq = FALSE /\ err = FALSE /\ next = 0 /\ left = 0
      /\ moved = FALSE /\ latch = None /\ dropped = FALSE
      /\ medium \in [0..(Sectors - 1) -> Data] /\ Sectors \in Nat
  BY Zenon DEF DiskInit, DiskConstants
<1>3. DiskTypeOK
  <2>1. req \in [write : BOOLEAN, lba : Nat, buf : Seq(Data)]
    BY <1>1, Zenon
  <2> QED
    BY <1>1, <1>2, <2>1, Zenon DEF DiskTypeOK
<1>4. ~Active
  BY <1>1, Zenon DEF Active
<1>5. Drive
  BY <1>2 DEF Drive
<1> QED
  BY <1>1, <1>3, <1>4, <1>5, Zenon DEF DiskInv, Request, InStep, Latched, Moved

(* Every step of the disk keeps its invariant. *)
LEMMA DiskNextInv ==
  DiskConstants /\ DiskInv /\ [DiskNext]_diskVars => DiskInv'
(* The last command is as long as what is left, the others are of MaxChunk *)
(* sectors.                                                                *)
<1>ChunkFacts.
    ASSUME DiskConstants, DiskTypeOK
    PROVE  Chunk \in Nat /\ Chunk <= count /\ (count > 0 => Chunk > 0)
  BY <1>ChunkFacts DEF DiskConstants, DiskTypeOK, Chunk
<1>RequestInv.
    ASSUME DiskConstants, DiskInv, NEW w \in BOOLEAN, NEW l \in 0..(Sectors - 1), NEW b \in Buffers,
           BlkRw(w, l, b)
    PROVE  DiskInv'
  <2> USE <1>RequestInv
  <2>1. b \in Seq(Data) /\ Len(b) \in Nat /\ Len(b) > 0
    BY DEF Buffers, DiskConstants
  <2>2. /\ req' = [write |-> w, lba |-> l, buf |-> b] /\ buf' = b /\ dropped' = FALSE
        /\ req'.write = w /\ req'.lba = l /\ req'.buf = b /\ l \in Nat
        /\ UNCHANGED <<bsy, drq, err, next, left, moved, latch, medium>> /\ pc = "idle"
    BY DEF BlkRw, drive, DiskConstants
  <2>3. DiskTypeOK /\ Drive
    BY Zenon DEF DiskInv
  <2>4. CASE l + Len(b) > Sectors
    <3>1. /\ status' = "RANGE" /\ UNCHANGED <<pc, polls, write, lba, count, s>>
      BY <2>4, Zenon DEF BlkRw
    <3>2. DiskTypeOK'
      BY <2>1, <2>2, <2>3, <3>1, Zenon DEF DiskTypeOK
    <3>3. ~Active' /\ pc' = "idle"
      BY <2>2, <3>1, Zenon DEF Active
    <3> QED
      BY <2>2, <2>3, <3>2, <3>3, Zenon DEF DiskInv, Request, Drive, InStep, Latched, Moved
  <2>5. CASE ~(l + Len(b) > Sectors)
    <3>1. /\ pc' = "timeout" /\ polls' = 0 /\ write' = w /\ lba' = l /\ count' = Len(b) /\ s' = 0
          /\ UNCHANGED status
      BY <2>5, Zenon DEF BlkRw
    <3>2. DiskTypeOK'
      BY <2>1, <2>2, <2>3, <3>1, Zenon DEF DiskTypeOK
    <3>3. Chunk' > 0
      BY <2>1, <3>1 DEF Chunk, DiskConstants
    <3>4. Done' = 0
      BY <2>1, <2>2, <3>1 DEF Done
    <3>5. Request'
      BY <2>1, <2>2, <2>5, <3>1, <3>3 DEF Request, DiskConstants
    <3>6. Drive'
      BY <2>2, <2>3, <3>1, Zenon DEF DiskInv, Drive
    <3>7. InStep'
      BY <3>1, Zenon DEF InStep
    <3>8. Latched'
      BY <3>1, <3>4 DEF Latched
    <3>9. Moved'
      BY <3>4 DEF Moved
    <3> QED
      BY <3>2, <3>5, <3>6, <3>7, <3>8, <3>9, Zenon DEF DiskInv
  <2> QED
    BY <2>4, <2>5, Zenon
(* A request that ends with an error asks for nothing more.                *)
<1>GivenUp.
    ASSUME DiskConstants, DiskInv, Finish("IO"),
           UNCHANGED <<write, lba, count, buf, req, bsy, drq, err, next, left, moved, latch, medium,
                       dropped>>
    PROVE  DiskInv'
  <2> USE <1>GivenUp
  <2>1. pc' = "idle" /\ status' = "IO" /\ polls' = 0 /\ s' = 0
    BY Zenon DEF Finish
  <2>2. DiskTypeOK'
    BY <2>1, Zenon DEF DiskInv, DiskTypeOK
  <2>3. ~Active'
    BY <2>1, Zenon DEF Active
  <2> QED
    BY <2>1, <2>2, <2>3, Zenon DEF DiskInv, Request, Drive, InStep, Latched, Moved
<1>PollInv.
    ASSUME DiskConstants, DiskInv, Poll, pc # "idle"
    PROVE  DiskInv'
  <2> USE <1>PollInv
  <2>1. UNCHANGED <<write, lba, count, buf, req, bsy, drq, err, next, left, moved, latch, medium,
                    dropped>>
    BY Zenon DEF Poll, drive
  <2>2. CASE polls + 1 < MaxPolls
    <3>1. polls' = polls + 1 /\ UNCHANGED <<pc, status, s>>
      BY <2>2, Zenon DEF Poll
    <3>2. DiskTypeOK'
      BY <2>1, <3>1 DEF DiskInv, DiskTypeOK
    <3> QED
      BY <2>1, <3>1, <3>2, Zenon DEF DiskInv, Request, Drive, InStep, Latched, Moved, Active, Done, Chunk
  <2>3. CASE ~(polls + 1 < MaxPolls)
    BY <2>1, <2>3, <1>GivenUp, Zenon DEF Poll
  <2> QED
    BY <2>2, <2>3, Zenon
<1>TimeoutInv.
    ASSUME DiskConstants, DiskInv, Timeout
    PROVE  DiskInv'
  <2> USE <1>TimeoutInv
  <2>1. CASE bsy /\ Poll
    BY <2>1, <1>PollInv, Zenon DEF Timeout
  <2>2. CASE ~bsy /\ ~(bsy /\ Poll)
    <3>1. /\ pc = "timeout" /\ pc' = "wait_drq" /\ polls' = 0 /\ s' = 0
          /\ bsy' = TRUE /\ drq' = FALSE /\ err' = FALSE /\ next' = lba /\ left' = Chunk
          /\ moved' = FALSE /\ latch' = None
          /\ UNCHANGED <<write, lba, count, buf, status, req, medium, dropped>>
      BY <2>2, Zenon DEF Timeout
    <3>2. /\ DiskTypeOK /\ Request /\ Drive /\ Moved /\ s = 0 /\ latch = None
          /\ Chunk \in Nat /\ Chunk <= count /\ Chunk' = Chunk /\ Done' = Done
      BY <2>2, <3>1, <1>ChunkFacts, Zenon DEF DiskInv, Request, Active, Drive, Chunk, Done
    <3>3. /\ count <= Len(buf) /\ lba = req.lba + Len(buf) - count /\ req.lba + Len(buf) <= Sectors
          /\ Len(buf) \in Nat /\ req.lba \in Nat /\ lba \in Nat /\ count \in Nat /\ Sectors \in Nat
      BY <3>1, <3>2 DEF Request, Active, DiskTypeOK, DiskConstants
    <3>4. DiskTypeOK'
      BY <3>1, <3>2, Zenon DEF DiskTypeOK
    <3>5. Request'
      BY <3>1, <3>2, Zenon DEF Request, Active
    <3>6. lba + Chunk <= Sectors
      BY <3>2, <3>3
    <3>7. Drive' /\ InStep' /\ Latched'
      BY <3>1, <3>2, <3>3, <3>6, Zenon DEF Drive, InStep, Latched
    <3>8. Moved'
      BY <3>1, <3>2, Zenon DEF Moved, Active
    <3> QED
      BY <3>4, <3>5, <3>7, <3>8, Zenon DEF DiskInv
  <2> QED
    BY <2>1, <2>2, Zenon DEF Timeout
<1>SectorInv.
    ASSUME DiskConstants, DiskInv, WaitDrq, ~err, drq
    PROVE  DiskInv'
  <2> USE <1>SectorInv
  <2>1. /\ pc = "wait_drq" /\ drq' = FALSE /\ bsy' = TRUE /\ moved' = TRUE
        /\ UNCHANGED <<write, req, err, next, left, medium, dropped>>
        /\ AfterSector
        /\ IF write THEN latch' = <<buf[Index]>> /\ UNCHANGED buf
           ELSE buf' = [buf EXCEPT ![Index] = medium[next]] /\ UNCHANGED latch
    BY Zenon DEF WaitDrq
  <2>2. /\ DiskTypeOK /\ Active /\ ~bsy /\ ~moved /\ latch = None
        /\ Chunk \in Nat /\ Chunk <= count
    BY <2>1, <1>ChunkFacts, Zenon DEF DiskInv, Drive, Active
  <2>3. /\ count <= Len(buf) /\ lba = req.lba + Len(buf) - count /\ req.lba + Len(buf) <= Sectors
        /\ count > 0 /\ s < Chunk /\ next = lba + s /\ left = Chunk - s
    BY <2>1, <2>2 DEF DiskInv, Request, InStep, DiskTypeOK
  <2>4. /\ Len(buf) \in Nat /\ req.lba \in Nat /\ lba \in Nat /\ count \in Nat /\ s \in Nat
        /\ Sectors \in Nat /\ next \in Nat /\ left \in Nat /\ Chunk \in Nat /\ Chunk <= count
    BY <2>2 DEF DiskTypeOK, DiskConstants
  <2>17. PICK L \in Nat, c \in Nat, q \in Nat, k \in Nat, j \in Nat :
            L = Len(buf) /\ c = count /\ q = req.lba /\ k = Chunk /\ j = s
    BY Zenon, <2>4
  <2>21. c <= L /\ q + L <= Sectors /\ c > 0 /\ j < k /\ k <= c
    BY <2>3, <2>4, <2>17, Zenon
  <2>22. Sectors \in Nat
    BY Zenon DEF DiskConstants
  <2>23. lba = q + L - c /\ next = q + L - c + j /\ left = k - j
    BY <2>3, <2>17, Zenon
  <2>14. /\ buf \in Seq(Data) /\ req.buf \in Seq(Data) /\ medium \in [0..(Sectors - 1) -> Data]
         /\ write \in BOOLEAN
    BY <2>2, Zenon DEF DiskTypeOK
  <2>15. /\ write = req.write /\ Len(buf) = Len(req.buf)
         /\ write => buf = req.buf
    BY <2>1, <2>2, Zenon DEF DiskInv, Request
  <2>5. /\ Index = Done + 1 /\ Index \in 1..Len(buf) /\ next = req.lba + Index - 1
        /\ next \in 0..(Sectors - 1) /\ next + left <= Sectors /\ Done \in Nat
    <3>1. Index = L - c + j + 1 /\ Done = L - c + j
      BY <2>17, Zenon DEF Index, Done
    <3>2. L - c + j \in Nat /\ L - c + j + 1 \in 1..L
      BY <2>21
    <3>3. /\ q + L - c + j = q + (L - c + j + 1) - 1 /\ q + L - c + j \in 0..(Sectors - 1)
          /\ (q + L - c + j) + (k - j) <= Sectors
      BY <2>21, <2>22
    <3>4. next = q + Index - 1 /\ next \in 0..(Sectors - 1) /\ next + left <= Sectors
      BY <2>23, <3>1, <3>3, Zenon
    <3> QED
      BY <2>17, <3>1, <3>2, <3>4, Zenon
  <2>6. /\ buf' \in Seq(Data) /\ Len(buf') = Len(buf)
        /\ ~write => \A i \in 1..Len(buf) : buf'[i] = IF i = Index THEN medium[next] ELSE buf[i]
        /\ write => buf' = buf
        /\ latch' = IF write THEN <<buf[Index]>> ELSE None
    <3>1. medium[next] \in Data
      BY <2>5, <2>14, Zenon
    <3>2. CASE write
      BY <2>1, <2>14, <3>2, Zenon
    <3>3. CASE ~write
      <4>1. buf' = [buf EXCEPT ![Index] = medium[next]] /\ latch' = None
        BY <2>1, <2>2, <3>3, Zenon
      <4>2. /\ [buf EXCEPT ![Index] = medium[next]] \in Seq(Data)
            /\ Len([buf EXCEPT ![Index] = medium[next]]) = Len(buf)
            /\ \A m \in 1..Len(buf) :
                 [buf EXCEPT ![Index] = medium[next]][m] = IF m = Index THEN medium[next] ELSE buf[m]
        BY <2>5, <2>14, <3>1, ExceptSeq
      <4> QED
        BY <3>3, <4>1, <4>2, Zenon
    <3> QED
      BY <3>2, <3>3, Zenon
  <2>7. /\ polls' = 0 /\ pc' \in {"idle", "timeout", "wait_drq"}
        /\ pc' = "idle" => status' = "OK"
        /\ status' \in {status, "OK"}
        /\ pc' # "idle" => s' < Chunk'
        /\ pc' = "wait_drq" => Chunk' = k /\ lba' = lba
    <3>1. CASE s + 1 < Chunk
      <4>1. s' = s + 1 /\ polls' = 0 /\ UNCHANGED <<pc, lba, count, status>>
        BY <2>1, <3>1, Zenon DEF AfterSector
      <4> QED
        BY <2>1, <2>17, <2>21, <3>1, <4>1, Zenon DEF Chunk
    <3>2. CASE ~(s + 1 < Chunk) /\ count > Chunk
      <4>1. /\ pc' = "timeout" /\ polls' = 0 /\ s' = 0 /\ UNCHANGED status /\ count' = count - Chunk
        BY <2>1, <3>2, Zenon DEF AfterSector
      <4>2. count' \in Nat /\ count' > 0
        BY <2>17, <2>21, <3>2, <4>1
      <4>3. Chunk' > 0
        BY <4>2 DEF Chunk, DiskConstants
      <4> QED
        BY <4>1, <4>3, Zenon
    <3>3. CASE ~(s + 1 < Chunk) /\ ~(count > Chunk)
      BY <2>1, <3>3, Zenon DEF AfterSector, Finish
    <3> QED
      BY <3>1, <3>2, <3>3, Zenon
  <2>18. \E c1 \in 0..c, j1 \in Nat :
           /\ count' = c1 /\ s' = j1 /\ j1 - c1 = j - c + 1 /\ lba' = q + L - c1
           /\ pc' = "idle" => c1 = 0 /\ j1 = 0
           /\ pc' # "idle" => c1 > 0
           /\ pc' = "timeout" => j1 = 0
           /\ pc' = "wait_drq" => c1 = c /\ j1 = j + 1
    <3>1. CASE s + 1 < Chunk
      <4>1. count' = c /\ s' = j + 1 /\ pc' = "wait_drq" /\ lba' = q + L - c
        BY <2>1, <2>17, <2>23, <3>1, Zenon DEF AfterSector
      <4>2. (j + 1) - c = j - c + 1 /\ c > 0
        BY <2>21
      <4> QED
        BY <4>1, <4>2
    <3>2. CASE ~(s + 1 < Chunk)
      <4>1. /\ count' = c - k /\ s' = 0 /\ lba' = lba + k
            /\ pc' = IF c > k THEN "timeout" ELSE "idle"
        BY <2>1, <2>17, <3>2, Zenon DEF AfterSector, Finish
      <4>2. j + 1 = k
        BY <2>17, <2>21, <3>2
      <4>3. /\ c - k \in 0..c /\ q + L - c + k = q + L - (c - k) /\ 0 - (c - k) = j - c + 1
            /\ IF c > k THEN c - k > 0 ELSE c - k = 0
        BY <2>21, <4>2
      <4>4. lba' = q + L - (c - k)
        BY <2>23, <4>1, <4>3, Zenon
      <4> QED
        BY <4>1, <4>3, <4>4, Zenon
    <3> QED
      BY <3>1, <3>2, Zenon
  <2>19. PICK c1 \in 0..c, j1 \in Nat :
           /\ count' = c1 /\ s' = j1 /\ j1 - c1 = j - c + 1 /\ lba' = q + L - c1
           /\ pc' = "idle" => c1 = 0 /\ j1 = 0
           /\ pc' # "idle" => c1 > 0
           /\ pc' = "timeout" => j1 = 0
           /\ pc' = "wait_drq" => c1 = c /\ j1 = j + 1
    BY <2>18, Zenon
  <2>8. DiskTypeOK'
    <3>1. latch' = None \/ \E d \in Data : latch' = <<d>>
      <4>1. buf[Index] \in Data
        BY <2>5, <2>14
      <4> QED
        BY <2>6, <4>1, Zenon
    <3>2. status' \in {"none", "OK", "IO", "RANGE"}
      BY <2>2, <2>7, Zenon DEF DiskTypeOK
    <3>3. count' \in Nat /\ s' \in Nat /\ lba' \in Nat
      <4>1. q + L - c1 \in Nat
        BY <2>21
      <4> QED
        BY <2>19, <4>1
    <3>4. buf' \in Seq(Data)
      BY <2>6, Zenon
    <3> QED
      BY <2>1, <2>2, <2>7, <3>1, <3>2, <3>3, <3>4, Zenon DEF DiskTypeOK
  <2>20. Len(buf') = L
    BY <2>6, <2>17, Zenon
  <2>9. /\ Active' /\ Done' = Done + 1
    <3>1. Active'
      BY <2>7, Zenon DEF Active
    <3>2. Done' = L - c1 + j1 /\ Done = L - c + j
      BY <2>17, <2>19, <2>20, Zenon DEF Done
    <3>3. L - c1 + j1 = (L - c + j) + 1
      BY <2>19
    <3> QED
      BY <3>1, <3>2, <3>3, Zenon
  <2>10. Request'
    <3>1. /\ count' <= Len(buf') /\ lba' = req'.lba + Len(buf') - count'
          /\ req'.lba + Len(buf') <= Sectors
      <4>1. req'.lba = q
        BY <2>1, <2>17, Zenon
      <4>2. c1 <= L
        BY <2>21
      <4> QED
        BY <2>19, <2>20, <2>21, <4>1, <4>2, Zenon
    <3>2. write' = req'.write /\ Len(buf') = Len(req'.buf)
      <4>1. write' = write /\ req' = req
        BY <2>1, Zenon
      <4>2. write = req.write /\ Len(req.buf) = L
        BY <2>15, <2>17, Zenon
      <4> QED
        BY <2>20, <4>1, <4>2, Zenon
    <3>3. write' => buf' = req'.buf
      <4>1. write => buf' = buf /\ buf = req.buf
        BY <2>6, <2>15, Zenon
      <4>2. write' = write /\ req' = req
        BY <2>1, Zenon
      <4> QED
        BY <4>1, <4>2, Zenon
    <3>4. /\ pc' = "idle" => count' = 0 /\ s' = 0
          /\ pc' # "idle" => count' > 0 /\ s' < Chunk'
          /\ pc' = "timeout" => s' = 0
      BY <2>7, <2>19, Zenon
    <3> QED
      BY <3>1, <3>2, <3>3, <3>4, Zenon DEF Request
  <2>11. Drive'
    <3>1. next + left <= Sectors /\ left > 0
      <4>1. k - j > 0
        BY <2>21
      <4> QED
        BY <2>5, <2>23, <4>1, Zenon
    <3> QED
      BY <2>1, <3>1, Zenon DEF Drive
  <2>16. InStep'
    <3> SUFFICES ASSUME pc' = "wait_drq"
                 PROVE  next + 1 = lba' + s' /\ left - 1 = Chunk' - s'
      BY <2>1, Zenon DEF InStep
    <3>1. lba' = lba /\ s' = j + 1 /\ Chunk' = k
      BY <2>7, <2>19, Zenon
    <3>2. (q + L - c + j) + 1 = (q + L - c) + (j + 1) /\ (k - j) - 1 = k - (j + 1)
      OBVIOUS
    <3> QED
      BY <2>23, <3>1, <3>2, Zenon
  <2>12. Latched'
    <3>1. Done' = Index /\ Done' > 0 /\ req' = req /\ next' = next /\ write' = write
      BY <2>1, <2>5, <2>9
    <3>2. latch' # None => write /\ latch' = <<req.buf[Index]>>
      <4>1. latch' = IF write THEN <<buf[Index]>> ELSE None
        BY <2>6, Zenon
      <4>2. write => buf = req.buf
        BY <2>15, Zenon
      <4> QED
        BY <4>1, <4>2, Zenon
    <3>3. next = req.lba + Index - 1
      BY <2>5, Zenon
    <3> QED
      BY <3>1, <3>2, <3>3 DEF Latched
  <2>13. Moved'
    <3> SUFFICES ASSUME NEW i \in 1..(Done + 1)
                 PROVE  IF write
                        THEN \/ dropped \/ (i = Done + 1 /\ latch' # None)
                             \/ medium[req.lba + i - 1] = req.buf[i]
                        ELSE buf'[i] = medium[req.lba + i - 1]
      BY <2>1, <2>9, Zenon DEF Moved
    <3>1. CASE i = Done + 1
      <4>1. i = Index /\ i \in 1..Len(buf) /\ next = req.lba + i - 1
        BY <2>5, <3>1, Zenon
      <4>2. write => latch' # None
        <5>1. latch' = IF write THEN <<buf[Index]>> ELSE None
          BY <2>6, Zenon
        <5> QED
          BY <5>1, Zenon DEF None
      <4> QED
        BY Zenon, <2>6, <3>1, <4>1, <4>2
    <3>2. CASE i # Done + 1
      <4>1. i \in 1..Done /\ i \in 1..Len(buf) /\ i # Index
        BY <2>4, <2>5, <3>2
      <4> QED
        BY <2>2, <2>6, <4>1, Zenon DEF DiskInv, Moved
    <3> QED
      BY <3>1, <3>2, Zenon
  <2> QED
    BY <2>8, <2>10, <2>11, <2>16, <2>12, <2>13, Zenon DEF DiskInv
<1>WaitDrqInv.
    ASSUME DiskConstants, DiskInv, WaitDrq
    PROVE  DiskInv'
  <2> USE <1>WaitDrqInv
  <2>1. pc = "wait_drq"
    BY Zenon DEF WaitDrq
  <2>2. CASE err
    <3>1. Finish("IO") /\ UNCHANGED <<write, lba, count, buf, req, drive, dropped>>
      BY <2>2, Zenon DEF WaitDrq
    <3> QED
      BY <3>1, <1>GivenUp, Zenon DEF drive
  <2>3. CASE ~err /\ ~drq
    <3>1. Poll
      BY <2>3, Zenon DEF WaitDrq
    <3> QED
      BY <2>1, <3>1, <1>PollInv, Zenon
  <2>4. CASE ~err /\ drq
    BY <2>4, <1>SectorInv, Zenon
  <2> QED
    BY <2>2, <2>3, <2>4, Zenon
<1>ServeInv.
    ASSUME DiskConstants, DiskInv, Serve
    PROVE  DiskInv'
  <2> USE <1>ServeInv
  <2> DEFINE n == IF moved THEN 1 ELSE 0
  <2>1. /\ bsy /\ bsy' = FALSE /\ moved' = FALSE /\ latch' = None
        /\ medium' = IF latch = None THEN medium ELSE [medium EXCEPT ![next] = latch[1]]
        /\ next' = next + n /\ left' = left - n /\ drq' = (left > n)
        /\ UNCHANGED <<err, pc, polls, write, lba, count, s, buf, status, req, dropped>>
    BY Zenon DEF Serve, driver
  <2>2. /\ DiskTypeOK /\ Drive /\ next \in Nat /\ left \in Nat /\ n \in 0..1 /\ left >= n /\ next + left <= Sectors
        /\ Sectors \in Nat
    BY DEF DiskInv, DiskTypeOK, Drive, DiskConstants
  <2>3. latch # None =>
          /\ next \in 0..(Sectors - 1) /\ latch[1] \in Data
          /\ \A j \in 0..(Sectors - 1) : medium'[j] = IF j = next THEN latch[1] ELSE medium[j]
    <3>1. latch # None => left > 0 /\ latch[1] \in Data
      BY <2>2 DEF Drive, DiskTypeOK
    <3> QED
      BY <2>1, <2>2, <3>1 DEF DiskTypeOK
  <2>4. DiskTypeOK'
    <3>1. medium' \in [0..(Sectors - 1) -> Data]
      BY <2>1, <2>2, <2>3, Zenon DEF DiskTypeOK
    <3>2. next' \in Nat /\ left' \in Nat /\ drq' \in BOOLEAN
      BY <2>1, <2>2
    <3> HIDE DEF n
    <3> QED
      BY <2>1, <2>2, <3>1, <3>2, Zenon DEF DiskTypeOK
  <2>5. /\ Active' = Active /\ Done' = Done /\ Chunk' = Chunk /\ Request'
    BY <2>1, Zenon DEF DiskInv, Active, Done, Chunk, Request
  <2>6. Drive'
    BY <2>1, <2>2 DEF Drive
  <2>7. InStep'
    <3> SUFFICES ASSUME pc = "wait_drq", ~err
                 PROVE  next + n = lba + s /\ left - n = Chunk - s
      <4>1. next' \in Nat /\ left' \in Nat
        BY <2>4, Zenon DEF DiskTypeOK
      <4> QED
        BY <2>1, <2>5, <4>1 DEF InStep
    <3> QED
      BY Zenon DEF DiskInv, InStep
  <2>8. Latched'
    BY <2>1, <2>5, Zenon DEF Latched
  <2>9. Moved'
    <3> SUFFICES ASSUME Active, NEW i \in 1..Done
                 PROVE  IF write
                        THEN dropped \/ medium'[req.lba + i - 1] = req.buf[i]
                        ELSE buf[i] = medium'[req.lba + i - 1]
      BY <2>1, <2>5, Zenon DEF Moved
    <3>1. /\ Done \in Nat /\ Done <= Len(buf) /\ req.lba \in Nat /\ req.lba + Len(buf) <= Sectors
          /\ Len(buf) \in Nat
      <4>1. DiskTypeOK /\ DiskConstants
        BY <2>2, Zenon DEF DiskInv
      <4>2. Chunk \in Nat /\ Chunk <= count
        BY <4>1, <1>ChunkFacts, Zenon
      <4>3. /\ count <= Len(buf) /\ req.lba + Len(buf) <= Sectors
            /\ IF pc = "idle" THEN count = 0 /\ s = 0 ELSE count > 0 /\ s < Chunk
        BY <2>2, Zenon DEF DiskInv, Request
      <4>4. /\ count \in Nat /\ s \in Nat /\ Len(buf) \in Nat /\ req.lba \in Nat
        BY <4>1 DEF DiskTypeOK
      <4> QED
        BY <4>2, <4>3, <4>4 DEF Done
    <3>2. Done > 0 /\ req.lba + i - 1 \in 0..(Sectors - 1)
      BY <2>2, <3>1
    <3>3. CASE latch = None
      BY <2>1, <3>3, Zenon DEF DiskInv, Moved
    <3>4. CASE latch # None
      <4>1. write /\ latch = <<req.buf[Done]>> /\ next = req.lba + Done - 1
        BY <3>2, <3>4, Zenon DEF DiskInv, Latched
      <4>2. medium'[req.lba + i - 1] = IF req.lba + i - 1 = next THEN latch[1]
                                       ELSE medium[req.lba + i - 1]
        BY <2>3, <3>2, <3>4, Zenon
      <4>3. i = Done <=> req.lba + i - 1 = next
        BY <3>1, <4>1
      <4>4. i = Done \/ dropped \/ medium[req.lba + i - 1] = req.buf[i]
        BY <4>1, Zenon DEF DiskInv, Moved
      <4> QED
        BY Zenon, <4>1, <4>2, <4>3, <4>4
    <3> QED
      BY Zenon, <3>3, <3>4
  <2> QED
    BY <2>4, <2>5, <2>6, <2>7, <2>8, <2>9, Zenon DEF DiskInv
<1>FailInv.
    ASSUME DiskConstants, DiskInv, Fail
    PROVE  DiskInv'
  <2> USE <1>FailInv
  <2>1. /\ bsy /\ bsy' = FALSE /\ drq' = FALSE /\ err' = TRUE /\ moved' = FALSE /\ latch' = None
        /\ left' = 0 /\ dropped' = (dropped \/ latch # None)
        /\ UNCHANGED <<next, medium, pc, polls, write, lba, count, s, buf, status, req>>
    BY Zenon DEF Fail, driver
  <2>2. DiskTypeOK'
    <3>1. dropped' \in BOOLEAN
      BY <2>1, Zenon
    <3> QED
      BY <2>1, <3>1, Zenon DEF DiskInv, DiskTypeOK
  <2>3. /\ Active' = Active /\ Done' = Done /\ Request'
    BY <2>1, Zenon DEF DiskInv, Active, Done, Chunk, Request
  <2>4. Drive'
    BY <2>1 DEF DiskInv, Drive, DiskTypeOK, DiskConstants
  <2>5. InStep' /\ Latched'
    BY <2>1, <2>3, Zenon DEF InStep, Latched
  <2>6. Moved'
    BY <2>1, <2>3, Zenon DEF DiskInv, Moved
  <2> QED
    BY <2>2, <2>3, <2>4, <2>5, <2>6, Zenon DEF DiskInv
<1> SUFFICES ASSUME DiskConstants, DiskInv, [DiskNext]_diskVars
             PROVE  DiskInv'
  BY Zenon
<1>1. CASE UNCHANGED diskVars
  <2>1. /\ UNCHANGED <<pc, polls, write, lba, count, s, buf, status, req>>
        /\ UNCHANGED <<bsy, drq, err, next, left, moved, latch, medium, dropped>>
    BY <1>1, Zenon DEF diskVars, driver, drive
  <2>2. Active' = Active /\ Done' = Done /\ Chunk' = Chunk
    BY <2>1, Zenon DEF Active, Done, Chunk
  <2>3. DiskTypeOK'
    BY <2>1 DEF DiskInv, DiskTypeOK
  <2>4. Request' /\ Drive'
    BY <2>1, <2>2, Zenon DEF DiskInv, Request, Drive
  <2>5. InStep' /\ Latched' /\ Moved'
    BY <2>1, <2>2, Zenon DEF DiskInv, InStep, Latched, Moved
  <2> QED
    BY <2>3, <2>4, <2>5, Zenon DEF DiskInv
<1>2. CASE DiskNext
  BY <1>2, <1>RequestInv, <1>TimeoutInv, <1>WaitDrqInv, <1>ServeInv, <1>FailInv, Zenon DEF DiskNext
<1> QED
  BY <1>1, <1>2, Zenon

(* What is in place when a request has succeeded is what blk_rw promises.  *)
LEMMA InvExact ==
  ASSUME DiskConstants, DiskInv
  PROVE  TransfersExact
<1>1. CommandsInRange
  BY Zenon DEF DiskInv, Drive, CommandsInRange
<1>2. ASSUME pc = "idle", status = "OK"
      PROVE  /\ Done = Len(req.buf) /\ Len(req.buf) \in Nat /\ DOMAIN req.buf = 1..Done
             /\ write = req.write /\ Active
  BY <1>2 DEF DiskInv, Request, Active, DiskTypeOK, Done
<1>3. ReadsDeliver
  BY <1>2, Zenon DEF DiskInv, Moved, ReadsDeliver
<1>4. WritesReachMedium
  BY <1>2, Zenon DEF DiskInv, Moved, Drive, WritesReachMedium
<1> QED
  BY <1>1, <1>3, <1>4, Zenon DEF TransfersExact

(* The facts above are an invariant of the driver and the drive.           *)
THEOREM DiskInvariance == ASSUME DiskConstants PROVE DiskSpec => []DiskInv
BY DiskInitInv, DiskNextInv, PTL DEF DiskSpec

(* Every transfer that blk_rw reports as done was exact: a read delivered  *)
(* each sector in its place, a write has every sector on the medium unless *)
(* the drive dropped one it had taken, and no command leaves the drive.    *)
THEOREM TransfersCorrect == ASSUME DiskConstants PROVE DiskSpec => []TransfersExact
BY DiskInvariance, InvExact, PTL
=============================================================================
