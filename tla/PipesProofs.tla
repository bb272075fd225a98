----------------------------- MODULE PipesProofs -----------------------------
(***************************************************************************)
(* Proofs that pipes are counted, kept, drained and filled as Pipes states *)
(* for any number of processes, descriptors and pipes, any ring size and   *)
(* any bytes, and that the ring buffer implements the channel of Channel.  *)
(***************************************************************************)
EXTENDS Pipes, FiniteSetTheorems, WellFoundedInduction, TLAPS

(* A step that cites no prover is left to the SMT solver. *)
USE SMTT(30)

(* The counts tell that a pipe in use is not handed out again, so that a   *)
(* blocked process keeps its pipe, and that a count of zero means that no  *)
(* descriptor is left; the ring indices tell where the bytes are.          *)
Inv == TypeOK /\ RefcountsExact /\ BlockedPipeStays /\ RingConsistent
       /\ ShortTransferJustified

-----------------------------------------------------------------------------
(* Operators *)

(* The scans for a free slot or descriptor find one where there is one.    *)
LEMMA LeastIn ==
  ASSUME NEW S \in SUBSET Nat, S # {}
  PROVE  Least(S) \in S
<1>1. PICK m \in S : \A k \in S : ~(<<k, m>> \in OpToRel(<, Nat))
  BY Zenon, WFMin, NatLessThanWellFounded
<1>2. \A k \in S : k \in Nat /\ m \in Nat /\ ~(k < m)
  BY <1>1, Zenon DEF OpToRel
<1>3. \A k \in S : m <= k
  BY <1>2
<1> QED
  BY <1>3, Zenon DEF Least

(* Ring indices stay within one wrap of the ring. *)
LEMMA ModFacts ==
  ASSUME NEW c \in Nat, c > 0, NEW a \in 0..(2 * c - 1)
  PROVE  a % c = IF a < c THEN a ELSE a - c
<1>1. CASE a < c  BY <1>1
<1>2. CASE ~(a < c)
  <2>1. a \in c..(2 * c - 1)  BY <1>2
  <2> QED  BY <1>2, <2>1
<1> QED  BY <1>1, <1>2, Zenon

(* The entry of a descriptor table names the pipe it is an end of. *)
LEMMA EntryFacts ==
  /\ \A e \in Entries :
       /\ e[1] = "PIPE_R" => e[2] \in Pipe /\ e = ReadEnd(e[2])
       /\ e[1] = "PIPE_W" => e[2] \in Pipe /\ e = WriteEnd(e[2])
  /\ \A x \in Pipe :
       /\ ReadEnd(x) \in Entries /\ WriteEnd(x) \in Entries
       /\ ReadEnd(x)[1] = "PIPE_R" /\ ReadEnd(x)[2] = x
       /\ WriteEnd(x)[1] = "PIPE_W" /\ WriteEnd(x)[2] = x
       /\ \A k \in {"OTHER", "DEV_TTY", "CLOSED"} :
            ReadEnd(x) # <<k, 0>> /\ WriteEnd(x) # <<k, 0>>
  /\ \A x, y \in Pipe : /\ ReadEnd(x) # WriteEnd(y)
                        /\ ReadEnd(x) = ReadEnd(y) => x = y
                        /\ WriteEnd(x) = WriteEnd(y) => x = y
  /\ Closed = <<"CLOSED", 0>> /\ Closed \in Entries
  /\ Other \in Entries /\ Tty \in Entries
<1>1. \A x, y \in Pipe : /\ ReadEnd(x) # WriteEnd(y)
                         /\ ReadEnd(x) = ReadEnd(y) => x = y
                         /\ WriteEnd(x) = WriteEnd(y) => x = y
  BY Zenon DEF ReadEnd, WriteEnd
<1>2. \A e \in Entries :
        /\ e[1] = "PIPE_R" => e[2] \in Pipe /\ e = ReadEnd(e[2])
        /\ e[1] = "PIPE_W" => e[2] \in Pipe /\ e = WriteEnd(e[2])
  BY DEF Entries, ReadEnd, WriteEnd, Closed, Other, Tty
<1> QED
  BY <1>1, <1>2, Zenon DEF Entries, ReadEnd, WriteEnd, Closed, Other, Tty

(* A descriptor table is finite. *)
LEMMA FdsFinite == IsFiniteSet(FDs)
  BY FS_Interval, SizesAssumption DEF FDs

(* The ends of a pipe can be counted. *)
LEMMA EndsFinite ==
  ASSUME NEW e
  PROVE  IsFiniteSet(Ends(e)) /\ Cardinality(Ends(e)) \in Nat
<1>1. IsFiniteSet(Procs \X FDs)
  BY FS_Product, FdsFinite, ProcsAssumption, Zenon
<1>2. Ends(e) \in SUBSET (Procs \X FDs)
  BY Zenon DEF Ends
<1> QED
  BY <1>1, <1>2, FS_Subset, FS_CardinalityType, Zenon

(* A descriptor of a live process is one of its pipe's ends. *)
LEMMA EndHeld ==
  ASSUME NEW e, NEW p \in alive, alive \subseteq Procs, NEW f \in FDs,
         fds[p][f] = e
  PROVE  <<p, f>> \in Ends(e) /\ Cardinality(Ends(e)) > 0
<1>1. <<p, f>> \in Ends(e)
  BY Zenon DEF Ends
<1> QED
  BY <1>1, EndsFinite, FS_EmptySet

-----------------------------------------------------------------------------
(* Steps *)

-----------------------------------------------------------------------------
(* Transfers *)

(* Taking m of k bytes from the head of a ring leaves the tail in place,   *)
(* adding m bytes moves it by as many.                                     *)
LEMMA RingFacts ==
  ASSUME NEW c \in Nat, c > 0, NEW h \in 0..(c - 1), NEW k \in 0..c
  PROVE  /\ \A m \in 0..k : (((h + m) % c) + (k - m)) % c = (h + k) % c
         /\ \A m \in 0..(c - k) : (h + (k + m)) % c = (((h + k) % c) + m) % c
         /\ \A m \in 0..c : (h + m) % c \in 0..(c - 1)
<1>1. ASSUME NEW m \in 0..k
      PROVE  (((h + m) % c) + (k - m)) % c = (h + k) % c
  OBVIOUS
<1>2. ASSUME NEW m \in 0..(c - k)
      PROVE  (h + (k + m)) % c = (((h + k) % c) + m) % c
  OBVIOUS
<1>3. ASSUME NEW m \in 0..c
      PROVE  (h + m) % c \in 0..(c - 1)
  OBVIOUS
<1> QED
  BY <1>1, <1>2, <1>3, Zenon

(* The bytes a read delivers are bytes of the ring. *)
LEMMA FrontType ==
  ASSUME TypeOK, NEW x \in Pipe, NEW m \in 0..PIPE_CAP
  PROVE  Front(x, m) \in Seq(Byte) /\ Len(Front(x, m)) = m
<1>1. PIPE_CAP \in Nat /\ PIPE_CAP > 0 /\ head[x] \in 0..(PIPE_CAP - 1)
      /\ buf[x] \in [Slots -> Byte]
  BY SizesAssumption, Zenon DEF TypeOK, Slots
<1>2. \A i \in 1..m : (head[x] + i - 1) % PIPE_CAP \in Slots
  BY <1>1 DEF Slots
<1>3. Front(x, m) \in [1..m -> Byte]
  BY <1>1, <1>2, Zenon DEF Front
<1> QED
  BY <1>3

(* Who holds an end of a pipe holds a pipe that is in use. *)
LEMMA HolderUses ==
  ASSUME Inv, NEW p \in alive, NEW x \in Pipe,
         EndsOf(p, ReadEnd(x)) # {} \/ EndsOf(p, WriteEnd(x)) # {}
  PROVE  used[x]
<1>1. alive \subseteq Procs
  BY Zenon DEF Inv, TypeOK
<1>2. Cardinality(Ends(ReadEnd(x))) > 0 \/ Cardinality(Ends(WriteEnd(x))) > 0
  BY <1>1, EndHeld, Zenon DEF EndsOf
<1> QED
  BY <1>2, Zenon DEF Inv, RefcountsExact

(* The descriptor a call reads or writes through, /dev/tty included, is    *)
(* one of the caller's.                                                    *)
LEMMA RerouteHeld ==
  ASSUME TypeOK, NEW p \in Procs, NEW f \in FDs, NEW std \in FDs
  PROVE  /\ Reroute(p, f, std)[1] = "PIPE_R" =>
              /\ Reroute(p, f, std)[2] \in Pipe
              /\ EndsOf(p, ReadEnd(Reroute(p, f, std)[2])) # {}
         /\ Reroute(p, f, std)[1] = "PIPE_W" =>
              /\ Reroute(p, f, std)[2] \in Pipe
              /\ EndsOf(p, WriteEnd(Reroute(p, f, std)[2])) # {}
<1>1. PICK g \in FDs : Reroute(p, f, std) = fds[p][g]
  BY Zenon DEF Reroute
<1>2. fds[p][g] \in Entries
  BY DEF TypeOK
<1> QED
  BY <1>1, <1>2, EntryFacts DEF EndsOf

(* The invariant holds before the first call. *)
LEMMA InitInv == Init => Inv
<1> SUFFICES ASSUME Init PROVE Inv
  BY Zenon
<1>0. /\ 1 \in Pipe /\ 0 \in Slots /\ 0 \in 0..PIPE_CAP /\ 0 % PIPE_CAP = 0
      /\ Shell \in Procs
  BY SizesAssumption, ProcsAssumption, ModFacts DEF Pipe, Slots
<1>1. TypeOK
  <2>1. ConsoleFds \in [FDs -> Entries]
    BY EntryFacts, Zenon DEF ConsoleFds
  <2>2. buf \in [Pipe -> [Slots -> Byte]]
    BY Zenon DEF Init
  <2>3. /\ data \in [Procs -> Seq(Byte)]
        /\ xfer \in [op : {"none", "read", "write"}, pipe : Pipe,
                     bytes : Seq(Byte), short : BOOLEAN]
    BY <1>0 DEF Init, NoXfer
  <2> QED
    BY <1>0, <2>1, <2>2, <2>3, Zenon DEF Init, TypeOK
<1>2. RefcountsExact
  <2> SUFFICES ASSUME NEW x \in Pipe
               PROVE  Ends(ReadEnd(x)) = {} /\ Ends(WriteEnd(x)) = {}
    <3>1. \A x \in Pipe : readers[x] = 0 /\ writers[x] = 0 /\ ~used[x]
      BY Zenon DEF Init
    <3> QED
      BY <3>1, FS_EmptySet DEF RefcountsExact
  <2>1. \A p \in Procs, f \in FDs :
          fds[p][f] # ReadEnd(x) /\ fds[p][f] # WriteEnd(x)
    BY EntryFacts, Zenon DEF Init, ConsoleFds, Other, Closed
  <2> QED
    BY <2>1, Zenon DEF Ends
<1>3. BlockedPipeStays
  BY Zenon DEF Init, BlockedPipeStays
<1>4. RingConsistent
  BY <1>0 DEF Init, RingConsistent
<1>5. ShortTransferJustified
  BY Zenon DEF Init, ShortTransferJustified, NoXfer
<1> QED
  BY <1>1, <1>2, <1>3, <1>4, <1>5, Zenon DEF Inv

(* Every call, fork, exec and exit keeps the invariant. *)
LEMMA NextInv == Inv /\ [Next]_vars => Inv'
(* The same of the next state. *)
<1>EndHeldNext.
    ASSUME NEW e, NEW p \in alive', alive' \subseteq Procs, NEW f \in FDs,
           fds'[p][f] = e
    PROVE  Cardinality(Ends(e)') > 0
  <2> USE <1>EndHeldNext
  <2>1. <<p, f>> \in Ends(e)'
    BY Zenon DEF Ends
  <2>2. IsFiniteSet(Procs \X FDs)
    BY FS_Product, FdsFinite, ProcsAssumption, Zenon
  <2>3. Ends(e)' \in SUBSET (Procs \X FDs)
    BY Zenon DEF Ends
  <2>4. IsFiniteSet(Ends(e)') /\ Cardinality(Ends(e)') \in Nat
    BY <2>2, <2>3, FS_Subset, FS_CardinalityType, Zenon
  <2> QED
    BY <2>1, <2>4, FS_EmptySet
(* Binding one descriptor of a live process anew moves it from the ends of *)
(* what it referred to to the ends of what it refers to.                   *)
<1>EndsMoved.
    ASSUME TypeOK, NEW p \in alive, NEW f \in FDs, NEW n,
           \A q \in Procs, g \in FDs :
             fds'[q][g] = IF q = p /\ g = f THEN n ELSE fds[q][g],
           alive' = alive,
           NEW e
    PROVE  /\ Ends(e)' = IF e = n THEN Ends(e) \cup {<<p, f>>}
                                  ELSE Ends(e) \ {<<p, f>>}
           /\ Cardinality(Ends(e)') =
                IF e = n /\ fds[p][f] # e THEN Cardinality(Ends(e)) + 1
                ELSE IF e # n /\ fds[p][f] = e THEN Cardinality(Ends(e)) - 1
                ELSE Cardinality(Ends(e))
  <2> USE <1>EndsMoved
  <2>0. p \in Procs /\ fds \in [Procs -> [FDs -> Entries]]
    BY Zenon DEF TypeOK
  <2>2. Ends(e)' = {r \in Procs \X FDs : r[1] \in alive /\ fds'[r[1]][r[2]] = e}
    BY Zenon DEF Ends
  <2>3. <<p, f>> \in Ends(e) <=> fds[p][f] = e
    BY <2>0, Zenon DEF Ends
  <2>4. Ends(e)' = IF e = n THEN Ends(e) \cup {<<p, f>>} ELSE Ends(e) \ {<<p, f>>}
    BY <2>0, <2>2 DEF Ends
  <2>5. Cardinality(Ends(e) \cup {<<p, f>>}) =
          IF fds[p][f] = e THEN Cardinality(Ends(e)) ELSE Cardinality(Ends(e)) + 1
    BY <2>3, EndsFinite, FS_AddElement, Zenon
  <2>6. Cardinality(Ends(e) \ {<<p, f>>}) =
          IF fds[p][f] = e THEN Cardinality(Ends(e)) - 1 ELSE Cardinality(Ends(e))
    BY <2>3, EndsFinite, FS_RemoveElement, Zenon
  <2>7. CASE e = n
    BY <2>4, <2>5, <2>7, Zenon
  <2>8. CASE e # n
    BY <2>4, <2>6, <2>8, Zenon
  <2> QED
    BY <2>7, <2>8, Zenon
(* fork copies a table: every end the parent holds gains one descriptor.   *)
<1>EndsForked.
    ASSUME TypeOK, NEW p \in alive, NEW c \in Procs \ alive,
           fds'[c] = fds[p], \A q \in Procs \ {c} : fds'[q] = fds[q],
           alive' = alive \cup {c},
           NEW e
    PROVE  /\ Cardinality(EndsOf(p, e)) \in Nat
           /\ Cardinality(EndsOf(p, e)) > 0 => Cardinality(Ends(e)) > 0
           /\ Cardinality(Ends(e)') =
                Cardinality(Ends(e)) + Cardinality(EndsOf(p, e))
  <2> USE <1>EndsForked
  <2> DEFINE T == {c} \X EndsOf(p, e)
  <2>0. p \in Procs /\ c \in Procs /\ alive \subseteq Procs /\ p # c
        /\ fds \in [Procs -> [FDs -> Entries]]
    BY Zenon DEF TypeOK
  <2>2. Ends(e)' = {r \in Procs \X FDs :
                      r[1] \in alive \cup {c} /\ fds'[r[1]][r[2]] = e}
    BY Zenon DEF Ends
  <2>3. Ends(e)' = Ends(e) \cup T
    BY <2>0, <2>2, Zenon DEF Ends, EndsOf
  <2>4. Ends(e) \cap T = {}
    BY Zenon DEF Ends
  <2>5. IsFiniteSet(EndsOf(p, e)) /\ Cardinality(EndsOf(p, e)) \in Nat
    BY FdsFinite, FS_Subset, FS_CardinalityType, Zenon DEF EndsOf
  <2>6. IsFiniteSet({c}) /\ Cardinality({c}) = 1
    BY FS_Singleton, Zenon
  <2>7. IsFiniteSet(T) /\ Cardinality(T) = 1 * Cardinality(EndsOf(p, e))
    BY <2>5, <2>6, FS_Product, Zenon
  <2>8. Cardinality(Ends(e) \cup T) =
          Cardinality(Ends(e)) + Cardinality(T) - Cardinality(Ends(e) \cap T)
    BY <2>7, EndsFinite, FS_Union, Zenon
  <2>9. Cardinality(Ends(e) \cap T) = 0
    BY <2>4, FS_EmptySet, Zenon
  <2>10. Cardinality(EndsOf(p, e)) > 0 => Cardinality(Ends(e)) > 0
    <3> SUFFICES ASSUME Cardinality(EndsOf(p, e)) > 0
                 PROVE  Cardinality(Ends(e)) > 0
      BY Zenon
    <3>1. EndsOf(p, e) # {}
      BY FS_EmptySet, <2>5
    <3> QED
      BY <3>1, <2>0, EndHeld, Zenon DEF EndsOf
  <2> HIDE DEF T
  <2> QED
    BY <2>3, <2>5, <2>7, <2>8, <2>9, <2>10, EndsFinite
(* exit takes away every end the process holds, and no other. *)
<1>EndsDropped.
    ASSUME TypeOK, NEW p \in alive,
           \A q \in Procs \ {p} : fds'[q] = fds[q], alive' = alive \ {p},
           NEW e
    PROVE  /\ Cardinality(EndsOf(p, e)) \in Nat
           /\ EndsOf(p, e) = {} <=> Cardinality(EndsOf(p, e)) = 0
           /\ Cardinality(EndsOf(p, e)) <= Cardinality(Ends(e))
           /\ Cardinality(Ends(e)') =
                Cardinality(Ends(e)) - Cardinality(EndsOf(p, e))
  <2> USE <1>EndsDropped
  <2> DEFINE T == {p} \X EndsOf(p, e)
  <2>0. p \in Procs /\ alive \subseteq Procs
        /\ fds \in [Procs -> [FDs -> Entries]]
    BY Zenon DEF TypeOK
  <2>2. Ends(e)' = {r \in Procs \X FDs :
                      r[1] \in alive \ {p} /\ fds'[r[1]][r[2]] = e}
    BY Zenon DEF Ends
  <2>3. Ends(e)' = Ends(e) \ T
    BY <2>0, <2>2, Zenon DEF Ends, EndsOf
  <2>4. T \subseteq Ends(e) /\ Ends(e) \cap T = T
    BY <2>0, Zenon DEF Ends, EndsOf
  <2>5. IsFiniteSet(EndsOf(p, e)) /\ Cardinality(EndsOf(p, e)) \in Nat
    BY FdsFinite, FS_Subset, FS_CardinalityType, Zenon DEF EndsOf
  <2>6. IsFiniteSet({p}) /\ Cardinality({p}) = 1
    BY FS_Singleton, Zenon
  <2>7. IsFiniteSet(T) /\ Cardinality(T) = 1 * Cardinality(EndsOf(p, e))
    BY <2>5, <2>6, FS_Product, Zenon
  <2>8. Cardinality(Ends(e) \ T) = Cardinality(Ends(e)) - Cardinality(Ends(e) \cap T)
    BY EndsFinite, FS_Difference, Zenon
  <2>9. Cardinality(T) <= Cardinality(Ends(e))
    BY <2>4, EndsFinite, FS_Subset, Zenon
  <2>10. EndsOf(p, e) = {} <=> Cardinality(EndsOf(p, e)) = 0
    BY <2>5, FS_EmptySet, Zenon
  <2> HIDE DEF T
  <2>11. Cardinality(T) = Cardinality(EndsOf(p, e))
    BY <2>5, <2>7
  <2>12. Cardinality(Ends(e)') = Cardinality(Ends(e)) - Cardinality(EndsOf(p, e))
    BY <2>3, <2>4, <2>8, <2>11, Zenon
  <2> QED
    BY <2>5, <2>9, <2>10, <2>11, <2>12, Zenon
(* Rebinding one descriptor keeps the counts exact, provided that the pipe *)
(* end it now refers to, if any, is held by another descriptor as well.    *)
<1>RebindExact.
    ASSUME TypeOK, RefcountsExact,
           NEW p \in alive, NEW f \in FDs, NEW n \in Entries,
           NEW o, o = fds[p][f],
           NEW rd, rd = DropReader(readers, o),
           NEW wr, wr = DropWriter(writers, o),
           \A q \in Procs, g \in FDs :
             fds'[q][g] = IF q = p /\ g = f THEN n ELSE fds[q][g],
           alive' = alive,
           readers' = AddReader(rd, n), writers' = AddWriter(wr, n),
           used' = StillUsed(o, rd, wr),
           IsPipe(n) => \E g \in FDs : g # f /\ fds[p][g] = n
    PROVE  /\ readers' \in [Pipe -> Nat] /\ writers' \in [Pipe -> Nat]
           /\ used' \in [Pipe -> BOOLEAN]
           /\ RefcountsExact'
  <2> USE <1>RebindExact
  <2>0. /\ p \in Procs /\ fds \in [Procs -> [FDs -> Entries]] /\ o \in Entries
        /\ readers \in [Pipe -> Nat] /\ writers \in [Pipe -> Nat]
        /\ used \in [Pipe -> BOOLEAN]
        /\ alive \subseteq Procs
    BY DEF TypeOK
  <2>1. \A x \in Pipe : /\ o = ReadEnd(x) => readers[x] > 0
                        /\ o = WriteEnd(x) => writers[x] > 0
    <3>1. Cardinality(Ends(o)) > 0
      BY Zenon, <2>0, EndHeld
    <3> QED
      BY <3>1, Zenon DEF RefcountsExact
  <2>a. \A m \in {o, n}, x \in Pipe :
          /\ m = ReadEnd(x) <=> m[1] = "PIPE_R" /\ m[2] = x
          /\ m = WriteEnd(x) <=> m[1] = "PIPE_W" /\ m[2] = x
    BY <2>0, EntryFacts
  <2>b. \A m \in {o, n} : m[1] \in {"PIPE_R", "PIPE_W"} => m[2] \in Pipe
    BY <2>0, EntryFacts
  <2>2. /\ rd \in [Pipe -> Nat]
        /\ \A x \in Pipe :
             rd[x] = IF o = ReadEnd(x) THEN readers[x] - 1 ELSE readers[x]
    BY <2>0, <2>1, <2>a, <2>b DEF DropReader
  <2>3. /\ wr \in [Pipe -> Nat]
        /\ \A x \in Pipe :
             wr[x] = IF o = WriteEnd(x) THEN writers[x] - 1 ELSE writers[x]
    BY <2>0, <2>1, <2>a, <2>b DEF DropWriter
  <2>4. /\ readers' \in [Pipe -> Nat]
        /\ \A x \in Pipe : readers'[x] = IF n = ReadEnd(x) THEN rd[x] + 1 ELSE rd[x]
    BY <2>2, <2>a, <2>b DEF AddReader
  <2>5. /\ writers' \in [Pipe -> Nat]
        /\ \A x \in Pipe : writers'[x] = IF n = WriteEnd(x) THEN wr[x] + 1 ELSE wr[x]
    BY <2>3, <2>a, <2>b DEF AddWriter
  <2>6. used' \in [Pipe -> BOOLEAN]
        /\ \A x \in Pipe :
             used'[x] <=> used[x] /\ ~(/\ o = ReadEnd(x) \/ o = WriteEnd(x)
                                       /\ rd[x] = 0 /\ wr[x] = 0)
    BY <2>0, <2>a, Zenon DEF StillUsed, IsPipe
  <2>8. ASSUME NEW x \in Pipe, NEW e \in {ReadEnd(x), WriteEnd(x)}, n = e
        PROVE  /\ Cardinality(Ends(e)) > 0
               /\ o = e => Cardinality(Ends(e)) - 1 > 0
    <3>1. PICK g \in FDs : g # f /\ fds[p][g] = e
      BY <2>8, EntryFacts DEF IsPipe
    <3>2. <<p, g>> \in Ends(e) /\ Cardinality(Ends(e)) > 0
      BY <3>1, <2>0, EndHeld, Zenon
    <3>3. ASSUME o = e  PROVE Cardinality(Ends(e)) - 1 > 0
      <4>1. <<p, f>> \in Ends(e)
        BY Zenon, <2>0, <3>3, EndHeld
      <4>2. <<p, g>> # <<p, f>>
        BY <3>1, Zenon
      <4>3. /\ IsFiniteSet(Ends(e) \ {<<p, f>>})
            /\ Cardinality(Ends(e) \ {<<p, f>>}) = Cardinality(Ends(e)) - 1
        BY <4>1, EndsFinite, FS_RemoveElement, Zenon
      <4>4. Ends(e) \ {<<p, f>>} # {}
        BY <3>2, <4>2, Zenon
      <4>5. Cardinality(Ends(e) \ {<<p, f>>}) # 0
        BY <4>3, <4>4, FS_EmptySet, Zenon
      <4> QED
        BY <4>3, <4>5, <3>2, EndsFinite
    <3> QED
      BY <3>2, <3>3, Zenon
  <2>c. ASSUME NEW e
        PROVE  Cardinality(Ends(e)') =
                 IF e = n /\ fds[p][f] # e THEN Cardinality(Ends(e)) + 1
                 ELSE IF e # n /\ fds[p][f] = e THEN Cardinality(Ends(e)) - 1
                 ELSE Cardinality(Ends(e))
    BY <1>EndsMoved
  <2>9. ASSUME NEW x \in Pipe
        PROVE  /\ readers'[x] = Cardinality(Ends(ReadEnd(x))')
               /\ writers'[x] = Cardinality(Ends(WriteEnd(x))')
               /\ used'[x] <=> (readers'[x] > 0 \/ writers'[x] > 0)
    <3>1. /\ readers[x] = Cardinality(Ends(ReadEnd(x)))
          /\ writers[x] = Cardinality(Ends(WriteEnd(x)))
          /\ used[x] <=> (readers[x] > 0 \/ writers[x] > 0)
      BY Zenon DEF RefcountsExact
    <3>2. readers'[x] = Cardinality(Ends(ReadEnd(x))')
      <4>0. Cardinality(Ends(ReadEnd(x))') =
              IF ReadEnd(x) = n /\ fds[p][f] # ReadEnd(x)
                THEN Cardinality(Ends(ReadEnd(x))) + 1
              ELSE IF ReadEnd(x) # n /\ fds[p][f] = ReadEnd(x)
                THEN Cardinality(Ends(ReadEnd(x))) - 1
              ELSE Cardinality(Ends(ReadEnd(x)))
        BY <2>c, Zenon
      <4>1. Cardinality(Ends(ReadEnd(x))') =
              IF ReadEnd(x) = n /\ o # ReadEnd(x) THEN readers[x] + 1
              ELSE IF ReadEnd(x) # n /\ o = ReadEnd(x) THEN readers[x] - 1
              ELSE readers[x]
        BY <3>1, <4>0, Zenon
      <4> QED
        BY <4>1, <2>0, <2>2, <2>4
    <3>3. writers'[x] = Cardinality(Ends(WriteEnd(x))')
      <4>0. Cardinality(Ends(WriteEnd(x))') =
              IF WriteEnd(x) = n /\ fds[p][f] # WriteEnd(x)
                THEN Cardinality(Ends(WriteEnd(x))) + 1
              ELSE IF WriteEnd(x) # n /\ fds[p][f] = WriteEnd(x)
                THEN Cardinality(Ends(WriteEnd(x))) - 1
              ELSE Cardinality(Ends(WriteEnd(x)))
        BY <2>c, Zenon
      <4>1. Cardinality(Ends(WriteEnd(x))') =
              IF WriteEnd(x) = n /\ o # WriteEnd(x) THEN writers[x] + 1
              ELSE IF WriteEnd(x) # n /\ o = WriteEnd(x) THEN writers[x] - 1
              ELSE writers[x]
        BY <3>1, <4>0, Zenon
      <4> QED
        BY <4>1, <2>0, <2>3, <2>5
    <3>4. n = ReadEnd(x) => rd[x] > 0
      BY <2>8, <3>1, <2>2
    <3>5. n = WriteEnd(x) => wr[x] > 0
      BY <2>8, <3>1, <2>3
    <3>6. used'[x] <=> (readers'[x] > 0 \/ writers'[x] > 0)
      <4>1. rd[x] \in Nat /\ wr[x] \in Nat /\ readers[x] \in Nat /\ writers[x] \in Nat
        BY <2>0, <2>2, <2>3, Zenon
      <4>2. used'[x] <=> rd[x] > 0 \/ wr[x] > 0
        BY <4>1, <3>1, <2>1, <2>2, <2>3, <2>6
      <4> QED
        BY <4>1, <4>2, <3>4, <3>5, <2>4, <2>5
    <3> QED
      BY <3>2, <3>3, <3>6, Zenon
  <2>10. RefcountsExact'
    BY <2>9, Zenon DEF RefcountsExact
  <2> QED
    BY <2>4, <2>5, <2>6, <2>10, Zenon
(* A step of another process leaves a blocked one its descriptors, and so  *)
(* its pipe.                                                               *)
<1>BlockedKept.
    ASSUME TypeOK, BlockedPipeStays, RefcountsExact', alive' \subseteq Procs,
           op' = op, on' = on,
           \A q \in Procs : op[q] # "none" => q \in alive' /\ fds'[q] = fds[q]
    PROVE  BlockedPipeStays'
  <2> USE <1>BlockedKept
  <2> SUFFICES ASSUME NEW q \in Procs, op[q] # "none"
               PROVE  /\ q \in alive' /\ used'[on[q]]
                      /\ op[q] = "read" => EndsOf(q, ReadEnd(on[q]))' # {}
                      /\ op[q] = "write" => EndsOf(q, WriteEnd(on[q]))' # {}
    BY Zenon DEF BlockedPipeStays
  <2>1. on[q] \in Pipe /\ op[q] \in {"read", "write"}
    BY Zenon DEF TypeOK
  <2>2. \A e : EndsOf(q, e)' = EndsOf(q, e)
    BY Zenon DEF EndsOf
  <2>3. /\ op[q] = "read" => EndsOf(q, ReadEnd(on[q]))' # {}
        /\ op[q] = "write" => EndsOf(q, WriteEnd(on[q]))' # {}
    BY <2>2, Zenon DEF BlockedPipeStays
  <2>4. PICK f \in FDs : \/ fds'[q][f] = ReadEnd(on[q])
                         \/ fds'[q][f] = WriteEnd(on[q])
    BY <2>1, <2>3, Zenon DEF EndsOf
  <2>5. \/ Cardinality(Ends(ReadEnd(on[q]))') > 0
        \/ Cardinality(Ends(WriteEnd(on[q]))') > 0
    BY <2>4, <1>EndHeldNext, Zenon
  <2>6. used'[on[q]]
    BY <2>1, <2>5, Zenon DEF RefcountsExact
  <2> QED
    BY <2>3, <2>6, Zenon
(* A step outside pipe_read and pipe_write that keeps the counts exact and *)
(* touches no blocked process keeps the rest of the invariant.             *)
<1>PlainInv.
    ASSUME Inv,
           alive' \subseteq Procs, fds' \in [Procs -> [FDs -> Entries]],
           readers' \in [Pipe -> Nat], writers' \in [Pipe -> Nat],
           used' \in [Pipe -> BOOLEAN], RefcountsExact',
           \A q \in Procs : op[q] # "none" => q \in alive' /\ fds'[q] = fds[q],
           buf' = buf, head' \in [Pipe -> Slots], tail' \in [Pipe -> Slots],
           count' \in [Pipe -> 0..PIPE_CAP], RingConsistent',
           UNCHANGED opVars, xfer' = NoXfer
    PROVE  Inv'
  <2> USE <1>PlainInv
  <2>1. TypeOK'
    <3>1. NoXfer \in [op : {"none", "read", "write"}, pipe : Pipe,
                      bytes : Seq(Byte), short : BOOLEAN]
      BY SizesAssumption DEF NoXfer, Pipe
    <3> QED
      BY <3>1, Zenon DEF Inv, TypeOK, opVars
  <2>2. BlockedPipeStays'
    BY <1>BlockedKept, Zenon DEF Inv, opVars
  <2>3. ShortTransferJustified'
    BY Zenon DEF ShortTransferJustified, NoXfer
  <2> QED
    BY <2>1, <2>2, <2>3, Zenon DEF Inv
(* The same for the steps that bind one descriptor of one process anew.    *)
<1>RebindInv.
    ASSUME Inv, NEW p \in Procs, InUser(p), NEW f \in FDs, NEW n \in Entries,
           NEW o, o = fds[p][f],
           fds' \in [Procs -> [FDs -> Entries]],
           \A q \in Procs, g \in FDs :
             fds'[q][g] = IF q = p /\ g = f THEN n ELSE fds[q][g],
           readers' = AddReader(DropReader(readers, o), n),
           writers' = AddWriter(DropWriter(writers, o), n),
           used' = StillUsed(o, DropReader(readers, o), DropWriter(writers, o)),
           IsPipe(n) => \E g \in FDs : g # f /\ fds[p][g] = n,
           UNCHANGED <<alive, ringVars, opVars>>, xfer' = NoXfer
    PROVE  Inv'
  <2> USE <1>RebindInv
  <2>1. TypeOK /\ RefcountsExact /\ p \in alive /\ alive' = alive /\ op[p] = "none"
    BY Zenon DEF Inv, InUser
  <2>2. /\ readers' \in [Pipe -> Nat] /\ writers' \in [Pipe -> Nat]
        /\ used' \in [Pipe -> BOOLEAN]
        /\ RefcountsExact'
    BY Zenon, <2>1, <1>RebindExact
  <2>3. \A q \in Procs : q # p => fds'[q] = fds[q]
    <3> SUFFICES ASSUME NEW q \in Procs, q # p  PROVE fds'[q] = fds[q]
      BY Zenon
    <3>1. fds[q] \in [FDs -> Entries] /\ fds'[q] \in [FDs -> Entries]
      BY <2>1, Zenon DEF TypeOK
    <3> QED
      BY <3>1
  <2>4. \A q \in Procs : op[q] # "none" => q \in alive' /\ fds'[q] = fds[q]
    BY <2>1, <2>3, Zenon DEF Inv, BlockedPipeStays
  <2>5. /\ buf' = buf /\ head' \in [Pipe -> Slots] /\ tail' \in [Pipe -> Slots]
        /\ count' \in [Pipe -> 0..PIPE_CAP] /\ RingConsistent'
        /\ alive' \subseteq Procs
    BY <2>1, Zenon DEF Inv, TypeOK, RingConsistent, ringVars
  <2>6. UNCHANGED opVars
    BY Zenon
  <2> QED
    BY <2>2, <2>4, <2>5, <2>6, <1>PlainInv, Zenon
<1>OpenInv.
    ASSUME Inv, NEW p \in Procs, NEW k \in OpenKinds, sys_open(p, k)
    PROVE  Inv'
  <2> USE <1>OpenInv
  <2> DEFINE S == {f \in ClosedFds(p) : f >= 3}
             f == Least(S)
             n == <<k, 0>>
  <2>1. TypeOK /\ InUser(p)
    BY Zenon DEF Inv, sys_open
  <2>2. f \in FDs /\ fds[p][f] = Closed
    <3>1. S \in SUBSET Nat /\ S # {}
      BY SizesAssumption DEF sys_open, ClosedFds, FDs
    <3>2. f \in S
      BY <3>1, LeastIn, Zenon
    <3> QED
      BY <3>2, Zenon DEF ClosedFds
  <2>3. n \in Entries /\ ~IsPipe(n)
    BY OpenAssumption, Zenon DEF Entries, Other, Tty, IsPipe
  <2>4. fds' = [fds EXCEPT ![p][f] = n]
    BY Zenon DEF sys_open
  <2> HIDE DEF f, n, S
  <2>5. /\ fds' \in [Procs -> [FDs -> Entries]]
        /\ \A q \in Procs, g \in FDs :
             fds'[q][g] = IF q = p /\ g = f THEN n ELSE fds[q][g]
    BY <2>1, <2>2, <2>3, <2>4 DEF TypeOK
  <2>6. /\ DropReader(readers, Closed) = readers
        /\ DropWriter(writers, Closed) = writers
        /\ AddReader(readers, n) = readers /\ AddWriter(writers, n) = writers
    BY <2>3, Zenon DEF DropReader, DropWriter, AddReader, AddWriter, Closed, IsPipe
  <2>7. StillUsed(Closed, readers, writers) = used
    BY <2>1, Zenon DEF StillUsed, IsPipe, Closed, TypeOK
  <2>8. /\ readers' = readers /\ writers' = writers /\ used' = used
        /\ UNCHANGED <<alive, ringVars, opVars>> /\ xfer' = NoXfer
    BY Zenon DEF sys_open, refVars
  <2> QED
    BY <2>1, <2>2, <2>3, <2>5, <2>6, <2>7, <2>8, <1>RebindInv
<1>CloseInv.
    ASSUME Inv, NEW p \in Procs, NEW f \in FDs, sys_close(p, f)
    PROVE  Inv'
  <2> USE <1>CloseInv
  <2>1. TypeOK /\ InUser(p)
    BY Zenon DEF Inv, sys_close
  <2>2. Closed \in Entries /\ ~IsPipe(Closed)
    BY Zenon DEF Entries, Closed, IsPipe
  <2>3. /\ fds' \in [Procs -> [FDs -> Entries]]
        /\ \A q \in Procs, g \in FDs :
             fds'[q][g] = IF q = p /\ g = f THEN Closed ELSE fds[q][g]
    BY <2>1, <2>2 DEF TypeOK, sys_close
  <2>4. \A r : AddReader(r, Closed) = r /\ AddWriter(r, Closed) = r
    BY Zenon DEF AddReader, AddWriter, Closed
  <2>5. /\ readers' = DropReader(readers, fds[p][f])
        /\ writers' = DropWriter(writers, fds[p][f])
        /\ used' = StillUsed(fds[p][f], DropReader(readers, fds[p][f]),
                             DropWriter(writers, fds[p][f]))
        /\ UNCHANGED <<alive, ringVars, opVars>> /\ xfer' = NoXfer
    BY Zenon DEF sys_close
  <2> QED
    BY <2>1, <2>2, <2>3, <2>4, <2>5, <1>RebindInv
<1>DupInv.
    ASSUME Inv, NEW p \in Procs, NEW f \in FDs, sys_dup(p, f)
    PROVE  Inv'
  <2> USE <1>DupInv
  <2> DEFINE g == Least(ClosedFds(p))
             n == fds[p][f]
  <2>1. TypeOK /\ InUser(p)
    BY Zenon DEF Inv, sys_dup
  <2>2. g \in FDs /\ fds[p][g] = Closed /\ n # Closed
    <3>1. ClosedFds(p) \in SUBSET Nat /\ ClosedFds(p) # {}
      BY SizesAssumption DEF sys_dup, ClosedFds, FDs
    <3>2. g \in ClosedFds(p)
      BY <3>1, LeastIn, Zenon
    <3> QED
      BY <3>2, Zenon DEF ClosedFds, sys_dup
  <2>3. n \in Entries /\ f # g /\ fds[p][f] = n
    BY <2>1, <2>2 DEF TypeOK
  <2>4. fds' = [fds EXCEPT ![p][g] = n]
    BY Zenon DEF sys_dup
  <2>5. /\ readers' = AddReader(readers, n) /\ writers' = AddWriter(writers, n)
        /\ used' = used
        /\ UNCHANGED <<alive, ringVars, opVars>> /\ xfer' = NoXfer
    BY Zenon DEF sys_dup
  <2> HIDE DEF g, n
  <2>6. /\ fds' \in [Procs -> [FDs -> Entries]]
        /\ \A q \in Procs, h \in FDs :
             fds'[q][h] = IF q = p /\ h = g THEN n ELSE fds[q][h]
    BY <2>1, <2>2, <2>3, <2>4, Zenon DEF TypeOK
  <2>7. /\ DropReader(readers, Closed) = readers
        /\ DropWriter(writers, Closed) = writers
    BY Zenon DEF DropReader, DropWriter, Closed
  <2>8. StillUsed(Closed, readers, writers) = used
    BY <2>1, Zenon DEF StillUsed, IsPipe, Closed, TypeOK
  <2> QED
    BY <2>1, <2>2, <2>3, <2>5, <2>6, <2>7, <2>8, <1>RebindInv
<1>Dup2Inv.
    ASSUME Inv, NEW p \in Procs, NEW oldfd \in FDs, NEW newfd \in FDs,
           sys_dup2(p, oldfd, newfd)
    PROVE  Inv'
  <2> USE <1>Dup2Inv
  <2> DEFINE n == fds[p][oldfd]
             o == fds[p][newfd]
  <2>1. TypeOK /\ InUser(p) /\ oldfd # newfd
    BY Zenon DEF Inv, sys_dup2
  <2>2. n \in Entries /\ fds[p][oldfd] = n
    BY <2>1 DEF TypeOK
  <2>3. fds' = [fds EXCEPT ![p][newfd] = n]
    BY Zenon DEF sys_dup2
  <2>4. /\ readers' = AddReader(DropReader(readers, o), n)
        /\ writers' = AddWriter(DropWriter(writers, o), n)
        /\ used' = StillUsed(o, DropReader(readers, o), DropWriter(writers, o))
        /\ UNCHANGED <<alive, ringVars, opVars>> /\ xfer' = NoXfer
    BY Zenon DEF sys_dup2
  <2>5. o = fds[p][newfd]
    BY Zenon
  <2> HIDE DEF n, o
  <2>6. /\ fds' \in [Procs -> [FDs -> Entries]]
        /\ \A q \in Procs, h \in FDs :
             fds'[q][h] = IF q = p /\ h = newfd THEN n ELSE fds[q][h]
    BY <2>1, <2>2, <2>3 DEF TypeOK
  <2> QED
    BY <2>1, <2>2, <2>4, <2>5, <2>6, <1>RebindInv, Zenon
<1>ForkInv.
    ASSUME Inv, NEW p \in Procs, NEW c \in Procs, sys_fork(p, c)
    PROVE  Inv'
  <2> USE <1>ForkInv
  <2>1. TypeOK /\ RefcountsExact /\ p \in alive /\ c \in Procs \ alive
        /\ alive' = alive \cup {c} /\ alive \subseteq Procs
    BY Zenon DEF Inv, TypeOK, sys_fork, InUser
  <2>2. /\ fds' \in [Procs -> [FDs -> Entries]]
        /\ fds'[c] = fds[p] /\ \A q \in Procs \ {c} : fds'[q] = fds[q]
    BY <2>1, Zenon DEF TypeOK, sys_fork
  <2>3. ASSUME NEW e
        PROVE  /\ Cardinality(EndsOf(p, e)) \in Nat
               /\ Cardinality(EndsOf(p, e)) > 0 => Cardinality(Ends(e)) > 0
               /\ Cardinality(Ends(e)') =
                    Cardinality(Ends(e)) + Cardinality(EndsOf(p, e))
    BY <2>1, <2>2, <1>EndsForked, Zenon
  <2>4. ASSUME NEW x \in Pipe
        PROVE  /\ readers'[x] = readers[x] + Cardinality(EndsOf(p, ReadEnd(x)))
               /\ writers'[x] = writers[x] + Cardinality(EndsOf(p, WriteEnd(x)))
               /\ used'[x] = used[x]
    BY Zenon DEF sys_fork
  <2>5. /\ readers' \in [Pipe -> Nat] /\ writers' \in [Pipe -> Nat]
        /\ used' \in [Pipe -> BOOLEAN]
    <3>1. readers' \in [Pipe -> Nat]
      <4>1. ASSUME NEW x \in Pipe
            PROVE  readers[x] + Cardinality(EndsOf(p, ReadEnd(x))) \in Nat
        <5>1. Cardinality(EndsOf(p, ReadEnd(x))) \in Nat
          BY <2>3, Zenon
        <5>2. readers[x] \in Nat
          BY <2>1, Zenon DEF TypeOK
        <5> QED
          BY <5>1, <5>2
      <4> QED
        BY <4>1, Zenon DEF sys_fork
    <3>2. writers' \in [Pipe -> Nat]
      <4>1. ASSUME NEW x \in Pipe
            PROVE  writers[x] + Cardinality(EndsOf(p, WriteEnd(x))) \in Nat
        <5>1. Cardinality(EndsOf(p, WriteEnd(x))) \in Nat
          BY <2>3, Zenon
        <5>2. writers[x] \in Nat
          BY <2>1, Zenon DEF TypeOK
        <5> QED
          BY <5>1, <5>2
      <4> QED
        BY <4>1, Zenon DEF sys_fork
    <3>3. used' \in [Pipe -> BOOLEAN]
      BY <2>1, Zenon DEF TypeOK, sys_fork
    <3> QED
      BY <3>1, <3>2, <3>3, Zenon
  <2>6. ASSUME NEW x \in Pipe
        PROVE  /\ readers'[x] = Cardinality(Ends(ReadEnd(x))')
               /\ writers'[x] = Cardinality(Ends(WriteEnd(x))')
               /\ used'[x] <=> (readers'[x] > 0 \/ writers'[x] > 0)
    <3>1. /\ readers[x] = Cardinality(Ends(ReadEnd(x)))
          /\ writers[x] = Cardinality(Ends(WriteEnd(x)))
          /\ used[x] <=> (readers[x] > 0 \/ writers[x] > 0)
          /\ readers[x] \in Nat /\ writers[x] \in Nat
      BY <2>1, Zenon DEF RefcountsExact, TypeOK
    <3>2. /\ Cardinality(EndsOf(p, ReadEnd(x))) \in Nat
          /\ Cardinality(EndsOf(p, ReadEnd(x))) > 0 => readers[x] > 0
          /\ Cardinality(Ends(ReadEnd(x))') =
               readers[x] + Cardinality(EndsOf(p, ReadEnd(x)))
      BY <2>3, <3>1, Zenon
    <3>3. /\ Cardinality(EndsOf(p, WriteEnd(x))) \in Nat
          /\ Cardinality(EndsOf(p, WriteEnd(x))) > 0 => writers[x] > 0
          /\ Cardinality(Ends(WriteEnd(x))') =
               writers[x] + Cardinality(EndsOf(p, WriteEnd(x)))
      BY <2>3, <3>1, Zenon
    <3> QED
      BY <2>4, <3>1, <3>2, <3>3
  <2>7. RefcountsExact'
    BY <2>6, Zenon DEF RefcountsExact
  <2>8. \A q \in Procs : op[q] # "none" => q \in alive' /\ fds'[q] = fds[q]
    BY <2>1, <2>2, Zenon DEF Inv, BlockedPipeStays
  <2>9. /\ buf' = buf /\ head' \in [Pipe -> Slots] /\ tail' \in [Pipe -> Slots]
        /\ count' \in [Pipe -> 0..PIPE_CAP] /\ RingConsistent'
        /\ UNCHANGED opVars /\ xfer' = NoXfer /\ alive' \subseteq Procs
    BY <2>1, Zenon DEF Inv, TypeOK, RingConsistent, sys_fork, ringVars
  <2> QED
    BY <2>2, <2>5, <2>7, <2>8, <2>9, <1>PlainInv, Zenon
<1>ExitInv.
    ASSUME Inv, NEW p \in Procs, sys_exit(p)
    PROVE  Inv'
  <2> USE <1>ExitInv
  <2>1. TypeOK /\ RefcountsExact /\ p \in alive /\ op[p] = "none"
        /\ alive' = alive \ {p} /\ alive \subseteq Procs
    BY Zenon DEF Inv, TypeOK, sys_exit, InUser
  <2>2. /\ fds' \in [Procs -> [FDs -> Entries]]
        /\ \A q \in Procs \ {p} : fds'[q] = fds[q]
    <3>1. ConsoleFds \in [FDs -> Entries]
      BY EntryFacts, Zenon DEF ConsoleFds
    <3> QED
      BY <2>1, <3>1, Zenon DEF TypeOK, sys_exit
  <2>3. ASSUME NEW e
        PROVE  /\ Cardinality(EndsOf(p, e)) \in Nat
               /\ EndsOf(p, e) = {} <=> Cardinality(EndsOf(p, e)) = 0
               /\ Cardinality(EndsOf(p, e)) <= Cardinality(Ends(e))
               /\ Cardinality(Ends(e)') =
                    Cardinality(Ends(e)) - Cardinality(EndsOf(p, e))
    BY <2>1, <2>2, <1>EndsDropped, Zenon
  <2>4. ASSUME NEW x \in Pipe
        PROVE  /\ readers'[x] =
                    DropMany(readers[x], Cardinality(EndsOf(p, ReadEnd(x))))
               /\ writers'[x] =
                    DropMany(writers[x], Cardinality(EndsOf(p, WriteEnd(x))))
               /\ used'[x] <=>
                    /\ used[x]
                    /\ ~ /\ \/ EndsOf(p, ReadEnd(x)) # {}
                            \/ EndsOf(p, WriteEnd(x)) # {}
                         /\ readers'[x] = 0 /\ writers'[x] = 0
    BY <2>1, Zenon DEF sys_exit, TypeOK
  <2>5. /\ readers' \in [Pipe -> Nat] /\ writers' \in [Pipe -> Nat]
        /\ used' \in [Pipe -> BOOLEAN]
    <3>1. \A n, k \in Nat : DropMany(n, k) \in Nat
      BY DEF DropMany
    <3>2. readers' \in [Pipe -> Nat]
      BY <2>1, <2>3, <3>1, Zenon DEF TypeOK, sys_exit
    <3>3. writers' \in [Pipe -> Nat]
      BY <2>1, <2>3, <3>1, Zenon DEF TypeOK, sys_exit
    <3>4. used' \in [Pipe -> BOOLEAN]
      BY <2>1, Zenon DEF TypeOK, sys_exit
    <3> QED
      BY <3>2, <3>3, <3>4, Zenon
  <2>6. ASSUME NEW x \in Pipe
        PROVE  /\ readers'[x] = Cardinality(Ends(ReadEnd(x))')
               /\ writers'[x] = Cardinality(Ends(WriteEnd(x))')
               /\ used'[x] <=> (readers'[x] > 0 \/ writers'[x] > 0)
    <3>1. /\ readers[x] = Cardinality(Ends(ReadEnd(x)))
          /\ writers[x] = Cardinality(Ends(WriteEnd(x)))
          /\ used[x] <=> (readers[x] > 0 \/ writers[x] > 0)
          /\ readers[x] \in Nat /\ writers[x] \in Nat
      BY <2>1, Zenon DEF RefcountsExact, TypeOK
    <3>2. \A n, k \in Nat : k <= n => DropMany(n, k) = n - k
      BY DEF DropMany
    <3>3. /\ Cardinality(EndsOf(p, ReadEnd(x))) \in Nat
          /\ EndsOf(p, ReadEnd(x)) = {} <=> Cardinality(EndsOf(p, ReadEnd(x))) = 0
          /\ Cardinality(EndsOf(p, ReadEnd(x))) <= readers[x]
          /\ Cardinality(Ends(ReadEnd(x))') =
               readers[x] - Cardinality(EndsOf(p, ReadEnd(x)))
      BY <2>3, <3>1, Zenon
    <3>4. /\ Cardinality(EndsOf(p, WriteEnd(x))) \in Nat
          /\ EndsOf(p, WriteEnd(x)) = {} <=> Cardinality(EndsOf(p, WriteEnd(x))) = 0
          /\ Cardinality(EndsOf(p, WriteEnd(x))) <= writers[x]
          /\ Cardinality(Ends(WriteEnd(x))') =
               writers[x] - Cardinality(EndsOf(p, WriteEnd(x)))
      BY <2>3, <3>1, Zenon
    <3>5. /\ readers'[x] = readers[x] - Cardinality(EndsOf(p, ReadEnd(x)))
          /\ writers'[x] = writers[x] - Cardinality(EndsOf(p, WriteEnd(x)))
      BY Zenon, <2>4, <3>1, <3>2, <3>3, <3>4
    <3>6. used'[x] <=> (readers'[x] > 0 \/ writers'[x] > 0)
      BY <2>4, <3>1, <3>3, <3>4, <3>5
    <3> QED
      BY <3>3, <3>4, <3>5, <3>6, Zenon
  <2>7. RefcountsExact'
    BY <2>6, Zenon DEF RefcountsExact
  <2>8. \A q \in Procs : op[q] # "none" => q \in alive' /\ fds'[q] = fds[q]
    BY <2>1, <2>2, Zenon DEF Inv, BlockedPipeStays
  <2>9. /\ buf' = buf /\ head' \in [Pipe -> Slots] /\ tail' \in [Pipe -> Slots]
        /\ count' \in [Pipe -> 0..PIPE_CAP] /\ RingConsistent'
        /\ UNCHANGED opVars /\ xfer' = NoXfer /\ alive' \subseteq Procs
    BY <2>1, Zenon DEF Inv, TypeOK, RingConsistent, sys_exit, ringVars
  <2> QED
    BY Zenon, <2>2, <2>5, <2>7, <2>8, <2>9, <1>PlainInv
(* The pipe sys_pipe takes has no descriptor left, and its two descriptors *)
(* are different ones.                                                     *)
<1>PipeInv.
    ASSUME Inv, NEW p \in Procs, sys_pipe(p)
    PROVE  Inv'
  <2> USE <1>PipeInv
  <2> DEFINE free == Least(Free)
             first == Least(ClosedFds(p))
             second == Least(ClosedFds(p) \ {first})
  <2>1. TypeOK /\ RefcountsExact /\ p \in alive /\ op[p] = "none"
        /\ alive' = alive /\ alive \subseteq Procs
    BY Zenon DEF Inv, TypeOK, sys_pipe, InUser
  <2>a. free \in Pipe /\ ~used[free]
    <3>1. Free \in SUBSET Nat /\ Free # {}
      BY SizesAssumption DEF sys_pipe, Free, Pipe
    <3>2. free \in Free
      BY <3>1, LeastIn, Zenon
    <3> QED
      BY <3>2, Zenon DEF Free
  <2>b. /\ first \in FDs /\ second \in FDs /\ first # second
        /\ fds[p][first] = Closed /\ fds[p][second] = Closed
    <3>1. /\ ClosedFds(p) \in SUBSET Nat /\ ClosedFds(p) \in SUBSET FDs
          /\ Cardinality(ClosedFds(p)) >= 2
      BY SizesAssumption DEF sys_pipe, ClosedFds, FDs
    <3>2. IsFiniteSet(ClosedFds(p))
      BY <3>1, FdsFinite, FS_Subset, Zenon
    <3>3. ClosedFds(p) # {}
      BY <3>1, <3>2, FS_EmptySet
    <3>4. first \in ClosedFds(p)
      BY <3>1, <3>3, LeastIn, Zenon
    <3>5. /\ IsFiniteSet(ClosedFds(p) \ {first})
          /\ Cardinality(ClosedFds(p) \ {first}) = Cardinality(ClosedFds(p)) - 1
      BY <3>2, <3>4, FS_RemoveElement, Zenon
    <3>6. Cardinality(ClosedFds(p) \ {first}) # 0
      BY <3>1, <3>2, <3>5, FS_CardinalityType
    <3>7. ClosedFds(p) \ {first} # {} /\ ClosedFds(p) \ {first} \in SUBSET Nat
      BY <3>1, <3>6, FS_EmptySet, Zenon
    <3>8. second \in ClosedFds(p) \ {first}
      BY <3>7, LeastIn, Zenon
    <3> QED
      BY <3>4, <3>8, Zenon DEF ClosedFds
  <2>c. fds' = [fds EXCEPT ![p][first] = ReadEnd(free), ![p][second] = WriteEnd(free)]
    BY Zenon DEF sys_pipe
  <2>d. /\ readers' = [readers EXCEPT ![free] = 1]
        /\ writers' = [writers EXCEPT ![free] = 1]
        /\ used' = [used EXCEPT ![free] = TRUE]
        /\ head' = [head EXCEPT ![free] = 0] /\ tail' = [tail EXCEPT ![free] = 0]
        /\ count' = [count EXCEPT ![free] = 0] /\ buf' = buf
        /\ UNCHANGED opVars /\ xfer' = NoXfer
    BY Zenon DEF sys_pipe, ResetRing
  <2> HIDE DEF free, first, second
  <2>e. PICK x \in Pipe, rfd \in FDs, wfd \in FDs :
          x = free /\ rfd = first /\ wfd = second
    BY <2>a, <2>b, Zenon
  <2>2. x \in Pipe /\ ~used[x]
    BY <2>a, <2>e, Zenon
  <2>3. /\ rfd \in FDs /\ wfd \in FDs /\ rfd # wfd
        /\ fds[p][rfd] = Closed /\ fds[p][wfd] = Closed
    BY <2>b, <2>e, Zenon
  <2>4. fds' = [fds EXCEPT ![p][rfd] = ReadEnd(x), ![p][wfd] = WriteEnd(x)]
    BY <2>c, <2>e, Zenon
  <2>5. /\ readers' = [readers EXCEPT ![x] = 1]
        /\ writers' = [writers EXCEPT ![x] = 1]
        /\ used' = [used EXCEPT ![x] = TRUE]
        /\ head' = [head EXCEPT ![x] = 0] /\ tail' = [tail EXCEPT ![x] = 0]
        /\ count' = [count EXCEPT ![x] = 0] /\ buf' = buf
        /\ UNCHANGED opVars /\ xfer' = NoXfer
    BY <2>d, <2>e, Zenon
  <2>6. /\ fds' \in [Procs -> [FDs -> Entries]]
        /\ \A q \in Procs, g \in FDs :
             fds'[q][g] = IF q = p /\ g = rfd THEN ReadEnd(x)
                          ELSE IF q = p /\ g = wfd THEN WriteEnd(x)
                          ELSE fds[q][g]
    BY <2>1, <2>2, <2>3, <2>4, EntryFacts DEF TypeOK
  <2>7. \A q \in Procs : op[q] # "none" => q \in alive' /\ fds'[q] = fds[q]
    BY <2>1, <2>4, Zenon DEF Inv, BlockedPipeStays, TypeOK
  <2>8. /\ readers' \in [Pipe -> Nat] /\ writers' \in [Pipe -> Nat]
        /\ used' \in [Pipe -> BOOLEAN]
        /\ head' \in [Pipe -> Slots] /\ tail' \in [Pipe -> Slots]
        /\ count' \in [Pipe -> 0..PIPE_CAP]
    <3>1. 0 \in Slots /\ 0 \in 0..PIPE_CAP
      BY SizesAssumption DEF Slots
    <3>2. /\ readers' \in [Pipe -> Nat] /\ writers' \in [Pipe -> Nat]
          /\ used' \in [Pipe -> BOOLEAN]
      BY <2>1, <2>2, <2>5, Zenon DEF TypeOK
    <3>3. head' \in [Pipe -> Slots] /\ tail' \in [Pipe -> Slots]
      BY <2>1, <2>2, <2>5, <3>1, Zenon DEF TypeOK
    <3>4. count' \in [Pipe -> 0..PIPE_CAP]
      BY <2>1, <2>2, <2>5, <3>1, Zenon DEF TypeOK
    <3> QED
      BY <3>2, <3>3, <3>4, Zenon
  <2>9. RingConsistent'
    <3>1. 0 % PIPE_CAP = 0
      BY SizesAssumption, ModFacts
    <3>2. \A y \in Pipe : tail'[y] = (head'[y] + count'[y]) % PIPE_CAP
      <4>1. head'[x] = 0 /\ tail'[x] = 0 /\ count'[x] = 0
        BY <2>1, <2>2, <2>5, Zenon DEF TypeOK
      <4>2. \A y \in Pipe : y # x =>
              head'[y] = head[y] /\ tail'[y] = tail[y] /\ count'[y] = count[y]
        BY <2>1, <2>2, <2>5, Zenon DEF TypeOK
      <4>3. 0 + 0 = 0
        OBVIOUS
      <4> QED
        BY <3>1, <4>1, <4>2, <4>3, Zenon DEF Inv, RingConsistent
    <3> QED
      BY <3>2, Zenon DEF RingConsistent
  <2>10. readers[x] = 0 /\ writers[x] = 0
         /\ Ends(ReadEnd(x)) = {} /\ Ends(WriteEnd(x)) = {}
    <3>1. readers[x] = 0 /\ writers[x] = 0
      BY <2>1, <2>2 DEF RefcountsExact, TypeOK
    <3> QED
      BY <3>1, <2>1, <2>2, EndsFinite, FS_EmptySet, Zenon DEF RefcountsExact
  <2>11. \A e : Ends(e)' = {r \in Procs \X FDs : r[1] \in alive /\ fds'[r[1]][r[2]] = e}
    BY <2>1, Zenon DEF Ends
  <2>12. Ends(ReadEnd(x))' = {<<p, rfd>>} /\ Ends(WriteEnd(x))' = {<<p, wfd>>}
    <3>1. ReadEnd(x) # WriteEnd(x)
      BY <2>2, EntryFacts, Zenon
    <3> QED
      BY <2>1, <2>3, <2>6, <2>10, <2>11, <3>1 DEF Ends
  <2>13. ASSUME NEW e, e # Closed, e # ReadEnd(x), e # WriteEnd(x)
         PROVE  Ends(e)' = Ends(e)
    <3>1. Ends(e)' = {r \in Procs \X FDs : r[1] \in alive /\ fds'[r[1]][r[2]] = e}
      BY <2>11, Zenon
    <3>2. \A q \in Procs, g \in FDs : fds'[q][g] = e <=> fds[q][g] = e
      BY <2>3, <2>6, <2>13, Zenon
    <3>3. \A r \in Procs \X FDs : fds'[r[1]][r[2]] = e <=> fds[r[1]][r[2]] = e
      BY <3>2, Zenon
    <3> QED
      BY <3>1, <3>3, Zenon DEF Ends
  <2>14. ASSUME NEW y \in Pipe
         PROVE  /\ readers'[y] = Cardinality(Ends(ReadEnd(y))')
                /\ writers'[y] = Cardinality(Ends(WriteEnd(y))')
                /\ used'[y] <=> (readers'[y] > 0 \/ writers'[y] > 0)
    <3>1. CASE y = x
      <4>1. readers'[x] = 1 /\ writers'[x] = 1 /\ used'[x]
        BY <2>1, <2>2, <2>5, Zenon DEF TypeOK
      <4>2. Cardinality({<<p, rfd>>}) = 1 /\ Cardinality({<<p, wfd>>}) = 1
        BY FS_Singleton, Zenon
      <4> QED
        BY <3>1, <2>12, <4>1, <4>2
    <3>2. CASE y # x
      <4>1. readers'[y] = readers[y] /\ writers'[y] = writers[y] /\ used'[y] = used[y]
        BY <2>1, <2>2, <2>5, <3>2, Zenon DEF TypeOK
      <4>2. Ends(ReadEnd(y))' = Ends(ReadEnd(y)) /\ Ends(WriteEnd(y))' = Ends(WriteEnd(y))
        BY <2>2, <2>13, <3>2, EntryFacts
      <4> QED
        BY <2>1, <4>1, <4>2, Zenon DEF RefcountsExact
    <3> QED
      BY <3>1, <3>2, Zenon
  <2>15. RefcountsExact'
    BY <2>14, Zenon DEF RefcountsExact
  <2> QED
    BY <2>1, <2>5, <2>6, <2>7, <2>8, <2>9, <2>15, <1>PlainInv, Zenon
(* Bytes that are stored leave a ring of bytes. *)
<1>StoredType.
    ASSUME TypeOK, NEW x \in Pipe, NEW d \in Seq(Byte)
    PROVE  Stored(x, d) \in [Slots -> Byte]
  <2> USE <1>StoredType
  <2>1. PIPE_CAP \in Nat /\ PIPE_CAP > 0 /\ tail[x] \in 0..(PIPE_CAP - 1)
        /\ buf[x] \in [Slots -> Byte]
    BY SizesAssumption, Zenon DEF TypeOK, Slots
  <2>2. \A i \in Slots : (i - tail[x] + PIPE_CAP) % PIPE_CAP \in Nat
    BY <2>1 DEF Slots
  <2>3. \A k \in Nat : k < Len(d) => d[k + 1] \in Byte
    OBVIOUS
  <2> QED
    BY <2>1, <2>2, <2>3, Zenon DEF Stored
<1>ReadInv.
    ASSUME Inv, NEW p \in Procs, p \in alive, NEW x \in Pipe,
           EndsOf(p, ReadEnd(x)) # {}, NEW n \in Nat, pipe_read(p, x, n)
    PROVE  Inv'
  <2> USE <1>ReadInv
  <2>1. /\ TypeOK /\ used[x] /\ count[x] \in 0..PIPE_CAP
        /\ PIPE_CAP \in Nat /\ PIPE_CAP > 0 /\ head[x] \in 0..(PIPE_CAP - 1)
    BY HolderUses, SizesAssumption, Zenon DEF Inv, TypeOK, Slots
  <2>2. PICK m \in 0..PIPE_CAP : m = Min2(n, count[x])
    BY <2>1 DEF Min2
  <2>3. m <= n /\ m <= count[x] /\ (m < n => m = count[x]) /\ m \in 0..count[x]
    BY <2>1, <2>2 DEF Min2
  <2>4. PICK fin \in BOOLEAN : fin <=> (m = n \/ Eof(x))
    BY Zenon
  <2>5. /\ head' = [head EXCEPT ![x] = (@ + m) % PIPE_CAP]
        /\ count' = [count EXCEPT ![x] = @ - m]
        /\ op' = [op EXCEPT ![p] = IF fin THEN "none" ELSE "read"]
        /\ on' = [on EXCEPT ![p] = IF fin THEN 1 ELSE x]
        /\ want' = [want EXCEPT ![p] = IF fin THEN 0 ELSE n - m]
        /\ xfer' = [op |-> "read", pipe |-> x, bytes |-> Front(x, m),
                    short |-> fin /\ m < n]
        /\ UNCHANGED <<alive, fds, buf, tail, refVars, data>>
    BY <2>2, <2>4, Zenon DEF pipe_read
  <2>6. TypeOK'
    <3>1. head' \in [Pipe -> Slots]
      <4>1. (head[x] + m) % PIPE_CAP \in Slots
        BY <2>1, RingFacts, Zenon DEF Slots
      <4> QED
        BY <2>1, <2>5, <4>1, Zenon DEF TypeOK
    <3>2. count' \in [Pipe -> 0..PIPE_CAP]
      <4>1. count[x] - m \in 0..PIPE_CAP
        BY <2>1, <2>3
      <4> QED
        BY <2>1, <2>5, <4>1, Zenon DEF TypeOK
    <3>3. /\ op' \in [Procs -> {"none", "read", "write"}]
          /\ on' \in [Procs -> Pipe]
      <4>1. 1 \in Pipe
        BY SizesAssumption DEF Pipe
      <4>2. on' \in [Procs -> Pipe]
        BY <2>1, <2>5, <4>1, Zenon DEF TypeOK
      <4>3. op' \in [Procs -> {"none", "read", "write"}]
        BY <2>1, <2>5, Zenon DEF TypeOK
      <4> QED
        BY <4>2, <4>3, Zenon
    <3>4. want' \in [Procs -> Nat]
      BY <2>1, <2>3, <2>5 DEF TypeOK
    <3>5. xfer' \in [op : {"none", "read", "write"}, pipe : Pipe,
                     bytes : Seq(Byte), short : BOOLEAN]
      BY Zenon, <2>1, <2>5, FrontType
    <3> QED
      BY <2>1, <2>5, <3>1, <3>2, <3>3, <3>4, <3>5, ZenonT(30) DEF TypeOK, refVars
  <2>7. \A e : Ends(e)' = Ends(e)
    BY <2>5, Zenon DEF Ends
  <2>8. RefcountsExact'
    BY <2>5, <2>7, Zenon DEF Inv, RefcountsExact, refVars
  <2>9. BlockedPipeStays'
    <3> SUFFICES ASSUME NEW q \in Procs
                 PROVE  /\ op'[q] # "none" => q \in alive /\ used[on'[q]]
                        /\ op'[q] = "read" => EndsOf(q, ReadEnd(on'[q])) # {}
                        /\ op'[q] = "write" => EndsOf(q, WriteEnd(on'[q])) # {}
      BY <2>5, Zenon DEF BlockedPipeStays, EndsOf, refVars
    <3>1. CASE q = p
      <4>1. op'[p] = (IF fin THEN "none" ELSE "read")
            /\ on'[p] = (IF fin THEN 1 ELSE x)
        BY <2>1, <2>5, Zenon DEF TypeOK
      <4> QED
        BY <2>1, <3>1, <4>1, Zenon
    <3>2. CASE q # p
      <4>1. op'[q] = op[q] /\ on'[q] = on[q]
        BY <2>1, <2>5, <3>2, Zenon DEF TypeOK
      <4> QED
        BY <4>1, Zenon DEF Inv, BlockedPipeStays
    <3> QED
      BY <3>1, <3>2, Zenon
  <2>10. RingConsistent'
    <3> SUFFICES ASSUME NEW y \in Pipe
                 PROVE  tail[y] = (head'[y] + count'[y]) % PIPE_CAP
      BY <2>5, Zenon DEF RingConsistent
    <3>1. tail[y] = (head[y] + count[y]) % PIPE_CAP
      BY Zenon DEF Inv, RingConsistent
    <3>2. CASE y = x
      <4>1. head'[x] = (head[x] + m) % PIPE_CAP /\ count'[x] = count[x] - m
        BY <2>1, <2>5, Zenon DEF TypeOK
      <4>2. (((head[x] + m) % PIPE_CAP) + (count[x] - m)) % PIPE_CAP =
              (head[x] + count[x]) % PIPE_CAP
        BY <2>1, <2>3, RingFacts, Zenon
      <4> QED
        BY <3>1, <3>2, <4>1, <4>2, Zenon
    <3>3. CASE y # x
      BY <2>1, <2>5, <3>1, <3>3, Zenon DEF TypeOK
    <3> QED
      BY <3>2, <3>3, Zenon
  <2>11. ShortTransferJustified'
    <3> SUFFICES ASSUME fin /\ m < n
                 PROVE  count'[x] = 0 /\ Ends(WriteEnd(x)) = {}
      BY <2>5, <2>7, Zenon DEF ShortTransferJustified
    <3>1. count'[x] = 0
      BY <2>1, <2>3, <2>5 DEF TypeOK
    <3>2. writers[x] = 0
      BY <2>3, <2>4 DEF Eof
    <3>3. Cardinality(Ends(WriteEnd(x))) = 0
      BY <3>2, Zenon DEF Inv, RefcountsExact
    <3> QED
      BY <3>1, <3>3, EndsFinite, FS_EmptySet, Zenon
  <2> QED
    BY <2>6, <2>8, <2>9, <2>10, <2>11, Zenon DEF Inv
<1>WriteInv.
    ASSUME Inv, NEW p \in Procs, p \in alive, NEW x \in Pipe,
           EndsOf(p, WriteEnd(x)) # {}, NEW d \in Seq(Byte), pipe_write(p, x, d)
    PROVE  Inv'
  <2> USE <1>WriteInv
  <2>1. /\ TypeOK /\ used[x] /\ count[x] \in 0..PIPE_CAP
        /\ PIPE_CAP \in Nat /\ PIPE_CAP > 0 /\ tail[x] \in 0..(PIPE_CAP - 1)
        /\ head[x] \in 0..(PIPE_CAP - 1) /\ Len(d) \in Nat
    <3>1. TypeOK /\ used[x]
      BY HolderUses, Zenon DEF Inv
    <3>2. Len(d) \in Nat
      OBVIOUS
    <3>3. /\ count[x] \in 0..PIPE_CAP
          /\ PIPE_CAP \in Nat /\ PIPE_CAP > 0 /\ tail[x] \in 0..(PIPE_CAP - 1)
          /\ head[x] \in 0..(PIPE_CAP - 1)
      BY <3>1, SizesAssumption, Zenon DEF TypeOK, Slots
    <3> QED
      BY <3>1, <3>2, <3>3, Zenon
  <2>2. PICK m \in 0..PIPE_CAP :
          m = IF Broken(x) THEN 0 ELSE Min2(Len(d), Room(x))
    BY <2>1 DEF Min2, Room
  <2>3. m <= Len(d) /\ m \in 0..(PIPE_CAP - count[x]) /\ m \in 0..Len(d)
    BY <2>1, <2>2 DEF Min2, Room
  <2>4. PICK fin \in BOOLEAN : fin <=> (m = Len(d) \/ Broken(x))
    BY Zenon
  <2>5. /\ buf' = [buf EXCEPT ![x] = Stored(x, SubSeq(d, 1, m))]
        /\ tail' = [tail EXCEPT ![x] = (@ + m) % PIPE_CAP]
        /\ count' = [count EXCEPT ![x] = @ + m]
        /\ op' = [op EXCEPT ![p] = IF fin THEN "none" ELSE "write"]
        /\ on' = [on EXCEPT ![p] = IF fin THEN 1 ELSE x]
        /\ data' = [data EXCEPT ![p] =
                      IF fin THEN <<>> ELSE SubSeq(d, m + 1, Len(d))]
        /\ xfer' = [op |-> "write", pipe |-> x, bytes |-> <<>>,
                    short |-> fin /\ m < Len(d)]
        /\ UNCHANGED <<alive, fds, head, refVars, want>>
    BY <2>2, <2>4, Zenon DEF pipe_write
  <2>6. TypeOK'
    <3>1. tail' \in [Pipe -> Slots]
      <4>1. (tail[x] + m) % PIPE_CAP \in Slots
        BY <2>1, RingFacts, Zenon DEF Slots
      <4> QED
        BY <2>1, <2>5, <4>1, Zenon DEF TypeOK
    <3>2. count' \in [Pipe -> 0..PIPE_CAP]
      <4>1. count[x] + m \in 0..PIPE_CAP
        BY <2>1, <2>3
      <4> QED
        BY <2>1, <2>5, <4>1, Zenon DEF TypeOK
    <3>3. buf' \in [Pipe -> [Slots -> Byte]]
      <4>1. SubSeq(d, 1, m) \in Seq(Byte)
        BY <2>3
      <4>2. Stored(x, SubSeq(d, 1, m)) \in [Slots -> Byte]
        BY Zenon, <2>1, <4>1, <1>StoredType
      <4> QED
        BY <2>1, <2>5, <4>2, Zenon DEF TypeOK
    <3>4. on' \in [Procs -> Pipe]
      <4>1. 1 \in Pipe
        BY SizesAssumption DEF Pipe
      <4> QED
        BY <2>1, <2>5, <4>1, Zenon DEF TypeOK
    <3>5. op' \in [Procs -> {"none", "read", "write"}]
      BY <2>1, <2>5, Zenon DEF TypeOK
    <3>6. data' \in [Procs -> Seq(Byte)]
      <4>1. SubSeq(d, m + 1, Len(d)) \in Seq(Byte) /\ <<>> \in Seq(Byte)
        BY <2>1, <2>3
      <4> QED
        BY <2>1, <2>5, <4>1, Zenon DEF TypeOK
    <3>7. xfer' \in [op : {"none", "read", "write"}, pipe : Pipe,
                     bytes : Seq(Byte), short : BOOLEAN]
      BY <2>1, <2>5
    <3> QED
      BY <2>1, <2>5, <3>1, <3>2, <3>3, <3>4, <3>5, <3>6, <3>7, Zenon DEF TypeOK, refVars
  <2>7. \A e : Ends(e)' = Ends(e)
    BY <2>5, Zenon DEF Ends
  <2>8. RefcountsExact'
    BY <2>5, <2>7, Zenon DEF Inv, RefcountsExact, refVars
  <2>9. BlockedPipeStays'
    <3> SUFFICES ASSUME NEW q \in Procs
                 PROVE  /\ op'[q] # "none" => q \in alive /\ used[on'[q]]
                        /\ op'[q] = "read" => EndsOf(q, ReadEnd(on'[q])) # {}
                        /\ op'[q] = "write" => EndsOf(q, WriteEnd(on'[q])) # {}
      BY <2>5, Zenon DEF BlockedPipeStays, EndsOf, refVars
    <3>1. CASE q = p
      <4>1. op'[p] = (IF fin THEN "none" ELSE "write")
            /\ on'[p] = (IF fin THEN 1 ELSE x)
        BY <2>1, <2>5, Zenon DEF TypeOK
      <4> QED
        BY <2>1, <3>1, <4>1, Zenon
    <3>2. CASE q # p
      <4>1. op'[q] = op[q] /\ on'[q] = on[q]
        BY <2>1, <2>5, <3>2, Zenon DEF TypeOK
      <4> QED
        BY <4>1, Zenon DEF Inv, BlockedPipeStays
    <3> QED
      BY <3>1, <3>2, Zenon
  <2>10. RingConsistent'
    <3> SUFFICES ASSUME NEW y \in Pipe
                 PROVE  tail'[y] = (head[y] + count'[y]) % PIPE_CAP
      BY <2>5, Zenon DEF RingConsistent
    <3>1. tail[y] = (head[y] + count[y]) % PIPE_CAP
      BY Zenon DEF Inv, RingConsistent
    <3>2. CASE y = x
      <4>1. tail'[x] = (tail[x] + m) % PIPE_CAP /\ count'[x] = count[x] + m
        BY <2>1, <2>5, Zenon DEF TypeOK
      <4>2. (head[x] + (count[x] + m)) % PIPE_CAP =
              (((head[x] + count[x]) % PIPE_CAP) + m) % PIPE_CAP
        BY Zenon, <2>1, <2>3, RingFacts
      <4> QED
        BY <3>1, <3>2, <4>1, <4>2, Zenon
    <3>3. CASE y # x
      BY <2>1, <2>5, <3>1, <3>3, Zenon DEF TypeOK
    <3> QED
      BY <3>2, <3>3, Zenon
  <2>11. ShortTransferJustified'
    <3> SUFFICES ASSUME fin /\ m < Len(d)
                 PROVE  Ends(ReadEnd(x)) = {}
      BY <2>5, <2>7, Zenon DEF ShortTransferJustified
    <3>1. readers[x] = 0
      BY <2>3, <2>4 DEF Broken
    <3>2. Cardinality(Ends(ReadEnd(x))) = 0
      BY <3>1, Zenon DEF Inv, RefcountsExact
    <3> QED
      BY <3>2, EndsFinite, FS_EmptySet, Zenon
  <2> QED
    BY <2>6, <2>8, <2>9, <2>10, <2>11, Zenon DEF Inv
<1> SUFFICES ASSUME Inv, [Next]_vars PROVE Inv'
  BY Zenon
<1>0. TypeOK /\ 0 \in FDs /\ 1 \in FDs
  BY SizesAssumption DEF Inv, FDs
<1>1. CASE \E p \in Procs, k \in OpenKinds : sys_open(p, k)
  BY <1>1, <1>OpenInv, Zenon
<1>2. CASE \E p \in Procs, f \in FDs : sys_close(p, f)
  BY <1>2, <1>CloseInv, Zenon
<1>3. CASE \E p \in Procs, f \in FDs : sys_dup(p, f)
  BY <1>3, <1>DupInv, Zenon
<1>4. CASE \E p \in Procs, f, g \in FDs : sys_dup2(p, f, g)
  BY <1>4, <1>Dup2Inv, Zenon
<1>5. CASE \E p, c \in Procs : sys_fork(p, c)
  BY <1>5, <1>ForkInv, Zenon
<1>6. CASE \E p \in Procs : sys_exit(p)
  BY <1>6, <1>ExitInv, Zenon
<1>7. CASE \E p \in Procs : sys_pipe(p)
  BY <1>7, <1>PipeInv, Zenon
<1>8. ASSUME NEW p \in Procs, NEW f \in FDs, NEW n \in Lens, sys_read(p, f, n)
      PROVE  Inv'
  <2>1. n \in Nat
    BY DataAssumption, Zenon
  <2>2. PICK x \in Pipe : x = Reroute(p, f, 0)[2] /\ EndsOf(p, ReadEnd(x)) # {}
    BY <1>0, <1>8, RerouteHeld, Zenon DEF sys_read
  <2>3. pipe_read(p, x, n) /\ p \in alive
    BY <1>8, <2>2, Zenon DEF sys_read, InUser
  <2> QED
    BY <2>1, <2>2, <2>3, <1>ReadInv, Zenon
<1>9. ASSUME NEW p \in Procs, NEW f \in FDs, NEW d \in Payloads, sys_write(p, f, d)
      PROVE  Inv'
  <2>1. d \in Seq(Byte)
    BY DataAssumption DEF Payloads
  <2>2. PICK x \in Pipe : x = Reroute(p, f, 1)[2] /\ EndsOf(p, WriteEnd(x)) # {}
    BY <1>0, <1>9, RerouteHeld, Zenon DEF sys_write
  <2>3. pipe_write(p, x, d) /\ p \in alive
    BY <1>9, <2>2, Zenon DEF sys_write, InUser
  <2> QED
    BY <2>1, <2>2, <2>3, <1>WriteInv, Zenon
<1>10. ASSUME NEW p \in Procs, ReadResume(p)
       PROVE  Inv'
  <2>1. PICK x \in Pipe, n \in Nat : x = on[p] /\ n = want[p]
    BY <1>0, Zenon DEF TypeOK
  <2>2. p \in alive /\ EndsOf(p, ReadEnd(x)) # {} /\ pipe_read(p, x, n)
    BY <1>10, <2>1, Zenon DEF ReadResume, Inv, BlockedPipeStays
  <2> QED
    BY <2>2, <1>ReadInv, Zenon
<1>11. ASSUME NEW p \in Procs, WriteResume(p)
       PROVE  Inv'
  <2>1. PICK x \in Pipe, d \in Seq(Byte) : x = on[p] /\ d = data[p]
    BY <1>0, Zenon DEF TypeOK
  <2>2. p \in alive /\ EndsOf(p, WriteEnd(x)) # {} /\ pipe_write(p, x, d)
    BY <1>11, <2>1, Zenon DEF WriteResume, Inv, BlockedPipeStays
  <2> QED
    BY <2>2, <1>WriteInv, Zenon
<1>12. CASE UNCHANGED vars
  <2>1. /\ UNCHANGED <<alive, fds, xfer>> /\ UNCHANGED <<readers, writers, used>>
        /\ UNCHANGED <<buf, head, tail, count>> /\ UNCHANGED <<op, on, want, data>>
    BY <1>12, Zenon DEF vars, ringVars, refVars, opVars
  <2>2. TypeOK'
    BY <1>0, <2>1, Zenon DEF TypeOK
  <2>3. (\A e : Ends(e)' = Ends(e)) /\ (\A p, e : EndsOf(p, e)' = EndsOf(p, e))
    BY <2>1, Zenon DEF Ends, EndsOf
  <2>4. RefcountsExact' /\ ShortTransferJustified'
    BY <2>1, <2>3, Zenon DEF Inv, RefcountsExact, ShortTransferJustified
  <2>5. BlockedPipeStays' /\ RingConsistent'
    BY <2>1, <2>3, Zenon DEF Inv, BlockedPipeStays, RingConsistent
  <2> QED
    BY <2>2, <2>4, <2>5, Zenon DEF Inv
<1> QED
  BY Zenon, <1>1, <1>2, <1>3, <1>4, <1>5, <1>6, <1>7, <1>8, <1>9, <1>10, <1>11, <1>12
  DEF Next

(* Every reachable state satisfies the inductive invariant. *)
THEOREM Invariance == Spec => []Inv
BY InitInv, NextInv, PTL DEF Spec

(* The variables of pipe.c and fd.c keep their types: a count never leaves *)
(* 0..PIPE_CAP and an index never leaves the ring.                         *)
THEOREM TypeCorrect == Spec => []TypeOK
<1>1. Inv => TypeOK
  BY Zenon DEF Inv
<1> QED
  BY <1>1, Invariance, PTL

(* pipe_addref and pipe_close keep the counts of every pipe equal to the   *)
(* descriptors of live processes, for any number of processes, descriptors *)
(* and pipes.                                                              *)
THEOREM RefcountsCorrect == Spec => []RefcountsExact
<1>1. Inv => RefcountsExact
  BY Zenon DEF Inv
<1> QED
  BY <1>1, Invariance, PTL

(* The pipe behind the local pointer of a blocked pipe_read or pipe_write  *)
(* is not recycled.                                                        *)
THEOREM BlockedCorrect == Spec => []BlockedPipeStays
<1>1. Inv => BlockedPipeStays
  BY Zenon DEF Inv
<1> QED
  BY <1>1, Invariance, PTL

(* pipe_read returns early only at end of file, pipe_write only on a       *)
(* broken pipe.                                                            *)
THEOREM ShortCorrect == Spec => []ShortTransferJustified
<1>1. Inv => ShortTransferJustified
  BY Zenon DEF Inv
<1> QED
  BY <1>1, Invariance, PTL

-----------------------------------------------------------------------------
(* The ring buffer implements a bounded channel *)

(* Only a process inside pipe_write holds bytes that are still to store.   *)
OnlyWritersHold == \A p \in Procs : op[p] # "write" => data[p] = <<>>

(* Every step keeps the bytes in hand with the writers. *)
LEMMA HoldNext ==
  ASSUME Inv, OnlyWritersHold, [Next]_vars
  PROVE  OnlyWritersHold'
<1>0. TypeOK
  BY Zenon DEF Inv
<1>1. CASE UNCHANGED opVars
  BY <1>1, Zenon DEF OnlyWritersHold, opVars
<1>2. ASSUME NEW p \in Procs, NEW x, NEW n, pipe_read(p, x, n), op[p] # "write"
      PROVE  OnlyWritersHold'
  <2>1. data' = data /\ \A q \in Procs : q # p => op'[q] = op[q]
    BY <1>0, <1>2, Zenon DEF pipe_read, TypeOK
  <2> QED
    BY <1>2, <2>1, Zenon DEF OnlyWritersHold
<1>3. ASSUME NEW p \in Procs, NEW x, NEW d, pipe_write(p, x, d)
      PROVE  OnlyWritersHold'
  <2>1. \A q \in Procs : q # p => op'[q] = op[q] /\ data'[q] = data[q]
    BY <1>0, <1>3, Zenon DEF pipe_write, TypeOK
  <2>2. op'[p] = "write" \/ data'[p] = <<>>
    BY <1>0, <1>3, Zenon DEF pipe_write, TypeOK
  <2> QED
    BY <2>1, <2>2, Zenon DEF OnlyWritersHold
<1>4. CASE UNCHANGED vars
  BY <1>1, <1>4, Zenon DEF vars
<1>5. CASE Next
  <2>1. CASE \E p \in Procs, k \in OpenKinds : sys_open(p, k)
    BY <1>1, <2>1, Zenon DEF sys_open
  <2>2. CASE \E p \in Procs, f \in FDs : sys_close(p, f)
    BY <1>1, <2>2, Zenon DEF sys_close
  <2>3. CASE \E p \in Procs, f \in FDs : sys_dup(p, f)
    BY <1>1, <2>3, Zenon DEF sys_dup
  <2>4. CASE \E p \in Procs, f, g \in FDs : sys_dup2(p, f, g)
    BY <1>1, <2>4, Zenon DEF sys_dup2
  <2>5. CASE \E p, c \in Procs : sys_fork(p, c)
    BY <1>1, <2>5, Zenon DEF sys_fork
  <2>6. CASE \E p \in Procs : sys_exit(p)
    BY <1>1, <2>6, Zenon DEF sys_exit
  <2>7. CASE \E p \in Procs : sys_pipe(p)
    BY <1>1, <2>7, Zenon DEF sys_pipe
  <2>8. CASE \E p \in Procs, f \in FDs, n \in Lens : sys_read(p, f, n)
    BY <1>2, <2>8, Zenon DEF sys_read, InUser
  <2>9. CASE \E p \in Procs, f \in FDs, d \in Payloads : sys_write(p, f, d)
    BY <1>3, <2>9, Zenon DEF sys_write
  <2>10. CASE \E p \in Procs : ReadResume(p)
    BY <1>2, <2>10, Zenon DEF ReadResume
  <2>11. CASE \E p \in Procs : WriteResume(p)
    BY <1>3, <2>11, Zenon DEF WriteResume
  <2> QED
    BY Zenon, <1>5, <2>1, <2>2, <2>3, <2>4, <2>5, <2>6, <2>7, <2>8, <2>9, <2>10, <2>11
    DEF Next
<1> QED
  BY <1>4, <1>5, Zenon

(* A step that moves no byte maps to a step that closes some channels.     *)
LEMMA QuietStep ==
  ASSUME TypeOK, UNCHANGED ringVars, data' = data, xfer' = NoXfer,
         used' \in [Pipe -> BOOLEAN], \A x \in Pipe : used'[x] => used[x]
  PROVE  Chan!Next
<1>1. PICK S \in SUBSET Pipe : S = {x \in Pipe : ~used'[x]}
  BY Zenon
<1>2. used' = [x \in Pipe |-> used[x] /\ x \notin S]
  BY <1>1, Zenon DEF TypeOK
<1>3. xfer'.bytes = <<>>
  BY Zenon DEF NoXfer
<1>4. Contents' = Contents
  BY Zenon DEF Contents, Front, ringVars
<1>5. Chan!Close(S)
  BY <1>2, <1>3, <1>4, Zenon DEF Chan!Close
<1> QED
  BY <1>5, Zenon DEF Chan!Next

(* pipe_read takes the front of the contents and leaves the rest.          *)
LEMMA ReadMoves ==
  ASSUME TypeOK, NEW x \in Pipe, NEW m \in 0..count[x],
         head' = [head EXCEPT ![x] = (@ + m) % PIPE_CAP],
         count' = [count EXCEPT ![x] = @ - m], buf' = buf
  PROVE  /\ Front(x, m) = SubSeq(Contents[x], 1, m)
         /\ Contents' = [Contents EXCEPT ![x] = SubSeq(@, m + 1, Len(@))]
<1>1. /\ PIPE_CAP \in Nat /\ PIPE_CAP > 0 /\ head[x] \in 0..(PIPE_CAP - 1)
      /\ count[x] \in 0..PIPE_CAP /\ buf[x] \in [Slots -> Byte]
  BY SizesAssumption, Zenon DEF TypeOK, Slots
<1>2. PICK q \in Seq(Byte) : q = Front(x, count[x]) /\ Len(q) = count[x]
  BY <1>1, FrontType, Zenon
<1>3. \A i \in 1..count[x] : q[i] = buf[x][(head[x] + i - 1) % PIPE_CAP]
  BY <1>2, Zenon DEF Front
<1>4. Contents[x] = q
  BY <1>2, Zenon DEF Contents
<1>5. Front(x, m) = SubSeq(q, 1, m)
  <2>1. Front(x, m) \in Seq(Byte) /\ Len(Front(x, m)) = m
    BY <1>1, FrontType
  <2>2. ASSUME NEW i \in 1..m
        PROVE  Front(x, m)[i] = SubSeq(q, 1, m)[i]
    <3>1. i \in 1..count[x]
      BY <1>1
    <3>2. Front(x, m)[i] = q[i]
      BY <1>3, <3>1, Zenon DEF Front
    <3>3. SubSeq(q, 1, m)[i] = q[i]
      BY <1>1, <1>2, <3>1
    <3> QED
      BY <3>2, <3>3, Zenon
  <2>3. SubSeq(q, 1, m) \in Seq(Byte) /\ Len(SubSeq(q, 1, m)) = m
    BY <1>1, <1>2
  <2> QED
    BY <2>1, <2>2, <2>3
<1>6. Front(x, count[x])' = SubSeq(q, m + 1, Len(q))
  <2>1. head'[x] = (head[x] + m) % PIPE_CAP /\ count'[x] = count[x] - m
    BY Zenon DEF TypeOK
  <2>2. Front(x, count[x])' =
          [i \in 1..(count[x] - m) |->
             buf[x][(((head[x] + m) % PIPE_CAP) + i - 1) % PIPE_CAP]]
    BY <2>1 DEF Front
  <2>3. \A i \in 1..(count[x] - m) :
          /\ (((head[x] + m) % PIPE_CAP) + i - 1) % PIPE_CAP =
               (head[x] + (m + i) - 1) % PIPE_CAP
          /\ m + i \in 1..count[x]
    <3> SUFFICES ASSUME NEW i \in 1..(count[x] - m)
                 PROVE  (((head[x] + m) % PIPE_CAP) + i - 1) % PIPE_CAP =
                          (head[x] + (m + i) - 1) % PIPE_CAP
      BY <1>1
    <3>1. i - 1 \in 0..(PIPE_CAP - m) /\ m \in 0..PIPE_CAP
      BY <1>1
    <3>2. (head[x] + (m + (i - 1))) % PIPE_CAP =
            (((head[x] + m) % PIPE_CAP) + (i - 1)) % PIPE_CAP
      BY Zenon, <1>1, <3>1, RingFacts
    <3>3. /\ head[x] + (m + (i - 1)) = head[x] + (m + i) - 1
          /\ (head[x] + m) % PIPE_CAP \in Int
      BY <1>1
    <3>4. (((head[x] + m) % PIPE_CAP) + (i - 1)) = ((head[x] + m) % PIPE_CAP) + i - 1
      BY <3>3, Zenon
    <3> QED
      BY <3>2, <3>3, <3>4, Zenon
  <2>4. Front(x, count[x])' = [i \in 1..(count[x] - m) |-> q[m + i]]
    BY Zenon, <1>3, <2>2, <2>3
  <2>5. SubSeq(q, m + 1, Len(q)) = [i \in 1..(count[x] - m) |-> q[m + i]]
    BY <1>1, <1>2
  <2> QED
    BY Zenon, <2>4, <2>5
<1>7. \A y \in Pipe : y # x => Front(y, count[y])' = Front(y, count[y])
  BY Zenon DEF Front, TypeOK
<1>8. Contents' = [y \in Pipe |-> IF y = x THEN SubSeq(q, m + 1, Len(q))
                                  ELSE Contents[y]]
  BY <1>6, <1>7, Zenon DEF Contents
<1> QED
  BY <1>4, <1>5, <1>8, Zenon DEF Contents

(* How far behind tail the slot of byte i of a pipe lies; bytes past count *)
(* are the ones being stored.                                              *)
LEMMA SlotBehindTail ==
  ASSUME TypeOK, RingConsistent, NEW x \in Pipe, NEW m \in 0..(PIPE_CAP - count[x]),
         NEW i \in 1..(count[x] + m),
         NEW j \in Slots, j = (head[x] + i - 1) % PIPE_CAP
  PROVE  (j - tail[x] + PIPE_CAP) % PIPE_CAP =
           IF i <= count[x] THEN PIPE_CAP - count[x] + i - 1
                            ELSE i - 1 - count[x]
<1>1. /\ PIPE_CAP \in Nat /\ PIPE_CAP > 0 /\ head[x] \in 0..(PIPE_CAP - 1)
      /\ count[x] \in 0..PIPE_CAP /\ tail[x] \in Nat /\ j \in Nat
      /\ tail[x] = (head[x] + count[x]) % PIPE_CAP
  BY SizesAssumption DEF TypeOK, Slots, RingConsistent
<1>2. PICK c \in Nat : c = PIPE_CAP /\ c > 0
  BY <1>1, Zenon
<1>3. PICK h \in 0..(c - 1), k \in 0..c : h = head[x] /\ k = count[x]
  BY <1>1, <1>2, Zenon
<1>4. PICK t \in Nat : t = tail[x]
  BY <1>1, Zenon
<1>5. m \in 0..(c - k) /\ i \in 1..(k + m) /\ j \in Nat
  BY <1>1, <1>2, <1>3, Zenon
<1>6. j = (h + i - 1) % c /\ t = (h + k) % c
  BY <1>1, <1>2, <1>3, <1>4, Zenon
<1>7. (j - t + c) % c = IF i <= k THEN c - k + i - 1 ELSE i - 1 - k
  <2>1. h + i - 1 \in 0..(2 * c - 1) /\ h + k \in 0..(2 * c - 1)
    BY <1>5
  <2>2. j = IF h + i - 1 < c THEN h + i - 1 ELSE h + i - 1 - c
    BY <1>2, <1>6, <2>1, ModFacts
  <2>3. t = IF h + k < c THEN h + k ELSE h + k - c
    BY <1>2, <1>6, <2>1, ModFacts
  <2>4. j \in 0..(c - 1) /\ t \in 0..(c - 1)
    BY <1>5, <2>1, <2>2, <2>3
  <2>5. j - t + c \in 0..(2 * c - 1)
    BY <2>4
  <2>6. (j - t + c) % c = IF j - t + c < c THEN j - t + c ELSE j - t + c - c
    BY <1>2, <2>5, ModFacts
  <2>7. CASE i <= k
    <3>1. j < t => (j - t + c) % c = j - t + c
      BY <2>4, <2>6
    <3>2. ~(j < t) => (j - t + c) % c = j - t
      BY <2>4, <2>6
    <3>3. IF j < t THEN j - t + c = c - k + i - 1 ELSE j - t = c - k + i - 1
      BY <1>5, <2>2, <2>3, <2>7
    <3> QED
      BY <3>1, <3>2, <3>3, <2>7, Zenon
  <2>8. CASE ~(i <= k)
    <3>1. j < t => (j - t + c) % c = j - t + c
      BY <2>4, <2>6
    <3>2. ~(j < t) => (j - t + c) % c = j - t
      BY <2>4, <2>6
    <3>3. IF j < t THEN j - t + c = i - 1 - k ELSE j - t = i - 1 - k
      BY <1>5, <2>2, <2>3, <2>8
    <3> QED
      BY <3>1, <3>2, <3>3, <2>8, ZenonT(30)
  <2> QED
    BY <2>7, <2>8, Zenon
<1> QED
  BY <1>2, <1>3, <1>4, <1>7, Zenon

(* A concatenation, place by place. *)
LEMMA Appended ==
  ASSUME NEW S, NEW q \in Seq(S), NEW s \in Seq(S)
  PROVE  q \o s = [i \in 1..(Len(q) + Len(s)) |->
                     IF i <= Len(q) THEN q[i] ELSE s[i - Len(q)]]
<1>1. q \o s \in Seq(S)
  OBVIOUS
<1>2. Len(q \o s) = Len(q) + Len(s)
  OBVIOUS
<1>3. ASSUME NEW i \in 1..(Len(q) + Len(s))
      PROVE  (q \o s)[i] = IF i <= Len(q) THEN q[i] ELSE s[i - Len(q)]
  OBVIOUS
<1>4. ASSUME NEW r \in Seq(S)
      PROVE  r = [i \in 1..Len(r) |-> r[i]]
  OBVIOUS
<1>5. q \o s = [i \in 1..(Len(q) + Len(s)) |-> (q \o s)[i]]
  BY Zenon, <1>1, <1>2, <1>4
<1> QED
  BY <1>3, <1>5, Zenon

(* pipe_write appends what it stores to the contents. *)
LEMMA WriteMoves ==
  ASSUME TypeOK, RingConsistent, NEW x \in Pipe, NEW m \in 0..(PIPE_CAP - count[x]),
         NEW s \in Seq(Byte), Len(s) = m,
         buf' = [buf EXCEPT ![x] = Stored(x, s)],
         count' = [count EXCEPT ![x] = @ + m], head' = head
  PROVE  Contents' = [Contents EXCEPT ![x] = @ \o s]
<1>1. /\ PIPE_CAP \in Nat /\ PIPE_CAP > 0 /\ head[x] \in 0..(PIPE_CAP - 1)
      /\ count[x] \in 0..PIPE_CAP /\ buf[x] \in [Slots -> Byte]
      /\ tail[x] = (head[x] + count[x]) % PIPE_CAP
  BY SizesAssumption, Zenon DEF TypeOK, Slots, RingConsistent
<1>2. PICK q \in Seq(Byte) : q = Front(x, count[x]) /\ Len(q) = count[x]
  BY Zenon, <1>1, FrontType
<1>3. \A i \in 1..count[x] : q[i] = buf[x][(head[x] + i - 1) % PIPE_CAP]
  BY <1>2, Zenon DEF Front
<1>4. Contents[x] = q
  BY <1>2, Zenon DEF Contents
<1>5. Front(x, count[x])' = q \o s
  <2>1. head'[x] = head[x] /\ count'[x] = count[x] + m /\ buf'[x] = Stored(x, s)
    BY Zenon DEF TypeOK
  <2>2. Front(x, count[x])' =
          [i \in 1..(count[x] + m) |->
             Stored(x, s)[(head[x] + i - 1) % PIPE_CAP]]
    BY <2>1 DEF Front
  <2>3. ASSUME NEW i \in 1..(count[x] + m)
        PROVE  Stored(x, s)[(head[x] + i - 1) % PIPE_CAP] =
                 IF i <= count[x] THEN q[i] ELSE s[i - count[x]]
    <3>1. PICK j \in Slots : j = (head[x] + i - 1) % PIPE_CAP
      BY <1>1 DEF Slots
    <3>2. (j - tail[x] + PIPE_CAP) % PIPE_CAP =
            IF i <= count[x] THEN PIPE_CAP - count[x] + i - 1
                             ELSE i - 1 - count[x]
      BY Zenon, <3>1, SlotBehindTail
    <3>3. Stored(x, s)[j] =
            IF (j - tail[x] + PIPE_CAP) % PIPE_CAP < m
              THEN s[((j - tail[x] + PIPE_CAP) % PIPE_CAP) + 1] ELSE buf[x][j]
      BY Zenon DEF Stored
    <3>4. CASE i <= count[x]
      <4>1. ~(PIPE_CAP - count[x] + i - 1 < m) /\ i \in 1..count[x]
        BY <1>1, <3>4
      <4> QED
        BY <1>3, <3>1, <3>2, <3>3, <3>4, <4>1, Zenon
    <3>5. CASE ~(i <= count[x])
      <4>1. i - 1 - count[x] < m /\ i - 1 - count[x] + 1 = i - count[x]
        BY <1>1, <3>5
      <4>2. (j - tail[x] + PIPE_CAP) % PIPE_CAP = i - 1 - count[x]
        BY <3>2, <3>5, Zenon
      <4>3. Stored(x, s)[j] = s[(i - 1 - count[x]) + 1]
        BY <3>3, <4>1, <4>2, Zenon
      <4> QED
        BY <3>1, <3>5, <4>1, <4>3, Zenon
    <3> QED
      BY <3>4, <3>5, Zenon
  <2>4. q \o s = [i \in 1..(count[x] + m) |->
                    IF i <= count[x] THEN q[i] ELSE s[i - count[x]]]
    <3>1. q \o s = [i \in 1..(Len(q) + Len(s)) |->
                      IF i <= Len(q) THEN q[i] ELSE s[i - Len(q)]]
      BY Appended, Zenon
    <3>2. Len(q) = count[x] /\ Len(s) = m
      BY <1>2, Zenon
    <3> QED
      BY <3>1, <3>2, Zenon
  <2> QED
    BY Zenon, <2>2, <2>3, <2>4
<1>6. \A y \in Pipe : y # x => Front(y, count[y])' = Front(y, count[y])
  BY Zenon DEF Front, TypeOK
<1>7. Contents' = [y \in Pipe |-> IF y = x THEN q \o s ELSE Contents[y]]
  BY <1>5, <1>6, Zenon DEF Contents
<1> QED
  BY <1>4, <1>7, Zenon DEF Contents

(* sys_pipe opens a channel that is empty. *)
LEMMA PipeStep ==
  ASSUME Inv, NEW p \in Procs, sys_pipe(p)
  PROVE  Chan!Next
<1>1. PICK x : x = Least(Free)
  BY Zenon
<1>2. x \in Pipe /\ ~used[x]
  <2>1. Free # {} /\ Free \subseteq Nat
    BY DEF sys_pipe, Free, Pipe
  <2> QED
    BY <1>1, <2>1, LeastIn, Zenon DEF Free
<1>3. /\ head' = [head EXCEPT ![x] = 0] /\ count' = [count EXCEPT ![x] = 0]
      /\ used' = [used EXCEPT ![x] = TRUE] /\ buf' = buf /\ data' = data
      /\ xfer' = NoXfer
  BY <1>1, Zenon DEF sys_pipe, ResetRing, opVars
<1>4. Contents' = [Contents EXCEPT ![x] = <<>>]
  <2>1. Front(x, count[x])' = <<>>
    <3>1. count'[x] = 0
      BY <1>2, <1>3, Zenon DEF Inv, TypeOK
    <3> QED
      BY <3>1 DEF Front
  <2>2. \A y \in Pipe : y # x => Front(y, count[y])' = Front(y, count[y])
    BY <1>3, Zenon DEF Front, Inv, TypeOK
  <2> QED
    BY <2>1, <2>2, Zenon DEF Contents
<1>5. xfer'.bytes = <<>>
  BY <1>3, Zenon DEF NoXfer
<1>6. Chan!Open(x)
  BY <1>2, <1>3, <1>4, <1>5, Zenon DEF Chan!Open
<1> QED
  BY <1>2, <1>6, Zenon DEF Chan!Next

(* pipe_read takes bytes from the channel, or leaves it alone. *)
LEMMA ReadStep ==
  ASSUME Inv, NEW p \in alive, NEW x \in Pipe,
         EndsOf(p, ReadEnd(x)) # {}, NEW n \in Nat, pipe_read(p, x, n)
  PROVE  Chan!Next
<1>1. TypeOK /\ used[x] /\ count[x] \in 0..PIPE_CAP /\ PIPE_CAP \in Nat
  BY HolderUses, SizesAssumption, Zenon DEF Inv, TypeOK
<1>2. PICK m \in 0..PIPE_CAP : m = Min2(n, count[x]) /\ m \in 0..count[x]
  BY <1>1 DEF Min2
<1>3. /\ head' = [head EXCEPT ![x] = (@ + m) % PIPE_CAP]
      /\ count' = [count EXCEPT ![x] = @ - m]
      /\ xfer'.bytes = Front(x, m)
      /\ buf' = buf /\ used' = used /\ data' = data
  BY <1>2, Zenon DEF pipe_read, refVars
<1>4. /\ Front(x, m) = SubSeq(Contents[x], 1, m)
      /\ Contents' = [Contents EXCEPT ![x] = SubSeq(@, m + 1, Len(@))]
  BY Zenon, <1>1, <1>2, <1>3, ReadMoves
<1>5. m <= Len(Contents[x])
  <2>1. Len(Front(x, count[x])) = count[x]
    BY <1>1, FrontType, Zenon
  <2> QED
    BY <1>1, <1>2, <2>1 DEF Contents
<1>6. Chan!Receive(x, m)
  BY <1>1, <1>3, <1>4, <1>5, Zenon DEF Chan!Receive
<1> QED
  BY <1>6, Zenon DEF Chan!Next

(* pipe_write adds bytes to the channel, or leaves it alone. *)
LEMMA WriteStep ==
  ASSUME Inv, NEW p \in Procs, p \in alive, NEW x \in Pipe,
         EndsOf(p, WriteEnd(x)) # {}, NEW d \in Seq(Byte), pipe_write(p, x, d),
         d = data[p] \/ (data[p] = <<>> /\ d \in Payloads)
  PROVE  Chan!Next
<1>1. /\ TypeOK /\ RingConsistent /\ used[x]
      /\ count[x] \in 0..PIPE_CAP /\ PIPE_CAP \in Nat
  BY HolderUses, SizesAssumption, Zenon DEF Inv, TypeOK
<1>2. Len(d) \in Nat
  OBVIOUS
<1>3. PICK m \in 0..PIPE_CAP :
        m = IF Broken(x) THEN 0 ELSE Min2(Len(d), Room(x))
  BY <1>1, <1>2 DEF Min2, Room
<1>4. m <= Len(d) /\ m \in 0..(PIPE_CAP - count[x]) /\ m \in 0..Len(d)
  BY <1>1, <1>2, <1>3 DEF Min2, Room
<1>5. /\ buf' = [buf EXCEPT ![x] = Stored(x, SubSeq(d, 1, m))]
      /\ count' = [count EXCEPT ![x] = @ + m]
      /\ head' = head /\ used' = used /\ xfer'.bytes = <<>>
      /\ \E rest \in {<<>>, SubSeq(d, m + 1, Len(d))} :
           data' = [data EXCEPT ![p] = rest]
  BY <1>3, Zenon DEF pipe_write, refVars
<1>6. SubSeq(d, 1, m) \in Seq(Byte) /\ Len(SubSeq(d, 1, m)) = m
  BY <1>4
<1>7. Contents' = [Contents EXCEPT ![x] = @ \o SubSeq(d, 1, m)]
  BY Zenon, <1>1, <1>4, <1>5, <1>6, WriteMoves
<1>8. Len(Contents[x]) + m <= PIPE_CAP
  <2>1. Len(Front(x, count[x])) = count[x]
    BY <1>1, FrontType, Zenon
  <2> QED
    BY <1>1, <1>4, <2>1 DEF Contents
<1>9. Chan!Send(p, x, d, m)
  BY <1>1, <1>4, <1>5, <1>7, <1>8, Zenon DEF Chan!Send
<1>10. CASE d = data[p]
  <2>1. Chan!SendMore(p, x)
    BY <1>9, <1>10, Zenon DEF Chan!SendMore
  <2> QED
    BY <2>1, Zenon DEF Chan!Next
<1>11. CASE data[p] = <<>> /\ d \in Payloads
  <2>1. Chan!SendNew(p, x)
    BY <1>9, <1>11, Zenon DEF Chan!SendNew, Chan!Messages, Payloads
  <2> QED
    BY <2>1, Zenon DEF Chan!Next
<1> QED
  BY Zenon, <1>10, <1>11

(* Every step of the system is a step of the channels or moves nothing.    *)
LEMMA StepRefines ==
  ASSUME Inv, Inv', OnlyWritersHold, [Next]_vars
  PROVE  [Chan!Next]_(Chan!vars)
<1>0. TypeOK /\ used' \in [Pipe -> BOOLEAN] /\ 0 \in FDs /\ 1 \in FDs
  <2>1. TypeOK /\ TypeOK'
    BY Zenon DEF Inv
  <2>2. used' \in [Pipe -> BOOLEAN]
    BY <2>1, Zenon DEF TypeOK
  <2>3. 0 \in FDs /\ 1 \in FDs
    BY SizesAssumption DEF FDs
  <2> QED
    BY <2>1, <2>2, <2>3, Zenon
<1>1. CASE \E p \in Procs, k \in OpenKinds : sys_open(p, k)
  <2>1. UNCHANGED ringVars /\ data' = data /\ used' = used /\ xfer' = NoXfer
    BY <1>1, Zenon DEF sys_open, opVars, refVars
  <2> QED
    BY <1>0, <2>1, QuietStep, Zenon
<1>2. CASE \E p \in Procs, f \in FDs : sys_close(p, f)
  <2>1. \A x \in Pipe : used'[x] => used[x]
    BY <1>2, Zenon DEF sys_close, StillUsed
  <2> QED
    BY <1>0, <1>2, <2>1, QuietStep, Zenon DEF sys_close, opVars
<1>3. CASE \E p \in Procs, f \in FDs : sys_dup(p, f)
  BY <1>0, <1>3, QuietStep, Zenon DEF sys_dup, opVars
<1>4. CASE \E p \in Procs, f, g \in FDs : sys_dup2(p, f, g)
  <2>1. \A x \in Pipe : used'[x] => used[x]
    BY <1>4, ZenonT(30) DEF sys_dup2, StillUsed
  <2> QED
    BY <1>0, <1>4, <2>1, QuietStep, Zenon DEF sys_dup2, opVars
<1>5. CASE \E p, c \in Procs : sys_fork(p, c)
  BY <1>0, <1>5, QuietStep, Zenon DEF sys_fork, opVars
<1>6. CASE \E p \in Procs : sys_exit(p)
  <2>1. \A x \in Pipe : used'[x] => used[x]
    BY <1>6, Zenon DEF sys_exit
  <2> QED
    BY <1>0, <1>6, <2>1, QuietStep, Zenon DEF sys_exit, opVars
<1>7. CASE \E p \in Procs : sys_pipe(p)
  BY <1>7, PipeStep, Zenon
<1>8. ASSUME NEW p \in Procs, NEW f \in FDs, NEW n \in Lens, sys_read(p, f, n)
      PROVE  Chan!Next
  <2>1. n \in Nat
    BY DataAssumption, Zenon
  <2>2. PICK x \in Pipe : x = Reroute(p, f, 0)[2] /\ EndsOf(p, ReadEnd(x)) # {}
    BY <1>0, <1>8, RerouteHeld, Zenon DEF sys_read
  <2>3. pipe_read(p, x, n) /\ p \in alive
    BY <1>8, <2>2, Zenon DEF sys_read, InUser
  <2> QED
    BY <2>1, <2>2, <2>3, ReadStep, Zenon
<1>9. ASSUME NEW p \in Procs, NEW f \in FDs, NEW d \in Payloads, sys_write(p, f, d)
      PROVE  Chan!Next
  <2>1. d \in Seq(Byte)
    BY DataAssumption DEF Payloads
  <2>2. PICK x \in Pipe : x = Reroute(p, f, 1)[2] /\ EndsOf(p, WriteEnd(x)) # {}
    BY <1>0, <1>9, RerouteHeld, Zenon DEF sys_write
  <2>3. pipe_write(p, x, d) /\ p \in alive /\ op[p] = "none"
    BY <1>9, <2>2, Zenon DEF sys_write, InUser
  <2>4. data[p] = <<>>
    BY <2>3, Zenon DEF OnlyWritersHold
  <2> QED
    BY <2>1, <2>2, <2>3, <2>4, WriteStep, Zenon
<1>10. ASSUME NEW p \in Procs, ReadResume(p)
       PROVE  Chan!Next
  <2>1. PICK x \in Pipe, n \in Nat : x = on[p] /\ n = want[p]
    BY <1>0, Zenon DEF TypeOK
  <2>2. p \in alive /\ EndsOf(p, ReadEnd(x)) # {} /\ pipe_read(p, x, n)
    BY <1>10, <2>1, Zenon DEF ReadResume, Inv, BlockedPipeStays
  <2> QED
    BY <2>2, ReadStep, Zenon
<1>11. ASSUME NEW p \in Procs, WriteResume(p)
       PROVE  Chan!Next
  <2>1. PICK x \in Pipe, d \in Seq(Byte) : x = on[p] /\ d = data[p]
    BY <1>0, Zenon DEF TypeOK
  <2>2. p \in alive /\ EndsOf(p, WriteEnd(x)) # {} /\ pipe_write(p, x, d)
    BY <1>11, <2>1, Zenon DEF WriteResume, Inv, BlockedPipeStays
  <2> QED
    BY Zenon, <2>1, <2>2, WriteStep
<1>12. CASE UNCHANGED vars
  <2>1. Contents' = Contents
    BY <1>12, Zenon DEF vars, ringVars, Contents, Front
  <2>2. UNCHANGED <<used, Contents, data, xfer.bytes>>
    BY <1>12, <2>1, Zenon DEF vars, refVars, opVars
  <2> QED
    BY <2>2, Zenon DEF Chan!vars
<1> QED
  BY ZenonT(30), <1>1, <1>2, <1>3, <1>4, <1>5, <1>6, <1>7, <1>8, <1>9, <1>10, <1>11, <1>12
  DEF Next

(* The ring buffers of pipe.c implement bounded FIFO channels: whatever    *)
(* the processes do, the bytes of each write arrive once and in order.     *)
THEOREM ChannelRefinement == Spec => ChannelSpec
<1>1. Init => OnlyWritersHold
  BY Zenon DEF Init, OnlyWritersHold
<1>2. Spec => [](Inv /\ OnlyWritersHold)
  <2>1. Inv /\ OnlyWritersHold /\ [Next]_vars => OnlyWritersHold'
    BY HoldNext, Zenon
  <2> QED
    BY <1>1, <2>1, InitInv, NextInv, PTL DEF Spec
<1>3. Init => Chan!Init
  <2> SUFFICES ASSUME Init PROVE Chan!Init
    BY Zenon
  <2>1. Contents = [x \in Pipe |-> <<>>]
    <3>1. \A x \in Pipe : Front(x, count[x]) = <<>>
      BY DEF Init, Front
    <3> QED
      BY <3>1, Zenon DEF Contents
  <2> QED
    BY <2>1, Zenon DEF Init, Chan!Init, NoXfer
<1>4. Inv /\ Inv' /\ OnlyWritersHold /\ [Next]_vars => [Chan!Next]_(Chan!vars)
  BY StepRefines, Zenon
<1> QED
  BY <1>2, <1>3, <1>4, PTL DEF Spec, ChannelSpec, Chan!Spec
=============================================================================
