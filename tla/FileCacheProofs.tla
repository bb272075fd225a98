-------------------------- MODULE FileCacheProofs --------------------------
(***************************************************************************)
(* Proofs about open files, for every number of names, inodes, slots and   *)
(* descriptors and behaviours of any length: a descriptor keeps its file   *)
(* as long as no unlink moved its slot, the copies in memory are current   *)
(* but for the events that split them from the disk, a path from the root  *)
(* opens the file it names, and a /proc file lasts for a round of the      *)
(* pool.                                                                   *)
(*                                                                         *)
(* The table is a cache without an owner: noxfs_lookup adds a slot,        *)
(* noxfs_unlink drops the first slot of an inode, and nobody else looks    *)
(* after it.  What holds it together is that an inode has one link, that   *)
(* it has one slot unless it was loaded under a second path, and that the  *)
(* inode of a slot stays linked, so that _ialloc cannot hand it out again. *)
(***************************************************************************)
EXTENDS FileCache, FiniteSetTheorems, WellFoundedInduction, TLAPS

(* A step that cites no prover is left to the SMT solver. *)
USE SMTT(30)

Values == Contents \cup {Empty}
Slots == [name : Seq(Chars), ino : Inodes, data : Values]
Descriptors == [kind : {"closed", "file", "proc", "dev"}, at : Nat, was : Nat]

(* The state is well formed. *)
Types ==
  /\ count \in 0..MaxFiles /\ opens \in Nat /\ g_next \in 0..(PoolSlots - 1)
  /\ disk \in [Inodes -> Values]
  /\ slot \in [1..MaxFiles -> Slots]
  /\ pool \in [0..(PoolSlots - 1) -> Nat]
  /\ fds \in [Fds -> Descriptors]
  /\ \A fd \in Fds : fds[fd].kind = "file" => fds[fd].at \in 1..MaxFiles

Plain == Names \cup {<<"d">>}

(* An inode has one link, a name one meaning, and /d is the directory. *)
LinksSound ==
  /\ IsFiniteSet(links)
  /\ \A l \in links : /\ l[1] \in {Gone, Root, Sub} /\ l[2] \in Seq(Chars)
                      /\ l[3] \in Inodes \ {Root}
  /\ \A l, m \in links : l[3] = m[3] => l = m
  /\ \A l, m \in links : l[1] = m[1] /\ l[1] # Gone /\ l[2] = m[2] /\ l[2] \in Plain => l = m
  /\ \E l \in links : l[3] = Sub
  /\ \A l \in links : l[3] = Sub => l[2] = <<"d">>
  /\ \A l \in links : "slashed" \in odd \/ l[2] \in Plain

(* No slot has a name with a slash in front. *)
SlotNames ==
  "slashed" \notin odd =>
    \A i \in 1..MaxFiles : slot[i].name = <<>> \/ slot[i].name[1] # "/"

(* Every file of the root has a slot. *)
RootLoaded ==
  odd \cap {"renamed", "unloaded"} = {} =>
    \A l \in links : l[1] = Root /\ l[3] # Sub => \E i \in Live : slot[i].ino = l[3]

(* An inode has one slot, and an inode with a slot is linked. *)
Single ==
  "twice" \notin odd =>
    /\ \A i, j \in Live : slot[i].ino = slot[j].ino => i = j
    /\ \A i \in Live : \E l \in links : l[3] = slot[i].ino

(* The slot of the pool handed out d opens ago, where n is the next one. *)
Back(n, d) == IF d <= n THEN n - d ELSE n + PoolSlots - d

(* The last PoolSlots opens have their slots of the pool, and descriptors  *)
(* of /proc files point at them.                                           *)
PoolSound ==
  /\ \A d \in 1..PoolSlots : d <= opens => pool[Back(g_next, d)] = opens + 1 - d
  /\ \A fd \in Fds : fds[fd].kind = "proc" =>
       /\ fds[fd].was \in 1..opens
       /\ opens - fds[fd].was < PoolSlots => fds[fd].at = Back(g_next, opens + 1 - fds[fd].was)

Inv ==
  /\ Types /\ LinksSound /\ SlotNames /\ RootLoaded /\ Single /\ PoolSound
  /\ StableUnlessMoved /\ CurrentUnlessSplit /\ FromRootFindsNamed

-----------------------------------------------------------------------------
(* Min of a set of natural numbers. *)
LEMMA MinFacts ==
  ASSUME NEW S \in SUBSET Nat, S # {}
  PROVE  Min(S) \in S /\ \A k \in S : Min(S) <= k
<1>1. PICK m \in S : \A k \in S : ~(<<k, m>> \in OpToRel(<, Nat))
  BY Zenon, WFMin, NatLessThanWellFounded
<1>2. \A k \in S : k \in Nat /\ m \in Nat /\ ~(k < m)
  BY <1>1, Zenon DEF OpToRel
<1>3. \E x \in S : \A y \in S : x <= y
  BY <1>2
<1> QED
  BY <1>3, Zenon DEF Min

(* Resolve gives the inode of the link, if there is one. *)
LEMMA ResolveFacts ==
  ASSUME NEW dir, NEW name
  PROVE  \/ /\ Resolve(dir, name) = NoInode
            /\ \A l \in links : ~(l[1] = dir /\ l[2] = name)
         \/ \E l \in links : l[1] = dir /\ l[2] = name /\ Resolve(dir, name) = l[3]
<1> DEFINE found == {l \in links : l[1] = dir /\ l[2] = name}
<1>1. CASE found = {}
  BY <1>1, Zenon DEF Resolve
<1>2. CASE found # {}
  <2>1. Resolve(dir, name) = (CHOOSE l \in found : TRUE)[3]
    BY <1>2, Zenon DEF Resolve
  <2>2. (CHOOSE l \in found : TRUE) \in found
    BY <1>2, Zenon
  <2> QED
    BY Zenon, <2>1, <2>2
<1> QED
  BY <1>1, <1>2, Zenon

(* A plain name resolves to the one link of that name; names of files are  *)
(* never those of the root or of Sub.                                      *)
LEMMA NameFacts ==
  ASSUME Constants, LinksSound, NEW dir \in {Root, Sub}, NEW name \in Names,
         Resolve(dir, name) # NoInode
  PROVE  /\ Resolve(dir, name) \in Inodes \ {Root, Sub}
         /\ \A l \in links : l[3] = Resolve(dir, name) <=> (l[1] = dir /\ l[2] = name)
<1>1. PICK l \in links : l[1] = dir /\ l[2] = name /\ Resolve(dir, name) = l[3]
  BY ResolveFacts
<1>2. name # <<"d">> /\ name \in Plain /\ dir # Gone
  BY DEF Constants, Plain, Gone, Root, Sub
<1>3. l[3] \in Inodes \ {Root, Sub}
  BY <1>1, <1>2, Zenon DEF LinksSound
<1>4. ASSUME NEW m \in links, m[3] = l[3]
      PROVE  m[1] = dir /\ m[2] = name
  <2>1. m = l
    BY <1>4, Zenon DEF LinksSound
  <2> QED
    BY <2>1, <1>1, Zenon
<1>5. ASSUME NEW m \in links, m[1] = dir, m[2] = name
      PROVE  m[3] = l[3]
  <2>1. m = l
    BY <1>1, <1>2, <1>5, Zenon DEF LinksSound
  <2> QED
    BY <2>1, Zenon
<1> QED
  BY <1>1, <1>3, <1>4, <1>5, Zenon

(* The slots in use. *)
LEMMA LiveFacts ==
  ASSUME Constants, Types
  PROVE  /\ \A i : i \in Live <=> i \in 1..MaxFiles /\ i <= count
         /\ \A ino : SlotsOf(ino) \in SUBSET Nat /\ SlotsOf(ino) \subseteq Live
         /\ \A name : SlotsNamed(name) \in SUBSET Nat /\ SlotsNamed(name) \subseteq Live
  BY DEF Types, Live, SlotsOf, SlotsNamed, Constants

(* A name of one character. *)
LEMMA OneCharacter == <<"d">> \in Seq(Chars)
<1>1. ASSUME NEW T, NEW c \in T PROVE <<c>> \in Seq(T)
  OBVIOUS
<1>2. "d" \in Chars
  BY Zenon DEF Chars
<1> QED
  BY <1>1, <1>2, Zenon

(* noxfs_init on a disk without files. *)
LEMMA InitInv == Constants /\ Init => Inv
<1> SUFFICES ASSUME Constants, Init PROVE Inv
  BY Zenon
<1>1. 0 \in Inodes /\ 1 \in Inodes
  <2>1. NInodes \in Nat /\ NInodes > 1
    BY Zenon DEF Constants
  <2> QED
    BY <2>1 DEF Inodes
<1> USE DEF Init
<1>2. Types
  <2>1. <<>> \in Seq(Chars)
    OBVIOUS
  <2>2. Free \in Slots /\ Closed \in Descriptors
    BY <1>1, <2>1, Zenon DEF Free, Closed, Slots, Descriptors, Values
  <2>3. disk \in [Inodes -> Values] /\ slot \in [1..MaxFiles -> Slots]
    BY <2>2, Zenon DEF Values
  <2>4. fds \in [Fds -> Descriptors] /\ \A fd \in Fds : fds[fd].kind # "file"
    BY <2>2, Zenon DEF Closed
  <2>5. pool \in [0..(PoolSlots - 1) -> Nat] /\ count \in 0..MaxFiles /\ opens \in Nat
        /\ g_next \in 0..(PoolSlots - 1)
    BY DEF Constants
  <2> QED
    BY <2>3, <2>4, <2>5, Zenon DEF Types
<1>3. LinksSound
  <2>1. \A l \in links : l = <<Root, <<"d">>, Sub>>
    BY Zenon
  <2>2. <<Root, <<"d">>, Sub>> \in links
    BY Zenon
  <2>3. \A l \in links : l[1] = Root /\ l[2] = <<"d">> /\ l[3] = Sub
    BY <2>1
  <2>4. Sub \in Inodes \ {Root} /\ <<"d">> \in Plain
    BY <1>1 DEF Sub, Root, Plain
  <2>6. <<"d">> \in Seq(Chars)
    BY OneCharacter, Zenon
  <2>5. IsFiniteSet(links)
    BY Zenon, FS_Singleton
  <2> QED
    BY <2>1, <2>2, <2>3, <2>4, <2>5, <2>6, Zenon DEF LinksSound
<1>4. Live = {}
  BY DEF Live
<1>5. SlotNames
  <2>1. \A i \in 1..MaxFiles : slot[i].name = <<>>
    BY Zenon DEF Free
  <2> QED
    BY <2>1, Zenon DEF SlotNames
<1>6. RootLoaded /\ Single
  BY <1>4 DEF RootLoaded, Single
<1>7. PoolSound /\ StableUnlessMoved
  <2>1. \A fd \in Fds : fds[fd].kind = "closed"
    BY Zenon DEF Closed
  <2>2. \A d \in 1..PoolSlots : ~(d <= opens)
    BY DEF Constants
  <2> QED
    BY <2>1, <2>2, Zenon DEF PoolSound, StableUnlessMoved, DescriptorsStable
<1>8. CurrentUnlessSplit /\ FromRootFindsNamed
  BY <1>4, Zenon DEF CurrentUnlessSplit, CopiesCurrent, FromRootFindsNamed, OpenFindsNamed, Nothing, Looked
<1> QED
  BY <1>2, <1>3, <1>5, <1>6, <1>7, <1>8, Zenon DEF Inv

-----------------------------------------------------------------------------
(* The parts of the invariant that are about the table. *)
TableSound == SlotNames /\ RootLoaded /\ Single /\ CurrentUnlessSplit

(* A step that changes at most the contents of a slot. *)
LEMMA TableKept ==
  ASSUME Constants, Types, TableSound,
         links' = links, disk' = disk, count' = count, odd \subseteq odd',
         \A i \in 1..MaxFiles : slot'[i].name = slot[i].name /\ slot'[i].ino = slot[i].ino,
         "truncated" \notin odd' => \A i \in Live : slot'[i].data = slot[i].data
  PROVE  TableSound'
<1> USE DEF TableSound
<1>1. Live' = Live /\ Live \subseteq 1..MaxFiles
  BY LiveFacts, Zenon DEF Live
<1>2. SlotNames'
  BY Zenon DEF SlotNames
<1>3. RootLoaded'
  <2> SUFFICES ASSUME odd' \cap {"renamed", "unloaded"} = {},
                      NEW l \in links, l[1] = Root, l[3] # Sub
               PROVE  \E i \in Live : slot'[i].ino = l[3]
    BY <1>1, Zenon DEF RootLoaded
  <2>1. PICK i \in Live : slot[i].ino = l[3]
    BY Zenon DEF RootLoaded
  <2> QED
    BY <2>1, <1>1, Zenon
<1>4. Single'
  BY <1>1 DEF Single
<1>5. CurrentUnlessSplit'
  BY <1>1, Zenon DEF CurrentUnlessSplit, CopiesCurrent
<1> QED
  BY <1>2, <1>3, <1>4, <1>5, Zenon

(* A step that loads the file of a link into a new slot. *)
LEMMA TableLoaded ==
  ASSUME Constants, Types, TableSound,
         links' = links, disk' = disk, count < MaxFiles, count' = count + 1,
         odd \subseteq odd',
         NEW ino, \E l \in links : l[3] = ino,
         SlotsOf(ino) # {} => "twice" \in odd',
         \A i \in 1..MaxFiles : i # count + 1 =>
           slot'[i].name = slot[i].name /\ slot'[i].ino = slot[i].ino,
         slot'[count + 1].name = <<>> \/ slot'[count + 1].name[1] # "/",
         slot'[count + 1].ino = ino,
         "truncated" \notin odd' =>
           /\ \A i \in Live : slot'[i].data = slot[i].data
           /\ slot'[count + 1].data = disk[ino]
  PROVE  TableSound'
<1> USE DEF TableSound
<1>1. /\ Live' = Live \cup {count + 1} /\ Live \subseteq 1..MaxFiles /\ count + 1 \notin Live
      /\ count + 1 \in 1..MaxFiles
  BY DEF Live, Types, Constants
<1>2. \A i \in Live : slot'[i].name = slot[i].name /\ slot'[i].ino = slot[i].ino
  BY Zenon, <1>1
<1>3. SlotNames'
  BY Zenon DEF SlotNames
<1>4. RootLoaded'
  <2> SUFFICES ASSUME odd' \cap {"renamed", "unloaded"} = {},
                      NEW l \in links, l[1] = Root, l[3] # Sub
               PROVE  \E i \in Live' : slot'[i].ino = l[3]
    BY Zenon DEF RootLoaded
  <2>1. PICK i \in Live : slot[i].ino = l[3]
    BY Zenon DEF RootLoaded
  <2> QED
    BY <2>1, <1>1, <1>2, Zenon
<1>5. Single'
  <2> SUFFICES ASSUME "twice" \notin odd'
               PROVE  /\ \A i, j \in Live' : slot'[i].ino = slot'[j].ino => i = j
                      /\ \A i \in Live' : \E l \in links : l[3] = slot'[i].ino
    BY Zenon DEF Single
  <2>1. /\ \A i, j \in Live : slot[i].ino = slot[j].ino => i = j
        /\ \A i \in Live : \E l \in links : l[3] = slot[i].ino
    BY Zenon DEF Single
  <2>2. \A i \in Live : slot[i].ino # ino
    BY Zenon DEF SlotsOf
  <2>3. ASSUME NEW i \in Live', NEW j \in Live', slot'[i].ino = slot'[j].ino
        PROVE  i = j
    <3>1. CASE i \in Live /\ j \in Live
      BY <3>1, <2>3, <2>1, <1>2
    <3>2. CASE i = count + 1 \/ j = count + 1
      BY ZenonT(30), <3>2, <2>3, <2>2, <1>1, <1>2
    <3> QED
      BY <3>1, <3>2, <1>1, Zenon
  <2>4. \A i \in Live' : \E l \in links : l[3] = slot'[i].ino
    <3>1. \A i \in Live : \E l \in links : l[3] = slot'[i].ino
      BY <2>1, <1>2
    <3> QED
      BY <3>1, <1>1, Zenon
  <2> QED
    BY <2>3, <2>4, Zenon
<1>6. CurrentUnlessSplit'
  <2> SUFFICES ASSUME odd' \cap {"twice", "truncated", "full", "moved"} = {}
               PROVE  \A i \in Live' : slot'[i].data = disk[slot'[i].ino]
    BY Zenon DEF CurrentUnlessSplit, CopiesCurrent
  <2>1. \A i \in Live : slot[i].data = disk[slot[i].ino]
    BY Zenon DEF CurrentUnlessSplit, CopiesCurrent
  <2> QED
    BY <2>1, <1>1, <1>2, Zenon
<1> QED
  BY <1>3, <1>4, <1>5, <1>6, Zenon

-----------------------------------------------------------------------------
(* A path is a sequence of characters that begins with its prefix. *)
LEMMA PathFacts ==
  ASSUME Constants, NEW prefix \in Prefixes, NEW name \in Names
  PROVE  /\ prefix \o name \in Seq(Chars) /\ prefix \o name # <<>>
         /\ prefix # <<>> => (prefix \o name)[1] = "/"
         /\ prefix = <<>> => prefix \o name = name
<1>1. name \in Seq(Chars) /\ name # <<>> /\ Len(name) > 0
  BY DEF Constants
<1>2. CASE prefix = <<>>
  BY <1>1, <1>2
<1>3. CASE prefix = <<"/">>
  <2>1. "/" \in Chars
    BY Zenon DEF Chars
  <2>2. ASSUME NEW T, NEW c \in T, NEW q \in Seq(T)
        PROVE  <<c>> \o q \in Seq(T) /\ (<<c>> \o q)[1] = c /\ <<c>> \o q # <<>>
    OBVIOUS
  <2> QED
    BY <1>1, <1>3, <2>1, <2>2, Zenon
<1>4. CASE prefix = <<"/", "d", "/">>
  <2>1. "/" \in Chars /\ "d" \in Chars
    BY Zenon DEF Chars
  <2>2. ASSUME NEW T, NEW c \in T, NEW d \in T, NEW q \in Seq(T)
        PROVE  /\ <<c, d, c>> \o q \in Seq(T) /\ (<<c, d, c>> \o q)[1] = c
               /\ <<c, d, c>> \o q # <<>>
    OBVIOUS
  <2> QED
    BY <1>1, <1>4, <2>1, <2>2
<1> QED
  BY <1>2, <1>3, <1>4, Zenon DEF Prefixes

(* What noxfs_lookup may do: find a slot, find nothing, or load a file. *)
Hit(r, i) == r.i = i /\ i \in Live /\ r.slot = slot /\ r.count = count /\ r.twice = FALSE
Miss(r) == r.i = 0 /\ r.slot = slot /\ r.count = count /\ r.twice = FALSE
Load(r, name, ino) ==
  /\ count < MaxFiles /\ r.i = count + 1 /\ r.count = count + 1
  /\ \E l \in links : l[3] = ino
  /\ ino \in Inodes /\ r.twice = (SlotsOf(ino) # {})
  /\ r.slot = [slot EXCEPT ![count + 1] = [name |-> name, ino |-> ino, data |-> disk[ino]]]

(* noxfs_lookup finds a slot, finds none, or loads the inode in a new one. *)
LEMMA NoxfsLookupFacts ==
  ASSUME Constants, Types, LinksSound, NEW prefix \in Prefixes, NEW name \in Names
  PROVE  LET r == NoxfsLookup(prefix, name)
             ino == Resolve(DirOf(prefix), name)
         IN \/ \E i \in Live : Hit(r, i) /\ slot[i].name = prefix \o name
            \/ /\ Miss(r) /\ SlotsNamed(prefix \o name) = {}
               /\ ino \in {NoInode, Root, Sub} \/ count >= MaxFiles
            \/ Load(r, name, ino) /\ SlotsNamed(prefix \o name) = {}
<1> DEFINE r == NoxfsLookup(prefix, name)
           ino == Resolve(DirOf(prefix), name)
           named == SlotsNamed(prefix \o name)
<1>1. CASE named # {}
  <2>1. Min(named) \in named /\ named \subseteq Live
    BY <1>1, LiveFacts, MinFacts, Zenon
  <2>2. r = Found(Min(named))
    BY <1>1, Zenon DEF NoxfsLookup
  <2>3. slot[Min(named)].name = prefix \o name
    BY <2>1, Zenon DEF SlotsNamed
  <2> HIDE DEF named, r
  <2>4. Hit(r, Min(named))
    BY <2>1, <2>2, Zenon DEF Hit, Found
  <2> QED
    BY <2>1, <2>3, <2>4, Zenon DEF r
<1>2. CASE named = {} /\ (ino \in {NoInode, Root, Sub} \/ count >= MaxFiles)
  <2>1. r = NotFound
    BY <1>2, Zenon DEF NoxfsLookup
  <2> HIDE DEF r
  <2>2. Miss(r)
    BY <2>1, Zenon DEF Miss, NotFound, Found
  <2> QED
    BY <2>2, <1>2, Zenon DEF r
<1>3. CASE named = {} /\ ~(ino \in {NoInode, Root, Sub} \/ count >= MaxFiles)
  <2>1. r = [i |-> count + 1, count |-> count + 1, twice |-> SlotsOf(ino) # {},
             slot |-> [slot EXCEPT ![count + 1] =
                          [name |-> name, ino |-> ino, data |-> disk[ino]]]]
    BY <1>3, Zenon DEF NoxfsLookup
  <2>2. \E l \in links : l[3] = ino
    BY <1>3, ResolveFacts
  <2>3. ino \in Inodes
    BY <2>2, Zenon DEF LinksSound
  <2>4. count < MaxFiles
    BY <1>3 DEF Types, Constants
  <2> HIDE DEF r, ino
  <2>5. Load(r, name, ino)
    BY <2>1, <2>2, <2>3, <2>4, Zenon DEF Load
  <2> QED
    BY <2>5, <1>3, Zenon DEF r, ino
<1> QED
  BY <1>1, <1>2, <1>3, Zenon

(* What vfs_lookup_at may do. *)
LEMMA VfsLookupFacts ==
  ASSUME Constants, Types, LinksSound,
         NEW cwd \in {Root, Sub}, NEW prefix \in Prefixes, NEW name \in Names
  PROVE  LET r == VfsLookupAt(cwd, prefix, name)
             ino == Resolve(cwd, name)
         IN \/ prefix # <<>> /\ r = NoxfsLookup(prefix, name)
            \/ prefix = <<>> /\ ino = NoInode /\ Miss(r)
            \/ prefix = <<>> /\ \E i \in Live : Hit(r, i) /\ slot[i].ino = ino
            \/ /\ prefix = <<>> /\ ino # NoInode /\ SlotsOf(ino) = {}
               /\ r = NoxfsLookup(prefix, name)
<1> DEFINE r == VfsLookupAt(cwd, prefix, name)
           ino == Resolve(cwd, name)
<1>1. CASE prefix # <<>>
  BY <1>1, Zenon DEF VfsLookupAt
<1>2. CASE prefix = <<>> /\ ino = NoInode
  <2>1. r = NotFound
    BY <1>2, Zenon DEF VfsLookupAt
  <2>2. Miss(r)
    BY <2>1 DEF Miss, NotFound, Found
  <2> QED
    BY <1>2, <2>2, Zenon
<1>3. CASE prefix = <<>> /\ ino # NoInode /\ SlotsOf(ino) # {}
  <2> DEFINE m == Min(SlotsOf(ino))
  <2>1. r = Found(m)
    BY <1>3, Zenon DEF VfsLookupAt
  <2>2. m \in SlotsOf(ino) /\ SlotsOf(ino) \subseteq Live
    BY <1>3, LiveFacts, MinFacts, Zenon
  <2> HIDE DEF m, r
  <2>3. Hit(r, m) /\ slot[m].ino = ino
    BY <2>1, <2>2, Zenon DEF Hit, Found, SlotsOf
  <2> QED
    BY <1>3, <2>2, <2>3, Zenon DEF r
<1>4. CASE prefix = <<>> /\ ino # NoInode /\ SlotsOf(ino) = {}
  BY <1>4, Zenon DEF VfsLookupAt
<1> QED
  BY <1>1, <1>2, <1>3, <1>4, Zenon

-----------------------------------------------------------------------------
(* sys_open binds one descriptor at most. *)
LEMMA BindFacts ==
  ASSUME Types, NEW fd \in Fds, NEW entry \in Descriptors,
         entry.kind = "file" => entry.at \in 1..MaxFiles, Bind(fd, entry)
  PROVE  /\ fds' \in [Fds -> Descriptors]
         /\ \A e \in Fds : fds'[e].kind = "file" => fds'[e].at \in 1..MaxFiles
         /\ \A e \in Fds : fds'[e] = fds[e] \/ fds'[e] = entry
<1>1. CASE fds' = [fds EXCEPT ![fd] = entry]
  <2>1. \A e \in Fds : fds'[e] = IF e = fd THEN entry ELSE fds[e]
    BY <1>1, Zenon DEF Types
  <2> QED
    BY <1>1, <2>1, Zenon DEF Types
<1>2. CASE fds' = fds
  BY <1>2, Zenon DEF Types
<1> QED
  BY <1>1, <1>2, Zenon DEF Bind

(* The table after noxfs_lookup: well formed, and the slots in use keep    *)
(* their inodes.                                                           *)
LEMMA LoadFacts ==
  ASSUME Constants, Types, NEW r, NEW name \in Names, NEW ino, Load(r, name, ino)
  PROVE  /\ r.slot \in [1..MaxFiles -> Slots] /\ r.i \in 1..MaxFiles
         /\ r.slot[r.i] = [name |-> name, ino |-> ino, data |-> disk[ino]]
         /\ \A i \in 1..MaxFiles : i # count + 1 => r.slot[i] = slot[i]
         /\ r.i = count + 1 /\ r.count = count + 1 /\ r.count \in 0..MaxFiles
         /\ count + 1 \notin Live
<1>1. count + 1 \in 1..MaxFiles /\ count + 1 \notin Live /\ count + 1 \in 0..MaxFiles
  BY DEF Load, Types, Constants, Live
<1>2. [name |-> name, ino |-> ino, data |-> disk[ino]] \in Slots
  BY Zenon DEF Load, Types, Slots, Constants
<1> QED
  BY <1>1, <1>2, Zenon DEF Load, Types

(* The parts of the invariant about descriptors when slots in use keep     *)
(* their inodes and one descriptor may be bound to a file.                 *)
LEMMA BoundFile ==
  ASSUME Constants, Types, StableUnlessMoved, PoolSound, NEW fd \in Fds, NEW i \in 1..MaxFiles,
         Bind(fd, [kind |-> "file", at |-> i, was |-> slot'[i].ino]),
         slot'[i].ino \in Inodes, i \in Live', Live \subseteq Live',
         \A j \in Live : slot'[j].ino = slot[j].ino, odd \subseteq odd',
         pool' = pool, g_next' = g_next, opens' = opens
  PROVE  /\ fds' \in [Fds -> Descriptors]
         /\ \A e \in Fds : fds'[e].kind = "file" => fds'[e].at \in 1..MaxFiles
         /\ StableUnlessMoved' /\ PoolSound'
<1> DEFINE entry == [kind |-> "file", at |-> i, was |-> slot'[i].ino]
<1>1. /\ entry \in Descriptors /\ entry.kind = "file" /\ entry.at = i
      /\ entry.was = slot'[i].ino
  BY DEF Descriptors, Inodes, Constants
<1>2. Bind(fd, entry)
  BY Zenon
<1> HIDE DEF entry
<1>3. /\ fds' \in [Fds -> Descriptors]
      /\ \A e \in Fds : fds'[e].kind = "file" => fds'[e].at \in 1..MaxFiles
      /\ \A e \in Fds : fds'[e] = fds[e] \/ fds'[e] = entry
  BY <1>1, <1>2, BindFacts, Zenon
<1>4. StableUnlessMoved'
  <2> SUFFICES ASSUME "moved" \notin odd', NEW e \in Fds, fds'[e].kind = "file"
               PROVE  fds'[e].at \in Live' /\ slot'[fds'[e].at].ino = fds'[e].was
    BY Zenon DEF StableUnlessMoved, DescriptorsStable
  <2>1. CASE fds'[e] = entry
    BY <2>1, <1>1, Zenon
  <2>2. CASE fds'[e] = fds[e]
    <3>1. fds[e].at \in Live /\ slot[fds[e].at].ino = fds[e].was
      BY <2>2, Zenon DEF StableUnlessMoved, DescriptorsStable
    <3> QED
      BY Zenon, <3>1, <2>2
  <2> QED
    BY <2>1, <2>2, <1>3, Zenon
<1>5. PoolSound'
  <2>1. ASSUME NEW e \in Fds, fds'[e].kind = "proc"
        PROVE  fds'[e] = fds[e]
    BY <2>1, <1>1, <1>3, Zenon
  <2> QED
    BY <2>1, Zenon DEF PoolSound
<1> QED
  BY <1>3, <1>4, <1>5, Zenon

(* sys_open of a file keeps the invariant. *)
LEMMA OpenInv ==
  ASSUME Constants, Inv, Open
  PROVE  Inv'
<1> USE DEF Inv
<1>1. PICK fd \in Fds, cwd \in {Root, Sub}, prefix \in Prefixes, name \in Names,
           truncate \in {FALSE} \cup When("truncate" \in Calls, TRUE) :
        LET r == VfsLookupAt(cwd, prefix, name)
        IN /\ r.i # 0
           /\ slot' = IF truncate THEN [r.slot EXCEPT ![r.i].data = Empty] ELSE r.slot
           /\ count' = r.count
           /\ Bind(fd, [kind |-> "file", at |-> r.i, was |-> r.slot[r.i].ino])
           /\ looked' = Looked(cwd, prefix, name, r.slot[r.i].ino,
                               Resolve(DirAt(cwd, prefix), name))
           /\ odd' = odd \cup When(r.twice, "twice") \cup When(truncate, "truncated")
  BY Zenon DEF Open
<1>15. truncate \in BOOLEAN
  BY Zenon DEF When
<1>2. links' = links /\ disk' = disk /\ pool' = pool /\ g_next' = g_next /\ opens' = opens
  BY Zenon DEF Open
<1> DEFINE r == VfsLookupAt(cwd, prefix, name)
<1>3. /\ r.i # 0
      /\ slot' = IF truncate THEN [r.slot EXCEPT ![r.i].data = Empty] ELSE r.slot
      /\ count' = r.count
      /\ Bind(fd, [kind |-> "file", at |-> r.i, was |-> r.slot[r.i].ino])
      /\ looked' = Looked(cwd, prefix, name, r.slot[r.i].ino,
                          Resolve(DirAt(cwd, prefix), name))
      /\ odd' = odd \cup When(r.twice, "twice") \cup When(truncate, "truncated")
  BY <1>1, Zenon
<1>4. \/ \E i \in Live : Hit(r, i)
      \/ \E ino : Load(r, name, ino)
  <2>1. \A q : Miss(q) => q.i = 0
    BY Zenon DEF Miss
  <2> QED
    BY <2>1, <1>3, VfsLookupFacts, NoxfsLookupFacts
<1> HIDE DEF r
<1>5. /\ r.slot \in [1..MaxFiles -> Slots] /\ r.i \in 1..MaxFiles /\ r.count \in 0..MaxFiles
      /\ \A i \in Live : r.slot[i] = slot[i]
  <2>1. CASE \E i \in Live : Hit(r, i)
    BY <2>1, LiveFacts, Zenon DEF Hit, Types
  <2>2. CASE \E ino : Load(r, name, ino)
    BY Zenon, <2>2, LoadFacts, LiveFacts
  <2> QED
    BY <2>1, <2>2, <1>4, Zenon
<1>6. /\ slot' \in [1..MaxFiles -> Slots]
      /\ \A i \in 1..MaxFiles : slot'[i].name = r.slot[i].name /\ slot'[i].ino = r.slot[i].ino
      /\ ~truncate => slot' = r.slot
  <2>1. CASE ~truncate
    BY <2>1, <1>3, <1>5, Zenon
  <2>2. CASE truncate
    <3>1. slot' = [r.slot EXCEPT ![r.i] = [r.slot[r.i] EXCEPT !.data = Empty]]
      BY <2>2, <1>3, Zenon
    <3>2. r.slot[r.i] \in Slots
      BY Zenon, <1>5
    <3>3. /\ [r.slot[r.i] EXCEPT !.data = Empty] \in Slots
          /\ [r.slot[r.i] EXCEPT !.data = Empty].name = r.slot[r.i].name
          /\ [r.slot[r.i] EXCEPT !.data = Empty].ino = r.slot[r.i].ino
      BY <3>2, Zenon DEF Slots, Values
    <3> QED
      BY <3>1, <3>3, <1>5, <2>2, Zenon
  <2> QED
    BY <2>1, <2>2, Zenon
<1>7. Live' = 1..r.count /\ Live \subseteq Live' /\ r.i \in Live' /\ Live \subseteq 1..MaxFiles
  <2>1. CASE \E i \in Live : Hit(r, i)
    BY <2>1, <1>3, LiveFacts, Zenon DEF Hit, Live
  <2>2. CASE \E ino : Load(r, name, ino)
    <3>1. r.i = count + 1 /\ r.count = count + 1 /\ count' = r.count
      BY <2>2, <1>3, Zenon DEF Load
    <3> QED
      BY <3>1, LiveFacts DEF Live, Types
  <2> QED
    BY <2>1, <2>2, <1>4, Zenon
<1>8. odd \subseteq odd' /\ (truncate => "truncated" \in odd') /\ (r.twice => "twice" \in odd')
  BY <1>3, Zenon DEF When
<1>9. LinksSound'
  BY <1>2, <1>8, Zenon DEF LinksSound
<1>10. TableSound
  BY Zenon DEF TableSound
<1>11. TableSound'
  <2>1. CASE \E i \in Live : Hit(r, i)
    <3>1. r.slot = slot /\ r.count = count
      BY <2>1, Zenon DEF Hit
    <3>2. "truncated" \notin odd' => \A i \in Live : slot'[i].data = slot[i].data
      BY Zenon, <3>1, <1>6, <1>8
    <3>3. count' = count
      BY <3>1, <1>3, Zenon
    <3>4. \A i \in 1..MaxFiles : slot'[i].name = slot[i].name /\ slot'[i].ino = slot[i].ino
      BY <3>1, <1>6, Zenon
    <3> QED
      BY <3>2, <3>3, <3>4, <1>2, <1>8, <1>10, TableKept, Zenon
  <2>2. ASSUME NEW ino, Load(r, name, ino)
        PROVE  TableSound'
    <3>1. /\ r.slot[count + 1] = [name |-> name, ino |-> ino, data |-> disk[ino]]
          /\ \A i \in 1..MaxFiles : i # count + 1 => r.slot[i] = slot[i]
          /\ r.i = count + 1 /\ r.count = count + 1 /\ count + 1 \notin Live
          /\ count + 1 \in 1..MaxFiles
      <4>1. /\ r.i \in 1..MaxFiles
            /\ r.slot[r.i] = [name |-> name, ino |-> ino, data |-> disk[ino]]
            /\ \A i \in 1..MaxFiles : i # count + 1 => r.slot[i] = slot[i]
            /\ r.i = count + 1 /\ r.count = count + 1 /\ count + 1 \notin Live
        BY ZenonT(30), <2>2, LoadFacts
      <4> QED
        BY <4>1, Zenon
    <3>2. count < MaxFiles /\ (\E l \in links : l[3] = ino) /\ count' = count + 1
      BY <2>2, <3>1, <1>3, Zenon DEF Load
    <3>3. SlotsOf(ino) # {} => "twice" \in odd'
      BY <2>2, <1>8, Zenon DEF Load
    <3>4. \A i \in 1..MaxFiles : i # count + 1 =>
            slot'[i].name = slot[i].name /\ slot'[i].ino = slot[i].ino
      BY <3>1, <1>6, Zenon
    <3>5. slot'[count + 1].name[1] # "/" /\ slot'[count + 1].ino = ino
      BY <3>1, <1>6 DEF Constants
    <3>6. "truncated" \notin odd' =>
             /\ \A i \in Live : slot'[i].data = slot[i].data
             /\ slot'[count + 1].data = disk[ino]
      <4> SUFFICES ASSUME "truncated" \notin odd'
                   PROVE  /\ \A i \in Live : slot'[i].data = slot[i].data
                          /\ slot'[count + 1].data = disk[ino]
        BY Zenon
      <4>1. slot' = r.slot
        BY <1>6, <1>8, Zenon
      <4>2. slot'[count + 1].data = disk[ino]
        BY <4>1, <3>1
      <4> QED
        BY <4>1, <4>2, <1>5, Zenon
    <3> QED
      BY <3>2, <3>3, <3>4, <3>5, <3>6, <1>2, <1>8, <1>10, TableLoaded, Zenon
  <2> QED
    BY <2>1, <2>2, <1>4, Zenon
<1>12. /\ fds' \in [Fds -> Descriptors]
       /\ \A e \in Fds : fds'[e].kind = "file" => fds'[e].at \in 1..MaxFiles
       /\ StableUnlessMoved' /\ PoolSound'
  <2>1. r.slot[r.i].ino = slot'[r.i].ino /\ slot'[r.i].ino \in Inodes
    BY <1>5, <1>6, Zenon DEF Slots
  <2>2. Bind(fd, [kind |-> "file", at |-> r.i, was |-> slot'[r.i].ino])
    BY <2>1, <1>3, Zenon
  <2>3. \A j \in Live : slot'[j].ino = slot[j].ino
    BY <1>5, <1>6, <1>7, Zenon
  <2> QED
    BY <2>1, <2>2, <2>3, <1>2, <1>5, <1>7, <1>8, BoundFile, Zenon
<1>13. Types'
  BY <1>2, <1>3, <1>5, <1>6, <1>12, Zenon DEF Types
<1>14. FromRootFindsNamed'
  <2>1. /\ looked'.prefix = prefix /\ looked'.cwd = cwd /\ looked'.ino = r.slot[r.i].ino
        /\ looked'.meant = Resolve(DirAt(cwd, prefix), name)
    BY <1>3, Zenon DEF Looked
  <2> SUFFICES ASSUME odd' \cap {"renamed", "slashed", "unloaded"} = {},
                      prefix # <<>> \/ cwd = Root
               PROVE  r.slot[r.i].ino = Resolve(DirAt(cwd, prefix), name)
    BY <2>1, Zenon DEF FromRootFindsNamed, OpenFindsNamed
  <2>2. odd \cap {"renamed", "slashed", "unloaded"} = {}
    BY <1>8, Zenon
  <2>3. CASE prefix # <<>>
    <3>1. r = NoxfsLookup(prefix, name)
      BY <2>3, VfsLookupFacts, Zenon DEF r
    <3>2. ASSUME NEW i \in Live, slot[i].name = prefix \o name
          PROVE  FALSE
      <4>1. (prefix \o name)[1] = "/" /\ prefix \o name # <<>>
        BY <2>3, PathFacts, Zenon
      <4> QED
        BY <4>1, <3>2, <2>2, <1>7, Zenon DEF SlotNames
    <3>3. Load(r, name, Resolve(DirOf(prefix), name))
      <4>1. \/ \E i \in Live : Hit(r, i) /\ slot[i].name = prefix \o name
            \/ Miss(r)
            \/ Load(r, name, Resolve(DirOf(prefix), name))
        BY <3>1, NoxfsLookupFacts, Zenon
      <4> QED
        BY <4>1, <3>2, <1>3, Zenon DEF Miss
    <3>4. r.slot[r.i].ino = Resolve(DirOf(prefix), name)
      <4>1. PICK ino : ino = Resolve(DirOf(prefix), name)
        BY Zenon
      <4>2. r.slot[r.i] = [name |-> name, ino |-> ino, data |-> disk[ino]]
        BY ZenonT(30), <3>3, <4>1, LoadFacts
      <4> QED
        BY <4>1, <4>2
    <3> QED
      BY <3>4, <2>3, Zenon DEF DirAt
  <2>4. CASE prefix = <<>> /\ cwd = Root
    <3> DEFINE ino == Resolve(Root, name)
    <3>1. ino = NoInode \/ \E i \in Live : slot[i].ino = ino
      <4> SUFFICES ASSUME ino # NoInode PROVE \E i \in Live : slot[i].ino = ino
        BY Zenon
      <4>1. PICK l \in links : l[1] = Root /\ l[3] = ino
        BY ResolveFacts
      <4>2. ino # Sub
        BY NameFacts, Zenon DEF Root, Sub
      <4> QED
        BY <4>1, <4>2, <2>2, Zenon DEF RootLoaded
    <3>2. ~(ino # NoInode /\ SlotsOf(ino) = {})
      BY <3>1, Zenon DEF SlotsOf
    <3>3. PICK i \in Live : Hit(r, i) /\ slot[i].ino = ino
      BY <3>2, <2>4, <1>3, VfsLookupFacts, Zenon DEF r, Miss
    <3>4. r.slot[r.i].ino = ino
      BY <3>3, Zenon DEF Hit
    <3> QED
      BY <3>4, <2>4, Zenon DEF DirAt
  <2> QED
    BY <2>3, <2>4, Zenon
<1> QED
  BY <1>9, <1>11, <1>12, <1>13, <1>14, Zenon DEF TableSound

-----------------------------------------------------------------------------
(* A name copied over another begins as it did. *)
LEMMA CopiedFacts ==
  ASSUME NEW name \in Seq(Chars), name # <<>>, NEW before \in Seq(Chars)
  PROVE  CopiedOver(name, before) \in Seq(Chars) /\ CopiedOver(name, before)[1] = name[1]
<1> DEFINE rest == SubSeq(before, Len(name) + 1, Len(before))
<1>1. rest \in Seq(Chars)
  OBVIOUS
<1>2. CopiedOver(name, before) = name \o rest
  BY Zenon DEF CopiedOver
<1> HIDE DEF rest
<1>3. Len(name) > 0
  OBVIOUS
<1>4. name \o rest \in Seq(Chars) /\ (name \o rest)[1] = name[1]
  BY <1>1, <1>3
<1> QED
  BY <1>2, <1>4, Zenon

(* noxfs_creat refuses a name it finds, and may have loaded the file. *)
LEMMA CreatFoundInv ==
  ASSUME Constants, Inv, NEW name \in Names, NEW r,
         (\E i \in Live : Hit(r, i)) \/ \E ino : Load(r, name, ino),
         slot' = r.slot, count' = r.count, odd' = odd \cup When(r.twice, "twice"),
         UNCHANGED <<links, disk, fds, pool, g_next, opens, looked>>
  PROVE  Inv'
<1> USE DEF Inv
<1>1. odd \subseteq odd' /\ (r.twice => "twice" \in odd')
  BY Zenon DEF When
<1>2. LinksSound'
  BY <1>1, Zenon DEF LinksSound
<1>3. FromRootFindsNamed' /\ PoolSound'
  BY <1>1, Zenon DEF FromRootFindsNamed, OpenFindsNamed, PoolSound
<1>4. TableSound
  BY Zenon DEF TableSound
<1>6. CASE \E i \in Live : Hit(r, i)
  <2>1. slot' = slot /\ count' = count
    BY <1>6, Zenon DEF Hit
  <2>2. TableSound'
    BY <2>1, <1>1, <1>4, TableKept, Zenon
  <2>3. Types' /\ StableUnlessMoved'
    BY <2>1, <1>1, Zenon DEF Types, StableUnlessMoved, DescriptorsStable, Live
  <2> QED
    BY <2>2, <2>3, <1>2, <1>3, Zenon DEF TableSound
<1>7. ASSUME NEW ino, Load(r, name, ino)
      PROVE  Inv'
  <2>1. /\ slot' \in [1..MaxFiles -> Slots] /\ r.i \in 1..MaxFiles
        /\ slot'[r.i] = [name |-> name, ino |-> ino, data |-> disk[ino]]
        /\ \A i \in 1..MaxFiles : i # count + 1 => slot'[i] = slot[i]
        /\ r.i = count + 1 /\ count' = count + 1 /\ count' \in 0..MaxFiles
        /\ count + 1 \notin Live
    <3>1. /\ r.slot \in [1..MaxFiles -> Slots] /\ r.i \in 1..MaxFiles
          /\ r.slot[r.i] = [name |-> name, ino |-> ino, data |-> disk[ino]]
          /\ \A i \in 1..MaxFiles : i # count + 1 => r.slot[i] = slot[i]
          /\ r.i = count + 1 /\ r.count = count + 1 /\ r.count \in 0..MaxFiles
          /\ count + 1 \notin Live
      BY Zenon, <1>7, LoadFacts
    <3>2. slot' = r.slot /\ count' = r.count
      BY Zenon
    <3> QED
      BY <3>1, <3>2, Zenon
  <2>2. count < MaxFiles /\ \E l \in links : l[3] = ino
    BY <1>7, Zenon DEF Load
  <2>9. SlotsOf(ino) # {} => "twice" \in odd'
    <3>1. r.twice = (SlotsOf(ino) # {})
      BY <1>7, Zenon DEF Load
    <3> QED
      BY <3>1, <1>1, Zenon
  <2>10. \A i \in Live : i \in 1..MaxFiles
    BY LiveFacts, Zenon
  <2>3. \A i \in Live : i \in 1..MaxFiles /\ i # count + 1
    BY <2>1, <2>10, Zenon
  <2>4. slot'[count + 1].name[1] # "/"
    BY <2>1 DEF Constants
  <2>5. TableSound'
    <3>1. \A i \in Live : slot'[i].data = slot[i].data
      BY Zenon, <2>1, <2>3
    <3>2. slot'[count + 1].ino = ino /\ slot'[count + 1].data = disk[ino]
      BY <2>1
    <3>3. \A i \in 1..MaxFiles : i # count + 1 =>
            slot'[i].name = slot[i].name /\ slot'[i].ino = slot[i].ino
      BY <2>1, Zenon
    <3> QED
      BY <3>1, <3>2, <3>3, <2>1, <2>2, <2>4, <2>9, <1>1, <1>4, TableLoaded, Zenon
  <2>6. Types'
    BY <2>1, Zenon DEF Types
  <2>7. Live \subseteq Live'
    BY <2>1 DEF Live, Types
  <2>8. StableUnlessMoved'
    BY <2>1, <2>3, <2>7, <1>1, Zenon DEF StableUnlessMoved, DescriptorsStable
  <2> QED
    BY <2>5, <2>6, <2>8, <1>2, <1>3, Zenon DEF TableSound
<1> QED
  BY <1>6, <1>7, Zenon

(* noxfs_creat makes a file in the root under an inode nobody uses. *)
LEMMA CreatedInv ==
  ASSUME Constants, Inv, NEW fd \in Fds, NEW prefix \in Prefixes, NEW name \in Names,
         Miss(NoxfsLookup(prefix, name)), count < MaxFiles, Created(fd, prefix, name),
         UNCHANGED <<pool, g_next, opens, looked>>
  PROVE  Inv'
<1> USE DEF Inv
<1> DEFINE ino == Min(FreeInodes)
           entry == prefix \o name
           k == count + 1
           new == [name |-> CopiedOver(entry, slot[k].name), ino |-> ino, data |-> Empty]
<1>1. /\ FreeInodes # {}
      /\ links' = links \cup {<<Root, entry, ino>>}
      /\ disk' = [disk EXCEPT ![ino] = Empty]
      /\ slot' = [slot EXCEPT ![k] = new]
      /\ count' = k
      /\ Bind(fd, [kind |-> "file", at |-> k, was |-> ino])
      /\ odd' = odd \cup When(prefix # <<>>, "slashed")
  BY Zenon DEF Created
<1>2. FreeInodes \in SUBSET Nat
  BY DEF FreeInodes, Inodes, Constants
<1>3. ino \in FreeInodes
  <2>1. FreeInodes # {}
    BY <1>1, Zenon
  <2> QED
    BY <1>2, <2>1, MinFacts, Zenon
<1>4. /\ ino \in Inodes \ {Root} /\ \A l \in links : l[3] # ino
      /\ ino # Sub
  <2>1. \A x \in FreeInodes : x \in Inodes \ {Root} /\ \A l \in links : l[3] # x
    BY Zenon DEF FreeInodes
  <2>2. \E l \in links : l[3] = Sub
    BY Zenon DEF LinksSound
  <2> HIDE DEF ino
  <2> QED
    BY <1>3, <2>1, <2>2, Zenon
<1>5. k \in 1..MaxFiles /\ k \notin Live /\ Live \subseteq 1..MaxFiles
  BY DEF Live, Types, Constants
<1>6. /\ entry \in Seq(Chars) /\ entry # <<>>
      /\ prefix # <<>> => entry[1] = "/"
      /\ prefix = <<>> => entry = name
  BY PathFacts, Zenon
<1> HIDE DEF ino, entry
<1>7. slot[k] \in Slots /\ slot[k].name \in Seq(Chars)
  BY <1>5, Zenon DEF Types, Slots
<1>8. /\ new \in Slots /\ new.name[1] = entry[1] /\ new.ino = ino /\ new.data = Empty
  <2>1. CopiedOver(entry, slot[k].name) \in Seq(Chars)
        /\ CopiedOver(entry, slot[k].name)[1] = entry[1]
    BY <1>6, <1>7, CopiedFacts, Zenon
  <2> QED
    BY <2>1, <1>4, Zenon DEF Slots, Values
<1> HIDE DEF new
<1>9. /\ slot' \in [1..MaxFiles -> Slots] /\ slot'[k] = new
      /\ \A i \in 1..MaxFiles : i # k => slot'[i] = slot[i]
  BY <1>1, <1>5, <1>8, Zenon DEF Types
<1>10. Live' = Live \cup {k} /\ count' \in 0..MaxFiles
  BY <1>1 DEF Live, Types, Constants
<1> HIDE DEF k
<1>11. \A i \in Live : slot'[i] = slot[i]
  BY <1>5, <1>9, Zenon
<1>12. odd \subseteq odd' /\ (prefix # <<>> => "slashed" \in odd')
  BY <1>1, Zenon DEF When
<1>13. \A l \in links : ~(l[1] = Root /\ l[2] = entry /\ l[2] \in Plain)
  <2> SUFFICES ASSUME NEW l \in links, l[1] = Root, l[2] = entry, entry \in Plain
               PROVE  FALSE
    BY Zenon
  <2>1. prefix = <<>>
    <3>1. ASSUME prefix # <<>> PROVE FALSE
      <4>1. entry[1] = "/"
        BY <3>1, <1>6, Zenon
      <4>2. entry \in Names => entry[1] # "/"
        BY Zenon DEF Constants
      <4>3. entry = <<"d">> => entry[1] = "d"
        OBVIOUS
      <4> QED
        BY <4>1, <4>2, <4>3, Zenon DEF Plain
    <3> QED
      BY <3>1, Zenon
  <2>2. entry = name /\ DirOf(prefix) = Root
    BY <2>1, <1>6 DEF DirOf
  <2>3. Resolve(Root, name) \in {NoInode, Root, Sub}
    <3>1. \A q, i : Hit(q, i) /\ i \in Live => ~Miss(q)
      BY DEF Hit, Miss, Live
    <3>2. \A q, j : Load(q, name, j) => ~Miss(q)
      BY DEF Load, Miss, Types
    <3>3. Resolve(DirOf(prefix), name) \in {NoInode, Root, Sub} \/ count >= MaxFiles
      BY <3>1, <3>2, NoxfsLookupFacts, Zenon
    <3>4. ~(count >= MaxFiles)
      BY DEF Types, Constants
    <3> QED
      BY <3>3, <3>4, <2>2, Zenon
  <2>4. Resolve(Root, name) = NoInode
    BY <2>3, NameFacts, Zenon
  <2> QED
    BY <2>2, <2>4, ResolveFacts, <1>4 DEF LinksSound, NoInode, Inodes
<1>14. LinksSound'
  <2> DEFINE n == <<Root, entry, ino>>
  <2>1. links' = links \cup {n} /\ n[1] = Root /\ n[2] = entry /\ n[3] = ino
    BY <1>1, Zenon
  <2>2. IsFiniteSet(links')
    BY <1>1, FS_AddElement, Zenon DEF LinksSound
  <2> HIDE DEF n
  <2>3. \A l \in links' : /\ l[1] \in {Gone, Root, Sub} /\ l[2] \in Seq(Chars)
                          /\ l[3] \in Inodes \ {Root}
    BY <2>1, <1>4, <1>6, Zenon DEF LinksSound
  <2>4. \A l, m \in links' : l[3] = m[3] => l = m
    BY <2>1, <1>4, Zenon DEF LinksSound
  <2>5. \A l, m \in links' :
           l[1] = m[1] /\ l[1] # Gone /\ l[2] = m[2] /\ l[2] \in Plain => l = m
    BY <2>1, <1>13 DEF LinksSound
  <2>6. \A l \in links' : l[3] = Sub => l[2] = <<"d">>
    BY <2>1, <1>4, Zenon DEF LinksSound
  <2>7. \E l \in links' : l[3] = Sub
    BY <2>1, Zenon DEF LinksSound
  <2>8. \A l \in links' : "slashed" \in odd' \/ l[2] \in Plain
    BY <2>1, <1>6, <1>12, Zenon DEF LinksSound, Plain
  <2> QED
    BY <2>2, <2>3, <2>4, <2>5, <2>6, <2>7, <2>8, Zenon DEF LinksSound
<1>15. SlotNames'
  <2> SUFFICES ASSUME "slashed" \notin odd', NEW i \in 1..MaxFiles
               PROVE  slot'[i].name = <<>> \/ slot'[i].name[1] # "/"
    BY Zenon DEF SlotNames
  <2>1. CASE i = k
    <3>1. entry = name /\ name[1] # "/"
      BY <1>6, <1>12, Zenon DEF Constants
    <3> QED
      BY <3>1, <2>1, <1>8, <1>9, Zenon
  <2>2. CASE i # k
    BY <2>2, <1>9, <1>12, Zenon DEF SlotNames
  <2> QED
    BY Zenon, <2>1, <2>2
<1>16. RootLoaded'
  <2> SUFFICES ASSUME odd' \cap {"renamed", "unloaded"} = {},
                      NEW l \in links', l[1] = Root, l[3] # Sub
               PROVE  \E i \in Live' : slot'[i].ino = l[3]
    BY Zenon DEF RootLoaded
  <2>1. CASE l \in links
    <3>1. PICK i \in Live : slot[i].ino = l[3]
      BY <2>1, <1>12, Zenon DEF RootLoaded
    <3> QED
      BY <3>1, <1>10, <1>11, Zenon
  <2>2. CASE l = <<Root, entry, ino>>
    <3>1. l[3] = ino
      BY <2>2
    <3> QED
      BY <3>1, <1>8, <1>9, <1>10, Zenon
  <2> QED
    BY Zenon, <2>1, <2>2, <1>1
<1>17. "twice" \notin odd' => \A i \in Live : slot[i].ino # ino
  BY <1>4, <1>12, Zenon DEF Single
<1>18. Single'
  <2> SUFFICES ASSUME "twice" \notin odd'
               PROVE  /\ \A i, j \in Live' : slot'[i].ino = slot'[j].ino => i = j
                      /\ \A i \in Live' : \E l \in links' : l[3] = slot'[i].ino
    BY Zenon DEF Single
  <2>1. /\ \A i, j \in Live : slot[i].ino = slot[j].ino => i = j
        /\ \A i \in Live : \E l \in links : l[3] = slot[i].ino
    BY <1>12, Zenon DEF Single
  <2>2. ASSUME NEW i \in Live', NEW j \in Live', slot'[i].ino = slot'[j].ino
        PROVE  i = j
    <3>1. CASE i \in Live /\ j \in Live
      BY <3>1, <2>1, <2>2, <1>11, Zenon
    <3>2. CASE i = k \/ j = k
      BY <3>2, <2>2, <1>8, <1>9, <1>10, <1>11, <1>17, Zenon
    <3> QED
      BY <3>1, <3>2, <1>10, Zenon
  <2>3. ASSUME NEW i \in Live'
        PROVE  \E l \in links' : l[3] = slot'[i].ino
    <3>1. CASE i \in Live
      BY <3>1, <2>1, <1>1, <1>11
    <3>2. CASE i = k
      <4>1. <<Root, entry, ino>> \in links' /\ <<Root, entry, ino>>[3] = ino
        BY <1>1, Zenon
      <4> QED
        BY Zenon, <4>1, <3>2, <1>8, <1>9
    <3> QED
      BY <3>1, <3>2, <1>10, Zenon
  <2> QED
    BY <2>2, <2>3, Zenon
<1>19. CurrentUnlessSplit'
  <2> SUFFICES ASSUME odd' \cap {"twice", "truncated", "full", "moved"} = {}, NEW i \in Live'
               PROVE  slot'[i].data = disk'[slot'[i].ino]
    BY Zenon DEF CurrentUnlessSplit, CopiesCurrent
  <2>1. CASE i = k
    BY <2>1, <1>1, <1>4, <1>8, <1>9 DEF Types
  <2>2. CASE i \in Live
    <3>1. slot[i].data = disk[slot[i].ino]
      BY <2>2, <1>12, Zenon DEF CurrentUnlessSplit, CopiesCurrent
    <3>2. slot[i].ino # ino /\ slot[i].ino \in Inodes
      BY <2>2, <1>5, <1>17, Zenon DEF Types, Slots
    <3>3. disk'[slot[i].ino] = disk[slot[i].ino]
      BY <3>2, <1>1, Zenon DEF Types
    <3> QED
      BY Zenon, <3>1, <3>3, <2>2, <1>11
  <2> QED
    BY Zenon, <2>1, <2>2, <1>10
<1>20. /\ fds' \in [Fds -> Descriptors]
       /\ \A e \in Fds : fds'[e].kind = "file" => fds'[e].at \in 1..MaxFiles
       /\ StableUnlessMoved' /\ PoolSound'
  <2>1. slot'[k].ino = ino /\ slot'[k].ino \in Inodes
    BY Zenon, <1>4, <1>8, <1>9
  <2>2. Bind(fd, [kind |-> "file", at |-> k, was |-> slot'[k].ino])
    BY Zenon, <2>1, <1>1
  <2>3. k \in 1..MaxFiles /\ k \in Live' /\ Live \subseteq Live'
    BY <1>5, <1>10, Zenon
  <2>4. \A j \in Live : slot'[j].ino = slot[j].ino
    BY <1>11, Zenon
  <2> QED
    BY Zenon, <2>1, <2>2, <2>3, <2>4, <1>12, BoundFile
<1>21. Types'
  <2>1. disk' \in [Inodes -> Values]
    BY <1>1, <1>4, Zenon DEF Types, Values
  <2> QED
    BY <2>1, <1>9, <1>10, <1>20, Zenon DEF Types
<1>22. FromRootFindsNamed'
  BY <1>12, Zenon DEF FromRootFindsNamed, OpenFindsNamed
<1> QED
  BY <1>14, <1>15, <1>16, <1>18, <1>19, <1>20, <1>21, <1>22, Zenon

(* sys_creat keeps the invariant. *)
LEMMA CreatInv ==
  ASSUME Constants, Inv, Creat
  PROVE  Inv'
<1>1. PICK fd \in Fds, cwd \in {Root, Sub}, prefix \in Prefixes, name \in Names :
        LET seen == NoxfsLookup(prefix, name)
        IN /\ VfsLookupAt(cwd, prefix, name).i = 0
           /\ count < MaxFiles
           /\ \/ /\ seen.i # 0
                 /\ slot' = seen.slot /\ count' = seen.count
                 /\ odd' = odd \cup When(seen.twice, "twice")
                 /\ UNCHANGED <<links, disk, fds>>
              \/ seen.i = 0 /\ Created(fd, prefix, name)
  BY Zenon DEF Creat
<1>2. UNCHANGED <<pool, g_next, opens, looked>>
  BY Zenon DEF Creat
<1>3. PICK r : r = NoxfsLookup(prefix, name)
  BY Zenon
<1>4. CASE r.i # 0
  <2>1. /\ slot' = r.slot /\ count' = r.count /\ odd' = odd \cup When(r.twice, "twice")
        /\ UNCHANGED <<links, disk, fds>>
    BY <1>1, <1>3, <1>4, Zenon
  <2>2. (\E i \in Live : Hit(r, i)) \/ \E ino : Load(r, name, ino)
    <3>1. \A q : Miss(q) => q.i = 0
      BY Zenon DEF Miss
    <3> QED
      BY <3>1, <1>3, <1>4, NoxfsLookupFacts, Zenon DEF Inv
  <2> QED
    BY <2>1, <2>2, <1>2, CreatFoundInv, Zenon
<1>5. CASE r.i = 0
  <2>1. count < MaxFiles /\ Created(fd, prefix, name)
    BY <1>1, <1>3, <1>5, Zenon
  <2>2. Miss(NoxfsLookup(prefix, name))
    <3>1. \A q, i : Hit(q, i) /\ i \in Live => q.i # 0
      BY DEF Hit, Live
    <3>2. \A q, j : Load(q, name, j) => q.i # 0
      BY DEF Load, Types, Inv
    <3> QED
      BY <3>1, <3>2, <1>3, <1>5, NoxfsLookupFacts, Zenon DEF Inv
  <2> QED
    BY <2>1, <2>2, <1>2, CreatedInv, Zenon
<1> QED
  BY <1>4, <1>5, Zenon

-----------------------------------------------------------------------------
(* What a step that only touches descriptors and the pool leaves alone. *)
LEMMA FilesKept ==
  ASSUME Inv, UNCHANGED <<links, disk, slot, count, looked, odd>>
  PROVE  /\ LinksSound' /\ SlotNames' /\ RootLoaded' /\ Single'
         /\ CurrentUnlessSplit' /\ FromRootFindsNamed'
<1>1. Live' = Live
  BY Zenon DEF Live
<1> USE <1>1 DEF Inv
<1>2. LinksSound'
  BY Zenon DEF LinksSound
<1>3. SlotNames' /\ RootLoaded' /\ Single'
  BY Zenon DEF SlotNames, RootLoaded, Single
<1>4. CurrentUnlessSplit' /\ FromRootFindsNamed'
  BY Zenon DEF CurrentUnlessSplit, CopiesCurrent, FromRootFindsNamed, OpenFindsNamed
<1> QED
  BY <1>2, <1>3, <1>4, Zenon

(* _pool_alloc: one slot is handed out, the others are one open older. *)
LEMMA PoolTurns ==
  \A P \in Nat \ {0} : \A n \in 0..(P - 1) : (n + 1) % P = IF n = P - 1 THEN 0 ELSE n + 1
<1> TAKE P \in Nat \ {0}
<1> TAKE n \in 0..(P - 1)
<1>1. CASE n = P - 1
  BY <1>1
<1>2. CASE n # P - 1
  <2>1. n + 1 \in 0..(P - 1)
    BY <1>2
  <2> QED
    BY <1>2, <2>1
<1> QED
  BY <1>1, <1>2, Zenon

(* sys_open of a /proc file keeps the invariant. *)
LEMMA OpenProcInv ==
  ASSUME Constants, Inv, OpenProc
  PROVE  Inv'
<1> USE DEF Inv
<1>1. PICK fd \in Fds :
        /\ opens' = opens + 1
        /\ g_next' = (g_next + 1) % PoolSlots
        /\ pool' = [pool EXCEPT ![g_next] = opens + 1]
        /\ Bind(fd, [kind |-> "proc", at |-> g_next, was |-> opens + 1])
  BY Zenon DEF OpenProc
<1>2. UNCHANGED <<links, disk, slot, count, looked, odd>>
  BY Zenon DEF OpenProc
<1>3. opens \in Nat /\ PoolSlots \in Nat \ {0} /\ g_next \in 0..(PoolSlots - 1)
  BY Zenon DEF Types, Constants
<1>12. /\ g_next' \in 0..(PoolSlots - 1)
       /\ g_next' = IF g_next = PoolSlots - 1 THEN 0 ELSE g_next + 1
  <2>1. (g_next + 1) % PoolSlots = IF g_next = PoolSlots - 1 THEN 0 ELSE g_next + 1
    BY <1>3, PoolTurns, Zenon
  <2> QED
    BY <2>1, <1>1, <1>3
<1> DEFINE entry == [kind |-> "proc", at |-> g_next, was |-> opens + 1]
<1>4. /\ entry \in Descriptors /\ entry.kind = "proc" /\ entry.at = g_next
      /\ entry.was = opens + 1
  BY <1>3 DEF Descriptors
<1>5. Bind(fd, entry)
  BY <1>1, Zenon
<1> HIDE DEF entry
<1>6. /\ fds' \in [Fds -> Descriptors]
      /\ \A e \in Fds : fds'[e].kind = "file" => fds'[e].at \in 1..MaxFiles
      /\ \A e \in Fds : fds'[e] = fds[e] \/ fds'[e] = entry
  BY <1>4, <1>5, BindFacts, Zenon
<1>7. pool' \in [0..(PoolSlots - 1) -> Nat] /\ opens' \in Nat
      /\ pool'[g_next] = opens + 1
      /\ \A i \in 0..(PoolSlots - 1) : i # g_next => pool'[i] = pool[i]
  BY <1>1, <1>3 DEF Types
<1>8. Types'
  BY <1>2, <1>6, <1>7, <1>12, Zenon DEF Types
<1>9. StableUnlessMoved'
  <2> SUFFICES ASSUME "moved" \notin odd, NEW e \in Fds, fds'[e].kind = "file"
               PROVE  fds'[e].at \in Live /\ slot[fds'[e].at].ino = fds'[e].was
    BY <1>2, Zenon DEF StableUnlessMoved, DescriptorsStable, Live
  <2>1. fds'[e] = fds[e]
    BY <1>4, <1>6, Zenon
  <2> QED
    BY <2>1, Zenon DEF StableUnlessMoved, DescriptorsStable
<1>13. Back(g_next', 1) = g_next
  BY <1>3, <1>12 DEF Back
<1>14. \A d \in 2..PoolSlots : /\ Back(g_next', d) = Back(g_next, d - 1)
                               /\ d - 1 \in 1..PoolSlots
                               /\ Back(g_next, d - 1) \in 0..(PoolSlots - 1) \ {g_next}
  BY <1>3, <1>12 DEF Back
<1>10. PoolSound'
  <2>1. ASSUME NEW d \in 1..PoolSlots, d <= opens'
        PROVE  pool'[Back(g_next', d)] = opens' + 1 - d
    <3>1. CASE d = 1
      BY <3>1, <1>1, <1>3, <1>7, <1>13
    <3>2. CASE d # 1
      <4>1. d \in 2..PoolSlots /\ d - 1 <= opens
        BY <3>2, <2>1, <1>1, <1>3
      <4>2. pool[Back(g_next, d - 1)] = opens + 1 - (d - 1)
        <5>1. \A c \in 1..PoolSlots : c <= opens => pool[Back(g_next, c)] = opens + 1 - c
          BY Zenon DEF PoolSound
        <5>2. PICK c \in 1..PoolSlots : c = d - 1
          BY <4>1, <1>14, Zenon
        <5>3. pool[Back(g_next, c)] = opens + 1 - c
          BY <4>1, <5>1, <5>2, Zenon
        <5> QED
          BY <5>2, <5>3, Zenon
      <4>3. pool'[Back(g_next', d)] = pool[Back(g_next, d - 1)]
        BY <4>1, <1>7, <1>14, Zenon
      <4> QED
        BY <4>2, <4>3, <1>1, <1>3
    <3> QED
      BY <3>1, <3>2, Zenon
  <2>2. ASSUME NEW e \in Fds, fds'[e].kind = "proc"
        PROVE  /\ fds'[e].was \in 1..opens'
               /\ opens' - fds'[e].was < PoolSlots =>
                    fds'[e].at = Back(g_next', opens' + 1 - fds'[e].was)
    <3>1. CASE fds'[e] = entry
      <4>1. opens' + 1 - fds'[e].was = 1
        BY <3>1, <1>1, <1>3, <1>4
      <4> QED
        BY <3>1, <4>1, <1>1, <1>3, <1>4, <1>13
    <3>2. CASE fds'[e] = fds[e]
      <4>1. PICK w \in 1..opens : w = fds[e].was
        BY <3>2, <2>2, Zenon DEF PoolSound
      <4>2. w \in 1..opens'
        BY <4>1, <1>1, <1>3
      <4>3. ASSUME opens' - w < PoolSlots
            PROVE  fds[e].at = Back(g_next', opens' + 1 - w)
        <5>1. PICK d \in 2..PoolSlots : d = opens' + 1 - w /\ d - 1 = opens + 1 - w
                                        /\ opens - w < PoolSlots
          BY <4>3, <1>1, <1>3
        <5>2. fds[e].at = Back(g_next, d - 1)
          BY <3>2, <2>2, <4>1, <5>1, Zenon DEF PoolSound
        <5> QED
          BY <5>1, <5>2, <1>14, Zenon
      <4> QED
        BY <3>2, <4>1, <4>2, <4>3, Zenon
    <3> QED
      BY <3>1, <3>2, <1>6, Zenon
  <2> QED
    BY <2>1, <2>2, Zenon DEF PoolSound
<1>11. /\ LinksSound' /\ SlotNames' /\ RootLoaded' /\ Single'
       /\ CurrentUnlessSplit' /\ FromRootFindsNamed'
  BY <1>2, FilesKept, Zenon
<1> QED
  BY <1>8, <1>9, <1>10, <1>11, Zenon

(* A descriptor that is closed, or that points nowhere. *)
LEMMA FreedInv ==
  ASSUME Constants, Inv, UNCHANGED <<links, disk, slot, count, pool, g_next, opens, looked, odd>>,
         fds' \in [Fds -> Descriptors],
         \A e \in Fds : fds'[e].kind \in {"file", "proc"} => fds'[e] = fds[e]
  PROVE  Inv'
<1> USE DEF Inv
<1>1. Types' /\ PoolSound'
  BY Zenon DEF Types, PoolSound
<1>2. StableUnlessMoved'
  BY Zenon DEF StableUnlessMoved, DescriptorsStable, Live
<1>3. /\ LinksSound' /\ SlotNames' /\ RootLoaded' /\ Single'
      /\ CurrentUnlessSplit' /\ FromRootFindsNamed'
  BY FilesKept, Zenon
<1> QED
  BY <1>1, <1>2, <1>3, Zenon

(* sys_open of a device keeps the invariant. *)
LEMMA OpenDevInv ==
  ASSUME Constants, Inv, OpenDev
  PROVE  Inv'
<1>1. PICK fd \in Fds :
        fds[fd] = Closed /\ fds' = [fds EXCEPT ![fd] = [kind |-> "dev", at |-> 0, was |-> 0]]
  BY Zenon DEF OpenDev
<1>2. /\ fds' \in [Fds -> Descriptors]
      /\ \A e \in Fds : fds'[e].kind \in {"file", "proc"} => fds'[e] = fds[e]
  <2>1. fds \in [Fds -> Descriptors]
    BY Zenon DEF Inv, Types
  <2>2. [kind |-> "dev", at |-> 0, was |-> 0] \in Descriptors
    BY Zenon DEF Descriptors
  <2> QED
    BY <1>1, <2>1, <2>2, Zenon
<1>3. UNCHANGED <<links, disk, slot, count, pool, g_next, opens, looked, odd>>
  BY Zenon DEF OpenDev
<1> QED
  BY <1>2, <1>3, FreedInv, Zenon

(* sys_close keeps the invariant. *)
LEMMA CloseInv ==
  ASSUME Constants, Inv, Close
  PROVE  Inv'
<1>1. PICK fd \in Fds : fds[fd] # Closed /\ fds' = [fds EXCEPT ![fd] = Closed]
  BY Zenon DEF Close
<1>2. /\ fds' \in [Fds -> Descriptors]
      /\ \A e \in Fds : fds'[e].kind \in {"file", "proc"} => fds'[e] = fds[e]
  <2>1. fds \in [Fds -> Descriptors]
    BY Zenon DEF Inv, Types
  <2>2. Closed \in Descriptors /\ Closed.kind = "closed"
    BY Zenon DEF Descriptors, Closed
  <2> QED
    BY <1>1, <2>1, <2>2, Zenon
<1>3. UNCHANGED <<links, disk, slot, count, pool, g_next, opens, looked, odd>>
  BY Zenon DEF Close
<1> QED
  BY <1>2, <1>3, FreedInv, Zenon

-----------------------------------------------------------------------------
(* noxfs_write: the slot the descriptor points at, and the inode it names. *)
LEMMA WriteInv ==
  ASSUME Constants, Inv, Write
  PROVE  Inv'
<1> USE DEF Inv
<1>1. PICK fd \in Fds, c \in Contents, full \in {FALSE} \cup When("full" \in Calls, TRUE) :
        LET i == fds[fd].at
            ino == slot[i].ino
        IN /\ fds[fd].kind = "file"
           /\ slot' = [slot EXCEPT ![i].data = c]
           /\ disk' = IF full THEN disk ELSE [disk EXCEPT ![ino] = c]
           /\ odd' = odd \cup When(full, "full")
  BY Zenon DEF Write
<1>2. UNCHANGED <<links, count, pool, g_next, opens, fds, looked>>
  BY Zenon DEF Write
<1>3. PICK i \in 1..MaxFiles : i = fds[fd].at
  BY <1>1, Zenon DEF Types
<1>4. PICK ino \in Inodes : ino = slot[i].ino
  BY Zenon DEF Types, Slots
<1>5. /\ slot' = [slot EXCEPT ![i] = [slot[i] EXCEPT !.data = c]]
      /\ disk' = IF full THEN disk ELSE [disk EXCEPT ![ino] = c]
      /\ odd \subseteq odd' /\ (full => "full" \in odd')
  BY <1>1, <1>3, <1>4, Zenon DEF When
<1>6. c \in Values /\ slot[i] \in Slots
  BY Zenon DEF Types, Values
<1>7. /\ [slot[i] EXCEPT !.data = c] \in Slots
      /\ [slot[i] EXCEPT !.data = c].name = slot[i].name
      /\ [slot[i] EXCEPT !.data = c].ino = slot[i].ino
      /\ [slot[i] EXCEPT !.data = c].data = c
  BY <1>6, Zenon DEF Slots
<1>8. /\ slot' \in [1..MaxFiles -> Slots]
      /\ \A j \in 1..MaxFiles : slot'[j].name = slot[j].name /\ slot'[j].ino = slot[j].ino
      /\ \A j \in 1..MaxFiles : j # i => slot'[j].data = slot[j].data
      /\ slot'[i].data = c
  BY <1>5, <1>7, Zenon DEF Types
<1>9. /\ disk' \in [Inodes -> Values]
      /\ ~full => disk'[ino] = c /\ \A k \in Inodes : k # ino => disk'[k] = disk[k]
  BY <1>5, <1>6, Zenon DEF Types
<1>10. Types'
  BY <1>2, <1>8, <1>9, Zenon DEF Types
<1>11. Live' = Live /\ Live \subseteq 1..MaxFiles
  BY <1>2, LiveFacts, Zenon DEF Live
<1>12. LinksSound' /\ PoolSound' /\ FromRootFindsNamed'
  BY <1>2, <1>5, Zenon DEF LinksSound, PoolSound, FromRootFindsNamed, OpenFindsNamed
<1>13. SlotNames'
  BY <1>5, <1>8, Zenon DEF SlotNames
<1>14. RootLoaded'
  <2> SUFFICES ASSUME odd' \cap {"renamed", "unloaded"} = {},
                      NEW l \in links, l[1] = Root, l[3] # Sub
               PROVE  \E j \in Live : slot'[j].ino = l[3]
    BY <1>2, <1>11, Zenon DEF RootLoaded
  <2>1. PICK j \in Live : slot[j].ino = l[3]
    BY <1>5, Zenon DEF RootLoaded
  <2> QED
    BY <2>1, <1>8, <1>11, Zenon
<1>15. Single'
  BY <1>2, <1>5, <1>8, <1>11 DEF Single
<1>16. StableUnlessMoved'
  BY <1>2, <1>5, <1>8, <1>11, Zenon DEF StableUnlessMoved, DescriptorsStable
<1>17. CurrentUnlessSplit'
  <2> SUFFICES ASSUME odd' \cap {"twice", "truncated", "full", "moved"} = {}, NEW j \in Live
               PROVE  slot'[j].data = disk'[slot'[j].ino]
    BY <1>11, Zenon DEF CurrentUnlessSplit, CopiesCurrent
  <2>1. ~full /\ odd \cap {"twice", "truncated", "full", "moved"} = {}
    BY <1>5, Zenon
  <2>2. i \in Live
    BY <1>1, <1>3, <2>1, Zenon DEF StableUnlessMoved, DescriptorsStable
  <2>3. j # i => slot[j].ino # ino
    BY <2>1, <2>2, <1>4, Zenon DEF Single
  <2>4. slot[j].data = disk[slot[j].ino] /\ slot[j].ino \in Inodes /\ j \in 1..MaxFiles
    BY <2>1, <1>11, Zenon DEF CurrentUnlessSplit, CopiesCurrent, Types, Slots
  <2>5. CASE j = i
    BY <2>1, <2>5, <1>4, <1>8, <1>9, Zenon
  <2>6. CASE j # i
    BY <2>1, <2>3, <2>4, <2>6, <1>8, <1>9, Zenon
  <2> QED
    BY <2>5, <2>6, Zenon
<1> QED
  BY <1>10, <1>12, <1>13, <1>14, <1>15, <1>16, <1>17, Zenon

(* noxfs_write on the inode number of a /proc file: the root loses its     *)
(* entries, the files keep their inodes.                                   *)
LEMMA WriteProcInv ==
  ASSUME Constants, Inv, WriteProc
  PROVE  Inv'
<1> USE DEF Inv
<1> DEFINE Lost(l) == <<IF l[1] = Root THEN Gone ELSE l[1], l[2], l[3]>>
<1>1. links' = {Lost(l) : l \in links}
  BY Zenon DEF WriteProc
<1>2. UNCHANGED <<disk, slot, count, pool, g_next, opens, fds, looked, odd>>
  BY Zenon DEF WriteProc
<1>3. \A l : /\ Lost(l)[1] = (IF l[1] = Root THEN Gone ELSE l[1])
             /\ Lost(l)[2] = l[2] /\ Lost(l)[3] = l[3]
  BY Zenon
<1>4. Root # Gone
  BY DEF Root, Gone
<1> HIDE DEF Lost
<1>5. \A l \in links : \E m \in links' : m[3] = l[3]
  BY <1>1, <1>3, Zenon
<1>6. IsFiniteSet(links')
  <2>1. IsFiniteSet(links)
    BY Zenon DEF LinksSound
  <2> DEFINE f == [l \in links |-> Lost(l)]
  <2>2. f \in Surjection(links, links')
    BY <1>1, Zenon DEF Surjection
  <2> QED
    BY <2>1, <2>2, FS_Surjection, Zenon
<1>7. LinksSound'
  <2>1. \A m \in links' : \E l \in links :
           /\ m = Lost(l) /\ m[1] = (IF l[1] = Root THEN Gone ELSE l[1])
           /\ m[2] = l[2] /\ m[3] = l[3]
    BY <1>1, <1>3
  <2>3. \A l \in links' : /\ l[1] \in {Gone, Root, Sub} /\ l[2] \in Seq(Chars)
                          /\ l[3] \in Inodes \ {Root}
    BY <2>1, Zenon DEF LinksSound
  <2>4. \A l, m \in links' : l[3] = m[3] => l = m
    BY <2>1 DEF LinksSound
  <2>5. \A l, m \in links' :
           l[1] = m[1] /\ l[1] # Gone /\ l[2] = m[2] /\ l[2] \in Plain => l = m
    BY <2>1 DEF LinksSound
  <2>6. \A l \in links' : l[3] = Sub => l[2] = <<"d">>
    BY <2>1 DEF LinksSound
  <2>7. \E l \in links' : l[3] = Sub
    BY <1>5, Zenon DEF LinksSound
  <2>8. \A l \in links' : "slashed" \in odd \/ l[2] \in Plain
    BY <2>1, Zenon DEF LinksSound
  <2> QED
    BY <1>2, <1>6, <2>3, <2>4, <2>5, <2>6, <2>7, <2>8, Zenon DEF LinksSound
<1>8. RootLoaded'
  <2>1. \A m \in links' : m[1] # Root
    BY <1>1, <1>3, <1>4, Zenon
  <2> QED
    BY <2>1, Zenon DEF RootLoaded
<1>9. Live' = Live
  BY <1>2, Zenon DEF Live
<1>10. Single'
  <2> SUFFICES ASSUME "twice" \notin odd
               PROVE  /\ \A i, j \in Live : slot[i].ino = slot[j].ino => i = j
                      /\ \A i \in Live : \E m \in links' : m[3] = slot[i].ino
    BY <1>2, <1>9, Zenon DEF Single
  <2>1. /\ \A i, j \in Live : slot[i].ino = slot[j].ino => i = j
        /\ \A i \in Live : \E l \in links : l[3] = slot[i].ino
    BY Zenon DEF Single
  <2>2. ASSUME NEW i \in Live
        PROVE  \E m \in links' : m[3] = slot[i].ino
    <3>1. PICK l \in links : l[3] = slot[i].ino
      BY <2>1, Zenon
    <3>2. PICK m \in links' : m[3] = l[3]
      BY <1>5, Zenon
    <3> QED
      BY <3>1, <3>2, Zenon
  <2> QED
    BY <2>1, <2>2, Zenon
<1>11. Types' /\ SlotNames' /\ PoolSound' /\ FromRootFindsNamed'
  BY <1>2, Zenon DEF Types, SlotNames, PoolSound, FromRootFindsNamed, OpenFindsNamed
<1>12. StableUnlessMoved' /\ CurrentUnlessSplit'
  BY <1>2, <1>9, Zenon DEF StableUnlessMoved, DescriptorsStable, CurrentUnlessSplit, CopiesCurrent
<1> QED
  BY <1>7, <1>8, <1>10, <1>11, <1>12, Zenon

-----------------------------------------------------------------------------
(* The end of noxfs_unlink: the slots behind the one that goes move down,  *)
(* and every other slot in use is found again.                             *)
LEMMA DropFacts ==
  ASSUME Constants, Types, NEW ino, SlotsOf(ino) # {}, DropSlot(ino)
  PROVE  \E g \in SlotsOf(ino) :
           /\ g = Min(SlotsOf(ino)) /\ g \in Live /\ Live \subseteq 1..MaxFiles
           /\ count' = count - 1 /\ count' \in 0..MaxFiles
           /\ slot' \in [1..MaxFiles -> Slots]
           /\ \A i \in 1..MaxFiles : \E j \in 1..MaxFiles : slot'[i] = slot[j]
           /\ \A i \in 1..(g - 1) : i \in Live' /\ slot'[i] = slot[i]
           /\ \E src \in [Live' -> Live \ {g}] :
                /\ \A i \in Live' : slot'[i] = slot[src[i]]
                /\ \A i, j \in Live' : src[i] = src[j] => i = j
           /\ \A j \in Live \ {g} : \E i \in Live' : slot'[i] = slot[j]
<1>1. PICK g : g = Min(SlotsOf(ino))
  BY Zenon
<1>2. g \in SlotsOf(ino) /\ SlotsOf(ino) \subseteq Live
  BY <1>1, LiveFacts, MinFacts, Zenon
<1>3. PICK n \in 0..MaxFiles : n = count
  BY Zenon DEF Types
<1>4. MaxFiles \in Nat /\ g \in 1..n /\ Live = 1..n /\ n > 0 /\ n \in Nat
  BY <1>2, <1>3 DEF Live, Constants
<1>5. slot' = Compacted(ino) /\ count' = n - 1 /\ Live' = 1..(n - 1)
  BY <1>3, Zenon DEF DropSlot, Live
<1>6. slot \in [1..MaxFiles -> Slots]
  BY Zenon DEF Types
<1>7. slot' = [i \in 1..MaxFiles |-> IF i >= g /\ i < n THEN slot[i + 1] ELSE slot[i]]
  BY <1>1, <1>3, <1>5, <1>6, Zenon DEF Compacted
<1>8. ASSUME NEW i \in 1..MaxFiles
      PROVE  \E j \in 1..MaxFiles : slot'[i] = slot[j]
  <2>1. CASE i >= g /\ i < n
    <3>1. i + 1 \in 1..MaxFiles /\ slot'[i] = slot[i + 1]
      BY <2>1, <1>3, <1>4, <1>7
    <3> QED
      BY <3>1, Zenon
  <2>2. CASE ~(i >= g /\ i < n)
    BY <2>2, <1>7, Zenon
  <2> QED
    BY <2>1, <2>2, Zenon
<1>9. slot' \in [1..MaxFiles -> Slots]
  <2>1. \A i \in 1..MaxFiles : slot'[i] \in Slots
    BY <1>6, <1>8, Zenon
  <2> QED
    BY <2>1, <1>7, Zenon
<1>10. ASSUME NEW i \in Live'
       PROVE  /\ (IF i < g THEN i ELSE i + 1) \in Live \ {g}
              /\ slot'[i] = slot[IF i < g THEN i ELSE i + 1]
  <2>1. i \in 1..(n - 1) /\ i \in 1..MaxFiles /\ i < n
    BY <1>3, <1>4, <1>5
  <2>2. CASE i < g
    BY <2>1, <2>2, <1>4, <1>7
  <2>3. CASE ~(i < g)
    <3>1. i >= g /\ i + 1 \in 1..n /\ i + 1 # g
      BY <2>1, <2>3, <1>4
    <3> QED
      BY <3>1, <2>1, <2>3, <1>4, <1>7, Zenon
  <2> QED
    BY <2>2, <2>3, Zenon
<1>11. ASSUME NEW i \in 1..(g - 1)
       PROVE  i \in Live' /\ slot'[i] = slot[i]
  <2>1. i \in 1..(n - 1) /\ i < g
    BY <1>4
  <2> QED
    BY <2>1, <1>5, <1>10, Zenon
<1>12. ASSUME NEW j \in Live \ {g}
       PROVE  \E i \in Live' : slot'[i] = slot[j]
  <2>1. CASE j < g
    <3>1. j \in 1..(g - 1)
      BY <2>1, <1>4
    <3> QED
      BY <3>1, <1>11, Zenon
  <2>2. CASE ~(j < g)
    <3>1. PICK i \in 1..(n - 1) : i = j - 1
      BY <2>2, <1>4
    <3>2. ~(i < g) /\ i + 1 = j
      BY <3>1, <2>2, <1>4
    <3> QED
      BY <3>1, <3>2, <1>5, <1>10, Zenon
  <2> QED
    BY <2>1, <2>2, Zenon
<1>13. count' = count - 1 /\ count' \in 0..MaxFiles /\ Live \subseteq 1..MaxFiles
  BY <1>3, <1>4, <1>5
<1> DEFINE src == [i \in Live' |-> IF i < g THEN i ELSE i + 1]
<1>14. \A i \in Live' : src[i] = IF i < g THEN i ELSE i + 1
  BY Zenon
<1>15. src \in [Live' -> Live \ {g}] /\ \A i \in Live' : slot'[i] = slot[src[i]]
  BY <1>10, Zenon
<1> HIDE DEF src
<1>16. \A i, j \in Live' : src[i] = src[j] => i = j
  BY <1>4, <1>5, <1>14
<1>17. \E f \in [Live' -> Live \ {g}] :
         /\ \A i \in Live' : slot'[i] = slot[f[i]]
         /\ \A i, j \in Live' : f[i] = f[j] => i = j
  BY <1>15, <1>16, Zenon
<1> QED
  BY <1>1, <1>2, <1>8, <1>9, <1>11, <1>12, <1>13, <1>17, Zenon

(* What a removal means to the table. *)
LEMMA DroppedTable ==
  ASSUME Constants, Inv, NEW ino, DropSlot(ino), disk' = disk, fds' = fds,
         odd \cup Moved(ino) \subseteq odd'
  PROVE  /\ slot' \in [1..MaxFiles -> Slots] /\ count' \in 0..MaxFiles
         /\ SlotNames' /\ StableUnlessMoved' /\ CurrentUnlessSplit'
         /\ \A i \in Live' : \E j \in Live : slot'[i] = slot[j]
         /\ \A j \in Live : slot[j].ino # ino => \E i \in Live' : slot'[i] = slot[j]
         /\ "twice" \notin odd' =>
              /\ \A i, j \in Live' : slot'[i].ino = slot'[j].ino => i = j
              /\ \A i \in Live' : slot'[i].ino # ino
<1> USE DEF Inv
<1>1. CASE SlotsOf(ino) = {}
  <2>1. slot' = slot /\ count' = count /\ Live' = Live
    BY <1>1, Zenon DEF DropSlot, Live
  <2>2. \A i \in Live : slot[i].ino # ino
    BY <1>1, Zenon DEF SlotsOf
  <2>3. SlotNames' /\ StableUnlessMoved' /\ CurrentUnlessSplit'
    BY <2>1, Zenon DEF SlotNames, StableUnlessMoved, DescriptorsStable, CurrentUnlessSplit, CopiesCurrent
  <2>4. "twice" \notin odd' => \A i, j \in Live : slot[i].ino = slot[j].ino => i = j
    BY Zenon DEF Single
  <2> QED
    BY <2>1, <2>2, <2>3, <2>4, Zenon DEF Types
<1>2. CASE SlotsOf(ino) # {}
  <2>1. PICK g \in SlotsOf(ino) :
           /\ g = Min(SlotsOf(ino)) /\ g \in Live /\ Live \subseteq 1..MaxFiles
           /\ count' = count - 1 /\ count' \in 0..MaxFiles
           /\ slot' \in [1..MaxFiles -> Slots]
           /\ \A i \in 1..MaxFiles : \E j \in 1..MaxFiles : slot'[i] = slot[j]
           /\ \A i \in 1..(g - 1) : i \in Live' /\ slot'[i] = slot[i]
           /\ \E src \in [Live' -> Live \ {g}] :
                /\ \A i \in Live' : slot'[i] = slot[src[i]]
                /\ \A i, j \in Live' : src[i] = src[j] => i = j
           /\ \A j \in Live \ {g} : \E i \in Live' : slot'[i] = slot[j]
    BY <1>2, DropFacts, Zenon
  <2>8. \A i \in 1..MaxFiles : \E j \in 1..MaxFiles : slot'[i] = slot[j]
    BY <2>1, Zenon
  <2>9. \A i \in 1..(g - 1) : i \in Live' /\ slot'[i] = slot[i]
    BY <2>1, Zenon
  <2>10. PICK src \in [Live' -> Live \ {g}] :
           /\ \A i \in Live' : slot'[i] = slot[src[i]]
           /\ \A i, j \in Live' : src[i] = src[j] => i = j
    BY <2>1, Zenon
  <2>11. \A j \in Live \ {g} : \E i \in Live' : slot'[i] = slot[j]
    BY <2>1, Zenon
  <2>12. g \in Live /\ g = Min(SlotsOf(ino)) /\ slot[g].ino = ino /\ Live \subseteq Nat
    <3>1. g \in Live /\ g = Min(SlotsOf(ino))
      BY <2>1, Zenon
    <3>2. slot[g].ino = ino
      BY Zenon DEF SlotsOf
    <3> QED
      BY <3>1, <3>2 DEF Live
  <2>13. slot' \in [1..MaxFiles -> Slots] /\ count' \in 0..MaxFiles
    BY <2>1, Zenon
  <2>2. SlotNames'
    <3> SUFFICES ASSUME "slashed" \notin odd', NEW i \in 1..MaxFiles
                 PROVE  slot'[i].name = <<>> \/ slot'[i].name[1] # "/"
      BY Zenon DEF SlotNames
    <3>1. PICK j \in 1..MaxFiles : slot'[i] = slot[j]
      BY <2>8, Zenon
    <3>2. slot[j].name = <<>> \/ slot[j].name[1] # "/"
      BY Zenon DEF SlotNames
    <3> QED
      BY <3>1, <3>2, Zenon
  <2>3. StableUnlessMoved'
    <3> SUFFICES ASSUME "moved" \notin odd', NEW fd \in Fds, fds[fd].kind = "file"
                 PROVE  fds[fd].at \in Live' /\ slot'[fds[fd].at].ino = fds[fd].was
      BY Zenon DEF StableUnlessMoved, DescriptorsStable
    <3>1. fds[fd].at \in Live /\ slot[fds[fd].at].ino = fds[fd].was
      BY Zenon DEF StableUnlessMoved, DescriptorsStable
    <3>2. ~(fds[fd].at >= g)
      BY <1>2, <2>12, Zenon DEF Moved, When
    <3>3. fds[fd].at \in 1..(g - 1)
      <4>1. Live \subseteq 1..MaxFiles
        BY LiveFacts, Zenon
      <4>5. fds[fd].at \in 1..MaxFiles /\ g \in 1..MaxFiles
        BY <3>1, <4>1, <2>12, Zenon
      <4>2. PICK a \in 1..MaxFiles, h \in 1..MaxFiles : a = fds[fd].at /\ h = g
        BY <4>5, Zenon
      <4>4. ~(a >= h)
        BY <4>2, <3>2, Zenon
      <4>3. a \in 1..(h - 1)
        BY <4>4
      <4> QED
        BY <4>2, <4>3, Zenon
    <3> QED
      BY <3>1, <3>3, <2>9, Zenon
  <2>5. CurrentUnlessSplit'
    <3> SUFFICES ASSUME odd' \cap {"twice", "truncated", "full", "moved"} = {}, NEW i \in Live'
                 PROVE  slot'[i].data = disk[slot'[i].ino]
      BY Zenon DEF CurrentUnlessSplit, CopiesCurrent
    <3>1. slot'[i] = slot[src[i]] /\ src[i] \in Live
      BY Zenon, <2>10
    <3>2. slot[src[i]].data = disk[slot[src[i]].ino]
      BY <3>1, Zenon DEF CurrentUnlessSplit, CopiesCurrent
    <3> QED
      BY <3>1, <3>2, Zenon
  <2>6. ASSUME NEW j \in Live, slot[j].ino # ino
        PROVE  \E i \in Live' : slot'[i] = slot[j]
    BY <2>6, <2>11, <2>12, Zenon
  <2>7. ASSUME "twice" \notin odd'
        PROVE  /\ \A i, j \in Live' : slot'[i].ino = slot'[j].ino => i = j
               /\ \A i \in Live' : slot'[i].ino # ino
    <3>1. \A i, j \in Live : slot[i].ino = slot[j].ino => i = j
      BY <2>7, Zenon DEF Single
    <3>2. ASSUME NEW i \in Live', NEW j \in Live', slot'[i].ino = slot'[j].ino
          PROVE  i = j
      <4>1. src[i] \in Live /\ src[j] \in Live /\ slot'[i] = slot[src[i]] /\ slot'[j] = slot[src[j]]
        BY <2>10, Zenon
      <4>2. src[i] = src[j]
        BY <4>1, <3>1, <3>2, Zenon
      <4> QED
        BY <4>2, <2>10, Zenon
    <3>3. ASSUME NEW i \in Live' PROVE slot'[i].ino # ino
      <4>1. src[i] \in Live /\ src[i] # g /\ slot'[i] = slot[src[i]]
        BY <2>10, Zenon
      <4>2. slot[src[i]].ino # slot[g].ino
        BY Zenon, <4>1, <3>1, <2>12
      <4> QED
        BY <4>1, <4>2, <2>12, Zenon
    <3> QED
      BY <3>2, <3>3, Zenon
  <2>14. ASSUME NEW i \in Live' PROVE \E j \in Live : slot'[i] = slot[j]
    BY <2>10, Zenon
  <2> QED
    BY <2>2, <2>3, <2>5, <2>6, <2>7, <2>13, <2>14, Zenon
<1> QED
  BY <1>1, <1>2, Zenon

(* sys_unlink keeps the invariant. *)
LEMMA UnlinkInv ==
  ASSUME Constants, Inv, Unlink
  PROVE  Inv'
<1> USE DEF Inv
<1>1. PICK dir \in {Root, Sub}, name \in Names :
        /\ Resolve(dir, name) # NoInode
        /\ links' = {l \in links : <<l[1], l[2]>> # <<dir, name>>}
        /\ DropSlot(Resolve(dir, name))
        /\ odd' = odd \cup Moved(Resolve(dir, name))
  BY Zenon DEF Unlink
<1>2. UNCHANGED <<disk, pool, g_next, opens, fds, looked>>
  BY Zenon DEF Unlink
<1>3. PICK ino : ino = Resolve(dir, name)
  BY Zenon
<1>4. /\ ino \in Inodes \ {Root, Sub}
      /\ \A l \in links : l[3] = ino <=> (l[1] = dir /\ l[2] = name)
  BY <1>1, <1>3, NameFacts
<1>5. \A l \in links : l \in links' <=> l[3] # ino
  BY <1>1, <1>4, Zenon
<1>6. links' \subseteq links
  BY <1>1, Zenon
<1>7. DropSlot(ino) /\ odd' = odd \cup Moved(ino)
  BY <1>1, <1>3, Zenon
<1>8. /\ slot' \in [1..MaxFiles -> Slots] /\ count' \in 0..MaxFiles
      /\ SlotNames' /\ StableUnlessMoved' /\ CurrentUnlessSplit'
      /\ \A i \in Live' : \E j \in Live : slot'[i] = slot[j]
      /\ \A j \in Live : slot[j].ino # ino => \E i \in Live' : slot'[i] = slot[j]
      /\ "twice" \notin odd' =>
           /\ \A i, j \in Live' : slot'[i].ino = slot'[j].ino => i = j
           /\ \A i \in Live' : slot'[i].ino # ino
  <2>1. disk' = disk /\ fds' = fds /\ odd \cup Moved(ino) \subseteq odd'
    BY <1>2, <1>7, Zenon
  <2> QED
    BY <2>1, <1>7, DroppedTable, Zenon
<1>9. odd \subseteq odd'
  BY <1>7, Zenon
<1>10. Types' /\ PoolSound' /\ FromRootFindsNamed'
  BY <1>2, <1>8, <1>9, Zenon DEF Types, PoolSound, FromRootFindsNamed, OpenFindsNamed
<1>11. LinksSound'
  <2>1. IsFiniteSet(links')
    BY <1>6, FS_Subset, Zenon DEF LinksSound
  <2>2. \E l \in links' : l[3] = Sub
    BY <1>4, <1>5, Zenon DEF LinksSound
  <2> QED
    BY <2>1, <2>2, <1>6, <1>9, Zenon DEF LinksSound
<1>12. RootLoaded'
  <2> SUFFICES ASSUME odd' \cap {"renamed", "unloaded"} = {},
                      NEW l \in links', l[1] = Root, l[3] # Sub
               PROVE  \E i \in Live' : slot'[i].ino = l[3]
    BY Zenon DEF RootLoaded
  <2>1. l \in links /\ l[3] # ino
    BY <1>5, <1>6, Zenon
  <2>2. PICK j \in Live : slot[j].ino = l[3]
    BY <2>1, <1>9, Zenon DEF RootLoaded
  <2>3. PICK i \in Live' : slot'[i] = slot[j]
    BY <2>1, <2>2, <1>8, Zenon
  <2> QED
    BY <2>2, <2>3, Zenon
<1>13. Single'
  <2> SUFFICES ASSUME "twice" \notin odd', NEW i \in Live'
               PROVE  \E l \in links' : l[3] = slot'[i].ino
    BY <1>8, Zenon DEF Single
  <2>1. PICK j \in Live : slot'[i] = slot[j]
    BY <1>8, Zenon
  <2>2. PICK l \in links : l[3] = slot[j].ino
    BY <1>9, Zenon DEF Single
  <2>3. slot'[i].ino # ino
    BY <1>8, Zenon
  <2> QED
    BY <2>1, <2>2, <2>3, <1>5, Zenon
<1> QED
  BY <1>8, <1>10, <1>11, <1>12, <1>13, Zenon

(* sys_rename keeps the invariant. *)
LEMMA RenameInv ==
  ASSUME Constants, Inv, Rename
  PROVE  Inv'
<1> USE DEF Inv
<1>1. PICK from \in {Root, Sub}, to \in {Root, Sub}, name \in Names, new \in Names :
        /\ Resolve(from, name) # NoInode /\ Resolve(to, new) # Resolve(from, name)
        /\ links' = {l \in links : <<l[1], l[2]>> \notin {<<from, name>>, <<to, new>>}}
                      \cup {<<to, new, Resolve(from, name)>>}
        /\ DropSlot(Resolve(to, new))
        /\ odd' = odd \cup Moved(Resolve(to, new)) \cup {"renamed"}
  BY Zenon DEF Rename
<1>2. UNCHANGED <<disk, pool, g_next, opens, fds, looked>>
  BY Zenon DEF Rename
<1>3. PICK ino, old : ino = Resolve(from, name) /\ old = Resolve(to, new)
  BY Zenon
<1>4. /\ ino \in Inodes \ {Root, Sub}
      /\ \A l \in links : l[3] = ino <=> (l[1] = from /\ l[2] = name)
  BY <1>1, <1>3, NameFacts
<1>5. /\ old \notin {Sub, ino}
      /\ \A l \in links : l[3] = old <=> (l[1] = to /\ l[2] = new)
  <2>1. CASE old = NoInode
    <3>1. \A l \in links : ~(l[1] = to /\ l[2] = new)
      <4>1. ASSUME NEW m \in links, m[3] = NoInode PROVE FALSE
        BY <4>1 DEF LinksSound, Inodes, NoInode, Constants
      <4> QED
        BY <2>1, <4>1, <1>3, ResolveFacts
    <3>2. \A l \in links : l[3] # old
      BY <2>1 DEF LinksSound, Inodes, NoInode, Constants
    <3>3. old \notin {Sub, ino}
      BY <2>1, <1>1, <1>3 DEF Sub, NoInode
    <3> QED
      BY <3>1, <3>2, <3>3, Zenon
  <2>2. CASE old # NoInode
    BY <2>2, <1>1, <1>3, NameFacts
  <2> QED
    BY <2>1, <2>2, Zenon
<1> DEFINE n == <<to, new, ino>>
<1>6. n[1] = to /\ n[2] = new /\ n[3] = ino
  BY Zenon
<1>7. links' = {l \in links : l[3] \notin {ino, old}} \cup {n}
  <2>1. \A l \in links : <<l[1], l[2]>> \in {<<from, name>>, <<to, new>>} <=> l[3] \in {ino, old}
    BY <1>4, <1>5, Zenon
  <2> QED
    BY <2>1, <1>1, <1>3, Zenon
<1> HIDE DEF n
<1>8. DropSlot(old) /\ odd' = odd \cup Moved(old) \cup {"renamed"}
  BY <1>1, <1>3, Zenon
<1>9. /\ slot' \in [1..MaxFiles -> Slots] /\ count' \in 0..MaxFiles
      /\ SlotNames' /\ StableUnlessMoved' /\ CurrentUnlessSplit'
      /\ \A i \in Live' : \E j \in Live : slot'[i] = slot[j]
      /\ \A j \in Live : slot[j].ino # old => \E i \in Live' : slot'[i] = slot[j]
      /\ "twice" \notin odd' =>
           /\ \A i, j \in Live' : slot'[i].ino = slot'[j].ino => i = j
           /\ \A i \in Live' : slot'[i].ino # old
  <2>1. disk' = disk /\ fds' = fds /\ odd \cup Moved(old) \subseteq odd'
    BY <1>2, <1>8, Zenon
  <2> QED
    BY <2>1, <1>8, DroppedTable, Zenon
<1>10. odd \subseteq odd' /\ "renamed" \in odd'
  BY <1>8, Zenon
<1>11. Types' /\ PoolSound' /\ FromRootFindsNamed' /\ RootLoaded'
  BY <1>2, <1>9, <1>10, Zenon DEF Types, PoolSound, FromRootFindsNamed, RootLoaded
<1>12. LinksSound'
  <2>1. IsFiniteSet(links')
    <3>1. IsFiniteSet({l \in links : l[3] \notin {ino, old}})
      <4>1. IsFiniteSet(links)
        BY Zenon DEF LinksSound
      <4>2. {l \in links : l[3] \notin {ino, old}} \subseteq links
        BY Zenon
      <4> QED
        BY <4>1, <4>2, FS_Subset, Zenon
    <3> QED
      BY <3>1, <1>7, FS_AddElement, Zenon
  <2>2. \E l \in links' : l[3] = Sub
    BY <1>4, <1>5, <1>7, Zenon DEF LinksSound
  <2>3. to \in {Root, Sub} /\ new \in Plain /\ new \in Seq(Chars)
    BY Zenon DEF Plain, Constants
  <2>4. \A l \in links' : /\ l[1] \in {Gone, Root, Sub} /\ l[2] \in Seq(Chars)
                          /\ l[3] \in Inodes \ {Root}
    BY <2>3, <1>4, <1>6, <1>7, Zenon DEF LinksSound
  <2>5. \A l, m \in links' : l[3] = m[3] => l = m
    BY <1>6, <1>7, Zenon DEF LinksSound
  <2>6. \A l, m \in links' :
           l[1] = m[1] /\ l[1] # Gone /\ l[2] = m[2] /\ l[2] \in Plain => l = m
    <3>1. \A l \in links : l[3] # old => ~(l[1] = to /\ l[2] = new)
      BY <1>5, Zenon
    <3>2. ASSUME NEW l \in links'
          PROVE  l = n \/ (l \in links /\ ~(l[1] = to /\ l[2] = new))
      BY <3>1, <1>7, Zenon
    <3> QED
      BY <3>2, <1>6, Zenon DEF LinksSound
  <2>7. \A l \in links' : l[3] = Sub => l[2] = <<"d">>
    BY <1>4, <1>6, <1>7, Zenon DEF LinksSound
  <2>8. \A l \in links' : "slashed" \in odd' \/ l[2] \in Plain
    BY <2>3, <1>6, <1>7, <1>10, Zenon DEF LinksSound
  <2> QED
    BY <2>1, <2>2, <2>4, <2>5, <2>6, <2>7, <2>8, Zenon DEF LinksSound
<1>13. Single'
  <2> SUFFICES ASSUME "twice" \notin odd', NEW i \in Live'
               PROVE  \E l \in links' : l[3] = slot'[i].ino
    BY <1>9, Zenon DEF Single
  <2>1. PICK j \in Live : slot'[i] = slot[j]
    BY <1>9, Zenon
  <2>2. PICK l \in links : l[3] = slot[j].ino
    BY <1>10, Zenon DEF Single
  <2>3. slot'[i].ino # old
    BY <1>9, Zenon
  <2>4. CASE slot'[i].ino = ino
    BY <2>4, <1>6, <1>7, Zenon
  <2>5. CASE slot'[i].ino # ino
    BY <2>1, <2>2, <2>3, <2>5, <1>7, Zenon
  <2> QED
    BY <2>4, <2>5, Zenon
<1> QED
  BY <1>9, <1>11, <1>12, <1>13, Zenon

-----------------------------------------------------------------------------
(* noxfs_init after a reboot: the files of the root, each in one slot. *)
LEMMA RebootInv ==
  ASSUME Constants, Inv, Reboot
  PROVE  Inv'
<1> USE DEF Inv
<1>1. PICK n : n = Cardinality(InRoot)
  BY Zenon
<1>2. n \in Nat
  <2>1. IsFiniteSet(links) /\ InRoot \subseteq links
    BY Zenon DEF LinksSound, InRoot
  <2>2. IsFiniteSet(InRoot)
    BY <2>1, FS_Subset, Zenon
  <2> QED
    BY <2>2, <1>1, FS_CardinalityType, Zenon
<1>3. PICK entry \in Bijection(1..n, InRoot) :
        /\ count' = Min({n, MaxFiles})
        /\ slot' = [i \in 1..MaxFiles |->
                      IF i > n THEN Free
                      ELSE [name |-> entry[i][2], ino |-> entry[i][3],
                            data |-> disk[entry[i][3]]]]
        /\ odd' = (odd \cap {"slashed"}) \cup When(n > MaxFiles, "unloaded")
  BY <1>1, Zenon DEF Reboot
<1>4. /\ fds' = [fd \in Fds |-> Closed]
      /\ pool' = [i \in 0..(PoolSlots - 1) |-> 0]
      /\ g_next' = 0 /\ opens' = 0 /\ looked' = Nothing
      /\ UNCHANGED <<links, disk>>
  BY Zenon DEF Reboot
<1>5. /\ \A i \in 1..n : entry[i] \in InRoot
      /\ \A l \in InRoot : \E i \in 1..n : entry[i] = l
      /\ \A i, j \in 1..n : entry[i] = entry[j] => i = j
  <2>1. entry \in [1..n -> InRoot] /\ IsInjective(entry)
    BY Zenon DEF Bijection, Injection
  <2>2. \A l \in InRoot : \E i \in 1..n : entry[i] = l
    BY Zenon DEF Bijection, Surjection
  <2> QED
    BY <2>1, <2>2, Zenon DEF IsInjective
<1>6. \A l \in InRoot : l \in links /\ l[1] = Root /\ l[2] \in Seq(Chars) /\ l[3] \in Inodes
  BY Zenon DEF InRoot, LinksSound
<1>7. MaxFiles \in Nat /\ PoolSlots \in Nat \ {0}
  BY Zenon DEF Constants
<1>8. count' \in {n, MaxFiles} /\ count' <= n /\ count' <= MaxFiles /\ count' \in Nat
  <2>1. {n, MaxFiles} \in SUBSET Nat /\ {n, MaxFiles} # {}
    BY <1>2, <1>7, Zenon
  <2> DEFINE S == {n, MaxFiles}
  <2>2. S \in SUBSET Nat /\ S # {} /\ count' = Min(S)
    BY <2>1, <1>3, Zenon
  <2>3. n \in S /\ MaxFiles \in S /\ \A k \in S : k \in {n, MaxFiles}
    BY Zenon
  <2> HIDE DEF S
  <2>4. count' \in S /\ \A k \in S : count' <= k
    BY <2>2, MinFacts, Zenon
  <2> QED
    BY <2>2, <2>3, <2>4, Zenon
<1>9. \A i \in Live' : i \in 1..n /\ i \in 1..MaxFiles
  BY <1>2, <1>7, <1>8 DEF Live
<1>10. \A i \in 1..MaxFiles : i \in 1..n =>
         /\ slot'[i].name = entry[i][2] /\ slot'[i].ino = entry[i][3]
         /\ slot'[i].data = disk[entry[i][3]]
  BY <1>2, <1>3
<1>11. Free \in Slots /\ Free.name = <<>>
  <2>1. 0 \in Inodes
    BY DEF Inodes, Constants
  <2>2. <<>> \in Seq(Chars)
    OBVIOUS
  <2> QED
    BY <2>1, <2>2, Zenon DEF Free, Slots, Values
<1>12. ASSUME NEW i \in 1..MaxFiles
       PROVE  slot'[i] \in Slots
  <2>1. CASE i > n
    BY <2>1, <1>3, <1>11, Zenon
  <2>2. CASE ~(i > n)
    <3>1. PICK l \in InRoot : l = entry[i]
      BY <2>2, <1>2, <1>5
    <3>2. slot'[i] = [name |-> l[2], ino |-> l[3], data |-> disk[l[3]]]
      BY Zenon, <2>2, <3>1, <1>3
    <3>3. l[2] \in Seq(Chars) /\ l[3] \in Inodes /\ disk[l[3]] \in Values
      BY <1>6, Zenon DEF Types
    <3> QED
      BY <3>2, <3>3 DEF Slots
  <2> QED
    BY <2>1, <2>2, Zenon
<1>13. Types'
  <2>1. slot' \in [1..MaxFiles -> Slots]
    BY <1>3, <1>12, Zenon
  <2>2. fds' \in [Fds -> Descriptors] /\ \A fd \in Fds : fds'[fd].kind = "closed"
    BY <1>4, Zenon DEF Closed, Descriptors
  <2>3. /\ pool' \in [0..(PoolSlots - 1) -> Nat] /\ g_next' \in 0..(PoolSlots - 1)
        /\ opens' \in Nat /\ count' \in 0..MaxFiles
    BY <1>4, <1>7, <1>8
  <2> QED
    BY <2>1, <2>2, <2>3, <1>4, Zenon DEF Types
<1>14. "slashed" \in odd => "slashed" \in odd'
  BY <1>3, Zenon
<1>15. LinksSound'
  BY <1>4, <1>14, Zenon DEF LinksSound
<1>16. SlotNames'
  <2> SUFFICES ASSUME "slashed" \notin odd, NEW i \in 1..MaxFiles
               PROVE  slot'[i].name = <<>> \/ slot'[i].name[1] # "/"
    BY <1>14, Zenon DEF SlotNames
  <2>1. CASE i > n
    BY <2>1, <1>3, <1>11, Zenon
  <2>2. CASE ~(i > n)
    <3>1. i \in 1..n /\ slot'[i].name = entry[i][2]
      BY <2>2, <1>2, <1>10
    <3>2. entry[i][2] \in Plain
      BY <3>1, <1>5, <1>6, Zenon DEF LinksSound
    <3>3. \A p \in Plain : p[1] # "/"
      BY DEF Plain, Constants
    <3> QED
      BY <3>1, <3>2, <3>3, Zenon
  <2> QED
    BY <2>1, <2>2, Zenon
<1>17. RootLoaded'
  <2> SUFFICES ASSUME "unloaded" \notin odd', NEW l \in links, l[1] = Root, l[3] # Sub
               PROVE  \E i \in Live' : slot'[i].ino = l[3]
    BY <1>4, Zenon DEF RootLoaded
  <2>1. ~(n > MaxFiles)
    BY <1>3, Zenon DEF When
  <2>2. count' = n
    BY <2>1, <1>2, <1>7, <1>8
  <2>3. PICK i \in 1..n : entry[i] = l
    BY <1>5, Zenon DEF InRoot
  <2>4. i \in Live'
    BY <2>2, Zenon DEF Live
  <2> QED
    BY <2>3, <2>4, <1>9, <1>10, Zenon
<1>18. Single'
  <2>1. ASSUME NEW i \in Live', NEW j \in Live', slot'[i].ino = slot'[j].ino
        PROVE  i = j
    <3>1. entry[i] \in links /\ entry[j] \in links /\ entry[i][3] = entry[j][3]
      BY <2>1, <1>5, <1>6, <1>9, <1>10, Zenon
    <3>2. entry[i] = entry[j]
      BY <3>1, Zenon DEF LinksSound
    <3> QED
      BY <3>2, <1>5, <1>9, Zenon
  <2>2. ASSUME NEW i \in Live'
        PROVE  \E l \in links : l[3] = slot'[i].ino
    BY ZenonT(30), <1>5, <1>6, <1>9, <1>10
  <2> QED
    BY <2>1, <2>2, <1>4, Zenon DEF Single
<1>19. CurrentUnlessSplit'
  BY <1>4, <1>9, <1>10, Zenon DEF CurrentUnlessSplit, CopiesCurrent
<1>20. PoolSound' /\ StableUnlessMoved'
  <2>1. \A fd \in Fds : fds'[fd].kind = "closed"
    BY <1>4, Zenon DEF Closed
  <2>2. \A d \in 1..PoolSlots : ~(d <= opens')
    BY <1>4, <1>7
  <2> QED
    BY <2>1, <2>2, Zenon DEF PoolSound, StableUnlessMoved, DescriptorsStable
<1>21. FromRootFindsNamed'
  BY <1>4, Zenon DEF FromRootFindsNamed, OpenFindsNamed, Nothing, Looked
<1> QED
  BY <1>13, <1>15, <1>16, <1>17, <1>18, <1>19, <1>20, <1>21, Zenon

-----------------------------------------------------------------------------
(* Every call keeps the invariant. *)
LEMMA NextInv ==
  ASSUME Constants, Inv, [Next]_vars
  PROVE  Inv'
<1>1. CASE UNCHANGED vars
  <2> USE <1>1 DEF vars, Inv
  <2>1. fds' \in [Fds -> Descriptors]
    BY Zenon DEF Types
  <2> QED
    BY <2>1, FreedInv, Zenon
<1>2. CASE Next
  BY Zenon, <1>2, OpenInv, CreatInv, OpenProcInv, OpenDevInv, CloseInv, WriteInv, WriteProcInv,
     UnlinkInv, RenameInv, RebootInv DEF Next
<1> QED
  BY <1>1, <1>2, Zenon

(* The inductive invariant of open files: the table of noxfs.c, the links  *)
(* on disk, the pool of procfs.c and the descriptors of fd.c fit together  *)
(* after any sequence of calls.                                            *)
THEOREM Invariance == ASSUME Constants PROVE Spec => []Inv
<1>1. Constants /\ Init => Inv
  BY InitInv, Zenon
<1>2. Constants /\ Inv /\ [Next]_vars => Inv'
  BY NextInv, Zenon
<1> QED
  BY <1>1, <1>2, PTL DEF Spec

(* sys_open's pointer stays good: a descriptor shows the file it was       *)
(* opened for until an unlink removes a slot at or before it, and a /proc  *)
(* file keeps its content for a round of the pool of procfs.c.             *)
THEOREM OpenFilesCorrect == ASSUME Constants PROVE Spec => []OpenFilesKept
<1>1. Constants /\ Inv => OpenFilesKept
  <2> SUFFICES ASSUME Constants, Inv PROVE OpenFilesKept
    BY Zenon
  <2>1. TypeOK
    <3>1. \A i \in DOMAIN slot : slot[i].ino \in Inodes /\ slot[i].data \in Contents \cup {Empty}
      BY Zenon DEF Inv, Types, Slots, Values
    <3>2. \A fd \in Fds : fds[fd].kind \in {"closed", "file", "proc", "dev"}
      BY Zenon DEF Inv, Types, Descriptors
    <3>3. count \in 0..MaxFiles
          /\ \A l \in links : l[1] \in {Gone, Root, Sub} /\ l[3] \in Inodes \ {Root}
      BY Zenon DEF Inv, Types, LinksSound
    <3> QED
      BY <3>1, <3>2, <3>3, Zenon DEF TypeOK
  <2>2. ProcLasts
    <3> SUFFICES ASSUME NEW fd \in Fds, fds[fd].kind = "proc", opens - fds[fd].was < PoolSlots
                 PROVE  pool[fds[fd].at] = fds[fd].was
      BY Zenon DEF ProcLasts
    <3>1. PICK w \in 1..opens : w = fds[fd].was
      BY Zenon DEF Inv, PoolSound
    <3>2. PICK d \in 1..PoolSlots : d = opens + 1 - w /\ d <= opens /\ opens + 1 - d = w
      <4>1. opens \in Nat /\ PoolSlots \in Nat /\ opens - w < PoolSlots
        BY <3>1, Zenon DEF Inv, Types, Constants
      <4>2. opens + 1 - w \in 1..PoolSlots /\ opens + 1 - w <= opens
            /\ opens + 1 - (opens + 1 - w) = w
        BY <4>1
      <4> QED
        BY <4>2, Zenon
    <3>3. fds[fd].at = Back(g_next, d)
      BY <3>1, <3>2, Zenon DEF Inv, PoolSound
    <3>4. pool[Back(g_next, d)] = opens + 1 - d
      BY <3>2, Zenon DEF Inv, PoolSound
    <3> QED
      BY <3>1, <3>2, <3>3, <3>4, Zenon
  <2> QED
    BY <2>1, <2>2, Zenon DEF OpenFilesKept, Inv
<1> QED
  BY <1>1, Invariance, PTL

(* noxfs_write writes through: the copy in every slot is what the disk     *)
(* holds, until a file gets a second slot, is opened with O_TRUNC, is      *)
(* written on a full disk or through a descriptor that an unlink moved.    *)
THEOREM CopiesCorrect == ASSUME Constants PROVE Spec => []CurrentUnlessSplit
<1>1. Inv => CurrentUnlessSplit
  BY Zenon DEF Inv
<1> QED
  BY <1>1, Invariance, PTL

(* vfs_lookup_at: a path from the root opens the file it names, as long as *)
(* nothing was renamed, no file was created under a path with a slash and  *)
(* noxfs_init found room for the files of the root.                        *)
THEOREM NamesCorrect == ASSUME Constants PROVE Spec => []FromRootFindsNamed
<1>1. Inv => FromRootFindsNamed
  BY Zenon DEF Inv
<1> QED
  BY <1>1, Invariance, PTL
=============================================================================
