------------------------------- MODULE NoxFS -------------------------------
(* NoxFS on disk (fs/noxfs/noxfs.c): the two bitmaps, the inode table, the   *)
(* data, indirect and directory blocks and the counters of the superblock.   *)
(* Every operation writes through, one sector at a time, and the machine may *)
(* stop between two sector writes. An operation therefore first yields the   *)
(* sequence of disks its writes lead through (pending); WriteSector moves    *)
(* the disk one step along it, and Crash drops what is left and mounts what  *)
(* is there.                                                                 *)
(*                                                                           *)
(* Data is abstracted: a file block holds only whose data was written there, *)
(* PerBlock entries fill a block (16 in the code), and a size counts         *)
(* entries, PerBlock of them to a block of file data. The buffer cache and   *)
(* the drive are BufferCache and Disk; the kernel heap does not run out.     *)
EXTENDS Integers, Sequences, FiniteSets, FiniteSetsExt, SequencesExt

CONSTANTS NBlocks,   \* data blocks of the disk
          NInodes,   \* inode_count
          PerBlock,  \* directory entries in a block
          Direct,    \* NOXFS_DIRECT
          Indirect,  \* NOXFS_INDIRECT
          MaxFiles,  \* NOXFS_MAX_FILES
          Names,     \* names programs use
          Calls,     \* the operations programs call
          MaxOps,    \* bound on operations
          MaxCrashes \* bound on crashes

VARIABLES disk,    \* what the sectors hold
          pending, \* the disks the running operation has still to write
          files,   \* g_files: the cached files, as [name, ino]
          kept,    \* history: links the running operation must not lose
          odd,     \* history: the unusual events so far
          ops,     \* history: operations started
          crashes  \* history: crashes

vars == <<disk, pending, files, kept, odd, ops, crashes>>

DataBlocks == 1..NBlocks
Inodes == 0..(NInodes - 1)
Root == 0
NoInode == -1
PseudoIno == NInodes   \* a /proc inode number: out of range for _iread

NoEntry == [ino |-> 0, name |-> "", dir |-> FALSE]
ZeroInode == [dir |-> FALSE, size |-> 0, blocks |-> [s \in 0..(Direct - 1) |-> 0],
              indirect |-> 0, links |-> 0]
Junk == [k |-> "junk"]
DataOf(ino) == [k |-> "data", of |-> ino]
ZeroPtrs == [k |-> "ptrs", ptrs |-> [s \in 0..(Indirect - 1) |-> 0]]

(* What a block shows when it is read as a directory, or as pointers.        *)
EntriesIn(c) == IF c.k = "dir" THEN c.entries ELSE [i \in 1..PerBlock |-> NoEntry]
PtrsIn(c) == IF c.k = "ptrs" THEN c.ptrs ELSE ZeroPtrs.ptrs

BlocksFor(size) == (size + PerBlock - 1) \div PerBlock

(* An operation on the way: the disk it sees, the disks it wrote, whether    *)
(* it has succeeded so far and the number it returns.                        *)
Begin == [d |-> disk, log |-> <<>>, ok |-> TRUE, res |-> 0]
Write(t, d) == [t EXCEPT !.d = d, !.log = Append(t.log, d)]
Fail(t) == [t EXCEPT !.ok = FALSE, !.res = 0]
Result(t, n) == [t EXCEPT !.res = n]

(* _balloc: the bitmap first, then the counter in the superblock.            *)
Balloc(t) ==
    IF t.d.freeBlocks = 0 \/ t.d.blkBmp = DataBlocks THEN Fail(t)
    ELSE LET b == Min(DataBlocks \ t.d.blkBmp)
             marked == Write(t, [t.d EXCEPT !.blkBmp = @ \cup {b}])
         IN Result(Write(marked, [marked.d EXCEPT !.freeBlocks = @ - 1]), b)

Bfree(t, b) ==
    LET cleared == Write(t, [t.d EXCEPT !.blkBmp = @ \ {b}])
    IN Write(cleared, [cleared.d EXCEPT !.freeBlocks = @ + 1])

(* _ialloc: bitmap, inode, counter.                                          *)
Ialloc(t, isDir) ==
    IF t.d.freeInodes = 0 \/ t.d.inoBmp = Inodes THEN Fail(t)
    ELSE LET i == Min(Inodes \ t.d.inoBmp)
             marked == Write(t, [t.d EXCEPT !.inoBmp = @ \cup {i}])
             filled == Write(marked, [marked.d EXCEPT !.inode[i] =
                                  [ZeroInode EXCEPT !.dir = isDir, !.links = 1]])
         IN Result(Write(filled, [filled.d EXCEPT !.freeInodes = @ - 1]), i)

Ifree(t, i) ==
    LET cleared == Write(t, [t.d EXCEPT !.inoBmp = @ \ {i}])
    IN Write(cleared, [cleared.d EXCEPT !.freeInodes = @ + 1])

(* _iget_block without allocation: where block s of an inode is, 0 if none.  *)
BlockAt(d, in, s) ==
    IF s < Direct THEN in.blocks[s]
    ELSE IF s - Direct >= Indirect \/ in.indirect = 0 THEN 0
    ELSE PtrsIn(d.blk[in.indirect])[s - Direct]

(* _iget_block with allocation, on the inode in memory: a direct block is    *)
(* recorded only in memory, a pointer goes to the indirect block on disk.    *)
GetDirect(t, in, s) ==
    LET Record(got) == [t |-> got, in |-> [in EXCEPT !.blocks[s] = got.res], blk |-> got.res]
    IN IF in.blocks[s] # 0 THEN [t |-> t, in |-> in, blk |-> in.blocks[s]]
       ELSE Record(Balloc(t))

WithIndirect(t, in) ==
    LET Record(got) ==
            [t |-> IF got.ok
                   THEN Write(got, [got.d EXCEPT !.blk[got.res] = ZeroPtrs]) ELSE got,
             in |-> [in EXCEPT !.indirect = got.res]]
    IN IF in.indirect # 0 THEN [t |-> t, in |-> in] ELSE Record(Balloc(t))

(* The block got is entered at pointer s of the indirect block.              *)
EnterPointer(got, in, s) ==
    LET ptrs == PtrsIn(got.d.blk[in.indirect])
    IN IF ~got.ok THEN [t |-> got, in |-> in, blk |-> 0]
       ELSE [t |-> Write(got, [got.d EXCEPT !.blk[in.indirect] =
                     [k |-> "ptrs", ptrs |-> [ptrs EXCEPT ![s - Direct] = got.res]]]),
             in |-> in, blk |-> got.res]

GetPointer(w, s) ==
    LET at == BlockAt(w.t.d, w.in, s)
    IN IF ~w.t.ok \/ at # 0 THEN [t |-> w.t, in |-> w.in, blk |-> at]
       ELSE EnterPointer(Balloc(w.t), w.in, s)

GetIndirect(t, in, s) ==
    IF s - Direct >= Indirect THEN [t |-> Fail(t), in |-> in, blk |-> 0]
    ELSE GetPointer(WithIndirect(t, in), s)

GetBlock(t, in, s) == IF s < Direct THEN GetDirect(t, in, s) ELSE GetIndirect(t, in, s)

(* What _store_data leaves in a block: the new part, over what was there.    *)
Chunk(ino, entries, s, old) ==
    IF entries = <<>> THEN DataOf(ino)
    ELSE [k |-> "dir", entries |->
            [i \in 1..PerBlock |-> IF s * PerBlock + i <= Len(entries)
                                   THEN entries[s * PerBlock + i] ELSE EntriesIn(old)[i]]]

(* Fault: the inode is written as soon as the blocks are found, the data     *)
(* after it.                                                                 *)
StoreData_InodeFirst(t, ino, size, entries) ==
    LET Found(a, s) == IF a.t.ok THEN GetBlock(a.t, a.in, s) ELSE a
        found == FoldLeft(Found, [t |-> t, in |-> [t.d.inode[ino] EXCEPT !.size = size], blk |-> 0],
                          [i \in 1..BlocksFor(size) |-> i - 1])
        Store(u, s) == LET b == BlockAt(u.d, u.d.inode[ino], s)
                       IN Write(u, [u.d EXCEPT !.blk[b] = Chunk(ino, entries, s, u.d.blk[b])])
    IN IF ~found.t.ok THEN found.t
       ELSE FoldLeft(Store, Write(found.t, [found.t.d EXCEPT !.inode[ino] = found.in]),
                     [i \in 1..BlocksFor(size) |-> i - 1])

(* One turn of the loop of _store_data, with the block it got.               *)
StoreBlock(g, ino, entries, s) ==
    IF ~g.t.ok \/ g.blk = 0 THEN [g EXCEPT !.t = Fail(g.t)]
    ELSE [g EXCEPT !.t = Write(g.t, [g.t.d EXCEPT !.blk[g.blk] =
             Chunk(ino, entries, s, g.t.d.blk[g.blk])])]

StoreInode(a, ino) ==
    IF a.t.ok THEN Write(a.t, [a.t.d EXCEPT !.inode[ino] = a.in]) ELSE a.t

(* _store_data: every block in order, allocating as it goes, and the inode   *)
(* last; a block that cannot be had leaves the inode as it was. The blocks   *)
(* of a directory are given by its entries, those of a file are file data.   *)
StoreData(t, ino, size, entries) ==
    LET Turn(a, s) == IF a.t.ok THEN StoreBlock(GetBlock(a.t, a.in, s), ino, entries, s) ELSE a
    IN StoreInode(FoldLeft(Turn,
                           [t |-> t, in |-> [t.d.inode[ino] EXCEPT !.size = size], blk |-> 0],
                           [i \in 1..BlocksFor(size) |-> i - 1]),
                  ino)

(* The entries of a directory, as _load_data returns them.                   *)
Entries(d, dir) ==
    [i \in 1..d.inode[dir].size |->
        LET b == BlockAt(d, d.inode[dir], (i - 1) \div PerBlock)
        IN IF b = 0 THEN NoEntry ELSE EntriesIn(d.blk[b])[((i - 1) % PerBlock) + 1]]

IsDir(d, i) == i \in Inodes /\ d.inode[i].dir

Matches(d, dir, name) ==
    {i \in 1..d.inode[dir].size : LET e == Entries(d, dir)[i] IN e.ino # 0 /\ e.name = name}

DirLookupName(d, dir, name) ==
    IF ~IsDir(d, dir) \/ Matches(d, dir, name) = {} THEN NoInode
    ELSE Entries(d, dir)[Min(Matches(d, dir, name))].ino

(* _dir_add_entry: appends without asking whether the inode is a directory.  *)
DirAddEntry(t, dir, name, ino, isDir) ==
    IF dir \notin Inodes THEN Fail(t)
    ELSE StoreData(t, dir, t.d.inode[dir].size + 1,
             IF t.d.inode[dir].dir
             THEN Append(Entries(t.d, dir), [ino |-> ino, name |-> name, dir |-> isDir])
             ELSE <<>>)

(* _dir_remove_entry: the first entry of that name, the rest moved down.     *)
DirRemoveEntry(t, dir, name) ==
    IF DirLookupName(t.d, dir, name) = NoInode THEN Fail(t)
    ELSE LET entries == Entries(t.d, dir)
         IN StoreData(t, dir, Len(entries) - 1,
                      RemoveAt(entries, Min(Matches(t.d, dir, name))))

(* Fault: the pointers are freed, the indirect block itself is forgotten.    *)
BlocksToFree_NoIndirect(d, in) ==
    LET NonZero(b) == b # 0
        direct == [s \in 1..Min({BlocksFor(in.size), Direct}) |-> in.blocks[s - 1]]
        beyond == Min({Max({BlocksFor(in.size) - Direct, 0}), Indirect})
        ptrs == [s \in 1..beyond |-> PtrsIn(d.blk[in.indirect])[s - 1]]
    IN SelectSeq(direct \o ptrs, NonZero)

(* The blocks noxfs_unlink gives back: those the size reaches, direct ones   *)
(* first, and the indirect block after the blocks it points to.              *)
BlocksToFree(d, in) ==
    LET NonZero(b) == b # 0
        within == Min({BlocksFor(in.size), Direct})
        beyond == Min({Max({BlocksFor(in.size) - Direct, 0}), Indirect})
        direct == [s \in 1..within |-> in.blocks[s - 1]]
        ptrs == [s \in 1..beyond |-> PtrsIn(d.blk[in.indirect])[s - 1]]
    IN SelectSeq(IF in.indirect = 0 THEN direct
                 ELSE direct \o ptrs \o <<in.indirect>>, NonZero)

(* Fault: the blocks are freed while the entry is still there.               *)
Unlink_BlocksFirst(t, parent, name) ==
    LET ino == DirLookupName(t.d, parent, name)
        in == t.d.inode[ino]
        freed == FoldLeft(Bfree, t, BlocksToFree(t.d, in))
    IN IF ino \in {NoInode, Root} \/ (in.dir /\ in.size > 2) THEN Fail(t)
       ELSE Result(Ifree(DirRemoveEntry(freed, parent, name), ino), ino)

(* What follows the removal of the entry in noxfs_unlink: the blocks, then   *)
(* the inode. The result is the inode that was freed.                        *)
Release(removed, ino) ==
    LET in == removed.d.inode[ino]
    IN IF ~removed.ok THEN removed
       ELSE IF in.links > 1
       THEN Result(Write(removed, [removed.d EXCEPT !.inode[ino].links = @ - 1]), 0)
       ELSE Result(Ifree(FoldLeft(Bfree, removed, BlocksToFree(removed.d, in)), ino), ino)

(* noxfs_unlink: the entry goes first.                                       *)
Unlink(t, parent, name) ==
    LET ino == DirLookupName(t.d, parent, name)
    IN IF ino \in {NoInode, Root} THEN Fail(t)
       ELSE IF t.d.inode[ino].dir /\ t.d.inode[ino].size > 2 THEN Fail(t)
       ELSE Release(DirRemoveEntry(t, parent, name), ino)

Rmdir(t, parent, name) ==
    LET ino == DirLookupName(t.d, parent, name)
    IN IF ino = NoInode \/ ~IsDir(t.d, ino) \/ t.d.inode[ino].size > 2 THEN Fail(t)
       ELSE Unlink(t, parent, name)

SysUnlink(t, parent, name) ==
    LET file == Unlink(t, parent, name)
    IN IF file.ok THEN file ELSE Rmdir([file EXCEPT !.ok = TRUE], parent, name)

(* Fault: the source entry goes first.                                       *)
Rename_SourceFirst(t, srcParent, srcName, dstParent, dstName) ==
    LET ino == DirLookupName(t.d, srcParent, srcName)
        old == DirLookupName(t.d, dstParent, dstName)
        removed == DirRemoveEntry(t, srcParent, srcName)
        cleared == IF old \in {NoInode, ino} THEN removed
                   ELSE [Unlink(removed, dstParent, dstName) EXCEPT !.ok = TRUE]
    IN IF ino = NoInode THEN Fail(t)
       ELSE Result(DirAddEntry(cleared, dstParent, dstName, ino, t.d.inode[ino].dir), cleared.res)

(* noxfs_rename: the new entry, then whatever the name meant before, then    *)
(* the old entry. The result of the unlink in the middle is ignored.         *)
Replace(added, ino, dstParent, dstName) ==
    IF DirLookupName(added.d, dstParent, dstName) \in {NoInode, ino} THEN added
    ELSE [Unlink(added, dstParent, dstName) EXCEPT !.ok = TRUE]

Rename(t, srcParent, srcName, dstParent, dstName) ==
    LET ino == DirLookupName(t.d, srcParent, srcName)
        Finish(cleared) == Result(DirRemoveEntry(cleared, srcParent, srcName), cleared.res)
        Go(added) == IF ~added.ok THEN added
                     ELSE Finish(Replace(added, ino, dstParent, dstName))
    IN IF ino = NoInode THEN Fail(t)
       ELSE Go(DirAddEntry(t, dstParent, dstName, ino, t.d.inode[ino].dir))

Creat(t, name) ==
    LET Enter(got) == IF ~got.ok THEN got
                      ELSE Result(DirAddEntry(got, Root, name, got.res, FALSE), got.res)
    IN Enter(Ialloc(t, FALSE))

(* The block of a new directory, and the inode that refers to it.            *)
FillDir(block, ino, parent) ==
    LET dots == [i \in 1..PerBlock |->
                   IF i = 1 THEN [ino |-> ino, name |-> ".", dir |-> TRUE]
                   ELSE IF i = 2 THEN [ino |-> parent, name |-> "..", dir |-> TRUE]
                   ELSE NoEntry]
        written == Write(block, [block.d EXCEPT !.blk[block.res] =
                                     [k |-> "dir", entries |-> dots]])
    IN Write(written, [written.d EXCEPT !.inode[ino] =
                           [@ EXCEPT !.blocks[0] = block.res, !.size = 2]])

(* noxfs_mkdir: inode, block, the two dot entries, inode again, new entry.   *)
Mkdir(t, parent, name) ==
    LET Enter(block, ino) == IF ~block.ok THEN block
            ELSE DirAddEntry(FillDir(block, ino, parent), parent, name, ino, TRUE)
        Fill(got) == IF ~got.ok THEN got ELSE Enter(Balloc(got), got.res)
    IN IF DirLookupName(t.d, parent, name) # NoInode THEN Fail(t) ELSE Fill(Ialloc(t, TRUE))

(* The tree below the root: the links <<directory, name, inode>> a path can  *)
(* follow, and the inodes they lead to.                                      *)
LinksOf(d, dir) ==
    {<<dir, e.name, e.ino>> : e \in {x \in Range(Entries(d, dir)) :
                                       x.ino # 0 /\ x.name \notin {".", ".."}}}

Within(d, top) ==
    LET Grow(S, i) == S \cup {l[3] : l \in UNION {LinksOf(d, x) : x \in {y \in S : IsDir(d, y)}}}
    IN FoldLeft(Grow, {top}, [i \in 1..NInodes |-> i])

Linked(d) == Within(d, Root)
Links(d) == UNION {LinksOf(d, x) : x \in {y \in Linked(d) : IsDir(d, y)}}

(* _dir_scan: the files of the root directory, as many as the cache holds.   *)
DirScan(d) ==
    LET Listed(e) == e.ino # 0 /\ ~e.dir
        found == SelectSeq(Entries(d, Root), Listed)
    IN [i \in 1..Min({Len(found), MaxFiles}) |-> [name |-> found[i].name, ino |-> found[i].ino]]

EmptyDisk ==
    [blkBmp |-> {1}, inoBmp |-> {Root}, freeBlocks |-> NBlocks - 1, freeInodes |-> NInodes - 1,
     inode |-> [i \in Inodes |-> IF i = Root
                                 THEN [ZeroInode EXCEPT !.dir = TRUE, !.links = 1, !.blocks[0] = 1]
                                 ELSE ZeroInode],
     blk |-> [b \in DataBlocks |-> Junk]]

Init ==
    /\ disk = EmptyDisk
    /\ pending = <<>>
    /\ files = <<>>
    /\ kept = {} /\ odd = {} /\ ops = 0 /\ crashes = 0

When(condition, event) == IF condition THEN {event} ELSE {}

Shrinks(t) == \E i \in t.d.inoBmp : BlocksFor(t.d.inode[i].size) < BlocksFor(disk.inode[i].size)

(* An operation that writes: what it leaves in the cache, the links it may   *)
(* drop or move, and what is unusual about it.                               *)
Run(t, newFiles, keeps, events) ==
    /\ pending = <<>> /\ ops < MaxOps
    /\ t.log # <<>>
    /\ pending' = t.log
    /\ files' = newFiles
    /\ kept' = keeps
    /\ odd' = odd \cup events \cup When(~t.ok, "failed") \cup When(crashes > 0, "resumed")
                 \cup When(Shrinks(t), "shrunk")
    /\ ops' = ops + 1
    /\ UNCHANGED <<disk, crashes>>

Each(links) == {{l} : l \in links}
Cached(name) == \E i \in DOMAIN files : files[i].name = name

(* The cache without the first slot of a freed inode.                        *)
Dropped(ino) ==
    LET slots == {i \in DOMAIN files : files[i].ino = ino}
    IN IF ino = 0 \/ slots = {} THEN files ELSE RemoveAt(files, Min(slots))

CreatFile ==
    /\ "creat" \in Calls
    /\ \E name \in Names :
        LET t == Creat(Begin, name)
            before == DirLookupName(disk, Root, name)
        IN /\ Len(files) < MaxFiles
           /\ ~Cached(name)
           /\ before = NoInode \/ IsDir(disk, before)
           /\ Run(t, IF t.ok THEN Append(files, [name |-> name, ino |-> t.res]) ELSE files,
                  Each(Links(disk)), When(before # NoInode, "shadow"))

WriteFile ==
    /\ "write" \in Calls
    /\ \E i \in DOMAIN files, n \in 1..(Direct + Indirect) :
        Run(StoreData(Begin, files[i].ino, n * PerBlock, <<>>), files, Each(Links(disk)), {})

UnlinkName ==
    /\ "unlink" \in Calls
    /\ \E parent \in Linked(disk), name \in Names :
        LET t == SysUnlink(Begin, parent, name)
            target == <<parent, name, DirLookupName(disk, parent, name)>>
        IN Run(t, Dropped(t.res), Each(Links(disk) \ {target}), {})

MakeDir ==
    /\ "mkdir" \in Calls
    /\ \E parent \in Linked(disk) \cup {PseudoIno}, name \in Names :
        /\ parent = PseudoIno \/ IsDir(disk, parent)
        /\ Run(Mkdir(Begin, parent, name), files, Each(Links(disk)), {})

RenameName ==
    /\ "rename" \in Calls
    /\ \E sp, dp \in Linked(disk), sn, dn \in Names :
        LET t == Rename(Begin, sp, sn, dp, dn)
            ino == DirLookupName(disk, sp, sn)
            old == DirLookupName(disk, dp, dn)
            src == <<sp, sn, ino>>
            dst == <<dp, dn, ino>>
        IN /\ ino # NoInode
           /\ Run(t, Dropped(t.res),
                  Each(Links(disk) \ {src, <<dp, dn, old>>}) \cup {{src, dst}},
                  When(old \notin {NoInode, ino} /\ disk.inode[old].dir
                         /\ disk.inode[old].size > 2, "shadow")
                    \cup When(~IsDir(disk, dp), "infile")
                    \cup When(dp \in Within(disk, ino), "loop"))

(* vfs_lookup_at and noxfs_lookup, for an absolute path or one relative to   *)
(* its directory: a file that is not in the cache gets the next slot.        *)
OpenFile ==
    /\ "open" \in Calls
    /\ pending = <<>>
    /\ \E link \in Links(disk), absolute \in BOOLEAN :
        LET name == link[2]
            ino == IF absolute THEN link[3] ELSE DirLookupName(disk, Root, name)
            isCached == \E i \in DOMAIN files : files[i].ino = link[3]
        IN /\ absolute \/ (~isCached /\ ~Cached(name))
           /\ ino # NoInode /\ ~IsDir(disk, ino)
           /\ Len(files) < MaxFiles
           /\ files' = Append(files, [name |-> name, ino |-> ino])
           /\ odd' = odd \cup When(\E i \in DOMAIN files : files[i].ino = ino, "twice")
    /\ UNCHANGED <<disk, pending, kept, ops, crashes>>

WriteSector ==
    /\ pending # <<>>
    /\ disk' = Head(pending)
    /\ pending' = Tail(pending)
    /\ UNCHANGED <<files, kept, odd, ops, crashes>>

(* The machine stops and boots again: noxfs_init reads what was written.     *)
Crash ==
    /\ crashes < MaxCrashes
    /\ crashes' = crashes + 1
    /\ pending' = <<>>
    /\ files' = DirScan(disk)
    /\ UNCHANGED <<disk, kept, odd, ops>>

Next ==
    \/ CreatFile
    \/ WriteFile
    \/ UnlinkName
    \/ MakeDir
    \/ RenameName
    \/ OpenFile
    \/ WriteSector
    \/ Crash

Spec == Init /\ [][Next]_vars

-----------------------------------------------------------------------------
Quiet == pending = <<>>
Distance(m, n) == IF m > n THEN m - n ELSE n - m

(* Every block an inode refers to, as often as it does.                      *)
Refs(d, i) ==
    LET in == d.inode[i]
        slots == {<<"direct", s>> : s \in 0..(Direct - 1)} \cup {<<"indirect", 0>>}
                   \cup (IF in.indirect = 0 THEN {} ELSE {<<"ptr", s>> : s \in 0..(Indirect - 1)})
        BlockOf(slot) == CASE slot[1] = "direct" -> in.blocks[slot[2]]
                           [] slot[1] = "indirect" -> in.indirect
                           [] OTHER -> PtrsIn(d.blk[in.indirect])[slot[2]]
    IN {<<i, slot, BlockOf(slot)>> : slot \in {x \in slots : BlockOf(x) # 0}}

AllRefs(d) == UNION {Refs(d, i) : i \in Linked(d)}

TypeOK ==
    /\ disk.blkBmp \subseteq DataBlocks /\ disk.inoBmp \subseteq Inodes
    /\ disk.freeBlocks \in 0..NBlocks /\ disk.freeInodes \in 0..NInodes
    /\ \A i \in Inodes : /\ disk.inode[i].size \in 0..((Direct + Indirect) * PerBlock)
                          /\ Range(disk.inode[i].blocks) \cup {disk.inode[i].indirect}
                                \subseteq DataBlocks \cup {0}
    /\ Len(files) <= MaxFiles

(* No two places of the tree hold the same block, and every block the tree   *)
(* holds is marked in the bitmap (_store_data, noxfs_unlink).                *)
OwnedOnce ==
    /\ \A r1, r2 \in AllRefs(disk) : r1[3] = r2[3] => r1 = r2
    /\ \A r \in AllRefs(disk) : r[3] \in disk.blkBmp

(* Every name leads to an inode that is allocated and of the type its entry  *)
(* says (_dir_add_entry, _dir_remove_entry).                                 *)
EntriesDenoteInodes ==
    \A dir \in {x \in Linked(disk) : IsDir(disk, x)} :
        \A e \in Range(Entries(disk, dir)) :
            e.ino # 0 /\ e.name \notin {".", ".."} =>
                e.ino \in disk.inoBmp /\ disk.inode[e.ino].dir = e.dir

(* Whatever the operation and wherever it stops, every link it was not asked *)
(* to remove is still there, and a renamed file is found under its old name  *)
(* or its new one (noxfs_rename).                                            *)
NothingLost == \A alternatives \in kept : alternatives \cap Links(disk) # {}

(* Between operations every inode and every block that is marked is part of  *)
(* the tree (noxfs_unlink frees what the file held).                         *)
NothingLeaked ==
    Quiet => /\ disk.inoBmp = Linked(disk)
             /\ disk.blkBmp = {r[3] : r \in AllRefs(disk)}

(* Between operations no directory has two entries of one name and no inode  *)
(* has two links (noxfs_rename removes the old destination and the source).  *)
NamesUnique ==
    Quiet => /\ \A l1, l2 \in Links(disk) : l1[1] = l2[1] /\ l1[2] = l2[2] => l1 = l2
             /\ \A l1, l2 \in Links(disk) : l1[3] = l2[3] => l1 = l2

(* Between operations every cached file is one the tree still has            *)
(* (noxfs_unlink drops the slot of a freed inode).                           *)
SlotsLive == Quiet => \A i \in DOMAIN files : files[i].ino \in Linked(disk)

(* The tree took no damage: no name shadowed, nothing moved into a file or   *)
(* into itself, no file cached twice, no operation on an image that a crash  *)
(* left. Each of these breaks one of the predicates above; nothing else      *)
(* does, as the properties below state.                                      *)
Undamaged == odd \cap {"shadow", "infile", "loop", "twice", "resumed"} = {}

(* Every sector write of every operation, whether it succeeds or runs out of *)
(* blocks or inodes half way, leaves an image whose blocks have one owner    *)
(* and are marked, so a crash image does too: _balloc before the reference,  *)
(* the entry removed before _bfree.                                          *)
BlocksOwnedOnce == Undamaged => OwnedOnce

(* In every such image each name leads to an allocated inode: _ialloc before *)
(* _dir_add_entry, _dir_remove_entry before _ifree.                          *)
NamesLeadSomewhere == Undamaged => EntriesDenoteInodes

(* In every such image a file shows only data that was written to it:        *)
(* _store_data writes each block before the inode makes it part of the file. *)
FilesShowTheirData ==
    Undamaged => \A i \in Linked(disk) : ~IsDir(disk, i) =>
        \A s \in 0..(BlocksFor(disk.inode[i].size) - 1) :
            LET b == BlockAt(disk, disk.inode[i], s)
            IN b # 0 /\ disk.blk[b] = DataOf(i)

(* No operation loses a link it was not asked to remove, at no sector write: *)
(* "if this fails nothing is lost" (noxfs_rename), compaction in place       *)
(* (_dir_remove_entry).                                                      *)
KeptFindable == Undamaged => NothingLost

(* The counters of the superblock are off by at most one for each crash:     *)
(* _balloc, _bfree, _ialloc and _ifree write bitmap and counter in turn.     *)
CountersDrift ==
    Undamaged /\ Quiet =>
        Distance(disk.freeBlocks, NBlocks - Cardinality(disk.blkBmp))
            + Distance(disk.freeInodes, NInodes - Cardinality(disk.inoBmp)) <= crashes

(* Only an operation that fails half way, a file or directory that gave up   *)
(* blocks, or a crash leaves marked blocks or inodes behind (noxfs_unlink).  *)
SpaceReturned ==
    Undamaged /\ crashes = 0 /\ odd \cap {"failed", "shrunk"} = {} => NothingLeaked

(* One name, one link: rename and unlink leave no second entry, as long as   *)
(* neither fails half way (noxfs_rename, noxfs_unlink).                      *)
OneLinkEach == Undamaged /\ crashes = 0 /\ "failed" \notin odd => NamesUnique

(* The cache has no slot of a file that is gone, in one boot and across      *)
(* reboots (noxfs_unlink, _dir_scan).                                        *)
CacheLive == Undamaged => SlotsLive

(* The tree is sound at every sector write, and the cache with it.           *)
TreeSound == TypeOK /\ BlocksOwnedOnce /\ NamesLeadSomewhere /\ OneLinkEach /\ CacheLive

(* Space and its counters: what is removed comes back, and the superblock    *)
(* knows it but for one unit per crash.                                      *)
SpaceAccounted == SpaceReturned /\ CountersDrift
=============================================================================
