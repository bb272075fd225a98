----------------------------- MODULE FileCache -----------------------------
(* Open files: the table g_files of NoxFS (noxfs_lookup, noxfs_creat,        *)
(* noxfs_write, the tail of noxfs_unlink), the lookup of vfs.c that fills    *)
(* it, the pools procfs.c hands files out from, and the descriptors of fd.c  *)
(* that point into both. A descriptor is a pointer to a slot, and slots are  *)
(* moved by unlink and reused by procfs.                                     *)
(*                                                                           *)
(* The disk is taken as NoxFS promises it: a set of links and, per file, a   *)
(* content. There is one directory, Sub, below the root, as /d. A path is a  *)
(* prefix (empty for a path relative to the working directory, / or /d/ for  *)
(* an absolute one) and a name, both sequences of characters. A content      *)
(* stands for the bytes and the size.                                        *)
EXTENDS Integers, Sequences, FiniteSets, FiniteSetsExt

CONSTANTS Names, Contents,  \* names of files, not <<"d">>
          MaxFiles,   \* NOXFS_MAX_FILES
          PoolSlots,  \* POOL_SLOTS of procfs.c
          Fds,        \* descriptors, of all processes
          NInodes,    \* inodes of the disk, the root is 0 and Sub is 1
          Calls,      \* what programs do
          MaxSteps    \* bound on calls

(* The characters of paths.                                                  *)
Chars == {"/", "d"} \cup UNION {Range(name) : name \in Names}

(* What the constants are: a name is not empty, does not begin with a slash  *)
(* and is not that of the directory; the root and Sub have inodes.           *)
Constants ==
    /\ \A name \in Names : name \in Seq(Chars) /\ name # <<>> /\ name[1] # "/" /\ name # <<"d">>
    /\ MaxFiles \in Nat /\ MaxSteps \in Nat /\ NInodes \in Nat
    /\ NInodes > 1 /\ PoolSlots \in Nat \ {0}

VARIABLES links,  \* on disk: <<directory, entry name, inode>>, Gone for a lost entry
          disk,   \* on disk: the content of every inode
          slot,   \* g_files: name, inode and content in memory
          count,  \* g_count
          pool,   \* g_pool of procfs.c: the number of the open it was filled for
          g_next, \* of procfs.c: the slot the next open gets
          opens,  \* history: procfs opens so far
          fds,    \* descriptors: where they point, and history: what was opened
          looked, \* history: the last open that found a file, since the system started
          odd,    \* history: the unusual events so far
          steps   \* history: calls so far

vars == <<links, disk, slot, count, pool, g_next, opens, fds, looked, odd, steps>>

Root == 0
Sub == 1
Inodes == 0..(NInodes - 1)
NoInode == -1
Empty == "empty"
Gone == -2
Free == [name |-> <<>>, ino |-> 0, data |-> Empty]
Closed == [kind |-> "closed", at |-> 0, was |-> 0]
Looked(cwd, prefix, name, ino, meant) ==
    [prefix |-> prefix, name |-> name, cwd |-> cwd, ino |-> ino, meant |-> meant]
Nothing == Looked(Root, <<>>, <<>>, NoInode, NoInode)

Prefixes == {<<>>, <<"/">>, <<"/", "d", "/">>}

(* noxfs_resolve of a name in a directory.                                   *)
Resolve(dir, name) ==
    LET found == {l \in links : l[1] = dir /\ l[2] = name}
    IN IF found = {} THEN NoInode ELSE (CHOOSE l \in found : TRUE)[3]

DirOf(prefix) == IF Len(prefix) = 3 THEN Resolve(Root, <<"d">>) ELSE Root
DirAt(cwd, prefix) == IF prefix = <<>> THEN cwd ELSE DirOf(prefix)

Live == 1..count
SlotsNamed(name) == {i \in Live : slot[i].name = name}
SlotsOf(ino) == {i \in Live : slot[i].ino = ino}
Found(i) == [i |-> i, slot |-> slot, count |-> count, twice |-> FALSE]
NotFound == Found(0)

(* Fault: a full table gives up its last slot.                               *)
NoxfsLookup_Evicts(prefix, name) ==
    LET ino == Resolve(DirOf(prefix), name)
        i == Min({count + 1, MaxFiles})
    IN IF SlotsNamed(prefix \o name) # {} THEN Found(Min(SlotsNamed(prefix \o name)))
       ELSE IF ino \in {NoInode, Root, Sub} THEN NotFound
       ELSE [i |-> i, count |-> i, twice |-> SlotsOf(ino) # {},
             slot |-> [slot EXCEPT ![i] = [name |-> name, ino |-> ino, data |-> disk[ino]]]]

(* noxfs_lookup: a slot of exactly that name, or the file the path resolves  *)
(* to from the root, in a new slot under its last component.                 *)
NoxfsLookup(prefix, name) ==
    LET ino == Resolve(DirOf(prefix), name)
    IN IF SlotsNamed(prefix \o name) # {} THEN Found(Min(SlotsNamed(prefix \o name)))
       ELSE IF ino \in {NoInode, Root, Sub} \/ count >= MaxFiles THEN NotFound
       ELSE [i |-> count + 1, count |-> count + 1, twice |-> SlotsOf(ino) # {},
             slot |-> [slot EXCEPT ![count + 1] =
                          [name |-> name, ino |-> ino, data |-> disk[ino]]]]

(* Fault: the table is searched before the directory.                        *)
VfsLookupAt_NameFirst(cwd, prefix, name) == NoxfsLookup(prefix, name)

(* vfs_lookup_at, for a path that is neither under /proc nor under /dev.     *)
VfsLookupAt(cwd, prefix, name) ==
    LET ino == Resolve(cwd, name)
    IN IF prefix # <<>> THEN NoxfsLookup(prefix, name)
       ELSE IF ino = NoInode THEN NotFound
       ELSE IF SlotsOf(ino) # {} THEN Found(Min(SlotsOf(ino)))
       ELSE NoxfsLookup(<<>>, name)

FreeInodes == Inodes \ ({Root} \cup {l[3] : l \in links})

(* noxfs_creat copies the name into the slot without its end: what the slot  *)
(* held before shows behind it.                                              *)
CopiedOver(name, before) == name \o SubSeq(before, Len(name) + 1, Len(before))

Init ==
    /\ links = {<<Root, <<"d">>, Sub>>}
    /\ disk = [i \in Inodes |-> Empty]
    /\ slot = [i \in 1..MaxFiles |-> Free]
    /\ count = 0
    /\ pool = [i \in 0..(PoolSlots - 1) |-> 0]
    /\ g_next = 0 /\ opens = 0
    /\ fds = [fd \in Fds |-> Closed]
    /\ looked = Nothing
    /\ odd = {} /\ steps = 0

Call(name) == name \in Calls /\ steps < MaxSteps /\ steps' = steps + 1
When(condition, event) == IF condition THEN {event} ELSE {}

(* sys_open takes a free descriptor; where the caller has none, what was     *)
(* looked up or created stays.                                               *)
Bind(fd, entry) ==
    \/ fds[fd] = Closed /\ fds' = [fds EXCEPT ![fd] = entry]
    \/ UNCHANGED fds

(* sys_open without O_CREAT, or with it where the file is there. With        *)
(* O_TRUNC only the size in memory changes.                                  *)
Open ==
    /\ Call("open")
    /\ \E fd \in Fds, cwd \in {Root, Sub}, prefix \in Prefixes, name \in Names,
          truncate \in {FALSE} \cup When("truncate" \in Calls, TRUE) :
        LET r == VfsLookupAt(cwd, prefix, name)
        IN /\ r.i # 0
           /\ slot' = IF truncate THEN [r.slot EXCEPT ![r.i].data = Empty] ELSE r.slot
           /\ count' = r.count
           /\ Bind(fd, [kind |-> "file", at |-> r.i, was |-> r.slot[r.i].ino])
           /\ looked' = Looked(cwd, prefix, name, r.slot[r.i].ino, Resolve(DirAt(cwd, prefix), name))
           /\ odd' = odd \cup When(r.twice, "twice") \cup When(truncate, "truncated")
    /\ UNCHANGED <<links, disk, pool, g_next, opens>>

(* The new file goes to the root, under the path as it was given.            *)
Created(fd, prefix, name) ==
    LET ino == Min(FreeInodes)
        entry == prefix \o name
        new == [name |-> CopiedOver(entry, slot[count + 1].name), ino |-> ino, data |-> Empty]
    IN /\ FreeInodes # {}
       /\ links' = links \cup {<<Root, entry, ino>>}
       /\ disk' = [disk EXCEPT ![ino] = Empty]
       /\ slot' = [slot EXCEPT ![count + 1] = new]
       /\ count' = count + 1
       /\ Bind(fd, [kind |-> "file", at |-> count + 1, was |-> ino])
       /\ odd' = odd \cup When(prefix # <<>>, "slashed")

(* sys_open with O_CREAT where vfs_lookup_at found nothing. The lookup in    *)
(* noxfs_creat may find a file of that name in the root and refuse.          *)
Creat ==
    /\ Call("creat")
    /\ \E fd \in Fds, cwd \in {Root, Sub}, prefix \in Prefixes, name \in Names :
        LET seen == NoxfsLookup(prefix, name)
        IN /\ VfsLookupAt(cwd, prefix, name).i = 0
           /\ count < MaxFiles
           /\ \/ /\ seen.i # 0
                 /\ slot' = seen.slot /\ count' = seen.count
                 /\ odd' = odd \cup When(seen.twice, "twice")
                 /\ UNCHANGED <<links, disk, fds>>
              \/ seen.i = 0 /\ Created(fd, prefix, name)
    /\ UNCHANGED <<pool, g_next, opens, looked>>

(* procfs_lookup: the next slot of the pool, filled for this open.           *)
OpenProc ==
    /\ Call("proc")
    /\ \E fd \in Fds :
        /\ opens' = opens + 1
        /\ g_next' = (g_next + 1) % PoolSlots
        /\ pool' = [pool EXCEPT ![g_next] = opens + 1]
        /\ Bind(fd, [kind |-> "proc", at |-> g_next, was |-> opens + 1])
    /\ UNCHANGED <<links, disk, slot, count, looked, odd>>

(* devfs_lookup: the descriptor keeps the kind of device and no pointer.     *)
OpenDev ==
    /\ Call("dev")
    /\ \E fd \in Fds :
        /\ fds[fd] = Closed
        /\ fds' = [fds EXCEPT ![fd] = [kind |-> "dev", at |-> 0, was |-> 0]]
    /\ UNCHANGED <<links, disk, slot, count, pool, g_next, opens, looked, odd>>

Close ==
    /\ Call("close")
    /\ \E fd \in Fds : fds[fd] # Closed /\ fds' = [fds EXCEPT ![fd] = Closed]
    /\ UNCHANGED <<links, disk, slot, count, pool, g_next, opens, looked, odd>>

(* Fault: the write stays in memory.                                         *)
Write_NotThrough ==
    /\ Call("write")
    /\ \E fd \in Fds, c \in Contents :
        /\ fds[fd].kind = "file"
        /\ slot' = [slot EXCEPT ![fds[fd].at].data = c]
    /\ UNCHANGED <<links, disk, count, pool, g_next, opens, fds, looked, odd>>

(* sys_write to a file: noxfs_write changes the copy in memory, and the disk *)
(* unless no block is left. A slot behind the count is written all the same, *)
(* into its freed buffer and to the inode it names.                          *)
Write ==
    /\ Call("write")
    /\ \E fd \in Fds, c \in Contents, full \in {FALSE} \cup When("full" \in Calls, TRUE) :
        LET i == fds[fd].at
            ino == slot[i].ino
        IN /\ fds[fd].kind = "file"
           /\ slot' = [slot EXCEPT ![i].data = c]
           /\ disk' = IF full THEN disk ELSE [disk EXCEPT ![ino] = c]
           /\ odd' = odd \cup When(full, "full")
    /\ UNCHANGED <<links, count, pool, g_next, opens, fds, looked>>

(* sys_write to a /proc file: its inode number is 0, which is the root, and  *)
(* noxfs_write stores the bytes there, over the entries. The names that text *)
(* spells are none of Names.                                                 *)
WriteProc ==
    /\ Call("writeproc")
    /\ \E fd \in Fds :
        /\ fds[fd].kind = "proc"
        /\ links' = {<<IF l[1] = Root THEN Gone ELSE l[1], l[2], l[3]>> : l \in links}
    /\ UNCHANGED <<disk, slot, count, pool, g_next, opens, fds, looked, odd>>

(* The end of noxfs_unlink: the first slot of the inode goes and the later   *)
(* ones move down; the last one stays in memory behind the count.            *)
Compacted(ino) ==
    LET gone == Min(SlotsOf(ino))
    IN [i \in DOMAIN slot |-> IF i >= gone /\ i < count THEN slot[i + 1] ELSE slot[i]]

DropSlot(ino) ==
    IF SlotsOf(ino) = {} THEN UNCHANGED <<slot, count>>
    ELSE slot' = Compacted(ino) /\ count' = count - 1

Moved(ino) ==
    When(SlotsOf(ino) # {} /\ \E fd \in Fds : fds[fd].kind = "file"
                                              /\ fds[fd].at >= Min(SlotsOf(ino)), "moved")

Unlink ==
    /\ Call("unlink")
    /\ \E dir \in {Root, Sub}, name \in Names :
        /\ Resolve(dir, name) # NoInode
        /\ links' = {l \in links : <<l[1], l[2]>> # <<dir, name>>}
        /\ DropSlot(Resolve(dir, name))
        /\ odd' = odd \cup Moved(Resolve(dir, name))
    /\ UNCHANGED <<disk, pool, g_next, opens, fds, looked>>

(* noxfs_rename: the entry moves, what was there is unlinked, and the names  *)
(* in the slots stay.                                                        *)
Rename ==
    /\ Call("rename")
    /\ \E from, to \in {Root, Sub}, name, new \in Names :
        LET ino == Resolve(from, name)
            old == Resolve(to, new)
        IN /\ ino # NoInode /\ old # ino
           /\ links' = {l \in links : <<l[1], l[2]>> \notin {<<from, name>>, <<to, new>>}}
                         \cup {<<to, new, ino>>}
           /\ DropSlot(old)
           /\ odd' = odd \cup Moved(old) \cup {"renamed"}
    /\ UNCHANGED <<disk, pool, g_next, opens, fds, looked>>

InRoot == {l \in links : l[1] = Root /\ l[3] # Sub}

(* A reboot: noxfs_init fills the table with the files of the root, in the   *)
(* order of the directory, as far as it goes.                                *)
Reboot ==
    /\ Call("reboot")
    /\ LET n == Cardinality(InRoot)
       IN \E entry \in Bijection(1..n, InRoot) :
          /\ count' = Min({n, MaxFiles})
          /\ slot' = [i \in 1..MaxFiles |->
                        IF i > n THEN Free
                        ELSE [name |-> entry[i][2], ino |-> entry[i][3],
                              data |-> disk[entry[i][3]]]]
          /\ odd' = (odd \cap {"slashed"}) \cup When(n > MaxFiles, "unloaded")
    /\ fds' = [fd \in Fds |-> Closed]
    /\ pool' = [i \in 0..(PoolSlots - 1) |-> 0]
    /\ g_next' = 0 /\ opens' = 0 /\ looked' = Nothing
    /\ UNCHANGED <<links, disk>>

Next ==
    \/ Open
    \/ Creat
    \/ OpenProc
    \/ OpenDev
    \/ Close
    \/ Write
    \/ WriteProc
    \/ Unlink
    \/ Rename
    \/ Reboot

Spec == Init /\ [][Next]_vars

-----------------------------------------------------------------------------
TypeOK ==
    /\ count \in 0..MaxFiles
    /\ \A l \in links : l[1] \in {Gone, Root, Sub} /\ l[3] \in Inodes \ {Root}
    /\ \A i \in DOMAIN slot : slot[i].ino \in Inodes /\ slot[i].data \in Contents \cup {Empty}
    /\ \A fd \in Fds : fds[fd].kind \in {"closed", "file", "proc", "dev"}

(* An open file stays the file that was opened, whatever other programs open,*)
(* remove or rename: the pointer sys_open stores is good until sys_close.    *)
DescriptorsStable ==
    \A fd \in Fds : fds[fd].kind = "file" =>
        fds[fd].at \in Live /\ slot[fds[fd].at].ino = fds[fd].was

(* Every copy of a file in memory is what the disk holds, so what one        *)
(* program wrote is what the next one reads, and what a reboot finds         *)
(* (noxfs_write writes through).                                             *)
CopiesCurrent == \A i \in Live : slot[i].data = disk[slot[i].ino]

(* An open gives the file its path names (vfs_lookup_at: "resolves path      *)
(* relative to cwd_ino").                                                    *)
OpenFindsNamed == looked.ino = looked.meant

(* Open files are stable unless an unlink removed one in front of them.      *)
StableUnlessMoved == "moved" \notin odd => DescriptorsStable

(* Memory and disk agree unless a file was opened twice under two paths,     *)
(* opened with O_TRUNC, or written on a full disk.                           *)
CurrentUnlessSplit ==
    odd \cap {"twice", "truncated", "full", "moved"} = {} => CopiesCurrent

(* Absolute paths, and paths relative to the root, name what they say, also  *)
(* after files were removed and after a reboot that found room for the root. *)
FromRootFindsNamed ==
    /\ odd \cap {"renamed", "slashed", "unloaded"} = {}
    /\ looked.prefix # <<>> \/ looked.cwd = Root
    => OpenFindsNamed

(* The content of a /proc file lasts for PoolSlots opens of /proc files, its *)
(* own included ("valid until the next call that recycles the same pool      *)
(* slot", procfs.h).                                                         *)
ProcLasts ==
    \A fd \in Fds : fds[fd].kind = "proc" /\ opens - fds[fd].was < PoolSlots =>
        pool[fds[fd].at] = fds[fd].was

(* What a descriptor was opened for it keeps: a file as long as no unlink    *)
(* moved the slots, a /proc file for a round of the pool.                    *)
OpenFilesKept == TypeOK /\ StableUnlessMoved /\ ProcLasts
=============================================================================
