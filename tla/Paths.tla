------------------------------- MODULE Paths -------------------------------
(* Paths and working directories: path_split, path_resolve_str, sys_chdir    *)
(* and sys_mkdir of proc/syscalls.c over noxfs_resolve, and what happens to  *)
(* a working directory that sys_unlink removes.                              *)
(*                                                                           *)
(* A path is a sequence of characters. The tree is a set of entries; the     *)
(* numbers of removed directories are used again.                            *)
EXTENDS Integers, Sequences, FiniteSets, FiniteSetsExt, SequencesExt

CONSTANTS Procs,
          Inputs,     \* the paths programs use
          NInodes,    \* inodes, the root is 0
          MaxComps,   \* rows of comps in path_resolve_str (16)
          MayRemove   \* whether programs remove directories and create files

VARIABLES entries,   \* <<directory, name, inode>>
          used,      \* the inode bitmap
          isDir,     \* the inodes that read as directories
          cwd_ino, cwd_path,
          odd        \* history: unusual events
vars == <<entries, used, isDir, cwd_ino, cwd_path, odd>>

Root == 0
NoInode == -1
Slash == <<"/">>
Dot == <<".">>
DotDot == <<".", ".">>
IsAbsolute(path) == path # <<>> /\ path[1] = "/"

(* The parts between slashes, without empty ones.                            *)
Components(path) ==
    LET Add(parts, ch) == IF ch = "/" THEN Append(parts, <<>>)
                          ELSE Append(Front(parts), Append(Last(parts), ch))
        NotEmpty(part) == part # <<>>
    IN SelectSeq(FoldLeft(Add, <<<<>>>>, path), NotEmpty)

Join(comps) ==
    IF comps = <<>> THEN Slash
    ELSE FoldLeft(LAMBDA path, part : path \o Slash \o part, <<>>, comps)

(* path_split: at the last slash.                                            *)
PathSplit(path) ==
    LET slashes == {i \in 1..Len(path) : path[i] = "/"}
        slash == Max(slashes)
    IN IF slashes = {} THEN [parent |-> Dot, name |-> path]
       ELSE [parent |-> IF slash = 1 THEN Slash ELSE SubSeq(path, 1, slash - 1),
             name |-> SubSeq(path, slash + 1, Len(path))]

(* One round of the loop over components in path_resolve_str; a component    *)
(* beyond the last row is dropped.                                           *)
Pushed(stack, part) ==
    IF part = Dot THEN stack
    ELSE IF part = DotDot THEN IF stack = <<>> THEN <<>> ELSE Front(stack)
    ELSE IF Len(stack) < MaxComps THEN Append(stack, part) ELSE stack

ResolveStr(base, rel) ==
    LET full == IF IsAbsolute(rel) THEN rel ELSE base \o Slash \o rel
    IN Join(FoldLeft(Pushed, <<>>, Components(full)))

(* _dir_lookup_name *)
Child(dir, name) ==
    LET found == {e \in entries : e[1] = dir /\ e[2] = name}
    IN IF dir \notin isDir \/ found = {} THEN NoInode ELSE (CHOOSE e \in found : TRUE)[3]

(* noxfs_resolve: .. is the root, wherever it is met.                        *)
Resolve(base, path) ==
    LET Enter(ino, part) == IF ino = NoInode \/ part = Dot THEN ino
                            ELSE IF part = DotDot THEN Root
                            ELSE Child(ino, part)
    IN FoldLeft(Enter, IF IsAbsolute(path) THEN Root ELSE base, Components(path))

(* The directory a path means, with .. the parent.                           *)
Parent(ino) ==
    LET up == {e[1] : e \in {f \in entries : f[3] = ino}}
    IN IF ino = Root THEN Root ELSE IF up = {} THEN NoInode ELSE CHOOSE dir \in up : TRUE
Meant(base, path) ==
    LET Enter(ino, part) == IF ino = NoInode \/ part = Dot THEN ino
                            ELSE IF part = DotDot THEN Parent(ino)
                            ELSE Child(ino, part)
    IN FoldLeft(Enter, IF IsAbsolute(path) THEN Root ELSE base, Components(path))

Init ==
    /\ entries = {} /\ used = {Root} /\ isDir = {Root}
    /\ cwd_ino = [p \in Procs |-> Root]
    /\ cwd_path = [p \in Procs |-> Slash]
    /\ odd = {}

When(condition, event) == IF condition THEN {event} ELSE {}

(* Fault: the new path is taken to start at the root.                        *)
Chdir_FromRoot(p, path) ==
    LET ino == Resolve(cwd_ino[p], path)
    IN /\ ino \in isDir
       /\ cwd_ino' = [cwd_ino EXCEPT ![p] = ino]
       /\ cwd_path' = [cwd_path EXCEPT ![p] = ResolveStr(Slash, path)]
       /\ UNCHANGED <<entries, used, isDir, odd>>

(* sys_chdir: the inode from the directory tree, the path from the string.   *)
Chdir(p, path) ==
    LET ino == Resolve(cwd_ino[p], path)
    IN /\ ino \in isDir
       /\ cwd_ino' = [cwd_ino EXCEPT ![p] = ino]
       /\ cwd_path' = [cwd_path EXCEPT ![p] = ResolveStr(cwd_path[p], path)]
       /\ odd' = odd \cup When(Meant(cwd_ino[p], path) # ino, "dotdot")
                      \cup When(Len(Components(cwd_path[p])) + Len(Components(path)) > MaxComps, "deep")
       /\ UNCHANGED <<entries, used, isDir>>

FreeInodes == (0..(NInodes - 1)) \ used

(* _ialloc and _dir_add_entry: the new inode is empty, whatever it was.      *)
Create(parent, name, dir) ==
    LET ino == Min(FreeInodes)
    IN /\ FreeInodes # {} /\ name \notin {<<>>, Dot, DotDot}
       /\ Child(parent, name) = NoInode
       /\ used' = used \cup {ino}
       /\ entries' = {e \in entries : e[1] # ino} \cup {<<parent, name, ino>>}
       /\ isDir' = IF dir THEN isDir \cup {ino} ELSE isDir \ {ino}
       /\ UNCHANGED <<cwd_ino, cwd_path, odd>>

(* sys_mkdir *)
Mkdir(p, path) ==
    LET split == PathSplit(path)
        parent == Resolve(cwd_ino[p], split.parent)
    IN parent \in isDir /\ Create(parent, split.name, TRUE)

(* sys_open of a new file: noxfs_creat makes it in the root.                 *)
CreatFile(path) ==
    /\ MayRemove /\ "/" \notin Range(path)
    /\ Create(Root, path, FALSE)

(* sys_unlink of an empty directory, whoever works in it: the inode is freed *)
(* and still reads as a directory. (The names . and .. are in NoxFS.)        *)
Unlink(p, path) ==
    LET split == PathSplit(path)
        parent == Resolve(cwd_ino[p], split.parent)
        ino == Child(parent, split.name)
    IN /\ MayRemove /\ split.name \notin {Dot, DotDot}
       /\ ino # NoInode /\ \A e \in entries : e[1] # ino
       /\ entries' = {e \in entries : e[3] # ino}
       /\ used' = used \ {ino}
       /\ odd' = odd \cup When(ino \in {cwd_ino[q] : q \in Procs}, "removed")
       /\ UNCHANGED <<isDir, cwd_ino, cwd_path>>

(* sys_fork: the child starts where its parent works.                        *)
Fork(p, q) ==
    /\ p # q
    /\ cwd_ino' = [cwd_ino EXCEPT ![q] = cwd_ino[p]]
    /\ cwd_path' = [cwd_path EXCEPT ![q] = cwd_path[p]]
    /\ UNCHANGED <<entries, used, isDir, odd>>

(* sys_exec: inode 0, which is the root, counts as no directory yet.         *)
Exec(p) ==
    /\ cwd_ino[p] = 0
    /\ cwd_ino' = [cwd_ino EXCEPT ![p] = Root]
    /\ cwd_path' = [cwd_path EXCEPT ![p] = Slash]
    /\ UNCHANGED <<entries, used, isDir, odd>>

Next ==
    \/ \E p \in Procs, path \in Inputs :
          \/ Chdir(p, path)
          \/ Mkdir(p, path)
          \/ Unlink(p, path)
    \/ \E path \in Inputs : CreatFile(path)
    \/ \E p, q \in Procs : Fork(p, q)
    \/ \E p \in Procs : Exec(p)

Spec == Init /\ [][Next]_vars

-----------------------------------------------------------------------------
TypeOK ==
    /\ \A e \in entries : e[1] \in 0..(NInodes - 1) /\ e[3] \in used \ {Root}
    /\ \A p \in Procs : IsAbsolute(cwd_path[p]) /\ cwd_ino[p] \in 0..(NInodes - 1)

(* The directory a process works in is the one getcwd names: the path string *)
(* that chdir edits and the inode it looks up stay together.                 *)
CwdPathNames == \A p \in Procs : Resolve(Root, cwd_path[p]) = cwd_ino[p]

(* They come apart only through .. below the first level, a removed          *)
(* directory, or more levels than path_resolve_str has rows.                 *)
CwdPathKept == odd \cap {"dotdot", "removed", "deep"} = {} => CwdPathNames

(* A component of a path counts unless a later .. takes it back; a .. takes  *)
(* back the last component before it that is left.                           *)
Counts(comps, i) ==
    /\ comps[i] \notin {Dot, DotDot}
    /\ \A j \in i..Len(comps) :
          LET names == {k \in (i + 1)..j : comps[k] \notin {Dot, DotDot}}
              ups == {k \in (i + 1)..j : comps[k] = DotDot}
          IN Cardinality(ups) <= Cardinality(names)

(* path_resolve_str makes any path a program gives, from any working         *)
(* directory it can be in, canonical: the components that count, in order,   *)
(* and nothing else, as long as they fit its rows.                           *)
Canonical ==
    \A p \in Procs, rel \in Inputs :
        LET comps == Components(IF IsAbsolute(rel) THEN rel ELSE cwd_path[p] \o Slash \o rel)
            left == {i \in 1..Len(comps) : Counts(comps, i)}
        IN Len(comps) <= MaxComps =>
             ResolveStr(cwd_path[p], rel) =
               Join([n \in 1..Cardinality(left) |->
                        comps[CHOOSE i \in left : Cardinality({k \in left : k <= i}) = n]])
=============================================================================
