------------------------------ MODULE MCStorage ------------------------------
(***************************************************************************)
(* The three layers under a file: NoxFS, the buffer cache and the disk.    *)
(* Each module models the layer below it by what it promises, so they      *)
(* share no state: what one can reach does not depend on the others, and a *)
(* behaviour exercises one of them (part) while the others stay as they    *)
(* started.                                                                *)
(***************************************************************************)
EXTENDS BufferCache, Disk, FiniteSets, TLC

VARIABLES part,
  (* NoxFS; image is its disk *)
  image, pending, files, kept, odd, ops, crashes

(* Two names, two inodes beside the root and four blocks: a directory grows *)
(* into its indirect block, a disk fills up in the middle of an operation, *)
(* a directory is inside another.                                          *)
Fs == INSTANCE NoxFS WITH
  NBlocks <- 4, NInodes <- 3, PerBlock <- 2, Direct <- 1, Indirect <- 2, MaxFiles <- 2,
  Names <- {"a", "b"}, Calls <- {"creat", "write", "unlink", "mkdir", "rename", "open"},
  MaxOps <- 4, MaxCrashes <- 1, disk <- image

(* Two buffers for three blocks in two chains, over a device that may      *)
(* fail; requests of up to three sectors, in commands of at most two.  The *)
(* two are as the proofs about them suppose.                               *)
Parity == [b \in 0..2 |-> b % 2]
ASSUME BlockConstants == CacheConstants /\ DiskConstants

fsVars == <<image, pending, files, kept, odd, ops, crashes>>
vars == <<part, fsVars, cacheVars, diskVars>>

Init == part \in {"fs", "cache", "drive"} /\ Fs!Init /\ CacheInit /\ DiskInit

Next ==
  /\ UNCHANGED part
  /\ \/ part = "fs" /\ Fs!Next /\ UNCHANGED <<cacheVars, diskVars>>
     \/ part = "cache" /\ CacheNext /\ UNCHANGED <<fsVars, diskVars>>
     \/ part = "drive" /\ DiskNext /\ UNCHANGED <<fsVars, cacheVars>>

Spec == Init /\ [][Next]_vars

(* Contents of blocks and of sectors are interchangeable.                  *)
Symmetry == Permutations(Contents) \cup Permutations(Data)

(* Nothing is asked of operations on an image a crash has left.            *)
NotResumed == "resumed" \notin odd

-----------------------------------------------------------------------------
(* At every sector write blocks have one owner, names lead to inodes of    *)
(* their type, and files have one name; the cache follows (_balloc,        *)
(* _dir_add_entry, noxfs_unlink, noxfs_rename).                            *)
TreeSound == Fs!TreeSound

(* At every sector write a file shows only its own data (_store_data       *)
(* writes the inode last).                                                 *)
FilesShowTheirData == Fs!FilesShowTheirData

(* No operation loses a link it was not asked to remove, wherever it stops *)
(* (noxfs_rename, _dir_remove_entry).                                      *)
KeptFindable == Fs!KeptFindable

(* What is removed gives its blocks and its inode back (noxfs_unlink), and *)
(* the counts of the superblock are off by at most one per crash.          *)
SpaceAccounted == Fs!SpaceAccounted
=============================================================================
