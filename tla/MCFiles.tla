-------------------------------- MODULE MCFiles -------------------------------
(***************************************************************************)
(* What a program names a file by: open files and their slots, paths and   *)
(* working directories, and the environment.  The modules share no state;  *)
(* a behaviour exercises one of them (part) while the others stay as they  *)
(* started.  Paths are looked at twice, with constants that make different *)
(* things happen.                                                          *)
(***************************************************************************)
EXTENDS FileCache, TLC

(* Open files: names of which one begins the other, in two directories and *)
(* a table of two slots.                                                   *)
Nested == {<<"a">>, <<"a", "b">>}

ASSUME ConstantsHold == Constants

VARIABLES part,
  (* Paths; strange is its history of unusual events *)
  entries, used, isDir, cwd_ino, cwd_path, strange,
  (* Environment *)
  env, meant

(* Two processes in a tree of up to three levels.                          *)
Walk == INSTANCE Paths WITH
  Procs <- {"p", "q"}, NInodes <- 5, MaxComps <- 3, MayRemove <- TRUE, odd <- strange,
  Inputs <- {<<"a">>, <<"b">>, <<".", ".">>, <<"a", "/", "b">>, <<"/">>}

(* Every string of up to five of the characters that matter.               *)
Strings == INSTANCE Paths WITH
  Procs <- {"p"}, NInodes <- 2, MaxComps <- 6, MayRemove <- FALSE, odd <- strange,
  Inputs <- UNION {[1..n -> {"/", ".", "a"}] : n \in 1..5}

(* Keys of which one begins another, values with an equals sign in them,   *)
(* and a table of two rows.                                                *)
Env == INSTANCE Environment WITH
  Procs <- {"p", "q"}, Keys <- {<<"a">>, <<"a", "a">>, <<"a", "b">>},
  Values <- {<<>>, <<"=", "a">>, <<"a", "a", "a">>, <<"a">>}, EnvMax <- 2, EnvSlot <- 6

fileVars == <<links, disk, slot, count, pool, g_next, opens, fds, looked, odd, steps>>
pathVars == <<entries, used, isDir, cwd_ino, cwd_path, strange>>
envVars == <<env, meant>>
allVars == <<part, fileVars, pathVars, envVars>>

AllInit ==
  /\ part \in {"files", "walk", "strings", "env"}
  /\ Init
  /\ \/ part = "strings" /\ Strings!Init
     \/ part # "strings" /\ Walk!Init
  /\ Env!Init

AllNext ==
  /\ UNCHANGED part
  /\ \/ part = "files" /\ Next /\ UNCHANGED <<pathVars, envVars>>
     \/ part = "walk" /\ Walk!Next /\ UNCHANGED <<fileVars, envVars>>
     \/ part = "strings" /\ Strings!Next /\ UNCHANGED <<fileVars, envVars>>
     \/ part = "env" /\ Env!Next /\ UNCHANGED <<fileVars, pathVars>>

AllSpec == AllInit /\ [][AllNext]_allVars

(* Descriptors are interchangeable.                                        *)
Symmetry == Permutations(Fds)

(* A bound: nothing is asked of processes after one of the events that     *)
(* bring a working directory and its path apart.                           *)
Usual == part = "walk" => strange = {}

-----------------------------------------------------------------------------
(* The two ways the kernel reads a path agree: getcwd names the directory  *)
(* a process works in, but for .. below the first level, removed           *)
(* directories and deep trees (sys_chdir), and path_resolve_str makes      *)
(* every path canonical.                                                   *)
PathsAgree ==
  /\ part = "walk" => Walk!TypeOK /\ Walk!CwdPathKept
  /\ part = "strings" => Strings!Canonical

(* getenv answers with what was set or inherited, and a key has one row    *)
(* (sys_getenv, sys_setenv, sys_unsetenv, sys_fork).                       *)
EnvironmentIsMap == part = "env" => Env!EnvironmentIsMap
=============================================================================
