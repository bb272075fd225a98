---------------------------- MODULE Environment ----------------------------
(* The environment of a process: sys_getenv, sys_setenv, sys_unsetenv and    *)
(* the copy made by sys_fork (proc/syscalls.c), with the setenv that noxlib  *)
(* puts in front. A variable is one string KEY=VALUE in a table of fixed     *)
(* size; a key is found by comparing the front of each string. Keys hold no  *)
(* equals sign, values may.                                                  *)
EXTENDS Integers, Sequences, FiniteSets, SequencesExt

CONSTANTS Procs, Keys, Values,
          EnvMax,     \* ENV_MAX
          EnvSlot     \* ENV_SLOT

VARIABLES env,        \* per process, the envc strings in use
          meant       \* history: per process, the values its calls asked for
vars == <<env, meant>>

Absent == <<"absent">>
Row(k, v) == k \o <<"=">> \o v

Init ==
    /\ env = [p \in Procs |-> <<>>]
    /\ meant = [p \in Procs |-> [k \in {} |-> <<>>]]

(* The test shared by the calls: the key and then an equals sign.            *)
Matches(row, k) ==
    /\ Len(row) > Len(k) /\ SubSeq(row, 1, Len(k)) = k
    /\ row[Len(k) + 1] = "="

(* The first row that matches, 0 if none does.                               *)
Find(p, k) == SelectInSeq(env[p], LAMBDA row : Matches(row, k))

(* sys_getenv *)
Getenv(p, k) ==
    IF Find(p, k) = 0 THEN Absent
    ELSE SubSeq(env[p][Find(p, k)], Len(k) + 2, Len(env[p][Find(p, k)]))

(* sys_setenv: in place if the key is there, else behind the last row. The   *)
(* rows afterwards, the same ones when the call is refused.                  *)
SysSetenv(p, k, v) ==
    IF Len(k) + 1 + Len(v) + 1 > EnvSlot THEN env[p]
    ELSE IF Find(p, k) # 0 THEN [env[p] EXCEPT ![Find(p, k)] = Row(k, v)]
    ELSE IF Len(env[p]) >= EnvMax THEN env[p]
    ELSE Append(env[p], Row(k, v))

(* What the call promises: a string that fits is kept while there is room.   *)
Promised(p, k, v) ==
    /\ Len(Row(k, v)) < EnvSlot
    /\ k \in DOMAIN meant[p] \/ Cardinality(DOMAIN meant[p]) < EnvMax

(* setenv of noxlib: without overwrite a variable keeps its value.           *)
Setenv(p, k, v, overwrite) ==
    /\ overwrite \/ Getenv(p, k) = Absent
    /\ env' = [env EXCEPT ![p] = SysSetenv(p, k, v)]
    /\ meant' = IF Promised(p, k, v) THEN [meant EXCEPT ![p] = (k :> v) @@ @] ELSE meant

(* Fault: the rows behind the removed one stay where they are.               *)
Unsetenv_NoShift(p, k) ==
    /\ Find(p, k) # 0
    /\ env' = [env EXCEPT ![p] = Front(@)]
    /\ meant' = [meant EXCEPT ![p] = Restrict(@, DOMAIN @ \ {k})]

(* sys_unsetenv *)
Unsetenv(p, k) ==
    /\ Find(p, k) # 0
    /\ env' = [env EXCEPT ![p] = RemoveAt(@, Find(p, k))]
    /\ meant' = [meant EXCEPT ![p] = Restrict(@, DOMAIN @ \ {k})]

(* The loop of sys_fork over the table.                                      *)
Fork(p, q) ==
    /\ p # q
    /\ env' = [env EXCEPT ![q] = env[p]]
    /\ meant' = [meant EXCEPT ![q] = meant[p]]

Next ==
    \/ \E p \in Procs, k \in Keys, v \in Values, overwrite \in BOOLEAN :
          Setenv(p, k, v, overwrite)
    \/ \E p \in Procs, k \in Keys : Unsetenv(p, k)
    \/ \E p, q \in Procs : Fork(p, q)

Spec == Init /\ [][Next]_vars

-----------------------------------------------------------------------------
(* getenv answers with the value last set for that key in that process or    *)
(* inherited by it, also when one key begins with another, a value holds an  *)
(* equals sign or rows have moved up; and setenv is refused only when the    *)
(* string or the table is too small for it.                                  *)
GetenvRight ==
    \A p \in Procs, k \in Keys :
        Getenv(p, k) = IF k \in DOMAIN meant[p] THEN meant[p][k] ELSE Absent

(* getenv_at lists each variable once: no key has a second row that unset    *)
(* would bring back.                                                         *)
ListedOnce == \A p \in Procs : Len(env[p]) = Cardinality(DOMAIN meant[p])

(* The rows of a process are the map it built with setenv and unsetenv.      *)
EnvironmentIsMap == GetenvRight /\ ListedOnce
=============================================================================
