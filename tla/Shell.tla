------------------------------- MODULE Shell -------------------------------
(* Control flow in nsh: find_end, find_done, exec_block, collect_block and   *)
(* the two ways main feeds them, a script file and typed compound commands.  *)
(*                                                                           *)
(* A line is its first word w, its argument (a command's name, a condition,  *)
(* a number of values) and its length. A condition or command is only a name *)
(* here; each evaluation of a condition takes the next of the given outcomes *)
(* and fails when there are no more. A program is a syntax tree, which the   *)
(* user writes down line by line.                                            *)
EXTENDS Integers, Sequences, FiniteSets, FiniteSetsExt, SequencesExt

CONSTANTS Programs,     \* the programs users write: sequences of statements
          Outcomes,     \* sequences of outcomes of conditions
          Interactive,  \* whether they are typed at the prompt
          Inline,       \* whether "; then" and "; do" end the line before
          MaxBlocks,    \* compound commands typed into one shell
          SbMax         \* SB_MAX

VARIABLES sb,       \* the line store
          blocks,   \* compound commands run so far
          last      \* history: the last program, what ran, how many lines it took
vars == <<sb, blocks, last>>

-----------------------------------------------------------------------------
(* Programs, how they are written down and what they mean.                   *)

Cmd(c) == [k |-> "cmd", name |-> c]
If(arms, else) == [k |-> "if", arms |-> arms, else |-> else]   \* arms: if and elifs
While(c, body) == [k |-> "while", cond |-> c, body |-> body]
For(n, body) == [k |-> "for", n |-> n, body |-> body]

LineLength == [if |-> 5, elif |-> 7, while |-> 8, for |-> 10, then |-> 4,
               else |-> 4, fi |-> 2, do |-> 2, done |-> 4, cmd |-> 3]
Line(w, arg) == [w |-> w, arg |-> arg, len |-> LineLength[w]]
Opened(line, word) == IF Inline THEN <<line>> ELSE <<line, Line(word, "")>>

RECURSIVE Written(_)
WrittenStatement(s) ==
    CASE s.k = "cmd" -> <<Line("cmd", s.name)>>
      [] s.k = "if" ->
           FlattenSeq([i \in 1..Len(s.arms) |->
               Opened(Line(IF i = 1 THEN "if" ELSE "elif", s.arms[i].cond), "then")
                 \o Written(s.arms[i].body)])
             \o (IF s.else = <<>> THEN <<>> ELSE <<Line("else", "")>> \o Written(s.else))
             \o <<Line("fi", "")>>
      [] s.k = "while" ->
           Opened(Line("while", s.cond), "do") \o Written(s.body) \o <<Line("done", "")>>
      [] s.k = "for" ->
           Opened(Line("for", s.n), "do") \o Written(s.body) \o <<Line("done", "")>>
Written(prog) == FlattenSeq([i \in 1..Len(prog) |-> WrittenStatement(prog[i])])

(* A run so far: what was executed and the outcomes still to come. exec1 of  *)
(* a condition or a command.                                                 *)
Exec1(run, name) == [run EXCEPT !.trace = Append(@, name)]
Tested(run, cond) ==
    [Exec1(run, cond) EXCEPT !.bits = IF @ = <<>> THEN <<>> ELSE Tail(@)]
Succeeds(run) == run.bits # <<>> /\ Head(run.bits)

(* What a program means: a reference that rewrites the program as it runs.   *)
RECURSIVE Meaning(_, _)
Meaning(prog, run) ==
    IF prog = <<>> THEN run
    ELSE LET s == Head(prog)
             rest == Tail(prog)
         IN CASE s.k = "cmd" -> Meaning(rest, Exec1(run, s.name))
              [] s.k = "if" ->
                   IF s.arms = <<>> THEN Meaning(s.else \o rest, run)
                   ELSE Meaning((IF Succeeds(run) THEN Head(s.arms).body
                                 ELSE <<[s EXCEPT !.arms = Tail(@)]>>) \o rest,
                                Tested(run, Head(s.arms).cond))
              [] s.k = "while" ->
                   Meaning(IF Succeeds(run) THEN s.body \o prog ELSE rest, Tested(run, s.cond))
              [] s.k = "for" ->
                   Meaning(IF s.n = 0 THEN rest
                           ELSE s.body \o <<[s EXCEPT !.n = @ - 1]>> \o rest, run)

-----------------------------------------------------------------------------
(* The interpreter. Lines are store[from] .. store[to - 1].                  *)

(* The first line with one of the words, or `to`.                            *)
FirstOf(store, from, to, words) ==
    Min({i \in from..(to - 1) : store[i].w \in words} \cup {to})

Count(store, from, to, words) == Cardinality({i \in from..(to - 1) : store[i].w \in words})

(* find_end and find_done: the closing word at depth 0, or `to`.             *)
FindEnd(store, from, to, opens, close) ==
    Min({i \in from..(to - 1) :
            /\ store[i].w = close
            /\ Count(store, from, i, opens) = Count(store, from, i, {close})} \cup {to})

(* The scan for else or elif between then and fi; 0 if there is none.        *)
ElseOf(store, then_i, fi_i) ==
    LET found == {j \in (then_i + 1)..(fi_i - 1) :
                     /\ store[j].w \in {"else", "elif"}
                     /\ Count(store, then_i + 1, j, {"if"}) = Count(store, then_i + 1, j, {"fi"})}
    IN IF found = {} THEN 0 ELSE Min(found)

RECURSIVE ExecBlock(_, _, _, _)

(* Fault: an elif is taken for an else.                                      *)
ExecIf_ElifAsElse(store, i, to, run) ==
    LET then_i == FirstOf(store, i + 1, to, {"then"})
        fi_i == FindEnd(store, i + 1, to, {"if"}, "fi")
        else_i == ElseOf(store, then_i, fi_i)
        tested == Tested(run, store[i].arg)
    IN IF Succeeds(run) THEN ExecBlock(store, then_i + 1, IF else_i # 0 THEN else_i ELSE fi_i, tested)
       ELSE IF else_i = 0 THEN tested
       ELSE ExecBlock(store, else_i + 1, fi_i, tested)

(* The if branch. The line is searched for an own line `then`, to the end of *)
(* the block if need be; an elif runs as an if put in its place.             *)
ExecIf(store, i, to, run) ==
    LET then_i == FirstOf(store, i + 1, to, {"then"})
        fi_i == FindEnd(store, i + 1, to, {"if"}, "fi")
        else_i == ElseOf(store, then_i, fi_i)
        tested == Tested(run, store[i].arg)
    IN IF Succeeds(run) THEN ExecBlock(store, then_i + 1, IF else_i # 0 THEN else_i ELSE fi_i, tested)
       ELSE IF else_i = 0 THEN tested
       ELSE IF store[else_i].w = "elif"
       THEN ExecBlock([store EXCEPT ![else_i].w = "if"], else_i, fi_i + 1, tested)
       ELSE ExecBlock(store, else_i + 1, fi_i, tested)

(* The while branch, one round after the other.                              *)
RECURSIVE ExecWhile(_, _, _, _)
ExecWhile(store, i, to, run) ==
    LET do_i == FirstOf(store, i + 1, to, {"do"})
        done_i == FindEnd(store, i + 1, to, {"while", "for"}, "done")
        tested == Tested(run, store[i].arg)
    IN IF Succeeds(run) THEN ExecWhile(store, i, to, ExecBlock(store, do_i + 1, done_i, tested))
       ELSE tested

(* The for branch.                                                           *)
ExecFor(store, i, to, run) ==
    LET do_i == FirstOf(store, i + 1, to, {"do"})
        done_i == FindEnd(store, i + 1, to, {"while", "for"}, "done")
    IN FoldLeft(LAMBDA r, v : ExecBlock(store, do_i + 1, done_i, r), run,
                [v \in 1..store[i].arg |-> v])

ExecBlock(store, from, to, run) ==
    IF from >= to THEN run
    ELSE CASE store[from].w = "if" ->
                ExecBlock(store, FindEnd(store, from + 1, to, {"if"}, "fi") + 1, to,
                          ExecIf(store, from, to, run))
           [] store[from].w = "while" ->
                ExecBlock(store, FindEnd(store, from + 1, to, {"while", "for"}, "done") + 1, to,
                          ExecWhile(store, from, to, run))
           [] store[from].w = "for" ->
                ExecBlock(store, FindEnd(store, from + 1, to, {"while", "for"}, "done") + 1, to,
                          ExecFor(store, from, to, run))
           [] store[from].w = "cmd" ->
                ExecBlock(store, from + 1, to, Exec1(run, store[from].arg))
           [] OTHER -> ExecBlock(store, from + 1, to, run)

-----------------------------------------------------------------------------
(* How lines get into the store.                                             *)

(* collect_block: the number of lines it takes. Every opening word counts,   *)
(* only the closing word of the first line closes.                           *)
Collected(lines) ==
    LET close == IF lines[1].w = "if" THEN "fi" ELSE "done"
    IN Min({FindEnd(lines, 2, Len(lines) + 1, {"if", "while", "for"}, close), Len(lines)})

(* A line is copied into its row without its terminator: what is left of a   *)
(* longer line stays behind it, and together they read as some command.      *)
Copied(row, line) ==
    IF row.len <= line.len THEN line ELSE [w |-> "cmd", arg |-> "garbled", len |-> row.len]

Stored(lines) ==
    [i \in 1..Max({Len(sb), Len(lines)}) |->
        IF i > Len(lines) THEN sb[i]
        ELSE IF i > Len(sb) THEN lines[i] ELSE Copied(sb[i], lines[i])]

NoRun(bits) == [trace |-> <<>>, bits |-> bits]
Init ==
    /\ sb = <<>> /\ blocks = 0
    /\ last = [prog |-> <<>>, bits |-> <<>>, trace |-> <<>>, taken |-> 0]

(* main with a script: the lines that fit, then exec_block over all of them. *)
Script(prog, bits) ==
    LET lines == SubSeq(Written(prog), 1, Min({SbMax, Len(Written(prog))}))
    IN /\ ~Interactive /\ blocks = 0
       /\ sb' = lines /\ blocks' = 1
       /\ last' = [prog |-> prog, bits |-> bits, taken |-> Len(lines),
                   trace |-> ExecBlock(lines, 1, Len(lines) + 1, NoRun(bits)).trace]

(* A compound command at the prompt and a command after it, which is taken   *)
(* for part of the block if the block does not end where it should.          *)
Compound(prog, bits) ==
    LET lines == Written(prog) \o <<Line("cmd", "next")>>
        n == Collected(lines)
        store == Stored(SubSeq(lines, 1, n))
    IN /\ Interactive /\ blocks < MaxBlocks
       /\ Len(prog) = 1 /\ prog[1].k # "cmd"
       /\ sb' = store /\ blocks' = blocks + 1
       /\ last' = [prog |-> prog, bits |-> bits, taken |-> n,
                   trace |-> ExecBlock(store, 1, n + 1, NoRun(bits)).trace]

Next == \E prog \in Programs, bits \in Outcomes : Script(prog, bits) \/ Compound(prog, bits)

Spec == Init /\ [][Next]_vars

-----------------------------------------------------------------------------
(* exec_block runs what the program means, statement by statement: the right *)
(* branch of every if, elif and else, every round of every loop, conditions  *)
(* as often as they should be tested, however the blocks are nested.         *)
(* collect_block stops at the end of the compound command: it neither runs   *)
(* half of it nor waits for more.                                            *)
RunsAsWritten ==
    /\ last.trace = Meaning(last.prog, NoRun(last.bits)).trace
    /\ last.taken = Len(Written(last.prog))
=============================================================================
