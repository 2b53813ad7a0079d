------------------------------- MODULE Stream -------------------------------
(***************************************************************************)
(* The compiled stream as the parser builds it (compiler/parser.rs): a     *)
(* sequence of statements, of which every one takes a number of words.     *)
(***************************************************************************)
EXTENDS Integers, Sequences, Sums

CONSTANT Word              \* the machine words that occur

Stmt == [op : {"poke", "peek"}, addr : Word, val : Word]
Poke(a, v) == [op |-> "poke", addr |-> a, val |-> v]
Peek(a) == [op |-> "peek", addr |-> a, val |-> a]

(* Words a statement takes in the stream. *)
StmtWords(s) == IF s.op = "poke" THEN 5 ELSE 3

(* The statements after position at, count times over. *)
Unrolled(s, at, count) ==
    LET size == Len(s) - at
    IN  [i \in 1 .. at + count * size |->
            IF i <= Len(s) THEN s[i] ELSE s[at + 1 + ((i - at - 1) % size)]]

Addresses(body) == {body[i].addr : i \in DOMAIN body}
WordCount(body) == Total([i \in DOMAIN body |-> StmtWords(body[i])])
=============================================================================
