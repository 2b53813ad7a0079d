-------------------------------- MODULE Expr --------------------------------
(***************************************************************************)
(* Expressions of the shell (parse_atomic_term, eval_expr, resolve_term in *)
(* compiler/parser.rs): evaluated while they are parsed, left to right, a  *)
(* `peek` reading memory on the way.  A line is the sequence of tokens the *)
(* one-token cursor Cur hands out; a position in it is the cursor.         *)
(***************************************************************************)
EXTENDS Integers, Sequences, FiniteSets, TLC, SequencesExt

CONSTANTS Tokens,           \* the tokens a line is made of
          LitVal,           \* value of each literal token
          Symbols,          \* value of each bound name
          Cells,            \* what memory holds, for every word
          WordMod,          \* 2^32 in the code
          MaxTokens         \* bound: tokens per line

Operators == {"+", "-", "*", "/", "%"}

At(ts, i) == IF i <= Len(ts) THEN ts[i] ELSE "eof"

(* An outcome: a value or an error, the cursor, the addresses peeked. *)
Value(v, i, reads) == [err |-> "none", v |-> v, i |-> i, reads |-> reads]
Fail(e, i) == [err |-> e, v |-> 0, i |-> i, reads |-> <<>>]

DivByZero == -1
Apply(op, a, b) ==
    CASE op = "+" -> (a + b) % WordMod
      [] op = "-" -> (a - b) % WordMod
      [] op = "*" -> (a * b) % WordMod
      [] op \in {"/", "%"} /\ b = 0 -> DivByZero
      [] op = "/" /\ b # 0 -> a \div b
      [] op = "%" /\ b # 0 -> a % b

RECURSIVE eval_expr(_, _), parse_atomic_term(_, _), eval_rest(_, _)

(* Mutant: `peek` takes a whole expression for its address. *)
resolve_term_Greedy(ts, i) ==
    CASE At(ts, i) \in DOMAIN LitVal -> Value(LitVal[ts[i]], i + 1, <<>>)
      [] At(ts, i) \in DOMAIN Symbols -> Value(Symbols[ts[i]], i + 1, <<>>)
      [] At(ts, i) = "peek" ->
           LET a == eval_expr(ts, i + 1) IN
           IF a.err # "none" THEN a ELSE Value(Cells[a.v], a.i, Append(a.reads, a.v))
      [] At(ts, i) = "name" -> Fail("UnknownSymbol", i)
      [] OTHER -> Fail("UnexpectedToken", i)

resolve_term(ts, i) ==
    CASE At(ts, i) \in DOMAIN LitVal -> Value(LitVal[ts[i]], i + 1, <<>>)
      [] At(ts, i) \in DOMAIN Symbols -> Value(Symbols[ts[i]], i + 1, <<>>)
      [] At(ts, i) = "peek" ->
           LET a == parse_atomic_term(ts, i + 1) IN
           IF a.err # "none" THEN a ELSE Value(Cells[a.v], a.i, Append(a.reads, a.v))
      [] At(ts, i) = "name" -> Fail("UnknownSymbol", i)
      [] OTHER -> Fail("UnexpectedToken", i)

parse_atomic_term(ts, i) ==
    IF At(ts, i) # "(" THEN resolve_term(ts, i)
    ELSE LET e == eval_expr(ts, i + 1) IN
         CASE e.err # "none" -> e
           [] e.err = "none" /\ At(ts, e.i) = ")" -> [e EXCEPT !.i = @ + 1]
           [] OTHER -> Fail("UnexpectedToken", e.i)

(* The loop over operators, acc being the outcome so far. *)
eval_rest(ts, acc) ==
    IF acc.err # "none" \/ At(ts, acc.i) \notin Operators THEN acc
    ELSE LET rhs == parse_atomic_term(ts, acc.i + 1)
             v == Apply(At(ts, acc.i), acc.v, rhs.v)
         IN  CASE rhs.err # "none" -> rhs
               [] rhs.err = "none" /\ v = DivByZero -> Fail("DivByZero", rhs.i)
               [] OTHER -> eval_rest(ts, Value(v, rhs.i, acc.reads \o rhs.reads))

eval_expr(ts, i) == eval_rest(ts, parse_atomic_term(ts, i))

-----------------------------------------------------------------------------
VARIABLE tokens

exprVars == <<tokens>>

ExprInit == tokens = <<>>

(* A line is typed token by token.  It is not continued once the evaluation  *)
(* of what is there stops for another reason than its end: the code reads no *)
(* further, and no continuation changes the outcome.                         *)
ReachesEnd(r) == r.i > Len(tokens) /\ r.err # "DivByZero"
TypeToken(t) ==
    /\ Len(tokens) < MaxTokens
    /\ ReachesEnd(eval_expr(tokens, 1))
    /\ tokens' = Append(tokens, t)

ExprNext == \E t \in Tokens : TypeToken(t)

-----------------------------------------------------------------------------
(* Reference: every way to derive a line from the grammar                    *)
(*     expr ::= term | expr operator term                                    *)
(*     term ::= literal | name | "(" expr ")" | "peek" term                  *)
(* with the value it denotes and the addresses read, in order.               *)
RECURSIVE Derivations(_), TermDerivations(_)
TermDerivations(ts) ==
    LET inner == SubSeq(ts, 2, Len(ts)) IN
    CASE Len(ts) = 1 ->
           {<<v, <<>> >> : v \in {LitVal[x] : x \in {ts[1]} \cap DOMAIN LitVal}
                              \cup {Symbols[x] : x \in {ts[1]} \cap DOMAIN Symbols}}
      [] Len(ts) > 1 /\ ts[1] = "peek" ->
           {IF d[1] = DivByZero THEN d ELSE <<Cells[d[1]], Append(d[2], d[1])>> : d \in TermDerivations(inner)}
      [] Len(ts) > 1 /\ ts[1] = "(" /\ Last(ts) = ")" -> Derivations(Front(inner))
      [] OTHER -> {}

Derivations(ts) ==
    TermDerivations(ts) \cup
    UNION {{<<IF DivByZero \in {l[1], r[1]} THEN DivByZero ELSE Apply(ts[k], l[1], r[1]), l[2] \o r[2]>> :
               l \in Derivations(SubSeq(ts, 1, k - 1)), r \in TermDerivations(SubSeq(ts, k + 1, Len(ts)))} :
           k \in {j \in DOMAIN ts : ts[j] \in Operators}}

(* A line is accepted with a value exactly when the grammar derives it, in   *)
(* one way and to that value: operators of equal rank, from the left, peek   *)
(* binding tighter than any; memory is read once for each peek, in the order *)
(* they stand in.  A line that divides by zero is refused for it.            *)
EvaluatedAsDerived ==
    LET r == eval_expr(tokens, 1)
        all == Derivations(tokens)
        accepted == r.err = "none" /\ r.i = Len(tokens) + 1
    IN  /\ accepted => all = {<<r.v, r.reads>>}
        /\ ~accepted => \A d \in all : d[1] = DivByZero /\ r.err = "DivByZero"
=============================================================================
