------------------------------- MODULE Lexer -------------------------------
(***************************************************************************)
(* The lexer (compiler/lexer.rs) over a line of bytes: next_token from a   *)
(* cursor, and the tokens of a whole line.  Bytes are one-letter strings;  *)
(* a set of them stands for each class the code tells apart.               *)
(***************************************************************************)
EXTENDS Integers, Sequences, FiniteSets, TLC, SequencesExt

CONSTANTS Bytes,           \* the bytes a line is made of
          MaxLine,         \* bound: bytes per line
          LiteralBound     \* 2^32 in the code

DigitVal == "0" :> 0 @@ "1" :> 1 @@ "9" :> 9
HexVal == DigitVal @@ "f" :> 15
Letters == {"f", "n", "x"}
Keywords == {<<"f", "n">>}
Blank == {" ", "\n"}
Punct == {"(", ")", "{", "}", ";", ","}
OperatorBytes == {"+", "-", "*", "/", "%", "=", "<", ">", "!", "&", "|", "^", "~", ":", "?"}

Digits(base) == DOMAIN (IF base = 16 THEN HexVal ELSE DigitVal)

(* The first position from i on that holds none of the bytes of S. *)
RunEnd(s, i, S) == Min({j \in i .. Len(s) + 1 : j > Len(s) \/ s[j] \notin S})

Lexed(kind, value, start, cursor) ==
    [kind |-> kind, value |-> value, start |-> start, cursor |-> cursor]

parse_identifier(s, start) ==
    LET end == RunEnd(s, start, Letters \cup Digits(10) \cup {"_"})
        ident == SubSeq(s, start, end - 1)
    IN  Lexed(IF ident \in Keywords THEN "keyword" ELSE "identifier", ident, start, end)

(* Mutant: the rest of a literal that overflows is left to be lexed. *)
RECURSIVE Scan_LeavesRest(_, _, _, _, _)
Scan_LeavesRest(s, start, j, v, base) ==
    CASE j > Len(s) \/ s[j] \notin Digits(base) \cup {"_"} -> Lexed("literal", v, start, j)
      [] j <= Len(s) /\ s[j] = "_" -> Scan_LeavesRest(s, start, j + 1, v, base)
      [] j <= Len(s) /\ s[j] \in Digits(base) ->
           LET next == v * base + HexVal[s[j]] IN
           IF next >= LiteralBound
             THEN Lexed("overflow", 0, start, j + 1)
             ELSE Scan_LeavesRest(s, start, j + 1, next, base)

(* The digits of a literal from j on, v read so far. *)
RECURSIVE Scan(_, _, _, _, _)
Scan(s, start, j, v, base) ==
    CASE j > Len(s) \/ s[j] \notin Digits(base) \cup {"_"} -> Lexed("literal", v, start, j)
      [] j <= Len(s) /\ s[j] = "_" -> Scan(s, start, j + 1, v, base)
      [] j <= Len(s) /\ s[j] \in Digits(base) ->
           LET next == v * base + HexVal[s[j]] IN
           IF next >= LiteralBound
             THEN Lexed("overflow", 0, start, RunEnd(s, j, Digits(base) \cup {"_"}))
             ELSE Scan(s, start, j + 1, next, base)

IsHex(s, start) == s[start] = "0" /\ start < Len(s) /\ s[start + 1] = "x"

parse_literal(s, start) ==
    IF IsHex(s, start)
      THEN LET hex == Scan(s, start, start + 2, 0, 16) IN
           IF hex.cursor = start + 2 THEN [hex EXCEPT !.kind = "malformed"] ELSE hex
      ELSE Scan(s, start, start, 0, 10)

next_token(s, cursor) ==
    LET i == RunEnd(s, cursor, Blank) IN
    CASE i > Len(s) -> Lexed("eof", 0, i, i)
      [] i <= Len(s) /\ s[i] \in Letters \cup {"_"} -> parse_identifier(s, i)
      [] i <= Len(s) /\ s[i] \in Digits(10) -> parse_literal(s, i)
      [] i <= Len(s) /\ s[i] \in Punct \cup OperatorBytes -> Lexed("symbol", s[i], i, i + 1)
      [] OTHER -> Lexed("unexpected", 0, i, i + 1)

(* The tokens of a line up to its end. *)
RECURSIVE TokensFrom(_, _)
TokensFrom(s, cursor) ==
    LET t == next_token(s, cursor) IN
    IF t.kind = "eof" THEN <<>> ELSE <<t>> \o TokensFrom(s, t.cursor)

-----------------------------------------------------------------------------
VARIABLE text

lexerVars == <<text>>

LexerInit == text = <<>>

TypeByte(b) == Len(text) < MaxLine /\ text' = Append(text, b)

LexerNext == \E b \in Bytes : TypeByte(b)

-----------------------------------------------------------------------------
(* Reference: what the digits of a literal denote. *)
Denotes(digits, base) ==
    LET n == Len(digits) IN
    FoldLeft(+, 0, [i \in 1 .. n |-> HexVal[digits[i]] * base^(n - i)])

(* The tokens of a line cover it: every byte that is not blank is in exactly *)
(* one of them, in order.  No run of digits or letters is cut in two, after  *)
(* an error neither ("so errors don't cascade").  A literal has the value    *)
(* its digits denote, and is refused exactly when that value does not fit.   *)
LexedExactly ==
    LET toks == TokensFrom(text, 1)
        in(t, p) == t.start <= p /\ p < t.cursor
        base(t) == IF IsHex(text, t.start) THEN 16 ELSE 10
        digits(t) == SelectSeq(SubSeq(text, t.start + (IF IsHex(text, t.start) THEN 2 ELSE 0), t.cursor - 1),
                               LAMBDA b : b # "_")
    IN  /\ \A p \in DOMAIN text :
               Cardinality({i \in DOMAIN toks : in(toks[i], p)}) = (IF text[p] \in Blank THEN 0 ELSE 1)
        /\ \A i \in DOMAIN toks : \A j \in 1 .. i - 1 : toks[j].cursor <= toks[i].start
        /\ \A i \in DOMAIN toks :
               LET t == toks[i]
                   next == IF t.cursor <= Len(text) THEN text[t.cursor] ELSE " "
               IN  /\ t.kind \in {"identifier", "keyword"} => next \notin Letters \cup Digits(10) \cup {"_"}
                   /\ t.kind \in {"literal", "overflow"} =>
                        /\ next \notin Digits(base(t)) \cup {"_"}
                        /\ IF t.kind = "literal" THEN Denotes(digits(t), base(t)) = t.value
                                                 ELSE Denotes(digits(t), base(t)) >= LiteralBound
                   /\ t.kind = "literal" => t.value < LiteralBound
=============================================================================
