---------------------------- MODULE MachineWord ----------------------------
(***************************************************************************)
(* 32-bit machine words as the sets of their one bits, bit 0 the lowest:   *)
(* or is union, and is intersection, a shift moves every bit.              *)
(***************************************************************************)
EXTENDS Integers

AllBits == 0 .. 31

Pow2(b) == 2^b
Bits(n) == {b \in 0 .. 30 : (n \div Pow2(b)) % 2 = 1}      \* of a literal below 2^31

(* The number a field of five bits at most holds. *)
SmallBits == [n \in 0 .. 31 |-> Bits(n)]
Num(x) == CHOOSE n \in 0 .. 31 : SmallBits[n] = x

Shl(x, k) == {b + k : b \in x} \cap AllBits
Shr(x, k) == {b - k : b \in x \ (0 .. k - 1)}
Mask(x, w) == x \cap (0 .. w - 1)
Field(x, low, w) == Mask(Shr(x, low), w)
SignExtend(x, w) == IF w - 1 \in x THEN x \cup (w .. 31) ELSE x

(* x + y modulo 2^32.  A carry comes into bit b from a bit c where both are   *)
(* one, when every bit in between passes it on.                               *)
CarryInto(x, y, b) ==
    \E c \in 0 .. b - 1 : c \in x \cap y /\ (c + 1 .. b - 1) \subseteq x \cup y
Plus(x, y) == {b \in AllBits : ((b \in x) # (b \in y)) # CarryInto(x, y, b)}

Minus(x, y) == Plus(Plus(x, AllBits \ y), {0})
=============================================================================
