---------------------------- MODULE StreamProofs ----------------------------
(***************************************************************************)
(* Sums, concatenations and compiled streams: the number of words of a     *)
(* stream, what unrolling a loop does to it, and the induction that these  *)
(* and the other proofs use.                                               *)
(*                                                                         *)
(* A set of numbers with no least element is empty: that is the induction  *)
(* (LeastElement, InductionUpTo), applied to the set of indices for which  *)
(* a formula holds.                                                        *)
(***************************************************************************)
EXTENDS Stream, SequenceTheorems, WellFoundedInduction, TLAPS

(* The steps that name no prover are for the SMT solver.                     *)
USE SMTT(30)

-----------------------------------------------------------------------------
(* Induction: a nonempty set of numbers has a least element.                 *)
LEMMA LeastElement ==
    ASSUME NEW T \in SUBSET Nat, T # {}
    PROVE  \E n \in T : \A m \in T : n <= m
<1>1. PICK n \in T : \A m \in T : ~(<<m, n>> \in OpToRel(<, Nat))
  BY NatLessThanWellFounded, WFMin, ZenonT(30)
<1>2. \A m \in T : ~(m < n)
  BY <1>1, ZenonT(30) DEF OpToRel
<1> QED BY <1>2

(* In the form that proofs use: what holds of 0, and of n + 1 when of n.     *)
LEMMA InductionUpTo ==
    ASSUME NEW N \in Nat, NEW T, 0 \in T,
           \A n \in 0 .. N - 1 : n \in T => n + 1 \in T
    PROVE  \A n \in 0 .. N : n \in T
<1> SUFFICES ASSUME (0 .. N) \ T # {} PROVE FALSE
  BY ZenonT(30)
<1>0. (0 .. N) \ T \in SUBSET Nat
  OBVIOUS
<1>1. PICK n \in (0 .. N) \ T : \A m \in (0 .. N) \ T : n <= m
  BY <1>0, LeastElement, ZenonT(30)
<1>2. n # 0 /\ n - 1 \in 0 .. N - 1
  BY <1>1
<1>3. n - 1 \in T
  BY <1>1, <1>2
<1> QED BY <1>1, <1>2, <1>3

(* What folding a sequence means: a function on the sets of its indices.     *)
LEMMA TotalFold ==
    ASSUME NEW f
    PROVE  Total(f) = (CHOOSE iter : iter = [s \in SUBSET DOMAIN f |->
                          IF s = {} THEN 0 ELSE iter[s \ {Max(s)}] + f[Max(s)]])[DOMAIN f]
BY ZenonT(30) DEF Total, MapThenFoldSet

(* The largest of the first n + 1 numbers, where it is one of them.          *)
LEMMA MaxIsLast ==
    ASSUME NEW n \in Nat, NEW s \in SUBSET (1 .. n + 1), n + 1 \in s
    PROVE  Max(s) = n + 1
<1>1. \A y \in s : n + 1 >= y
  OBVIOUS
<1>2. \A x \in s : (\A y \in s : x >= y) => x = n + 1
  OBVIOUS
<1> QED BY <1>1, <1>2, ZenonT(30) DEF Max

(* The sum of a sequence is the last of its prefix sums.                     *)
LEMMA TotalUnfolds ==
    ASSUME NEW N \in Nat, NEW f, DOMAIN f = 1 .. N
    PROVE  \E p : /\ p[0] = 0
                  /\ \A n \in 1 .. N : p[n] = p[n - 1] + f[n]
                  /\ Total(f) = p[N]
<1> DEFINE Rec(g, s) == g[s] = IF s = {} THEN 0 ELSE g[s \ {Max(s)}] + f[Max(s)]
           Good(n) == \E g : \A s \in SUBSET (1 .. n) : Rec(g, s)
           T == {n \in 0 .. N : Good(n)}
<1>1. Good(0)
  <2> DEFINE g == [s \in {{}} |-> 0]
  <2>1. \A s \in SUBSET (1 .. 0) : s = {}
    OBVIOUS
  <2>2. \A s \in SUBSET (1 .. 0) : Rec(g, s)
    BY <2>1, ZenonT(30)
  <2> HIDE DEF g, Rec
  <2> QED BY <2>2, ZenonT(30)
<1>2. ASSUME NEW n \in 0 .. N - 1, Good(n) PROVE Good(n + 1)
  <2>1. PICK g : \A s \in SUBSET (1 .. n) : Rec(g, s)
    BY <1>2, ZenonT(30)
  <2> DEFINE h == [s \in SUBSET (1 .. n + 1) |->
                      IF n + 1 \in s THEN g[s \ {n + 1}] + f[n + 1] ELSE g[s]]
  <2>2. ASSUME NEW s \in SUBSET (1 .. n + 1) PROVE Rec(h, s)
    <3>1. CASE n + 1 \in s
      <4>1. Max(s) = n + 1
        BY <3>1, MaxIsLast
      <4>2. s \ {n + 1} \in SUBSET (1 .. n) /\ s \ {n + 1} \in SUBSET (1 .. n + 1)
        OBVIOUS
      <4>3. h[s \ {n + 1}] = g[s \ {n + 1}]
        BY <4>2, ZenonT(30)
      <4>4. h[s] = g[s \ {n + 1}] + f[n + 1]
        BY <3>1, ZenonT(30)
      <4> HIDE DEF h
      <4> QED BY <3>1, <4>1, <4>3, <4>4, ZenonT(30)
    <3>2. CASE n + 1 \notin s
      <4>1. s \in SUBSET (1 .. n)
        BY <3>2
      <4>3. /\ n + 1 \notin s \ {Max(s)}
            /\ s \ {Max(s)} \in SUBSET (1 .. n + 1)
        BY <3>2, ZenonT(30)
      <4>2. h[s] = g[s] /\ h[s \ {Max(s)}] = g[s \ {Max(s)}]
        BY <3>2, <4>1, <4>3, ZenonT(30)
      <4> HIDE DEF h
      <4> QED BY <2>1, <4>1, <4>2, ZenonT(30)
    <3> QED BY <3>1, <3>2, ZenonT(30)
  <2> HIDE DEF h, Rec
  <2> QED BY <2>2, ZenonT(30)
<1>3. Good(N)
  <2> HIDE DEF Good
  <2>1. 0 \in T
    BY <1>1
  <2>2. \A n \in 0 .. N - 1 : n \in T => n + 1 \in T
    BY <1>2
  <2>3. \A n \in 0 .. N : n \in T
    BY <2>1, <2>2, InductionUpTo, ZenonT(30)
  <2> QED BY <2>3
<1>4. PICK g : \A s \in SUBSET (1 .. N) : Rec(g, s)
  BY <1>3, ZenonT(30)
<1> DEFINE k == [s \in SUBSET (1 .. N) |-> g[s]]
           Fix(h) == h = [s \in SUBSET DOMAIN f |-> IF s = {} THEN 0 ELSE h[s \ {Max(s)}] + f[Max(s)]]
<1>5. Fix(k)
  <2>1. \A s \in SUBSET (1 .. N) : s \ {Max(s)} \in SUBSET (1 .. N)
    BY ZenonT(30)
  <2>2. \A s \in SUBSET (1 .. N) : k[s] = IF s = {} THEN 0 ELSE k[s \ {Max(s)}] + f[Max(s)]
    BY <1>4, <2>1, ZenonT(30)
  <2> QED BY <2>2, ZenonT(30)
<1> DEFINE iter == CHOOSE h : Fix(h)
<1>6. Fix(iter)
  <2> HIDE DEF k, Fix
  <2> QED BY <1>5, ZenonT(30)
<1>7. Total(f) = iter[1 .. N]
  BY TotalFold, ZenonT(30)
<1> HIDE DEF iter
<1> DEFINE p == [n \in 0 .. N |-> iter[1 .. n]]
<1>8. p[0] = 0
  <2>1. 1 .. 0 = {} /\ {} \in SUBSET DOMAIN f /\ 0 \in 0 .. N
    OBVIOUS
  <2>2. iter[{}] = 0
    BY <1>6, <2>1, ZenonT(30)
  <2> QED BY <2>1, <2>2, ZenonT(30)
<1>9. ASSUME NEW n \in 1 .. N PROVE p[n] = p[n - 1] + f[n]
  <2>1. n - 1 \in Nat /\ (n - 1) + 1 = n /\ n \in 1 .. n /\ 1 .. n \in SUBSET DOMAIN f
    OBVIOUS
  <2>2. Max(1 .. n) = n
    BY <2>1, MaxIsLast, ZenonT(30)
  <2>3. (1 .. n) \ {n} = 1 .. n - 1
    OBVIOUS
  <2>4. iter[1 .. n] = iter[1 .. n - 1] + f[n]
    BY <1>6, <2>1, <2>2, <2>3, ZenonT(30)
  <2>5. n \in 0 .. N /\ n - 1 \in 0 .. N
    OBVIOUS
  <2> QED BY <2>4, <2>5, ZenonT(30)
<1>10. Total(f) = p[N]
  BY <1>7
<1> HIDE DEF p
<1> QED BY <1>8, <1>9, <1>10, ZenonT(30)

(* The prefix sums of a sequence of numbers are numbers, and determined by   *)
(* how each follows from the one before.                                     *)
LEMMA TotalIs ==
    ASSUME NEW f \in Seq(Nat), NEW q,
           q[0] = 0, \A n \in 1 .. Len(f) : q[n] = q[n - 1] + f[n]
    PROVE  /\ Total(f) = q[Len(f)]
           /\ \A n \in 0 .. Len(f) : q[n] \in Nat
<1> DEFINE N == Len(f)
<1>1. N \in Nat /\ DOMAIN f = 1 .. N /\ \A n \in 1 .. N : f[n] \in Nat
  BY LenProperties, ElementOfSeq, ZenonT(30)
<1>2. PICK p : p[0] = 0 /\ (\A n \in 1 .. N : p[n] = p[n - 1] + f[n]) /\ Total(f) = p[N]
  BY <1>1, TotalUnfolds, ZenonT(30)
<1> HIDE DEF N
<1> DEFINE T == {n \in 0 .. N : q[n] \in Nat /\ p[n] = q[n]}
<1>3. 0 \in T
  BY <1>1, <1>2
<1>4. \A n \in 0 .. N - 1 : n \in T => n + 1 \in T
  <2> SUFFICES ASSUME NEW n \in 0 .. N - 1, q[n] \in Nat, p[n] = q[n]
               PROVE  q[n + 1] \in Nat /\ p[n + 1] = q[n + 1]
    BY <1>1
  <2>1. n + 1 \in 1 .. N /\ (n + 1) - 1 = n
    BY <1>1
  <2>2. q[n + 1] = q[n] + f[n + 1] /\ p[n + 1] = p[n] + f[n + 1] /\ f[n + 1] \in Nat
    BY <1>1, <1>2, <2>1, ZenonT(30) DEF N
  <2> QED BY <2>2
<1>5. \A n \in 0 .. N : n \in T
  BY <1>1, <1>3, <1>4, InductionUpTo, ZenonT(30)
<1> QED BY <1>1, <1>2, <1>5 DEF N

(* The sums of the prefixes of a sequence.                                   *)
LEMMA TotalPrefixes ==
    ASSUME NEW f \in Seq(Nat)
    PROVE  \E p \in [0 .. Len(f) -> Nat] :
               /\ p[0] = 0
               /\ \A n \in 1 .. Len(f) : p[n] = p[n - 1] + f[n]
               /\ Total(f) = p[Len(f)]
<1>1. Len(f) \in Nat /\ DOMAIN f = 1 .. Len(f)
  BY LenProperties, ZenonT(30)
<1>2. PICK q : q[0] = 0 /\ (\A n \in 1 .. Len(f) : q[n] = q[n - 1] + f[n]) /\ Total(f) = q[Len(f)]
  BY <1>1, TotalUnfolds
<1>3. \A n \in 0 .. Len(f) : q[n] \in Nat
  BY <1>2, TotalIs, ZenonT(30)
<1> DEFINE p == [n \in 0 .. Len(f) |-> q[n]]
<1>4. p \in [0 .. Len(f) -> Nat]
  BY <1>3, ZenonT(30)
<1>5. p[0] = 0 /\ p[Len(f)] = q[Len(f)]
  BY <1>1, <1>2
<1>6. \A n \in 1 .. Len(f) : n \in 0 .. Len(f) /\ n - 1 \in 0 .. Len(f)
  BY <1>1
<1>7. \A n \in 1 .. Len(f) : p[n] = p[n - 1] + f[n]
  BY <1>2, <1>6, ZenonT(30)
<1> HIDE DEF p
<1> QED BY <1>2, <1>4, <1>5, <1>7, ZenonT(30)

(* The sum is a number, that of the empty sequence 0.                        *)
LEMMA TotalType == \A f \in Seq(Nat) : Total(f) \in Nat
<1> SUFFICES ASSUME NEW f \in Seq(Nat) PROVE Total(f) \in Nat
  BY ZenonT(30)
<1>1. Len(f) \in Nat
  BY LenProperties, ZenonT(30)
<1>2. PICK p \in [0 .. Len(f) -> Nat] : Total(f) = p[Len(f)]
  BY TotalPrefixes, ZenonT(30)
<1> QED BY <1>1, <1>2

(* Nothing adds up to 0.                                                     *)
LEMMA TotalEmpty == Total(<<>>) = 0
<1>1. <<>> \in Seq(Nat) /\ Len(<<>>) = 0
  OBVIOUS
<1>2. PICK p : p[0] = 0 /\ Total(<<>>) = p[Len(<<>>)]
  BY <1>1, TotalPrefixes, ZenonT(30)
<1> QED BY <1>1, <1>2, ZenonT(30)

(* Sums add up over concatenation.                                           *)
LEMMA TotalConcat ==
    ASSUME NEW f \in Seq(Nat), NEW g \in Seq(Nat)
    PROVE  Total(f \o g) = Total(f) + Total(g)
<1> DEFINE M == Len(f)
           N == Len(g)
<1>1. /\ M \in Nat /\ N \in Nat
      /\ f \o g \in Seq(Nat) /\ Len(f \o g) = M + N
      /\ \A i \in 1 .. M + N : (f \o g)[i] = IF i <= M THEN f[i] ELSE g[i - M]
  BY ConcatProperties, LenProperties, ZenonT(30)
<1>2. PICK p \in [0 .. M -> Nat] :
          p[0] = 0 /\ (\A n \in 1 .. M : p[n] = p[n - 1] + f[n]) /\ Total(f) = p[M]
  BY TotalPrefixes, ZenonT(30)
<1>3. PICK q \in [0 .. N -> Nat] :
          q[0] = 0 /\ (\A n \in 1 .. N : q[n] = q[n - 1] + g[n]) /\ Total(g) = q[N]
  BY TotalPrefixes, ZenonT(30)
<1> HIDE DEF M, N
<1> DEFINE h == [n \in 0 .. M + N |-> IF n <= M THEN p[n] ELSE p[M] + q[n - M]]
<1>4. h[0] = 0
  BY <1>1, <1>2
<1>5. h[M + N] = p[M] + q[N]
  <2>1. CASE N = 0
    BY <1>1, <1>2, <1>3, <2>1
  <2>2. CASE N # 0
    BY <1>1, <1>2, <1>3, <2>2
  <2> QED BY <2>1, <2>2, ZenonT(30)
<1>6. ASSUME NEW n \in 1 .. M + N PROVE h[n] = h[n - 1] + (f \o g)[n]
  <2>0. n \in 0 .. M + N /\ n - 1 \in 0 .. M + N
    BY <1>1
  <2>1. CASE n <= M
    <3>1. n \in 1 .. M /\ n - 1 <= M
      BY <1>1, <2>1
    <3>2. h[n] = p[n] /\ h[n - 1] = p[n - 1] /\ (f \o g)[n] = f[n]
      BY <1>1, <2>0, <2>1, <3>1, ZenonT(30)
    <3> QED BY <1>2, <3>1, <3>2, ZenonT(30)
  <2>2. CASE n = M + 1
    <3>1. 1 \in 1 .. N /\ ~(n <= M) /\ n - 1 <= M /\ n - M = 1 /\ n - 1 = M
      BY <1>1, <2>2
    <3>2. h[n] = p[M] + q[1] /\ h[n - 1] = p[M] /\ (f \o g)[n] = g[1]
      BY <1>1, <2>0, <3>1, ZenonT(30)
    <3>3. q[1] = q[0] + g[1]
      BY <1>3, <3>1
    <3>4. q[0] = 0 /\ q[1] \in Nat /\ p[M] \in Nat
      BY <1>1, <1>2, <1>3, <3>1
    <3>5. g[1] \in Nat
      BY <3>1, <1>1, ElementOfSeq, ZenonT(30) DEF N
    <3> QED BY <3>2, <3>3, <3>4, <3>5
  <2>3. CASE n > M + 1
    <3>1. n - M \in 1 .. N /\ ~(n <= M) /\ ~(n - 1 <= M) /\ (n - 1) - M = (n - M) - 1
      BY <1>1, <2>3
    <3>2. h[n] = p[M] + q[n - M] /\ h[n - 1] = p[M] + q[(n - M) - 1] /\ (f \o g)[n] = g[n - M]
      BY <1>1, <2>0, <3>1, ZenonT(30)
    <3>3. q[n - M] = q[(n - M) - 1] + g[n - M]
      BY <1>3, <3>1, ZenonT(30)
    <3>4. (n - M) - 1 \in 0 .. N /\ M \in 0 .. M
      BY <1>1, <3>1
    <3>6. q[(n - M) - 1] \in Nat /\ p[M] \in Nat
      BY <1>2, <1>3, <3>4, ZenonT(30)
    <3>5. g[n - M] \in Nat
      BY <3>1, <1>1, ElementOfSeq, ZenonT(30) DEF N
    <3> QED BY <3>2, <3>3, <3>5, <3>6
  <2>4. n <= M \/ n = M + 1 \/ n > M + 1
    BY <1>1
  <2> QED BY <2>1, <2>2, <2>3, <2>4, ZenonT(30)
<1> HIDE DEF h
<1>7. Total(f \o g) = h[M + N]
  BY <1>1, <1>4, <1>6, TotalIs, ZenonT(30)
<1> QED BY <1>2, <1>3, <1>5, <1>7, ZenonT(30)

(* A larger sequence of numbers has a larger sum.                            *)
LEMMA TotalMonotone ==
    ASSUME NEW f \in Seq(Nat), NEW g \in Seq(Nat), Len(f) = Len(g),
           \A i \in 1 .. Len(f) : f[i] <= g[i]
    PROVE  Total(f) <= Total(g)
<1> DEFINE N == Len(f)
<1>1. N \in Nat /\ (\A n \in 1 .. N : f[n] \in Nat) /\ (\A n \in 1 .. N : g[n] \in Nat)
  BY LenProperties, ElementOfSeq, ZenonT(30)
<1>2. PICK p \in [0 .. N -> Nat] :
          p[0] = 0 /\ (\A n \in 1 .. N : p[n] = p[n - 1] + f[n]) /\ Total(f) = p[N]
  BY TotalPrefixes, ZenonT(30)
<1>3. PICK q \in [0 .. N -> Nat] :
          q[0] = 0 /\ (\A n \in 1 .. N : q[n] = q[n - 1] + g[n]) /\ Total(g) = q[N]
  BY TotalPrefixes, ZenonT(30)
<1>4. \A n \in 1 .. N : f[n] <= g[n]
  BY ZenonT(30)
<1> HIDE DEF N
<1> DEFINE T == {n \in 0 .. N : p[n] <= q[n]}
<1>5. 0 \in T
  BY <1>1, <1>2, <1>3
<1>6. \A n \in 0 .. N - 1 : n \in T => n + 1 \in T
  <2> SUFFICES ASSUME NEW n \in 0 .. N - 1, p[n] <= q[n] PROVE p[n + 1] <= q[n + 1]
    BY <1>1
  <2>1. n \in 0 .. N /\ n + 1 \in 1 .. N /\ (n + 1) - 1 = n
    BY <1>1
  <2>2. p[n + 1] = p[n] + f[n + 1] /\ q[n + 1] = q[n] + g[n + 1]
    BY <1>2, <1>3, <2>1, ZenonT(30)
  <2>3. p[n] \in Nat /\ q[n] \in Nat
    BY <1>2, <1>3, <2>1, ZenonT(30)
  <2>4. f[n + 1] <= g[n + 1] /\ f[n + 1] \in Nat /\ g[n + 1] \in Nat
    BY <1>1, <1>4, <2>1, ZenonT(30)
  <2>5. PICK a \in Nat, b \in Nat, c \in Nat, d \in Nat :
            a = p[n] /\ b = q[n] /\ c = f[n + 1] /\ d = g[n + 1]
    BY <2>3, <2>4, ZenonT(30)
  <2>6. a <= b /\ c <= d
    BY <2>4, <2>5, ZenonT(30)
  <2>7. a + c <= b + d
    BY <2>6
  <2> QED BY <2>2, <2>5, <2>7, ZenonT(30)
<1>7. \A n \in 0 .. N : n \in T
  BY <1>1, <1>5, <1>6, InductionUpTo, ZenonT(30)
<1> QED BY <1>1, <1>2, <1>3, <1>7

-----------------------------------------------------------------------------
(* The code of a program.                                                    *)

(* Concatenation, kept opaque.                                               *)
Cat(a, b) == a \o b

(* What a concatenation holds, and where.                                    *)
LEMMA CatProperties ==
    ASSUME NEW S, NEW a \in Seq(S), NEW b \in Seq(S)
    PROVE  /\ Cat(a, b) \in Seq(S) /\ Len(a) \in Nat /\ Len(b) \in Nat
           /\ Len(Cat(a, b)) = Len(a) + Len(b)
           /\ \A j \in 1 .. Len(a) : Cat(a, b)[j] = a[j]
           /\ \A j \in 1 .. Len(b) : Cat(a, b)[Len(a) + j] = b[j]
<1>1. /\ a \o b \in Seq(S) /\ Len(a \o b) = Len(a) + Len(b)
      /\ Len(a) \in Nat /\ Len(b) \in Nat
      /\ \A i \in 1 .. Len(a) + Len(b) : (a \o b)[i] = IF i <= Len(a) THEN a[i] ELSE b[i - Len(a)]
  BY ConcatProperties, LenProperties, ZenonT(30)
<1>2. \A j \in 1 .. Len(a) : j \in 1 .. Len(a) + Len(b) /\ j <= Len(a)
  BY <1>1
<1>3. \A j \in 1 .. Len(b) : /\ Len(a) + j \in 1 .. Len(a) + Len(b)
                            /\ ~(Len(a) + j <= Len(a)) /\ (Len(a) + j) - Len(a) = j
  BY <1>1
<1> QED BY <1>1, <1>2, <1>3, ZenonT(30) DEF Cat

(* The parts of a sequence, one after the other: what Code does with the     *)
(* primitives of the statements.                                             *)
Joined(E) ==
    LET upto[n \in 0 .. Len(E)] == IF n = 0 THEN <<>> ELSE upto[n - 1] \o E[n]
    IN  upto[Len(E)]

(* Where each part of a joined sequence starts.                              *)
LEMMA FlattenPlaces ==
    ASSUME NEW S, NEW E \in Seq(Seq(S))
    PROVE  /\ Joined(E) \in Seq(S)
           /\ \E at \in [0 .. Len(E) -> Nat] :
                 /\ at[0] = 0 /\ at[Len(E)] = Len(Joined(E))
                 /\ \A i \in 1 .. Len(E) :
                       /\ at[i] = at[i - 1] + Len(E[i])
                       /\ at[i] <= at[Len(E)]
                       /\ \A k \in 1 .. Len(E[i]) : Joined(E)[at[i - 1] + k] = E[i][k]
<1> DEFINE N == Len(E)
<1>1. N \in Nat /\ DOMAIN E = 1 .. N /\ \A i \in 1 .. N : E[i] \in Seq(S)
  BY LenProperties, ElementOfSeq, ZenonT(30)
<1> DEFINE Rec(g, i) == g[i] = IF i = 0 THEN <<>> ELSE Cat(g[i - 1], E[i])
           Good(n) == \E g : \A i \in 0 .. n : Rec(g, i)
           T == {n \in 0 .. N : Good(n)}
<1>2. Good(0)
  <2> DEFINE g == [i \in 0 .. 0 |-> <<>>]
  <2>1. \A i \in 0 .. 0 : Rec(g, i)
    OBVIOUS
  <2> HIDE DEF g, Rec
  <2> QED BY <2>1, ZenonT(30)
<1>3. ASSUME NEW n \in 0 .. N - 1, Good(n) PROVE Good(n + 1)
  <2>1. PICK g : \A i \in 0 .. n : Rec(g, i)
    BY <1>3, ZenonT(30)
  <2> DEFINE h == [i \in 0 .. n + 1 |-> IF i = n + 1 THEN Cat(g[n], E[n + 1]) ELSE g[i]]
  <2>2. ASSUME NEW i \in 0 .. n + 1 PROVE Rec(h, i)
    <3>1. CASE i = n + 1
      BY <1>1, <3>1
    <3>2. CASE i # n + 1
      <4>1. i \in 0 .. n /\ (i # 0 => i - 1 \in 0 .. n)
        BY <1>1, <3>2
      <4>2. h[i] = g[i] /\ (i # 0 => h[i - 1] = g[i - 1])
        BY <1>1, <4>1
      <4> HIDE DEF h
      <4> QED BY <2>1, <4>1, <4>2, ZenonT(30)
    <3> QED BY <3>1, <3>2, ZenonT(30)
  <2> HIDE DEF h, Rec
  <2> QED BY <2>2, ZenonT(30)
<1>4. Good(N)
  <2> HIDE DEF Good, N
  <2>1. 0 \in T
    BY <1>1, <1>2
  <2>2. \A n \in 0 .. N - 1 : n \in T => n + 1 \in T
    BY <1>1, <1>3
  <2>3. \A n \in 0 .. N : n \in T
    BY <1>1, <2>1, <2>2, InductionUpTo, ZenonT(30)
  <2> QED BY <1>1, <2>3
<1>5. PICK g : \A i \in 0 .. N : Rec(g, i)
  BY <1>4, ZenonT(30)
<1> DEFINE k == [i \in 0 .. N |-> g[i]]
           Fix(h) == h = [i \in 0 .. N |-> IF i = 0 THEN <<>> ELSE Cat(h[i - 1], E[i])]
           flat == CHOOSE h : Fix(h)
<1>6. Fix(k)
  <2>1. \A i \in 0 .. N : i # 0 => i - 1 \in 0 .. N
    BY <1>1
  <2>2. \A i \in 0 .. N : k[i] = IF i = 0 THEN <<>> ELSE Cat(k[i - 1], E[i])
    BY <1>5, <2>1, ZenonT(30)
  <2> QED BY <2>2, ZenonT(30)
<1>7. Fix(flat)
  <2> HIDE DEF k, Fix
  <2> QED BY <1>6, ZenonT(30)
<1>8. Joined(E) = flat[N]
  BY ZenonT(30) DEF Joined, Cat
<1> HIDE DEF flat
<1>9. flat[0] = <<>> /\ \A i \in 1 .. N : flat[i] = Cat(flat[i - 1], E[i])
  <2>1. \A i \in 0 .. N : flat[i] = IF i = 0 THEN <<>> ELSE Cat(flat[i - 1], E[i])
    BY <1>7, ZenonT(30)
  <2>2. 0 \in 0 .. N /\ \A i \in 1 .. N : i \in 0 .. N /\ i # 0
    BY <1>1
  <2> QED BY <2>1, <2>2, ZenonT(30)
<1> HIDE DEF N, Fix, k
<1> DEFINE at == [i \in 0 .. N |-> Len(flat[i])]
           Placed(n) ==
             /\ flat[n] \in Seq(S) /\ at[n] \in Nat
             /\ \A i \in 1 .. n :
                   /\ at[i - 1] \in Nat /\ at[i] \in Nat
                   /\ at[i] = at[i - 1] + Len(E[i])
                   /\ at[i] <= at[n]
                   /\ \A j \in 1 .. Len(E[i]) : flat[n][at[i - 1] + j] = E[i][j]
           U == {n \in 0 .. N : Placed(n)}
<1>10. Placed(0) /\ at[0] = 0
  <2>1. 1 .. 0 = {} /\ 0 \in 0 .. N /\ Len(<<>>) = 0 /\ <<>> \in Seq(S)
    BY <1>1
  <2>2. at[0] = 0
    BY <1>9, <2>1, ZenonT(30)
  <2> HIDE DEF at
  <2> QED BY <1>9, <2>1, <2>2
<1>11. ASSUME NEW n \in 0 .. N - 1, Placed(n) PROVE Placed(n + 1)
  <2>1. n + 1 \in 1 .. N /\ n + 1 \in 0 .. N /\ n \in 0 .. N /\ (n + 1) - 1 = n
    BY <1>1
  <2>2. flat[n + 1] = Cat(flat[n], E[n + 1]) /\ E[n + 1] \in Seq(S) /\ flat[n] \in Seq(S)
    BY <1>1, <1>9, <1>11, <2>1, ZenonT(30)
  <2>3. PICK a \in Seq(S), e \in Seq(S) : a = flat[n] /\ e = E[n + 1]
    BY <2>2, ZenonT(30)
  <2>4. /\ Cat(a, e) \in Seq(S) /\ Len(a) \in Nat /\ Len(e) \in Nat
        /\ Len(Cat(a, e)) = Len(a) + Len(e)
        /\ \A j \in 1 .. Len(a) : Cat(a, e)[j] = a[j]
        /\ \A j \in 1 .. Len(e) : Cat(a, e)[Len(a) + j] = e[j]
    <3>1. Cat(a, e) \in Seq(S) /\ Len(a) \in Nat /\ Len(e) \in Nat
      BY CatProperties, ZenonT(30)
    <3>2. Len(Cat(a, e)) = Len(a) + Len(e)
      BY CatProperties, ZenonT(30)
    <3>3. \A j \in 1 .. Len(a) : Cat(a, e)[j] = a[j]
      BY CatProperties, ZenonT(30)
    <3>4. \A j \in 1 .. Len(e) : Cat(a, e)[Len(a) + j] = e[j]
      BY CatProperties
    <3> QED BY <3>1, <3>2, <3>3, <3>4, ZenonT(30)
  <2>5. PICK la \in Nat, le \in Nat : la = Len(a) /\ le = Len(e)
    BY <2>4, ZenonT(30)
  <2> DEFINE c == Cat(a, e)
  <2>6. /\ c = flat[n + 1] /\ c \in Seq(S) /\ at[n] = la /\ at[n + 1] = la + le
        /\ Len(E[n + 1]) = le
    BY <2>1, <2>2, <2>3, <2>4, <2>5, ZenonT(30)
  <2>7. (\A j \in 1 .. la : c[j] = a[j]) /\ (\A j \in 1 .. le : c[la + j] = e[j])
    BY <2>4, <2>5, ZenonT(30)
  <2> HIDE DEF at, c
  <2>8. ASSUME NEW i \in 1 .. n
        PROVE  /\ at[i] <= at[n + 1]
               /\ \A j \in 1 .. Len(E[i]) : c[at[i - 1] + j] = E[i][j]
    <3>0. E[i] \in Seq(S)
      BY <1>1, <2>1
    <3>1. PICK l \in Nat : l = Len(E[i])
      BY <3>0, LenProperties, ZenonT(30)
    <3>2. PICK p \in Nat : p = at[i - 1]
      BY <1>11, ZenonT(30)
    <3>3. at[i] = p + l /\ p + l <= la
      BY <1>11, <2>6, <3>1, <3>2, ZenonT(30)
    <3>4. \A j \in 1 .. l : a[p + j] = E[i][j]
      BY <1>11, <2>3, <3>1, <3>2, ZenonT(30)
    <3>5. \A j \in 1 .. l : p + j \in 1 .. la
      BY <3>3
    <3>6. \A j \in 1 .. l : c[p + j] = E[i][j]
      BY <2>7, <3>4, <3>5, ZenonT(30)
    <3>7. p + l <= la + le
      BY <3>3
    <3>8. at[i] <= at[n + 1]
      BY <2>6, <3>3, <3>7, ZenonT(30)
    <3> QED BY <3>1, <3>2, <3>6, <3>8, ZenonT(30)
  <2>9. \A i \in 1 .. n + 1 : i \in 1 .. n \/ i = n + 1
    BY <2>1
  <2>10. (n + 1) - 1 = n
    BY <2>1, ZenonT(30)
  <2>11. \A i \in 1 .. n : at[i - 1] \in Nat /\ at[i] \in Nat /\ at[i] = at[i - 1] + Len(E[i])
    BY <1>11, ZenonT(30)
  <2>12. /\ at[n] \in Nat /\ at[n + 1] \in Nat /\ at[n + 1] = at[n] + Len(E[n + 1])
         /\ at[n + 1] <= at[n + 1]
         /\ \A j \in 1 .. Len(E[n + 1]) : c[at[n] + j] = E[n + 1][j]
    BY <2>3, <2>6, <2>7
  <2>13. ASSUME NEW i \in 1 .. n + 1
         PROVE  /\ at[i - 1] \in Nat /\ at[i] \in Nat
                /\ at[i] = at[i - 1] + Len(E[i])
                /\ at[i] <= at[n + 1]
                /\ \A j \in 1 .. Len(E[i]) : c[at[i - 1] + j] = E[i][j]
    <3>1. CASE i \in 1 .. n
      BY <2>8, <2>11, <3>1, ZenonT(30)
    <3>2. CASE i = n + 1
      BY <2>10, <2>12, <3>2, ZenonT(30)
    <3> QED BY <2>9, <3>1, <3>2, ZenonT(30)
  <2> QED BY <2>6, <2>13
<1>12. Placed(N)
  <2> HIDE DEF Placed
  <2>1. 0 \in U
    BY <1>1, <1>10
  <2>2. \A n \in 0 .. N - 1 : n \in U => n + 1 \in U
    BY <1>1, <1>11
  <2>3. \A n \in 0 .. N : n \in U
    BY <1>1, <2>1, <2>2, InductionUpTo, ZenonT(30)
  <2> QED BY <1>1, <2>3
<1>13. at \in [0 .. N -> Nat]
  <2>1. \A i \in 0 .. N : i = 0 \/ i \in 1 .. N
    BY <1>1
  <2> HIDE DEF at
  <2>2. \A i \in 0 .. N : at[i] \in Nat
    BY <1>10, <1>12, <2>1, ZenonT(30)
  <2> QED BY <2>2, ZenonT(30) DEF at
<1>14. at[N] = Len(flat[N])
  BY <1>1
<1> HIDE DEF at
<1> QED BY <1>8, <1>10, <1>12, <1>13, <1>14, ZenonT(30) DEF N

-----------------------------------------------------------------------------
(* Statements and streams. *)

(* A typed poke or peek is a statement.                                      *)
LEMMA StmtType ==
    ASSUME NEW a \in Word, NEW v \in Word
    PROVE  /\ Poke(a, v) \in Stmt /\ Poke(a, v).addr = a
           /\ Peek(a) \in Stmt /\ Peek(a).addr = a
BY ZenonT(30) DEF Poke, Peek, Stmt

(* Unrolling never makes a stream shorter.                                   *)
LEMMA TimesAtLeast ==
    ASSUME NEW n \in Nat, NEW d \in Nat, n >= 1
    PROVE  n * d \in Nat /\ n * d >= d
<1>1. \E k \in Nat : n = k + 1
  <2> WITNESS n - 1 \in Nat
  <2> QED OBVIOUS
<1>2. PICK k \in Nat : n = k + 1
  BY <1>1, ZenonT(30)
<1>3. k * d \in Nat
  OBVIOUS
<1>4. n * d = k * d + d
  BY <1>2
<1> QED BY <1>3, <1>4

(* A statement takes a number of words.                                      *)
LEMMA StmtWordsType == \A s : StmtWords(s) \in Nat
BY ZenonT(30) DEF StmtWords

(* Unrolling a loop yields statements of the stream only, and no fewer.      *)
LEMMA UnrolledLemma ==
    ASSUME NEW s \in Seq(Stmt), NEW at \in Nat, at <= Len(s), NEW count \in Nat, count >= 1
    PROVE  /\ Unrolled(s, at, count) \in Seq(Stmt)
           /\ Len(Unrolled(s, at, count)) >= Len(s)
           /\ Addresses(Unrolled(s, at, count)) \subseteq Addresses(s)
<1> DEFINE size == Len(s) - at
           n == at + count * size
           from(i) == IF i <= Len(s) THEN i ELSE at + 1 + ((i - at - 1) % size)
<1>1. size \in Nat /\ Len(s) \in Nat /\ count * size \in Nat /\ n \in Nat
  OBVIOUS
<1>2. count * size >= size
  BY <1>1, TimesAtLeast, ZenonT(30)
<1>3. \A i \in 1 .. n : from(i) \in 1 .. Len(s)
  <2> SUFFICES ASSUME NEW i \in 1 .. n, ~(i <= Len(s)) PROVE at + 1 + ((i - at - 1) % size) \in 1 .. Len(s)
    BY <1>1
  <2>1. size # 0
    BY <1>1
  <2>2. (i - at - 1) % size \in 0 .. size - 1
    BY <1>1, <2>1
  <2> QED BY <1>1, <2>2
<1> DEFINE u == [i \in 1 .. n |-> s[from(i)]]
<1>4. Unrolled(s, at, count) = u
  BY ZenonT(30) DEF Unrolled
<1> HIDE DEF from
<1>5. u \in Seq(Stmt) /\ Len(u) = n /\ \A i \in 1 .. n : u[i] = s[from(i)]
  BY <1>1, <1>3
<1>6. Addresses(u) \subseteq Addresses(s)
  BY <1>1, <1>3, <1>5 DEF Addresses
<1> QED BY <1>1, <1>2, <1>4, <1>5, <1>6

(* Appending a statement adds its address.                                   *)
LEMMA AppendAddresses ==
    ASSUME NEW s \in Seq(Stmt), NEW x \in Stmt
    PROVE  Addresses(Append(s, x)) \subseteq Addresses(s) \cup {x.addr}
BY DEF Addresses

(* Splicing a body adds the addresses of the body.                           *)
LEMMA ConcatAddresses ==
    ASSUME NEW s \in Seq(Stmt), NEW t \in Seq(Stmt)
    PROVE  Addresses(s \o t) \subseteq Addresses(s) \cup Addresses(t)
<1>1. /\ Len(s) \in Nat /\ Len(t) \in Nat /\ DOMAIN s = 1 .. Len(s) /\ DOMAIN t = 1 .. Len(t)
      /\ s \o t \in Seq(Stmt) /\ Len(s \o t) = Len(s) + Len(t)
      /\ \A i \in 1 .. Len(s) + Len(t) : (s \o t)[i] = IF i <= Len(s) THEN s[i] ELSE t[i - Len(s)]
  BY ConcatProperties, LenProperties, ZenonT(30)
<1>2. DOMAIN (s \o t) = 1 .. Len(s) + Len(t)
  BY <1>1, LenProperties, ZenonT(30)
<1> SUFFICES ASSUME NEW i \in 1 .. Len(s) + Len(t)
             PROVE  (s \o t)[i].addr \in Addresses(s) \cup Addresses(t)
  BY <1>2, ZenonT(30) DEF Addresses
<1>3. CASE i <= Len(s)
  BY <1>1, <1>3 DEF Addresses
<1>4. CASE ~(i <= Len(s))
  <2>1. i - Len(s) \in 1 .. Len(t) /\ (s \o t)[i] = t[i - Len(s)]
    BY <1>1, <1>4
  <2> QED BY <1>1, <2>1, ZenonT(30) DEF Addresses
<1> QED BY <1>3, <1>4, ZenonT(30)

(* The empty stream names no address.                                        *)
LEMMA EmptyAddresses == Addresses(<<>>) = {} /\ <<>> \in Seq(Stmt) /\ Len(<<>>) = 0
BY DEF Addresses

-----------------------------------------------------------------------------
(* The words of a stream. *)

(* The words of each statement of a stream.                                  *)
Words(b) == [i \in DOMAIN b |-> StmtWords(b[i])]

(* The length of a stream is the sum of its statements' words.               *)
LEMMA WordsType ==
    ASSUME NEW b \in Seq(Stmt)
    PROVE  /\ Words(b) \in Seq(Nat) /\ Len(Words(b)) = Len(b)
           /\ \A i \in 1 .. Len(b) : Words(b)[i] = StmtWords(b[i])
           /\ WordCount(b) = Total(Words(b)) /\ WordCount(b) \in Nat
<1>1. PICK N \in Nat : N = Len(b) /\ DOMAIN b = 1 .. N
  BY LenProperties, ZenonT(30)
<1>2. \A i \in 1 .. N : StmtWords(b[i]) \in Nat
  BY ZenonT(30) DEF StmtWords
<1>3. Words(b) \in Seq(Nat) /\ Len(Words(b)) = N /\ \A i \in 1 .. N : Words(b)[i] = StmtWords(b[i])
  BY <1>1, <1>2 DEF Words
<1>4. WordCount(b) = Total(Words(b))
  BY ZenonT(30) DEF WordCount, Words
<1> QED BY <1>1, <1>3, <1>4, TotalType, ZenonT(30)

(* A call's body, spliced in, adds its own words.                            *)
LEMMA WordCountConcat ==
    ASSUME NEW a \in Seq(Stmt), NEW b \in Seq(Stmt)
    PROVE  Cat(a, b) \in Seq(Stmt) /\ WordCount(Cat(a, b)) = WordCount(a) + WordCount(b)
<1>1. PICK la \in Nat, lb \in Nat : la = Len(a) /\ lb = Len(b)
  BY LenProperties, ZenonT(30)
<1>2. PICK c \in Seq(Stmt) : /\ c = Cat(a, b) /\ Len(c) = la + lb
                             /\ \A j \in 1 .. la : c[j] = a[j]
                             /\ \A j \in 1 .. lb : c[la + j] = b[j]
  <2>1. Cat(a, b) \in Seq(Stmt) /\ Len(Cat(a, b)) = Len(a) + Len(b)
    BY CatProperties, ZenonT(30)
  <2>2. \A j \in 1 .. Len(a) : Cat(a, b)[j] = a[j]
    BY CatProperties, ZenonT(30)
  <2>3. \A j \in 1 .. Len(b) : Cat(a, b)[Len(a) + j] = b[j]
    BY CatProperties
  <2> QED BY <1>1, <2>1, <2>2, <2>3, ZenonT(30)
<1>3. PICK wa \in Seq(Nat), wb \in Seq(Nat), wc \in Seq(Nat) :
          /\ wa = Words(a) /\ wb = Words(b) /\ wc = Words(c)
          /\ Len(wa) = la /\ Len(wb) = lb /\ Len(wc) = la + lb
          /\ \A j \in 1 .. la : wa[j] = StmtWords(a[j])
          /\ \A j \in 1 .. lb : wb[j] = StmtWords(b[j])
          /\ \A j \in 1 .. la + lb : wc[j] = StmtWords(c[j])
  <2>1. Words(a) \in Seq(Nat) /\ Len(Words(a)) = Len(a) /\ \A j \in 1 .. Len(a) : Words(a)[j] = StmtWords(a[j])
    BY WordsType, ZenonT(30)
  <2>2. Words(b) \in Seq(Nat) /\ Len(Words(b)) = Len(b) /\ \A j \in 1 .. Len(b) : Words(b)[j] = StmtWords(b[j])
    BY WordsType, ZenonT(30)
  <2>3. Words(c) \in Seq(Nat) /\ Len(Words(c)) = Len(c) /\ \A j \in 1 .. Len(c) : Words(c)[j] = StmtWords(c[j])
    BY WordsType, ZenonT(30)
  <2> QED BY <1>1, <1>2, <2>1, <2>2, <2>3
<1>4. PICK w \in Seq(Nat) : /\ w = Cat(wa, wb) /\ Len(w) = la + lb
                            /\ \A j \in 1 .. la : w[j] = wa[j]
                            /\ \A j \in 1 .. lb : w[la + j] = wb[j]
  <2>1. Cat(wa, wb) \in Seq(Nat) /\ Len(Cat(wa, wb)) = Len(wa) + Len(wb)
    BY CatProperties, ZenonT(30)
  <2>2. \A j \in 1 .. Len(wa) : Cat(wa, wb)[j] = wa[j]
    BY CatProperties, ZenonT(30)
  <2>3. \A j \in 1 .. Len(wb) : Cat(wa, wb)[Len(wa) + j] = wb[j]
    BY CatProperties
  <2> QED BY <1>3, <2>1, <2>2, <2>3, ZenonT(30)
<1>5. ASSUME NEW j \in 1 .. la + lb PROVE w[j] = wc[j]
  <2>1. CASE j \in 1 .. la
    BY <1>2, <1>3, <1>4, <2>1
  <2>2. CASE j \notin 1 .. la
    <3>1. PICK k \in 1 .. lb : j = la + k
      <4>1. j - la \in 1 .. lb /\ j = la + (j - la)
        BY <2>2
      <4> QED BY <4>1, ZenonT(30)
    <3>2. w[j] = wb[k] /\ c[j] = b[k] /\ wb[k] = StmtWords(b[k])
      BY <1>2, <1>3, <1>4, <3>1, ZenonT(30)
    <3> QED BY <1>3, <3>2, ZenonT(30)
  <2> QED BY <2>1, <2>2, ZenonT(30)
<1>6. w = wc
  BY <1>3, <1>4, <1>5, SeqEqual, ZenonT(30)
<1>7. Total(w) = Total(wa) + Total(wb)
  BY <1>4, TotalConcat, ZenonT(30) DEF Cat
<1> QED BY <1>2, <1>3, <1>6, <1>7, WordsType, ZenonT(30)

(* An empty stream has none.                                                 *)
LEMMA WordCountEmpty == WordCount(<<>>) = 0
<1>1. Words(<<>>) = <<>>
  BY DEF Words
<1> QED BY <1>1, TotalEmpty, ZenonT(30) DEF WordCount, Words

(* A statement adds its own.                                                 *)
LEMMA WordCountAppend ==
    ASSUME NEW b \in Seq(Stmt), NEW x \in Stmt
    PROVE  WordCount(Append(b, x)) = WordCount(b) + StmtWords(x)
<1>1. PICK c \in Seq(Stmt) : c = <<x>> /\ Len(c) = 1 /\ c[1] = x
  <2>1. <<x>> \in Seq(Stmt) /\ Len(<<x>>) = 1 /\ <<x>>[1] = x
    OBVIOUS
  <2> QED BY <2>1, ZenonT(30)
<1>2. PICK w \in Seq(Nat) : w = Words(c) /\ Len(w) = 1 /\ w[1] = StmtWords(x)
  <2>1. Words(c) \in Seq(Nat) /\ Len(Words(c)) = Len(c) /\ \A j \in 1 .. Len(c) : Words(c)[j] = StmtWords(c[j])
    BY WordsType, ZenonT(30)
  <2>2. Len(Words(c)) = 1 /\ Words(c)[1] = StmtWords(x)
    BY <1>1, <2>1
  <2> QED BY <2>1, <2>2, ZenonT(30)
<1>3. Total(w) = StmtWords(x)
  <2>1. PICK p \in [0 .. 1 -> Nat] : p[0] = 0 /\ (\A n \in 1 .. 1 : p[n] = p[n - 1] + w[n]) /\ Total(w) = p[1]
    BY <1>2, TotalPrefixes, ZenonT(30)
  <2>2. w[1] \in Nat
    BY <1>2 DEF StmtWords
  <2> QED BY <1>2, <2>1, <2>2
<1>4. WordCount(c) = StmtWords(x)
  BY <1>2, <1>3, WordsType, ZenonT(30)
<1>5. Append(b, x) = Cat(b, c)
  BY <1>1 DEF Cat
<1> QED BY <1>4, <1>5, WordCountConcat, ZenonT(30)

-----------------------------------------------------------------------------
(* Unrolling. *)

(* A remainder is known from a quotient.                                     *)
LEMMA Remainder ==
    ASSUME NEW d \in Nat, NEW q \in Nat, NEW r \in 0 .. d - 1
    PROVE  (q * d + r) % d = r
<1>1. PICK n \in Nat : n = q * d + r
  OBVIOUS
<1>2. PICK k \in Nat, t \in 0 .. d - 1 : k = n \div d /\ t = n % d
  OBVIOUS
<1>3. n = d * k + t
  BY <1>2, Z3T(30), ZenonT(30)
<1>4. n = k * d + t /\ k * d \in Nat /\ q * d \in Nat
  BY <1>3
<1>5. k = q
  <2>1. CASE k < q
    <3>1. PICK e \in Nat : q = k + 1 + e
      <4>1. q - k - 1 \in Nat /\ q = k + 1 + (q - k - 1)
        BY <2>1
      <4> QED BY <4>1, ZenonT(30)
    <3>2. q * d = k * d + d + e * d /\ e * d \in Nat
      BY <3>1
    <3> QED BY <1>1, <1>4, <3>2
  <2>2. CASE q < k
    <3>1. PICK e \in Nat : k = q + 1 + e
      <4>1. k - q - 1 \in Nat /\ k = q + 1 + (k - q - 1)
        BY <2>2
      <4> QED BY <4>1, ZenonT(30)
    <3>2. k * d = q * d + d + e * d /\ e * d \in Nat
      BY <3>1
    <3> QED BY <1>1, <1>4, <3>2
  <2> QED BY <2>1, <2>2
<1> QED BY <1>1, <1>2, <1>4, <1>5

(* One copy is the stream itself, and each further one appends the loop body.*)
LEMMA UnrolledGrows ==
    ASSUME NEW s \in Seq(Stmt), NEW at \in Nat, at <= Len(s), NEW count \in Nat \ {0}
    PROVE  /\ Unrolled(s, at, count) \in Seq(Stmt)
           /\ Unrolled(s, at, 1) = s
           /\ SubSeq(s, at + 1, Len(s)) \in Seq(Stmt)
           /\ Unrolled(s, at, count + 1) = Cat(Unrolled(s, at, count), SubSeq(s, at + 1, Len(s)))
<1>1. PICK N \in Nat, size \in Nat : N = Len(s) /\ N = at + size /\ size = Len(s) - at
  BY LenProperties
<1>2. PICK e \in Nat : count = e + 1
  <2>1. count - 1 \in Nat /\ count = (count - 1) + 1
    OBVIOUS
  <2> QED BY <2>1, ZenonT(30)
<1>3. PICK x \in Nat : x = e * size
  OBVIOUS
<1>4. /\ at + count * size = N + x /\ at + (count + 1) * size = N + x + size
      /\ at + 1 * size = N /\ count * size = x + size
  BY <1>1, <1>2, <1>3
<1> DEFINE from(i) == IF i <= N THEN i ELSE at + 1 + ((i - at - 1) % size)
<1>5. \A i \in 1 .. N + x + size : from(i) \in 1 .. N
  <2> SUFFICES ASSUME NEW i \in 1 .. N + x + size, ~(i <= N) PROVE at + 1 + ((i - at - 1) % size) \in 1 .. N
    BY <1>1
  <2>1. size # 0
    <3> SUFFICES ASSUME size = 0 PROVE FALSE
      BY ZenonT(30)
    <3>1. x = 0
      BY <1>3
    <3> QED BY <3>1
  <2>2. (i - at - 1) % size \in 0 .. size - 1
    BY <1>1, <2>1
  <2> QED BY <1>1, <2>2
<1>6. \A i \in 1 .. N : s[i] \in Stmt
  BY <1>1, ElementOfSeq, ZenonT(30)
<1>7. /\ Unrolled(s, at, 1) = [i \in 1 .. N |-> s[from(i)]]
      /\ Unrolled(s, at, count) = [i \in 1 .. N + x |-> s[from(i)]]
      /\ Unrolled(s, at, count + 1) = [i \in 1 .. N + x + size |-> s[from(i)]]
  BY <1>1, <1>4, ZenonT(30) DEF Unrolled
<1>8. \A i \in 1 .. N : from(i) = i
  OBVIOUS
<1>9. \A j \in 1 .. size : from(N + x + j) = at + j
  <2> TAKE j \in 1 .. size
  <2>1. (N + x + j) - at - 1 = count * size + (j - 1) /\ j - 1 \in 0 .. size - 1 /\ ~(N + x + j <= N)
    BY <1>1, <1>4
  <2>2. (count * size + (j - 1)) % size = j - 1
    BY <2>1, Remainder, ZenonT(30)
  <2> QED BY <2>1, <2>2
<1> HIDE DEF from
<1>10. PICK u \in Seq(Stmt) : u = Unrolled(s, at, count) /\ Len(u) = N + x /\ \A i \in 1 .. N + x : u[i] = s[from(i)]
  <2>1. PICK l \in Nat : l = N + x
    OBVIOUS
  <2>2. \A i \in 1 .. l : s[from(i)] \in Stmt
    BY <1>5, <1>6, <2>1
  <2>3. PICK u : u = [i \in 1 .. l |-> s[from(i)]]
    BY ZenonT(30)
  <2>4. u \in Seq(Stmt) /\ Len(u) = l /\ \A i \in 1 .. l : u[i] = s[from(i)]
    BY <2>2, <2>3
  <2> QED BY <1>7, <2>1, <2>3, <2>4, ZenonT(30)
<1>11. PICK v \in Seq(Stmt) : /\ v = Unrolled(s, at, count + 1) /\ Len(v) = N + x + size
                              /\ \A i \in 1 .. N + x + size : v[i] = s[from(i)]
  <2>1. PICK l \in Nat : l = N + x + size
    OBVIOUS
  <2>2. \A i \in 1 .. l : s[from(i)] \in Stmt
    BY <1>5, <1>6, <2>1, ZenonT(30)
  <2>3. PICK u1 : u1 = [i \in 1 .. l |-> s[from(i)]]
    BY ZenonT(30)
  <2>4. u1 \in Seq(Stmt) /\ Len(u1) = l /\ \A i \in 1 .. l : u1[i] = s[from(i)]
    BY <2>2, <2>3
  <2> QED BY <1>7, <2>1, <2>3, <2>4, ZenonT(30)
<1>12. Unrolled(s, at, 1) = s
  <2>1. PICK w \in Seq(Stmt) : w = Unrolled(s, at, 1) /\ Len(w) = N /\ \A i \in 1 .. N : w[i] = s[i]
    BY <1>6, <1>7, <1>8
  <2> QED BY <1>1, <2>1, SeqEqual, ZenonT(30)
<1>13. PICK t \in Seq(Stmt) : t = SubSeq(s, at + 1, N) /\ Len(t) = size /\ \A j \in 1 .. size : t[j] = s[at + j]
  <2>1. \A i \in at + 1 .. N : s[i] \in Stmt
    BY <1>6
  <2>2. /\ SubSeq(s, at + 1, N) \in Seq(Stmt)
        /\ Len(SubSeq(s, at + 1, N)) = IF at + 1 <= N THEN N - (at + 1) + 1 ELSE 0
        /\ \A i \in 1 .. N - (at + 1) + 1 : SubSeq(s, at + 1, N)[i] = s[(at + 1) + i - 1]
    BY <2>1, SubSeqProperties
  <2>3. PICK t : t = SubSeq(s, at + 1, N)
    BY ZenonT(30)
  <2>4. t \in Seq(Stmt) /\ Len(t) = size
    <3>1. (IF at + 1 <= N THEN N - (at + 1) + 1 ELSE 0) = size
      BY <1>1
    <3> QED BY <2>2, <2>3, <3>1, ZenonT(30)
  <2>5. ASSUME NEW j \in 1 .. size PROVE t[j] = s[at + j]
    <3>1. j \in 1 .. N - (at + 1) + 1 /\ (at + 1) + j - 1 = at + j
      BY <1>1
    <3> QED BY <2>2, <2>3, <3>1, ZenonT(30)
  <2> QED BY <2>3, <2>4, <2>5, ZenonT(30)
<1>14. PICK c \in Seq(Stmt) : /\ c = Cat(u, t) /\ Len(c) = N + x + size
                              /\ \A j \in 1 .. N + x : c[j] = u[j]
                              /\ \A j \in 1 .. size : c[N + x + j] = t[j]
  <2>1. Cat(u, t) \in Seq(Stmt) /\ Len(Cat(u, t)) = Len(u) + Len(t)
    BY CatProperties, ZenonT(30)
  <2>2. \A j \in 1 .. Len(u) : Cat(u, t)[j] = u[j]
    BY CatProperties
  <2>3. \A j \in 1 .. Len(t) : Cat(u, t)[Len(u) + j] = t[j]
    BY CatProperties
  <2>4. PICK c : c = Cat(u, t)
    BY ZenonT(30)
  <2>5. PICK l \in Nat : l = N + x /\ Len(u) = l /\ Len(t) = size
    BY <1>10, <1>13
  <2>6. Len(c) = l + size /\ (\A j \in 1 .. l : c[j] = u[j]) /\ \A j \in 1 .. size : c[l + j] = t[j]
    BY <2>1, <2>2, <2>3, <2>4, <2>5, ZenonT(30)
  <2>7. c \in Seq(Stmt) /\ Len(c) = N + x + size
    BY <2>1, <2>4, <2>5, <2>6, ZenonT(30)
  <2>8. (\A j \in 1 .. N + x : c[j] = u[j]) /\ \A j \in 1 .. size : c[N + x + j] = t[j]
    BY <2>5, <2>6, ZenonT(30)
  <2> QED BY <2>4, <2>7, <2>8, ZenonT(30)
<1>15. ASSUME NEW i \in 1 .. N + x + size PROVE c[i] = v[i]
  <2>1. CASE i \in 1 .. N + x
    BY <1>10, <1>11, <1>14, <2>1, ZenonT(30)
  <2>2. CASE i \notin 1 .. N + x
    <3>1. PICK j \in 1 .. size : i = N + x + j
      <4>1. i - (N + x) \in 1 .. size /\ i = N + x + (i - (N + x))
        BY <2>2
      <4> QED BY <4>1, ZenonT(30)
    <3>2. c[i] = t[j] /\ t[j] = s[at + j] /\ from(i) = at + j /\ v[i] = s[from(i)]
      BY <1>9, <1>11, <1>13, <1>14, <3>1, ZenonT(30)
    <3> QED BY <3>2, ZenonT(30)
  <2> QED BY <2>1, <2>2, ZenonT(30)
<1>16. c = v
  BY <1>11, <1>14, <1>15, SeqEqual, ZenonT(30)
<1> QED BY <1>1, <1>10, <1>11, <1>12, <1>13, <1>14, <1>16, ZenonT(30)

-----------------------------------------------------------------------------
(* The length of an unrolled stream is what UnrolledLen computes.            *)
LEMMA WordCountUnrolled ==
    ASSUME NEW s \in Seq(Stmt), NEW at \in Nat, at <= Len(s), NEW count \in Nat \ {0}
    PROVE  /\ SubSeq(s, 1, at) \in Seq(Stmt) /\ WordCount(SubSeq(s, 1, at)) \in Nat
           /\ WordCount(SubSeq(s, 1, at)) <= WordCount(s)
           /\ WordCount(Unrolled(s, at, count))
                = WordCount(SubSeq(s, 1, at)) + count * (WordCount(s) - WordCount(SubSeq(s, 1, at)))
<1>1. PICK N \in Nat : N = Len(s) /\ at <= N /\ \A i \in 1 .. N : s[i] \in Stmt
  BY LenProperties, ElementOfSeq, ZenonT(30)
<1>2. SubSeq(s, 1, at) \in Seq(Stmt) /\ SubSeq(s, at + 1, N) \in Seq(Stmt)
  <2>1. (\A i \in 1 .. at : s[i] \in Stmt) /\ (\A i \in at + 1 .. N : s[i] \in Stmt)
    BY <1>1
  <2>2. SubSeq(s, 1, at) \in Seq(Stmt)
    BY <2>1, SubSeqProperties
  <2>3. SubSeq(s, at + 1, N) \in Seq(Stmt)
    BY <2>1, SubSeqProperties
  <2> QED BY <2>2, <2>3, ZenonT(30)
<1>3. PICK a \in Seq(Stmt), b \in Seq(Stmt) : a = SubSeq(s, 1, at) /\ b = SubSeq(s, at + 1, N)
  BY <1>2, ZenonT(30)
<1>4. s = Cat(a, b)
  <2>1. \A i \in 1 .. at : s[i] \in Stmt
    BY <1>1
  <2>2. /\ Len(SubSeq(s, 1, at)) = IF 1 <= at THEN at - 1 + 1 ELSE 0
        /\ \A i \in 1 .. at - 1 + 1 : SubSeq(s, 1, at)[i] = s[1 + i - 1]
    BY <2>1, SubSeqProperties
  <2>3. (IF 1 <= at THEN at - 1 + 1 ELSE 0) = at /\ at - 1 + 1 = at
    OBVIOUS
  <2>4. Len(a) = at /\ \A i \in 1 .. at : a[i] = s[i]
    <3>1. Len(a) = at
      BY <1>3, <2>2, <2>3, ZenonT(30)
    <3>2. ASSUME NEW i \in 1 .. at PROVE a[i] = s[i]
      <4>1. i \in 1 .. at - 1 + 1 /\ 1 + i - 1 = i
        OBVIOUS
      <4> QED BY <1>3, <2>2, <4>1, ZenonT(30)
    <3> QED BY <3>1, <3>2, ZenonT(30)
  <2>5. \A i \in at + 1 .. N : s[i] \in Stmt
    BY <1>1
  <2>6. /\ Len(SubSeq(s, at + 1, N)) = IF at + 1 <= N THEN N - (at + 1) + 1 ELSE 0
        /\ \A i \in 1 .. N - (at + 1) + 1 : SubSeq(s, at + 1, N)[i] = s[(at + 1) + i - 1]
    BY <2>5, SubSeqProperties
  <2>0. PICK l \in Nat : N = at + l
    <3>1. N - at \in Nat /\ N = at + (N - at)
      BY <1>1
    <3> QED BY <3>1, ZenonT(30)
  <2>7. N = at + l /\ N - (at + 1) + 1 = l /\ (IF at + 1 <= N THEN N - (at + 1) + 1 ELSE 0) = l
    BY <2>0
  <2>8. Len(b) = l /\ \A i \in 1 .. l : b[i] = s[at + i]
    <3>1. Len(b) = l
      BY <1>3, <2>6, <2>7, ZenonT(30)
    <3>2. ASSUME NEW i \in 1 .. l PROVE b[i] = s[at + i]
      <4>1. i \in 1 .. N - (at + 1) + 1 /\ (at + 1) + i - 1 = at + i
        BY <2>7
      <4> QED BY <1>3, <2>6, <4>1, ZenonT(30)
    <3> QED BY <3>1, <3>2, ZenonT(30)
  <2>9. Cat(a, b) \in Seq(Stmt) /\ Len(Cat(a, b)) = Len(a) + Len(b)
    BY CatProperties, ZenonT(30)
  <2>10. \A j \in 1 .. Len(a) : Cat(a, b)[j] = a[j]
    BY CatProperties
  <2>11. \A j \in 1 .. Len(b) : Cat(a, b)[Len(a) + j] = b[j]
    BY CatProperties
  <2>12. PICK c \in Seq(Stmt) : /\ c = Cat(a, b) /\ Len(c) = N
                                /\ \A j \in 1 .. at : c[j] = a[j]
                                /\ \A j \in 1 .. l : c[at + j] = b[j]
    <3>1. PICK c : c = Cat(a, b)
      BY ZenonT(30)
    <3>2. c \in Seq(Stmt) /\ Len(c) = N /\ (\A j \in 1 .. at : c[j] = a[j]) /\ \A j \in 1 .. l : c[at + j] = b[j]
      BY <2>4, <2>7, <2>8, <2>9, <2>10, <2>11, <3>1, ZenonT(30)
    <3> QED BY <3>1, <3>2, ZenonT(30)
  <2>13. ASSUME NEW i \in 1 .. N PROVE s[i] = c[i]
    <3>1. CASE i \in 1 .. at
      BY <2>4, <2>12, <3>1, ZenonT(30)
    <3>2. CASE i \notin 1 .. at
      <4>1. PICK j \in 1 .. l : i = at + j
        <5>1. i - at \in 1 .. l /\ i = at + (i - at)
          BY <2>7, <3>2
        <5> QED BY <5>1, ZenonT(30)
      <4>2. c[i] = b[j] /\ b[j] = s[i]
        BY <2>8, <2>12, <4>1, ZenonT(30)
      <4> QED BY <4>2, ZenonT(30)
    <3> QED BY <3>1, <3>2, ZenonT(30)
  <2> QED BY <1>1, <2>12, <2>13, SeqEqual, ZenonT(30)
<1>5. PICK wa \in Nat, wb \in Nat, ws \in Nat :
          wa = WordCount(a) /\ wb = WordCount(b) /\ ws = WordCount(s) /\ ws = wa + wb
  <2>1. WordCount(a) \in Nat /\ WordCount(b) \in Nat /\ WordCount(s) \in Nat
    BY WordsType, ZenonT(30)
  <2>2. WordCount(s) = WordCount(a) + WordCount(b)
    BY <1>4, WordCountConcat, ZenonT(30)
  <2> QED BY <2>1, <2>2, ZenonT(30)
<1> DEFINE U(c) == Unrolled(s, at, c)
           Good(n) == U(n + 1) \in Seq(Stmt) /\ WordCount(U(n + 1)) = wa + (n + 1) * wb
           T == {n \in Nat : Good(n)}
<1>6. Good(0)
  <2>1. 1 \in Nat \ {0} /\ 0 + 1 = 1 /\ wa + 1 * wb = ws
    BY <1>5
  <2>2. U(1) = s
    BY <1>1, <2>1, UnrolledGrows, ZenonT(30)
  <2> HIDE DEF U
  <2> QED BY <1>5, <2>1, <2>2, ZenonT(30)
<1>7. ASSUME NEW n \in Nat, Good(n) PROVE Good(n + 1)
  <2>1. PICK k \in Nat \ {0} : k = n + 1
    OBVIOUS
  <2>2. U(k + 1) = Cat(U(k), b) /\ U(k) \in Seq(Stmt)
    <3>1. Unrolled(s, at, k + 1) = Cat(Unrolled(s, at, k), SubSeq(s, at + 1, Len(s)))
      BY <1>1, UnrolledGrows, ZenonT(30)
    <3> QED BY <1>1, <1>3, <1>7, <2>1, <3>1, ZenonT(30)
  <2>3. Cat(U(k), b) \in Seq(Stmt) /\ WordCount(Cat(U(k), b)) = WordCount(U(k)) + WordCount(b)
    BY <2>2, WordCountConcat, ZenonT(30)
  <2> HIDE DEF U
  <2>4. WordCount(U(k)) = wa + k * wb
    BY <1>7, <2>1, ZenonT(30)
  <2>5. k * wb \in Nat /\ (k + 1) * wb = k * wb + wb
    OBVIOUS
  <2>6. WordCount(U(k + 1)) = wa + (k + 1) * wb
    <3>1. PICK y \in Nat, z \in Nat : y = k * wb /\ z = (k + 1) * wb /\ z = y + wb
      BY <2>5
    <3>2. WordCount(U(k + 1)) = WordCount(U(k)) + wb
      BY <1>5, <2>2, <2>3, ZenonT(30)
    <3>3. WordCount(U(k)) = wa + y
      BY <2>4, <3>1, ZenonT(30)
    <3>4. WordCount(U(k + 1)) = wa + z
      BY <3>1, <3>2, <3>3
    <3> QED BY <3>1, <3>4, ZenonT(30)
  <2> QED BY <2>1, <2>2, <2>3, <2>6, ZenonT(30)
<1>8. PICK e \in Nat : count = e + 1
  <2>1. count - 1 \in Nat /\ count = (count - 1) + 1
    OBVIOUS
  <2> QED BY <2>1, ZenonT(30)
<1>9. Good(e)
  <2> HIDE DEF Good
  <2>1. 0 \in T /\ \A n \in 0 .. e - 1 : n \in T => n + 1 \in T
    BY <1>6, <1>7
  <2>2. \A n \in 0 .. e : n \in T
    BY <2>1, InductionUpTo, ZenonT(30)
  <2> QED BY <2>2
<1>10. ws - wa = wb /\ wa <= ws
  BY <1>5
<1> QED BY <1>3, <1>5, <1>8, <1>9, <1>10, ZenonT(30)

-----------------------------------------------------------------------------
(* The stream t begins with the stream s.                                    *)
Extends(t, s) ==
    /\ t \in Seq(Stmt) /\ Len(s) <= Len(t)
    /\ \A i \in 1 .. Len(s) : t[i] = s[i]

(* Extending a stream leaves its prefixes alone.                             *)
LEMMA PrefixKept ==
    ASSUME NEW s \in Seq(Stmt), NEW t, Extends(t, s), NEW at \in Nat, at <= Len(s)
    PROVE  SubSeq(t, 1, at) = SubSeq(s, 1, at)
<1>1. PICK N \in Nat, M \in Nat : N = Len(s) /\ M = Len(t) /\ N <= M /\ at <= N
  BY LenProperties, ZenonT(30) DEF Extends
<1>2. (\A i \in 1 .. at : s[i] \in Stmt) /\ (\A i \in 1 .. at : t[i] \in Stmt /\ t[i] = s[i])
  BY <1>1, ElementOfSeq DEF Extends
<1>3. (IF 1 <= at THEN at - 1 + 1 ELSE 0) = at /\ at - 1 + 1 = at
  OBVIOUS
<1>4. PICK a \in Seq(Stmt) : a = SubSeq(s, 1, at) /\ Len(a) = at /\ \A i \in 1 .. at : a[i] = s[i]
  <2>1. /\ SubSeq(s, 1, at) \in Seq(Stmt)
        /\ Len(SubSeq(s, 1, at)) = IF 1 <= at THEN at - 1 + 1 ELSE 0
        /\ \A i \in 1 .. at - 1 + 1 : SubSeq(s, 1, at)[i] = s[1 + i - 1]
    BY <1>2, SubSeqProperties
  <2>2. Len(SubSeq(s, 1, at)) = at
    BY <1>3, <2>1, ZenonT(30)
  <2>3. \A i \in 1 .. at : i \in 1 .. at - 1 + 1 /\ 1 + i - 1 = i
    OBVIOUS
  <2>4. \A i \in 1 .. at : SubSeq(s, 1, at)[i] = s[i]
    BY <2>1, <2>3, ZenonT(30)
  <2> QED BY <2>1, <2>2, <2>4, ZenonT(30)
<1>5. PICK b \in Seq(Stmt) : b = SubSeq(t, 1, at) /\ Len(b) = at /\ \A i \in 1 .. at : b[i] = t[i]
  <2>1. /\ SubSeq(t, 1, at) \in Seq(Stmt)
        /\ Len(SubSeq(t, 1, at)) = IF 1 <= at THEN at - 1 + 1 ELSE 0
        /\ \A i \in 1 .. at - 1 + 1 : SubSeq(t, 1, at)[i] = t[1 + i - 1]
    BY <1>2, SubSeqProperties
  <2>2. Len(SubSeq(t, 1, at)) = at
    BY <1>3, <2>1, ZenonT(30)
  <2>3. \A i \in 1 .. at : i \in 1 .. at - 1 + 1 /\ 1 + i - 1 = i
    OBVIOUS
  <2>4. \A i \in 1 .. at : SubSeq(t, 1, at)[i] = t[i]
    BY <2>1, <2>3, ZenonT(30)
  <2> QED BY <2>1, <2>2, <2>4, ZenonT(30)
<1>6. \A i \in 1 .. at : a[i] = b[i]
  BY <1>2, <1>4, <1>5, ZenonT(30)
<1> QED BY <1>4, <1>5, <1>6, SeqEqual, ZenonT(30)

(* The whole of a stream is a prefix of it.                                  *)
LEMMA PrefixWhole ==
    ASSUME NEW s \in Seq(Stmt)
    PROVE  SubSeq(s, 1, Len(s)) = s
BY SubSeqFull, ZenonT(30)

(* A compiled statement, a spliced body and an unrolled loop extend the      *)
(* stream.                                                                   *)
LEMMA StreamExtends ==
    ASSUME NEW s \in Seq(Stmt)
    PROVE  /\ \A x \in Stmt : Extends(Append(s, x), s)
           /\ \A b \in Seq(Stmt) : Extends(Cat(s, b), s)
           /\ \A at \in Nat, count \in Nat \ {0} : at <= Len(s) => Extends(Unrolled(s, at, count), s)
<1>1. ASSUME NEW x \in Stmt PROVE Extends(Append(s, x), s)
  BY DEF Extends
<1>2. ASSUME NEW b \in Seq(Stmt) PROVE Extends(Cat(s, b), s)
  <2>1. Cat(s, b) \in Seq(Stmt) /\ Len(s) \in Nat /\ Len(b) \in Nat
    BY CatProperties, ZenonT(30)
  <2>2. Len(Cat(s, b)) = Len(s) + Len(b)
    BY CatProperties, ZenonT(30)
  <2>3. \A j \in 1 .. Len(s) : Cat(s, b)[j] = s[j]
    BY CatProperties, ZenonT(30)
  <2> QED BY <2>1, <2>2, <2>3 DEF Extends
<1>3. ASSUME NEW at \in Nat, NEW count \in Nat \ {0}, at <= Len(s) PROVE Extends(Unrolled(s, at, count), s)
  <2>1. Unrolled(s, at, count) \in Seq(Stmt) /\ Len(Unrolled(s, at, count)) >= Len(s)
    BY <1>3, UnrolledLemma
  <2>2. PICK u \in Seq(Stmt) : u = Unrolled(s, at, count)
    BY <2>1, ZenonT(30)
  <2>3. PICK n : u = [i \in 1 .. n |-> IF i <= Len(s) THEN s[i] ELSE s[at + 1 + ((i - at - 1) % (Len(s) - at))]]
    BY <2>2, ZenonT(30) DEF Unrolled
  <2>4. DOMAIN u = 1 .. n /\ DOMAIN u = 1 .. Len(u) /\ Len(u) \in Nat /\ Len(s) \in Nat /\ Len(u) >= Len(s)
    BY <2>1, <2>2, <2>3, LenProperties, ZenonT(30)
  <2>5. \A i \in 1 .. Len(s) : i \in 1 .. n /\ i <= Len(s)
    <3>1. \A i \in 1 .. Len(s) : i \in 1 .. Len(u) /\ i <= Len(s)
      BY <2>4
    <3> QED BY <2>4, <3>1, ZenonT(30)
  <2>6. \A i \in 1 .. Len(s) : u[i] = s[i]
    BY <2>3, <2>5, ZenonT(30)
  <2> QED BY <2>2, <2>4, <2>6, ZenonT(30) DEF Extends
<1> QED BY <1>1, <1>2, <1>3, ZenonT(30)
=============================================================================
