----------------------------- MODULE ExecProofs -----------------------------
(***************************************************************************)
(* What the two execution engines do with the code of any program, stated  *)
(* statement by statement.                                                 *)
(*                                                                         *)
(* The engines are recursive functions over the stream and the code is a   *)
(* fold over the statements, so these are proofs by induction over the     *)
(* primitives and the statements.                                          *)
(***************************************************************************)
EXTENDS Exec, StreamProofs

(* The steps that name no prover are for the SMT solver.                     *)
USE SMTT(30)

-----------------------------------------------------------------------------
(* The primitives a statement is compiled to.                                *)
Instr == [prim : {"lit"}, arg : Word] \cup [prim : {"load", "write", "halt"}]

(* What is emitted for a poke and for a peek.                                *)
LEMMA EmitType ==
    ASSUME NEW s \in Stmt
    PROVE  /\ Emit(s) \in Seq(Instr)
           /\ s.op = "poke" => /\ Len(Emit(s)) = 3 /\ Emit(s)[1] = lit(s.addr)
                               /\ Emit(s)[2] = lit(s.val) /\ Emit(s)[3] = prim("write")
           /\ s.op = "peek" => /\ Len(Emit(s)) = 2 /\ Emit(s)[1] = lit(s.addr)
                               /\ Emit(s)[2] = prim("load")
<1>1. s.addr \in Word /\ s.val \in Word /\ s.op \in {"poke", "peek"}
  BY ZenonT(30) DEF Stmt
<1>2. /\ lit(s.addr) \in Instr /\ lit(s.val) \in Instr
      /\ prim("write") \in Instr /\ prim("load") \in Instr
  BY <1>1, ZenonT(30) DEF Instr, lit, prim
<1>3. CASE s.op = "poke"
  <2>1. Emit(s) = <<lit(s.addr), lit(s.val), prim("write")>>
    BY <1>3, ZenonT(30) DEF Emit
  <2> QED BY <1>2, <1>3, <2>1
<1>4. CASE s.op = "peek"
  <2>1. Emit(s) = <<lit(s.addr), prim("load")>>
    BY <1>4, ZenonT(30) DEF Emit
  <2> QED BY <1>2, <1>4, <2>1
<1> QED BY <1>1, <1>3, <1>4, ZenonT(30)

(* The primitives that stand at c + 1, c + 2, ... for the statement s, and   *)
(* where the next statement starts.                                          *)
CompiledAt(code, c, d, s) ==
    /\ s.op = "poke" => /\ d = c + 3 /\ code[c + 1] = lit(s.addr)
                        /\ code[c + 2] = lit(s.val) /\ code[c + 3] = prim("write")
    /\ s.op = "peek" => /\ d = c + 2 /\ code[c + 1] = lit(s.addr) /\ code[c + 2] = prim("load")

(* The code of a program: that of its statements one after the other, and a  *)
(* halt.                                                                     *)
LEMMA CodePlaces ==
    ASSUME NEW prog \in Seq(Stmt)
    PROVE  \E at \in [0 .. Len(prog) -> Nat] :
               /\ at[0] = 0 /\ Len(Code(prog)) = at[Len(prog)] + 1
               /\ Code(prog)[at[Len(prog)] + 1] = prim("halt")
               /\ \A i \in 1 .. Len(prog) :
                     /\ at[i] <= at[Len(prog)]
                     /\ CompiledAt(Code(prog), at[i - 1], at[i], prog[i])
<1> DEFINE E == [i \in DOMAIN prog |-> Emit(prog[i])]
           N == Len(prog)
           F == Joined(E)
<1>1. N \in Nat /\ DOMAIN prog = 1 .. N /\ \A i \in 1 .. N : prog[i] \in Stmt
  BY LenProperties, ElementOfSeq, ZenonT(30)
<1>2. \A i \in 1 .. N : Emit(prog[i]) \in Seq(Instr)
  BY <1>1, EmitType, ZenonT(30)
<1> HIDE DEF N
<1>3. E \in Seq(Seq(Instr)) /\ Len(E) = N /\ \A i \in 1 .. N : E[i] = Emit(prog[i])
  BY <1>1, <1>2
<1> HIDE DEF E
<1>4. \E at \in [0 .. Len(E) -> Nat] :
          /\ at[0] = 0 /\ at[Len(E)] = Len(Joined(E))
          /\ \A i \in 1 .. Len(E) :
                /\ at[i] = at[i - 1] + Len(E[i])
                /\ at[i] <= at[Len(E)]
                /\ \A k \in 1 .. Len(E[i]) : Joined(E)[at[i - 1] + k] = E[i][k]
  <2>1. E \in Seq(Seq(Instr))
    BY <1>3, ZenonT(30)
  <2> QED BY <2>1, FlattenPlaces
<1>14. PICK at \in [0 .. N -> Nat] :
          /\ at[0] = 0 /\ at[N] = Len(F)
          /\ \A i \in 1 .. N :
                /\ at[i] = at[i - 1] + Len(E[i])
                /\ at[i] <= at[N]
                /\ \A k \in 1 .. Len(E[i]) : F[at[i - 1] + k] = E[i][k]
  BY <1>3, <1>4, ZenonT(30)
<1>5. F \in Seq(Instr)
  BY <1>3, FlattenPlaces, ZenonT(30)
<1>6. <<prim("halt")>> \in Seq(Instr) /\ Len(<<prim("halt")>>) = 1 /\ <<prim("halt")>>[1] = prim("halt")
  BY DEF prim, Instr
<1>7. Code(prog) = Cat(F, <<prim("halt")>>)
  BY ZenonT(30) DEF Code, Joined, E, Cat
<1> HIDE DEF F
<1>8. PICK h \in Seq(Instr) : h = <<prim("halt")>> /\ Len(h) = 1 /\ h[1] = prim("halt")
  BY <1>6, ZenonT(30)
<1>9. Len(F) \in Nat /\ Len(Code(prog)) = Len(F) + 1
  <2>1. Len(F) \in Nat /\ Len(Cat(F, h)) = Len(F) + Len(h)
    BY <1>5, CatProperties, ZenonT(30)
  <2> QED BY <1>7, <1>8, <2>1, ZenonT(30)
<1>10. \A j \in 1 .. Len(F) : Code(prog)[j] = F[j]
  <2>1. \A j \in 1 .. Len(F) : Cat(F, h)[j] = F[j]
    BY <1>5, CatProperties, ZenonT(30)
  <2> QED BY <1>7, <1>8, <2>1, ZenonT(30)
<1>11. Code(prog)[Len(F) + 1] = prim("halt")
  <2>1. \A j \in 1 .. Len(h) : Cat(F, h)[Len(F) + j] = h[j]
    BY <1>5, CatProperties
  <2> QED BY <1>7, <1>8, <2>1
<1>12. PICK code : code = Code(prog)
  BY ZenonT(30)
<1>13. ASSUME NEW i \in 1 .. N PROVE CompiledAt(code, at[i - 1], at[i], prog[i])
  <2>1. PICK s \in Stmt : s = prog[i]
    BY <1>1, ZenonT(30)
  <2>2. i - 1 \in 0 .. N /\ i \in 0 .. N
    BY <1>1
  <2>3. PICK c \in Nat, d \in Nat : c = at[i - 1] /\ d = at[i]
    BY <2>2, ZenonT(30)
  <2>4. PICK e \in Seq(Instr) : e = Emit(s) /\ e = E[i]
    BY <1>2, <1>3, <2>1, ZenonT(30)
  <2>5. PICK l \in Nat : l = Len(e)
    BY LenProperties, ZenonT(30)
  <2>6. d = c + l /\ d <= Len(F) /\ \A k \in 1 .. l : F[c + k] = e[k]
    BY <1>14, <2>3, <2>4, <2>5, ZenonT(30)
  <2>7. \A k \in 1 .. l : c + k \in 1 .. Len(F)
    BY <1>9, <2>6
  <2>8. \A k \in 1 .. l : code[c + k] = e[k]
    BY <1>10, <1>12, <2>6, <2>7, ZenonT(30)
  <2>9. CompiledAt(code, c, d, s)
    <3>1. CASE s.op = "poke"
      <4>1. l = 3 /\ e[1] = lit(s.addr) /\ e[2] = lit(s.val) /\ e[3] = prim("write")
        BY <2>4, <2>5, <3>1, EmitType, ZenonT(30)
      <4>2. 1 \in 1 .. l /\ 2 \in 1 .. l /\ 3 \in 1 .. l
        BY <4>1
      <4> QED BY <2>6, <2>8, <3>1, <4>1, <4>2, ZenonT(30) DEF CompiledAt
    <3>2. CASE s.op = "peek"
      <4>1. l = 2 /\ e[1] = lit(s.addr) /\ e[2] = prim("load")
        BY <2>4, <2>5, <3>2, EmitType, ZenonT(30)
      <4>2. 1 \in 1 .. l /\ 2 \in 1 .. l
        BY <4>1
      <4> QED BY <2>6, <2>8, <3>2, <4>1, <4>2, ZenonT(30) DEF CompiledAt
    <3>3. s.op \in {"poke", "peek"}
      BY ZenonT(30) DEF Stmt
    <3> QED BY <3>1, <3>2, <3>3, ZenonT(30)
  <2> QED BY <2>1, <2>3, <2>9, ZenonT(30)
<1> QED BY <1>14, <1>9, <1>11, <1>12, <1>13, ZenonT(30) DEF N

-----------------------------------------------------------------------------
(* A run of an engine over the code.                                         *)

NativeStart(m) == [acc |-> 0, scratch |-> 0, loaded |-> FALSE, mem |-> m, bus |-> <<>>]
Following(code, n) == code[IF n < Len(code) THEN n + 1 ELSE n]

(* compile_and_run executes the primitives one after the other.              *)
LEMMA NativeUnfolds ==
    ASSUME NEW code, NEW m, Len(code) \in Nat
    PROVE  \E run : /\ run[0] = NativeStart(m)
                    /\ \A n \in 1 .. Len(code) : run[n] = NativeStep(run[n - 1], code[n], Following(code, n))
                    /\ compile_and_run(code, m)
                         = [mem |-> run[Len(code)].mem, bus |-> run[Len(code)].bus, value |-> run[Len(code)].acc]
<1> DEFINE N == Len(code)
           Rec(g, n) == g[n] = IF n = 0 THEN NativeStart(m)
                                        ELSE NativeStep(g[n - 1], code[n], Following(code, n))
           Good(n) == \E g : \A i \in 0 .. n : Rec(g, i)
           T == {n \in 0 .. N : Good(n)}
<1>1. Good(0)
  <2> DEFINE g == [i \in 0 .. 0 |-> NativeStart(m)]
  <2>1. \A i \in 0 .. 0 : Rec(g, i)
    OBVIOUS
  <2> HIDE DEF g, Rec
  <2> QED BY <2>1, ZenonT(30)
<1>2. ASSUME NEW n \in 0 .. N - 1, Good(n) PROVE Good(n + 1)
  <2>1. PICK g : \A i \in 0 .. n : Rec(g, i)
    BY <1>2, ZenonT(30)
  <2> DEFINE h == [i \in 0 .. n + 1 |->
                      IF i = n + 1 THEN NativeStep(g[n], code[n + 1], Following(code, n + 1)) ELSE g[i]]
  <2>2. ASSUME NEW i \in 0 .. n + 1 PROVE Rec(h, i)
    <3>1. CASE i = n + 1
      BY <3>1
    <3>2. CASE i # n + 1
      <4>1. i \in 0 .. n /\ (i # 0 => i - 1 \in 0 .. n)
        BY <3>2
      <4>2. h[i] = g[i] /\ (i # 0 => h[i - 1] = g[i - 1])
        BY <4>1
      <4> HIDE DEF h
      <4> QED BY <2>1, <4>1, <4>2, ZenonT(30)
    <3> QED BY <3>1, <3>2, ZenonT(30)
  <2> HIDE DEF h, Rec
  <2> QED BY <2>2, ZenonT(30)
<1>3. Good(N)
  <2> HIDE DEF Good, N
  <2>0. N \in Nat
    BY ZenonT(30) DEF N
  <2>1. 0 \in T
    BY <1>1, <2>0
  <2>2. \A n \in 0 .. N - 1 : n \in T => n + 1 \in T
    BY <1>2, <2>0
  <2>3. \A n \in 0 .. N : n \in T
    BY <2>0, <2>1, <2>2, InductionUpTo, ZenonT(30)
  <2> QED BY <2>0, <2>3
<1>4. PICK g : \A i \in 0 .. N : Rec(g, i)
  BY <1>3, ZenonT(30)
<1> DEFINE k == [i \in 0 .. N |-> g[i]]
           Fix(h) == h = [i \in 0 .. N |-> IF i = 0 THEN NativeStart(m)
                                           ELSE NativeStep(h[i - 1], code[i], Following(code, i))]
           run == CHOOSE h : Fix(h)
<1>5. Fix(k)
  <2>1. \A i \in 0 .. N : i # 0 => i - 1 \in 0 .. N
    OBVIOUS
  <2>2. \A i \in 0 .. N : k[i] = IF i = 0 THEN NativeStart(m)
                                 ELSE NativeStep(k[i - 1], code[i], Following(code, i))
    BY <1>4, <2>1, ZenonT(30)
  <2> QED BY <2>2, ZenonT(30)
<1>6. Fix(run)
  <2> HIDE DEF k, Fix
  <2> QED BY <1>5, ZenonT(30)
<1>7. compile_and_run(code, m) = [mem |-> run[N].mem, bus |-> run[N].bus, value |-> run[N].acc]
  BY ZenonT(30) DEF compile_and_run, NativeStart, Following
<1> HIDE DEF run
<1>8. run[0] = NativeStart(m)
  BY <1>6
<1>9. \A n \in 1 .. N : run[n] = NativeStep(run[n - 1], code[n], Following(code, n))
  <2>1. \A n \in 1 .. N : n \in 0 .. N /\ n # 0
    OBVIOUS
  <2> QED BY <1>6, <2>1, ZenonT(30)
<1> QED BY <1>7, <1>8, <1>9, ZenonT(30)

-----------------------------------------------------------------------------
(* The native machine.                                                       *)

(* The states of the native machine, and what a statement makes of one: a    *)
(* poke goes to the accumulator's address once it is loaded.                 *)
Loaded(c, q, m, u) == [acc |-> c, scratch |-> q, loaded |-> TRUE, mem |-> m, bus |-> u]
Fresh(q, m, u) == [acc |-> 0, scratch |-> q, loaded |-> FALSE, mem |-> m, bus |-> u]
NativeShape(s) == (\E c, q, m, u : s = Loaded(c, q, m, u)) \/ (\E q, m, u : s = Fresh(q, m, u))
PokeTarget(s, a) == IF s.loaded THEN s.acc ELSE a
NativeAfter(s, x) ==
    IF x.op = "poke"
      THEN Loaded(PokeTarget(s, x.addr), x.val,
                  [s.mem EXCEPT ![PokeTarget(s, x.addr)] = x.val],
                  Append(s.bus, Write(PokeTarget(s, x.addr), x.val)))
      ELSE Loaded(s.mem[x.addr], x.addr, s.mem, Append(s.bus, Read(x.addr)))

(* The primitives tell themselves apart.                                     *)
LEMMA PrimFields ==
    ASSUME NEW a
    PROVE  /\ lit(a).prim = "lit" /\ lit(a).arg = a /\ prim("write").prim = "write"
           /\ prim("load").prim = "load" /\ prim("halt").prim = "halt"
BY ZenonT(30) DEF lit, prim

(* Once the accumulator is loaded a literal goes to the scratch register.    *)
LEMMA LoadedLit ==
    ASSUME NEW c, NEW q, NEW m, NEW u, NEW a, NEW y
    PROVE  NativeStep(Loaded(c, q, m, u), lit(a), y) = Loaded(c, a, m, u)
BY PrimFields, ZenonT(30) DEF NativeStep, Loaded

(* Before that, a literal followed by another goes to the accumulator,       *)
LEMMA FreshLit ==
    ASSUME NEW q, NEW m, NEW u, NEW a, NEW v
    PROVE  NativeStep(Fresh(q, m, u), lit(a), lit(v)) = Loaded(a, q, m, u)
BY PrimFields, ZenonT(30) DEF NativeStep, Loaded, Fresh

(* and one followed by a load to the scratch register.                       *)
LEMMA FreshLitLoad ==
    ASSUME NEW q, NEW m, NEW u, NEW a
    PROVE  NativeStep(Fresh(q, m, u), lit(a), prim("load")) = Fresh(a, m, u)
BY PrimFields, ZenonT(30) DEF NativeStep, Loaded, Fresh

(* A write stores the scratch register at the accumulator's address.         *)
LEMMA LoadedWrite ==
    ASSUME NEW c, NEW q, NEW m, NEW u, NEW y
    PROVE  NativeStep(Loaded(c, q, m, u), prim("write"), y)
             = Loaded(c, q, [m EXCEPT ![c] = q], Append(u, Write(c, q)))
<1>1. PICK w : w = Write(c, q)
  BY ZenonT(30)
<1> QED BY <1>1, PrimFields, ZenonT(30) DEF NativeStep, Loaded

(* A load reads the word at the scratch register's address.                  *)
LEMMA LoadedLoad ==
    ASSUME NEW c, NEW q, NEW m, NEW u, NEW y
    PROVE  NativeStep(Loaded(c, q, m, u), prim("load"), y) = Loaded(m[q], q, m, Append(u, Read(q)))
<1>1. PICK w : w = Read(q)
  BY ZenonT(30)
<1> QED BY <1>1, PrimFields, ZenonT(30) DEF NativeStep, Loaded

(* So does the first one.                                                    *)
LEMMA FreshLoad ==
    ASSUME NEW q, NEW m, NEW u, NEW y
    PROVE  NativeStep(Fresh(q, m, u), prim("load"), y) = Loaded(m[q], q, m, Append(u, Read(q)))
<1>1. PICK w : w = Read(q)
  BY ZenonT(30)
<1> QED BY <1>1, PrimFields, ZenonT(30) DEF NativeStep, Loaded, Fresh

(* Halting changes nothing.                                                  *)
LEMMA NativeHalt ==
    ASSUME NEW s, NEW y
    PROVE  NativeStep(s, prim("halt"), y) = s
BY PrimFields, ZenonT(30) DEF NativeStep

(* The two or three steps of a statement.                                    *)
LEMMA NativeBlock ==
    ASSUME NEW s, NativeShape(s), NEW x \in Stmt,
           NEW code, Len(code) \in Nat, NEW c \in Nat, NEW d \in Nat,
           CompiledAt(code, c, d, x), d < Len(code),
           NEW run, run[c] = s,
           \A n \in 1 .. Len(code) : run[n] = NativeStep(run[n - 1], code[n], Following(code, n))
    PROVE  run[d] = NativeAfter(s, x) /\ NativeShape(NativeAfter(s, x))
<1>1. PICK a, v : a = x.addr /\ v = x.val
  BY ZenonT(30)
<1>2. x.op \in {"poke", "peek"}
  BY ZenonT(30) DEF Stmt
<1>3. PICK m, u : m = s.mem /\ u = s.bus
  BY ZenonT(30)
<1>4. (\E k, q : s = Loaded(k, q, m, u)) \/ (\E q : s = Fresh(q, m, u))
  BY <1>3 DEF NativeShape, Loaded, Fresh
<1>6. PICK N \in Nat : N = Len(code)
  BY ZenonT(30)
<1>7. \A n \in 1 .. N : n < N => Following(code, n) = code[n + 1]
  BY <1>6, ZenonT(30) DEF Following
<1>8. CASE x.op = "poke"
  <2>1. /\ d = c + 3 /\ code[c + 1] = lit(a) /\ code[c + 2] = lit(v) /\ code[c + 3] = prim("write")
    BY <1>1, <1>8, ZenonT(30) DEF CompiledAt
  <2>2. /\ c + 1 \in 1 .. N /\ c + 2 \in 1 .. N /\ c + 3 \in 1 .. N
        /\ (c + 1) - 1 = c /\ (c + 2) - 1 = c + 1 /\ (c + 3) - 1 = c + 2
        /\ c + 1 < N /\ c + 2 < N /\ (c + 1) + 1 = c + 2 /\ (c + 2) + 1 = c + 3
    BY <1>6, <2>1
  <2>3. Following(code, c + 1) = lit(v) /\ Following(code, c + 2) = prim("write")
    BY <1>7, <2>1, <2>2, ZenonT(30)
  <2>4. PICK r1, r2, f3 :
           /\ r1 = NativeStep(s, lit(a), lit(v))
           /\ r2 = NativeStep(r1, lit(v), prim("write"))
           /\ run[d] = NativeStep(r2, prim("write"), f3)
    BY <1>6, <2>1, <2>2, <2>3
  <2>5. PICK t : t = PokeTarget(s, a)
    BY ZenonT(30)
  <2>6. \E p : r1 = Loaded(t, p, m, u)
    <3>1. CASE \E k, q : s = Loaded(k, q, m, u)
      <4>1. PICK k, q : s = Loaded(k, q, m, u)
        BY <3>1, ZenonT(30)
      <4>2. t = k
        BY <2>5, <4>1 DEF PokeTarget, Loaded
      <4> QED BY <2>4, <4>1, <4>2, LoadedLit
    <3>2. CASE \E q : s = Fresh(q, m, u)
      <4>1. PICK q : s = Fresh(q, m, u)
        BY <3>2, ZenonT(30)
      <4>2. t = a
        BY <2>5, <4>1 DEF PokeTarget, Fresh
      <4> QED BY <2>4, <4>1, <4>2, FreshLit
    <3> QED BY <1>4, <3>1, <3>2, ZenonT(30)
  <2>7. r2 = Loaded(t, v, m, u)
    BY <2>4, <2>6, LoadedLit
  <2>8. run[d] = Loaded(t, v, [m EXCEPT ![t] = v], Append(u, Write(t, v)))
    <3>1. NativeStep(Loaded(t, v, m, u), prim("write"), f3)
            = Loaded(t, v, [m EXCEPT ![t] = v], Append(u, Write(t, v)))
      BY ONLY LoadedWrite, ZenonT(30)
    <3> QED BY <2>4, <2>7, <3>1, ZenonT(30)
  <2>10. NativeAfter(s, x) = Loaded(t, v, [m EXCEPT ![t] = v], Append(u, Write(t, v)))
    BY <1>1, <1>3, <1>8, <2>5, ZenonT(30) DEF NativeAfter
  <2> QED BY <2>8, <2>10, ZenonT(30) DEF NativeShape
<1>9. CASE x.op = "peek"
  <2>1. d = c + 2 /\ code[c + 1] = lit(a) /\ code[c + 2] = prim("load")
    BY <1>1, <1>9, ZenonT(30) DEF CompiledAt
  <2>2. /\ c + 1 \in 1 .. N /\ c + 2 \in 1 .. N /\ (c + 1) - 1 = c /\ (c + 2) - 1 = c + 1
        /\ c + 1 < N /\ (c + 1) + 1 = c + 2
    BY <1>6, <2>1
  <2>3. Following(code, c + 1) = prim("load")
    BY <1>7, <2>1, <2>2, ZenonT(30)
  <2>4. PICK r1, f2 : /\ r1 = NativeStep(s, lit(a), prim("load"))
                      /\ run[d] = NativeStep(r1, prim("load"), f2)
    BY <1>6, <2>1, <2>2, <2>3, ZenonT(30)
  <2>5. (\E k : r1 = Loaded(k, a, m, u)) \/ r1 = Fresh(a, m, u)
    BY <1>4, <2>4, LoadedLit, FreshLitLoad
  <2>6. run[d] = Loaded(m[a], a, m, Append(u, Read(a)))
    BY <2>4, <2>5, LoadedLoad, FreshLoad
  <2>7. NativeAfter(s, x) = Loaded(m[a], a, m, Append(u, Read(a)))
    BY <1>1, <1>3, <1>9, ZenonT(30) DEF NativeAfter
  <2> QED BY <2>6, <2>7, ZenonT(30) DEF NativeShape
<1> QED BY <1>2, <1>8, <1>9, ZenonT(30)

(* What the native code of a program does, statement by statement.           *)
LEMMA NativeRun ==
    ASSUME NEW prog \in Seq(Stmt), NEW m
    PROVE  \E st : /\ st[0] = NativeStart(m)
                   /\ \A i \in 1 .. Len(prog) : st[i] = NativeAfter(st[i - 1], prog[i])
                   /\ compile_and_run(Code(prog), m)
                        = [mem |-> st[Len(prog)].mem, bus |-> st[Len(prog)].bus, value |-> st[Len(prog)].acc]
<1>1. PICK N \in Nat : N = Len(prog) /\ \A i \in 1 .. N : prog[i] \in Stmt
  BY LenProperties, ElementOfSeq, ZenonT(30)
<1>2. PICK code : code = Code(prog)
  BY ZenonT(30)
<1>3. PICK at \in [0 .. N -> Nat] :
          /\ at[0] = 0 /\ Len(code) = at[N] + 1 /\ code[at[N] + 1] = prim("halt")
          /\ \A i \in 1 .. N : at[i] <= at[N] /\ CompiledAt(code, at[i - 1], at[i], prog[i])
  BY <1>1, <1>2, CodePlaces, ZenonT(30)
<1>4. Len(code) \in Nat /\ at[N] \in Nat
  BY <1>3
<1>5. PICK run :
          /\ run[0] = NativeStart(m)
          /\ \A n \in 1 .. Len(code) : run[n] = NativeStep(run[n - 1], code[n], Following(code, n))
          /\ compile_and_run(code, m)
               = [mem |-> run[Len(code)].mem, bus |-> run[Len(code)].bus, value |-> run[Len(code)].acc]
  BY <1>4, NativeUnfolds, ZenonT(30)
<1> DEFINE st == [i \in 0 .. N |-> run[at[i]]]
           Good(i) == NativeShape(run[at[i]]) /\ (i > 0 => run[at[i]] = NativeAfter(run[at[i - 1]], prog[i]))
           T == {i \in 0 .. N : Good(i)}
<1>6. Good(0)
  <2>1. NativeStart(m) = Fresh(0, m, <<>>)
    BY ZenonT(30) DEF NativeStart, Fresh
  <2>2. NativeShape(NativeStart(m))
    BY <2>1, ZenonT(30) DEF NativeShape
  <2> QED BY <1>3, <1>5, <2>2
<1>7. ASSUME NEW i \in 0 .. N - 1, Good(i) PROVE Good(i + 1)
  <2>1. i + 1 \in 1 .. N /\ (i + 1) - 1 = i /\ i \in 0 .. N /\ i + 1 \in 0 .. N
    OBVIOUS
  <2>2. PICK c \in Nat, d \in Nat : c = at[i] /\ d = at[i + 1]
    BY <1>3, <2>1, ZenonT(30)
  <2>3. CompiledAt(code, c, d, prog[i + 1]) /\ d < Len(code)
    BY <1>3, <1>4, <2>1, <2>2
  <2>4. prog[i + 1] \in Stmt /\ NativeShape(run[c])
    BY <1>1, <1>7, <2>1, <2>2, ZenonT(30)
  <2>5. run[d] = NativeAfter(run[c], prog[i + 1]) /\ NativeShape(NativeAfter(run[c], prog[i + 1]))
    BY <1>4, <1>5, <2>3, <2>4, NativeBlock
  <2> QED BY <2>1, <2>2, <2>5, ZenonT(30)
<1>8. \A i \in 0 .. N : Good(i)
  <2> HIDE DEF Good
  <2>1. 0 \in T /\ \A i \in 0 .. N - 1 : i \in T => i + 1 \in T
    BY <1>6, <1>7
  <2>2. \A i \in 0 .. N : i \in T
    BY <2>1, InductionUpTo, ZenonT(30)
  <2> QED BY <2>2, ZenonT(30)
<1>9. st[0] = NativeStart(m)
  BY <1>3, <1>5
<1>10. \A i \in 1 .. N : st[i] = NativeAfter(st[i - 1], prog[i])
  <2> SUFFICES ASSUME NEW i \in 1 .. N PROVE st[i] = NativeAfter(st[i - 1], prog[i])
    BY ZenonT(30)
  <2>1. i \in 0 .. N /\ i - 1 \in 0 .. N /\ i > 0
    OBVIOUS
  <2> QED BY <1>8, <2>1, ZenonT(30)
<1>11. run[Len(code)] = st[N]
  <2>1. PICK c \in Nat : c = at[N]
    BY <1>4, ZenonT(30)
  <2>2. c + 1 \in 1 .. Len(code) /\ (c + 1) - 1 = c /\ Len(code) = c + 1
    BY <1>3, <2>1
  <2>3. run[c + 1] = NativeStep(run[c], prim("halt"), Following(code, c + 1))
    BY <1>3, <1>5, <2>1, <2>2, ZenonT(30)
  <2>5. NativeStep(run[c], prim("halt"), Following(code, c + 1)) = run[c]
    BY NativeHalt, ZenonT(30)
  <2>6. st[N] = run[c]
    BY <2>1
  <2> QED BY <2>2, <2>3, <2>5, <2>6, ZenonT(30)
<1> HIDE DEF st
<1> QED BY <1>1, <1>2, <1>5, <1>9, <1>10, <1>11, ZenonT(30)

-----------------------------------------------------------------------------
(* What a native run leaves on the bus and in memory.                        *)

BusOp == [op : {"read"}, addr : Word] \cup [op : {"write"}, addr : Word, val : Word]

(* The access that a statement makes: a peek reads the address it names, a   *)
(* poke writes the value it names.                                           *)
AccessOf(b, x) ==
    /\ x.op = "peek" => b = Read(x.addr)
    /\ x.op = "poke" => \E a \in Word : b = Write(a, x.val)

(* One more access on the bus.                                               *)
LEMMA AppendAccess ==
    ASSUME NEW u \in Seq(BusOp), NEW b \in BusOp
    PROVE  /\ Append(u, b) \in Seq(BusOp) /\ Len(Append(u, b)) = Len(u) + 1
           /\ Append(u, b)[Len(u) + 1] = b
           /\ \A k \in 1 .. Len(u) : Append(u, b)[k] = u[k]
OBVIOUS

(* A native run makes one access for every statement, in order, reads only   *)
(* addresses that the program names, and writes only values that it names.   *)
THEOREM NativeAccesses ==
    ASSUME NEW prog \in Seq(Stmt), NEW m \in [Word -> Word]
    PROVE  LET out == compile_and_run(Code(prog), m)
           IN  /\ out.mem \in [Word -> Word]
               /\ out.bus \in Seq(BusOp)
               /\ Len(out.bus) = Len(prog)
               /\ \A k \in 1 .. Len(prog) : AccessOf(out.bus[k], prog[k])
<1>1. PICK N \in Nat : N = Len(prog) /\ \A i \in 1 .. N : prog[i] \in Stmt
  BY LenProperties, ElementOfSeq, ZenonT(30)
<1>2. PICK st : /\ st[0] = NativeStart(m)
                /\ \A i \in 1 .. N : st[i] = NativeAfter(st[i - 1], prog[i])
                /\ compile_and_run(Code(prog), m)
                     = [mem |-> st[N].mem, bus |-> st[N].bus, value |-> st[N].acc]
  BY <1>1, NativeRun, ZenonT(30)
<1> DEFINE Good(i) == /\ st[i].mem \in [Word -> Word]
                      /\ st[i].loaded => st[i].acc \in Word
                      /\ st[i].bus \in Seq(BusOp) /\ Len(st[i].bus) = i
                      /\ \A k \in 1 .. i : AccessOf(st[i].bus[k], prog[k])
           T == {i \in 0 .. N : Good(i)}
<1>3. Good(0)
  <2>1. <<>> \in Seq(BusOp) /\ Len(<<>>) = 0
    OBVIOUS
  <2>2. st[0].mem = m /\ st[0].loaded = FALSE /\ st[0].bus = <<>>
    BY <1>2 DEF NativeStart
  <2> QED BY <2>1, <2>2
<1>4. ASSUME NEW i \in 0 .. N - 1, Good(i) PROVE Good(i + 1)
  <2>1. i + 1 \in 1 .. N /\ (i + 1) - 1 = i
    OBVIOUS
  <2>2. PICK s, x, r : s = st[i] /\ x = prog[i + 1] /\ r = st[i + 1]
    BY ZenonT(30)
  <2>3. r = NativeAfter(s, x) /\ x \in Stmt
    BY <1>1, <1>2, <2>1, <2>2, ZenonT(30)
  <2>4. x.op \in {"poke", "peek"} /\ x.addr \in Word /\ x.val \in Word
    BY <2>3, ZenonT(30) DEF Stmt
  <2>5. PICK mm \in [Word -> Word] : mm = s.mem
    BY <1>4, <2>2, ZenonT(30)
  <2>6. PICK u \in Seq(BusOp) : u = s.bus /\ Len(u) = i /\ \A k \in 1 .. i : AccessOf(u[k], prog[k])
    BY <1>4, <2>2, ZenonT(30)
  <2>7. \E b \in BusOp : /\ r.bus = Append(u, b) /\ AccessOf(b, x)
                         /\ r.mem \in [Word -> Word] /\ r.loaded = TRUE /\ r.acc \in Word
    <3>1. CASE x.op = "poke"
      <4>1. PICK t \in Word : t = PokeTarget(s, x.addr)
        BY <1>4, <2>2, <2>4, ZenonT(30) DEF PokeTarget
      <4>2. Write(t, x.val) \in BusOp
        BY <2>4, ZenonT(30) DEF Write, BusOp
      <4>3. PICK b \in BusOp : b = Write(t, x.val)
        BY <4>2, ZenonT(30)
      <4>4. AccessOf(b, x)
        BY <3>1, <4>3, ZenonT(30) DEF AccessOf
      <4>5. r = Loaded(t, x.val, [mm EXCEPT ![t] = x.val], Append(u, b))
        BY <2>3, <2>5, <2>6, <3>1, <4>1, <4>3, ZenonT(30) DEF NativeAfter
      <4>6. [mm EXCEPT ![t] = x.val] \in [Word -> Word]
        BY <2>4, ZenonT(30)
      <4> QED BY <4>4, <4>5, <4>6, ZenonT(30) DEF Loaded
    <3>2. CASE x.op = "peek"
      <4>2. Read(x.addr) \in BusOp
        BY <2>4, ZenonT(30) DEF Read, BusOp
      <4>3. PICK b \in BusOp : b = Read(x.addr)
        BY <4>2, ZenonT(30)
      <4>4. AccessOf(b, x)
        BY <3>2, <4>3, ZenonT(30) DEF AccessOf
      <4>5. r = Loaded(mm[x.addr], x.addr, mm, Append(u, b))
        BY <2>3, <2>5, <2>6, <3>2, <4>3, ZenonT(30) DEF NativeAfter
      <4>6. mm[x.addr] \in Word
        BY <2>4, ZenonT(30)
      <4> QED BY <4>4, <4>5, <4>6, ZenonT(30) DEF Loaded
    <3> QED BY <2>4, <3>1, <3>2, ZenonT(30)
  <2>8. PICK b \in BusOp : /\ r.bus = Append(u, b) /\ AccessOf(b, x)
                           /\ r.mem \in [Word -> Word] /\ r.loaded = TRUE /\ r.acc \in Word
    BY <2>7, ZenonT(30)
  <2>9. PICK w : w = Append(u, b)
    BY ZenonT(30)
  <2>10. /\ w \in Seq(BusOp) /\ Len(w) = i + 1 /\ w[i + 1] = b
         /\ \A k \in 1 .. i : w[k] = u[k]
    BY <2>6, <2>9, AppendAccess, ZenonT(30)
  <2>11. \A k \in 1 .. i + 1 : AccessOf(w[k], prog[k])
    <3> TAKE k \in 1 .. i + 1
    <3>1. CASE k = i + 1
      BY <2>2, <2>8, <2>10, <3>1, ZenonT(30)
    <3>2. CASE k # i + 1
      <4>1. k \in 1 .. i
        BY <3>2
      <4> QED BY <2>6, <2>10, <4>1, ZenonT(30)
    <3> QED BY <3>1, <3>2, ZenonT(30)
  <2> QED BY <2>2, <2>8, <2>9, <2>10, <2>11, ZenonT(30)
<1>5. Good(N)
  <2> HIDE DEF Good
  <2>1. 0 \in T /\ \A i \in 0 .. N - 1 : i \in T => i + 1 \in T
    BY <1>3, <1>4
  <2>2. \A i \in 0 .. N : i \in T
    BY <2>1, InductionUpTo, ZenonT(30)
  <2> QED BY <2>2
<1> QED BY <1>1, <1>2, <1>5

-----------------------------------------------------------------------------
(* The threaded interpreter.                                                 *)

(* The contents of memory.                                                   *)
Memory == [Word -> Word]

Threaded(k, m, u) == [stack |-> k, mem |-> m, bus |-> u]

(* What the interpreter makes of a statement while its stack has room.       *)
ThreadedAfter(s, x) ==
    IF x.op = "poke"
      THEN Threaded(s.stack, [s.mem EXCEPT ![x.addr] = x.val], Append(s.bus, Write(x.addr, x.val)))
      ELSE Threaded(Append(s.stack, s.mem[x.addr]), s.mem, Append(s.bus, Read(x.addr)))
Room(s, x) ==
    /\ x.op = "poke" => Len(s.stack) + 2 <= VmStackSize
    /\ x.op = "peek" => Len(s.stack) + 1 <= VmStackSize

(* What is pushed while there is room is what is popped.                     *)
LEMMA PushPop ==
    ASSUME VmStackSize \in Nat, NEW S, NEW q \in Seq(S), NEW a \in S, Len(q) < VmStackSize
    PROVE  /\ vm_push(q, a) = Append(q, a) /\ vm_push(q, a) \in Seq(S)
           /\ Len(vm_push(q, a)) = Len(q) + 1
           /\ vm_top(vm_push(q, a)) = a
           /\ vm_drop(vm_push(q, a)) = q
<1>1. PICK w : w = Append(q, a)
  BY ZenonT(30)
<1>2. w \in Seq(S) /\ Len(w) = Len(q) + 1 /\ w[Len(q) + 1] = a /\ w # <<>> /\ Len(q) \in Nat
  BY <1>1
<1>3. vm_push(q, a) = w
  BY <1>1, <1>2 DEF vm_push
<1>4. vm_top(w) = a
  BY <1>2, ZenonT(30) DEF vm_top
<1>5. SubSeq(w, 1, Len(q)) = q
  BY <1>1
<1>6. vm_drop(w) = q
  BY <1>2, <1>5 DEF vm_drop
<1> QED BY <1>1, <1>2, <1>3, <1>4, <1>6, ZenonT(30)

(* The interpreter pushes a literal,                                         *)
LEMMA ThreadedLit ==
    ASSUME NEW k, NEW m, NEW u, NEW a
    PROVE  ThreadedStep(Threaded(k, m, u), lit(a)) = Threaded(vm_push(k, a), m, u)
BY PrimFields, ZenonT(30) DEF ThreadedStep, Threaded

(* replaces an address by the word it reads there,                           *)
LEMMA ThreadedLoad ==
    ASSUME NEW k, NEW m, NEW u
    PROVE  ThreadedStep(Threaded(k, m, u), prim("load"))
             = Threaded(vm_push(vm_drop(k), m[vm_top(k)]), m, Append(u, Read(vm_top(k))))
<1>1. PICK t, b : t = vm_top(k) /\ b = vm_drop(k)
  BY ZenonT(30)
<1>2. PICK w : w = Read(t)
  BY ZenonT(30)
<1> QED BY <1>1, <1>2, PrimFields, ZenonT(30) DEF ThreadedStep, Threaded

(* takes a value and an address off the stack for a write,                   *)
LEMMA ThreadedWrite ==
    ASSUME NEW k, NEW m, NEW u
    PROVE  ThreadedStep(Threaded(k, m, u), prim("write"))
             = Threaded(vm_drop(vm_drop(k)), [m EXCEPT ![vm_top(vm_drop(k))] = vm_top(k)],
                        Append(u, Write(vm_top(vm_drop(k)), vm_top(k))))
<1>1. PICK t, b : t = vm_top(k) /\ b = vm_drop(k)
  BY ZenonT(30)
<1>2. PICK t2, b2 : t2 = vm_top(b) /\ b2 = vm_drop(b)
  BY ZenonT(30)
<1>3. PICK w : w = Write(t2, t)
  BY ZenonT(30)
<1> QED BY <1>1, <1>2, <1>3, PrimFields, ZenonT(30) DEF ThreadedStep, Threaded

(* and stops.                                                                *)
LEMMA ThreadedHalt ==
    ASSUME NEW s
    PROVE  ThreadedStep(s, prim("halt")) = s
BY PrimFields, ZenonT(30) DEF ThreadedStep

(* The two or three steps of a statement.                                    *)
LEMMA ThreadedBlock ==
    ASSUME VmStackSize \in Nat,
           NEW q \in Seq(Word), NEW m \in Memory, NEW u, NEW x \in Stmt,
           Room(Threaded(q, m, u), x),
           NEW code, Len(code) \in Nat, NEW c \in Nat, NEW d \in Nat,
           CompiledAt(code, c, d, x), d < Len(code),
           NEW run, run[c] = Threaded(q, m, u),
           \A n \in 1 .. Len(code) : run[n] = ThreadedStep(run[n - 1], code[n])
    PROVE  run[d] = ThreadedAfter(Threaded(q, m, u), x)
<1>1. PICK a \in Word, v \in Word : a = x.addr /\ v = x.val
  BY ZenonT(30) DEF Stmt
<1>2. x.op \in {"poke", "peek"}
  BY ZenonT(30) DEF Stmt
<1>3. PICK s : s = Threaded(q, m, u)
  BY ZenonT(30)
<1>4. s.stack = q /\ s.mem = m /\ s.bus = u
  BY <1>3, ZenonT(30) DEF Threaded
<1>5. PICK l \in Nat : l = Len(q)
  BY LenProperties, ZenonT(30)
<1>6. PICK N \in Nat : N = Len(code)
  BY ZenonT(30)
<1>8. CASE x.op = "poke"
  <2>1. /\ d = c + 3 /\ code[c + 1] = lit(a) /\ code[c + 2] = lit(v) /\ code[c + 3] = prim("write")
    BY <1>1, <1>8, ZenonT(30) DEF CompiledAt
  <2>2. /\ c + 1 \in 1 .. N /\ c + 2 \in 1 .. N /\ c + 3 \in 1 .. N
        /\ (c + 1) - 1 = c /\ (c + 2) - 1 = c + 1 /\ (c + 3) - 1 = c + 2
    BY <1>6, <2>1
  <2>3. PICK r1, r2 : /\ r1 = ThreadedStep(s, lit(a)) /\ r2 = ThreadedStep(r1, lit(v))
                      /\ run[d] = ThreadedStep(r2, prim("write"))
    BY <1>3, <1>6, <2>1, <2>2
  <2>4. l + 2 <= VmStackSize
    BY <1>3, <1>4, <1>5, <1>8, ZenonT(30) DEF Room
  <2>5. PICK k1 \in Seq(Word) : k1 = vm_push(q, a) /\ Len(k1) = l + 1 /\ vm_top(k1) = a /\ vm_drop(k1) = q
    <3>1. Len(q) < VmStackSize
      BY <1>5, <2>4
    <3> QED BY <1>5, <3>1, PushPop, ZenonT(30)
  <2>6. PICK k2 \in Seq(Word) : k2 = vm_push(k1, v) /\ vm_top(k2) = v /\ vm_drop(k2) = k1
    <3>1. Len(k1) < VmStackSize
      BY <2>4, <2>5
    <3> QED BY <3>1, PushPop, ZenonT(30)
  <2>7. r1 = Threaded(k1, m, u)
    BY <1>3, <2>3, <2>5, ThreadedLit
  <2>8. r2 = Threaded(k2, m, u)
    BY <2>3, <2>6, <2>7, ThreadedLit
  <2>9. run[d] = Threaded(q, [m EXCEPT ![a] = v], Append(u, Write(a, v)))
    <3>1. ThreadedStep(Threaded(k2, m, u), prim("write"))
             = Threaded(vm_drop(vm_drop(k2)), [m EXCEPT ![vm_top(vm_drop(k2))] = vm_top(k2)],
                        Append(u, Write(vm_top(vm_drop(k2)), vm_top(k2))))
      BY ONLY ThreadedWrite, ZenonT(30)
    <3> QED BY <2>3, <2>5, <2>6, <2>8, <3>1, ZenonT(30)
  <2> QED BY <1>1, <1>3, <1>4, <1>8, <2>9, ZenonT(30) DEF ThreadedAfter
<1>9. CASE x.op = "peek"
  <2>1. d = c + 2 /\ code[c + 1] = lit(a) /\ code[c + 2] = prim("load")
    BY <1>1, <1>9, ZenonT(30) DEF CompiledAt
  <2>2. /\ c + 1 \in 1 .. N /\ c + 2 \in 1 .. N /\ (c + 1) - 1 = c /\ (c + 2) - 1 = c + 1
    BY <1>6, <2>1
  <2>3. PICK r1 : r1 = ThreadedStep(s, lit(a)) /\ run[d] = ThreadedStep(r1, prim("load"))
    BY <1>3, <1>6, <2>1, <2>2, ZenonT(30)
  <2>4. Len(q) < VmStackSize
    BY <1>3, <1>4, <1>5, <1>9 DEF Room
  <2>5. PICK k1 \in Seq(Word) : k1 = vm_push(q, a) /\ vm_top(k1) = a /\ vm_drop(k1) = q
    BY <2>4, PushPop, ZenonT(30)
  <2>6. vm_push(q, m[a]) = Append(q, m[a])
    BY <2>4 DEF vm_push, Memory
  <2>7. r1 = Threaded(k1, m, u)
    BY <1>3, <2>3, <2>5, ThreadedLit
  <2>8. run[d] = Threaded(Append(q, m[a]), m, Append(u, Read(a)))
    <3>1. ThreadedStep(Threaded(k1, m, u), prim("load"))
             = Threaded(vm_push(vm_drop(k1), m[vm_top(k1)]), m, Append(u, Read(vm_top(k1))))
      BY ONLY ThreadedLoad, SMTT(30)
    <3> QED BY <2>3, <2>5, <2>6, <2>7, <3>1, ZenonT(30)
  <2> QED BY <1>1, <1>3, <1>4, <1>9, <2>8, ZenonT(30) DEF ThreadedAfter
<1> QED BY <1>2, <1>8, <1>9, ZenonT(30)

(* run_threaded_stream executes the primitives one after the other.          *)
LEMMA ThreadedUnfolds ==
    ASSUME NEW code, NEW m, Len(code) \in Nat
    PROVE  \E run : /\ run[0] = Threaded(<<>>, m, <<>>)
                    /\ \A n \in 1 .. Len(code) : run[n] = ThreadedStep(run[n - 1], code[n])
                    /\ RunThreaded(code, m)
                         = [mem |-> run[Len(code)].mem, bus |-> run[Len(code)].bus, value |-> vm_top(run[Len(code)].stack)]
<1> DEFINE N == Len(code)
           Rec(g, n) == g[n] = IF n = 0 THEN Threaded(<<>>, m, <<>>)
                                        ELSE ThreadedStep(g[n - 1], code[n])
           Good(n) == \E g : \A i \in 0 .. n : Rec(g, i)
           T == {n \in 0 .. N : Good(n)}
<1>1. Good(0)
  <2> DEFINE g == [i \in 0 .. 0 |-> Threaded(<<>>, m, <<>>)]
  <2>1. \A i \in 0 .. 0 : Rec(g, i)
    OBVIOUS
  <2> HIDE DEF g, Rec
  <2> QED BY <2>1, ZenonT(30)
<1>2. ASSUME NEW n \in 0 .. N - 1, Good(n) PROVE Good(n + 1)
  <2>1. PICK g : \A i \in 0 .. n : Rec(g, i)
    BY <1>2, ZenonT(30)
  <2> DEFINE h == [i \in 0 .. n + 1 |->
                      IF i = n + 1 THEN ThreadedStep(g[n], code[n + 1]) ELSE g[i]]
  <2>2. ASSUME NEW i \in 0 .. n + 1 PROVE Rec(h, i)
    <3>1. CASE i = n + 1
      BY <3>1
    <3>2. CASE i # n + 1
      <4>1. i \in 0 .. n /\ (i # 0 => i - 1 \in 0 .. n)
        BY <3>2
      <4>2. h[i] = g[i] /\ (i # 0 => h[i - 1] = g[i - 1])
        BY <4>1
      <4> HIDE DEF h
      <4> QED BY <2>1, <4>1, <4>2, ZenonT(30)
    <3> QED BY <3>1, <3>2, ZenonT(30)
  <2> HIDE DEF h, Rec
  <2> QED BY <2>2, ZenonT(30)
<1>3. Good(N)
  <2> HIDE DEF Good, N
  <2>0. N \in Nat
    BY ZenonT(30) DEF N
  <2>1. 0 \in T
    BY <1>1, <2>0
  <2>2. \A n \in 0 .. N - 1 : n \in T => n + 1 \in T
    BY <1>2, <2>0
  <2>3. \A n \in 0 .. N : n \in T
    BY <2>0, <2>1, <2>2, InductionUpTo, ZenonT(30)
  <2> QED BY <2>0, <2>3
<1>4. PICK g : \A i \in 0 .. N : Rec(g, i)
  BY <1>3, ZenonT(30)
<1> DEFINE k == [i \in 0 .. N |-> g[i]]
           Fix(h) == h = [i \in 0 .. N |-> IF i = 0 THEN Threaded(<<>>, m, <<>>)
                                           ELSE ThreadedStep(h[i - 1], code[i])]
           run == CHOOSE h : Fix(h)
<1>5. Fix(k)
  <2>1. \A i \in 0 .. N : i # 0 => i - 1 \in 0 .. N
    OBVIOUS
  <2>2. \A i \in 0 .. N : k[i] = IF i = 0 THEN Threaded(<<>>, m, <<>>)
                                 ELSE ThreadedStep(k[i - 1], code[i])
    BY <1>4, <2>1, ZenonT(30)
  <2> QED BY <2>2, ZenonT(30)
<1>6. Fix(run)
  <2> HIDE DEF k, Fix
  <2> QED BY <1>5, ZenonT(30)
<1>7. RunThreaded(code, m) = [mem |-> run[N].mem, bus |-> run[N].bus, value |-> vm_top(run[N].stack)]
  BY ZenonT(30) DEF RunThreaded, Threaded
<1> HIDE DEF run
<1>8. run[0] = Threaded(<<>>, m, <<>>)
  BY <1>6
<1>9. \A n \in 1 .. N : run[n] = ThreadedStep(run[n - 1], code[n])
  <2>1. \A n \in 1 .. N : n \in 0 .. N /\ n # 0
    OBVIOUS
  <2> QED BY <1>6, <2>1, ZenonT(30)
<1> QED BY <1>7, <1>8, <1>9, ZenonT(30)

(* The states of the interpreter.                                            *)
Interpreting(s) == s.stack \in Seq(Word) /\ s.mem \in Memory /\ s = Threaded(s.stack, s.mem, s.bus)

(* A statement leaves a state of the interpreter, at most one word higher.   *)
LEMMA ThreadedAfterType ==
    ASSUME NEW s, Interpreting(s), NEW x \in Stmt
    PROVE  /\ Interpreting(ThreadedAfter(s, x))
           /\ x.op = "poke" => ThreadedAfter(s, x).stack = s.stack
           /\ Len(ThreadedAfter(s, x).stack) <= Len(s.stack) + 1
<1>1. PICK q \in Seq(Word), m \in Memory : q = s.stack /\ m = s.mem
  BY ZenonT(30) DEF Interpreting
<1>2. PICK u : u = s.bus
  BY ZenonT(30)
<1>3. x.op \in {"poke", "peek"} /\ x.addr \in Word /\ x.val \in Word
  BY ZenonT(30) DEF Stmt
<1>4. Len(q) \in Nat
  BY LenProperties, ZenonT(30)
<1>5. CASE x.op = "poke"
  <2>0. PICK m2 \in Memory : m2 = [m EXCEPT ![x.addr] = x.val]
    BY <1>3, ZenonT(30) DEF Memory
  <2>1. PICK u2 : u2 = Append(u, Write(x.addr, x.val))
    BY ZenonT(30)
  <2>2. ThreadedAfter(s, x) = Threaded(q, m2, u2)
    BY <1>1, <1>2, <1>5, <2>0, <2>1, ZenonT(30) DEF ThreadedAfter
  <2> QED BY <1>1, <1>4, <2>2 DEF Threaded, Interpreting
<1>6. CASE x.op = "peek"
  <2>1. PICK q2, u2 : q2 = Append(q, m[x.addr]) /\ u2 = Append(u, Read(x.addr))
    BY ZenonT(30)
  <2>2. q2 \in Seq(Word) /\ Len(q2) = Len(q) + 1
    BY <1>3, <2>1 DEF Memory
  <2>3. ThreadedAfter(s, x) = Threaded(q2, m, u2)
    BY <1>1, <1>2, <1>6, <2>1, ZenonT(30) DEF ThreadedAfter
  <2> QED BY <1>1, <1>4, <1>6, <2>2, <2>3 DEF Threaded, Interpreting
<1> QED BY <1>3, <1>5, <1>6, ZenonT(30)

(* A program whose values never fill the interpreter's stack: a value stays  *)
(* on it for every peek, and a poke needs two more places.                   *)
Roomy(prog) ==
    \A i \in 1 .. Len(prog) :
        /\ prog[i].op = "peek" => i <= VmStackSize
        /\ prog[i].op = "poke" => \/ i + 1 <= VmStackSize
                                  \/ 2 <= VmStackSize /\ \A j \in 1 .. i - 1 : prog[j].op = "poke"

(* What the interpreter does with a program, statement by statement.         *)
LEMMA ThreadedRun ==
    ASSUME VmStackSize \in Nat, NEW prog \in Seq(Stmt), NEW m \in Memory, Roomy(prog)
    PROVE  \E st : /\ st[0] = Threaded(<<>>, m, <<>>)
                   /\ \A i \in 1 .. Len(prog) : st[i] = ThreadedAfter(st[i - 1], prog[i])
                   /\ \A i \in 0 .. Len(prog) : Interpreting(st[i])
                   /\ RunThreaded(Code(prog), m)
                        = [mem |-> st[Len(prog)].mem, bus |-> st[Len(prog)].bus,
                           value |-> vm_top(st[Len(prog)].stack)]
<1>1. PICK N \in Nat : N = Len(prog) /\ \A i \in 1 .. N : prog[i] \in Stmt
  BY LenProperties, ElementOfSeq, ZenonT(30)
<1>2. PICK code : code = Code(prog)
  BY ZenonT(30)
<1>3. PICK at \in [0 .. N -> Nat] :
          /\ at[0] = 0 /\ Len(code) = at[N] + 1 /\ code[at[N] + 1] = prim("halt")
          /\ \A i \in 1 .. N : at[i] <= at[N] /\ CompiledAt(code, at[i - 1], at[i], prog[i])
  BY <1>1, <1>2, CodePlaces, ZenonT(30)
<1>4. Len(code) \in Nat /\ at[N] \in Nat
  BY <1>3
<1>5. PICK run :
          /\ run[0] = Threaded(<<>>, m, <<>>)
          /\ \A n \in 1 .. Len(code) : run[n] = ThreadedStep(run[n - 1], code[n])
          /\ RunThreaded(code, m)
               = [mem |-> run[Len(code)].mem, bus |-> run[Len(code)].bus, value |-> vm_top(run[Len(code)].stack)]
  BY <1>4, ThreadedUnfolds, ZenonT(30)
<1> DEFINE st == [i \in 0 .. N |-> run[at[i]]]
           AllPokes(i) == \A j \in 1 .. i : prog[j].op = "poke"
           Shape(s, i) == /\ Interpreting(s) /\ Len(s.stack) <= i
                          /\ AllPokes(i) => s.stack = <<>>
           Good(i) == Shape(run[at[i]], i) /\ (i > 0 => run[at[i]] = ThreadedAfter(run[at[i - 1]], prog[i]))
           T == {i \in 0 .. N : Good(i)}
<1>6. Good(0)
  <2>1. <<>> \in Seq(Word) /\ Len(<<>>) = 0 /\ run[at[0]] = Threaded(<<>>, m, <<>>)
    BY <1>3, <1>5
  <2>3. Threaded(<<>>, m, <<>>).stack = <<>> /\ Threaded(<<>>, m, <<>>).mem = m
        /\ Threaded(<<>>, m, <<>>).bus = <<>>
    BY ZenonT(30) DEF Threaded
  <2>2. Shape(run[at[0]], 0)
    <3>1. PICK s, e : s = run[at[0]] /\ e = <<>>
      BY ZenonT(30)
    <3>2. s = Threaded(e, m, e) /\ s.stack = e /\ s.mem = m /\ s.bus = e
      BY <2>1, <2>3, <3>1, ZenonT(30)
    <3>3. e \in Seq(Word) /\ Len(e) = 0
      BY <2>1, <3>1, ZenonT(30)
    <3>4. Interpreting(s)
      BY <3>2, <3>3, ZenonT(30) DEF Interpreting
    <3> QED BY <3>1, <3>2, <3>3, <3>4
  <2> HIDE DEF Shape
  <2> QED BY <2>2
<1>7. ASSUME NEW i \in 0 .. N - 1, Good(i) PROVE Good(i + 1)
  <2>1. i + 1 \in 1 .. N /\ (i + 1) - 1 = i /\ i \in 0 .. N /\ i + 1 \in 0 .. N /\ i \in Nat
    OBVIOUS
  <2>2. PICK c \in Nat, d \in Nat : c = at[i] /\ d = at[i + 1]
    BY <1>3, <2>1, ZenonT(30)
  <2>3. CompiledAt(code, c, d, prog[i + 1]) /\ d < Len(code)
    BY <1>3, <1>4, <2>1, <2>2
  <2>4. PICK x \in Stmt : x = prog[i + 1]
    BY <1>1, <2>1, ZenonT(30)
  <2>5. PICK s : s = run[c]
    BY ZenonT(30)
  <2>6. /\ Interpreting(s) /\ Len(s.stack) <= i /\ (AllPokes(i) => s.stack = <<>>)
        /\ s.stack \in Seq(Word) /\ s.mem \in Memory /\ s = Threaded(s.stack, s.mem, s.bus)
    BY <1>7, <2>2, <2>5, ZenonT(30) DEF Interpreting
  <2> HIDE DEF AllPokes
  <2>7. Room(s, x)
    <3>2. PICK l \in Nat : l = Len(s.stack) /\ l <= i /\ (AllPokes(i) => l = 0)
      BY <2>6, LenProperties, ZenonT(30)
    <3>3. x.op = "peek" => l + 1 <= VmStackSize
      BY <1>1, <2>1, <2>4, <3>2 DEF Roomy
    <3>4. x.op = "poke" => (i + 2 <= VmStackSize \/ (2 <= VmStackSize /\ AllPokes(i)))
      BY <1>1, <2>1, <2>4 DEF Roomy, AllPokes
    <3>5. x.op = "poke" => l + 2 <= VmStackSize
      BY <2>1, <3>2, <3>4
    <3> QED BY <3>2, <3>3, <3>5, ZenonT(30) DEF Room
  <2>8. run[d] = ThreadedAfter(s, x)
    <3>0. PICK q \in Seq(Word), mm \in Memory : q = s.stack /\ mm = s.mem
      BY <2>6, ZenonT(30)
    <3>1. PICK u : s = Threaded(q, mm, u)
      BY <2>6, <3>0, ZenonT(30)
    <3>2. CompiledAt(code, c, d, x) /\ run[c] = Threaded(q, mm, u) /\ Room(Threaded(q, mm, u), x)
      BY <2>3, <2>4, <2>5, <2>7, <3>1, ZenonT(30)
    <3>3. run[d] = ThreadedAfter(Threaded(q, mm, u), x)
      BY <1>4, <1>5, <2>3, <3>2, ThreadedBlock
    <3> QED BY <3>1, <3>3, ZenonT(30)
  <2>9. PICK r : r = ThreadedAfter(s, x)
    BY ZenonT(30)
  <2>10. /\ Interpreting(r) /\ (x.op = "poke" => r.stack = s.stack)
         /\ Len(r.stack) <= Len(s.stack) + 1
    BY <2>6, <2>9, ThreadedAfterType, ZenonT(30)
  <2>11. Len(r.stack) <= i + 1
    <3>1. r.stack \in Seq(Word)
      BY <2>10, ZenonT(30) DEF Interpreting
    <3>2. PICK l \in Nat, l2 \in Nat : l = Len(s.stack) /\ l2 = Len(r.stack)
      BY <2>6, <3>1, LenProperties, ZenonT(30)
    <3>3. l <= i /\ l2 <= l + 1
      BY <2>6, <2>10, <3>2, ZenonT(30)
    <3>4. l2 <= i + 1
      BY <2>1, <3>3
    <3> QED BY <3>2, <3>4, ZenonT(30)
  <2>12. AllPokes(i + 1) => AllPokes(i) /\ x.op = "poke"
    <3>1. \A j \in 1 .. i : j \in 1 .. i + 1
      BY <2>1
    <3>2. i + 1 \in 1 .. i + 1
      BY <2>1
    <3> QED BY <2>4, <3>1, <3>2, ZenonT(30) DEF AllPokes
  <2>13. Shape(run[at[i + 1]], i + 1)
    BY <2>2, <2>6, <2>8, <2>9, <2>10, <2>11, <2>12, ZenonT(30)
  <2> HIDE DEF Shape
  <2> QED BY <2>1, <2>2, <2>4, <2>5, <2>8, <2>13, ZenonT(30)
<1>8. \A i \in 0 .. N : Good(i)
  <2> HIDE DEF Good
  <2>1. 0 \in T /\ \A i \in 0 .. N - 1 : i \in T => i + 1 \in T
    BY <1>6, <1>7
  <2>2. \A i \in 0 .. N : i \in T
    BY <2>1, InductionUpTo, ZenonT(30)
  <2> QED BY <2>2, ZenonT(30)
<1>9. st[0] = Threaded(<<>>, m, <<>>)
  BY <1>3, <1>5
<1>10. \A i \in 1 .. N : st[i] = ThreadedAfter(st[i - 1], prog[i])
  <2> SUFFICES ASSUME NEW i \in 1 .. N PROVE st[i] = ThreadedAfter(st[i - 1], prog[i])
    BY ZenonT(30)
  <2>1. i \in 0 .. N /\ i - 1 \in 0 .. N /\ i > 0
    OBVIOUS
  <2> HIDE DEF Shape
  <2> QED BY <1>8, <2>1, ZenonT(30)
<1>11. \A i \in 0 .. N : Interpreting(st[i])
  BY <1>8, ZenonT(30)
<1>12. run[Len(code)] = st[N]
  <2>1. PICK c \in Nat : c = at[N]
    BY <1>4, ZenonT(30)
  <2>2. c + 1 \in 1 .. Len(code) /\ (c + 1) - 1 = c /\ Len(code) = c + 1
    BY <1>3, <2>1
  <2>3. run[c + 1] = ThreadedStep(run[c], prim("halt"))
    BY <1>3, <1>5, <2>1, <2>2, ZenonT(30)
  <2>4. ThreadedStep(run[c], prim("halt")) = run[c]
    BY ThreadedHalt, ZenonT(30)
  <2>5. st[N] = run[c]
    BY <2>1
  <2> QED BY <2>2, <2>3, <2>4, <2>5, ZenonT(30)
<1> HIDE DEF st
<1> QED BY <1>1, <1>2, <1>5, <1>9, <1>10, <1>11, <1>12, ZenonT(30)

-----------------------------------------------------------------------------
(* What an interpreted run leaves on the bus and in memory.                  *)

(* The access that a statement asks for.                                     *)
OwnAccess(x) == IF x.op = "poke" THEN Write(x.addr, x.val) ELSE Read(x.addr)

(* The threaded interpreter makes for every statement, in order, the access  *)
(* that it asks for and no other, as long as its stack has room: unlike a    *)
(* native run it also writes only where the program says.                    *)
THEOREM InterpreterAccesses ==
    ASSUME NEW prog \in Seq(Stmt), NEW m \in Memory, Roomy(prog)
    PROVE  LET out == RunThreaded(Code(prog), m)
           IN  /\ out.mem \in Memory
               /\ out.bus \in Seq(BusOp)
               /\ Len(out.bus) = Len(prog)
               /\ \A k \in 1 .. Len(prog) : out.bus[k] = OwnAccess(prog[k])
<1>1. PICK N \in Nat : N = Len(prog) /\ \A i \in 1 .. N : prog[i] \in Stmt
  BY LenProperties, ElementOfSeq, ZenonT(30)
<1>2. PICK st : /\ st[0] = Threaded(<<>>, m, <<>>)
                /\ \A i \in 1 .. N : st[i] = ThreadedAfter(st[i - 1], prog[i])
                /\ \A i \in 0 .. N : Interpreting(st[i])
                /\ RunThreaded(Code(prog), m)
                     = [mem |-> st[N].mem, bus |-> st[N].bus, value |-> vm_top(st[N].stack)]
  BY <1>1, VmStackAssumption, ThreadedRun, ZenonT(30)
<1> DEFINE Good(i) == /\ st[i].bus \in Seq(BusOp) /\ Len(st[i].bus) = i
                      /\ \A k \in 1 .. i : st[i].bus[k] = OwnAccess(prog[k])
           T == {i \in 0 .. N : Good(i)}
<1>3. Good(0)
  <2>1. <<>> \in Seq(BusOp) /\ Len(<<>>) = 0
    OBVIOUS
  <2>2. st[0].bus = <<>>
    BY <1>2 DEF Threaded
  <2> QED BY <2>1, <2>2
<1>4. ASSUME NEW i \in 0 .. N - 1, Good(i) PROVE Good(i + 1)
  <2>1. i + 1 \in 1 .. N /\ (i + 1) - 1 = i
    OBVIOUS
  <2>2. PICK s, x, r : s = st[i] /\ x = prog[i + 1] /\ r = st[i + 1]
    BY ZenonT(30)
  <2>3. r = ThreadedAfter(s, x) /\ x \in Stmt
    BY <1>1, <1>2, <2>1, <2>2, ZenonT(30)
  <2>4. x.op \in {"poke", "peek"} /\ x.addr \in Word /\ x.val \in Word
    BY <2>3, ZenonT(30) DEF Stmt
  <2>5. PICK b \in BusOp : b = OwnAccess(x)
    <3>1. Read(x.addr) \in BusOp /\ Write(x.addr, x.val) \in BusOp
      BY <2>4, ZenonT(30) DEF Read, Write, BusOp
    <3> QED BY <3>1, ZenonT(30) DEF OwnAccess
  <2>6. PICK u \in Seq(BusOp) : u = s.bus /\ Len(u) = i /\ \A k \in 1 .. i : u[k] = OwnAccess(prog[k])
    BY <1>4, <2>2, ZenonT(30)
  <2>7. r.bus = Append(u, b)
    <3>1. CASE x.op = "poke"
      <4>1. PICK mm : mm = [s.mem EXCEPT ![x.addr] = x.val]
        BY ZenonT(30)
      <4>2. b = Write(x.addr, x.val)
        BY <2>5, <3>1, ZenonT(30) DEF OwnAccess
      <4>3. r = Threaded(s.stack, mm, Append(u, b))
        BY <2>3, <2>6, <3>1, <4>1, <4>2, ZenonT(30) DEF ThreadedAfter
      <4> QED BY <4>3, ZenonT(30) DEF Threaded
    <3>2. CASE x.op = "peek"
      <4>1. PICK q : q = Append(s.stack, s.mem[x.addr])
        BY ZenonT(30)
      <4>2. b = Read(x.addr)
        BY <2>5, <3>2, ZenonT(30) DEF OwnAccess
      <4>3. r = Threaded(q, s.mem, Append(u, b))
        BY <2>3, <2>6, <3>2, <4>1, <4>2, ZenonT(30) DEF ThreadedAfter
      <4> QED BY <4>3, ZenonT(30) DEF Threaded
    <3> QED BY <2>4, <3>1, <3>2, ZenonT(30)
  <2>8. PICK w : w = Append(u, b)
    BY ZenonT(30)
  <2>9. /\ w \in Seq(BusOp) /\ Len(w) = i + 1 /\ w[i + 1] = b
        /\ \A k \in 1 .. i : w[k] = u[k]
    BY <2>6, <2>8, AppendAccess, ZenonT(30)
  <2>10. \A k \in 1 .. i + 1 : w[k] = OwnAccess(prog[k])
    <3> TAKE k \in 1 .. i + 1
    <3>1. CASE k = i + 1
      BY <2>2, <2>5, <2>9, <3>1, ZenonT(30)
    <3>2. CASE k # i + 1
      <4>1. k \in 1 .. i
        BY <3>2
      <4> QED BY <2>6, <2>9, <4>1, ZenonT(30)
    <3> QED BY <3>1, <3>2, ZenonT(30)
  <2> QED BY <2>2, <2>7, <2>8, <2>9, <2>10, ZenonT(30)
<1>5. Good(N)
  <2> HIDE DEF Good
  <2>1. 0 \in T /\ \A i \in 0 .. N - 1 : i \in T => i + 1 \in T
    BY <1>3, <1>4
  <2>2. \A i \in 0 .. N : i \in T
    BY <2>1, InductionUpTo, ZenonT(30)
  <2> QED BY <2>2
<1>6. st[N].mem \in Memory
  BY <1>2 DEF Interpreting
<1> QED BY <1>1, <1>2, <1>5, <1>6
=============================================================================
