-------------------------- MODULE AlgorithmProofs --------------------------
(***************************************************************************)
(* Two algorithms, for every input: the native engine agrees with the      *)
(* threaded interpreter on the bodies that poke one address and then only  *)
(* peek, and the iteration of the response time analysis ends in the least *)
(* time by which the task and what preempts it are done.                   *)
(***************************************************************************)
EXTENDS ExecCompare, Rta, ExecProofs, FiniteSetTheorems

(* The steps that name no prover are for the SMT solver.                     *)
USE SMTT(30)

-----------------------------------------------------------------------------
(* The native engine against the interpreter.                                *)

(* The top of a stack is what was pushed last.                               *)
LEMMA TopOfAppend ==
    ASSUME NEW q \in Seq(Word), NEW v \in Word
    PROVE  vm_top(Append(q, v)) = v
<1>1. PICK w, l : w = Append(q, v) /\ l = Len(q)
  BY ZenonT(30)
<1>2. w # <<>> /\ Len(w) = l + 1 /\ w[l + 1] = v /\ l \in Nat
  BY <1>1
<1> QED BY <1>1, <1>2, ZenonT(30) DEF vm_top

(* On a program that fits the interpreter's stack and that makes its pokes   *)
(* first, all of them to one address, the engines leave the same memory and  *)
(* make the same accesses, and a final peek returns the same value.  A poke  *)
(* after the first finds the accumulator holding the address of the poke     *)
(* before it, which is its own: Good carries this along the program.         *)
LEMMA EnginesAgree ==
    ASSUME NEW prog \in Seq(Stmt), NEW m \in Memory, Roomy(prog),
           \A i, j \in DOMAIN prog :
               /\ prog[i].op = "poke" /\ j < i => prog[j].op = "poke"
               /\ prog[i].op = "poke" /\ prog[j].op = "poke" => prog[i].addr = prog[j].addr
    PROVE  LET native == compile_and_run(Code(prog), m)
               threaded == RunThreaded(Code(prog), m)
           IN  /\ native.mem = threaded.mem /\ native.bus = threaded.bus
               /\ Len(prog) > 0 /\ prog[Len(prog)].op = "peek" => native.value = threaded.value
<1>1. PICK N \in Nat : N = Len(prog) /\ DOMAIN prog = 1 .. N /\ \A i \in 1 .. N : prog[i] \in Stmt
  BY LenProperties, ElementOfSeq, ZenonT(30)
<1>2. PICK st : /\ st[0] = NativeStart(m)
                /\ \A i \in 1 .. N : st[i] = NativeAfter(st[i - 1], prog[i])
                /\ compile_and_run(Code(prog), m)
                     = [mem |-> st[N].mem, bus |-> st[N].bus, value |-> st[N].acc]
  BY <1>1, NativeRun, ZenonT(30)
<1>3. PICK th : /\ th[0] = Threaded(<<>>, m, <<>>)
                /\ \A i \in 1 .. N : th[i] = ThreadedAfter(th[i - 1], prog[i])
                /\ \A i \in 0 .. N : Interpreting(th[i])
                /\ RunThreaded(Code(prog), m)
                     = [mem |-> th[N].mem, bus |-> th[N].bus, value |-> vm_top(th[N].stack)]
  BY <1>1, VmStackAssumption, ThreadedRun, ZenonT(30)
<1> DEFINE Good(i) ==
        /\ st[i].mem = th[i].mem /\ st[i].bus = th[i].bus
        /\ i = 0 => st[i].loaded = FALSE
        /\ i > 0 /\ prog[i].op = "poke" => st[i].loaded = TRUE /\ st[i].acc = prog[i].addr
        /\ i > 0 /\ prog[i].op = "peek" => st[i].acc = vm_top(th[i].stack)
           T == {i \in 0 .. N : Good(i)}
<1>4. Good(0)
  BY <1>2, <1>3 DEF NativeStart, Threaded
<1>5. ASSUME NEW i \in 0 .. N - 1, Good(i) PROVE Good(i + 1)
  <2>1. i + 1 \in 1 .. N /\ (i + 1) - 1 = i /\ i + 1 > 0 /\ i \in 0 .. N
    OBVIOUS
  <2>2. PICK s, t, x, s2, t2 : s = st[i] /\ t = th[i] /\ x = prog[i + 1] /\ s2 = st[i + 1] /\ t2 = th[i + 1]
    BY ZenonT(30)
  <2>3. s2 = NativeAfter(s, x) /\ t2 = ThreadedAfter(t, x) /\ x \in Stmt /\ Interpreting(t)
    BY <1>1, <1>2, <1>3, <2>1, <2>2, ZenonT(30)
  <2>4. x.op \in {"poke", "peek"} /\ x.addr \in Word /\ x.val \in Word
    BY <2>3, ZenonT(30) DEF Stmt
  <2>5. PICK mm, u : mm = s.mem /\ mm = t.mem /\ u = s.bus /\ u = t.bus
    BY <1>5, <2>2, ZenonT(30)
  <2>6. CASE x.op = "poke"
    <3>1. PokeTarget(s, x.addr) = x.addr
      <4>1. CASE i = 0
        BY <1>5, <2>2, <4>1, ZenonT(30) DEF PokeTarget
      <4>2. CASE i > 0
        <5>1. i \in 1 .. N /\ i < i + 1
          BY <4>2
        <5>2. prog[i].op = "poke" /\ prog[i].addr = x.addr
          BY <1>1, <2>1, <2>2, <2>6, <5>1, ZenonT(30)
        <5> QED BY <1>5, <2>2, <4>2, <5>2, ZenonT(30) DEF PokeTarget
      <4> QED BY <4>1, <4>2
    <3>2. PICK w, m2 : w = Append(u, Write(x.addr, x.val)) /\ m2 = [mm EXCEPT ![x.addr] = x.val]
      BY ZenonT(30)
    <3>3. s2 = Loaded(x.addr, x.val, m2, w)
      BY <2>3, <2>5, <2>6, <3>1, <3>2, ZenonT(30) DEF NativeAfter
    <3>4. t2 = Threaded(t.stack, m2, w)
      BY <2>3, <2>5, <2>6, <3>2, ZenonT(30) DEF ThreadedAfter
    <3>5. s2.mem = m2 /\ s2.bus = w /\ s2.loaded = TRUE /\ s2.acc = x.addr
      BY <3>3, ZenonT(30) DEF Loaded
    <3>6. t2.mem = m2 /\ t2.bus = w
      BY <3>4, ZenonT(30) DEF Threaded
    <3> QED BY <2>1, <2>2, <2>6, <3>5, <3>6
  <2>7. CASE x.op = "peek"
    <3>1. PICK w, v : w = Append(u, Read(x.addr)) /\ v = mm[x.addr]
      BY ZenonT(30)
    <3>2. s2 = Loaded(v, x.addr, mm, w)
      BY <2>3, <2>5, <2>7, <3>1, ZenonT(30) DEF NativeAfter
    <3>3. t2 = Threaded(Append(t.stack, v), mm, w)
      BY <2>3, <2>5, <2>7, <3>1, ZenonT(30) DEF ThreadedAfter
    <3>4. v \in Word /\ t.stack \in Seq(Word)
      BY <2>3, <2>4, <2>5, <3>1, ZenonT(30) DEF Interpreting, Memory
    <3>5. vm_top(Append(t.stack, v)) = v
      BY <3>4, TopOfAppend, ZenonT(30)
    <3>6. s2.mem = mm /\ s2.bus = w /\ s2.acc = v
      BY <3>2, ZenonT(30) DEF Loaded
    <3>7. t2.mem = mm /\ t2.bus = w /\ t2.stack = Append(t.stack, v)
      BY <3>3, ZenonT(30) DEF Threaded
    <3> QED BY <2>1, <2>2, <2>7, <3>5, <3>6, <3>7
  <2> QED BY <2>4, <2>6, <2>7, ZenonT(30)
<1>6. Good(N)
  <2> HIDE DEF Good
  <2>1. 0 \in T /\ \A i \in 0 .. N - 1 : i \in T => i + 1 \in T
    BY <1>4, <1>5
  <2>2. \A i \in 0 .. N : i \in T
    BY <2>1, InductionUpTo, ZenonT(30)
  <2> QED BY <2>2
<1> QED BY <1>1, <1>2, <1>3, <1>6

(* The inductive invariant of the comparison: a statement takes at least *)
(* three words, so MaxWords bounds the statements of the body.               *)
CompareInv ==
    /\ body \in Seq(Stmt) /\ words \in Nat
    /\ 3 * Len(body) <= words /\ words <= MaxWords

(* The invariant holds as the body grows.                                    *)
LEMMA CompareInvHolds == ExecSpec => []CompareInv
<1>1. ExecInit => CompareInv
  BY MaxWordsAssumption DEF ExecInit, CompareInv
<1>2. CompareInv /\ [ExecNext]_execVars => CompareInv'
  <2> SUFFICES ASSUME CompareInv, [ExecNext]_execVars PROVE CompareInv'
    BY ZenonT(30)
  <2>1. CASE UNCHANGED execVars
    BY <2>1, ZenonT(30) DEF execVars, CompareInv
  <2>2. ASSUME NEW s \in Stmt, Append1(s) PROVE CompareInv'
    <3>1. StmtWords(s) \in Nat /\ StmtWords(s) >= 3
      BY DEF StmtWords
    <3>2. PICK n \in Nat, w \in Nat : n = Len(body) /\ w = StmtWords(s) /\ w >= 3
      BY <3>1, LenProperties, ZenonT(30) DEF CompareInv
    <3>3. body' \in Seq(Stmt) /\ Len(body') = n + 1
      BY <2>2, <3>2 DEF Append1, CompareInv
    <3> QED BY <2>2, <3>2, <3>3 DEF Append1, CompareInv
  <2>3. CASE ExecNext
    <3>1. PICK a \in Word, v \in Word : Append1(Poke(a, v)) \/ Append1(Peek(a))
      BY <2>3, ZenonT(30) DEF ExecNext
    <3>2. Poke(a, v) \in Stmt /\ Peek(a) \in Stmt
      BY ZenonT(30) DEF Poke, Peek, Stmt
    <3> QED BY <2>2, <3>1, <3>2, ZenonT(30)
  <2> QED BY <2>1, <2>3, ZenonT(30)
<1> QED BY <1>1, <1>2, PTL DEF ExecSpec

(* Whatever the words, the contents of memory and the body: one whose pokes  *)
(* come first and name one address leaves the same memory and makes the same *)
(* accesses under compile_and_run and in the threaded interpreter, and its   *)
(* last peek returns the same value.                                         *)
THEOREM NativeAgreesOnOneTarget == ExecSpec => []NativeMatchesOnOneTarget
<1>1. CompareInv => NativeMatchesOnOneTarget
  <2> SUFFICES ASSUME CompareInv, body # <<>>, OneTarget
               PROVE  /\ NativeMatchesThreaded
                      /\ body[Len(body)].op = "peek" =>
                           \A m \in [Word -> Word] :
                               compile_and_run(Code(body), m).value = RunThreaded(Code(body), m).value
    BY ZenonT(30) DEF NativeMatchesOnOneTarget
  <2>1. PICK prog \in Seq(Stmt) : prog = body
    BY ZenonT(30) DEF CompareInv
  <2>2. PICK N \in Nat : N = Len(prog) /\ DOMAIN prog = 1 .. N /\ \A i \in 1 .. N : prog[i] \in Stmt
    BY LenProperties, ElementOfSeq, ZenonT(30)
  <2>3. N > 0
    BY <2>1, <2>2, EmptySeq
  <2>4. N <= VmStackSize
    BY <2>1, <2>2, MaxWordsAssumption, VmStackAssumption DEF CompareInv
  <2>5. \A i, j \in 1 .. N :
               /\ prog[i].op = "poke" /\ j < i => prog[j].op = "poke"
               /\ prog[i].op = "poke" /\ prog[j].op = "poke" => prog[i].addr = prog[j].addr
    BY <2>1, <2>2 DEF OneTarget
  <2>6. Roomy(prog)
    <3>1. ASSUME NEW i \in 1 .. N, prog[i].op = "poke" PROVE \A j \in 1 .. i - 1 : prog[j].op = "poke"
      BY <2>5, <3>1
    <3>2. \A i \in 1 .. N : i <= VmStackSize
      BY <2>4, VmStackAssumption
    <3> QED BY <2>2, <3>1, <3>2, VmStackAssumption, ZenonT(30) DEF Roomy
  <2>7. ASSUME NEW m \in Memory
        PROVE  LET native == compile_and_run(Code(prog), m)
                   threaded == RunThreaded(Code(prog), m)
               IN  /\ native.mem = threaded.mem /\ native.bus = threaded.bus
                   /\ prog[N].op = "peek" => native.value = threaded.value
    BY <2>2, <2>3, <2>5, <2>6, EnginesAgree
  <2>8. body[Len(body)] = prog[N]
    BY <2>1, <2>2, ZenonT(30)
  <2> QED BY <2>1, <2>7, <2>8, ZenonT(30) DEF NativeMatchesThreaded, Memory
<1> QED BY <1>1, CompareInvHolds, PTL

-----------------------------------------------------------------------------

(* The response-time analysis.                                               *)

(* A higher-priority task, and the code's division rounding up.              *)
Task == [cost : Nat, period : Nat \ {0}]
Ceil(t, p) == (t + p - 1) \div p

(* Multiplication is monotone.                                               *)
LEMMA TimesMonotone ==
    ASSUME NEW a \in Nat, NEW b \in Nat, NEW c \in Nat, a <= b
    PROVE  a * c <= b * c /\ a * c \in Nat /\ b * c \in Nat
<1>1. PICK d \in Nat : b = a + d
  <2>1. b - a \in Nat /\ b = a + (b - a)
    OBVIOUS
  <2> QED BY <2>1, ZenonT(30)
<1>2. b * c = a * c + d * c
  BY <1>1
<1>3. d * c \in Nat /\ a * c \in Nat /\ b * c \in Nat
  OBVIOUS
<1> QED BY <1>2, <1>3

(* Rounding up: the multiples of p below t are those before the rounded up   *)
(* quotient.                                                                 *)
LEMMA CeilProperties ==
    ASSUME NEW t \in Nat, NEW p \in Nat \ {0}
    PROVE  /\ Ceil(t, p) \in Nat
           /\ \A k \in Nat : k * p < t <=> k < Ceil(t, p)
<1>1. PICK c \in Nat : c = Ceil(t, p)
  BY DEF Ceil
<1>2. PICK n \in Nat : n = t + p - 1
  OBVIOUS
<1>3. n = p * (n \div p) + (n % p) /\ n % p \in 0 .. p - 1
  BY <1>2, Z3T(30), ZenonT(30)
<1>4. p * c \in Nat /\ p * c = c * p
  OBVIOUS
<1>5. c * p <= t + p - 1 /\ t + p - 1 < c * p + p
  BY <1>1, <1>2, <1>3, <1>4 DEF Ceil
<1>6. ASSUME NEW k \in Nat PROVE k * p < t <=> k < c
  <2>1. CASE k < c
    <3>1. (k + 1) * p <= c * p /\ (k + 1) * p = k * p + p /\ k * p \in Nat
      BY <2>1, TimesMonotone
    <3> QED BY <1>5, <2>1, <3>1
  <2>2. CASE ~(k < c)
    <3>1. c * p <= k * p /\ k * p \in Nat
      BY <2>2, TimesMonotone
    <3> QED BY <1>4, <1>5, <2>2, <3>1
  <2> QED BY <2>1, <2>2, ZenonT(30)
<1> QED BY <1>1, <1>6, ZenonT(30)

(* Rounding up is monotone.                                                  *)
LEMMA CeilMonotone ==
    ASSUME NEW t \in Nat, NEW u \in Nat, t <= u, NEW p \in Nat \ {0}
    PROVE  Ceil(t, p) <= Ceil(u, p)
<1> SUFFICES ASSUME Ceil(u, p) < Ceil(t, p) PROVE FALSE
  BY CeilProperties
<1>1. Ceil(u, p) \in Nat /\ Ceil(u, p) * p \in Nat
  BY CeilProperties
<1>2. Ceil(u, p) * p < t
  BY <1>1, CeilProperties, ZenonT(30)
<1>3. Ceil(u, p) * p < u
  BY <1>1, <1>2
<1> QED BY <1>1, <1>3, CeilProperties

(* The releases of a task before t, one every period from 0 on, are as many  *)
(* as the code computes.                                                     *)
LEMMA ReleasedIsCeil ==
    ASSUME NEW h \in Task, NEW t \in Nat
    PROVE  Released(h, t) = Ceil(t, h.period)
<1> DEFINE p == h.period
<1>0. p \in Nat \ {0}
  BY ZenonT(30) DEF Task
<1> HIDE DEF p
<1>1. PICK c \in Nat : c = Ceil(t, p) /\ \A k \in Nat : k * p < t <=> k < c
  BY <1>0, CeilProperties, ZenonT(30)
<1>2. PICK q \in Nat : q = t \div p
  BY <1>0
<1>3. t = p * q + (t % p) /\ t % p \in 0 .. p - 1
  BY <1>0, <1>2, Z3T(30), ZenonT(30)
<1>4. t < (q + 1) * p
  <2>1. (q + 1) * p = p * q + p
    BY <1>0
  <2> QED BY <1>0, <1>3, <2>1
<1>5. \A k \in Nat : k < c => k <= q
  <2> SUFFICES ASSUME NEW k \in Nat, k < c, q + 1 <= k PROVE FALSE
    OBVIOUS
  <2>1. (q + 1) * p <= k * p /\ k * p \in Nat /\ (q + 1) * p \in Nat
    BY <1>0, TimesMonotone
  <2> QED BY <1>1, <1>4, <2>1
<1>6. {k \in 0 .. q : k * p < t} = 0 .. c - 1
  BY <1>1, <1>5
<1>7. Cardinality(0 .. c - 1) = c
  <2>1. 0 \in Int /\ c - 1 \in Int
    OBVIOUS
  <2>2. Cardinality(0 .. c - 1) = IF 0 > c - 1 THEN 0 ELSE (c - 1) - 0 + 1
    BY <2>1, FS_Interval, ZenonT(30)
  <2> QED BY <2>2
<1> QED BY <1>1, <1>2, <1>6, <1>7, ZenonT(30) DEF Released, p

-----------------------------------------------------------------------------
(* The arguments, and the demand they make in numbers that never wrap.       *)
ArgsOK == w_ti \in Nat /\ deadline \in Nat /\ higher \in Seq(Task)
Ideals(t) == [i \in DOMAIN higher |-> Ceil(t, higher[i].period) * higher[i].cost]
ideal(t) == w_ti + Total(Ideals(t))

(* The interference of each higher-priority task is a natural number.        *)
LEMMA IdealsType ==
    ASSUME ArgsOK, NEW t \in Nat
    PROVE  /\ Ideals(t) \in Seq(Nat) /\ Len(Ideals(t)) = Len(higher)
           /\ \A i \in 1 .. Len(higher) :
                 /\ Ideals(t)[i] = Ceil(t, higher[i].period) * higher[i].cost
                 /\ Ceil(t, higher[i].period) \in Nat
                 /\ higher[i] \in Task /\ higher[i].period \in Nat \ {0} /\ higher[i].cost \in Nat
<1>1. Len(higher) \in Nat /\ DOMAIN higher = 1 .. Len(higher)
  BY LenProperties, ZenonT(30) DEF ArgsOK
<1>2. \A i \in 1 .. Len(higher) : higher[i] \in Task
  BY ElementOfSeq, ZenonT(30) DEF ArgsOK
<1>3. \A i \in 1 .. Len(higher) : higher[i].period \in Nat \ {0} /\ higher[i].cost \in Nat
  BY <1>2, ZenonT(30) DEF Task
<1>4. \A i \in 1 .. Len(higher) : Ceil(t, higher[i].period) \in Nat
  BY <1>3, CeilProperties, ZenonT(30)
<1>5. \A i \in 1 .. Len(higher) : Ceil(t, higher[i].period) * higher[i].cost \in Nat
  BY <1>3, <1>4
<1>6. Ideals(t) = [i \in 1 .. Len(higher) |-> Ceil(t, higher[i].period) * higher[i].cost]
  BY <1>1, ZenonT(30) DEF Ideals, Ceil
<1>7. Ideals(t) \in Seq(Nat) /\ Len(Ideals(t)) = Len(higher)
  BY <1>1, <1>5, <1>6
<1> QED BY <1>2, <1>3, <1>4, <1>6, <1>7, ZenonT(30)

(* The demand grows with the length of the busy period, and is at least the  *)
(* task's own.                                                               *)
LEMMA IdealMonotone ==
    ASSUME ArgsOK, NEW t \in Nat, NEW u \in Nat, t <= u
    PROVE  /\ ideal(t) \in Nat /\ ideal(u) \in Nat
           /\ ideal(t) <= ideal(u) /\ w_ti <= ideal(t)
<1>1. \A i \in 1 .. Len(higher) : Ideals(t)[i] <= Ideals(u)[i]
  <2> TAKE i \in 1 .. Len(higher)
  <2>1. Ceil(t, higher[i].period) <= Ceil(u, higher[i].period)
    BY IdealsType, CeilMonotone, ZenonT(30)
  <2>2. /\ Ceil(t, higher[i].period) \in Nat /\ Ceil(u, higher[i].period) \in Nat
        /\ higher[i].cost \in Nat
    BY IdealsType, ZenonT(30)
  <2>3. Ceil(t, higher[i].period) * higher[i].cost <= Ceil(u, higher[i].period) * higher[i].cost
    BY <2>1, <2>2, TimesMonotone, ZenonT(30)
  <2> QED BY <2>3, IdealsType, ZenonT(30)
<1>2. Total(Ideals(t)) <= Total(Ideals(u))
  <2>1. PICK f, g : f = Ideals(t) /\ g = Ideals(u)
    BY ZenonT(30)
  <2>2. f \in Seq(Nat) /\ g \in Seq(Nat) /\ Len(f) = Len(higher) /\ Len(g) = Len(higher)
    BY <2>1, IdealsType, ZenonT(30)
  <2>3. \A i \in 1 .. Len(f) : f[i] <= g[i]
    BY <1>1, <2>1, <2>2, ZenonT(30)
  <2>4. Total(f) <= Total(g)
    BY <2>2, <2>3, TotalMonotone, ZenonT(30)
  <2> QED BY <2>1, <2>4, ZenonT(30)
<1>3. Total(Ideals(t)) \in Nat /\ Total(Ideals(u)) \in Nat /\ w_ti \in Nat
  BY IdealsType, TotalType, ZenonT(30) DEF ArgsOK
<1> QED BY <1>2, <1>3 DEF ideal

(* It is the work of the reference.                                          *)
LEMMA WorkIsIdeal ==
    ASSUME ArgsOK, NEW t \in Nat
    PROVE  Work(t) = ideal(t)
<1>1. Len(higher) \in Nat /\ DOMAIN higher = 1 .. Len(higher)
  BY LenProperties, ZenonT(30) DEF ArgsOK
<1>2. \A i \in 1 .. Len(higher) :
          Released(higher[i], t) * higher[i].cost
            = ((t + higher[i].period - 1) \div higher[i].period) * higher[i].cost
  BY IdealsType, ReleasedIsCeil, ZenonT(30) DEF Ceil
<1>3. [i \in DOMAIN higher |-> Released(higher[i], t) * higher[i].cost] = Ideals(t)
  BY <1>1, <1>2, ZenonT(30) DEF Ideals, Ceil
<1> QED BY <1>3, ZenonT(30) DEF Work, ideal

(* It is what the code adds up, as long as no operation wraps.               *)
LEMMA DemandIsIdeal ==
    ASSUME ArgsOK, NEW t \in Nat, ~Wraps(t)
    PROVE  demand(t) = ideal(t)
<1>1. Len(higher) \in Nat /\ DOMAIN higher = 1 .. Len(higher)
  BY LenProperties, ZenonT(30) DEF ArgsOK
<1>2. ASSUME NEW i \in 1 .. Len(higher)
      PROVE  (t + higher[i].period - 1) % UsizeMod = t + higher[i].period - 1
  <2>1. PICK p \in Nat \ {0} : p = higher[i].period
    BY IdealsType, ZenonT(30)
  <2>2. ~(t + p - 1 >= UsizeMod)
    BY <1>1, <2>1, ZenonT(30) DEF Wraps
  <2> QED BY <2>1, <2>2, UsizeAssumption
<1>3. Demands(t) = Ideals(t)
  BY <1>1, <1>2, ZenonT(30) DEF Demands, Ideals, Ceil
<1>4. ideal(t) \in Nat
  BY IdealMonotone
<1>5. ~(ideal(t) >= UsizeMod)
  BY <1>3, ZenonT(30) DEF Wraps, ideal
<1>6. demand(t) = ideal(t) % UsizeMod
  BY <1>3, ZenonT(30) DEF demand, ideal
<1> QED BY <1>4, <1>5, <1>6, UsizeAssumption

(* The inductive invariant: until an operation wraps, no time by which the   *)
(* work is done lies before r; what is returned is a fixed point within the  *)
(* deadline, and on passing the deadline the work until r passes it too.     *)
RtaInv ==
    /\ ArgsOK
    /\ ~overflowed =>
         /\ r \in Nat
         /\ \A t \in Nat : ideal(t) <= t => r <= t
         /\ result = "some" => ideal(r) = r /\ r <= deadline
         /\ result = "late" => ideal(r) > deadline

(* The iteration starts below every time by which the work is done.          *)
LEMMA RtaInvInit == RtaInit => RtaInv
<1> SUFFICES ASSUME RtaInit PROVE RtaInv
  BY ZenonT(30)
<1>1. ArgsOK
  BY CostsAssumption, HigherAssumption, ZenonT(30) DEF RtaInit, ArgsOK, Task
<1>2. \A t \in Nat : ideal(t) <= t => w_ti <= t
  <2> TAKE t \in Nat
  <2>1. w_ti <= ideal(t) /\ ideal(t) \in Nat /\ w_ti \in Nat
    BY <1>1, IdealMonotone DEF ArgsOK
  <2> QED BY <2>1
<1> QED BY <1>1, <1>2, ZenonT(30) DEF RtaInit, RtaInv, ArgsOK

(* A step of the iteration stays below them, because the demand is monotone. *)
LEMMA RtaInvNext == RtaInv /\ [RtaNext]_rtaVars => RtaInv'
<1> SUFFICES ASSUME RtaInv, [RtaNext]_rtaVars PROVE RtaInv'
  BY ZenonT(30)
<1>1. ArgsOK /\ UNCHANGED <<w_ti, higher, deadline>>
  BY ZenonT(30) DEF RtaInv, RtaNext, Iterate, GiveUp, rtaVars
<1>2. ArgsOK'
  BY <1>1, ZenonT(30) DEF ArgsOK
<1> SUFFICES ASSUME ~overflowed'
             PROVE  /\ r' \in Nat
                    /\ \A t \in Nat : ideal(t) <= t => r' <= t
                    /\ result' = "some" => ideal(r') = r' /\ r' <= deadline
                    /\ result' = "late" => ideal(r') > deadline
  BY <1>1, <1>2, ZenonT(30) DEF RtaInv, ArgsOK, ideal, Ideals
<1>3. ~overflowed
  BY ZenonT(30) DEF RtaNext, Iterate, GiveUp, rtaVars
<1>4. /\ r \in Nat
      /\ \A t \in Nat : ideal(t) <= t => r <= t
      /\ result = "some" => ideal(r) = r /\ r <= deadline
      /\ result = "late" => ideal(r) > deadline
  BY <1>3, ZenonT(30) DEF RtaInv
<1>5. ideal(r) \in Nat /\ deadline \in Nat
  BY <1>1, <1>4, IdealMonotone DEF ArgsOK
<1>6. \A t \in Nat : ideal(t) <= t => ideal(r) <= t
  <2> SUFFICES ASSUME NEW t \in Nat, ideal(t) <= t PROVE ideal(r) <= t
    BY ZenonT(30)
  <2>1. r <= t
    BY <1>4, ZenonT(30)
  <2>2. ideal(r) <= ideal(t) /\ ideal(t) \in Nat
    BY <1>1, <1>4, <2>1, IdealMonotone, ZenonT(30)
  <2> QED BY <1>5, <2>2
<1>7. CASE Iterate
  <2>1. ~Wraps(r)
    BY <1>7, ZenonT(30) DEF Iterate
  <2>2. demand(r) = ideal(r)
    BY <1>1, <1>4, <2>1, DemandIsIdeal, ZenonT(30)
  <2>3. CASE result' = "running"
    <3>1. r' = ideal(r)
      BY <1>7, <2>2, <2>3, ZenonT(30) DEF Iterate
    <3> QED BY <1>5, <1>6, <2>3, <3>1, ZenonT(30)
  <2>4. CASE result' # "running"
    <3>1. r' = r
      BY <1>7, <2>4, ZenonT(30) DEF Iterate
    <3>2. result' = "some" => ideal(r) <= deadline /\ ideal(r) = r
      <4>1. result' = CASE ideal(r) > deadline -> "late"
                        [] ideal(r) <= deadline /\ ideal(r) = r -> "some"
                        [] OTHER -> "running"
        BY <1>7, <2>2, ZenonT(30) DEF Iterate
      <4> QED BY <4>1, <1>5, ZenonT(30)
    <3>3. result' = "late" => ideal(r) > deadline
      <4>1. result' = CASE ideal(r) > deadline -> "late"
                        [] ideal(r) <= deadline /\ ideal(r) = r -> "some"
                        [] OTHER -> "running"
        BY <1>7, <2>2, ZenonT(30) DEF Iterate
      <4> QED BY <4>1, <1>5, ZenonT(30)
    <3> QED BY <1>4, <3>1, <3>2, <3>3, ZenonT(30)
  <2> QED BY <2>3, <2>4, ZenonT(30)
<1>8. CASE GiveUp
  <2>1. r' = r /\ result' = "gave_up"
    BY <1>8, ZenonT(30) DEF GiveUp
  <2> QED BY <1>4, <2>1, ZenonT(30)
<1>9. CASE UNCHANGED rtaVars
  <2>1. r' = r /\ result' = result
    BY <1>9, ZenonT(30) DEF rtaVars
  <2> QED BY <1>4, <2>1, ZenonT(30)
<1> QED BY <1>7, <1>8, <1>9, ZenonT(30) DEF RtaNext

(* For every cost, deadline and list of higher tasks, and until an operation *)
(* of rta_response_time wraps: Some(r) is returned only for the least time   *)
(* by which the task and all releases before it at a higher priority are     *)
(* done, None on passing the deadline only if there is no such time within   *)
(* it, and None after the last round leaves r at or below every such time.   *)
THEOREM AnswersAreResponseTimes == RtaSpec => []AnswerIsResponseTime
<1>1. RtaInv => AnswerIsResponseTime
  <2> SUFFICES ASSUME RtaInv, ~overflowed
               PROVE  /\ result = "some" => r \in DoneBy /\ \A t \in DoneBy : r <= t
                      /\ result = "late" => DoneBy = {}
                      /\ result = "gave_up" => \A t \in DoneBy : r <= t
    BY ZenonT(30) DEF AnswerIsResponseTime
  <2>0. ArgsOK /\ r \in Nat /\ deadline \in Nat
    BY ZenonT(30) DEF RtaInv, ArgsOK
  <2>1. \A t \in DoneBy : t \in Nat /\ t <= deadline /\ ideal(t) <= t /\ r <= t
    <3> TAKE t \in DoneBy
    <3>1. t \in Nat /\ t <= deadline /\ Work(t) <= t
      BY <2>0 DEF DoneBy
    <3>2. ideal(t) <= t
      BY <2>0, <3>1, WorkIsIdeal, ZenonT(30)
    <3> QED BY <3>1, <3>2, ZenonT(30) DEF RtaInv
  <2>2. result = "some" => r \in DoneBy
    <3> SUFFICES ASSUME result = "some" PROVE r \in DoneBy
      BY ZenonT(30)
    <3>1. ideal(r) = r /\ r <= deadline
      BY ZenonT(30) DEF RtaInv
    <3>2. Work(r) = r
      BY <2>0, <3>1, WorkIsIdeal, ZenonT(30)
    <3> QED BY <2>0, <3>1, <3>2 DEF DoneBy
  <2>3. result = "late" => DoneBy = {}
    <3> SUFFICES ASSUME result = "late", NEW t \in DoneBy PROVE FALSE
      BY ZenonT(30)
    <3>1. ideal(r) <= ideal(t) /\ ideal(r) \in Nat /\ ideal(t) \in Nat
      BY <2>0, <2>1, IdealMonotone, ZenonT(30)
    <3>2. ideal(r) > deadline
      BY ZenonT(30) DEF RtaInv
    <3> QED BY <2>0, <2>1, <3>1, <3>2
  <2> QED BY <2>1, <2>2, <2>3, ZenonT(30)
<1> QED BY <1>1, RtaInvInit, RtaInvNext, PTL DEF RtaSpec
=============================================================================
