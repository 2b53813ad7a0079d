----------------------------- MODULE NativeCode -----------------------------
(***************************************************************************)
(* The native compiler down to the bits (compile_and_run in                *)
(* compiler/native.rs on top of compiler/emitter.rs): the operations it    *)
(* asks the emitter for, the code that is written, and what the processor  *)
(* does when it jumps to it.  Exec gives the same compiler as a machine    *)
(* with two registers; here the two are compared.                          *)
(***************************************************************************)
EXTENDS ExecCompare, Emitter

CONSTANTS Encoded,        \* the 32-bit word each member of Word stands for
          BufferUnits      \* EXEC_BUFFER: 2048 halfwords on ARM

ASSUME EncodedAssumption ==
    \A a, b \in Word : Encoded[a] \subseteq AllBits /\ (Encoded[a] = Encoded[b] => a = b)

ACC == 0
SCRATCH == 1

(* Mutant: a literal goes to the accumulator whatever follows it. *)
OpFor_AlwaysAcc(i, following, loaded) ==
    CASE i.prim = "lit" -> Op("mov_imm", ACC, 0, 0, Encoded[i.arg])
      [] i.prim = "load" -> Op("load", ACC, SCRATCH, 0, {})
      [] i.prim = "write" -> Op("store", 0, ACC, SCRATCH, {})
      [] i.prim = "halt" -> Op("ret", 0, 0, 0, {})

OpFor(i, following, loaded) ==
    CASE i.prim = "lit" ->
           Op("mov_imm", IF following.prim \in {"load", "write"} \/ loaded THEN SCRATCH ELSE ACC,
              0, 0, Encoded[i.arg])
      [] i.prim = "load" -> Op("load", ACC, SCRATCH, 0, {})
      [] i.prim = "write" -> Op("store", 0, ACC, SCRATCH, {})
      [] i.prim = "halt" -> Op("ret", 0, 0, 0, {})

(* acc_loaded after one more primitive. *)
LoadedBy(i, following, loaded) ==
    loaded \/ i.prim = "load" \/ (i.prim = "lit" /\ following.prim \notin {"load", "write"})

NativeCompile(code) ==
    LET next(n) == code[IF n < Len(code) THEN n + 1 ELSE n]
        step[n \in 0 .. Len(code)] ==
            IF n = 0 THEN [em |-> into_exec_buffer, loaded |-> FALSE]
            ELSE LET s == step[n - 1] IN
                 [em |-> EmitInto(s.em, "thumb2", OpFor(code[n], next(n), s.loaded), BufferUnits),
                  loaded |-> LoadedBy(code[n], next(n), s.loaded)]
    IN  step[Len(code)].em

(* An access of Exec's as the processor makes it. *)
Val(w) == Wd(Encoded[w])
OnBus(x) == IF x.op = "read" THEN <<"read", Val(x.addr)>> ELSE <<"write", Val(x.addr), Val(x.val)>>

(* What Exec says of a body the native compiler accepts is what the Thumb    *)
(* code does: it returns, with the same accesses in the same order and the   *)
(* same value in r0, whatever memory holds.  A body whose code does not fit  *)
(* is refused as a whole (and interpreted).                                  *)
MachineCodeIsNative ==
    LET e == NativeCompile(Code(body)) IN
    body # <<>> /\ e.err = "none" =>
        \A m \in [Word -> Word] :
            LET machine == RunCode(e.buf, "thumb2", [a \in {Val(w) : w \in Word} |->
                                                       Val(m[CHOOSE w \in Word : Val(w) = a])])
                native == compile_and_run(Code(body), m)
            IN  /\ machine.state = "returned"
                /\ machine.bus = [i \in DOMAIN native.bus |-> OnBus(native.bus[i])]
                /\ machine.regs[ACC] = Val(native.value)
=============================================================================
