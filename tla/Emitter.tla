------------------------------ MODULE Emitter ------------------------------
(***************************************************************************)
(* The machine code emitters (compiler/emitter.rs): the bits each backend  *)
(* writes for each operation of TargetEmitter, and what those bits do.     *)
(* A halfword or word of code is the set of its one bits.                  *)
(*                                                                         *)
(* An emitter is its buffer and the error it returned; its caller gives up *)
(* on the first error (compile_and_run maps it to Err and the stream is    *)
(* interpreted), so nothing is emitted after one.                          *)
(***************************************************************************)
EXTENDS Isa

CONSTANTS Targets,        \* {"thumb2", "riscv32"}
          Regs, Imms,     \* register numbers and immediates the operations are given
          CapWords,       \* units of code in EXEC_BUFFER: 2048 halfwords, 192 words
          MaxOps          \* bound: operations per emitter

ASSUME TargetsAssumption == Targets \subseteq {"thumb2", "riscv32"}
ASSUME RegsAssumption == Regs \subseteq 1 .. 255      \* u8; x0 is not a register of RISC-V programs
ASSUME ImmsAssumption == \A i \in Imms : i \subseteq AllBits
ASSUME CapAssumption == CapWords \in Nat

Ok(words) == [words |-> words, err |-> "none"]
Err(e) == [words |-> <<>>, err |-> e]
Check(legal, words) == IF legal THEN Ok(words) ELSE Err("BadRegister")

-----------------------------------------------------------------------------
(* Thumb-2.  A register number is packed at bit k. *)

R(r, k) == Shl(Bits(r), k)

encode_wide(hw1, rd, imm16) ==
    << Bits(hw1) \cup Shl(Field(imm16, 11, 1), 10) \cup Field(imm16, 12, 4),
       Shl(Field(imm16, 8, 3), 12) \cup Shl(Mask(Bits(rd), 4), 8) \cup Mask(imm16, 8) >>

encode_movw(rd, imm) == encode_wide(\hF240, rd, imm)
encode_movt(rd, imm) == encode_wide(\hF2C0, rd, Shr(imm, 16))
encode_sdiv(rd, rn, rm) == << Bits(\hFB90) \cup Bits(rn), Bits(\hF010) \cup R(rd, 8) \cup Bits(rm) >>

(* Mutant: the upper half is never loaded. *)
T_mov_imm_NoTop(reg, imm) ==
    Check(reg <= 15,
          IF Shr(imm, 8) = {} /\ reg < 8
            THEN << Bits(\h2000) \cup R(reg, 8) \cup Mask(imm, 8) >>
            ELSE encode_movw(reg, imm))

T_mov_imm(reg, imm) ==
    Check(reg <= 15,
          IF Shr(imm, 8) = {} /\ reg < 8
            THEN << Bits(\h2000) \cup R(reg, 8) \cup Mask(imm, 8) >>
            ELSE encode_movw(reg, imm) \o (IF Shr(imm, 16) # {} THEN encode_movt(reg, imm) ELSE <<>>))

T_store(src, addr) == Check(src <= 7 /\ addr <= 7, << Bits(\h6000) \cup R(addr, 3) \cup Bits(src) >>)
T_load(dst, addr) == Check(dst <= 7 /\ addr <= 7, << Bits(\h6800) \cup R(addr, 3) \cup Bits(dst) >>)

Low(dst, a, b) == {dst, a, b} \subseteq 0 .. 7
T_add(dst, a, b) == Check(Low(dst, a, b), << Bits(\h1800) \cup R(b, 6) \cup R(a, 3) \cup Bits(dst) >>)
T_sub(dst, a, b) == Check(Low(dst, a, b), << Bits(\h1A00) \cup R(b, 6) \cup R(a, 3) \cup Bits(dst) >>)
T_mul(dst, a, b) ==
    Check(Low(dst, a, b),
          (IF a # dst THEN << R(a, 3) \cup Bits(dst) >> ELSE <<>>)
            \o << Bits(\h4340) \cup R(b, 3) \cup Bits(dst) >>)
T_div(dst, a, b) == Check({dst, a, b} \subseteq 0 .. 15, encode_sdiv(dst, a, b))
T_ret == Ok(<< Bits(\h4770) >>)

T_guard_scalar == Ok(<< Bits(\hF3AF), Bits(\hF8D0), Bits(\hEC10) >>)
T_guard_vector(addr, len) ==
    Check(addr <= 7 /\ len <= 16,
          << Bits(\hDE00) \cup R(addr, 4) \cup Bits((len + 15) % 16) >>)
T_guard_custom(addr, cap) == Check(addr <= 7 /\ cap <= 7, << Bits(\hDE00) \cup R(cap, 4) \cup Bits(addr) >>)

-----------------------------------------------------------------------------
(* RV32.  Register numbers are cut to five bits and never refused. *)

R5(r, k) == Shl(Mask(Bits(r), 5), k)

encode_lui(rd, imm20) == Bits(\h37) \cup R5(rd, 7) \cup Shl(Mask(imm20, 20), 20)
encode_addi(rd, rs1, imm12) == Bits(\h13) \cup R5(rd, 7) \cup R5(rs1, 15) \cup Shl(Mask(imm12, 12), 20)

(* Range test of encode_sw and encode_lw: 0x800 up to 0xFFFFF000 is refused. *)
InOffsetRange(off) == off \subseteq 0 .. 10 \/ (12 .. 31) \subseteq off
encode_sw(rs2, rs1, off) ==
    Check(InOffsetRange(off),
          << Bits(\h2023) \cup Shl(Field(off, 5, 7), 25) \cup R5(rs2, 20) \cup R5(rs1, 15)
               \cup Shl(Mask(off, 5), 7) >>)
encode_lw(rd, rs1, off) ==
    Check(InOffsetRange(off),
          << Bits(\h2003) \cup R5(rd, 7) \cup R5(rs1, 15) \cup Shl(Mask(off, 12), 20) >>)
encode_rtype(rd, rs1, rs2, funct7, funct3) ==
    Bits(\h33) \cup R(funct7, 25) \cup R5(rs2, 20) \cup R5(rs1, 15) \cup R(funct3, 12) \cup R5(rd, 7)
encode_rtype_addsub(rd, rs1, rs2, sub) == encode_rtype(rd, rs1, rs2, IF sub THEN 32 ELSE 0, 0)
RV32_RET == Bits(\h8067)

hi20(imm) == Shr(Plus(imm, Bits(\h800)), 12)
lo12(imm) == Minus(imm, Shl(hi20(imm), 12))

V_mov_imm(reg, imm) ==
    IF imm \subseteq 0 .. 10 \/ (11 .. 31) \subseteq imm
      THEN Ok(<< encode_addi(reg, 0, imm) >>)
      ELSE Ok(<< encode_lui(reg, hi20(imm)) >>
                \o (IF lo12(imm) # {} THEN << encode_addi(reg, reg, lo12(imm)) >> ELSE <<>>))

V_store(src, addr) == encode_sw(src, addr, {})
V_load(dst, addr) == encode_lw(dst, addr, {})
V_add(dst, a, b) == Ok(<< encode_rtype_addsub(dst, a, b, FALSE) >>)
V_sub(dst, a, b) == Ok(<< encode_rtype_addsub(dst, a, b, TRUE) >>)
V_mul(dst, a, b) == Ok(<< encode_rtype(dst, a, b, 1, 0) >>)
V_div(dst, a, b) == Ok(<< encode_rtype(dst, a, b, 1, 4) >>)
V_ret == Ok(<< RV32_RET >>)

V_guard_scalar == Ok(<< Bits(\h00C55133), Bits(\h03F55033), Bits(\h00058063) >>)
V_guard_vector(addr, len) ==
    IF len > 256 THEN Err("Overflow")
                 ELSE Ok(<< Shl(Bits(\hF3AF), 16) \cup {15} \cup Mask(Bits(len), 8) >>)
V_guard_custom(addr, cap) == Ok(<< R(1, 25) \cup R5(cap, 20) \cup R5(addr, 15) \cup Bits(\b0001011) >>)

-----------------------------------------------------------------------------
(* One operation of the trait.  Registers it does not use are 0. *)
Op(kind, d, a, b, imm) == [kind |-> kind, d |-> d, a |-> a, b |-> b, imm |-> imm]

Then(r, s) == IF r.err = "none" THEN [s EXCEPT !.words = r.words \o @] ELSE r

Emitted(target, o) ==
    IF target = "thumb2"
      THEN CASE o.kind = "mov_imm" -> T_mov_imm(o.d, o.imm)
             [] o.kind = "store" -> T_store(o.b, o.a)
             [] o.kind = "load" -> T_load(o.d, o.a)
             [] o.kind = "add" -> T_add(o.d, o.a, o.b)
             [] o.kind = "sub" -> T_sub(o.d, o.a, o.b)
             [] o.kind = "mul" -> T_mul(o.d, o.a, o.b)
             [] o.kind = "div" -> T_div(o.d, o.a, o.b)
             [] o.kind = "mov_ret" -> Then(T_mov_imm(0, o.imm), T_ret)
             [] o.kind = "ret" -> T_ret
             [] o.kind = "guard_scalar" -> T_guard_scalar
             [] o.kind = "guard_vector" -> T_guard_vector(o.a, o.b)
             [] o.kind = "guard_custom" -> T_guard_custom(o.a, o.b)
      ELSE CASE o.kind = "mov_imm" -> V_mov_imm(o.d, o.imm)
             [] o.kind = "store" -> V_store(o.b, o.a)
             [] o.kind = "load" -> V_load(o.d, o.a)
             [] o.kind = "add" -> V_add(o.d, o.a, o.b)
             [] o.kind = "sub" -> V_sub(o.d, o.a, o.b)
             [] o.kind = "mul" -> V_mul(o.d, o.a, o.b)
             [] o.kind = "div" -> V_div(o.d, o.a, o.b)
             [] o.kind = "mov_ret" -> Then(V_mov_imm(10, o.imm), V_ret)
             [] o.kind = "ret" -> V_ret
             [] o.kind = "guard_scalar" -> V_guard_scalar
             [] o.kind = "guard_vector" -> V_guard_vector(o.a, o.b)
             [] o.kind = "guard_custom" -> V_guard_custom(o.a, o.b)

(* push16 and push32, one unit after the other until the buffer is full. *)
push(e, words, cap) ==
    LET room == cap - Len(e.buf) IN
    IF Len(words) <= room THEN [buf |-> e.buf \o words, err |-> "none"]
                          ELSE [buf |-> e.buf \o SubSeq(words, 1, room), err |-> "Overflow"]

EmitInto(e, target, o, cap) ==
    LET r == Emitted(target, o) IN
    CASE e.err # "none" -> e
      [] e.err = "none" /\ r.err # "none" -> [e EXCEPT !.err = r.err]
      [] OTHER -> push(e, r.words, cap)

into_exec_buffer == [buf |-> <<>>, err |-> "none"]

-----------------------------------------------------------------------------
VARIABLES target,
          em,         \* the emitter
          ops         \* operations it accepted

emitterVars == <<target, em, ops>>

Ops ==
    {Op("mov_imm", d, 0, 0, i) : d \in Regs, i \in Imms}
    \cup {Op("store", 0, a, b, {}) : a, b \in Regs}
    \cup {Op("load", d, a, 0, {}) : d, a \in Regs}
    \cup {Op(k, d, a, b, {}) : k \in {"add", "sub", "mul", "div"}, d, a, b \in Regs}
    \cup {Op("mov_ret", 0, 0, 0, i) : i \in Imms}
    \cup {Op(k, 0, a, 1, {}) : k \in {"ret", "guard_scalar", "guard_custom", "guard_vector"}, a \in {1}}

EmitterInit ==
    /\ target \in Targets
    /\ em = into_exec_buffer
    /\ ops = <<>>

EmitOp(o) ==
    /\ em.err = "none" /\ Len(ops) < MaxOps
    /\ em' = EmitInto(em, target, o, CapWords)
    /\ ops' = IF em'.err = "none" THEN Append(ops, o) ELSE ops
    /\ UNCHANGED target

EmitterNext == \E o \in Ops : EmitOp(o)

EmitterSpec == EmitterInit /\ [][EmitterNext]_emitterVars

-----------------------------------------------------------------------------
(* What the comments of TargetEmitter say an operation does when it is       *)
(* executed; nothing happens after a return.                                 *)
TraitStep(t, m, o) ==
    CASE m.state # "run" -> m
      [] m.state = "run" /\ o.kind = "mov_imm" -> SetReg(m, o.d, Wd(o.imm))
      [] m.state = "run" /\ o.kind = "store" -> StoreTo(m, m.regs[o.a], m.regs[o.b])
      [] m.state = "run" /\ o.kind = "load" ->
           Reading(SetReg(m, o.d, Cell(m, m.regs[o.a])), m.regs[o.a])
      [] m.state = "run" /\ o.kind \in {"add", "sub"} ->
           SetReg(m, o.d, <<o.kind, m.regs[o.a], m.regs[o.b]>>)
      [] m.state = "run" /\ o.kind = "mul" -> SetReg(m, o.d, <<"mul", {m.regs[o.a], m.regs[o.b]}>>)
      [] m.state = "run" /\ o.kind = "div" -> SetReg(m, o.d, <<"div", m.regs[o.a], m.regs[o.b], 0>>)
      [] m.state = "run" /\ o.kind = "ret" -> [m EXCEPT !.state = "returned"]
      [] m.state = "run" /\ o.kind = "mov_ret" ->
           [SetReg(m, IF t = "thumb2" THEN 0 ELSE 10, Wd(o.imm)) EXCEPT !.state = "returned"]

(* A sequence of operations from its start. *)
TraitRun(t, os, mem) ==
    LET run[i \in 0 .. Len(os)] == IF i = 0 THEN Machine(mem) ELSE TraitStep(t, run[i - 1], os[i])
    IN  run[Len(os)]

(* The guards are placeholders whose effect the trait does not define.       *)
Guard(o) == o.kind \in {"guard_scalar", "guard_vector", "guard_custom"}

KeepsTrait == RunCode(em.buf, target, <<>>) = TraitRun(target, ops, <<>>)
Accepted == em.err = "none" /\ \A i \in DOMAIN ops : ~Guard(ops[i])

(* TargetEmitter: "`dst = a * b`", "`dst = a / b` (signed, truncating toward *)
(* zero; div-by-zero returns 0)", "Load a 32-bit immediate into `reg`" and   *)
(* so on.  The code of every sequence of accepted operations does what these *)
(* comments say: same registers, same memory, same accesses in order.        *)
EmittedMeansTrait == Accepted => KeepsTrait

(* The operations that are accepted and do something else, by target.        *)
Wrong(t, o) ==
    IF t = "thumb2"
      THEN \/ o.kind = "div"                                     \* an undefined encoding
           \/ o.kind = "mul" /\ o.b = o.d /\ o.a # o.d           \* b is overwritten by a
           \/ o.kind = "mov_imm" /\ o.d \in {13, 15}             \* unpredictable
      ELSE \/ o.kind = "div"                                     \* division by zero gives -1
           \/ o.kind \in {"mov_imm", "mov_ret"}                  \* LUI's immediate is misplaced
                /\ ~(o.imm \subseteq 0 .. 10 \/ (11 .. 31) \subseteq o.imm)
           \/ \E r \in {o.a, o.b, o.d} : r > 31                  \* cut to five bits

(* How far the trait's comments hold: the code of a sequence of accepted     *)
(* operations does what they say if none is one of Wrong, and every          *)
(* operation of Wrong really does something else.  What is wrong with the    *)
(* immediates of RISC-V is encode_lui and not the split in emit_mov_imm:     *)
(* the two parts add up to the immediate, sign extension included.           *)
TraitKeptExceptWrong ==
    /\ Accepted =>
         LET wrong == {i \in DOMAIN ops : Wrong(target, ops[i])}
         IN  /\ wrong = {} => KeepsTrait
             /\ Len(ops) = 1 /\ wrong # {} => ~KeepsTrait
    /\ ops # <<>> /\ target = "riscv32" =>
         LET i == ops[Len(ops)].imm IN Plus(Shl(hi20(i), 12), SignExtend(Mask(lo12(i), 12), 12)) = i
=============================================================================
