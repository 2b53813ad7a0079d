-------------------------------- MODULE Isa --------------------------------
(***************************************************************************)
(* The processors as the emitters use them (external): what the ARMv7-M    *)
(* and RV32IM manuals say of the few instructions that are emitted.        *)
(*                                                                         *)
(* A value is a word, the unknown first content of a register or of a      *)
(* memory cell, or the result of an operation on values; products are kept *)
(* without order.  A trap is anything else: an undefined or unpredictable  *)
(* encoding, an instruction cut off by the end of the code.                *)
(***************************************************************************)
EXTENDS MachineWord, Sequences

Wd(x) == <<"word", x>>
Zero == Wd({})
PlusVal(v, x) == IF v[1] = "word" THEN Wd(Plus(v[2], x)) ELSE <<"plus", v, x>>
TopVal(v, x) == IF v[1] = "word" THEN Wd(Mask(v[2], 16) \cup Shl(x, 16)) ELSE <<"top", v, x>>

Machine(mem) ==
    [regs |-> [r \in 0 .. 31 |-> <<"reg", r>>], mem |-> mem, bus |-> <<>>, state |-> "run"]

Cell(m, a) == IF a \in DOMAIN m.mem THEN m.mem[a] ELSE <<"cell", a>>
SetReg(m, d, v) == [m EXCEPT !.regs[d] = v]
Reading(m, a) == [m EXCEPT !.bus = Append(@, <<"read", a>>)]
StoreTo(m, a, v) ==
    [m EXCEPT !.mem = [b \in {a} \cup DOMAIN @ |-> IF b = a THEN v ELSE @[b]],
              !.bus = Append(@, <<"write", a, v>>)]

-----------------------------------------------------------------------------
(* Decoded instructions: the operation, how many units of code it takes, the *)
(* destination, two source registers and an immediate.                       *)
Ins(op, size, d, a, b, x) == [op |-> op, size |-> size, d |-> d, a |-> a, b |-> b, x |-> x]
Trap == Ins("trap", 1, 0, 0, 0, {})
Ret == Ins("ret", 1, 0, 0, 0, {})

(* The bits of x from bit k on, or w of them, spell the number n. *)
From(x, k, n) == Shr(x, k) = Bits(n)
Spells(x, k, w, n) == Field(x, k, w) = Bits(n)
Reg(x, k, w) == Num(Field(x, k, w))

Thumb16(h) ==
    LET lo == Reg(h, 0, 3)
        mid == Reg(h, 3, 3)
        high == Reg(h, 6, 3)
    IN  CASE From(h, 11, \b00100) -> Ins("const", 1, Reg(h, 8, 3), 0, 0, Mask(h, 8))
          [] From(h, 9, \b0001100) -> Ins("add", 1, lo, mid, high, {})
          [] From(h, 9, \b0001101) -> Ins("sub", 1, lo, mid, high, {})
          [] From(h, 6, \b0000000000) -> Ins("move", 1, lo, mid, 0, {})
          [] From(h, 6, \b0100001101) -> Ins("mul", 1, lo, lo, mid, {})
          [] From(h, 6, \b0110000000) -> Ins("store", 1, 0, mid, lo, {})
          [] From(h, 6, \b0110100000) -> Ins("load", 1, lo, mid, 0, {})
          [] From(h, 0, \h4770) -> Ret
          [] OTHER -> Trap

Thumb32(h, g) ==
    LET rd == Reg(g, 8, 4)
        imm16 == Shl(Mask(h, 4), 12) \cup Shl(Field(h, 10, 1), 11)
                   \cup Shl(Field(g, 12, 3), 8) \cup Mask(g, 8)
        plain == From(h, 11, \b11110) /\ 15 \notin g /\ rd \notin {13, 15}
    IN  CASE plain /\ Spells(h, 4, 6, \b100100) -> Ins("const", 2, rd, 0, 0, imm16)
          [] plain /\ Spells(h, 4, 6, \b101100) -> Ins("top", 2, rd, 0, 0, imm16)
          [] From(h, 4, \b111110111001) /\ Spells(g, 4, 4, \b1111) /\ rd \notin {13, 15} ->
               Ins("div", 2, rd, Reg(h, 0, 4), Reg(g, 0, 4), {})
          [] OTHER -> Trap

Wide(h) == From(h, 11, \b11101) \/ From(h, 11, \b11110) \/ From(h, 11, \b11111)

Thumb(code, i) ==
    CASE ~Wide(code[i]) -> Thumb16(code[i])
      [] Wide(code[i]) /\ i < Len(code) -> Thumb32(code[i], code[i + 1])
      [] OTHER -> Trap

Rv32(w) ==
    LET rd == Reg(w, 7, 5)
        rs1 == Reg(w, 15, 5)
        rs2 == Reg(w, 20, 5)
        opcode(n) == Spells(w, 0, 7, n)
        funct3(n) == Spells(w, 12, 3, n)
        funct7(n) == From(w, 25, n)
    IN  CASE opcode(\h37) -> Ins("const", 1, rd, 0, 0, w \cap (12 .. 31))
          [] opcode(\h13) /\ funct3(0) -> Ins("addi", 1, rd, rs1, 0, SignExtend(Shr(w, 20), 12))
          [] opcode(\h23) /\ funct3(2) /\ funct7(0) /\ rd = 0 -> Ins("store", 1, 0, rs1, rs2, {})
          [] opcode(\h03) /\ funct3(2) /\ From(w, 20, 0) -> Ins("load", 1, rd, rs1, 0, {})
          [] opcode(\h33) /\ funct3(0) /\ funct7(0) -> Ins("add", 1, rd, rs1, rs2, {})
          [] opcode(\h33) /\ funct3(0) /\ funct7(32) -> Ins("sub", 1, rd, rs1, rs2, {})
          [] opcode(\h33) /\ funct3(0) /\ funct7(1) -> Ins("mul", 1, rd, rs1, rs2, {})
          [] opcode(\h33) /\ funct3(4) /\ funct7(1) -> Ins("div", 1, rd, rs1, rs2, {})
          [] From(w, 0, \h8067) -> Ret
          [] OTHER -> Trap

-----------------------------------------------------------------------------
(* Division by zero gives 0 on ARM and -1 on RISC-V; x0 reads as zero and    *)
(* keeps it.                                                                 *)
Perform(m, i, target) ==
    LET reg(r) == IF target = "riscv32" /\ r = 0 THEN Zero ELSE m.regs[r]
        put(v) == IF target = "riscv32" /\ i.d = 0 THEN m ELSE SetReg(m, i.d, v)
    IN  CASE i.op = "const" -> put(Wd(i.x))
          [] i.op = "top" -> put(TopVal(reg(i.d), i.x))
          [] i.op = "addi" -> put(PlusVal(reg(i.a), i.x))
          [] i.op = "move" -> put(reg(i.a))
          [] i.op \in {"add", "sub"} -> put(<<i.op, reg(i.a), reg(i.b)>>)
          [] i.op = "mul" -> put(<<"mul", {reg(i.a), reg(i.b)}>>)
          [] i.op = "div" -> put(<<"div", reg(i.a), reg(i.b), IF target = "thumb2" THEN 0 ELSE -1>>)
          [] i.op = "load" -> Reading(put(Cell(m, reg(i.a))), reg(i.a))
          [] i.op = "store" -> StoreTo(m, reg(i.a), reg(i.b))
          [] i.op = "ret" -> [m EXCEPT !.state = "returned"]
          [] OTHER -> [m EXCEPT !.state = "trapped"]

(* One instruction of the code; nothing once it has returned, trapped or run *)
(* past its end.                                                             *)
Fetch(code, target, pc) == IF target = "thumb2" THEN Thumb(code, pc) ELSE Rv32(code[pc])

Execute(code, target, s) ==
    IF s.m.state # "run" \/ s.pc > Len(code) THEN s
    ELSE LET i == Fetch(code, target, s.pc)
         IN  [m |-> Perform(s.m, i, target), pc |-> s.pc + i.size]

(* The code from its start to its end. *)
RunCode(code, target, mem) ==
    LET run[n \in 0 .. Len(code)] ==
            IF n = 0 THEN [m |-> Machine(mem), pc |-> 1] ELSE Execute(code, target, run[n - 1])
    IN  run[Len(code)].m
=============================================================================
