------------------------------- MODULE Shell -------------------------------
(***************************************************************************)
(* The command shell: one line at a time is compiled (compiler/parser.rs)  *)
(* and then its outcome is executed (drivers/repl.rs), over the capability *)
(* registry, the audit ring, the function table and the execution engine.  *)
(*                                                                         *)
(* A function or loop line is compiled statement by statement.  A line     *)
(* that is refused, for whatever reason, ends in RejectLine (or, at top    *)
(* level, in no step at all): it changes nothing but the scratch stream.   *)
(*                                                                         *)
(* Word, the words that lines name, holds peripheral registers, unmapped   *)
(* addresses and free RAM: neither flash nor the program's own statics.    *)
(* RAM needs no capability, so a line can also write the latter; what the  *)
(* program does from there on is outside the model.                        *)
(***************************************************************************)
EXTENDS CapRegistry, AuditLog, FnTable, Exec

CONSTANTS MaxStreamWords,   \* MAX_STREAM_WORDS: 128 in the code
          MaxLoopUnroll,    \* MAX_LOOP_UNROLL: 64 in the code
          LoopCounts,       \* loop counts that are typed
          MaxNesting,       \* bound: loops open at once (the line length bounds it)
          Vals,             \* literal values that are typed
          UsedCaps,         \* resources that are claimed and dropped
          StoredBodies,     \* bodies that the program store may hold
          MaxRecorded       \* bound: superuser writes recorded since boot

ASSUME StreamAssumption == MaxStreamWords \in Nat /\ FnBodyWords < MaxStreamWords
ASSUME LoopAssumption == MaxLoopUnroll \in Nat /\ LoopCounts \subseteq Nat
ASSUME NestingAssumption == MaxNesting \in Nat
ASSUME UsedCapsAssumption == UsedCaps \subseteq CapId
ASSUME StoredBodiesAssumption == StoredBodies \subseteq Seq(Stmt)
ASSUME WordAssumption == Word \subseteq Nat /\ Vals \subseteq Word
ASSUME MaxRecordedAssumption == MaxRecorded \in Nat

VARIABLES stream, stream_len,   \* the scratch stream and its length in words
          parse,                \* the fn or loop line being compiled
          pending,              \* the compiled outcome, until it is executed
          mem,                  \* the RAM words
          bus,                  \* the accesses made by the last execution
          admitted              \* history: addresses that check_access has allowed or load imported

vars == <<claimed, log, recorded, fns, stream, stream_len, parse, pending,
          mem, bus, admitted>>

auditVars == <<log, recorded>>
streamVars == <<stream, stream_len>>

NoParse == [kind |-> "none", name |-> NoName, loops |-> <<>>]
Nothing == [cmd |-> "none"]
Quiet == [via |-> "none", seq |-> <<>>]
Ram == {a \in Word : is_ram_flash(a)}

(* Power-on.  Nothing writes the registry before it is first read: its       *)
(* section is NOLOAD, so it starts as whatever the SRAM comes up with.       *)
Init ==
    /\ claimed \in SUBSET UsedCaps
    /\ log = EmptyLog /\ recorded = <<>>
    /\ fns = NoFns
    /\ stream = <<>> /\ stream_len = 0
    /\ parse = NoParse
    /\ pending = Nothing
    /\ mem \in [Ram -> Word]
    /\ bus = Quiet
    /\ admitted = {}

-----------------------------------------------------------------------------
(* Compiling a line.  The scratch stream is dead between lines: whoever uses *)
(* it resets it first, and the model clears it when a line ends.             *)

Ready == parse = NoParse /\ pending = Nothing

(* Mutant: the check is left to the execution. *)
ParseAccess_Unchecked(cmd, a, v) ==
    /\ Ready
    /\ cmd # "peek" /\ is_superuser_active => Len(recorded) < MaxRecorded
    /\ pending' = [cmd |-> cmd, addr |-> a, val |-> v]
    /\ admitted' = admitted \cup {a}
    /\ bus' = Quiet
    /\ UNCHANGED <<claimed, auditVars, fns, streamVars, parse, mem>>

(* peek, poke, reg_set_bit, reg_clr_bit: checked when compiled. *)
ParseAccess(cmd, a, v) ==
    /\ Ready
    /\ check_access(a)
    /\ cmd # "peek" /\ is_superuser_active => Len(recorded) < MaxRecorded
    /\ pending' = [cmd |-> cmd, addr |-> a, val |-> v]
    /\ admitted' = admitted \cup {a}
    /\ bus' = Quiet
    /\ UNCHANGED <<claimed, auditVars, fns, streamVars, parse, mem>>

(* cap_claim and cap_drop, and flash_test below: no check. *)
ParseVerb(cmd, cap) ==
    /\ Ready
    /\ pending' = [cmd |-> cmd, cap |-> cap]
    /\ bus' = Quiet
    /\ UNCHANGED <<claimed, auditVars, fns, streamVars, parse, mem, admitted>>

ParseFlashTest == ParseVerb("flash_test", "SUPERUSER")

(* load NAME; *)
ParseLoad(name) ==
    /\ Ready
    /\ pending' = [cmd |-> "load", name |-> name]
    /\ bus' = Quiet
    /\ UNCHANGED <<claimed, auditVars, fns, streamVars, parse, mem, admitted>>

(* pwm, pwm_duty and, below, spi_tx: one probe address stands for the peripheral. *)
timer_probe == IF Arch = "arm" THEN At(16384, 0) ELSE At(4097, 20480)
spi_probe == IF Arch = "arm" THEN At(16385, 12288) ELSE At(4097, 16384)

(* Mutant: every driver probes the timer. *)
ParseDriver_TimerOnly(cmd) ==
    /\ Ready
    /\ check_access(timer_probe)
    /\ pending' = [cmd |-> cmd]
    /\ bus' = Quiet
    /\ UNCHANGED <<claimed, auditVars, fns, streamVars, parse, mem, admitted>>

ParseDriver(cmd) ==
    /\ Ready
    /\ check_access(IF cmd = "spi_tx" THEN spi_probe ELSE timer_probe)
    /\ pending' = [cmd |-> cmd]
    /\ bus' = Quiet
    /\ UNCHANGED <<claimed, auditVars, fns, streamVars, parse, mem, admitted>>

ParseSpiTx == ParseDriver("spi_tx")

(* EXPR; -- the value is known by now and the program only returns it. *)
ParseValue ==
    /\ Ready
    /\ pending' = [cmd |-> "run", prog |-> <<>>]
    /\ bus' = Quiet
    /\ UNCHANGED <<claimed, auditVars, fns, streamVars, parse, mem, admitted>>

(* NAME(); -- the stored body is copied, with no further check. *)
ParseCall(name) ==
    /\ Ready
    /\ defined(name)
    /\ fns[find_fn(name)].len + 1 <= MaxStreamWords
    /\ pending' = [cmd |-> "run", prog |-> fns[find_fn(name)].body]
    /\ bus' = Quiet
    /\ UNCHANGED <<claimed, auditVars, fns, streamVars, parse, mem, admitted>>

(* A peek inside an expression reads memory while the line is compiled. *)
EvalPeek(a) ==
    /\ pending = Nothing
    /\ bus' = [via |-> "expr", seq |-> <<Read(a)>>]
    /\ UNCHANGED <<claimed, auditVars, fns, streamVars, parse, pending, mem, admitted>>

BeginFn(name) ==
    /\ Ready
    /\ parse' = [kind |-> "fn", name |-> name, loops |-> <<>>]
    /\ stream' = <<>> /\ stream_len' = 0
    /\ bus' = Quiet
    /\ UNCHANGED <<claimed, auditVars, fns, pending, mem, admitted>>

(* loop N { at top level: the whole line is one loop of pokes and peeks. *)
BeginLoop(count) ==
    /\ Ready
    /\ count \in 1 .. MaxLoopUnroll
    /\ parse' = [kind |-> "loop", name |-> NoName,
                 loops |-> <<[count |-> count, at |-> 0, words |-> 0]>>]
    /\ stream' = <<>> /\ stream_len' = 0
    /\ bus' = Quiet
    /\ UNCHANGED <<claimed, auditVars, fns, pending, mem, admitted>>

(* Mutant: a peek is compiled without check_access. *)
BodyAccess_PeekUnchecked(s) ==
    /\ parse.kind # "none"
    /\ s.op = "poke" => check_access(s.addr)
    /\ stream_len + StmtWords(s) <= MaxStreamWords
    /\ stream' = Append(stream, s)
    /\ stream_len' = stream_len + StmtWords(s)
    /\ admitted' = IF s.op = "poke" THEN admitted \cup {s.addr} ELSE admitted
    /\ UNCHANGED <<claimed, auditVars, fns, parse, pending, mem, bus>>

(* poke and peek in a body. *)
BodyAccess(s) ==
    /\ parse.kind # "none"
    /\ check_access(s.addr)
    /\ stream_len + StmtWords(s) <= MaxStreamWords
    /\ stream' = Append(stream, s)
    /\ stream_len' = stream_len + StmtWords(s)
    /\ admitted' = admitted \cup {s.addr}
    /\ UNCHANGED <<claimed, auditVars, fns, parse, pending, mem, bus>>

(* NAME(); in a body: splice_call. *)
BodyCall(name) ==
    /\ parse.kind = "fn"
    /\ defined(name)
    /\ stream_len + fns[find_fn(name)].len <= MaxStreamWords
    /\ stream' = stream \o fns[find_fn(name)].body
    /\ stream_len' = stream_len + fns[find_fn(name)].len
    /\ UNCHANGED <<claimed, auditVars, fns, parse, pending, mem, bus, admitted>>

(* loop N { in a body: remember where the loop body starts. *)
BodyLoop(count) ==
    /\ parse.kind = "fn"
    /\ Len(parse.loops) < MaxNesting
    /\ count \in 1 .. MaxLoopUnroll
    /\ parse' = [parse EXCEPT !.loops =
                     Append(@, [count |-> count, at |-> Len(stream), words |-> stream_len])]
    /\ UNCHANGED <<claimed, auditVars, fns, streamVars, pending, mem, bus, admitted>>

(* Mutant: the first copy is not counted. *)
UnrolledLen_OneShort(loop) == loop.words + (loop.count - 1) * (stream_len - loop.words)

UnrolledLen(loop) == loop.words + loop.count * (stream_len - loop.words)

EndBodyLoop ==
    /\ parse.kind = "fn" /\ parse.loops # <<>>
    /\ LET loop == parse.loops[Len(parse.loops)]
       IN  /\ UnrolledLen(loop) <= MaxStreamWords
           /\ stream' = Unrolled(stream, loop.at, loop.count)
           /\ stream_len' = UnrolledLen(loop)
    /\ parse' = [parse EXCEPT !.loops = SubSeq(@, 1, Len(@) - 1)]
    /\ UNCHANGED <<claimed, auditVars, fns, pending, mem, bus, admitted>>

EndFn ==
    /\ parse.kind = "fn" /\ parse.loops = <<>>
    /\ stream_len <= FnBodyWords
    /\ can_alloc(parse.name)
    /\ install_fn(parse.name, stream_len, stream)
    /\ parse' = NoParse
    /\ stream' = <<>> /\ stream_len' = 0
    /\ UNCHANGED <<claimed, auditVars, pending, mem, bus, admitted>>

EndLoop ==
    /\ parse.kind = "loop"
    /\ LET loop == parse.loops[Len(parse.loops)]
       IN  /\ UnrolledLen(loop) + 1 <= MaxStreamWords
           /\ pending' = [cmd |-> "run", prog |-> Unrolled(stream, loop.at, loop.count)]
    /\ parse' = NoParse
    /\ stream' = <<>> /\ stream_len' = 0
    /\ UNCHANGED <<claimed, auditVars, fns, mem, bus, admitted>>

RejectLine ==
    /\ parse.kind # "none"
    /\ parse' = NoParse
    /\ stream' = <<>> /\ stream_len' = 0
    /\ UNCHANGED <<claimed, auditVars, fns, pending, mem, bus, admitted>>

-----------------------------------------------------------------------------
(* Executing the outcome. *)

Stored(a, v) == IF a \in Ram THEN [mem EXCEPT ![a] = v] ELSE mem

(* enforced_poke_u32: checked again, and recorded under the superuser. *)
enforced_poke(before, a, v) ==
    IF enforced_access(a)
      THEN /\ IF is_superuser_active THEN record_event(a, v) ELSE UNCHANGED auditVars
           /\ mem' = Stored(a, v)
           /\ bus' = [via |-> "direct", seq |-> Append(before, Write(a, v))]
      ELSE /\ UNCHANGED <<auditVars, mem>>
           /\ bus' = [via |-> "direct", seq |-> before]

ExecPoke ==
    /\ pending.cmd = "poke"
    /\ enforced_poke(<<>>, pending.addr, pending.val)
    /\ pending' = Nothing
    /\ UNCHANGED <<claimed, fns, streamVars, parse, admitted>>

(* Mutant: the operands of the read are swapped. *)
ExecBit_ReadsValue ==
    /\ pending.cmd = "reg_bit"
    /\ enforced_poke(<<Read(pending.val)>>, pending.addr, pending.val)
    /\ pending' = Nothing
    /\ UNCHANGED <<claimed, fns, streamVars, parse, admitted>>

(* SetBit and ClrBit: an unguarded read, then an enforced write of the word  *)
(* with the bit changed; which word that is does not matter here.            *)
ExecBit ==
    /\ pending.cmd = "reg_bit"
    /\ enforced_poke(<<Read(pending.addr)>>, pending.addr, pending.val)
    /\ pending' = Nothing
    /\ UNCHANGED <<claimed, fns, streamVars, parse, admitted>>

ExecPeek ==
    /\ pending.cmd = "peek"
    /\ bus' = [via |-> "direct",
               seq |-> IF enforced_access(pending.addr) THEN <<Read(pending.addr)>> ELSE <<>>]
    /\ pending' = Nothing
    /\ UNCHANGED <<claimed, auditVars, fns, streamVars, parse, mem, admitted>>

(* do_claim: on CAP BUSY the bit is already set. *)
ExecClaim ==
    /\ pending.cmd = "cap_claim"
    /\ acquire(pending.cap)
    /\ pending' = Nothing
    /\ UNCHANGED <<auditVars, fns, streamVars, parse, mem, bus, admitted>>

(* do_drop: CAP NOT HELD, or the bit is cleared. *)
ExecDrop ==
    /\ pending.cmd = "cap_drop"
    /\ IF available(pending.cap) THEN UNCHANGED claimed ELSE release(pending.cap)
    /\ pending' = Nothing
    /\ UNCHANGED <<auditVars, fns, streamVars, parse, mem, bus, admitted>>

(* Load: import_fn installs the body the store has under the name, and looks *)
(* at nothing but its length.  The rest is NOT FOUND, IMPORT FAILED and, on  *)
(* RISC-V, no store.  What the store holds is PStore's subject: here any of  *)
(* StoredBodies.  Words that are no compiled body are outside this module.   *)
ExecLoad ==
    /\ pending.cmd = "load"
    /\ \/ \E body \in StoredBodies :
            /\ Arch = "arm"
            /\ WordCount(body) <= FnBodyWords
            /\ can_alloc(pending.name)
            /\ install_fn(pending.name, WordCount(body), body)
            /\ admitted' = admitted \cup Addresses(body)
       \/ UNCHANGED <<fns, admitted>>
    /\ pending' = Nothing
    /\ UNCHANGED <<claimed, auditVars, streamVars, parse, mem, bus>>

(* StreamProgram::run.  What a device register reads as is the device's choice. *)
ExecRun ==
    /\ pending.cmd = "run"
    /\ \E dev \in [Word \ Ram -> Word] :
           LET out == compile_and_run(Code(pending.prog),
                          [a \in Word |-> IF a \in Ram THEN mem[a] ELSE dev[a]])
           IN  /\ mem' = [a \in Ram |-> out.mem[a]]
               /\ bus' = [via |-> "stream", seq |-> out.bus]
    /\ pending' = Nothing
    /\ UNCHANGED <<claimed, auditVars, fns, streamVars, parse, admitted>>

(* The raw register accesses of the drivers; what they write is left out,    *)
(* and a polling loop is the one read that ends it.                          *)
Get(a) == [op |-> "read", addr |-> a]
Put(a) == [op |-> "write", addr |-> a]
Modify(a) == <<Get(a), Put(a)>>
tim(offset) == timer_probe + offset \div 4
rcc_apb1enr == At(16386, 14400)                                   \* 0x4002_3840
flash(offset) == At(16386, 15360 + offset)                        \* 0x4002_3C00

pwm_configure ==
    (IF Arch = "arm" THEN Modify(rcc_apb1enr) ELSE <<>>)
    \o <<Put(tim(0)), Put(tim(40)), Put(tim(44))>>                 \* CR1, PSC, ARR
    \o Modify(tim(24)) \o Modify(tim(32))                          \* CCMR1, CCER
    \o <<Put(tim(52)), Put(tim(0))>>                               \* CCR1, CR1
transfer_byte ==
    IF Arch = "arm" THEN <<Get(spi_probe + 2), Put(spi_probe + 3), Get(spi_probe + 2), Get(spi_probe + 3)>>
                    ELSE <<Put(spi_probe + 6), Get(spi_probe + 8)>>
flash_unlock == <<Get(flash(16)), Put(flash(4)), Put(flash(4))>>
unlocked_and_idle == <<Get(flash(16)), Get(flash(12))>>
erase_store_sector ==
    unlocked_and_idle \o Modify(flash(16)) \o Modify(flash(16))
    \o <<Get(flash(12)), Get(flash(12)), Put(flash(16))>>
program_word ==
    unlocked_and_idle \o Modify(flash(16)) \o <<Put(At(2049, 49152)), Get(flash(12))>>
    \o Modify(flash(16))
flash_self_test ==
    flash_unlock \o erase_store_sector \o program_word
    \o <<Get(At(2049, 49152))>> \o Modify(flash(16))

DriverAccess ==
    [pwm |-> pwm_configure, pwm_duty |-> <<Put(tim(52))>>,
     spi_tx |-> transfer_byte, flash_test |-> flash_self_test]

ExecDriver ==
    /\ pending.cmd \in DOMAIN DriverAccess
    /\ bus' = [via |-> pending.cmd, seq |-> DriverAccess[pending.cmd]]
    /\ pending' = Nothing
    /\ UNCHANGED <<claimed, auditVars, fns, streamVars, parse, mem, admitted>>

-----------------------------------------------------------------------------
(* A reset (pin, debugger, power glitch) at any point.  Start-up rewrites    *)
(* .data and .bss; the registry is in a NOLOAD section that it leaves alone. *)
Reset ==
    /\ log' = EmptyLog /\ recorded' = <<>>
    /\ fns' = NoFns
    /\ stream' = <<>> /\ stream_len' = 0
    /\ parse' = NoParse
    /\ pending' = Nothing
    /\ bus' = Quiet
    /\ UNCHANGED <<claimed, mem, admitted>>

-----------------------------------------------------------------------------
Next ==
    \/ \E a \in Word, v \in Vals, cmd \in {"poke", "reg_bit"} : ParseAccess(cmd, a, v)
    \/ \E a \in Word : ParseAccess("peek", a, a)
    \/ \E cap \in UsedCaps, cmd \in {"cap_claim", "cap_drop"} : ParseVerb(cmd, cap)
    \/ ParseFlashTest
    \/ \E name \in Names : ParseLoad(name)
    \/ \E cmd \in {"pwm", "pwm_duty"} : ParseDriver(cmd)
    \/ ParseSpiTx
    \/ \E name \in Names : ParseCall(name)
    \/ ParseValue
    \/ \E a \in Word : EvalPeek(a)
    \/ \E name \in Names : BeginFn(name)
    \/ \E count \in LoopCounts : BeginLoop(count)
    \/ \E a \in Word, v \in Vals : BodyAccess(Poke(a, v))
    \/ \E a \in Word : BodyAccess(Peek(a))
    \/ \E name \in Names : BodyCall(name)
    \/ \E count \in LoopCounts : BodyLoop(count)
    \/ EndBodyLoop
    \/ EndFn
    \/ EndLoop
    \/ RejectLine
    \/ ExecPoke
    \/ ExecBit
    \/ ExecPeek
    \/ ExecClaim
    \/ ExecDrop
    \/ ExecLoad
    \/ ExecRun
    \/ ExecDriver
    \/ Reset

Spec == Init /\ [][Next]_vars

-----------------------------------------------------------------------------
(* Types. *)

Access == [cmd : {"poke", "reg_bit", "peek"}, addr : Word, val : Word]
Verb == [cmd : {"cap_claim", "cap_drop", "flash_test"}, cap : CapId]
Driver == [cmd : {"pwm", "pwm_duty", "spi_tx"}]
Import == [cmd : {"load"}, name : Names]
Program == [cmd : {"run"}, prog : Seq(Stmt)]
Loop == [count : Nat, at : Nat, words : Nat]

(* The part that the compiler keeps, and the part in the machine.            *)
CompilerTypeOK ==
    /\ claimed \subseteq CapId
    /\ fns \in [FnSlots -> [name : Names \cup {NoName}, len : 0 .. FnBodyWords, body : Seq(Stmt)]]
    /\ stream \in Seq(Stmt)
    /\ stream_len \in 0 .. MaxStreamWords
    /\ parse \in [kind : {"none", "fn", "loop"}, name : Names \cup {NoName}, loops : Seq(Loop)]
    /\ pending \in {Nothing} \cup Access \cup Verb \cup Driver \cup Import \cup Program
    /\ admitted \subseteq Word

MachineTypeOK ==
    /\ log.head \in 0 .. AuditSize - 1
    /\ recorded \in Seq([addr : Word, val : Word])
    /\ mem \in [Ram -> Word]

(* Every variable has a value of its type; no stream, body or ring index     *)
(* exceeds the array the code keeps it in.                                   *)
TypeOK == CompilerTypeOK /\ MachineTypeOK

-----------------------------------------------------------------------------
(* Safety. *)

(* Definition-time enforcement (parse_body_stmt): every address that a       *)
(* function body names, and every address in the stream being compiled or    *)
(* about to run, passed check_access at some time, also when it got there    *)
(* by splicing another function or by unrolling a loop.  The one other way   *)
(* in is load, which imports a body unchecked.                               *)
BodiesAdmitted ==
    /\ \A i \in FnSlots : Addresses(fns[i].body) \subseteq admitted
    /\ Addresses(stream) \subseteq admitted
    /\ pending.cmd = "run" => Addresses(pending.prog) \subseteq admitted

(* What a compiled program reads when it runs: only addresses that passed    *)
(* check_access at some time, or that a load imported.                       *)
StreamReadsAdmitted ==
    bus.via = "stream" =>
        \A k \in DOMAIN bus.seq : bus.seq[k].op = "read" => bus.seq[k].addr \in admitted

(* The access that was checked when a line was compiled is still permitted   *)
(* when its outcome is executed, so the second check of enforced_poke_u32    *)
(* never refuses it, and the drivers, which check nothing, run authorised.   *)
Probe == CASE pending.cmd \in {"poke", "reg_bit", "peek"} -> pending.addr
           [] pending.cmd = "spi_tx" -> spi_probe
           [] OTHER -> timer_probe
AuthorityHeldUntilExecuted ==
    pending.cmd \in {"poke", "reg_bit", "peek", "spi_tx", "pwm", "pwm_duty"} => check_access(Probe)

(* A top-level peek, poke or bit operation touches a peripheral only while   *)
(* its capability, or the superuser's, is claimed, and an unmapped address   *)
(* only under the superuser; this includes the unguarded read of a bit       *)
(* operation.                                                                *)
DirectAccessAuthorised ==
    bus.via = "direct" => \A k \in DOMAIN bus.seq : check_access(bus.seq[k].addr)

(* The drivers check nothing themselves: every register that pwm, pwm_duty   *)
(* and spi_tx touch is authorised by the one address that was probed when    *)
(* the line was compiled, except the clock gate that pwm opens.              *)
DriverAccessAuthorised ==
    bus.via \in {"pwm", "pwm_duty", "spi_tx"} =>
        \A k \in DOMAIN bus.seq :
            bus.seq[k].addr = rcc_apb1enr \/ check_access(bus.seq[k].addr)

(* stream_len and fn_body_lens, kept beside the words, agree with them.      *)
LengthsAgree ==
    /\ stream_len = WordCount(stream)
    /\ \A i \in FnSlots : fns[i].len = WordCount(fns[i].body)

(* A defined function keeps its name and body until a reset clears the whole *)
(* table: no definition, failed or not, overwrites another.                  *)
FnsImmutable ==
    [][fns' = NoFns \/ \A i \in FnSlots : fn_allocated(i) => fns'[i] = fns[i]]_vars

-----------------------------------------------------------------------------
(* What the documents say, and the code does not do. *)

(* capabilities/audit.rs: "Every raw memory operation executed under         *)
(* SuperUserCap is recorded here"; taken for writes only.                    *)
SuperuserWritesRecorded ==
    [][is_superuser_active /\ bus' # bus /\ bus'.via \in {"direct", "stream"}
         /\ (\E k \in DOMAIN bus'.seq : bus'.seq[k].op = "write")
         => log'.count > log.count]_vars
=============================================================================
