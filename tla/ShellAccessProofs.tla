------------------------- MODULE ShellAccessProofs -------------------------
(***************************************************************************)
(* Proofs about what the shell does with its authority and its tables: the *)
(* check made when a line is compiled still holds when it is executed,     *)
(* function names are unique, a defined function is never overwritten, the *)
(* audit ring holds the latest events, and a program reads no address that *)
(* was not checked.                                                        *)
(***************************************************************************)
EXTENDS ShellProofs, ExecProofs

(* The steps that name no prover are for the SMT solver.                     *)
USE SMTT(30)

-----------------------------------------------------------------------------
(* Compiling and executing alternate, and what a top-level access left on    *)
(* the bus is never looked at again once another line has begun: a claim or  *)
(* a drop cannot take effect between a check and the access it allows.       *)

Alternating ==
    /\ pending.cmd = "none" \/ parse.kind = "none"
    /\ bus.via = "direct" => pending.cmd = "none" /\ parse.kind = "none"

AccessInv == Alternating /\ AuthorityHeldUntilExecuted /\ DirectAccessAuthorised

(* Initially nothing is pending and no access has been made.                 *)
LEMMA InitAccess == Init => AccessInv
BY DEF Init, AccessInv, Alternating, AuthorityHeldUntilExecuted, DirectAccessAuthorised,
       Nothing, NoParse, Quiet

(* check_access reads the registry only.                                     *)
LEMMA CheckAccessFrame ==
    ASSUME claimed' = claimed, NEW a
    PROVE  check_access(a)' = check_access(a)
BY ZenonT(30) DEF check_access, is_superuser_active, available, addr_to_cap_id

(* enforced_poke_u32 makes no access beyond the ones it was given and the    *)
(* write it checks.                                                          *)
LEMMA EnforcedPokeAccess ==
    ASSUME NEW a, NEW v, NEW before \in {<<>>, <<Read(a)>>}, enforced_poke(before, a, v), check_access(a),
           claimed' = claimed
    PROVE  DirectAccessAuthorised'
<1>1. check_access(a)'
  BY CheckAccessFrame, ZenonT(30)
<1>2. bus'.seq = before \/ bus'.seq = Append(before, Write(a, v))
  BY DEF enforced_poke
<1>3. \A k \in DOMAIN bus'.seq : bus'.seq[k].addr = a
  BY <1>2 DEF Read, Write
<1> QED BY <1>1, <1>3, ZenonT(30) DEF DirectAccessAuthorised

(* Compiling and executing a line preserve the authority of its access.      *)
LEMMA StepAccess == AccessInv /\ [Next]_vars => AccessInv'
<1> SUFFICES ASSUME AccessInv, [Next]_vars PROVE AccessInv'
  BY ZenonT(30)
<1> USE DEF AccessInv
<1>0. Nothing.cmd = "none" /\ NoParse.kind = "none" /\ Quiet.via = "none"
  BY ZenonT(30) DEF Nothing, NoParse, Quiet
(* A line that begins or is refused, with no authority to hold on to. *)
<1>1. ASSUME bus'.via # "direct", pending'.cmd = "none" \/ parse'.kind = "none",
             pending'.cmd \notin {"poke", "reg_bit", "peek", "spi_tx", "pwm", "pwm_duty"}
      PROVE  AccessInv'
  BY <1>1, ZenonT(30) DEF Alternating, AuthorityHeldUntilExecuted, DirectAccessAuthorised
(* A step of the compiler that leaves the bus and the registry alone. *)
<1>2. ASSUME parse.kind # "none", UNCHANGED <<claimed, bus>>,
             pending'.cmd = "none" \/ (pending'.cmd = "run" /\ parse'.kind = "none")
      PROVE  AccessInv'
  <2>1. bus'.via # "direct"
    BY <1>2, ZenonT(30) DEF Alternating
  <2> QED BY <1>1, <1>2, <2>1, ZenonT(30)
(* An execution. *)
<1>3. ASSUME pending.cmd # "none", pending' = Nothing, UNCHANGED parse, DirectAccessAuthorised'
      PROVE  AccessInv'
  BY <1>0, <1>3, ZenonT(30) DEF Alternating, AuthorityHeldUntilExecuted
<1>4. parse.kind # "none" => pending.cmd = "none"
  BY ZenonT(30) DEF Alternating
<1>5. ASSUME NEW a \in Word, NEW v, NEW cmd \in {"poke", "reg_bit", "peek"}, ParseAccess(cmd, a, v)
      PROVE  AccessInv'
  <2>1. /\ pending' = [cmd |-> cmd, addr |-> a, val |-> v] /\ bus' = Quiet
        /\ parse' = NoParse /\ claimed' = claimed /\ check_access(a)
    BY <1>5, ZenonT(30) DEF ParseAccess, Ready
  <2>2. check_access(a)'
    BY <2>1, CheckAccessFrame, ZenonT(30)
  <2>3. Probe' = a
    BY <2>1, ZenonT(30) DEF Probe
  <2> QED BY <1>0, <2>1, <2>2, <2>3, ZenonT(30) DEF Alternating, AuthorityHeldUntilExecuted, DirectAccessAuthorised
<1>6. ASSUME NEW cmd \in {"pwm", "pwm_duty", "spi_tx"}, ParseDriver(cmd) PROVE AccessInv'
  <2> DEFINE probe == IF cmd = "spi_tx" THEN spi_probe ELSE timer_probe
  <2>1. /\ pending' = [cmd |-> cmd] /\ bus' = Quiet /\ parse' = NoParse
        /\ claimed' = claimed /\ check_access(probe)
    BY <1>6, ZenonT(30) DEF ParseDriver, Ready
  <2>2. Probe' = probe
    BY <2>1 DEF Probe, spi_probe, timer_probe
  <2> HIDE DEF probe
  <2>3. check_access(probe)'
    BY <2>1, CheckAccessFrame, ZenonT(30)
  <2> QED BY <1>0, <2>1, <2>2, <2>3, ZenonT(30) DEF Alternating, AuthorityHeldUntilExecuted, DirectAccessAuthorised
<1>7. ASSUME NEW cap, NEW cmd \in {"cap_claim", "cap_drop", "flash_test"}, ParseVerb(cmd, cap) PROVE AccessInv'
  <2>1. pending' = [cmd |-> cmd, cap |-> cap] /\ bus' = Quiet /\ parse' = NoParse
    BY <1>7, ZenonT(30) DEF ParseVerb, Ready
  <2> QED BY <1>0, <1>1, <2>1, ZenonT(30)
<1>7a. ASSUME NEW name, ParseLoad(name) PROVE AccessInv'
  <2>1. pending' = [cmd |-> "load", name |-> name] /\ bus' = Quiet /\ parse' = NoParse
    BY <1>7a, ZenonT(30) DEF ParseLoad, Ready
  <2> QED BY <1>0, <1>1, <2>1, ZenonT(30)
<1>8. ASSUME NEW name, ParseCall(name) PROVE AccessInv'
  <2>1. pending'.cmd = "run" /\ bus' = Quiet /\ parse' = NoParse
    BY <1>8, ZenonT(30) DEF ParseCall, Ready
  <2> QED BY <1>0, <1>1, <2>1, ZenonT(30)
<1>9. ASSUME ParseValue PROVE AccessInv'
  <2>1. pending'.cmd = "run" /\ bus' = Quiet /\ parse' = NoParse
    BY <1>9, ZenonT(30) DEF ParseValue, Ready
  <2> QED BY <1>0, <1>1, <2>1, ZenonT(30)
<1>10. ASSUME NEW a, EvalPeek(a) PROVE AccessInv'
  <2>1. pending' = Nothing /\ bus'.via = "expr"
    BY <1>10, ZenonT(30) DEF EvalPeek
  <2> QED BY <1>0, <1>1, <2>1, ZenonT(30)
<1>11. ASSUME \/ \E name \in Names : BeginFn(name)
              \/ \E count \in LoopCounts : BeginLoop(count)
       PROVE  AccessInv'
  <2>1. pending' = Nothing /\ bus' = Quiet
    BY <1>11, ZenonT(30) DEF BeginFn, BeginLoop, Ready
  <2> QED BY <1>0, <1>1, <2>1, ZenonT(30)
<1>12. ASSUME \/ \E s : BodyAccess(s)
              \/ \E name \in Names : BodyCall(name)
              \/ \E count \in LoopCounts : BodyLoop(count)
              \/ EndBodyLoop \/ EndFn \/ EndLoop \/ RejectLine
       PROVE  AccessInv'
  <2>1. parse.kind # "none" /\ UNCHANGED <<claimed, bus>>
    BY <1>12, ZenonT(30) DEF BodyAccess, BodyCall, BodyLoop, EndBodyLoop, EndFn, EndLoop, RejectLine
  <2>2. \/ pending' = pending
        \/ pending'.cmd = "run" /\ parse' = NoParse
    <3>1. CASE EndLoop
      <4>1. PICK prog : pending' = [cmd |-> "run", prog |-> prog]
        BY <3>1, ZenonT(30) DEF EndLoop
      <4> QED BY <3>1, <4>1 DEF EndLoop
    <3>2. CASE ~EndLoop
      BY <1>12, <3>2, ZenonT(30) DEF BodyAccess, BodyCall, BodyLoop, EndBodyLoop, EndFn, RejectLine
    <3> QED BY <3>1, <3>2, ZenonT(30)
  <2> QED BY <1>0, <1>2, <1>4, <2>1, <2>2, ZenonT(30)
<1>13. ASSUME ExecPoke \/ ExecBit PROVE AccessInv'
  <2>1. /\ pending.cmd \in {"poke", "reg_bit"} /\ pending' = Nothing /\ UNCHANGED <<parse, claimed>>
        /\ \E before \in {<<>>, <<Read(pending.addr)>>} : enforced_poke(before, pending.addr, pending.val)
    BY <1>13, ZenonT(30) DEF ExecPoke, ExecBit
  <2>2. check_access(pending.addr)
    BY <2>1, ZenonT(30) DEF AuthorityHeldUntilExecuted, Probe
  <2>3. PICK a, v : check_access(a) /\ \E before \in {<<>>, <<Read(a)>>} : enforced_poke(before, a, v)
    BY <2>1, <2>2, ZenonT(30)
  <2>4. DirectAccessAuthorised'
    BY <2>1, <2>3, EnforcedPokeAccess, ZenonT(30)
  <2> QED BY <1>3, <2>1, <2>4, ZenonT(30)
<1>14. ASSUME ExecPeek PROVE AccessInv'
  <2>1. PICK a :
        /\ a = pending.addr
        /\ pending.cmd = "peek" /\ pending' = Nothing /\ UNCHANGED <<parse, claimed>>
        /\ bus'.seq \in {<<>>, <<Read(a)>>}
    BY <1>14, ZenonT(30) DEF ExecPeek
  <2>2. check_access(a)
    BY <2>1, ZenonT(30) DEF AuthorityHeldUntilExecuted, Probe
  <2>3. check_access(a)'
    BY <2>1, <2>2, CheckAccessFrame, ZenonT(30)
  <2>4. \A k \in DOMAIN bus'.seq : bus'.seq[k].addr = a
    BY <2>1 DEF Read
  <2>5. DirectAccessAuthorised'
    BY <2>3, <2>4, ZenonT(30) DEF DirectAccessAuthorised
  <2> QED BY <1>3, <2>1, <2>5, ZenonT(30)
<1>15. ASSUME ExecClaim \/ ExecDrop \/ ExecLoad \/ ExecRun \/ ExecDriver PROVE AccessInv'
  <2>1. /\ pending.cmd # "none" /\ pending' = Nothing /\ UNCHANGED parse
        /\ bus' = bus \/ bus'.via # "direct"
    <3>1. "direct" \notin DOMAIN DriverAccess /\ "none" \notin DOMAIN DriverAccess
      BY ZenonT(30) DEF DriverAccess
    <3>2. CASE ExecClaim \/ ExecDrop \/ ExecLoad
      BY <3>2, ZenonT(30) DEF ExecClaim, ExecDrop, ExecLoad
    <3>3. CASE ExecRun
      <4>1. PICK seq : bus' = [via |-> "stream", seq |-> seq]
        BY <3>3, ZenonT(30) DEF ExecRun
      <4> QED BY <3>3, <4>1, ZenonT(30) DEF ExecRun
    <3>4. CASE ExecDriver
      BY <3>1, <3>4, ZenonT(30) DEF ExecDriver
    <3> QED BY <1>15, <3>2, <3>3, <3>4, ZenonT(30)
  <2>2. DirectAccessAuthorised'
    BY <2>1, ZenonT(30) DEF Alternating, DirectAccessAuthorised
  <2> QED BY <1>3, <2>1, <2>2, ZenonT(30)
<1>16. ASSUME Reset PROVE AccessInv'
  <2>1. pending' = Nothing /\ bus' = Quiet
    BY <1>16, ZenonT(30) DEF Reset
  <2> QED BY <1>0, <1>1, <2>1, ZenonT(30)
<1>17. ASSUME UNCHANGED vars PROVE AccessInv'
  <2>1. UNCHANGED <<claimed, pending, parse, bus>>
    BY <1>17, ZenonT(30) DEF vars
  <2>2. Alternating'
    BY <2>1, ZenonT(30) DEF Alternating
  <2>3. AuthorityHeldUntilExecuted'
    BY <2>1, CheckAccessFrame, ZenonT(30) DEF AuthorityHeldUntilExecuted, Probe
  <2>4. DirectAccessAuthorised'
    BY <2>1, CheckAccessFrame, ZenonT(30) DEF DirectAccessAuthorised
  <2> QED BY <2>2, <2>3, <2>4, ZenonT(30)
<1>18. ASSUME Next PROVE AccessInv'
  BY <1>5, <1>6, <1>7, <1>7a, <1>8, <1>9, <1>10, <1>11, <1>12, <1>13, <1>14, <1>15, <1>16, <1>18, ZenonT(30) DEF Next, ParseFlashTest, ParseSpiTx
<1> QED BY <1>17, <1>18, ZenonT(30)

(* The check parse_command makes when it compiles a peek, a poke, a bit      *)
(* operation or a driver command still holds when execute carries it out.    *)
THEOREM AuthorityHeld == Spec => []AuthorityHeldUntilExecuted
<1>1. AccessInv => AuthorityHeldUntilExecuted
  BY ZenonT(30) DEF AccessInv
<1> QED BY <1>1, InitAccess, StepAccess, PTL DEF Spec

(* Every access of a top-level peek, poke or bit operation is permitted at   *)
(* the moment it is made, on either architecture's address map.              *)
THEOREM DirectAccessIsAuthorised == Spec => []DirectAccessAuthorised
<1>1. AccessInv => DirectAccessAuthorised
  BY ZenonT(30) DEF AccessInv
<1> QED BY <1>1, InitAccess, StepAccess, PTL DEF Spec

-----------------------------------------------------------------------------
(* The drivers. *)

Probed == {"pwm", "pwm_duty", "spi_tx"}

(* Strengthening: as for a top-level access, what a driver left on the bus   *)
(* is not looked at once another line has begun.                             *)
DriverInv == (bus.via \in Probed => pending.cmd = "none" /\ parse.kind = "none") /\ DriverAccessAuthorised

(* The registers behind the two probed addresses are the timer's and the     *)
(* SPI's, and no other peripheral's.                                         *)
LEMMA ProbedRegions ==
    ASSUME NEW o \in 0 .. 15
    PROVE  addr_to_cap_id(timer_probe + o) = {"TIMER0"} /\ addr_to_cap_id(spi_probe + o) = {"SPI0"}
<1>1. CASE Arch = "arm"
  <2>1. timer_probe + o \in 268435456 .. 268435471 /\ spi_probe + o \in 268454912 .. 268454927
    BY <1>1 DEF timer_probe, spi_probe, At
  <2>2. ASSUME NEW a \in Int
        PROVE  /\ a \in Region["GPIOA"] <=> (268468224 <= a /\ a <= 268468479)
               /\ a \in Region["GPIOB"] <=> (268468480 <= a /\ a <= 268468735)
               /\ a \in Region["UART0"] <=> (268452864 <= a /\ a <= 268453119)
               /\ a \in Region["SPI0"] <=> (268454912 <= a /\ a <= 268455167)
               /\ a \in Region["I2C0"] <=> (268457216 <= a /\ a <= 268457471)
               /\ a \in Region["TIMER0"] <=> (268435456 <= a /\ a <= 268435711)
               /\ a \in Region["DMA0"] <=> (268437504 <= a /\ a <= 268437759)
    <3>1. a \in Region["GPIOA"] <=> (268468224 <= a /\ a <= 268468479)
      BY <1>1 DEF Region, arm_addr_to_cap, At
    <3>2. a \in Region["GPIOB"] <=> (268468480 <= a /\ a <= 268468735)
      BY <1>1 DEF Region, arm_addr_to_cap, At
    <3>3. a \in Region["UART0"] <=> (268452864 <= a /\ a <= 268453119)
      BY <1>1 DEF Region, arm_addr_to_cap, At
    <3>4. a \in Region["SPI0"] <=> (268454912 <= a /\ a <= 268455167)
      BY <1>1 DEF Region, arm_addr_to_cap, At
    <3>5. a \in Region["I2C0"] <=> (268457216 <= a /\ a <= 268457471)
      BY <1>1 DEF Region, arm_addr_to_cap, At
    <3>6. a \in Region["TIMER0"] <=> (268435456 <= a /\ a <= 268435711)
      BY <1>1 DEF Region, arm_addr_to_cap, At
    <3>7. a \in Region["DMA0"] <=> (268437504 <= a /\ a <= 268437759)
      BY <1>1 DEF Region, arm_addr_to_cap, At
    <3> QED BY <3>1, <3>2, <3>3, <3>4, <3>5, <3>6, <3>7
  <2>3. addr_to_cap_id(timer_probe + o) = {"TIMER0"}
    <3>1. PICK a \in Int : a = timer_probe + o /\ 268435456 <= a /\ a <= 268435471
      BY <2>1
    <3>2. a \in Region["TIMER0"] /\ \A r \in Peripherals \ {"TIMER0"} : a \notin Region[r]
      BY <2>2, <3>1 DEF Peripherals
    <3> QED BY <3>1, <3>2 DEF addr_to_cap_id, Peripherals
  <2>4. addr_to_cap_id(spi_probe + o) = {"SPI0"}
    <3>1. PICK a \in Int : a = spi_probe + o /\ 268454912 <= a /\ a <= 268454927
      BY <2>1
    <3>2. a \in Region["SPI0"] /\ \A r \in Peripherals \ {"SPI0"} : a \notin Region[r]
      BY <2>2, <3>1 DEF Peripherals
    <3> QED BY <3>1, <3>2 DEF addr_to_cap_id, Peripherals
  <2> QED BY <2>3, <2>4, ZenonT(30)
<1>2. CASE Arch = "riscv32"
  <2>1. timer_probe + o \in 67130368 .. 67130383 /\ spi_probe + o \in 67129344 .. 67129359
    BY <1>2 DEF timer_probe, spi_probe, At
  <2>2. ASSUME NEW a \in Int
        PROVE  /\ a \in Region["GPIOA"] <=> (67127296 <= a /\ a <= 67128319)
               /\ a \notin Region["GPIOB"]
               /\ a \in Region["UART0"] <=> (67128320 <= a /\ a <= 67129343)
               /\ a \in Region["SPI0"] <=> (67129344 <= a /\ a <= 67130367)
               /\ a \in Region["I2C0"] <=> (67141632 <= a /\ a <= 67142655)
               /\ a \in Region["TIMER0"] <=> (67130368 <= a /\ a <= 67131391)
               /\ a \in Region["DMA0"] <=> (67108864 <= a /\ a <= 67109887)
    <3>1. a \in Region["GPIOA"] <=> (67127296 <= a /\ a <= 67128319)
      BY <1>2 DEF Region, riscv_addr_to_cap, At
    <3>2. a \notin Region["GPIOB"]
      BY <1>2 DEF Region, riscv_addr_to_cap, At
    <3>3. a \in Region["UART0"] <=> (67128320 <= a /\ a <= 67129343)
      BY <1>2 DEF Region, riscv_addr_to_cap, At
    <3>4. a \in Region["SPI0"] <=> (67129344 <= a /\ a <= 67130367)
      BY <1>2 DEF Region, riscv_addr_to_cap, At
    <3>5. a \in Region["I2C0"] <=> (67141632 <= a /\ a <= 67142655)
      BY <1>2 DEF Region, riscv_addr_to_cap, At
    <3>6. a \in Region["TIMER0"] <=> (67130368 <= a /\ a <= 67131391)
      BY <1>2 DEF Region, riscv_addr_to_cap, At
    <3>7. a \in Region["DMA0"] <=> (67108864 <= a /\ a <= 67109887)
      BY <1>2 DEF Region, riscv_addr_to_cap, At
    <3> QED BY <3>1, <3>2, <3>3, <3>4, <3>5, <3>6, <3>7
  <2>3. addr_to_cap_id(timer_probe + o) = {"TIMER0"}
    <3>1. PICK a \in Int : a = timer_probe + o /\ 67130368 <= a /\ a <= 67130383
      BY <2>1
    <3>2. a \in Region["TIMER0"] /\ \A r \in Peripherals \ {"TIMER0"} : a \notin Region[r]
      BY <2>2, <3>1 DEF Peripherals
    <3> QED BY <3>1, <3>2 DEF addr_to_cap_id, Peripherals
  <2>4. addr_to_cap_id(spi_probe + o) = {"SPI0"}
    <3>1. PICK a \in Int : a = spi_probe + o /\ 67129344 <= a /\ a <= 67129359
      BY <2>1
    <3>2. a \in Region["SPI0"] /\ \A r \in Peripherals \ {"SPI0"} : a \notin Region[r]
      BY <2>2, <3>1 DEF Peripherals
    <3> QED BY <3>1, <3>2 DEF addr_to_cap_id, Peripherals
  <2> QED BY <2>3, <2>4
<1> QED BY <1>1, <1>2, ArchAssumption, ZenonT(30)

(* So the check of the probed address answers for them. *)
LEMMA ProbeAnswers ==
    ASSUME NEW o \in 0 .. 15
    PROVE  /\ check_access(timer_probe) => check_access(timer_probe + o)
           /\ check_access(spi_probe) => check_access(spi_probe + o)
<1>1. timer_probe \in Int /\ spi_probe \in Int
  BY DEF timer_probe, spi_probe, At
<1>2. timer_probe + 0 = timer_probe /\ spi_probe + 0 = spi_probe /\ 0 \in 0 .. 15
  BY <1>1
<1>3. addr_to_cap_id(timer_probe) = {"TIMER0"} /\ addr_to_cap_id(spi_probe) = {"SPI0"}
  BY <1>2, ProbedRegions
<1> QED BY <1>3, ProbedRegions, ZenonT(30) DEF check_access

(* Every register a driver touches is a few words past its probed address,   *)
(* or the clock gate.                                                        *)
Regs(base) == [op : {"read", "write"}, addr : {base + o : o \in 0 .. 15} \cup {rcc_apb1enr}]
LEMMA DriverRegisters ==
    /\ DriverAccess["pwm"] \in Seq(Regs(timer_probe))
    /\ DriverAccess["pwm_duty"] \in Seq(Regs(timer_probe))
    /\ DriverAccess["spi_tx"] \in Seq(Regs(spi_probe))
<1>1. timer_probe \in Int /\ spi_probe \in Int
  BY DEF timer_probe, spi_probe, At
<1>2. ASSUME NEW o \in {0, 24, 32, 40, 44, 52}
      PROVE  Get(tim(o)) \in Regs(timer_probe) /\ Put(tim(o)) \in Regs(timer_probe)
  <2>1. o \div 4 \in 0 .. 15
    OBVIOUS
  <2> QED BY <1>1, <2>1 DEF tim, Get, Put, Regs
<1>3. <<Put(tim(52))>> \in Seq(Regs(timer_probe))
  BY <1>2
<1>4. pwm_configure \in Seq(Regs(timer_probe))
  <2>1. Get(rcc_apb1enr) \in Regs(timer_probe) /\ Put(rcc_apb1enr) \in Regs(timer_probe)
    BY DEF Get, Put, Regs
  <2> HIDE DEF Regs
  <2>2. (IF Arch = "arm" THEN Modify(rcc_apb1enr) ELSE <<>>) \in Seq(Regs(timer_probe))
    BY <2>1 DEF Modify
  <2>3. /\ <<Put(tim(0)), Put(tim(40)), Put(tim(44))>> \in Seq(Regs(timer_probe))
        /\ Modify(tim(24)) \in Seq(Regs(timer_probe)) /\ Modify(tim(32)) \in Seq(Regs(timer_probe))
        /\ <<Put(tim(52)), Put(tim(0))>> \in Seq(Regs(timer_probe))
    BY <1>2 DEF Modify
  <2> QED BY <2>2, <2>3, ConcatProperties DEF pwm_configure
<1>5. transfer_byte \in Seq(Regs(spi_probe))
  <2>1. ASSUME NEW o \in {2, 3, 6, 8}
        PROVE  Get(spi_probe + o) \in Regs(spi_probe) /\ Put(spi_probe + o) \in Regs(spi_probe)
    BY <1>1, <2>1 DEF Get, Put, Regs
  <2> QED BY <2>1 DEF transfer_byte
<1> QED BY <1>3, <1>4, <1>5 DEF DriverAccess

(* A driver command touches what was probed for it. *)
LEMMA ExecDriverKeeps ==
    ASSUME AccessInv, ExecDriver
    PROVE  DriverInv'
<1>1. PICK cmd : cmd = pending.cmd /\ cmd # "none"
  BY DEF ExecDriver, DriverAccess
<1>2. /\ bus' = [via |-> cmd, seq |-> DriverAccess[cmd]] /\ pending' = Nothing
      /\ UNCHANGED <<parse, claimed>>
  BY <1>1 DEF ExecDriver
<1>3. pending'.cmd = "none" /\ parse'.kind = "none"
  BY <1>1, <1>2 DEF AccessInv, Alternating, Nothing
<1>4. ASSUME cmd \in Probed, NEW k \in DOMAIN DriverAccess[cmd]
      PROVE  DriverAccess[cmd][k].addr = rcc_apb1enr \/ check_access(DriverAccess[cmd][k].addr)
  <2> DEFINE base == IF cmd = "spi_tx" THEN spi_probe ELSE timer_probe
  <2>1. check_access(base)
    BY <1>1, <1>4 DEF AccessInv, AuthorityHeldUntilExecuted, Probe, Probed
  <2>2. DriverAccess[cmd] \in Seq(Regs(base))
    BY <1>4, DriverRegisters DEF Probed
  <2>3. DriverAccess[cmd][k] \in Regs(base)
    BY <2>2, ElementOfSeq, LenProperties
  <2>4. PICK a : a = DriverAccess[cmd][k].addr
    OBVIOUS
  <2>5. a = rcc_apb1enr \/ \E o \in 0 .. 15 : a = base + o
    BY <2>3, <2>4, ZenonT(30) DEF Regs
  <2>6. a = rcc_apb1enr \/ check_access(a)
    BY <2>1, <2>5, ProbeAnswers
  <2> QED BY <2>4, <2>6
<1>5. DriverAccessAuthorised'
  <2> SUFFICES ASSUME cmd \in Probed, NEW k \in DOMAIN DriverAccess[cmd]
               PROVE  DriverAccess[cmd][k].addr = rcc_apb1enr \/ check_access(DriverAccess[cmd][k].addr)'
    BY <1>2 DEF DriverAccessAuthorised, Probed
  <2>1. PICK a : a = DriverAccess[cmd][k].addr
    OBVIOUS
  <2>2. check_access(a)' = check_access(a)
    BY <1>2, CheckAccessFrame
  <2> QED BY <1>4, <2>1, <2>2
<1> QED BY <1>3, <1>5 DEF DriverInv

(* No other step leaves a driver's accesses on the bus. *)
LEMMA StepDriver == AccessInv /\ DriverInv /\ [Next]_vars => DriverInv'
<1> SUFFICES ASSUME AccessInv, DriverInv, [Next]_vars PROVE DriverInv'
  OBVIOUS
<1>0. Quiet.via \notin Probed /\ "direct" \notin Probed /\ "expr" \notin Probed /\ "stream" \notin Probed
  BY DEF Quiet, Probed
<1>1. ASSUME bus'.via \notin Probed PROVE DriverInv'
  BY <1>1 DEF DriverInv, DriverAccessAuthorised, Probed
<1>2. ASSUME bus' = bus, pending.cmd # "none" \/ parse.kind # "none" PROVE DriverInv'
  BY <1>1, <1>2 DEF DriverInv
<1>3. ASSUME \/ \E a \in Word : \E v, cmd : ParseAccess(cmd, a, v)
             \/ \E cap, cmd : ParseVerb(cmd, cap)
             \/ \E cmd : ParseDriver(cmd)
             \/ \E name : ParseLoad(name)
             \/ \E name : ParseCall(name)
             \/ ParseValue \/ Reset
             \/ \E name : BeginFn(name)
             \/ \E count : BeginLoop(count)
      PROVE  DriverInv'
  <2>1. bus' = Quiet
    BY <1>3, ZenonT(30) DEF ParseAccess, ParseVerb, ParseDriver, ParseLoad, ParseCall, ParseValue, Reset, BeginFn, BeginLoop
  <2> QED BY <1>0, <1>1, <2>1
<1>4. ASSUME NEW a, EvalPeek(a) PROVE DriverInv'
  <2>1. bus'.via = "expr"
    BY <1>4 DEF EvalPeek
  <2> QED BY <1>0, <1>1, <2>1
<1>5. ASSUME \/ \E s : BodyAccess(s)
             \/ \E name : BodyCall(name)
             \/ \E count : BodyLoop(count)
             \/ EndBodyLoop \/ EndFn \/ EndLoop \/ RejectLine
      PROVE  DriverInv'
  <2>1. bus' = bus /\ parse.kind # "none"
    BY <1>5, ZenonT(30) DEF BodyAccess, BodyCall, BodyLoop, EndBodyLoop, EndFn, EndLoop, RejectLine
  <2> QED BY <1>2, <2>1
<1>6. ASSUME ExecPoke \/ ExecBit \/ ExecPeek PROVE DriverInv'
  <2>1. bus'.via = "direct"
    BY <1>6 DEF ExecPoke, ExecBit, ExecPeek, enforced_poke
  <2> QED BY <1>0, <1>1, <2>1
<1>7. ASSUME ExecClaim \/ ExecDrop \/ ExecLoad PROVE DriverInv'
  <2>1. bus' = bus /\ pending.cmd # "none"
    BY <1>7, ZenonT(30) DEF ExecClaim, ExecDrop, ExecLoad
  <2> QED BY <1>2, <2>1
<1>8. ASSUME ExecRun PROVE DriverInv'
  <2>1. PICK seq : bus' = [via |-> "stream", seq |-> seq]
    BY <1>8, ZenonT(30) DEF ExecRun
  <2> QED BY <1>0, <1>1, <2>1
<1>9. ASSUME UNCHANGED vars PROVE DriverInv'
  <2>1. UNCHANGED <<claimed, pending, parse, bus>>
    BY <1>9 DEF vars
  <2> QED BY <2>1, CheckAccessFrame DEF DriverInv, DriverAccessAuthorised
<1>10. ASSUME Next PROVE DriverInv'
  BY <1>3, <1>4, <1>5, <1>6, <1>7, <1>8, <1>10, ExecDriverKeeps DEF Next, ParseFlashTest, ParseSpiTx
<1> QED BY <1>9, <1>10

(* What pwm, pwm_duty and spi_tx touch is authorised by the one check of     *)
(* their line, on either architecture's address map, but for the clock gate. *)
THEOREM DriverAccessIsAuthorised == Spec => []DriverAccessAuthorised
<1>1. Init => DriverInv
  BY DEF Init, DriverInv, DriverAccessAuthorised, Quiet, Probed
<1>2. DriverInv => DriverAccessAuthorised
  BY DEF DriverInv
<1> QED BY <1>1, <1>2, InitAccess, StepAccess, StepDriver, PTL DEF Spec

-----------------------------------------------------------------------------
(* The function table changes only when a function is defined or loaded, in  *)
(* a slot that was free and under a name that was not live, or at a reset.   *)

(* How a step can change the function table.                                 *)
LEMMA FnsStep ==
    ASSUME IInv, [Next]_vars
    PROVE  \/ fns' = fns
           \/ fns' = NoFns
           \/ \E slot \in FnSlots : \E name, len, body :
                  /\ ~fn_allocated(slot) /\ ~defined(name)
                  /\ fns' = [fns EXCEPT ![slot] = [name |-> name, len |-> len, body |-> body]]
<1>1. CASE EndFn
  <2>1. can_alloc(parse.name) /\ install_fn(parse.name, stream_len, stream)
    BY <1>1 DEF EndFn
  <2>2. alloc_fn_slot \in FnSlots /\ ~fn_allocated(alloc_fn_slot)
    BY <2>1, AllocFnSlot
  <2>3. ~defined(parse.name)
    BY <2>1 DEF can_alloc
  <2> QED BY <2>1, <2>2, <2>3, ZenonT(30) DEF install_fn
<1>2. CASE Reset
  BY <1>2 DEF Reset
<1>2a. CASE ExecLoad
  <2>1. CASE fns' = fns
    BY <2>1
  <2>2. CASE can_alloc(pending.name)
    <3>1. alloc_fn_slot \in FnSlots /\ ~fn_allocated(alloc_fn_slot)
      BY <2>2, AllocFnSlot
    <3>2. ~defined(pending.name)
      BY <2>2 DEF can_alloc
    <3> QED BY <1>2a, <3>1, <3>2, LoadEffect, ZenonT(30)
  <2> QED BY <1>2a, <2>1, <2>2, LoadEffect, ZenonT(30)
<1>3. CASE ~EndFn /\ ~Reset /\ ~ExecLoad /\ Next
  BY <1>3, ZenonT(30) DEF Next, ParseAccess, ParseVerb, ParseFlashTest, ParseDriver, ParseSpiTx, ParseLoad, ParseCall, ParseValue, EvalPeek, BeginFn, BeginLoop,
              BodyAccess, BodyCall, BodyLoop, EndBodyLoop, EndLoop, RejectLine,
              ExecPoke, ExecBit, ExecPeek, ExecClaim, ExecDrop, ExecRun, ExecDriver
<1>4. CASE UNCHANGED vars
  BY <1>4 DEF vars
<1> QED BY <1>1, <1>2, <1>2a, <1>3, <1>4

(* No step gives a live name to a second slot.                               *)
LEMMA StepNames == IInv /\ NamesUnique /\ [Next]_vars => NamesUnique'
<1> SUFFICES ASSUME IInv, NamesUnique, [Next]_vars PROVE NamesUnique'
  OBVIOUS
<1>0. DOMAIN fns = FnSlots
  BY DEF IInv, CompilerTypeOK
<1>1. CASE fns' = fns
  BY <1>1 DEF NamesUnique, fn_allocated
<1>2. CASE fns' = NoFns
  BY <1>2 DEF NamesUnique, fn_allocated, NoFns, FreeSlot
<1>3. ASSUME NEW slot \in FnSlots, NEW name, NEW len, NEW body,
             ~fn_allocated(slot), ~defined(name),
             fns' = [fns EXCEPT ![slot] = [name |-> name, len |-> len, body |-> body]]
      PROVE  NamesUnique'
  <2>1. fns'[slot].name = name /\ \A i \in FnSlots \ {slot} : fns'[i] = fns[i]
    BY <1>0, <1>3
  <2>2. \A i \in FnSlots : fn_allocated(i) => fns[i].name # name
    BY <1>3 DEF defined
  <2> QED BY <2>1, <2>2 DEF NamesUnique, fn_allocated
<1> QED BY <1>1, <1>2, <1>3, FnsStep

(* No two live functions share a name, for any table size: a call, a splice  *)
(* and an export of a name always mean one body.                             *)
THEOREM NamesAreUnique == Spec => []NamesUnique
<1>1. Init => NamesUnique
  BY DEF Init, NamesUnique, fn_allocated, NoFns, FreeSlot
<1> QED BY <1>1, StepNames, InitIInv, StepIInv, PTL DEF Spec

(* A defined function keeps its name and body until a reset: alloc_fn_slot   *)
(* never hands out a slot that is in use.                                    *)
THEOREM FnsAreImmutable == Spec => FnsImmutable
<1>1. IInv /\ [Next]_vars =>
        [fns' = NoFns \/ \A i \in FnSlots : fn_allocated(i) => fns'[i] = fns[i]]_vars
  <2> SUFFICES ASSUME IInv, [Next]_vars
               PROVE  fns' = NoFns \/ \A i \in FnSlots : fn_allocated(i) => fns'[i] = fns[i]
    OBVIOUS
  <2>1. DOMAIN fns = FnSlots
    BY DEF IInv, CompilerTypeOK
  <2> QED BY <2>1, FnsStep
<1> QED BY <1>1, InitIInv, StepIInv, PTL DEF Spec, FnsImmutable

-----------------------------------------------------------------------------
(* The audit ring. *)

(* Going back one place more from the next place is going back from here.    *)
LEMMA RingBack ==
    ASSUME NEW n \in Nat \ {0}, NEW h \in 0 .. n - 1, NEW k \in 1 .. n
    PROVE  /\ (h + 1) % n = (IF h = n - 1 THEN 0 ELSE h + 1)
           /\ (h + n - k) % n = (IF k <= h THEN h - k ELSE h + n - k)
           /\ (h + n - k) % n \in 0 .. n - 1
<1>1. \A x \in 0 .. n - 1 : x % n = x
  OBVIOUS
<1>2. \A x \in 0 .. n - 1 : (x + n) % n = x
  OBVIOUS
<1>3. CASE k <= h
  <2>1. h - k \in 0 .. n - 1 /\ h + n - k = (h - k) + n
    BY <1>3
  <2> QED BY <1>1, <1>2, <1>3, <2>1
<1>4. CASE ~(k <= h)
  <2>1. h + n - k \in 0 .. n - 1
    BY <1>4
  <2> QED BY <1>1, <1>2, <1>4, <2>1
<1> QED BY <1>3, <1>4

LogInv ==
    /\ log.head \in 0 .. AuditSize - 1
    /\ DOMAIN log.buffer = 0 .. AuditSize - 1
    /\ recorded \in Seq([addr : Word, val : Word])
    /\ LogHoldsLatest

(* record_event overwrites the oldest entry only.                            *)
LEMMA RecordEvent ==
    ASSUME LogInv, NEW a \in Word, NEW v \in Word, record_event(a, v)
    PROVE  LogInv'
<1> DEFINE e == [addr |-> a, val |-> v]
<1>0. PICK n, h, g : n = AuditSize /\ h = log.head /\ g = log'.head
  OBVIOUS
<1>1. n \in Nat \ {0} /\ h \in 0 .. n - 1 /\ Len(recorded) \in Nat
  BY <1>0, AuditSizeAssumption DEF LogInv
<1>2. /\ log'.buffer = [log.buffer EXCEPT ![h] = e]
      /\ g = (h + 1) % n
      /\ log'.count = log.count + 1
      /\ recorded' = Append(recorded, e)
  BY <1>0 DEF record_event
<1>3. g = (IF h = n - 1 THEN 0 ELSE h + 1) /\ g \in 0 .. n - 1
  <2>1. 1 \in 1 .. n
    BY <1>1
  <2>2. (h + 1) % n = (IF h = n - 1 THEN 0 ELSE h + 1)
    BY <1>1, <2>1, RingBack
  <2> QED BY <1>1, <1>2, <2>2
<1>4. e \in [addr : Word, val : Word]
  OBVIOUS
<1>5. /\ recorded' \in Seq([addr : Word, val : Word]) /\ Len(recorded') = Len(recorded) + 1
      /\ recorded'[Len(recorded) + 1] = e
      /\ \A i \in 1 .. Len(recorded) : recorded'[i] = recorded[i]
  BY <1>1, <1>2, <1>4 DEF LogInv
<1>6. /\ log'.buffer[h] = e
      /\ \A i \in 0 .. n - 1 : i # h => log'.buffer[i] = log.buffer[i]
      /\ DOMAIN log'.buffer = 0 .. n - 1
  BY <1>0, <1>1, <1>2 DEF LogInv
<1>7. ASSUME NEW k \in 1 .. n, k <= Len(recorded')
      PROVE  log'.buffer[(g + n - k) % n] = recorded'[Len(recorded') + 1 - k]
  <2>1. CASE k = 1
    <3>1. (g + n - k) % n = (IF k <= g THEN g - k ELSE g + n - k)
      BY <1>1, <1>3, RingBack
    <3>2. (g + n - k) % n = h
      BY <1>1, <1>3, <2>1, <3>1
    <3> QED BY <1>1, <1>5, <1>6, <2>1, <3>2
  <2>2. CASE k # 1
    <3>1. k - 1 \in 1 .. n /\ k - 1 <= Len(recorded) /\ k - 1 < n
      BY <1>1, <1>5, <1>7, <2>2
    <3>2. log.buffer[(h + n - (k - 1)) % n] = recorded[Len(recorded) + 1 - (k - 1)]
      BY <1>0, <3>1 DEF LogInv, LogHoldsLatest
    <3>3. (h + n - (k - 1)) % n = (IF k - 1 <= h THEN h - (k - 1) ELSE h + n - (k - 1))
      <4> DEFINE m == k - 1
      <4>1. m \in 1 .. n
        BY <3>1
      <4> HIDE DEF m
      <4>2. (h + n - m) % n = (IF m <= h THEN h - m ELSE h + n - m)
        BY <1>1, <4>1, RingBack
      <4> QED BY <4>2 DEF m
    <3>4. (g + n - k) % n = (IF k <= g THEN g - k ELSE g + n - k)
      BY <1>1, <1>3, RingBack
    <3>5. /\ (g + n - k) % n = (h + n - (k - 1)) % n
          /\ (g + n - k) % n \in 0 .. n - 1 /\ (g + n - k) % n # h
      <4>1. CASE h = n - 1
        BY <1>1, <1>3, <3>1, <3>3, <3>4, <4>1
      <4>2. CASE h # n - 1
        BY <1>1, <1>3, <3>1, <3>3, <3>4, <4>2
      <4> QED BY <4>1, <4>2
    <3>6. recorded'[Len(recorded') + 1 - k] = recorded[Len(recorded) + 1 - (k - 1)]
      BY <1>1, <1>5, <3>1
    <3> QED BY <1>6, <3>2, <3>5, <3>6
  <2> QED BY <2>1, <2>2
<1>8. log'.count = Len(recorded')
  BY <1>2, <1>5 DEF LogInv, LogHoldsLatest
<1>9. LogHoldsLatest'
  BY <1>0, <1>7, <1>8 DEF LogHoldsLatest
<1> QED BY <1>0, <1>3, <1>5, <1>6, <1>9 DEF LogInv

(* The ring starts empty.                                                    *)
LEMMA InitLog == Init => LogInv
<1>1. Len(<<>>) = 0 /\ <<>> \in Seq([addr : Word, val : Word])
  OBVIOUS
<1> QED BY <1>1, AuditSizeAssumption DEF Init, LogInv, LogHoldsLatest, EmptyLog

(* Only an enforced write or a reset touches the ring.                       *)
LEMMA StepLog == IInv /\ LogInv /\ [Next]_vars => LogInv'
<1> SUFFICES ASSUME IInv, LogInv, [Next]_vars PROVE LogInv'
  OBVIOUS
<1>1. CASE UNCHANGED auditVars
  BY <1>1 DEF auditVars, LogInv, LogHoldsLatest
<1>2. CASE Reset
  <2>1. log' = EmptyLog /\ recorded' = <<>>
    BY <1>2 DEF Reset
  <2>2. Len(<<>>) = 0 /\ <<>> \in Seq([addr : Word, val : Word])
    OBVIOUS
  <2> QED BY <2>1, <2>2, AuditSizeAssumption DEF LogInv, LogHoldsLatest, EmptyLog
<1>3. CASE ExecPoke \/ ExecBit
  <2>1. pending.cmd \in {"poke", "reg_bit"}
    BY <1>3 DEF ExecPoke, ExecBit
  <2>2. pending.addr \in Word /\ pending.val \in Word
    BY <2>1 DEF IInv, CompilerTypeOK, Nothing, Access, Verb, Driver, Import, Program
  <2>3. UNCHANGED auditVars \/ record_event(pending.addr, pending.val)
    BY <1>3 DEF ExecPoke, ExecBit, enforced_poke, auditVars
  <2> QED BY <1>1, <2>2, <2>3, RecordEvent
<1>4. CASE ~Reset /\ ~ExecPoke /\ ~ExecBit /\ Next
  <2>1. UNCHANGED auditVars
    BY <1>4, ZenonT(30) DEF Next, ParseAccess, ParseVerb, ParseFlashTest, ParseDriver, ParseSpiTx, ParseLoad, ParseCall, ParseValue, EvalPeek, BeginFn, BeginLoop,
                BodyAccess, BodyCall, BodyLoop, EndBodyLoop, EndFn, EndLoop, RejectLine,
                ExecPeek, ExecClaim, ExecDrop, ExecLoad, ExecRun, ExecDriver
  <2> QED BY <1>1, <2>1
<1>5. CASE UNCHANGED vars
  <2>1. UNCHANGED auditVars
    BY <1>5 DEF vars, auditVars
  <2> QED BY <1>1, <2>1
<1> QED BY <1>2, <1>3, <1>4, <1>5

(* record_event keeps the most recent AuditSize events, the newest just      *)
(* behind head, whatever the size of the ring and however often it wraps.    *)
THEOREM AuditHoldsLatest == Spec => []LogHoldsLatest
<1>1. LogInv => LogHoldsLatest
  BY DEF LogInv
<1> QED BY <1>1, InitIInv, StepIInv, InitLog, StepLog, PTL DEF Spec

-----------------------------------------------------------------------------
(* What a program reads. *)

(* RAM holds words, and what a stream read was admitted.                       *)
ReadInv == mem \in [Ram -> Word] /\ StreamReadsAdmitted

(* A step that runs no program: what is admitted stays so.                     *)
LEMMA ReadFrame ==
    ASSUME ReadInv, mem' \in [Ram -> Word], admitted \subseteq admitted',
           bus' = bus \/ bus'.via # "stream"
    PROVE  ReadInv'
<1>1. StreamReadsAdmitted'
  <2>1. CASE bus' = bus
    BY <2>1 DEF ReadInv, StreamReadsAdmitted
  <2>2. CASE bus'.via # "stream"
    BY <2>2 DEF StreamReadsAdmitted
  <2> QED BY <2>1, <2>2
<1> QED BY <1>1 DEF ReadInv, Ram

(* Storing a word leaves RAM a memory of words.                              *)
LEMMA StoredType ==
    ASSUME mem \in [Ram -> Word], NEW a, NEW v \in Word
    PROVE  Stored(a, v) \in [Ram -> Word]
BY DEF Stored

(* The two commands that write through enforced_poke_u32.                    *)
LEMMA ReadPoke ==
    ASSUME IInv, ReadInv, ExecPoke \/ ExecBit
    PROVE  ReadInv'
<1>1. pending.cmd \in {"poke", "reg_bit"}
  BY DEF ExecPoke, ExecBit
<1>2. pending \in Access
  BY <1>1 DEF IInv, CompilerTypeOK, Nothing, Access, Verb, Driver, Import, Program
<1>3. pending.val \in Word
  BY <1>2 DEF Access
<1>4. \E before : enforced_poke(before, pending.addr, pending.val) /\ admitted' = admitted
  BY DEF ExecPoke, ExecBit
<1>5. PICK before : enforced_poke(before, pending.addr, pending.val) /\ admitted' = admitted
  BY <1>4
<1>6. bus'.via = "direct" /\ (mem' = mem \/ mem' = Stored(pending.addr, pending.val))
  BY <1>5 DEF enforced_poke
<1>7. mem' \in [Ram -> Word]
  BY <1>3, <1>6, StoredType DEF ReadInv
<1> QED BY <1>5, <1>6, <1>7, ReadFrame

(* Running a program: each statement makes its own access, so what is read   *)
(* is an address the program names.                                          *)
LEMMA ReadRun ==
    ASSUME IInv, ReadInv, ExecRun
    PROVE  ReadInv'
<1>1. PICK prog \in Seq(Stmt) : prog = pending.prog /\ Addresses(prog) \subseteq admitted
  <2>1. pending.cmd = "run"
    BY DEF ExecRun
  <2>2. pending \in Program
    BY <2>1 DEF IInv, CompilerTypeOK, Nothing, Access, Verb, Driver, Import, Program
  <2>3. pending.prog \in Seq(Stmt)
    BY <2>2 DEF Program
  <2> QED BY <2>1, <2>3 DEF IInv, BodiesAdmitted
<1>2. PICK dev \in [Word \ Ram -> Word] :
          LET out == compile_and_run(Code(pending.prog),
                         [a \in Word |-> IF a \in Ram THEN mem[a] ELSE dev[a]])
          IN  /\ mem' = [a \in Ram |-> out.mem[a]]
              /\ bus' = [via |-> "stream", seq |-> out.bus]
  BY ZenonT(30) DEF ExecRun
<1>3. PICK m \in [Word -> Word] : m = [a \in Word |-> IF a \in Ram THEN mem[a] ELSE dev[a]]
  <2>1. \A a \in Word : (IF a \in Ram THEN mem[a] ELSE dev[a]) \in Word
    BY DEF ReadInv
  <2> QED BY <2>1, ZenonT(30)
<1>4. PICK out : out = compile_and_run(Code(prog), m)
  OBVIOUS
<1>5. mem' = [a \in Ram |-> out.mem[a]] /\ bus' = [via |-> "stream", seq |-> out.bus] /\ admitted' = admitted
  BY <1>1, <1>2, <1>3, <1>4, ZenonT(30) DEF ExecRun
<1>6. /\ out.mem \in [Word -> Word] /\ out.bus \in Seq(BusOp) /\ Len(out.bus) = Len(prog)
      /\ \A k \in 1 .. Len(prog) : AccessOf(out.bus[k], prog[k])
  BY <1>4, NativeAccesses
<1>7. mem' \in [Ram -> Word]
  <2>1. \A a \in Ram : out.mem[a] \in Word
    BY <1>6 DEF Ram
  <2> QED BY <1>5, <2>1
<1>8. DOMAIN out.bus = 1 .. Len(prog) /\ DOMAIN prog = 1 .. Len(prog)
  BY <1>6, LenProperties
<1>9. ASSUME NEW k \in DOMAIN out.bus, out.bus[k].op = "read" PROVE out.bus[k].addr \in admitted
  <2>1. k \in DOMAIN prog /\ AccessOf(out.bus[k], prog[k])
    BY <1>6, <1>8
  <2>2. prog[k] \in Stmt
    BY <1>8, <2>1, ElementOfSeq
  <2>3. out.bus[k].addr = prog[k].addr
    <3>1. PICK b, x : b = out.bus[k] /\ x = prog[k]
      OBVIOUS
    <3>2. AccessOf(b, x) /\ x \in Stmt /\ b.op = "read"
      BY <1>9, <2>1, <2>2, <3>1
    <3>3. x.op # "poke"
      <4> SUFFICES ASSUME x.op = "poke" PROVE FALSE
        OBVIOUS
      <4>1. PICK a \in Word : b = Write(a, x.val)
        BY <3>2 DEF AccessOf
      <4> QED BY <3>2, <4>1 DEF Write
    <3>4. b = Read(x.addr)
      BY <3>2, <3>3 DEF AccessOf, Stmt
    <3> QED BY <3>1, <3>4 DEF Read
  <2> QED BY <1>1, <2>1, <2>3 DEF Addresses
<1>10. StreamReadsAdmitted'
  BY <1>5, <1>9 DEF StreamReadsAdmitted
<1> QED BY <1>7, <1>10 DEF ReadInv, Ram

(* Every step keeps it.                                                      *)
LEMMA StepRead == IInv /\ ReadInv /\ [Next]_vars => ReadInv'
<1> SUFFICES ASSUME IInv, ReadInv, [Next]_vars PROVE ReadInv'
  OBVIOUS
<1> DEFINE Framed == mem' = mem /\ admitted \subseteq admitted' /\ (bus' = bus \/ bus'.via # "stream")
<1>1. \A cmd, a, v : ParseAccess(cmd, a, v) => Framed
  BY DEF ParseAccess, Quiet
<1>2. \A cmd, cap : ParseVerb(cmd, cap) => Framed
  BY DEF ParseVerb, Quiet
<1>3. \A cmd : ParseDriver(cmd) => Framed
  BY DEF ParseDriver, Quiet
<1>4. /\ \A name : ParseCall(name) => Framed
      /\ \A name : ParseLoad(name) => Framed
  BY DEF ParseCall, ParseLoad, Quiet
<1>5. ParseValue => Framed
  BY DEF ParseValue, Quiet
<1>6. \A a : EvalPeek(a) => Framed
  BY DEF EvalPeek, Quiet
<1>7. \A name : BeginFn(name) => Framed
  BY DEF BeginFn, Quiet
<1>8. \A count : BeginLoop(count) => Framed
  BY DEF BeginLoop, Quiet
<1>9. \A s : BodyAccess(s) => Framed
  BY DEF BodyAccess
<1>10. \A name : BodyCall(name) => Framed
  BY DEF BodyCall
<1>11. \A count : BodyLoop(count) => Framed
  BY DEF BodyLoop
<1>12. EndBodyLoop \/ EndFn \/ EndLoop \/ RejectLine \/ Reset => Framed
  BY DEF EndBodyLoop, EndFn, EndLoop, RejectLine, Reset, Quiet
<1>13. ExecPeek \/ ExecClaim \/ ExecDrop \/ ExecLoad => Framed
  BY DEF ExecPeek, ExecClaim, ExecDrop, ExecLoad
<1>14. ExecDriver => Framed
  <2>1. "stream" \notin DOMAIN DriverAccess
    BY DEF DriverAccess
  <2> QED BY <2>1 DEF ExecDriver
<1>15. UNCHANGED vars => Framed
  BY DEF vars
<1> HIDE DEF Framed
<1>16. Framed => ReadInv'
  BY ReadFrame DEF Framed, ReadInv
<1>17. ASSUME Next PROVE Framed \/ ExecPoke \/ ExecBit \/ ExecRun
  BY <1>1, <1>2, <1>3, <1>4, <1>5, <1>6, <1>7, <1>8, <1>9, <1>10, <1>11, <1>12, <1>13, <1>14,
     <1>17, ZenonT(30) DEF Next, ParseFlashTest, ParseSpiTx
<1> QED BY <1>15, <1>16, <1>17, ReadPoke, ReadRun

(* A compiled program reads an address only if check_access passed it when   *)
(* the program was compiled, also when the peek got there through a call or  *)
(* an unrolled loop, or if a load imported it.                               *)
THEOREM StreamReadsAreAdmitted == Spec => []StreamReadsAdmitted
<1>1. Init => ReadInv
  BY DEF Init, ReadInv, StreamReadsAdmitted, Quiet
<1>2. ReadInv => StreamReadsAdmitted
  BY DEF ReadInv
<1> QED BY <1>1, <1>2, InitIInv, StepIInv, StepRead, PTL DEF Spec

(* Every variable of the shell keeps its type: no stream, body, loop or ring *)
(* index leaves the array that the code keeps it in.                         *)
THEOREM ShellTypeCorrect == Spec => []TypeOK
<1>1. Init => ReadInv
  BY DEF Init, ReadInv, StreamReadsAdmitted, Quiet
<1>2. IInv /\ LogInv /\ ReadInv => TypeOK
  BY DEF IInv, LogInv, ReadInv, TypeOK, MachineTypeOK
<1> QED BY <1>1, <1>2, InitIInv, StepIInv, InitLog, StepLog, StepRead, PTL DEF Spec
=============================================================================
