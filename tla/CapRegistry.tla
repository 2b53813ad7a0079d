---------------------------- MODULE CapRegistry ----------------------------
(***************************************************************************)
(* The capability registry (capabilities/registry.rs) and the guards built *)
(* on it: check_access, applied when a line is compiled, and the second    *)
(* check inside enforced_poke_u32 and enforced_peek_u32                    *)
(* (kernel/memory.rs), applied when the line is executed.                  *)
(*                                                                         *)
(* An address is the number of a 32-bit word: byte address divided by 4.   *)
(***************************************************************************)
EXTENDS Integers

CONSTANT Arch
ASSUME ArchAssumption == Arch \in {"arm", "riscv32"}

VARIABLE claimed     \* REGISTRY_BITS: the resources whose bit is set

Peripherals == {"GPIOA", "GPIOB", "UART0", "SPI0", "I2C0", "TIMER0", "DMA0"}
CapId == Peripherals \cup {"SUPERUSER"}

(* The word at byte address hi * 2^16 + lo. *)
At(hi, lo) == hi * 16384 + lo \div 4

arm_addr_to_cap ==
    [GPIOA  |-> At(16386, 0)     .. At(16386, 1023),     \* 0x4002_0000
     GPIOB  |-> At(16386, 1024)  .. At(16386, 2047),     \* 0x4002_0400
     UART0  |-> At(16385, 4096)  .. At(16385, 5119),     \* 0x4001_1000
     SPI0   |-> At(16385, 12288) .. At(16385, 13311),    \* 0x4001_3000
     I2C0   |-> At(16385, 21504) .. At(16385, 22527),    \* 0x4001_5400
     TIMER0 |-> At(16384, 0)     .. At(16384, 1023),     \* 0x4000_0000
     DMA0   |-> At(16384, 8192)  .. At(16384, 9215)]     \* 0x4000_2000

riscv_addr_to_cap ==
    [GPIOA  |-> At(4097, 8192)  .. At(4097, 12287),      \* 0x1001_2000
     GPIOB  |-> {},
     UART0  |-> At(4097, 12288) .. At(4097, 16383),      \* 0x1001_3000
     SPI0   |-> At(4097, 16384) .. At(4097, 20479),      \* 0x1001_4000
     I2C0   |-> At(4098, 0)     .. At(4098, 4095),       \* 0x1002_0000
     TIMER0 |-> At(4097, 20480) .. At(4097, 24575),      \* 0x1001_5000
     DMA0   |-> At(4096, 0)     .. At(4096, 4095)]       \* 0x1000_0000

Region == IF Arch = "arm" THEN arm_addr_to_cap ELSE riscv_addr_to_cap

(* The resources whose region holds the address; none for RAM, flash and    *)
(* unmapped addresses.                                                      *)
addr_to_cap_id(addr) == {r \in Peripherals : addr \in Region[r]}

is_ram_flash(addr) ==
    IF Arch = "arm"
      THEN addr \in At(2048, 0) .. At(2063, 65535) \/ addr \in At(8192, 0) .. At(8193, 49152)
      ELSE addr \in At(8192, 0) .. At(8192, 65535) \/ addr \in At(32768, 0) .. At(32768, 65535)

available(id) == id \notin claimed
is_superuser_active == ~available("SUPERUSER")

(* check_access(addr).is_ok(): an unmapped address needs the superuser. *)
check_access(addr) ==
    \/ is_superuser_active
    \/ IF addr_to_cap_id(addr) # {}
         THEN addr_to_cap_id(addr) \subseteq claimed
         ELSE is_ram_flash(addr)

(* The guard of enforced_poke_u32 and enforced_peek_u32: an unmapped address *)
(* passes here.                                                              *)
enforced_access(addr) ==
    is_superuser_active \/ addr_to_cap_id(addr) \subseteq claimed

acquire(id) == claimed' = claimed \cup {id}
release(id) == claimed' = claimed \ {id}
=============================================================================
