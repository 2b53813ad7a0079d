------------------------------- MODULE Vectors -------------------------------
(***************************************************************************)
(* The relocated vector table of the ARM build (kernel/interrupt.rs, with  *)
(* install_task_handlers of kernel/multitask.rs and the boot order of      *)
(* main.rs).  RAM_VECTOR_TABLE lies in a NOLOAD section that start-up does *)
(* not touch: its initializer is never loaded, and after a reset it holds  *)
(* what it held before.  boot_relocate_vectors copies the words of the     *)
(* flash table, the core exceptions, one by one and then sets VTOR.        *)
(*                                                                         *)
(* A fault can come at any time.  Other interrupts come once boot is over, *)
(* from sources that the shell enables.                                    *)
(***************************************************************************)
EXTENDS Integers

CONSTANTS CoreWords,      \* words of the flash table: 16 in the code
          NumIrqs,        \* external interrupts: 32 in the code
          PendSV, SysTick,\* slots 14 and 15 in the code
          FaultSlots,     \* slots of faults: 2 .. 6 in the code
          IrqLine,        \* the line of generic_irq_trampoline_ch16: 16 in the code
          Jit             \* functions that are attached

VectorSlots == 0 .. CoreWords + NumIrqs - 1
IrqSlot(i) == CoreWords + i

ASSUME TableAssumption ==
    /\ CoreWords \in Nat /\ NumIrqs \in Nat /\ IrqLine \in 0 .. NumIrqs - 1
    /\ {PendSV, SysTick} \cup FaultSlots \subseteq 0 .. CoreWords - 1

(* Words: what the linker script puts into every slot of the flash table     *)
(* that can be taken, no handler, leftovers of SRAM, and handlers.           *)
Hang == "fault_hang"
None == "none"
Stale == "stale"
Trampoline == "trampoline"

ASSUME JitAssumption == Jit \cap {Hang, None, Stale} = {}

VARIABLES ram,        \* RAM_VECTOR_TABLE
          vtor,       \* which table the processor dispatches from
          boot,       \* words copied so far; CoreWords + 1 once VTOR is set
          serving,    \* where generic_irq_trampoline_ch16 is, if it runs
          pending,    \* lines pending at the peripheral
          taken,      \* the last dispatch: by whom, slot, the word found, the word due
          latest      \* history: what was last put into each slot since the reset

vectorVars == <<ram, vtor, boot, serving, pending, taken, latest>>

Nothing == [by |-> "nobody", slot |-> 0, word |-> None, due |-> None]
NotServing == [pc |-> "no", seen |-> {}]
Booted == boot = CoreWords + 1

(* fault_hang never returns, and a jump to no handler or to a leftover ends  *)
(* there or worse.                                                           *)
Halted == taken.by # "nobody" /\ taken.word \in {Hang, None, Stale}

VectorInit ==
    /\ ram \in [VectorSlots -> {None, Stale}]
    /\ vtor = "flash"
    /\ boot = 0
    /\ serving = NotServing
    /\ pending = {}
    /\ taken = Nothing
    /\ latest = [s \in VectorSlots |-> None]

-----------------------------------------------------------------------------
(* boot_relocate_vectors *)

(* Mutant: the last word is left out. *)
CopyWord_OneShort ==
    /\ ~Halted /\ boot < CoreWords
    /\ ram' = IF boot + 1 < CoreWords THEN [ram EXCEPT ![boot] = Hang] ELSE ram
    /\ latest' = [latest EXCEPT ![boot] = Hang]
    /\ boot' = boot + 1
    /\ UNCHANGED <<vtor, serving, pending, taken>>

CopyWord ==
    /\ ~Halted /\ boot < CoreWords
    /\ ram' = [ram EXCEPT ![boot] = Hang]
    /\ latest' = [latest EXCEPT ![boot] = Hang]
    /\ boot' = boot + 1
    /\ UNCHANGED <<vtor, serving, pending, taken>>

SetVtor ==
    /\ ~Halted /\ boot = CoreWords
    /\ vtor' = "ram"
    /\ boot' = boot + 1
    /\ UNCHANGED <<ram, serving, pending, taken, latest>>

(* The shell runs: no interrupt is being served. *)
InShell == Booted /\ ~Halted /\ serving.pc = "no"

Put(s, word) == ram' = [ram EXCEPT ![s] = word] /\ latest' = [latest EXCEPT ![s] = word]

(* install_task_handlers: two stores, a tick may come between them. *)
InstallPendSV == InShell /\ Put(PendSV, "PendSV_Handler") /\ UNCHANGED <<vtor, boot, serving, pending, taken>>
InstallSysTick ==
    /\ InShell /\ latest[PendSV] = "PendSV_Handler"
    /\ Put(SysTick, "sys_tick_pend")
    /\ UNCHANGED <<vtor, boot, serving, pending, taken>>

(* An index that is not below 32 is ignored. *)
attach_jit_irq(i, jit_fn) ==
    /\ InShell /\ i < NumIrqs
    /\ Put(IrqSlot(i), jit_fn)
    /\ UNCHANGED <<vtor, boot, serving, pending, taken>>

-----------------------------------------------------------------------------
(* Hardware (external): the word of the slot, from the table of VTOR. *)
Fetched(s) == IF vtor = "ram" THEN ram[s] ELSE Hang
Due(s) == IF vtor = "ram" THEN latest[s] ELSE Hang

Dispatch(s) ==
    /\ taken' = [by |-> "processor", slot |-> s, word |-> Fetched(s), due |-> Due(s)]
    /\ serving' = IF Fetched(s) = Trampoline THEN [NotServing EXCEPT !.pc = "read"] ELSE serving
    /\ UNCHANGED <<ram, vtor, boot, pending, latest>>

Fault(s) == ~Halted /\ s \in FaultSlots /\ Dispatch(s)
Tick(s) == InShell /\ s \in {PendSV, SysTick} /\ Dispatch(s)
Irq(i) == InShell /\ i \in pending /\ Dispatch(IrqSlot(i))

Raise(i) == Booted /\ ~Halted /\ pending' = pending \cup {i} /\ UNCHANGED <<ram, vtor, boot, serving, taken, latest>>

-----------------------------------------------------------------------------
(* generic_irq_trampoline_ch16: a read and a write of the pending register,  *)
(* then the handler of the line, if the word is not zero.                    *)
AckRead ==
    /\ ~Halted /\ serving.pc = "read"
    /\ serving' = [pc |-> "write", seen |-> pending]
    /\ UNCHANGED <<ram, vtor, boot, pending, taken, latest>>

AckWrite ==
    /\ ~Halted /\ serving.pc = "write"
    /\ pending' = serving.seen \ {IrqLine}
    /\ serving' = [serving EXCEPT !.pc = "call", !.seen = {}]
    /\ UNCHANGED <<ram, vtor, boot, taken, latest>>

CallHandler ==
    LET word == ram[IrqSlot(IrqLine)] IN
    /\ ~Halted /\ serving.pc = "call"
    /\ IF word = None
         THEN serving' = NotServing /\ UNCHANGED taken
         ELSE /\ taken' = [by |-> "trampoline", slot |-> IrqSlot(IrqLine), word |-> word, due |-> latest[IrqSlot(IrqLine)]]
              /\ serving' = IF word = Trampoline THEN [NotServing EXCEPT !.pc = "read"] ELSE NotServing
    /\ UNCHANGED <<ram, vtor, boot, pending, latest>>

(* A reset: VTOR is back at the flash table, SRAM is kept. *)
VectorReset ==
    /\ vtor' = "flash" /\ boot' = 0 /\ serving' = NotServing /\ pending' = {} /\ taken' = Nothing
    /\ latest' = [s \in VectorSlots |-> None]
    /\ UNCHANGED ram

-----------------------------------------------------------------------------
VectorNext ==
    \/ CopyWord
    \/ SetVtor
    \/ InstallPendSV
    \/ InstallSysTick
    \/ \E i \in 0 .. NumIrqs, f \in Jit \cup {Trampoline} : attach_jit_irq(i, f)
    \/ \E s \in FaultSlots : Fault(s)
    \/ \E s \in {PendSV, SysTick} : Tick(s)
    \/ \E i \in 0 .. NumIrqs - 1 : Irq(i) \/ Raise(i)
    \/ AckRead
    \/ AckWrite
    \/ CallHandler
    \/ VectorReset

VectorSpec == VectorInit /\ [][VectorNext]_vectorVars

-----------------------------------------------------------------------------
(* Whenever an exception comes, also while the table is being copied and     *)
(* after a reset over an old one, the processor dispatches to what was last  *)
(* put into its slot: a core exception never finds a leftover, nor does an   *)
(* interrupt that has been attached.                                         *)
DispatchIsLatest ==
    taken.by # "nobody" /\ (taken.slot < CoreWords \/ taken.due # None) => taken.word = taken.due

(* "A Some value was installed via attach_jit_irq and is a valid fn          *)
(* pointer": the trampoline calls only what was attached since the reset.    *)
TrampolineCallsAttached ==
    taken.by = "trampoline" => taken.due # None
=============================================================================
