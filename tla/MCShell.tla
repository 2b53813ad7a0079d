------------------------------ MODULE MCShell ------------------------------
(* Shell for TLC: one GPIOA register and one RAM word (0x2000_C000, between   *)
(* .bss and the memory pool), which also serve as the values that are         *)
(* written.                                                                   *)
EXTENDS Shell, TLC

Gpio == At(16386, 20)
RamWord == At(8192, 49152)
MCWord == {Gpio, RamWord}
MCVals == {Gpio}

(* Stored bodies that fit a function slot of ShellFns, and one that does not. *)
MCStored == {<<Peek(Gpio)>>, <<Poke(RamWord, Gpio)>>, <<Peek(Gpio), Peek(RamWord), Peek(Gpio)>>}

(* Function names are interchangeable. *)
NameSymmetry == Permutations(Names)
=============================================================================
