----------------------------- MODULE RangeCheck -----------------------------
(***************************************************************************)
(* The vector capability check (verify_range_contiguous and build_mask in  *)
(* capabilities/registry.rs): whether a run of 4 KiB blocks is authorised. *)
(* A run inside one window of the bitmap is compared with it a machine     *)
(* word at a time; a longer one is checked block by block.  Other code     *)
(* claims and releases resources between any two reads of the bitmap.      *)
(*                                                                         *)
(* The bitmap has as many bits as one window.  The module covers runs that *)
(* start in it, below 1 MiB, where neither target maps RAM, flash or a     *)
(* peripheral; for all others the code compares with what lies behind the  *)
(* bitmap, and nothing can be said of the result.                          *)
(*                                                                         *)
(* The crate hros-cap checks a run of any length window by window instead, *)
(* with no superuser and no fallback: a run may start and end past the     *)
(* bitmap, where Behind is what memory happens to hold.                    *)
(***************************************************************************)
EXTENDS Integers, FiniteSetsExt

CONSTANTS WordBits,       \* 32: the targets load a 64-bit word of the bitmap in two
          WindowWords,    \* 8: a window is 256 blocks
          MaxBlock,       \* bound: the last block of a run
          SuperUser,      \* the superuser's bit
          Behind          \* blocks past the bitmap whose bit reads as set (external)

Window == WordBits * WindowWords
BitmapBits == 0 .. Window - 1

ASSUME WindowAssumption == WordBits \in Nat \ {0} /\ WindowWords \in Nat \ {0} /\ MaxBlock \in Nat
ASSUME SuperUserAssumption == SuperUser \in BitmapBits
ASSUME BehindAssumption == Behind \subseteq Window .. MaxBlock

VARIABLES bits,        \* REGISTRY_BITS: the bits that are set
          call,        \* the check in progress: where it is, its run, the next word or block
          verdict,     \* "none", "ok" or "err"
          wasSet, wasClear   \* history: bits that were set, clear, at some time of the check

rangeVars == <<bits, call, verdict, wasSet, wasClear>>

NoCheck == [pc |-> "idle", by |-> "registry", from |-> 0, to |-> 0, at |-> 0]

RangeInit ==
    /\ bits = {}
    /\ call = NoCheck
    /\ verdict = "none"
    /\ wasSet = {} /\ wasClear = {}

(* acquire and release, by a driver or another core. *)
Flip(id) ==
    /\ bits' = IF id \in bits THEN bits \ {id} ELSE bits \cup {id}
    /\ wasSet' = wasSet \cup bits' /\ wasClear' = wasClear \cup (BitmapBits \ bits')
    /\ UNCHANGED <<call, verdict>>

-----------------------------------------------------------------------------
(* build_mask for the run, as the bits it sets in each word; None if the run *)
(* leaves its window.  An empty run never gets here.                         *)
fits_window(from, to) == to < (from \div Window) * Window + Window

(* Mutant: a run that straddles two words sets bits in the first only. *)
build_mask_NoStraddle(from, to) ==
    [w \in 0 .. WindowWords - 1 |->
        {k % WordBits : k \in {j \in from .. to : j \div WordBits = w /\ w = from \div WordBits}}]

build_mask(from, to) ==
    [w \in 0 .. WindowWords - 1 |-> {k % WordBits : k \in {j \in from .. to : j \div WordBits = w}}]

(* Word w of the bitmap, or of what lies behind it. *)
vcap(w) == {b \in 0 .. WordBits - 1 : w * WordBits + b \in bits \cup Behind}

(* A check of to - from + 1 blocks; to < from stands for len = 0. *)
Start(first, by, from, to, at) ==
    LET run == [pc |-> first, by |-> by, from |-> from, to |-> to, at |-> at] IN
    /\ call.pc = "idle"
    /\ wasSet' = bits /\ wasClear' = BitmapBits \ bits
    /\ IF to < from
         THEN verdict' = "ok" /\ call' = [run EXCEPT !.pc = "idle"]
         ELSE verdict' = "none" /\ call' = run
    /\ UNCHANGED bits

Begin(from, to) == Start("superuser", "registry", from, to, 0)

Finish(v) == call' = [call EXCEPT !.pc = "idle"] /\ verdict' = v

CheckSuperUser ==
    /\ call.pc = "superuser"
    /\ IF SuperUser \in bits
         THEN Finish("ok")
         ELSE /\ call' = IF fits_window(call.from, call.to)
                           THEN [call EXCEPT !.pc = "vector"]
                           ELSE [call EXCEPT !.pc = "scalar", !.at = call.from]
              /\ UNCHANGED verdict
    /\ UNCHANGED <<bits, wasSet, wasClear>>

(* Mutant: the whole word is compared, not the bits of the mask. *)
word_ok_Whole(w) == LET m == build_mask(call.from, call.to)[w] IN m = {} \/ m = vcap(w)

word_ok(w) == build_mask(call.from, call.to)[w] \subseteq vcap(w)

(* verify_vector, one word.  The scan after a mismatch, whatever it finds,   *)
(* ends in an error.                                                         *)
VectorWord ==
    /\ call.pc = "vector"
    /\ CASE ~word_ok(call.at) -> Finish("err")
         [] word_ok(call.at) /\ call.at = WindowWords - 1 -> Finish("ok")
         [] OTHER -> call' = [call EXCEPT !.at = @ + 1] /\ UNCHANGED verdict
    /\ UNCHANGED <<bits, wasSet, wasClear>>

(* The fallback: check_access, for which the block is unmapped. *)
ScalarBlock ==
    /\ call.pc = "scalar"
    /\ CASE SuperUser \notin bits -> Finish("err")
         [] SuperUser \in bits /\ call.at = call.to -> Finish("ok")
         [] OTHER -> call' = [call EXCEPT !.at = @ + 1] /\ UNCHANGED verdict
    /\ UNCHANGED <<bits, wasSet, wasClear>>

-----------------------------------------------------------------------------
(* hros-cap: the part of the run in the window at base, by words; the loop   *)
(* compares the words of one window after the other.                         *)

build_mask_window(from, to, base) ==
    [w \in base \div WordBits .. base \div WordBits + WindowWords - 1 |->
        {k % WordBits : k \in {j \in Max({from, base}) .. Min({to, base + Window - 1}) : j \div WordBits = w}}]

BeginWindows(from, to) == Start("windows", "hros-cap", from, to, (from \div Window) * WindowWords)

WindowWord ==
    LET base == (call.at \div WindowWords) * Window
        authorised == build_mask_window(call.from, call.to, base)[call.at] \subseteq vcap(call.at)
    IN  /\ call.pc = "windows"
        /\ CASE ~authorised -> Finish("err")
             [] authorised /\ call.at = (call.to \div Window + 1) * WindowWords - 1 -> Finish("ok")
             [] OTHER -> call' = [call EXCEPT !.at = @ + 1] /\ UNCHANGED verdict
        /\ UNCHANGED <<bits, wasSet, wasClear>>

RangeNext ==
    \/ \E id \in BitmapBits : Flip(id)
    \/ \E from \in BitmapBits, to \in 0 .. MaxBlock : Begin(from, to)
    \/ CheckSuperUser
    \/ VectorWord
    \/ ScalarBlock
    \/ \E from, to \in 0 .. MaxBlock : BeginWindows(from, to)
    \/ WindowWord

RangeSpec == RangeInit /\ [][RangeNext]_rangeVars

-----------------------------------------------------------------------------
Blocks == call.from .. call.to

(* Whatever is claimed and released meanwhile, a run is authorised only if   *)
(* each of its blocks was at some time of the check, or, for the registry's  *)
(* check, the superuser was active then: no block slips through where a run  *)
(* straddles two words or two windows.  Past the bitmap hros-cap takes       *)
(* memory for it.                                                            *)
OkBlocksWereSet ==
    verdict = "ok" =>
        \/ Blocks \subseteq wasSet \cup (IF call.by = "hros-cap" THEN Behind ELSE {})
        \/ call.by = "registry" /\ SuperUser \in wasSet

(* And a run is refused only if one of its blocks was unauthorised at some   *)
(* time of the check: there are no spurious refusals.                        *)
ErrBlockWasClear ==
    verdict = "err" => \E k \in Blocks : k \in wasClear \/ k \notin BitmapBits \cup (IF call.by = "hros-cap" THEN Behind ELSE {})
=============================================================================
