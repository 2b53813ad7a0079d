------------------------------- MODULE PStore -------------------------------
(***************************************************************************)
(* The program store (drivers/pstore.rs) and the shell commands on it      *)
(* (store and load in drivers/repl.rs; store_list only prints), over the   *)
(* function table.  The store is a window of SRAM that start-up does not   *)
(* touch: at power-on it holds anything, lengths and names included, and   *)
(* it outlives a reset, which the function table does not.  A save is a    *)
(* sequence of volatile word writes and a reset can come between any two   *)
(* of them.                                                                *)
(*                                                                         *)
(* A name is a sequence of nonzero bytes and a body a sequence of words.   *)
(* Slots are 277 bytes apart and a full one is 280 long, so bodies must be *)
(* shorter than a slot.  The window is the top of the boot stack: that the *)
(* stack of the shell never reaches the slots is assumed.                  *)
(***************************************************************************)
EXTENDS FnTable

CONSTANTS Bodies,       \* the bodies that parse_fn compiles
          NameMax,      \* NAME_MAX: 16 in the code
          SlotWords,    \* SLOT_WORDS: 64 in the code
          MaxPrograms,  \* MAX_PROGRAMS: 8 in the code
          PowerOn       \* what a slot may hold at power-on

ASSUME BodiesAssumption == \A b \in Bodies : b \in Seq(Nat) /\ Len(b) <= FnBodyWords
ASSUME StoreNamesAssumption == \A n \in Names : n \in Seq(Nat \ {0}) /\ Len(n) \in 1 .. NameMax
ASSUME SizesAssumption ==
    /\ NameMax \in Nat /\ MaxPrograms \in Nat
    /\ SlotWords \in Nat /\ FnBodyWords < SlotWords

SlotRecords == [name_len : Nat, name : [1 .. NameMax -> Nat],
                len : Nat, words : [1 .. SlotWords -> Nat]]

ASSUME PowerOnAssumption == PowerOn \subseteq SlotRecords

VARIABLES window,     \* the slots of the store
          saving,     \* the save in progress
          compiled,   \* history: the bodies fn has compiled since power-on
          found       \* history: the window at power-on

vars == <<fns, window, saving, compiled, found>>

Slots == 0 .. MaxPrograms - 1
Idle == [slot |-> MaxPrograms, name |-> <<>>, words |-> <<>>, pc |-> "idle", at |-> 1]

(* Power-on. *)
Init ==
    /\ fns = NoFns
    /\ window \in [Slots -> PowerOn]
    /\ found = window
    /\ saving = Idle
    /\ compiled = {}

Ready == saving.pc = "idle"

(* fn NAME() { ... } *)
Define(name, body) ==
    /\ Ready
    /\ can_alloc(name)
    /\ install_fn(name, Len(body), body)
    /\ compiled' = compiled \cup {body}
    /\ UNCHANGED <<window, saving, found>>

-----------------------------------------------------------------------------
(* store NAME; -- export_fn, the search for a slot, then save. *)

(* load(i, ..) # Err(NotFound): all that the search looks at. *)
occupied(i) == window[i].name_len \in 1 .. NameMax

(* Mutants: the last program gives way when the store is full; the search    *)
(* accepts a slot whose body is still empty.                                 *)
free_slots_Recycles ==
    IF \A i \in Slots : occupied(i) THEN {MaxPrograms - 1} ELSE {i \in Slots : ~occupied(i)}
free_slots_NoBody == {i \in Slots : ~occupied(i) \/ window[i].len = 0}

free_slots == {i \in Slots : ~occupied(i)}

(* The first write of save sets name_len.  With no free slot (STORE FULL) or *)
(* no such function nothing happens.                                         *)
Store(name) ==
    /\ Ready
    /\ defined(name)
    /\ \E i \in free_slots :
           /\ \A j \in free_slots : i <= j
           /\ saving' = [slot |-> i, name |-> name, words |-> fns[find_fn(name)].body,
                         pc |-> "name", at |-> 1]
           /\ window' = [window EXCEPT ![i].name_len = Len(name)]
    /\ UNCHANGED <<fns, compiled, found>>

(* A byte of the name is written as a word, whose upper bytes clear the      *)
(* three that follow: of the name, and at its end of len.                    *)
written(old, name, at) ==
    [k \in 1 .. NameMax |-> IF k = at THEN name[k] ELSE IF k \in at + 1 .. at + 3 THEN 0 ELSE old[k]]
clear_low(n, bytes) == IF bytes \in 1 .. 3 THEN n - (n % <<256, 65536, 16777216>>[bytes]) ELSE n

SaveName ==
    /\ saving.pc = "name"
    /\ window' = [window EXCEPT ![saving.slot].name = written(@, saving.name, saving.at),
                                ![saving.slot].len = clear_low(@, saving.at + 3 - NameMax)]
    /\ saving' = IF saving.at < Len(saving.name) THEN [saving EXCEPT !.at = @ + 1]
                                                 ELSE [saving EXCEPT !.pc = "len", !.at = 1]
    /\ UNCHANGED <<fns, compiled, found>>

SaveLen ==
    /\ saving.pc = "len"
    /\ window' = [window EXCEPT ![saving.slot].len = Len(saving.words)]
    /\ saving' = IF saving.words # <<>> THEN [saving EXCEPT !.pc = "words"] ELSE Idle
    /\ UNCHANGED <<fns, compiled, found>>

(* Mutant: the last word is not written. *)
SaveWord_OneShort ==
    /\ saving.pc = "words"
    /\ window' = [window EXCEPT ![saving.slot].words[saving.at] = saving.words[saving.at]]
    /\ saving' = IF saving.at + 1 < Len(saving.words) THEN [saving EXCEPT !.at = @ + 1] ELSE Idle
    /\ UNCHANGED <<fns, compiled, found>>

SaveWord ==
    /\ saving.pc = "words"
    /\ window' = [window EXCEPT ![saving.slot].words[saving.at] = saving.words[saving.at]]
    /\ saving' = IF saving.at < Len(saving.words) THEN [saving EXCEPT !.at = @ + 1] ELSE Idle
    /\ UNCHANGED <<fns, compiled, found>>

-----------------------------------------------------------------------------
(* load NAME; -- the first slot whose name begins with NAME.                 *)

(* The comparison looks at as many bytes as NAME has; load fills name_len    *)
(* bytes of a zeroed buffer.                                                 *)
matches(i, name) ==
    /\ occupied(i)
    /\ window[i].len <= SlotWords
    /\ \A k \in 1 .. Len(name) :
           (IF k <= window[i].name_len THEN window[i].name[k] ELSE 0) = name[k]

stored_body(i) == SubSeq(window[i].words, 1, window[i].len)

(* import_fn refuses a long body, a live name and a full table. *)
Load(name) ==
    /\ Ready
    /\ can_alloc(name)
    /\ \E i \in Slots :
           /\ matches(i, name)
           /\ \A j \in 0 .. i - 1 : ~matches(j, name)
           /\ window[i].len <= FnBodyWords
           /\ install_fn(name, Len(stored_body(i)), stored_body(i))
    /\ UNCHANGED <<window, saving, compiled, found>>

(* A reset that keeps the SRAM: start-up clears .bss, and with it the        *)
(* compiler, but not the window.                                             *)
Reset ==
    /\ fns' = NoFns
    /\ saving' = Idle
    /\ UNCHANGED <<window, compiled, found>>

-----------------------------------------------------------------------------
Next ==
    \/ \E name \in Names, body \in Bodies : Define(name, body)
    \/ \E name \in Names : Store(name)
    \/ SaveName
    \/ SaveLen
    \/ SaveWord
    \/ \E name \in Names : Load(name)
    \/ Reset

Spec == Init /\ [][Next]_vars

-----------------------------------------------------------------------------
(* A reset in the middle of a save can leave a slot half written, and a slot *)
(* can look occupied at power-on, but a slot that was taken is never handed  *)
(* out again: what a function holds, however often it was saved, cut short   *)
(* and loaded, begins like one compiled body (or no body) and goes on with   *)
(* what the SRAM held at power-on.  The words of two programs never mix.     *)
FoundWords(j) == {found[i].words[j] : i \in Slots}
TornFrom(body, whole) ==
    \E k \in 0 .. Len(whole) : \A j \in 1 .. Len(body) :
        IF j <= k THEN body[j] = whole[j] ELSE body[j] \in FoundWords(j)
NoMixedBodies ==
    \A i \in FnSlots : fn_allocated(i) =>
        \E whole \in compiled \cup {<<>>} : TornFrom(fns[i].body, whole)

(* A slot that is in use is never taken by another save, also when its own   *)
(* save was cut short: only the save that took it writes to it.              *)
SlotsNotReused ==
    [][\A i \in Slots : occupied(i) /\ saving.slot # i => window'[i] = window[i]]_vars

(* A save that is not cut off by a reset leaves the function, whole and      *)
(* under its name, in its slot.                                              *)
Image(s) == [name |-> SubSeq(s.name, 1, s.name_len), words |-> SubSeq(s.words, 1, s.len)]
SavedWhole ==
    [][~Ready /\ Ready' /\ fns' # NoFns =>
         Image(window'[saving.slot]) = [name |-> saving.name, words |-> saving.words]]_vars
=============================================================================
