------------------------------ MODULE FnTable ------------------------------
(***************************************************************************)
(* The compiler's function table (compiler/parser.rs): MaxFns slots, each  *)
(* with a name, a body and the body's length in stream words.  A slot is   *)
(* free while its name is empty.                                           *)
(***************************************************************************)
EXTENDS Integers, Sequences

CONSTANTS Names,          \* identifiers a function can be given
          NoName,         \* the empty name that marks a free slot
          MaxFns,         \* MAX_FNS: 2 in the code
          FnBodyWords     \* FN_BODY_WORDS: 32 in the code

ASSUME NamesAssumption == NoName \notin Names
ASSUME MaxFnsAssumption == MaxFns \in Nat \ {0}
ASSUME FnBodyWordsAssumption == FnBodyWords \in Nat

VARIABLE fns

FnSlots == 1 .. MaxFns
FreeSlot == [name |-> NoName, len |-> 0, body |-> <<>>]
NoFns == [i \in FnSlots |-> FreeSlot]

fn_allocated(i) == fns[i].name # NoName

(* find_fn(name).is_some(), and the index it returns: the first match. *)
defined(name) == \E i \in FnSlots : fn_allocated(i) /\ fns[i].name = name
find_fn(name) ==
    CHOOSE i \in FnSlots :
        /\ fns[i].name = name
        /\ \A j \in FnSlots : fns[j].name = name => i <= j

(* Mutants: a live name is accepted again; the first slot is always taken. *)
can_alloc_Redefines(name) == \E i \in FnSlots : ~fn_allocated(i)
alloc_fn_slot_First == 1

(* alloc_fn_slot: refused for a live name and for a full table; otherwise    *)
(* the first free slot.                                                      *)
can_alloc(name) == ~defined(name) /\ \E i \in FnSlots : ~fn_allocated(i)
alloc_fn_slot ==
    CHOOSE i \in FnSlots :
        /\ ~fn_allocated(i)
        /\ \A j \in FnSlots : ~fn_allocated(j) => i <= j

install_fn(name, len, body) ==
    fns' = [fns EXCEPT ![alloc_fn_slot] = [name |-> name, len |-> len, body |-> body]]

(* No two live slots have the same name, so a call, a splice and an export   *)
(* all mean the one body a name was given.                                   *)
NamesUnique ==
    \A i, j \in FnSlots : fn_allocated(i) /\ fns[i].name = fns[j].name => i = j
=============================================================================
