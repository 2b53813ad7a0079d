---------------------------- MODULE SymbolTable ----------------------------
(***************************************************************************)
(* The compiler's symbol table (compiler/parser.rs): `let' bindings in an  *)
(* open-addressed table that is probed linearly.  Nothing is ever removed. *)
(***************************************************************************)
EXTENDS Integers

CONSTANTS SymbolNames, NoSymbol,
          Values, NoValue,
          SymbolSlots       \* SYMBOL_SLOTS: 32 in the code

ASSUME SymbolsAssumption == NoSymbol \notin SymbolNames /\ NoValue \notin Values
ASSUME SymbolSlotsAssumption == SymbolSlots \in Nat \ {0}

VARIABLES symbols,    \* the table
          hash,       \* FNV-1a modulo the table size: any function of the name
          bound,      \* history: the value each name was last bound to
          refused     \* history: names whose last `let' ended in SymbolTableFull

symbolVars == <<symbols, hash, bound, refused>>

TableSlots == 0 .. SymbolSlots - 1
Unused == [used |-> FALSE, name |-> NoSymbol, value |-> NoValue]

SymbolInit ==
    /\ symbols = [i \in TableSlots |-> Unused]
    /\ hash \in [SymbolNames -> TableSlots]
    /\ bound = [n \in SymbolNames |-> NoValue]
    /\ refused = {}

-----------------------------------------------------------------------------
(* The slot looked at in step k of a search for the name. *)
probe(name, step) == (hash[name] + step) % SymbolSlots

(* The steps at which the search can stop, and the first of them. *)
stops(name) == {k \in TableSlots : LET s == symbols[probe(name, k)] IN ~s.used \/ s.name = name}
first_stop(name) == CHOOSE k \in stops(name) : \A j \in stops(name) : k <= j
slot_for(name) == probe(name, first_stop(name))

(* Mutant: a collision is taken for a miss. *)
lookup_symbol_FirstOnly(name) ==
    LET s == symbols[hash[name]] IN IF s.used /\ s.name = name THEN s.value ELSE NoValue

lookup_symbol(name) ==
    IF stops(name) # {} /\ symbols[slot_for(name)].used THEN symbols[slot_for(name)].value
                                                        ELSE NoValue

(* Mutant: the last slot of the search is never reached.                    *)
can_insert_OneLess(name) == stops(name) \ {SymbolSlots - 1} # {}

can_insert(name) == stops(name) # {}
insert_symbol(name, value) ==
    symbols' = [symbols EXCEPT ![slot_for(name)] = [used |-> TRUE, name |-> name, value |-> value]]

(* let NAME = EXPR; *)
Let(name, value) ==
    /\ can_insert(name)
    /\ insert_symbol(name, value)
    /\ bound' = [bound EXCEPT ![name] = value]
    /\ refused' = refused \ {name}
    /\ UNCHANGED hash

LetRefused(name) ==
    /\ ~can_insert(name)
    /\ refused' = refused \cup {name}
    /\ UNCHANGED <<symbols, hash, bound>>

SymbolNext ==
    \/ \E name \in SymbolNames, value \in Values : Let(name, value)
    \/ \E name \in SymbolNames : LetRefused(name)

SymbolSpec == SymbolInit /\ [][SymbolNext]_symbolVars

-----------------------------------------------------------------------------
(* For every hash function, and however the chains of the names run into     *)
(* each other or round the end of the table, the search finds the value each *)
(* name was last bound to, and nothing for a name that has none.             *)
LookupIsLatest == \A name \in SymbolNames : lookup_symbol(name) = bound[name]

(* SymbolTableFull is returned only for a new name and only when every slot  *)
(* is taken: a bound name can always be bound again.                         *)
RefusedOnlyWhenFull ==
    \A name \in refused : bound[name] = NoValue /\ \A i \in TableSlots : symbols[i].used
=============================================================================
