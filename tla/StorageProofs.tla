--------------------------- MODULE StorageProofs ---------------------------
(***************************************************************************)
(* What the kernel keeps its data in: the memory pools, the compiler's     *)
(* symbol table and the program store, for any sizes.                      *)
(***************************************************************************)
EXTENDS Pool, SymbolTable, PStore, SequenceTheorems, NaturalsInduction, WellFoundedInduction, TLAPS

(* The steps that name no prover are for the SMT solver.                     *)
USE SMTT(30)

-----------------------------------------------------------------------------
(* The memory pools, for any number and size of pools and any sizes asked    *)
(* for, those that make off + size wrap included.                            *)

(* Every block of a pool where no addition wrapped ends at or below the bump *)
(* pointer, so the next one, which starts there, is clear of all of them.    *)
BelowOffset ==
    \A t \in Pools \ wrapped : \A i \in 1 .. Len(blocks[t]) :
        blocks[t][i].addr + blocks[t][i].size <= t * TaskPoolSize + offsets[t]

Block == [addr : Nat, size : Nat]

PoolInv ==
    /\ PoolTypeOK
    /\ blocks \in [Pools -> Seq(Block)]
    /\ BelowOffset
    /\ BlocksExclusive

(* The sums of the allocator are machine words.                              *)
LEMMA ModType ==
    ASSUME NEW x \in Nat
    PROVE  x % Modulus \in Nat /\ (x < Modulus => x % Modulus = x)
<1>1. Modulus \in Nat /\ Modulus > 0
  BY PoolAssumption
<1> QED BY <1>1

(* A sub-pool starts at a multiple of its size.                              *)
LEMMA BaseType ==
    ASSUME NEW t \in Pools
    PROVE  t * TaskPoolSize \in Nat /\ (t + 1) * TaskPoolSize = t * TaskPoolSize + TaskPoolSize
BY PoolAssumption DEF Pools

(* Initially every pool is empty.                                            *)
LEMMA PoolInvInit == PoolInit => PoolInv
<1> SUFFICES ASSUME PoolInit PROVE PoolInv
  BY ZenonT(30)
<1>1. TaskPoolSize \in Nat
  BY PoolAssumption, ZenonT(30)
<1>2. \A t \in Pools : offsets[t] = 0 /\ blocks[t] = <<>> /\ Len(blocks[t]) = 0
  BY ZenonT(30) DEF PoolInit
<1>3. PoolTypeOK /\ blocks \in [Pools -> Seq(Block)]
  BY <1>1 DEF PoolInit, PoolTypeOK
<1> QED BY <1>2, <1>3 DEF PoolInv, BelowOffset, BlocksExclusive

(* Allocating: the new block starts at the bump pointer and, unless the sum  *)
(* wraps, ends at the new one.                                               *)
LEMMA AllocStep ==
    ASSUME PoolInv, NEW t \in Pools, NEW size \in Sizes, alloc(t, size)
    PROVE  PoolInv'
<1> DEFINE base == t * TaskPoolSize
           off == offsets[t]
           b == [addr |-> base + off, size |-> size]
<1>1. /\ base \in Nat /\ off \in 0 .. TaskPoolSize /\ size \in Nat /\ TaskPoolSize \in Nat
      /\ Modulus \in Nat /\ off + size \in Nat
  BY PoolAssumption, BaseType DEF PoolInv, PoolTypeOK
<1> DEFINE new == (off + size) % Modulus
<1>2. new \in Nat /\ (off + size < Modulus => new = off + size)
  BY <1>1, ModType, ZenonT(30)
<1>3. /\ new <= TaskPoolSize
      /\ offsets' = [offsets EXCEPT ![t] = new]
      /\ blocks' = [blocks EXCEPT ![t] = Append(blocks[t], b)]
      /\ wrapped' = IF off + size >= Modulus THEN wrapped \cup {t} ELSE wrapped
  BY ZenonT(30) DEF alloc, fits, Base
<1> HIDE DEF new
<1>4. b \in Block
  BY <1>1 DEF Block
<1>5. PoolTypeOK'
  BY <1>1, <1>2, <1>3 DEF PoolInv, PoolTypeOK
<1>6. blocks' \in [Pools -> Seq(Block)]
  BY <1>3, <1>4 DEF PoolInv
<1>7. \A u \in Pools \ wrapped' : u \in Pools \ wrapped
  BY <1>3, ZenonT(30)
<1>8. t \notin wrapped' => off + size < Modulus
  <2>1. off + size < Modulus \/ off + size >= Modulus
    BY <1>1
  <2> QED BY <1>3, <2>1, ZenonT(30)
<1>9. ASSUME NEW u \in Pools \ wrapped', NEW i \in 1 .. Len(blocks'[u])
      PROVE  /\ blocks'[u][i].addr + blocks'[u][i].size <= u * TaskPoolSize + offsets'[u]
             /\ Inside(blocks'[u][i], u)
             /\ \A j \in 1 .. i - 1 : Apart(blocks'[u][j], blocks'[u][i])
  <2>1. CASE u # t
    <3>1. blocks'[u] = blocks[u] /\ offsets'[u] = offsets[u]
      BY <1>3, <2>1, ZenonT(30) DEF PoolInv, PoolTypeOK
    <3> QED BY <1>9, <1>7, <3>1, ZenonT(30) DEF PoolInv, BelowOffset, BlocksExclusive
  <2>2. CASE u = t
    <3> DEFINE s == blocks[t]
    <3>8. new = off + size /\ t \in Pools \ wrapped
      BY <1>2, <1>9, <1>7, <1>8, <2>2, ZenonT(30)
    <3>1. /\ s \in Seq(Block) /\ Len(s) \in Nat /\ offsets'[t] = off + size
          /\ blocks'[t] = Append(s, b)
      BY <1>3, <3>8 DEF PoolInv, PoolTypeOK
    <3>2. \A k \in 1 .. Len(s) : s[k] \in Block /\ s[k].addr + s[k].size <= base + off
      BY <3>1, <3>8 DEF PoolInv, BelowOffset
    <3>3. \A k \in 1 .. Len(s) : Inside(s[k], t) /\ \A j \in 1 .. k - 1 : Apart(s[j], s[k])
      BY <3>8, ZenonT(30) DEF PoolInv, BlocksExclusive
    <3> HIDE DEF s, b
    <3>4. /\ Len(Append(s, b)) = Len(s) + 1 /\ Append(s, b)[Len(s) + 1] = b
          /\ \A k \in 1 .. Len(s) : Append(s, b)[k] = s[k]
      BY <1>4, <3>1
    <3>5. CASE i \in 1 .. Len(s)
      <4>1. \A j \in 1 .. i : blocks'[t][j] = s[j]
        BY <3>1, <3>4, <3>5
      <4>2. s[i].addr + s[i].size <= base + (off + size)
        <5>1. PICK x \in Nat, y \in Nat : x = s[i].addr /\ y = s[i].size
          BY <3>2, <3>5, ZenonT(30) DEF Block
        <5>2. x + y <= base + off
          BY <3>2, <3>5, <5>1, ZenonT(30)
        <5>3. x + y <= base + (off + size)
          BY <1>1, <5>2
        <5> QED BY <5>1, <5>3, ZenonT(30)
      <4> QED BY <2>2, <3>1, <3>3, <3>5, <4>1, <4>2
    <3>6. CASE i = Len(s) + 1
      <4>1. b.addr = base + off /\ b.size = size
        BY ZenonT(30) DEF b
      <4>2. Inside(b, t)
        <5>1. (t + 1) * TaskPoolSize = base + TaskPoolSize
          BY BaseType, ZenonT(30)
        <5> HIDE DEF base
        <5>2. off + size <= TaskPoolSize
          BY <1>3, <3>8, ZenonT(30)
        <5> QED BY <1>1, <4>1, <5>1, <5>2 DEF Inside, base
      <4>3. \A j \in 1 .. Len(s) : Apart(s[j], b)
        BY <3>2, <4>1, ZenonT(30) DEF Apart
      <4>4. b.addr + b.size <= base + (off + size)
        BY <1>1, <4>1
      <4>5. blocks'[t][i] = b /\ \A j \in 1 .. i - 1 : j \in 1 .. Len(s) /\ blocks'[t][j] = s[j]
        BY <3>1, <3>4, <3>6
      <4> QED BY <2>2, <3>1, <4>2, <4>3, <4>4, <4>5, ZenonT(30)
    <3>7. i \in 1 .. Len(s) \/ i = Len(s) + 1
      BY <1>9, <2>2, <3>1, <3>4
    <3> QED BY <3>5, <3>6, <3>7, ZenonT(30)
  <2> QED BY <2>1, <2>2, ZenonT(30)
<1>10. BelowOffset' /\ BlocksExclusive'
  BY <1>9, ZenonT(30) DEF BelowOffset, BlocksExclusive
<1> QED BY <1>5, <1>6, <1>10, ZenonT(30) DEF PoolInv

(* pool_free empties one pool and leaves the others alone.                   *)
LEMMA ResetStep ==
    ASSUME PoolInv, NEW t \in Pools, reset(t)
    PROVE  PoolInv'
<1>1. /\ offsets' = [offsets EXCEPT ![t] = 0] /\ blocks' = [blocks EXCEPT ![t] = <<>>]
      /\ TaskPoolSize \in Nat /\ Len(<<>>) = 0 /\ <<>> \in Seq(Block)
  BY PoolAssumption DEF reset
<1>2. PoolTypeOK' /\ blocks' \in [Pools -> Seq(Block)]
  BY <1>1 DEF PoolInv, PoolTypeOK
<1>3. ASSUME NEW u \in Pools \ wrapped', NEW i \in 1 .. Len(blocks'[u])
      PROVE  u \in Pools \ wrapped /\ blocks'[u] = blocks[u] /\ offsets'[u] = offsets[u]
  <2>1. u # t /\ blocks'[u] = blocks[u] /\ offsets'[u] = offsets[u]
    BY <1>1, <1>3 DEF PoolInv, PoolTypeOK
  <2> QED BY <1>3, <2>1, ZenonT(30) DEF reset
<1>4. BelowOffset'
  BY <1>3, ZenonT(30) DEF PoolInv, BelowOffset
<1>5. BlocksExclusive'
  BY <1>3, ZenonT(30) DEF PoolInv, BlocksExclusive
<1> QED BY <1>2, <1>4, <1>5, ZenonT(30) DEF PoolInv

(* Every step of the allocator preserves the inductive invariant.            *)
LEMMA PoolInvStep == PoolInv /\ [PoolNext]_poolVars => PoolInv'
<1> SUFFICES ASSUME PoolInv, [PoolNext]_poolVars PROVE PoolInv'
  BY ZenonT(30)
<1>1. CASE PoolNext
  BY <1>1, AllocStep, ResetStep, ZenonT(30) DEF PoolNext
<1>2. CASE UNCHANGED poolVars
  BY <1>2, ZenonT(30) DEF poolVars, PoolInv, PoolTypeOK, BelowOffset, BlocksExclusive
<1> QED BY <1>1, <1>2, ZenonT(30)

(* The bump pointers never leave their sub-pools, also when an addition      *)
(* wraps, so what remaining and stats report never wraps below zero.         *)
THEOREM PoolTypeCorrect == PoolSpec => []PoolTypeOK
<1>1. PoolInv => PoolTypeOK
  BY ZenonT(30) DEF PoolInv
<1>2. PoolInv /\ [PoolNext]_poolVars => PoolInv'
  BY PoolInvStep, ZenonT(30)
<1> QED BY <1>1, <1>2, PoolInvInit, PTL DEF PoolSpec

(* Until a size makes the addition of a pool wrap, alloc never hands out     *)
(* memory of it that is in use; a pool that wrapped is sound again after its *)
(* reset, and never disturbs the others' accounts.                           *)
THEOREM PoolExclusive == PoolSpec => []BlocksExclusive
<1>1. PoolInv => BlocksExclusive
  BY ZenonT(30) DEF PoolInv
<1>2. PoolInv /\ [PoolNext]_poolVars => PoolInv'
  BY PoolInvStep, ZenonT(30)
<1> QED BY <1>1, <1>2, PoolInvInit, PTL DEF PoolSpec

-----------------------------------------------------------------------------
(* The symbol table, for any size of it and every hash function. *)

SymbolTypeOK ==
    /\ symbols \in [TableSlots -> [used : BOOLEAN, name : SymbolNames \cup {NoSymbol},
                                   value : Values \cup {NoValue}]]
    /\ hash \in [SymbolNames -> TableSlots]
    /\ bound \in [SymbolNames -> Values \cup {NoValue}]
    /\ refused \subseteq SymbolNames

(* Step k of the search for the name goes on. *)
Passes(name, k) == symbols[probe(name, k)].used /\ symbols[probe(name, k)].name # name

(* Strengthening: a used slot holds the value its name was last bound to,    *)
(* and the search for that name gets to it; a bound name has a slot.         *)
ChainsOK ==
    /\ \A i \in TableSlots : symbols[i].used =>
           /\ symbols[i].name \in SymbolNames
           /\ symbols[i].value \in Values /\ symbols[i].value = bound[symbols[i].name]
           /\ \E k \in TableSlots : /\ probe(symbols[i].name, k) = i
                                    /\ \A j \in 0 .. k - 1 : Passes(symbols[i].name, j)
    /\ \A name \in SymbolNames : bound[name] # NoValue =>
           \E i \in TableSlots : symbols[i].used /\ symbols[i].name = name

SymbolInv == SymbolTypeOK /\ ChainsOK /\ RefusedOnlyWhenFull

-----------------------------------------------------------------------------
(* A search looks at slots of the table, and at all of them. *)
LEMMA ProbesReachAll ==
    ASSUME NEW name \in SymbolNames, hash \in [SymbolNames -> TableSlots]
    PROVE  /\ \A k \in TableSlots : probe(name, k) \in TableSlots
           /\ \A i \in TableSlots : \E k \in TableSlots : probe(name, k) = i
<1>1. SymbolSlots \in Nat \ {0} /\ hash[name] \in 0 .. SymbolSlots - 1
    BY SymbolSlotsAssumption, ZenonT(30) DEF TableSlots
<1>2. ASSUME NEW k \in TableSlots PROVE probe(name, k) \in TableSlots
    BY <1>1 DEF probe, TableSlots
<1>3. ASSUME NEW i \in TableSlots PROVE \E k \in TableSlots : probe(name, k) = i
    <2>1. CASE i >= hash[name]
        <3>1. i - hash[name] \in TableSlots /\ hash[name] + (i - hash[name]) = i /\ i % SymbolSlots = i
            BY <1>1, <2>1 DEF TableSlots
        <3> QED BY <3>1, ZenonT(30) DEF probe
    <2>2. CASE i < hash[name]
        <3> DEFINE k == i - hash[name] + SymbolSlots
        <3>1. k \in TableSlots /\ hash[name] + k = i + SymbolSlots
            BY <1>1, <2>2 DEF TableSlots
        <3>2. (i + SymbolSlots) % SymbolSlots = i
            BY <1>1 DEF TableSlots
        <3> HIDE DEF k
        <3> QED BY <3>1, <3>2, ZenonT(30) DEF probe
    <2> QED BY <1>1, <2>1, <2>2 DEF TableSlots
<1> QED BY <1>2, <1>3, ZenonT(30)

(* The search stops at the first step that does not pass. *)
LEMMA SearchStops ==
    ASSUME SymbolTypeOK, NEW name \in SymbolNames, stops(name) # {}
    PROVE  /\ first_stop(name) \in TableSlots /\ ~Passes(name, first_stop(name))
           /\ \A j \in 0 .. first_stop(name) - 1 : Passes(name, j)
           /\ slot_for(name) \in TableSlots
<1>1. stops(name) \subseteq Nat
    BY SymbolSlotsAssumption DEF stops, TableSlots
<1>2. PICK k \in stops(name) : \A j \in stops(name) : ~(<<j, k>> \in OpToRel(<, Nat))
    BY <1>1, NatLessThanWellFounded, WFMin, ZenonT(30)
<1>3. \A j \in stops(name) : ~(j < k)
    BY <1>1, <1>2, ZenonT(30) DEF OpToRel
<1>4. \E n \in stops(name) : \A j \in stops(name) : n <= j
    BY <1>1, <1>3
<1>5. first_stop(name) \in stops(name) /\ \A j \in stops(name) : first_stop(name) <= j
    BY <1>4, ZenonT(30) DEF first_stop
<1>6. first_stop(name) \in TableSlots /\ ~Passes(name, first_stop(name))
    BY <1>5, ZenonT(30) DEF stops, Passes
<1>7. ASSUME NEW j \in 0 .. first_stop(name) - 1 PROVE Passes(name, j)
    <2>1. j \in TableSlots /\ j < first_stop(name)
        BY <1>6, SymbolSlotsAssumption DEF TableSlots
    <2>2. j \notin stops(name)
        BY <1>1, <1>5, <2>1
    <2> QED BY <2>1, <2>2, ZenonT(30) DEF stops, Passes
<1>8. slot_for(name) \in TableSlots
    BY <1>6, ProbesReachAll, ZenonT(30) DEF SymbolTypeOK, slot_for
<1> QED BY <1>6, <1>7, <1>8, ZenonT(30)

(* A name that has a slot is found in it, and in no other. *)
LEMMA NameIsFound ==
    ASSUME SymbolTypeOK, ChainsOK, NEW i \in TableSlots, symbols[i].used
    PROVE  stops(symbols[i].name) # {} /\ slot_for(symbols[i].name) = i
<1> DEFINE name == symbols[i].name
<1>1. name \in SymbolNames
    BY ZenonT(30) DEF ChainsOK
<1>2. PICK k \in TableSlots : probe(name, k) = i /\ \A j \in 0 .. k - 1 : Passes(name, j)
    BY ZenonT(30) DEF ChainsOK
<1>3. k \in stops(name)
    BY <1>2, ZenonT(30) DEF stops
<1>4. first_stop(name) \in TableSlots /\ ~Passes(name, first_stop(name))
      /\ \A j \in 0 .. first_stop(name) - 1 : Passes(name, j)
    BY <1>1, <1>3, SearchStops, ZenonT(30)
<1>5. ~Passes(name, k)
    BY <1>2, ZenonT(30) DEF Passes
<1>6. first_stop(name) = k
    <2>1. first_stop(name) \in Nat /\ k \in Nat
        BY <1>4, SymbolSlotsAssumption DEF TableSlots
    <2>2. ~(first_stop(name) < k) /\ ~(k < first_stop(name))
        BY <1>2, <1>4, <1>5, <2>1
    <2> QED BY <2>1, <2>2
<1> QED BY <1>2, <1>3, <1>6, ZenonT(30) DEF slot_for

(* The search finds what a name was last bound to. *)
LEMMA InvLookup ==
    ASSUME SymbolTypeOK, ChainsOK
    PROVE  LookupIsLatest
<1> SUFFICES ASSUME NEW name \in SymbolNames PROVE lookup_symbol(name) = bound[name]
    BY ZenonT(30) DEF LookupIsLatest
<1>1. CASE bound[name] # NoValue
    <2>1. PICK i \in TableSlots : symbols[i].used /\ symbols[i].name = name
        BY <1>1, ZenonT(30) DEF ChainsOK
    <2>2. stops(name) # {} /\ slot_for(name) = i
        BY <2>1, NameIsFound, ZenonT(30)
    <2>3. symbols[i].value = bound[name]
        BY <2>1, ZenonT(30) DEF ChainsOK
    <2> QED BY <2>1, <2>2, <2>3, ZenonT(30) DEF lookup_symbol
<1>2. CASE bound[name] = NoValue
    <2>1. \A i \in TableSlots : symbols[i].used => symbols[i].name # name
        BY <1>2, SymbolsAssumption, ZenonT(30) DEF ChainsOK
    <2>2. ASSUME stops(name) # {} PROVE ~symbols[slot_for(name)].used
        BY <2>1, <2>2, SearchStops, ZenonT(30) DEF Passes, slot_for
    <2> QED BY <1>2, <2>2, ZenonT(30) DEF lookup_symbol
<1> QED BY <1>1, <1>2, ZenonT(30)

(* The table starts empty. *)
LEMMA SymbolInvInit == SymbolInit => SymbolInv
<1> SUFFICES ASSUME SymbolInit PROVE SymbolInv
    BY ZenonT(30)
<1>1. SymbolTypeOK
    BY ZenonT(30) DEF SymbolInit, SymbolTypeOK, Unused
<1>2. ChainsOK
    BY ZenonT(30) DEF SymbolInit, ChainsOK, Unused
<1> QED BY <1>1, <1>2, ZenonT(30) DEF SymbolInit, SymbolInv, RefusedOnlyWhenFull

(* A binding takes the slot of its name or one that no chain has passed.     *)
LEMMA LetKeeps ==
    ASSUME SymbolInv, NEW name \in SymbolNames, NEW value \in Values, Let(name, value)
    PROVE  SymbolInv'
<1> USE DEF SymbolInv
<1>1. PICK f \in TableSlots, s \in TableSlots :
          /\ f = first_stop(name) /\ s = slot_for(name) /\ s = probe(name, f)
          /\ ~Passes(name, f) /\ \A j \in 0 .. f - 1 : Passes(name, j)
    BY SearchStops, ZenonT(30) DEF Let, can_insert, slot_for
<1>2. /\ symbols' = [symbols EXCEPT ![s] = [used |-> TRUE, name |-> name, value |-> value]]
      /\ bound' = [bound EXCEPT ![name] = value] /\ refused' = refused \ {name} /\ hash' = hash
    BY <1>1, ZenonT(30) DEF Let, insert_symbol
<1>3. \A n \in SymbolNames, k \in TableSlots : probe(n, k)' = probe(n, k) /\ probe(n, k) \in TableSlots
    BY <1>2, ProbesReachAll, ZenonT(30) DEF probe, SymbolTypeOK
<1>4. /\ DOMAIN symbols = TableSlots
      /\ symbols'[s] = [used |-> TRUE, name |-> name, value |-> value]
      /\ \A i \in TableSlots \ {s} : symbols'[i] = symbols[i]
    BY <1>2, ZenonT(30) DEF SymbolTypeOK
<1>5. bound'[name] = value /\ \A n \in SymbolNames \ {name} : bound'[n] = bound[n]
    BY <1>2, ZenonT(30) DEF SymbolTypeOK
<1>6. symbols[s].used => symbols[s].name = name
    BY <1>1, ZenonT(30) DEF Passes
<1>7. \A i \in TableSlots \ {s} : symbols[i].used => symbols[i].name # name
    <2> SUFFICES ASSUME NEW i \in TableSlots \ {s}, symbols[i].used, symbols[i].name = name PROVE FALSE
        BY ZenonT(30)
    <2> QED BY <1>1, NameIsFound, ZenonT(30)
<1>8. ASSUME NEW n \in SymbolNames, NEW k \in TableSlots, Passes(n, k) PROVE Passes(n, k)'
    <2>1. CASE probe(n, k) # s
        BY <1>3, <1>4, <1>8, <2>1, ZenonT(30) DEF Passes
    <2>2. CASE probe(n, k) = s
        BY <1>3, <1>4, <1>6, <1>8, <2>2 DEF Passes
    <2> QED BY <2>1, <2>2, ZenonT(30)
<1>9. SymbolTypeOK'
    BY <1>2, ZenonT(30) DEF SymbolTypeOK
<1>10. ChainsOK'
    <2>1. ASSUME NEW i \in TableSlots, symbols'[i].used
          PROVE  /\ symbols'[i].name \in SymbolNames
                 /\ symbols'[i].value \in Values /\ symbols'[i].value = bound'[symbols'[i].name]
                 /\ \E k \in TableSlots : /\ probe(symbols[i].name, k)' = i
                                          /\ \A j \in 0 .. k - 1 : Passes(symbols[i].name, j)'
        <3>1. CASE i = s
            <4>1. \A j \in 0 .. f - 1 : j \in TableSlots
                BY SymbolSlotsAssumption DEF TableSlots
            <4>2. \A j \in 0 .. f - 1 : Passes(name, j)'
                BY <1>1, <1>8, <4>1, ZenonT(30)
            <4>3. probe(name, f)' = s
                BY <1>1, <1>3, ZenonT(30)
            <4>4. symbols'[i].name = name
                BY <1>4, <3>1
            <4>5. symbols'[i].value = value /\ bound'[symbols'[i].name] = value
                BY <1>4, <1>5, <3>1
            <4>6. \E k \in TableSlots : probe(symbols[i].name, k)' = i
                                        /\ \A j \in 0 .. k - 1 : Passes(symbols[i].name, j)'
                BY <3>1, <4>2, <4>3, <4>4, ZenonT(30) DEF Passes, probe
            <4> QED BY <4>4, <4>5, <4>6, ZenonT(30)
        <3>2. CASE i # s
            <4>1. symbols'[i] = symbols[i] /\ symbols[i].used
                BY <1>4, <2>1, <3>2, ZenonT(30)
            <4>2. symbols[i].name # name /\ symbols[i].name \in SymbolNames
                BY <1>7, <3>2, <4>1, ZenonT(30) DEF ChainsOK
            <4>3. PICK k \in TableSlots : /\ probe(symbols[i].name, k) = i
                                          /\ \A j \in 0 .. k - 1 : Passes(symbols[i].name, j)
                BY <4>1, ZenonT(30) DEF ChainsOK
            <4>4. PICK n \in SymbolNames : n = symbols[i].name
                BY <4>2, ZenonT(30)
            <4>5. \A j \in 0 .. k - 1 : j \in TableSlots
                BY SymbolSlotsAssumption DEF TableSlots
            <4>6. probe(n, k)' = i /\ \A j \in 0 .. k - 1 : Passes(n, j)'
                BY <1>3, <1>8, <4>3, <4>4, <4>5, ZenonT(30)
            <4>7. symbols'[i].name = n
                BY <4>1, <4>4, ZenonT(30)
            <4>8. n # name /\ symbols'[i].value \in Values /\ symbols'[i].value = bound'[n]
                <5>1. symbols[i].value \in Values /\ symbols[i].value = bound[n]
                    BY <4>1, <4>4, ZenonT(30) DEF ChainsOK
                <5> QED BY <1>5, <4>1, <4>2, <4>4, <5>1, ZenonT(30)
            <4>9. \E m \in TableSlots : probe(symbols[i].name, m)' = i
                                        /\ \A j \in 0 .. m - 1 : Passes(symbols[i].name, j)'
                BY <4>6, <4>7, ZenonT(30) DEF Passes, probe
            <4> QED BY <4>7, <4>8, <4>9, ZenonT(30)
        <3> QED BY <3>1, <3>2, ZenonT(30)
    <2>2. ASSUME NEW n \in SymbolNames, bound'[n] # NoValue
          PROVE  \E i \in TableSlots : symbols'[i].used /\ symbols'[i].name = n
        <3>1. CASE n = name
            BY <1>4, <3>1
        <3>2. CASE n # name
            <4>1. PICK i \in TableSlots : symbols[i].used /\ symbols[i].name = n
                BY <1>5, <2>2, <3>2, ZenonT(30) DEF ChainsOK
            <4>2. i # s
                BY <1>6, <3>2, <4>1, ZenonT(30)
            <4> QED BY <1>4, <4>1, <4>2, ZenonT(30)
        <3> QED BY <3>1, <3>2, ZenonT(30)
    <2> QED BY <2>1, <2>2, ZenonT(30) DEF ChainsOK
<1>11. RefusedOnlyWhenFull'
    <2> SUFFICES ASSUME NEW n \in refused' PROVE bound'[n] = NoValue /\ \A i \in TableSlots : symbols'[i].used
        BY ZenonT(30) DEF RefusedOnlyWhenFull
    <2>1. n \in refused /\ n # name /\ n \in SymbolNames
        BY <1>2, ZenonT(30) DEF SymbolTypeOK
    <2> QED BY <1>4, <1>5, <2>1 DEF RefusedOnlyWhenFull
<1> QED BY <1>9, <1>10, <1>11, ZenonT(30)

(* The chains depend on nothing but the table and the bindings. *)
LEMMA ChainsStay ==
    ASSUME ChainsOK, UNCHANGED <<symbols, hash, bound>>
    PROVE  ChainsOK'
<1>1. \A i \in TableSlots : \A k : probe(symbols[i].name, k)' = i <=> probe(symbols[i].name, k) = i
    BY ZenonT(30) DEF probe
<1>2. \A i \in TableSlots : \A j : Passes(symbols[i].name, j)' <=> Passes(symbols[i].name, j)
    BY ZenonT(30) DEF Passes, probe
<1> QED BY <1>1, <1>2 DEF ChainsOK

(* A refusal has looked at every slot. *)
LEMMA LetRefusedKeeps ==
    ASSUME SymbolInv, NEW name \in SymbolNames, LetRefused(name)
    PROVE  SymbolInv'
<1> USE DEF SymbolInv
<1>1. stops(name) = {} /\ refused' = refused \cup {name} /\ UNCHANGED <<symbols, hash, bound>>
    BY ZenonT(30) DEF LetRefused, can_insert
<1>2. SymbolTypeOK' /\ ChainsOK'
    BY <1>1, ChainsStay, ZenonT(30) DEF SymbolTypeOK
<1>3. \A i \in TableSlots : symbols[i].used /\ symbols[i].name # name
    BY <1>1, ProbesReachAll, ZenonT(30) DEF SymbolTypeOK, stops
<1>4. bound[name] = NoValue
    BY <1>3, ZenonT(30) DEF ChainsOK
<1> QED BY <1>1, <1>2, <1>3, <1>4, ZenonT(30) DEF RefusedOnlyWhenFull

(* Every `let' keeps the invariant. *)
LEMMA SymbolInvStep == SymbolInv /\ [SymbolNext]_symbolVars => SymbolInv'
<1> SUFFICES ASSUME SymbolInv, [SymbolNext]_symbolVars PROVE SymbolInv'
    BY ZenonT(30)
<1>1. CASE UNCHANGED symbolVars
    BY <1>1, ChainsStay, ZenonT(30) DEF symbolVars, SymbolInv, SymbolTypeOK, RefusedOnlyWhenFull
<1> QED BY <1>1, LetKeeps, LetRefusedKeeps, ZenonT(30) DEF SymbolNext

(* lookup_symbol returns the value of the last `let' of the name, for every  *)
(* hash function and any size of the table.                                  *)
THEOREM LookupsAreLatest == SymbolSpec => []LookupIsLatest
<1>1. SymbolInv => LookupIsLatest
    BY InvLookup, ZenonT(30) DEF SymbolInv
<1> QED BY SymbolInvInit, SymbolInvStep, <1>1, PTL DEF SymbolSpec

(* insert_symbol returns SymbolTableFull only for a new name and a full      *)
(* table.                                                                    *)
THEOREM RefusesOnlyWhenFull == SymbolSpec => []RefusedOnlyWhenFull
<1>1. SymbolInv => RefusedOnlyWhenFull
    BY ZenonT(30) DEF SymbolInv
<1> QED BY SymbolInvInit, SymbolInvStep, <1>1, PTL DEF SymbolSpec

-----------------------------------------------------------------------------
(* The program store, for any number and size of slots and any bodies and    *)
(* names that fit, any contents at power-on and a reset between any two      *)
(* writes.                                                                   *)

(* What begins like a compiled body and goes on with what was found.         *)
GoodBody(b) == \E whole \in compiled \cup {<<>>} : TornFrom(b, whole)
Words == {b \in Seq(Nat) : Len(b) <= FnBodyWords}

Saves == [slot : Slots, name : Names, words : Words, pc : {"name", "len", "words"}, at : Nat]

StoreTypeOK ==
    /\ fns \in [FnSlots -> [name : Names \cup {NoName}, len : Nat, body : Words]]
    /\ window \in [Slots -> SlotRecords]
    /\ found \in [Slots -> SlotRecords]
    /\ compiled \subseteq Bodies

(* A slot holds a body. *)
Holds(w, b) == w.len = Len(b) /\ \A k \in 1 .. Len(b) : w.words[k] = b[k]

(* Strengthening: a slot that is not in use was never written, and the words *)
(* of every slot are good, also while they are being written.                *)
WindowOK ==
    /\ \A i \in Slots : ~occupied(i) => window[i] = found[i]
    /\ \A i \in Slots : GoodBody(window[i].words)

(* How far the save in progress has come. *)
NameWritten(n) == \A k \in 1 .. n : window[saving.slot].name[k] = saving.name[k]
WordsWritten(n) ==
    \A k \in 1 .. SlotWords :
        window[saving.slot].words[k] = IF k <= n THEN saving.words[k] ELSE found[saving.slot].words[k]
SavingOK ==
    /\ saving.pc \in {"idle", "name", "len", "words"}
    /\ saving.pc = "idle" => saving = Idle
    /\ saving.pc # "idle" =>
           /\ saving \in Saves
           /\ GoodBody(saving.words)
           /\ window[saving.slot].name_len = Len(saving.name)
    /\ saving.pc = "name" => saving.at \in 1 .. Len(saving.name) /\ NameWritten(saving.at - 1)
    /\ saving.pc \in {"len", "words"} => NameWritten(Len(saving.name))
    /\ saving.pc \in {"name", "len"} => WordsWritten(0)
    /\ saving.pc = "len" => saving.at = 1
    /\ saving.pc = "words" => /\ saving.at \in 1 .. Len(saving.words)
                              /\ window[saving.slot].len = Len(saving.words)
                              /\ WordsWritten(saving.at - 1)

StoreInv == StoreTypeOK /\ NoMixedBodies /\ WindowOK /\ SavingOK

-----------------------------------------------------------------------------
(* What is written of a sequence, read up to its length. *)
LEMMA PrefixIs ==
    ASSUME NEW S, NEW b \in Seq(S), NEW s, \A k \in 1 .. Len(b) : s[k] = b[k]
    PROVE  SubSeq(s, 1, Len(b)) = b
<1>1. Len(b) \in Nat /\ \A k \in 1 .. Len(b) : s[k] \in S
    BY LenProperties, ElementOfSeq, ZenonT(30)
<1>2. Len(b) \in Int /\ 1 \in Int
    BY <1>1
<1>3. /\ SubSeq(s, 1, Len(b)) \in Seq(S)
      /\ Len(SubSeq(s, 1, Len(b))) = IF 1 <= Len(b) THEN Len(b) - 1 + 1 ELSE 0
      /\ \A k \in 1 .. Len(b) - 1 + 1 : SubSeq(s, 1, Len(b))[k] = s[1 + k - 1]
    BY ONLY <1>1, <1>2, SubSeqProperties, SMTT(30)
<1>4. /\ Len(SubSeq(s, 1, Len(b))) = Len(b)
      /\ \A k \in 1 .. Len(b) : SubSeq(s, 1, Len(b))[k] = b[k]
    BY <1>1, <1>3
<1> QED BY <1>3, <1>4, SeqEqual, ZenonT(30)

(* A good body stays good: bodies are only added, and what was found is past *)
(* changing.                                                                 *)
LEMMA GoodStays ==
    ASSUME compiled \subseteq compiled', found' = found
    PROVE  \A b : GoodBody(b) => GoodBody(b)'
<1>1. \A j : FoundWords(j)' = FoundWords(j)
    BY ZenonT(30) DEF FoundWords
<1>2. \A b, whole : TornFrom(b, whole) => TornFrom(b, whole)'
    BY <1>1, ZenonT(30) DEF TornFrom
<1> QED BY <1>2, ZenonT(30) DEF GoodBody

(* A compiled body has a length. *)
LEMMA WholeLength ==
    ASSUME StoreTypeOK, NEW whole \in compiled \cup {<<>>}
    PROVE  Len(whole) \in Nat
<1>1. whole \in Seq(Nat)
    BY BodiesAssumption, EmptySeq, ZenonT(30) DEF StoreTypeOK
<1> QED BY <1>1, LenProperties, ZenonT(30)

(* What was found in the slot is good. *)
LEMMA FoundIsGood ==
    ASSUME NEW s \in Slots
    PROVE  GoodBody(found[s].words)
<1>1. \A j : found[s].words[j] \in FoundWords(j)
    BY ZenonT(30) DEF FoundWords
<1>2. 0 \in 0 .. Len(<<>>) /\ \A j \in 1 .. Len(found[s].words) : ~(j <= 0)
    OBVIOUS
<1>3. TornFrom(found[s].words, <<>>)
    BY <1>1, <1>2, ZenonT(30) DEF TornFrom
<1> QED BY <1>3, ZenonT(30) DEF GoodBody

(* A good body written up to n over what was found. *)
LEMMA PartWritten ==
    ASSUME StoreTypeOK, NEW b \in Words, GoodBody(b), NEW n \in 0 .. Len(b), NEW s \in Slots,
           NEW w \in [1 .. SlotWords -> Nat],
           \A k \in 1 .. SlotWords : w[k] = IF k <= n THEN b[k] ELSE found[s].words[k]
    PROVE  GoodBody(w)
<1>1. PICK whole \in compiled \cup {<<>>} : TornFrom(b, whole)
    BY ZenonT(30) DEF GoodBody
<1>2. PICK m \in 0 .. Len(whole) :
          \A j \in 1 .. Len(b) : IF j <= m THEN b[j] = whole[j] ELSE b[j] \in FoundWords(j)
    BY <1>1, ZenonT(30) DEF TornFrom
<1>3. Len(whole) \in Nat /\ Len(b) \in Nat /\ Len(w) = SlotWords /\ SlotWords \in Nat
    BY WholeLength, LenProperties, SizesAssumption DEF Words
<1>4. \A j : found[s].words[j] \in FoundWords(j)
    BY ZenonT(30) DEF FoundWords
<1>5. PICK l \in 0 .. Len(whole) : l <= m /\ l <= n /\ (l = m \/ l = n)
    BY <1>3
<1>6. ASSUME NEW j \in 1 .. SlotWords
      PROVE  IF j <= l THEN w[j] = whole[j] ELSE w[j] \in FoundWords(j)
    <2>1. CASE j <= n
        <3>1. w[j] = b[j] /\ j \in 1 .. Len(b) /\ (j <= l <=> j <= m)
            BY <1>3, <1>5, <2>1
        <3> QED BY <1>2, <3>1, ZenonT(30)
    <2>2. CASE ~(j <= n)
        <3>1. w[j] = found[s].words[j] /\ ~(j <= l)
            BY <1>3, <1>5, <2>2
        <3> QED BY <1>4, <3>1, ZenonT(30)
    <2> QED BY <2>1, <2>2, ZenonT(30)
<1>7. TornFrom(w, whole)
    BY <1>3, <1>6, ZenonT(30) DEF TornFrom
<1> QED BY <1>7, ZenonT(30) DEF GoodBody

(* A function gets the first free slot of the table. *)
LEMMA SlotIsFree ==
    ASSUME NEW name \in Names, can_alloc(name)
    PROVE  alloc_fn_slot \in FnSlots /\ ~fn_allocated(alloc_fn_slot)
<1> DEFINE S == {i \in FnSlots : ~fn_allocated(i)}
<1>1. S # {} /\ S \subseteq Nat
    BY MaxFnsAssumption DEF can_alloc, FnSlots
<1>2. PICK m \in S : \A u \in S : ~(<<u, m>> \in OpToRel(<, Nat))
    BY <1>1, NatLessThanWellFounded, WFMin, ZenonT(30)
<1>3. \A u \in S : ~(u < m)
    BY <1>1, <1>2, ZenonT(30) DEF OpToRel
<1> HIDE DEF S
<1>4. m \in Nat /\ \A u \in S : u \in Nat /\ m <= u
    BY <1>1, <1>3
<1>5. \E i \in FnSlots : ~fn_allocated(i) /\ \A j \in FnSlots : ~fn_allocated(j) => i <= j
    BY <1>4, ZenonT(30) DEF S
<1> QED BY <1>5, ZenonT(30) DEF alloc_fn_slot

(* A new function whose body is good leaves the table good. *)
LEMMA InstallKeeps ==
    ASSUME StoreInv, NEW name \in Names, NEW body \in Words, GoodBody(body)', can_alloc(name),
           install_fn(name, Len(body), body), compiled \subseteq compiled',
           compiled' \subseteq Bodies, UNCHANGED <<window, saving, found>>
    PROVE  StoreInv'
<1> USE DEF StoreInv
<1>1. \A b : GoodBody(b) => GoodBody(b)'
    BY GoodStays, ZenonT(30)
<1>2. StoreTypeOK'
    <2>1. [name |-> name, len |-> Len(body), body |-> body] \in [name : Names \cup {NoName}, len : Nat, body : Words]
        BY LenProperties, ZenonT(30) DEF Words
    <2> QED BY <2>1, SlotIsFree, ZenonT(30) DEF install_fn, StoreTypeOK
<1>3. NoMixedBodies'
    <2> SUFFICES ASSUME NEW i \in FnSlots, fn_allocated(i)' PROVE GoodBody(fns[i].body)'
        BY ZenonT(30) DEF NoMixedBodies, GoodBody
    <2>1. CASE i = alloc_fn_slot
        <3>1. fns'[i].body = body
            BY <2>1, ZenonT(30) DEF install_fn, StoreTypeOK
        <3> QED BY <3>1, ZenonT(30) DEF GoodBody
    <2>2. CASE i # alloc_fn_slot
        <3>1. fns'[i] = fns[i] /\ fn_allocated(i)
            BY <2>2, ZenonT(30) DEF install_fn, StoreTypeOK, fn_allocated
        <3>2. GoodBody(fns[i].body)
            BY <3>1, ZenonT(30) DEF NoMixedBodies, GoodBody
        <3> QED BY <1>1, <3>1, <3>2, ZenonT(30)
    <2> QED BY <2>1, <2>2, ZenonT(30)
<1>4. WindowOK'
    BY <1>1, ZenonT(30) DEF WindowOK, occupied
<1>5. SavingOK'
    BY <1>1, ZenonT(30) DEF SavingOK, NameWritten, WordsWritten
<1> QED BY <1>2, <1>3, <1>4, <1>5, ZenonT(30)

(* The sizes, and the length of a name. *)
LEMMA StoreSizes ==
    /\ NameMax \in Nat /\ MaxPrograms \in Nat /\ SlotWords \in Nat /\ FnBodyWords \in Nat
    /\ FnBodyWords < SlotWords /\ 0 \in 0 .. FnBodyWords /\ 0 \in 0 .. NameMax
    /\ \A name \in Names : name \in Seq(Nat \ {0}) /\ Len(name) \in 1 .. NameMax
BY SizesAssumption, FnBodyWordsAssumption, StoreNamesAssumption

(* Power-on. *)
LEMMA StoreInvInit == Init => StoreInv
<1> SUFFICES ASSUME Init PROVE StoreInv
    BY ZenonT(30)
<1>1. <<>> \in Words
    BY StoreSizes, EmptySeq DEF Words
<1>2. window \in [Slots -> SlotRecords] /\ found = window
    BY PowerOnAssumption, ZenonT(30) DEF Init
<1>3. StoreTypeOK
    BY <1>1, <1>2, ZenonT(30) DEF Init, StoreTypeOK, NoFns, FreeSlot
<1>4. NoMixedBodies
    BY ZenonT(30) DEF Init, NoMixedBodies, NoFns, FreeSlot, fn_allocated
<1>5. WindowOK
    BY <1>2, FoundIsGood, ZenonT(30) DEF WindowOK
<1> QED BY <1>3, <1>4, <1>5, ZenonT(30) DEF Init, StoreInv, SavingOK, Idle

(* What export_fn finds. *)
LEMMA FoundBody ==
    ASSUME StoreInv, NEW name \in Names, defined(name)
    PROVE  fns[find_fn(name)].body \in Words /\ GoodBody(fns[find_fn(name)].body)
<1> DEFINE S == {i \in FnSlots : fns[i].name = name}
<1>1. S # {} /\ S \subseteq Nat
    BY MaxFnsAssumption DEF defined, FnSlots
<1>2. PICK m \in S : \A u \in S : ~(<<u, m>> \in OpToRel(<, Nat))
    BY <1>1, NatLessThanWellFounded, WFMin, ZenonT(30)
<1>3. \A u \in S : ~(u < m)
    BY <1>1, <1>2, ZenonT(30) DEF OpToRel
<1> HIDE DEF S
<1>4. m \in Nat /\ \A u \in S : u \in Nat /\ m <= u
    BY <1>1, <1>3
<1>5. \E i \in FnSlots : fns[i].name = name /\ \A j \in FnSlots : fns[j].name = name => i <= j
    BY <1>4, ZenonT(30) DEF S
<1>6. find_fn(name) \in FnSlots /\ fns[find_fn(name)].name = name
    BY <1>5, ZenonT(30) DEF find_fn
<1>7. fn_allocated(find_fn(name))
    BY <1>6, NamesAssumption, ZenonT(30) DEF fn_allocated
<1> QED BY <1>6, <1>7, ZenonT(30) DEF StoreInv, StoreTypeOK, NoMixedBodies, GoodBody

(* fn: what is compiled is a good body. *)
LEMMA DefineKeeps ==
    ASSUME StoreInv, NEW name \in Names, NEW body \in Bodies, Define(name, body)
    PROVE  StoreInv'
<1>1. body \in Words /\ Len(body) \in Nat
    BY BodiesAssumption, LenProperties, ZenonT(30) DEF Words
<1>2. body \in compiled' /\ compiled \subseteq compiled' /\ compiled' \subseteq Bodies
    BY ZenonT(30) DEF Define, StoreInv, StoreTypeOK
<1>3. Len(body) \in 0 .. Len(body) /\ \A j \in 1 .. Len(body) : j <= Len(body)
    BY <1>1
<1>4. TornFrom(body, body)'
    BY <1>3, ZenonT(30) DEF TornFrom
<1>5. GoodBody(body)'
    BY <1>2, <1>4, ZenonT(30) DEF GoodBody
<1> QED BY <1>1, <1>2, <1>5, InstallKeeps, ZenonT(30) DEF Define

(* load: the words up to the length begin like those of the slot. *)
LEMMA LoadKeeps ==
    ASSUME StoreInv, NEW name \in Names, Load(name)
    PROVE  StoreInv'
<1>1. PICK i \in Slots : /\ window[i].len <= FnBodyWords
                         /\ install_fn(name, Len(stored_body(i)), stored_body(i))
    BY ZenonT(30) DEF Load
<1>2. PICK w \in [1 .. SlotWords -> Nat], n \in Nat :
          w = window[i].words /\ n = window[i].len /\ n <= FnBodyWords /\ GoodBody(w)
    BY <1>1, ZenonT(30) DEF StoreInv, StoreTypeOK, SlotRecords, WindowOK
<1>3. PICK whole \in compiled \cup {<<>>} : TornFrom(w, whole)
    BY <1>2, ZenonT(30) DEF GoodBody
<1>4. PICK m \in 0 .. Len(whole) :
          \A j \in 1 .. Len(w) : IF j <= m THEN w[j] = whole[j] ELSE w[j] \in FoundWords(j)
    BY <1>3, ZenonT(30) DEF TornFrom
<1>5. Len(w) = SlotWords /\ n <= SlotWords /\ w \in Seq(Nat)
    BY <1>2, StoreSizes, SeqDef
<1> DEFINE b == SubSeq(w, 1, n)
<1>6. b \in Seq(Nat) /\ Len(b) = n /\ \A j \in 1 .. n : b[j] = w[j] /\ j \in 1 .. Len(w)
    BY <1>5, StoreSizes
<1>7. stored_body(i) = b
    BY <1>2, ZenonT(30) DEF stored_body
<1> HIDE DEF b
<1>8. TornFrom(b, whole)
    BY <1>4, <1>6, ZenonT(30) DEF TornFrom
<1>9. /\ b \in Words /\ GoodBody(b)
      /\ UNCHANGED <<window, saving, compiled, found>> /\ compiled \subseteq Bodies
    BY <1>2, <1>6, <1>8, ZenonT(30) DEF Words, GoodBody, Load, StoreInv, StoreTypeOK
<1>10. compiled \subseteq compiled' /\ compiled' \subseteq Bodies /\ GoodBody(b)'
    BY <1>9, GoodStays, ZenonT(30)
<1> QED BY <1>1, <1>7, <1>9, <1>10, InstallKeeps, ZenonT(30) DEF Load

(* store: the slot was never written, so the save starts from what was       *)
(* found there.                                                              *)
LEMMA StoreKeeps ==
    ASSUME StoreInv, NEW name \in Names, Store(name)
    PROVE  StoreInv'
<1> USE DEF StoreInv
<1>1. PICK i \in Slots, body \in Words :
          /\ ~occupied(i) /\ GoodBody(body)
          /\ saving' = [slot |-> i, name |-> name, words |-> body, pc |-> "name", at |-> 1]
          /\ window' = [window EXCEPT ![i].name_len = Len(name)]
          /\ UNCHANGED <<fns, compiled, found>>
    BY FoundBody, ZenonT(30) DEF Store, free_slots
<1>2. window[i] = found[i] /\ window[i] \in SlotRecords
    BY <1>1, ZenonT(30) DEF WindowOK, StoreTypeOK
<1>3. Len(name) \in 1 .. NameMax /\ Len(name) \in Nat
    BY StoreSizes
<1>4. /\ window' \in [Slots -> SlotRecords]
      /\ window'[i] = [window[i] EXCEPT !.name_len = Len(name)]
      /\ \A j \in Slots \ {i} : window'[j] = window[j]
    <2> DEFINE new == [window[i] EXCEPT !.name_len = Len(name)]
    <2>1. new \in SlotRecords
        BY <1>2, <1>3, ZenonT(30) DEF SlotRecords
    <2>2. window' = [window EXCEPT ![i] = new]
        BY <1>1, ZenonT(30) DEF StoreTypeOK
    <2> HIDE DEF new
    <2>3. window' \in [Slots -> SlotRecords] /\ window'[i] = new /\ \A j \in Slots \ {i} : window'[j] = window[j]
        BY <2>1, <2>2, ZenonT(30) DEF StoreTypeOK
    <2> QED BY <2>3, ZenonT(30) DEF new
<1>5. window'[i].name_len = Len(name) /\ window'[i].words = found[i].words
    BY <1>2, <1>4, ZenonT(30) DEF SlotRecords
<1>6. StoreTypeOK'
    BY <1>1, <1>4, ZenonT(30) DEF StoreTypeOK
<1>7. \A b : GoodBody(b) => GoodBody(b)'
    BY <1>1, GoodStays, ZenonT(30)
<1>8. NoMixedBodies'
    BY <1>1, <1>7, ZenonT(30) DEF NoMixedBodies, GoodBody, fn_allocated
<1>9. WindowOK'
    <2>1. GoodBody(window[i].words)'
        BY <1>5, <1>7, FoundIsGood, ZenonT(30)
    <2>2. occupied(i)'
        BY <1>3, <1>5, ZenonT(30) DEF occupied
    <2>3. ASSUME NEW j \in Slots \ {i}
          PROVE  (~occupied(j)' => window'[j] = found[j]) /\ GoodBody(window[j].words)'
        BY <1>4, <1>7, ZenonT(30) DEF WindowOK, occupied
    <2> QED BY <1>1, <2>1, <2>2, <2>3, ZenonT(30) DEF WindowOK
<1>10. SavingOK'
    <2>1. /\ saving'.slot = i /\ saving'.name = name /\ saving'.words = body
          /\ saving'.pc = "name" /\ saving'.at = 1
          /\ saving' \in Saves
        BY <1>1, ZenonT(30) DEF Saves
    <2>2. NameWritten(saving.at - 1)'
        BY <2>1 DEF NameWritten
    <2>3. WordsWritten(0)'
        <3>1. \A k \in 1 .. SlotWords : ~(k <= 0)
            OBVIOUS
        <3>2. found' = found
            BY <1>1, ZenonT(30)
        <3> QED BY <1>5, <2>1, <3>1, <3>2, ZenonT(30) DEF WordsWritten
    <2>4. GoodBody(saving.words)'
        BY <1>1, <1>7, <2>1, ZenonT(30)
    <2>5. saving'.at \in 1 .. Len(saving'.name) /\ window'[saving'.slot].name_len = Len(saving'.name)
        BY <1>3, <1>5, <2>1
    <2> QED BY <2>1, <2>2, <2>3, <2>4, <2>5, ZenonT(30) DEF SavingOK
<1> QED BY <1>6, <1>8, <1>9, <1>10, ZenonT(30)

(* A step of a save: it leaves the name's length, and with it all other      *)
(* slots and the claim on this one, alone.                                   *)
LEMMA SaveStepKeeps ==
    ASSUME StoreInv, saving.pc # "idle", UNCHANGED <<fns, compiled, found>>,
           window' \in [Slots -> SlotRecords],
           \A j \in Slots \ {saving.slot} : window'[j] = window[j],
           window'[saving.slot].name_len = window[saving.slot].name_len,
           GoodBody(window'[saving.slot].words)
    PROVE  /\ StoreTypeOK' /\ NoMixedBodies' /\ WindowOK'
           /\ \A b : GoodBody(b) => GoodBody(b)'
<1> USE DEF StoreInv
<1>1. StoreTypeOK'
    BY ZenonT(30) DEF StoreTypeOK
<1>2. \A b : GoodBody(b) => GoodBody(b)'
    BY GoodStays, ZenonT(30)
<1>3. NoMixedBodies'
    BY <1>2, ZenonT(30) DEF NoMixedBodies, GoodBody, fn_allocated
<1>4. saving.slot \in Slots /\ window'[saving.slot].name_len \in 1 .. NameMax
    BY StoreSizes, ZenonT(30) DEF SavingOK, Saves
<1>5. WindowOK'
    <2>1. ASSUME NEW i \in Slots, ~occupied(i)' PROVE window'[i] = found[i]
        BY <1>4, <2>1, ZenonT(30) DEF WindowOK, occupied
    <2>2. ASSUME NEW i \in Slots PROVE GoodBody(window[i].words)'
        <3>1. CASE i = saving.slot
            BY <1>2, <3>1, ZenonT(30)
        <3>2. CASE i # saving.slot
            BY <1>2, <3>2, ZenonT(30) DEF WindowOK
        <3> QED BY <3>1, <3>2, ZenonT(30)
    <2> QED BY <2>1, <2>2, ZenonT(30) DEF WindowOK
<1> QED BY <1>1, <1>2, <1>3, <1>5, ZenonT(30)

(* What is left of a length whose low bytes are cleared is a number. *)
LEMMA ClearedIsNat ==
    ASSUME NEW n \in Nat, NEW bytes \in Int
    PROVE  clear_low(n, bytes) \in Nat
<1>1. n - (n % 256) \in Nat /\ n - (n % 65536) \in Nat /\ n - (n % 16777216) \in Nat
    OBVIOUS
<1>2. CASE bytes = 1
    BY <1>1, <1>2 DEF clear_low
<1>3. CASE bytes = 2
    BY <1>1, <1>3 DEF clear_low
<1>4. CASE bytes = 3
    BY <1>1, <1>4 DEF clear_low
<1>5. CASE bytes \notin 1 .. 3
    BY <1>5 DEF clear_low
<1> QED BY <1>2, <1>3, <1>4, <1>5

(* One byte of the name. *)
LEMMA SaveNameKeeps ==
    ASSUME StoreInv, SaveName
    PROVE  StoreInv'
<1> USE DEF StoreInv
<1>1. PICK s \in Slots, name \in Names, at \in Nat :
          /\ s = saving.slot /\ name = saving.name /\ at = saving.at
          /\ at \in 1 .. Len(name) /\ Len(name) \in 1 .. NameMax /\ name[at] \in Nat
          /\ saving.words \in Words /\ GoodBody(saving.words)
          /\ saving \in Saves
          /\ saving.pc = "name"
    <2>1. saving.name \in Names /\ saving.at \in 1 .. Len(saving.name) /\ saving.slot \in Slots
        BY ZenonT(30) DEF SaveName, SavingOK, Saves
    <2>2. saving.name[saving.at] \in Nat
        BY <2>1, StoreSizes, ElementOfSeq, ZenonT(30)
    <2> QED BY <2>1, <2>2, StoreSizes, ZenonT(30) DEF SaveName, SavingOK, Saves
<1> DEFINE len == clear_low(window[s].len, at + 3 - NameMax)
           spelt == written(window[s].name, name, at)
<1>2. /\ window' = [window EXCEPT ![s].name = spelt, ![s].len = len]
      /\ UNCHANGED <<fns, compiled, found>>
      /\ saving' = IF at < Len(name) THEN [saving EXCEPT !.at = @ + 1] ELSE [saving EXCEPT !.pc = "len", !.at = 1]
    BY <1>1, ZenonT(30) DEF SaveName
<1>3. /\ window[s] \in SlotRecords /\ at \in 1 .. NameMax /\ len \in Nat
      /\ spelt \in [1 .. NameMax -> Nat] /\ \A k \in 1 .. at : spelt[k] = IF k = at THEN name[k] ELSE window[s].name[k]
    <2>1. window[s] \in SlotRecords /\ at \in 1 .. NameMax /\ at + 3 - NameMax \in Int
        BY <1>1, StoreSizes DEF StoreTypeOK
    <2>2. window[s].len \in Nat /\ window[s].name \in [1 .. NameMax -> Nat]
        BY <2>1, ZenonT(30) DEF SlotRecords
    <2>3. len \in Nat
        BY <2>1, <2>2, ClearedIsNat, ZenonT(30)
    <2>4. \A k \in 1 .. at : k \in 1 .. NameMax /\ k \notin at + 1 .. at + 3
        BY <2>1, StoreSizes
    <2>5. 0 \in Nat
        OBVIOUS
    <2>6. spelt \in [1 .. NameMax -> Nat]
        BY <1>1, <2>2, <2>5, ZenonT(30) DEF written
    <2> QED BY <2>1, <2>3, <2>4, <2>6, ZenonT(30) DEF written
<1> HIDE DEF len, spelt
<1>4. /\ window' \in [Slots -> SlotRecords]
      /\ window'[s] = [window[s] EXCEPT !.name = spelt, !.len = len]
      /\ \A j \in Slots \ {s} : window'[j] = window[j]
    <2> DEFINE new == [window[s] EXCEPT !.name = spelt, !.len = len]
    <2>1. new \in SlotRecords
        BY <1>3, ZenonT(30) DEF SlotRecords
    <2>2. window' = [window EXCEPT ![s] = new]
        BY <1>2, ZenonT(30)
    <2> HIDE DEF new
    <2>3. window' \in [Slots -> SlotRecords] /\ window'[s] = new /\ \A j \in Slots \ {s} : window'[j] = window[j]
        BY <2>1, <2>2, ZenonT(30) DEF StoreTypeOK
    <2> QED BY <2>3, ZenonT(30) DEF new
<1>5. /\ window'[s].name = spelt /\ window'[s].name_len = window[s].name_len
      /\ window'[s].words = window[s].words
    BY <1>3, <1>4, ZenonT(30) DEF SlotRecords
<1>6. \A k \in 1 .. at : window'[s].name[k] = name[k]
    <2>1. \A k \in 1 .. at - 1 : window[s].name[k] = name[k]
        BY <1>1, ZenonT(30) DEF SavingOK, NameWritten
    <2>2. \A k \in 1 .. at : k = at \/ k \in 1 .. at - 1
        OBVIOUS
    <2> QED BY <1>3, <1>5, <2>1, <2>2, ZenonT(30)
<1>8. StoreTypeOK' /\ NoMixedBodies' /\ WindowOK' /\ \A b : GoodBody(b) => GoodBody(b)'
    <2>1. GoodBody(window'[s].words)
        BY <1>5, ZenonT(30) DEF WindowOK
    <2> QED BY <1>1, <1>2, <1>4, <1>5, <2>1, SaveStepKeeps, ZenonT(30)
<1>9. SavingOK'
    <2>1. window[s].name_len = Len(name) /\ WordsWritten(0)
        BY <1>1, ZenonT(30) DEF SavingOK
    <2>2. /\ saving'.slot = s /\ saving'.name = name /\ saving'.words = saving.words
          /\ saving' \in Saves
        <3>1. CASE at < Len(name)
            BY <1>1, <1>2, <3>1 DEF Saves
        <3>2. CASE ~(at < Len(name))
            BY <1>1, <1>2, <3>2, ZenonT(30) DEF Saves
        <3> QED BY <3>1, <3>2, ZenonT(30)
    <2>3. GoodBody(saving.words)'
        BY <1>1, <1>8, <2>2, ZenonT(30)
    <2>4. WordsWritten(0)'
        BY <1>1, <1>2, <1>5, <2>1, <2>2, ZenonT(30) DEF WordsWritten
    <2>5. CASE at < Len(name)
        <3>1. saving'.pc = "name" /\ saving'.at = at + 1
            BY <1>1, <1>2, <2>5
        <3>2. NameWritten(saving.at - 1)'
            BY <1>6, <2>2, <3>1 DEF NameWritten
        <3>3. saving'.at \in 1 .. Len(saving'.name)
            BY <1>1, <2>2, <2>5, <3>1
        <3> QED BY <1>5, <2>1, <2>2, <2>3, <2>4, <3>1, <3>2, <3>3, ZenonT(30) DEF SavingOK
    <2>6. CASE ~(at < Len(name))
        <3>1. saving'.pc = "len" /\ saving'.at = 1 /\ at = Len(name)
            BY <1>1, <1>2, <2>6
        <3>2. NameWritten(Len(saving.name))'
            BY <1>6, <2>2, <3>1, ZenonT(30) DEF NameWritten
        <3> QED BY <1>5, <2>1, <2>2, <2>3, <2>4, <3>1, <3>2, ZenonT(30) DEF SavingOK
    <2> QED BY <2>5, <2>6, ZenonT(30)
<1> QED BY <1>8, <1>9, ZenonT(30)

(* The length: no word is written yet.                                       *)
LEMMA SaveLenKeeps ==
    ASSUME StoreInv, SaveLen
    PROVE  StoreInv' /\ (saving.words = <<>> => Holds(window'[saving.slot], saving.words))
<1> USE DEF StoreInv
<1>1. PICK s \in Slots, name \in Names, words \in Words :
          /\ s = saving.slot /\ name = saving.name /\ words = saving.words
          /\ GoodBody(words) /\ saving \in Saves /\ saving.pc = "len" /\ saving.at = 1
    BY ZenonT(30) DEF SaveLen, SavingOK, Saves
<1>2. /\ window' = [window EXCEPT ![s].len = Len(words)]
      /\ UNCHANGED <<fns, compiled, found>>
      /\ saving' = IF words # <<>> THEN [saving EXCEPT !.pc = "words"] ELSE Idle
    BY <1>1, ZenonT(30) DEF SaveLen
<1>3. window[s] \in SlotRecords /\ Len(words) \in Nat
    BY LenProperties, ZenonT(30) DEF StoreTypeOK, Words
<1>4. /\ window' \in [Slots -> SlotRecords]
      /\ window'[s] = [window[s] EXCEPT !.len = Len(words)]
      /\ \A j \in Slots \ {s} : window'[j] = window[j]
    <2> DEFINE new == [window[s] EXCEPT !.len = Len(words)]
    <2>1. new \in SlotRecords
        BY <1>3, ZenonT(30) DEF SlotRecords
    <2>2. window' = [window EXCEPT ![s] = new]
        BY <1>2, ZenonT(30)
    <2> HIDE DEF new
    <2>3. window' \in [Slots -> SlotRecords] /\ window'[s] = new /\ \A j \in Slots \ {s} : window'[j] = window[j]
        BY <2>1, <2>2, ZenonT(30) DEF StoreTypeOK
    <2> QED BY <2>3, ZenonT(30) DEF new
<1>5. /\ window'[s].name = window[s].name /\ window'[s].name_len = window[s].name_len
      /\ window'[s].len = Len(words) /\ window'[s].words = window[s].words
    BY <1>3, <1>4, ZenonT(30) DEF SlotRecords
<1>6. StoreTypeOK' /\ NoMixedBodies' /\ WindowOK' /\ \A b : GoodBody(b) => GoodBody(b)'
    <2>1. GoodBody(window'[s].words)
        BY <1>5, ZenonT(30) DEF WindowOK
    <2> QED BY <1>1, <1>2, <1>4, <1>5, <2>1, SaveStepKeeps, ZenonT(30)
<1>7. CASE words # <<>>
    <2>1. /\ saving'.slot = s /\ saving'.name = name /\ saving'.words = words
          /\ saving'.pc = "words" /\ saving'.at = 1 /\ saving' \in Saves
        BY <1>1, <1>2, <1>7, ZenonT(30) DEF Saves
    <2>2. GoodBody(saving.words)'
        BY <1>1, <1>6, <2>1, ZenonT(30)
    <2>3. WordsWritten(saving.at - 1)'
        <3>1. saving'.at - 1 = 0
            BY ONLY <2>1, SMTT(30)
        <3>2. WordsWritten(0)
            BY <1>1, ZenonT(30) DEF SavingOK
        <3>3. \A k \in 1 .. SlotWords : ~(k <= 0)
            OBVIOUS
        <3> QED BY <1>1, <1>2, <1>5, <2>1, <3>1, <3>2, <3>3, ZenonT(30) DEF WordsWritten
    <2>4. NameWritten(Len(saving.name))'
        BY <1>1, <1>5, <2>1 DEF SavingOK, NameWritten
    <2>5. saving'.at \in 1 .. Len(saving'.words)
        <3>1. words \in Seq(Nat) /\ Len(words) # 0 /\ Len(words) \in Nat
            BY <1>7, EmptySeq, LenProperties, ZenonT(30) DEF Words
        <3> QED BY <2>1, <3>1
    <2>6. window'[saving'.slot].name_len = Len(saving'.name)
        BY <1>1, <1>5, <2>1, ZenonT(30) DEF SavingOK
    <2>7. SavingOK'
        BY <1>5, <2>1, <2>2, <2>3, <2>4, <2>5, <2>6, ZenonT(30) DEF SavingOK
    <2> QED BY <1>1, <1>6, <1>7, <2>7, ZenonT(30)
<1>8. CASE words = <<>>
    <2>1. SavingOK'
        BY <1>2, <1>8, ZenonT(30) DEF SavingOK, Idle
    <2>2. Len(words) = 0
        BY <1>8, ZenonT(30)
    <2>3. Holds(window'[s], words)
        BY <1>5, <2>2 DEF Holds
    <2> QED BY <1>1, <1>6, <2>1, <2>3, ZenonT(30)
<1> QED BY <1>7, <1>8, ZenonT(30)

(* One word of the body. *)
LEMMA SaveWordKeeps ==
    ASSUME StoreInv, SaveWord
    PROVE  StoreInv' /\ (Ready' => Holds(window'[saving.slot], saving.words))
<1> USE DEF StoreInv
<1>1. PICK s \in Slots, name \in Names, words \in Words, at \in Nat :
          /\ s = saving.slot /\ name = saving.name /\ words = saving.words /\ at = saving.at
          /\ GoodBody(words) /\ saving \in Saves /\ saving.pc = "words"
    BY ZenonT(30) DEF SaveWord, SavingOK, Saves
<1>2. /\ window' = [window EXCEPT ![s].words[at] = words[at]]
      /\ UNCHANGED <<fns, compiled, found>>
      /\ saving' = IF at < Len(words) THEN [saving EXCEPT !.at = @ + 1] ELSE Idle
    BY <1>1, ZenonT(30) DEF SaveWord
<1>3. /\ window[s] \in SlotRecords /\ Len(words) \in Nat /\ at \in 1 .. Len(words)
      /\ at \in 1 .. SlotWords /\ words[at] \in Nat
    <2>1. at \in 1 .. Len(words) /\ words \in Seq(Nat) /\ Len(words) <= FnBodyWords
        BY <1>1, ZenonT(30) DEF SavingOK, Words
    <2>2. Len(words) \in Nat /\ words[at] \in Nat
        BY <2>1, LenProperties, ElementOfSeq, ZenonT(30)
    <2> QED BY <2>1, <2>2, StoreSizes DEF StoreTypeOK
<1>4. /\ window' \in [Slots -> SlotRecords]
      /\ window'[s] = [window[s] EXCEPT !.words[at] = words[at]]
      /\ \A j \in Slots \ {s} : window'[j] = window[j]
    <2> DEFINE new == [window[s] EXCEPT !.words[at] = words[at]]
    <2>1. new \in SlotRecords
        BY <1>3, ZenonT(30) DEF SlotRecords
    <2>2. window' = [window EXCEPT ![s] = new]
        BY <1>2, ZenonT(30)
    <2> HIDE DEF new
    <2>3. window' \in [Slots -> SlotRecords] /\ window'[s] = new /\ \A j \in Slots \ {s} : window'[j] = window[j]
        BY <2>1, <2>2, ZenonT(30) DEF StoreTypeOK
    <2> QED BY <2>3, ZenonT(30) DEF new
<1>5. /\ window'[s].words = [window[s].words EXCEPT ![at] = words[at]] /\ window[s].words \in [1 .. SlotWords -> Nat]
      /\ window'[s].name_len = window[s].name_len /\ window'[s].len = window[s].len
      /\ window'[s].name = window[s].name
    BY <1>3, <1>4, ZenonT(30) DEF SlotRecords
<1>6. \A k \in 1 .. SlotWords : window'[s].words[k] = IF k <= at THEN words[k] ELSE found[s].words[k]
    <2>1. \A k \in 1 .. SlotWords : window[s].words[k] = IF k <= at - 1 THEN words[k] ELSE found[s].words[k]
        BY <1>1, ZenonT(30) DEF SavingOK, WordsWritten
    <2>2. window'[s].words[at] = words[at] /\ \A k \in 1 .. SlotWords : k # at => window'[s].words[k] = window[s].words[k]
        BY <1>3, <1>5, ZenonT(30)
    <2>3. at <= at /\ \A k \in 1 .. SlotWords : k # at => (k <= at <=> k <= at - 1)
        BY <1>3
    <2> SUFFICES ASSUME NEW k \in 1 .. SlotWords
                 PROVE  window'[s].words[k] = IF k <= at THEN words[k] ELSE found[s].words[k]
        BY ZenonT(30)
    <2>4. CASE k = at
        BY <2>2, <2>3, <2>4, ZenonT(30)
    <2>5. CASE k # at
        BY <2>1, <2>2, <2>3, <2>5, ZenonT(30)
    <2> QED BY <2>4, <2>5, ZenonT(30)
<1>7. window'[s].len = Len(words)
    BY <1>1, <1>5, ZenonT(30) DEF SavingOK
<1>8. StoreTypeOK' /\ NoMixedBodies' /\ WindowOK' /\ \A b : GoodBody(b) => GoodBody(b)'
    <2>1. GoodBody(window'[s].words)
        <3>1. PICK w \in [1 .. SlotWords -> Nat] : w = window'[s].words
            BY <1>4, ZenonT(30) DEF SlotRecords
        <3>2. \A k \in 1 .. SlotWords : w[k] = IF k <= at THEN words[k] ELSE found[s].words[k]
            BY <1>6, <3>1, ZenonT(30)
        <3>3. StoreTypeOK /\ words \in Words /\ GoodBody(words) /\ at \in 0 .. Len(words)
            BY <1>1, <1>3
        <3> QED BY <3>1, <3>2, <3>3, PartWritten, ZenonT(30)
    <2> QED BY <1>1, <1>2, <1>4, <1>5, <2>1, SaveStepKeeps, ZenonT(30)
<1>9. CASE at < Len(words)
    <2>1. /\ saving'.slot = s /\ saving'.name = name /\ saving'.words = words
          /\ saving'.pc = "words" /\ saving'.at = at + 1 /\ saving' \in Saves
        BY <1>1, <1>2, <1>9 DEF Saves
    <2>2. GoodBody(saving.words)'
        BY <1>1, <1>8, <2>1, ZenonT(30)
    <2>3. WordsWritten(saving.at - 1)'
        <3>1. saving'.at - 1 = at
            BY ONLY <1>3, <2>1, SMTT(30)
        <3>2. found' = found
            BY <1>2, ZenonT(30)
        <3> QED BY <1>6, <2>1, <3>1, <3>2, ZenonT(30) DEF WordsWritten
    <2>4. NameWritten(Len(saving.name))'
        <3>1. NameWritten(Len(saving.name))
            BY <1>1, ZenonT(30) DEF SavingOK
        <3>2. \A k \in 1 .. Len(name) : window'[s].name[k] = name[k]
            BY <1>1, <1>5, <3>1, ZenonT(30) DEF NameWritten
        <3> QED BY ONLY <2>1, <3>2, ZenonT(30) DEF NameWritten
    <2>5. saving'.at \in 1 .. Len(saving'.words)
        BY <1>3, <1>9, <2>1
    <2>6. window'[saving'.slot].name_len = Len(saving'.name)
        BY <1>1, <1>5, <2>1, ZenonT(30) DEF SavingOK
    <2>7. SavingOK'
        BY <1>7, <2>1, <2>2, <2>3, <2>4, <2>5, <2>6, ZenonT(30) DEF SavingOK
    <2> QED BY <1>8, <2>1, <2>7, ZenonT(30) DEF Ready
<1>10. CASE ~(at < Len(words))
    <2>1. SavingOK'
        BY <1>2, <1>10, ZenonT(30) DEF SavingOK, Idle
    <2>2. at = Len(words)
        BY <1>3, <1>10
    <2>3. \A k \in 1 .. Len(words) : k \in 1 .. SlotWords /\ k <= at
        BY <1>1, <1>3, <2>2, StoreSizes DEF Words
    <2>4. Holds(window'[s], words)
        BY <1>6, <1>7, <2>3, ZenonT(30) DEF Holds
    <2> QED BY <1>1, <1>8, <2>1, <2>4, ZenonT(30)
<1> QED BY <1>9, <1>10, ZenonT(30)

(* A reset drops the save and the functions; the slots stay. *)
LEMMA ResetKeeps ==
    ASSUME StoreInv, Reset
    PROVE  StoreInv'
<1> USE DEF StoreInv
<1>1. fns' = NoFns /\ saving' = Idle /\ UNCHANGED <<window, compiled, found>>
    BY ZenonT(30) DEF Reset
<1>2. StoreTypeOK'
    <2>1. <<>> \in Words
        BY StoreSizes, EmptySeq DEF Words
    <2> QED BY <1>1, <2>1, ZenonT(30) DEF StoreTypeOK, NoFns, FreeSlot
<1>3. NoMixedBodies'
    BY <1>1, ZenonT(30) DEF NoMixedBodies, NoFns, FreeSlot, fn_allocated
<1>4. WindowOK'
    BY <1>1, GoodStays, ZenonT(30) DEF WindowOK, occupied
<1>5. SavingOK'
    BY <1>1, ZenonT(30) DEF SavingOK, Idle
<1> QED BY <1>2, <1>3, <1>4, <1>5, ZenonT(30)

(* Every command, every write of a save and a reset between any two. *)
LEMMA StoreInvStep == StoreInv /\ [Next]_vars => StoreInv'
<1> SUFFICES ASSUME StoreInv, [Next]_vars PROVE StoreInv'
    BY ZenonT(30)
<1>1. CASE UNCHANGED vars
    <2>1. UNCHANGED <<fns, window, saving, compiled, found>>
        BY <1>1, ZenonT(30) DEF vars
    <2>2. \A b : GoodBody(b) => GoodBody(b)'
        BY <2>1, GoodStays, ZenonT(30)
    <2>3. StoreTypeOK' /\ WindowOK'
        BY <2>1, <2>2, ZenonT(30) DEF StoreInv, StoreTypeOK, WindowOK, occupied
    <2>4. NoMixedBodies'
        BY <2>1, <2>2, ZenonT(30) DEF StoreInv, NoMixedBodies, GoodBody, fn_allocated
    <2>5. SavingOK'
        BY <2>1, <2>2, ZenonT(30) DEF StoreInv, SavingOK, NameWritten, WordsWritten
    <2> QED BY <2>3, <2>4, <2>5, ZenonT(30) DEF StoreInv
<1> QED BY <1>1, DefineKeeps, StoreKeeps, SaveNameKeeps, SaveLenKeeps, SaveWordKeeps, LoadKeeps, ResetKeeps, ZenonT(30)
        DEF Next

(* Whatever the SRAM holds at power-on and whatever resets come between the  *)
(* writes of saves, a function begins like one compiled body, or none, and   *)
(* goes on with words that were there at power-on.                           *)
THEOREM BodiesNeverMixed == Spec => []NoMixedBodies
<1>1. StoreInv => NoMixedBodies
    BY ZenonT(30) DEF StoreInv
<1> QED BY StoreInvInit, StoreInvStep, <1>1, PTL DEF Spec

(* The search of `store' and the writes of save touch no other slot that is  *)
(* in use.                                                                   *)
THEOREM UsedSlotsStay == Spec => SlotsNotReused
<1>1. StoreInv /\ [Next]_vars
        => [\A i \in Slots : occupied(i) /\ saving.slot # i => window'[i] = window[i]]_vars
    <2> SUFFICES ASSUME StoreInv, Next, NEW i \in Slots, occupied(i), saving.slot # i
                 PROVE  window'[i] = window[i]
        BY ZenonT(30)
    <2>1. DOMAIN window = Slots
        BY ZenonT(30) DEF StoreInv, StoreTypeOK
    <2>2. ASSUME NEW name \in Names, Store(name) PROVE window'[i] = window[i]
        BY <2>1, <2>2, ZenonT(30) DEF Store, free_slots
    <2>3. CASE SaveName \/ SaveLen \/ SaveWord
        BY <2>1, <2>3, ZenonT(30) DEF SaveName, SaveLen, SaveWord
    <2> QED BY <2>2, <2>3, ZenonT(30) DEF Next, Define, Load, Reset
<1> QED BY StoreInvInit, StoreInvStep, <1>1, PTL DEF Spec, SlotsNotReused

(* A save that no reset cuts off leaves its function, whole and under its    *)
(* name, in its slot.                                                        *)
THEOREM SavesAreWhole == Spec => SavedWhole
<1>1. StoreInv /\ [Next]_vars
        => [~Ready /\ Ready' /\ fns' # NoFns =>
              Image(window'[saving.slot]) = [name |-> saving.name, words |-> saving.words]]_vars
    <2> SUFFICES ASSUME StoreInv, Next, ~Ready, Ready', fns' # NoFns
                 PROVE  Image(window'[saving.slot]) = [name |-> saving.name, words |-> saving.words]
        BY ZenonT(30)
    <2>1. saving \in Saves /\ saving.pc # "idle"
        BY ZenonT(30) DEF StoreInv, SavingOK, Ready
    <2>2. ~SaveName
        BY <2>1, ZenonT(30) DEF SaveName, Ready, Saves
    <2>3. SaveLen \/ SaveWord
        BY <2>2, ZenonT(30) DEF Next, Define, Store, Load, Reset
    <2>4. SaveLen => saving.words = <<>>
        BY <2>1, ZenonT(30) DEF SaveLen, Ready, Saves
    <2>5. Holds(window'[saving.slot], saving.words)
        BY <2>3, <2>4, SaveLenKeeps, SaveWordKeeps, ZenonT(30)
    <2>6. /\ window'[saving.slot].name_len = Len(saving.name)
          /\ \A k \in 1 .. Len(saving.name) : window'[saving.slot].name[k] = saving.name[k]
        <3>1. window[saving.slot].name_len = Len(saving.name) /\ NameWritten(Len(saving.name))
            BY <2>3, ZenonT(30) DEF StoreInv, SavingOK, SaveLen, SaveWord
        <3>2. /\ window'[saving.slot].name_len = window[saving.slot].name_len
              /\ window'[saving.slot].name = window[saving.slot].name
            BY <2>1, <2>3 DEF StoreInv, StoreTypeOK, SlotRecords, Saves, SaveLen, SaveWord
        <3> QED BY <3>1, <3>2, ZenonT(30) DEF NameWritten
    <2>7. SubSeq(window'[saving.slot].name, 1, window'[saving.slot].name_len) = saving.name
        BY <2>1, <2>6, PrefixIs, StoreSizes DEF Saves
    <2>8. SubSeq(window'[saving.slot].words, 1, window'[saving.slot].len) = saving.words
        <3>1. saving.words \in Seq(Nat) /\ Len(saving.words) \in Nat /\ Len(saving.words) <= SlotWords
            BY <2>1, StoreSizes, LenProperties DEF Saves, Words
        <3>2. \A k \in 1 .. Len(saving.words) : window'[saving.slot].words[k] = saving.words[k]
            BY <2>5, ZenonT(30) DEF Holds
        <3> QED BY <2>5, <3>1, <3>2, PrefixIs, ZenonT(30) DEF Holds
    <2> QED BY <2>7, <2>8, ZenonT(30) DEF Image
<1> QED BY StoreInvInit, StoreInvStep, <1>1, PTL DEF Spec, SavedWhole
=============================================================================
