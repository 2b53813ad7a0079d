-------------------------------- MODULE Pool --------------------------------
(***************************************************************************)
(* The memory pools (kernel/pool.rs): one bump allocator per task over a   *)
(* sub-pool of its own.  Offsets and sizes are machine words: off + size   *)
(* wraps modulo 2^32 in a release build.                                   *)
(***************************************************************************)
EXTENDS Integers, Sequences

CONSTANTS NumPools,       \* NUM_POOLS: 4 in the code
          TaskPoolSize,   \* TASK_POOL_SIZE: 2048 bytes in the code
          Modulus,        \* 2^32 in the code
          Sizes,          \* the sizes asked for
          MaxBlocks       \* bound: blocks live at once in a pool

ASSUME PoolAssumption ==
    /\ NumPools \in Nat \ {0} /\ TaskPoolSize \in Nat /\ MaxBlocks \in Nat
    /\ Modulus \in Nat /\ NumPools * TaskPoolSize < Modulus
    /\ Sizes \subseteq 0 .. Modulus - 1

VARIABLES offsets,    \* OFFSETS: the bump pointer of each pool
          blocks,     \* history: the blocks handed out since the pool's last reset
          wrapped     \* history: the pools where an addition wrapped since then

poolVars == <<offsets, blocks, wrapped>>

Pools == 0 .. NumPools - 1
Base(t) == t * TaskPoolSize        \* from the start of the region

PoolInit ==
    /\ offsets = [t \in Pools |-> 0]
    /\ blocks = [t \in Pools |-> <<>>]
    /\ wrapped = {}

fits(t, size) == (offsets[t] + size) % Modulus <= TaskPoolSize

(* pool_alloc SIZE; and the kernel's alloc.  Err(Full) changes nothing. *)
alloc(t, size) ==
    /\ Len(blocks[t]) < MaxBlocks
    /\ fits(t, size)
    /\ offsets' = [offsets EXCEPT ![t] = (@ + size) % Modulus]
    /\ blocks' = [blocks EXCEPT ![t] = Append(@, [addr |-> Base(t) + offsets[t], size |-> size])]
    /\ wrapped' = IF offsets[t] + size >= Modulus THEN wrapped \cup {t} ELSE wrapped

(* Mutant: the neighbour's pointer is reset with it. *)
reset_All(t) ==
    /\ offsets' = [u \in Pools |-> 0]
    /\ blocks' = [blocks EXCEPT ![t] = <<>>]
    /\ wrapped' = wrapped \ {t}

(* pool_free; *)
reset(t) ==
    /\ offsets' = [offsets EXCEPT ![t] = 0]
    /\ blocks' = [blocks EXCEPT ![t] = <<>>]
    /\ wrapped' = wrapped \ {t}

PoolNext ==
    \/ \E t \in Pools, size \in Sizes : alloc(t, size)
    \/ \E t \in Pools : reset(t)

PoolSpec == PoolInit /\ [][PoolNext]_poolVars

-----------------------------------------------------------------------------
(* The bump pointers stay inside the sub-pools, whatever size is asked for,  *)
(* so remaining and stats, which subtract them from the size, never wrap     *)
(* below zero.                                                               *)
PoolTypeOK == offsets \in [Pools -> 0 .. TaskPoolSize]

Inside(b, t) == t * TaskPoolSize <= b.addr /\ b.addr + b.size <= (t + 1) * TaskPoolSize
Apart(b, c) == b.addr + b.size <= c.addr \/ c.addr + c.size <= b.addr

(* "Returned pointer is valid until reset": the blocks handed out since the  *)
(* last reset lie in their task's own sub-pool and no two of them overlap,   *)
(* so no task's allocation or reset ever gives away memory in use.  One size *)
(* so large that off + size wraps ends that for its pool, until the pool is  *)
(* reset, and for no other pool.                                             *)
BlocksExclusive ==
    \A t \in Pools \ wrapped : \A i \in 1 .. Len(blocks[t]) :
        /\ Inside(blocks[t][i], t)
        /\ \A j \in 1 .. i - 1 : Apart(blocks[t][j], blocks[t][i])

(* pool.rs: alloc fails with Full "if insufficient space remains".           *)
FullWhenTooLarge ==
    \A t \in Pools : \A i \in 1 .. Len(blocks[t]) : blocks[t][i].size <= TaskPoolSize
=============================================================================
