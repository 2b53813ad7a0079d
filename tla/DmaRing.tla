------------------------------ MODULE DmaRing ------------------------------
(***************************************************************************)
(* AutonomousDmaRing (drivers/pcie.rs, and the same code in the            *)
(* hros-drivers crate): the driver writes descriptors at tail, the DMA     *)
(* engine carries them out and advances head on its own.  One driver       *)
(* thread calls submit_transfer, has_completed and capacity; the engine    *)
(* works between any two of its memory accesses.                           *)
(***************************************************************************)
EXTENDS Integers, Sequences

CONSTANTS Transfer,      \* source, destination and length of a transfer
          Blank,         \* the descriptor the ring starts with
          RingSize,      \* 128 in the code
          MaxSubmit      \* bound: transfers accepted in one behaviour

ASSUME RingAssumption == RingSize \in Nat /\ RingSize >= 2
ASSUME SubmitAssumption == MaxSubmit \in Nat
ASSUME BlankAssumption == Blank \notin Transfer

VARIABLES descriptors,
          dma_head, dma_tail,     \* head and tail
          driver,        \* the driver's registers: where it is, what it has loaded
          answer,        \* what its last call returned
          submitted,     \* history: the transfers accepted, in order
          performed,     \* history: the descriptors the engine carried out
          seen           \* history: how many it had when head was last loaded

dmaVars == <<descriptors, dma_head, dma_tail, driver, answer, submitted, performed, seen>>
ringVars == <<descriptors, dma_head, dma_tail, submitted, performed>>

Descriptor == 0 .. RingSize - 1
AtRest == [pc |-> "idle", loaded |-> 0, transfer |-> Blank]
NoAnswer == [call |-> "none"]

DmaInit ==
    /\ descriptors = [i \in Descriptor |-> Blank]
    /\ dma_head = 0 /\ dma_tail = 0
    /\ driver = AtRest
    /\ answer = NoAnswer
    /\ submitted = <<>> /\ performed = <<>> /\ seen = 0

(* The engine, from what the driver's side expects of it: it takes the       *)
(* descriptor at head while head and tail differ.                            *)
EngineStep ==
    /\ dma_head # dma_tail
    /\ performed' = Append(performed, descriptors[dma_head])
    /\ dma_head' = (dma_head + 1) % RingSize
    /\ UNCHANGED <<descriptors, dma_tail, driver, answer, submitted, seen>>

-----------------------------------------------------------------------------
(* submit_transfer *)

SubmitLoadTail(t) ==
    /\ driver.pc = "idle"
    /\ Len(submitted) < MaxSubmit
    /\ driver' = [pc |-> "check", loaded |-> dma_tail, transfer |-> t]
    /\ answer' = NoAnswer
    /\ UNCHANGED <<ringVars, seen>>

(* Mutant: the ring is never full. *)
SubmitCheckHead_NeverFull ==
    /\ driver.pc = "check"
    /\ driver' = [driver EXCEPT !.pc = "write"]
    /\ UNCHANGED <<ringVars, answer, seen>>

SubmitCheckHead ==
    /\ driver.pc = "check"
    /\ IF (driver.loaded + 1) % RingSize = dma_head
         THEN driver' = AtRest /\ answer' = [call |-> "submit_transfer", ok |-> FALSE]
         ELSE driver' = [driver EXCEPT !.pc = "write"] /\ UNCHANGED answer
    /\ UNCHANGED <<ringVars, seen>>

SubmitWrite ==
    /\ driver.pc = "write"
    /\ descriptors' = [descriptors EXCEPT ![driver.loaded] = driver.transfer]
    /\ driver' = [driver EXCEPT !.pc = "store"]
    /\ UNCHANGED <<dma_head, dma_tail, answer, submitted, performed, seen>>

SubmitStoreTail ==
    /\ driver.pc = "store"
    /\ dma_tail' = (driver.loaded + 1) % RingSize
    /\ driver' = AtRest
    /\ answer' = [call |-> "submit_transfer", ok |-> TRUE]
    /\ submitted' = Append(submitted, driver.transfer)
    /\ UNCHANGED <<descriptors, dma_head, performed, seen>>

-----------------------------------------------------------------------------
(* has_completed and capacity: head is loaded first, then tail. *)

LoadHead(call) ==
    /\ driver.pc = "idle"
    /\ driver' = [AtRest EXCEPT !.pc = call, !.loaded = dma_head]
    /\ answer' = NoAnswer
    /\ seen' = Len(performed)
    /\ UNCHANGED ringVars

HasCompleted ==
    /\ driver.pc = "has_completed"
    /\ driver' = AtRest
    /\ answer' = [call |-> "has_completed", result |-> driver.loaded # dma_tail]
    /\ UNCHANGED <<ringVars, seen>>

(* Mutant: the slot that stays empty is counted. *)
free_slots_WithGap(h, t) == (h + RingSize - t) % RingSize

free_slots(h, t) == (h + RingSize - t - 1) % RingSize

CapacityAnswer ==
    /\ driver.pc = "capacity"
    /\ driver' = AtRest
    /\ answer' = [call |-> "capacity", result |-> free_slots(driver.loaded, dma_tail)]
    /\ UNCHANGED <<ringVars, seen>>

DmaNext ==
    \/ EngineStep
    \/ \E t \in Transfer : SubmitLoadTail(t)
    \/ SubmitCheckHead
    \/ SubmitWrite
    \/ SubmitStoreTail
    \/ \E call \in {"has_completed", "capacity"} : LoadHead(call)
    \/ HasCompleted
    \/ CapacityAnswer

DmaSpec == DmaInit /\ [][DmaNext]_dmaVars

-----------------------------------------------------------------------------
Outstanding == Len(submitted) - Len(performed)

(* Every accepted transfer is carried out once, in order and as it was       *)
(* submitted: the engine never sees a descriptor that is not, or only partly *)
(* written, and none is overwritten while it waits.                          *)
TransfersInOrder ==
    /\ Outstanding \in 0 .. RingSize - 1
    /\ \A i \in DOMAIN performed : performed[i] = submitted[i]

(* What the driver is told may be stale, because the engine goes on.  It can *)
(* still submit as many transfers as capacity returns without looking again. *)
(* has_completed returns true exactly if a transfer was waiting when head    *)
(* was loaded: true is no evidence that any has been carried out, nor that   *)
(* one is waiting still.  It returns false only once every transfer has been *)
(* carried out, and that stays so until the next submit_transfer.            *)
AnswersAreSafe ==
    /\ answer.call = "capacity" => answer.result <= RingSize - 1 - Outstanding
    /\ answer.call = "has_completed" =>
          /\ answer.result <=> seen < Len(submitted)
          /\ ~answer.result => Outstanding = 0
=============================================================================
