------------------------------ MODULE UartRing ------------------------------
(***************************************************************************)
(* The receive ring of the UART (drivers/uart.rs): irq_handler puts bytes  *)
(* in, ring_pop takes them out.  Both run on one core: the handler runs to *)
(* its end, between any two memory accesses of ring_pop.                   *)
(*                                                                         *)
(* The indices are plain, not volatile or atomic, so the compiler may      *)
(* store tail before it reads the slot; both orders are in the model.  It  *)
(* may also keep head in a register over several calls, which only makes   *)
(* the ring look empty for longer and is left out.                         *)
(***************************************************************************)
EXTENDS Integers, Sequences

CONSTANTS RxByte,          \* the bytes received
          RxRingSize,      \* RING_SIZE: 256 in the code
          MaxBytes         \* bound: bytes accepted in one behaviour

ASSUME RxRingAssumption == RxRingSize \in Nat /\ RxRingSize >= 2
ASSUME MaxBytesAssumption == MaxBytes \in Nat

VARIABLES ring,          \* RX_RING: buf, head and tail
          pop,           \* ring_pop's registers: where it is, tail, the byte
          received,      \* history: the bytes put in, in order
          returned,      \* history: the bytes ring_pop returned, in order
          dropped        \* history: the last step dropped a byte

uartVars == <<ring, pop, received, returned, dropped>>

Zero == CHOOSE b \in RxByte : TRUE           \* the content .bss starts with
Calling == [pc |-> "call", tail |-> 0, byte |-> Zero]
next_index(i) == (i + 1) % RxRingSize

UartInit ==
    /\ ring = [buf |-> [i \in 0 .. RxRingSize - 1 |-> Zero], head |-> 0, tail |-> 0]
    /\ pop = Calling
    /\ received = <<>> /\ returned = <<>>
    /\ dropped = FALSE

(* Mutant: the ring is taken to be full when it holds one byte less. *)
ring_full_Early == ring.tail \in {next_index(ring.head), next_index(next_index(ring.head))}

ring_full == next_index(ring.head) = ring.tail

(* The handler at its end: a byte that finds the ring full is dropped. *)
irq_handler(byte) ==
    /\ Len(received) < MaxBytes
    /\ IF ring_full
         THEN dropped' = TRUE /\ UNCHANGED <<ring, received>>
         ELSE /\ ring' = [ring EXCEPT !.buf[ring.head] = byte, !.head = next_index(@)]
              /\ received' = Append(received, byte)
              /\ dropped' = FALSE
    /\ UNCHANGED <<pop, returned>>

-----------------------------------------------------------------------------
(* ring_pop *)

(* None, and another call, if the ring is empty. *)
PopCheck ==
    /\ pop.pc = "call"
    /\ pop' = IF ring.tail = ring.head THEN pop ELSE [pop EXCEPT !.pc = "check", !.tail = ring.tail]
    /\ dropped' = FALSE
    /\ UNCHANGED <<ring, received, returned>>

(* Mutant: the slot is read at the index as it is now. *)
PopRead_NewTail ==
    /\ pop.pc \in {"check", "stored"}
    /\ pop' = [pop EXCEPT !.pc = IF @ = "check" THEN "read" ELSE "done", !.byte = ring.buf[ring.tail]]
    /\ dropped' = FALSE
    /\ UNCHANGED <<ring, received, returned>>

(* The read and the store, in either order. *)
PopRead ==
    /\ pop.pc \in {"check", "stored"}
    /\ pop' = [pop EXCEPT !.pc = IF @ = "check" THEN "read" ELSE "done", !.byte = ring.buf[pop.tail]]
    /\ dropped' = FALSE
    /\ UNCHANGED <<ring, received, returned>>

PopStore ==
    /\ pop.pc \in {"check", "read"}
    /\ ring' = [ring EXCEPT !.tail = next_index(pop.tail)]
    /\ pop' = [pop EXCEPT !.pc = IF @ = "check" THEN "stored" ELSE "done"]
    /\ dropped' = FALSE
    /\ UNCHANGED <<received, returned>>

PopReturn ==
    /\ pop.pc = "done"
    /\ returned' = Append(returned, pop.byte)
    /\ pop' = Calling
    /\ dropped' = FALSE
    /\ UNCHANGED <<ring, received>>

ring_pop == PopCheck \/ PopRead \/ PopStore \/ PopReturn

UartNext == ring_pop \/ \E byte \in RxByte : irq_handler(byte)

UartSpec == UartInit /\ [][UartNext]_uartVars

-----------------------------------------------------------------------------
Held == (ring.head + RxRingSize - ring.tail) % RxRingSize
Waiting == [i \in 1 .. Held |-> ring.buf[(ring.tail + i - 1) % RxRingSize]]

(* Between calls, the bytes accepted are those ring_pop has returned         *)
(* followed by those still in the ring: each is returned once and in order,  *)
(* wherever the handler interrupts it and whichever order the compiler chose *)
(* ("Capacity check prevents wrap corruption").                              *)
BytesInOrder == pop.pc = "call" => received = returned \o Waiting

(* A byte is dropped only when RxRingSize - 1 bytes are waiting ("Ring full: *)
(* byte dropped").                                                           *)
DroppedOnlyWhenFull == dropped => Len(received) - Len(returned) >= RxRingSize - 1
=============================================================================
