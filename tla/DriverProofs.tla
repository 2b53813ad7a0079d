---------------------------- MODULE DriverProofs ----------------------------
(***************************************************************************)
(* The drivers and the task ring, for any size and any number of bytes,    *)
(* transfers or tasks: the receive ring returns every accepted byte once   *)
(* and in order and drops only when full; the DMA ring carries out every   *)
(* accepted transfer once and in order, and what it answers is safe to act *)
(* on; the terminal shows the line that the shell compiles; and the task   *)
(* ring between two cores hands every task over once, in order, and        *)
(* implements a bounded FIFO.                                              *)
(***************************************************************************)
EXTENDS TaskQueue, UartRing, DmaRing, Console, SequenceTheorems, TLAPS

(* The steps that name no prover are for the SMT solver.                     *)
USE SMTT(30)

Places(M) == 0 .. M - 1

(* Place of the i-th element of a ring of M places whose oldest is at t, and *)
(* the number of elements when the next free place is h.                     *)
Place(M, t, i) == IF t + i - 1 < M THEN t + i - 1 ELSE t + i - 1 - M
Count(M, h, t) == IF h >= t THEN h - t ELSE h - t + M
After(M, i) == IF i + 1 = M THEN 0 ELSE i + 1

(* Below twice the size, a remainder is at most one subtraction.             *)
LEMMA RingMod ==
    ASSUME NEW M \in Nat, M >= 2, NEW x \in 0 .. 2 * M - 1
    PROVE  x % M = IF x < M THEN x ELSE x - M
<1>1. CASE x < M
    BY <1>1
<1>2. CASE ~(x < M)
    <2>1. x = (x - M) + 1 * M
        OBVIOUS
    <2> QED BY <1>2, <2>1
<1> QED BY <1>1, <1>2, ZenonT(30)

(* The index after i, as both drivers compute it. *)
LEMMA AfterMod ==
    ASSUME NEW M \in Nat, M >= 2, NEW i \in Places(M)
    PROVE  (i + 1) % M = After(M, i) /\ After(M, i) \in Places(M)
<1> DEFINE x == i + 1
<1>1. x \in 0 .. 2 * M - 1
    BY DEF Places
<1> HIDE DEF x
<1>2. x % M = IF x < M THEN x ELSE x - M
    BY <1>1, RingMod, ZenonT(30)
<1> QED BY <1>2 DEF After, Places, x

(* The number of elements, as a remainder. *)
LEMMA CountMod ==
    ASSUME NEW M \in Nat, M >= 2, NEW h \in Places(M), NEW t \in Places(M)
    PROVE  (h + M - t) % M = Count(M, h, t) /\ Count(M, h, t) \in 0 .. M - 1
<1> DEFINE x == h + M - t
<1>1. x \in 0 .. 2 * M - 1
    BY DEF Places
<1> HIDE DEF x
<1>2. x % M = IF x < M THEN x ELSE x - M
    BY <1>1, RingMod, ZenonT(30)
<1> QED BY <1>2 DEF Count, Places, x

(* The place of an element, as a remainder. *)
LEMMA PlaceMod ==
    ASSUME NEW M \in Nat, M >= 2, NEW t \in Places(M), NEW i \in 1 .. M
    PROVE  (t + i - 1) % M = Place(M, t, i) /\ Place(M, t, i) \in Places(M)
<1> DEFINE x == t + i - 1
<1>1. x \in 0 .. 2 * M - 1
    BY DEF Places
<1> HIDE DEF x
<1>2. x % M = IF x < M THEN x ELSE x - M
    BY <1>1, RingMod, ZenonT(30)
<1> QED BY <1>2 DEF Place, Places, x

(* One element more at h: it takes the place after those that wait.          *)
LEMMA CountGrows ==
    ASSUME NEW M \in Nat, M >= 2, NEW h \in Places(M), NEW t \in Places(M), After(M, h) # t
    PROVE  /\ Count(M, h, t) \in 0 .. M - 2
           /\ Count(M, After(M, h), t) = Count(M, h, t) + 1
           /\ Place(M, t, Count(M, h, t) + 1) = h
           /\ \A i \in 1 .. Count(M, h, t) : Place(M, t, i) # h /\ Place(M, t, i) \in Places(M)
<1> USE DEF Places, Count, Place, After
<1>1. CASE h + 1 = M
    BY <1>1
<1>2. CASE h + 1 # M
    BY <1>2
<1> QED BY <1>1, <1>2, ZenonT(30)

(* One element less at t: the others move up by one.                         *)
LEMMA CountShrinks ==
    ASSUME NEW M \in Nat, M >= 2, NEW h \in Places(M), NEW t \in Places(M), h # t
    PROVE  /\ Count(M, h, t) \in 1 .. M - 1
           /\ Count(M, h, After(M, t)) = Count(M, h, t) - 1
           /\ Place(M, t, 1) = t
           /\ \A i \in 1 .. Count(M, h, t) - 1 : Place(M, After(M, t), i) = Place(M, t, i + 1)
<1> USE DEF Places, Count, Place, After
<1>1. CASE t + 1 = M
    BY <1>1
<1>2. CASE t + 1 # M
    BY <1>2
<1> QED BY <1>1, <1>2, ZenonT(30)

-----------------------------------------------------------------------------
(* The receive ring of the UART *)

N == RxRingSize
RxPlaces == Places(N)

USE DEF N, RxPlaces, Places

(* next_index is the place after. *)
LEMMA NextIndex ==
    ASSUME NEW i \in RxPlaces
    PROVE  next_index(i) = After(N, i) /\ After(N, i) \in RxPlaces
BY AfterMod, RxRingAssumption, ZenonT(30) DEF next_index

UartTypeOK ==
    /\ ring \in [buf : [RxPlaces -> RxByte], head : RxPlaces, tail : RxPlaces]
    /\ pop \in [pc : {"call", "check", "read", "stored", "done"}, tail : RxPlaces, byte : RxByte]
    /\ received \in Seq(RxByte) /\ returned \in Seq(RxByte)
    /\ dropped \in BOOLEAN

(* The bytes that have left the ring: one more than were returned while      *)
(* ring_pop is between its store of the tail and its return.                 *)
Stored == pop.pc \in {"stored", "done"}
Left == Len(returned) + (IF Stored THEN 1 ELSE 0)

(* The inductive invariant: byte by byte, what was accepted is what was      *)
(* returned, what ring_pop has in its hands and what waits.  While ring_pop  *)
(* has stored the tail and not yet read the slot behind it, the handler must *)
(* not reach that slot: one place is always left empty.                      *)
Counted == Left + Count(N, ring.head, ring.tail) = Len(received)
ReturnedOK == \A i \in 1 .. Len(returned) : returned[i] = received[i]
WaitingOK ==
    \A i \in 1 .. Count(N, ring.head, ring.tail) : ring.buf[Place(N, ring.tail, i)] = received[Left + i]
PopOK ==
    /\ pop.pc \in {"check", "read"} => pop.tail = ring.tail /\ ring.head # ring.tail
    /\ pop.pc = "stored" => next_index(pop.tail) = ring.tail /\ ring.buf[pop.tail] = received[Left]
    /\ pop.pc = "read" => pop.byte = received[Left + 1]
    /\ pop.pc = "done" => pop.byte = received[Left]
UartInv == UartTypeOK /\ Counted /\ ReturnedOK /\ WaitingOK /\ PopOK /\ DroppedOnlyWhenFull

(* The registers at the start of a call of ring_pop. *)
LEMMA CallingType ==
    ASSUME RxByte # {}
    PROVE  /\ Zero \in RxByte
           /\ Calling \in [pc : {"call", "check", "read", "stored", "done"}, tail : RxPlaces, byte : RxByte]
<1>1. Zero \in RxByte
    BY ZenonT(30) DEF Zero
<1>2. 0 \in RxPlaces
    BY RxRingAssumption
<1> QED BY <1>1, <1>2, ZenonT(30) DEF Calling

(* The ring starts empty, in .bss. *)
LEMMA UartInvInit == RxByte # {} /\ UartInit => UartInv
<1> SUFFICES ASSUME RxByte # {}, UartInit PROVE UartInv
    BY ZenonT(30)
<1>1. 0 \in RxPlaces
    BY RxRingAssumption
<1>2. UartTypeOK
    <2>1. [i \in RxPlaces |-> Zero] \in [RxPlaces -> RxByte]
        BY CallingType, ZenonT(30)
    <2>2. ring = [buf |-> [i \in RxPlaces |-> Zero], head |-> 0, tail |-> 0]
        BY ZenonT(30) DEF UartInit
    <2>3. ring \in [buf : [RxPlaces -> RxByte], head : RxPlaces, tail : RxPlaces]
        BY <1>1, <2>1, <2>2, ZenonT(30)
    <2>4. pop \in [pc : {"call", "check", "read", "stored", "done"}, tail : RxPlaces, byte : RxByte]
        BY CallingType, ZenonT(30) DEF UartInit
    <2>5. received \in Seq(RxByte) /\ returned \in Seq(RxByte)
        BY DEF UartInit
    <2>6. dropped \in BOOLEAN
        BY ZenonT(30) DEF UartInit
    <2> HIDE DEF RxPlaces
    <2> QED BY <2>3, <2>4, <2>5, <2>6, ZenonT(30) DEF UartTypeOK
<1>3. Counted /\ ReturnedOK /\ WaitingOK /\ PopOK /\ DroppedOnlyWhenFull
    BY RxRingAssumption DEF UartInit, Counted, ReturnedOK, WaitingOK, PopOK, DroppedOnlyWhenFull, Calling,
                            Left, Stored, Count
<1> QED BY <1>2, <1>3, ZenonT(30) DEF UartInv

(* irq_handler, wherever it interrupts ring_pop. *)
LEMMA HandlerKeeps ==
    ASSUME UartInv, NEW byte \in RxByte, irq_handler(byte)
    PROVE  UartInv'
<1> USE RxRingAssumption
<1>1. ring.head \in RxPlaces /\ ring.tail \in RxPlaces /\ ring.buf \in [RxPlaces -> RxByte] /\ pop.tail \in RxPlaces
    BY ZenonT(30) DEF UartInv, UartTypeOK
<1>2. /\ next_index(ring.head) \in RxPlaces
      /\ next_index(ring.head) = After(N, ring.head)
    BY <1>1, NextIndex, ZenonT(30)
<1>3. next_index(pop.tail) = After(N, pop.tail)
    BY <1>1, NextIndex, ZenonT(30)
<1>4. CASE ring_full
    <2>1. dropped' = TRUE /\ UNCHANGED <<ring, received, pop, returned>>
        BY <1>4, ZenonT(30) DEF irq_handler
    <2>2. Count(N, ring.head, ring.tail) = N - 1
        BY <1>1, <1>2, <1>4 DEF ring_full, Count, After
    <2>3. Len(received) - Len(returned) >= N - 1
        BY <2>2 DEF UartInv, UartTypeOK, Counted, Left
    <2>4. DroppedOnlyWhenFull'
        BY <2>1, <2>3, ZenonT(30) DEF DroppedOnlyWhenFull
    <2> QED BY <2>1, <2>4, ZenonT(30) DEF UartInv, UartTypeOK, Counted, ReturnedOK, WaitingOK, PopOK, Left, Stored
<1>5. CASE ~ring_full
    <2> DEFINE h == next_index(ring.head)
               c == Count(N, ring.head, ring.tail)
    <2>1. /\ ring' = [ring EXCEPT !.buf[ring.head] = byte, !.head = h]
          /\ received' = Append(received, byte) /\ dropped' = FALSE /\ UNCHANGED <<pop, returned>>
        BY <1>5, ZenonT(30) DEF irq_handler
    <2>2. /\ ring'.head = h /\ ring'.tail = ring.tail
          /\ ring'.buf = [ring.buf EXCEPT ![ring.head] = byte]
        BY <2>1, ZenonT(30) DEF UartInv, UartTypeOK
    <2>3. c \in 0 .. N - 2 /\ Count(N, h, ring.tail) = c + 1 /\ Place(N, ring.tail, c + 1) = ring.head
        <3>1. After(N, ring.head) # ring.tail
            BY <1>2, <1>5, ZenonT(30) DEF ring_full
        <3>2. c \in 0 .. N - 2
            BY <1>1, <3>1, CountGrows, ZenonT(30)
        <3>3. Count(N, After(N, ring.head), ring.tail) = c + 1
            BY <1>1, <3>1, CountGrows, ZenonT(30)
        <3>4. Place(N, ring.tail, c + 1) = ring.head
            BY <1>1, <3>1, CountGrows, ZenonT(30)
        <3> QED BY <1>2, <3>2, <3>3, <3>4, ZenonT(30)
    <2>4. \A i \in 1 .. c : Place(N, ring.tail, i) # ring.head /\ Place(N, ring.tail, i) \in RxPlaces
        BY <1>1, <1>2, <1>5, CountGrows, ZenonT(30) DEF ring_full
    <2>5. /\ received' \in Seq(RxByte) /\ Len(received') = Len(received) + 1 /\ Len(received) \in Nat
          /\ received'[Len(received) + 1] = byte /\ \A i \in 1 .. Len(received) : received'[i] = received[i]
        BY <2>1 DEF UartInv, UartTypeOK
    <2>6. Left \in Nat /\ Left' = Left /\ Len(received) = Left + c /\ Len(returned) <= Left
        BY <2>1 DEF UartInv, UartTypeOK, Left, Stored, Counted
    <2>7. UartTypeOK'
        BY <1>1, <1>2, <2>1, <2>5, ZenonT(30) DEF UartInv, UartTypeOK
    <2> HIDE DEF h, c
    <2>8. Counted'
        BY <2>2, <2>3, <2>5, <2>6 DEF Counted
    <2>9. ReturnedOK'
        <3>1. \A i \in 1 .. Len(returned) : i \in 1 .. Len(received)
            <4>1. Len(returned) \in Nat
                BY DEF UartInv, UartTypeOK
            <4> QED BY <2>3, <2>5, <2>6, <4>1
        <3> QED BY <2>1, <2>5, <3>1, ZenonT(30) DEF UartInv, ReturnedOK
    <2>10. WaitingOK'
        <3> SUFFICES ASSUME NEW i \in 1 .. c + 1 PROVE ring'.buf[Place(N, ring.tail, i)] = received'[Left + i]
            BY <2>2, <2>3, <2>6, ZenonT(30) DEF WaitingOK
        <3>1. CASE i = c + 1
            BY <1>1, <2>2, <2>3, <2>5, <2>6, <3>1
        <3>2. CASE i # c + 1
            <4>1. i \in 1 .. c
                BY <2>3, <3>2
            <4>2. ring.buf[Place(N, ring.tail, i)] = received[Left + i]
                BY <4>1, ZenonT(30) DEF UartInv, WaitingOK, c
            <4>3. Left + i \in 1 .. Len(received)
                BY <2>3, <2>6, <4>1
            <4> QED BY <1>1, <2>2, <2>4, <2>5, <4>1, <4>2, <4>3, ZenonT(30)
        <3> QED BY <3>1, <3>2, ZenonT(30)
    <2>11. PopOK'
        <3>1. pop.pc \in {"check", "read"} => pop.tail = ring.tail /\ h # ring.tail /\ c >= 1
            BY <1>1, <1>5 DEF UartInv, PopOK, ring_full, h, c, Count
        <3>2. pop.pc = "stored" => ring.head # pop.tail /\ Left \in 1 .. Len(received)
            BY <1>1, <1>2, <1>3, <1>5, <2>3, <2>6 DEF UartInv, UartTypeOK, PopOK, ring_full, After, Left, Stored
        <3>3. pop.pc = "done" => Left \in 1 .. Len(received)
            BY <2>3, <2>6 DEF UartInv, UartTypeOK, Left, Stored
        <3>4. pop.pc = "read" => Left + 1 \in 1 .. Len(received)
            BY <2>3, <2>6, <3>1
        <3> QED BY <1>1, <2>1, <2>2, <2>5, <2>6, <3>1, <3>2, <3>3, <3>4 DEF UartInv, PopOK
    <2>12. DroppedOnlyWhenFull'
        BY <2>1, ZenonT(30) DEF DroppedOnlyWhenFull
    <2> QED BY <2>7, <2>8, <2>9, <2>10, <2>11, <2>12, ZenonT(30) DEF UartInv
<1> QED BY <1>4, <1>5, ZenonT(30)

(* Each memory access of ring_pop. *)
LEMMA PopKeeps ==
    ASSUME UartInv, ring_pop
    PROVE  UartInv'
<1> USE RxRingAssumption
<1>0. dropped' = FALSE
    BY ZenonT(30) DEF ring_pop, PopCheck, PopRead, PopStore, PopReturn
<1>1. ring.head \in RxPlaces /\ ring.tail \in RxPlaces /\ ring.buf \in [RxPlaces -> RxByte] /\ pop.tail \in RxPlaces
    BY ZenonT(30) DEF UartInv, UartTypeOK
<1>2. /\ next_index(pop.tail) \in RxPlaces
      /\ next_index(pop.tail) = After(N, pop.tail)
    BY <1>1, NextIndex, ZenonT(30)
<1>3. DroppedOnlyWhenFull'
    BY <1>0, ZenonT(30) DEF DroppedOnlyWhenFull
<1>4. Len(returned) \in Nat /\ Len(received) \in Nat /\ Count(N, ring.head, ring.tail) \in Nat
    BY <1>1 DEF UartInv, UartTypeOK, Count
<1>5. CASE PopCheck
    <2>1. UartTypeOK'
        BY <1>0, <1>5, ZenonT(30) DEF PopCheck, UartInv, UartTypeOK
    <2>2. Left' = Left
        BY <1>5, ZenonT(30) DEF PopCheck, Left, Stored, UartInv, UartTypeOK
    <2>3. Counted' /\ ReturnedOK' /\ WaitingOK'
        BY <1>5, <2>2, ZenonT(30) DEF PopCheck, UartInv, Counted, ReturnedOK, WaitingOK
    <2>4. PopOK'
        BY <1>5, ZenonT(30) DEF PopCheck, UartInv, UartTypeOK, PopOK
    <2> QED BY <1>3, <2>1, <2>3, <2>4, ZenonT(30) DEF UartInv
<1>6. CASE PopRead
    <2>1. UartTypeOK'
        BY <1>0, <1>1, <1>6, ZenonT(30) DEF PopRead, UartInv, UartTypeOK
    <2>2. Left' = Left
        BY <1>6, ZenonT(30) DEF PopRead, Left, Stored, UartInv, UartTypeOK
    <2>3. Counted' /\ ReturnedOK' /\ WaitingOK'
        BY <1>6, <2>2, ZenonT(30) DEF PopRead, UartInv, Counted, ReturnedOK, WaitingOK
    <2>4. pop.pc = "check" => ring.buf[ring.tail] = received[Left + 1]
        <3>1. pop.pc = "check" => Count(N, ring.head, ring.tail) >= 1 /\ Place(N, ring.tail, 1) = ring.tail
            BY <1>1 DEF UartInv, PopOK, Count, Place
        <3> QED BY <1>4, <3>1 DEF UartInv, WaitingOK
    <2>5. PopOK'
        BY <1>6, <2>2, <2>4, ZenonT(30) DEF PopRead, UartInv, UartTypeOK, PopOK
    <2> QED BY <1>3, <2>1, <2>3, <2>5, ZenonT(30) DEF UartInv
<1>7. CASE PopStore
    <2> DEFINE t == next_index(pop.tail)
               c == Count(N, ring.head, ring.tail)
    <2>1. /\ ring'.head = ring.head /\ ring'.tail = t /\ ring'.buf = ring.buf
          /\ UNCHANGED <<received, returned>>
        BY <1>7, ZenonT(30) DEF PopStore, UartInv, UartTypeOK
    <2>2. pop.tail = ring.tail /\ ring.head # ring.tail /\ pop.pc \in {"check", "read"}
        BY <1>7, ZenonT(30) DEF PopStore, UartInv, PopOK
    <2>3. Left' = Left + 1 /\ Left \in Nat
        BY <1>4, <1>7, <2>1, <2>2 DEF PopStore, Left, Stored, UartInv, UartTypeOK
    <2>a. t = After(N, ring.tail)
        BY <1>2, <2>2, ZenonT(30)
    <2>b. /\ c \in 1 .. N - 1
          /\ Count(N, ring.head, After(N, ring.tail)) = c - 1
          /\ Place(N, ring.tail, 1) = ring.tail
          /\ \A i \in 1 .. c - 1 : Place(N, After(N, ring.tail), i) = Place(N, ring.tail, i + 1)
        BY <1>1, <2>2, CountShrinks, ZenonT(30)
    <2>4. c >= 1 /\ Count(N, ring.head, t) = c - 1 /\ c \in Nat /\ Place(N, ring.tail, 1) = ring.tail
        BY <2>a, <2>b
    <2>5. \A i \in 1 .. c - 1 : Place(N, t, i) = Place(N, ring.tail, i + 1)
        BY <2>a, <2>b, ZenonT(30)
    <2>6. UartTypeOK'
        BY <1>0, <1>2, <1>7, ZenonT(30) DEF PopStore, UartInv, UartTypeOK
    <2>7. ring.buf[ring.tail] = received[Left + 1]
        BY <2>4 DEF UartInv, WaitingOK
    <2> HIDE DEF t, c
    <2>8. Counted'
        BY <1>4, <2>1, <2>3, <2>4 DEF UartInv, Counted, c
    <2>9. ReturnedOK'
        BY <2>1, ZenonT(30) DEF UartInv, ReturnedOK
    <2>10. WaitingOK'
        <3> SUFFICES ASSUME NEW i \in 1 .. c - 1 PROVE ring.buf[Place(N, t, i)] = received[Left + 1 + i]
            BY <2>1, <2>3, <2>4, ZenonT(30) DEF WaitingOK
        <3>1. ring.buf[Place(N, ring.tail, i + 1)] = received[Left + (i + 1)]
            BY <2>4 DEF UartInv, WaitingOK, c
        <3> QED BY <2>3, <2>5, <3>1
    <2>11. PopOK'
        <3>1. /\ pop' = [pop EXCEPT !.pc = IF pop.pc = "check" THEN "stored" ELSE "done"]
              /\ pop \in [pc : {"call", "check", "read", "stored", "done"}, tail : RxPlaces, byte : RxByte]
            BY <1>7, ZenonT(30) DEF PopStore, UartInv, UartTypeOK
        <3>2. pop.pc = "read" => pop.byte = received[Left + 1]
            BY ZenonT(30) DEF UartInv, PopOK
        <3> QED BY <2>1, <2>2, <2>3, <2>7, <3>1, <3>2, ZenonT(30) DEF PopOK, t
    <2> QED BY <1>3, <2>6, <2>8, <2>9, <2>10, <2>11, ZenonT(30) DEF UartInv
<1>8. CASE PopReturn
    <2>1. returned' = Append(returned, pop.byte) /\ pop' = Calling /\ UNCHANGED <<ring, received>> /\ pop.pc = "done"
        BY <1>8, ZenonT(30) DEF PopReturn
    <2>2. /\ returned' \in Seq(RxByte) /\ Len(returned') = Len(returned) + 1
          /\ returned'[Len(returned) + 1] = pop.byte /\ \A i \in 1 .. Len(returned) : returned'[i] = returned[i]
        BY <2>1 DEF UartInv, UartTypeOK
    <2>3. Left' = Left /\ Left = Len(returned) + 1
        BY <1>4, <2>1, <2>2 DEF Left, Stored, Calling
    <2>4. UartTypeOK'
        <3>1. RxByte # {}
            BY ZenonT(30) DEF UartInv, UartTypeOK
        <3> QED BY <1>0, <2>1, <2>2, <3>1, CallingType, ZenonT(30) DEF UartInv, UartTypeOK
    <2>5. Counted' /\ WaitingOK'
        BY <2>1, <2>3, ZenonT(30) DEF UartInv, Counted, WaitingOK
    <2>6. ReturnedOK'
        BY <1>4, <2>1, <2>2, <2>3 DEF UartInv, ReturnedOK, PopOK
    <2>7. PopOK'
        BY <2>1, ZenonT(30) DEF PopOK, Calling
    <2> QED BY <1>3, <2>4, <2>5, <2>6, <2>7, ZenonT(30) DEF UartInv
<1> QED BY <1>5, <1>6, <1>7, <1>8, ZenonT(30) DEF ring_pop

(* Every step of the driver. *)
LEMMA UartInvStep == UartInv /\ [UartNext]_uartVars => UartInv'
<1> SUFFICES ASSUME UartInv, [UartNext]_uartVars PROVE UartInv'
    BY ZenonT(30)
<1>1. CASE UNCHANGED uartVars
    BY <1>1, ZenonT(30) DEF uartVars, UartInv, UartTypeOK, Counted, ReturnedOK, WaitingOK, PopOK, DroppedOnlyWhenFull, Left, Stored
<1> QED BY <1>1, HandlerKeeps, PopKeeps, ZenonT(30) DEF UartNext

(* The invariant, byte by byte, as an equation between sequences. *)
LEMMA InvGivesOrder == UartInv => BytesInOrder
<1> SUFFICES ASSUME UartInv, pop.pc = "call" PROVE received = returned \o Waiting
    BY ZenonT(30) DEF BytesInOrder
<1> DEFINE c == Count(N, ring.head, ring.tail)
           W == Waiting
<1>1. ring.head \in RxPlaces /\ ring.tail \in RxPlaces /\ ring.buf \in [RxPlaces -> RxByte]
    BY ZenonT(30) DEF UartInv, UartTypeOK
<1>2. c \in 0 .. N - 1 /\ Held = c
    BY <1>1, CountMod, RxRingAssumption, ZenonT(30) DEF Held
<1>3. Left = Len(returned) /\ Len(received) = Len(returned) + c /\ Len(returned) \in Nat
    BY DEF UartInv, UartTypeOK, Counted, Left, Stored
<1> HIDE DEF c
<1>4. \A i \in 1 .. c : i \in 1 .. N
    BY <1>2, RxRingAssumption
<1>5. \A i \in 1 .. c : (ring.tail + i - 1) % N = Place(N, ring.tail, i) /\ Place(N, ring.tail, i) \in RxPlaces
    BY <1>1, <1>4, PlaceMod, RxRingAssumption, ZenonT(30)
<1>6. \A i \in 1 .. c : ring.buf[(ring.tail + i - 1) % N] = received[Len(returned) + i]
    BY <1>3, <1>5, ZenonT(30) DEF UartInv, WaitingOK, c
<1>7. W = [i \in 1 .. c |-> received[Len(returned) + i]]
    BY <1>2, <1>6, ZenonT(30) DEF Waiting
<1>8. \A i \in 1 .. c : received[Len(returned) + i] \in RxByte
    BY <1>1, <1>5, <1>6, ZenonT(30)
<1>9. W \in Seq(RxByte) /\ Len(W) = c /\ \A i \in 1 .. c : W[i] = received[Len(returned) + i]
    BY <1>2, <1>7, <1>8
<1> HIDE DEF W
<1> DEFINE S == returned \o W
<1>10. returned \in Seq(RxByte) /\ received \in Seq(RxByte)
    BY ZenonT(30) DEF UartInv, UartTypeOK
<1>11. /\ S \in Seq(RxByte) /\ Len(S) = Len(returned) + Len(W)
       /\ \A i \in 1 .. Len(returned) + Len(W) :
             S[i] = IF i <= Len(returned) THEN returned[i] ELSE W[i - Len(returned)]
    BY <1>9, <1>10, ConcatProperties, ZenonT(30)
<1> HIDE DEF S
<1>12. ASSUME NEW i \in 1 .. Len(received) PROVE received[i] = S[i]
    <2>1. CASE i <= Len(returned)
        BY <1>2, <1>3, <1>9, <1>11, <2>1 DEF UartInv, ReturnedOK
    <2>2. CASE ~(i <= Len(returned))
        <3>1. i - Len(returned) \in 1 .. c /\ Len(returned) + (i - Len(returned)) = i
            BY <1>2, <1>3, <2>2
        <3>2. S[i] = W[i - Len(returned)]
            BY <1>2, <1>3, <1>9, <1>11, <2>2, ZenonT(30)
        <3> HIDE DEF S
        <3> QED BY <1>9, <3>1, <3>2, ZenonT(30)
    <2> QED BY <2>1, <2>2, ZenonT(30)
<1>13. received = S
    BY <1>3, <1>9, <1>10, <1>11, <1>12, SeqEqual, ZenonT(30)
<1> QED BY <1>13, ZenonT(30) DEF S, W

(* irq_handler and ring_pop lose, repeat and reorder nothing that was        *)
(* accepted.                                                                 *)
THEOREM UartBytesInOrder == RxByte # {} /\ UartSpec => []BytesInOrder
<1> QED BY UartInvInit, UartInvStep, InvGivesOrder, PTL DEF UartSpec

(* irq_handler drops a byte only when all places but one are taken. *)
THEOREM UartDropsWhenFull == RxByte # {} /\ UartSpec => []DroppedOnlyWhenFull
<1>1. UartInv => DroppedOnlyWhenFull
    BY ZenonT(30) DEF UartInv
<1> QED BY UartInvInit, UartInvStep, <1>1, PTL DEF UartSpec

-----------------------------------------------------------------------------
(* The DMA ring *)

DmaTypeOK ==
    /\ descriptors \in [Descriptor -> Transfer \cup {Blank}]
    /\ dma_head \in Descriptor /\ dma_tail \in Descriptor
    /\ driver \in [pc : {"idle", "check", "write", "store", "has_completed", "capacity"},
                   loaded : Descriptor, transfer : Transfer \cup {Blank}]
    /\ driver.pc \in {"check", "write", "store"} => driver.transfer \in Transfer
    /\ answer.call = "capacity" => answer.result \in Nat
    /\ submitted \in Seq(Transfer) /\ performed \in Seq(Transfer)

(* The inductive invariant, transfer by transfer.  A driver that has found   *)
(* room keeps it, for the engine only makes more; one that loaded head       *)
(* counts at least the transfers that are still waiting, namely those that   *)
(* waited then.                                                              *)
Queued == Count(RingSize, dma_tail, dma_head)
QueueCounted == Len(submitted) = Len(performed) + Queued
PerformedOK == \A i \in 1 .. Len(performed) : performed[i] = submitted[i]
QueuedOK ==
    \A i \in 1 .. Queued : descriptors[Place(RingSize, dma_head, i)] = submitted[Len(performed) + i]
DriverOK ==
    /\ driver.pc \in {"check", "write", "store"} => driver.loaded = dma_tail
    /\ driver.pc \in {"write", "store"} => After(RingSize, dma_tail) # dma_head
    /\ driver.pc = "store" => descriptors[dma_tail] = driver.transfer
    /\ driver.pc \in {"has_completed", "capacity"} => Queued <= Count(RingSize, dma_tail, driver.loaded)
SeenOK ==
    driver.pc \in {"has_completed", "capacity"} =>
        seen \in Nat /\ seen + Count(RingSize, dma_tail, driver.loaded) = Len(submitted)
DmaInv == DmaTypeOK /\ QueueCounted /\ PerformedOK /\ QueuedOK /\ DriverOK /\ SeenOK /\ AnswersAreSafe

(* The ring starts empty. *)
LEMMA DmaInvInit == DmaInit => DmaInv
<1> SUFFICES ASSUME DmaInit PROVE DmaInv
    BY ZenonT(30)
<1>1. 0 \in Descriptor
    BY RingAssumption DEF Descriptor
<1>2. DmaTypeOK
    BY <1>1 DEF DmaInit, DmaTypeOK, AtRest, NoAnswer
<1>3. Queued = 0
    BY DEF DmaInit, Queued, Count
<1>4. QueueCounted /\ PerformedOK /\ QueuedOK
    BY <1>3 DEF DmaInit, QueueCounted, PerformedOK, QueuedOK
<1>5. DriverOK /\ SeenOK /\ AnswersAreSafe
    BY ZenonT(30) DEF DmaInit, DriverOK, SeenOK, AnswersAreSafe, AtRest, NoAnswer
<1> QED BY <1>2, <1>4, <1>5, ZenonT(30) DEF DmaInv

(* Facts about the ring in a state of the invariant. *)
LEMMA DmaFacts ==
    ASSUME DmaInv
    PROVE  /\ dma_head \in Places(RingSize) /\ dma_tail \in Places(RingSize) /\ driver.loaded \in Places(RingSize)
           /\ Queued \in 0 .. RingSize - 1 /\ Outstanding = Queued
           /\ Len(submitted) \in Nat /\ Len(performed) \in Nat
<1>1. dma_head \in Places(RingSize) /\ dma_tail \in Places(RingSize) /\ driver.loaded \in Places(RingSize)
    BY ZenonT(30) DEF DmaInv, DmaTypeOK, Descriptor
<1>2. Queued \in 0 .. RingSize - 1
    BY <1>1, CountMod, RingAssumption, ZenonT(30) DEF Queued
<1>3. Len(submitted) \in Nat /\ Len(performed) \in Nat
    BY DEF DmaInv, DmaTypeOK
<1> QED BY <1>1, <1>2, <1>3 DEF DmaInv, QueueCounted, Outstanding

(* The engine carries out the oldest transfer, between any two accesses of   *)
(* the driver.                                                               *)
LEMMA EngineKeeps ==
    ASSUME DmaInv, EngineStep
    PROVE  DmaInv'
<1> DEFINE n == After(RingSize, dma_head)
           q == Queued
<1>1. /\ dma_head \in Places(RingSize) /\ dma_tail \in Places(RingSize) /\ driver.loaded \in Places(RingSize)
      /\ q \in 0 .. RingSize - 1 /\ Outstanding = q
      /\ Len(submitted) \in Nat /\ Len(performed) \in Nat
    BY DmaFacts, ZenonT(30)
<1>2. dma_head' = n /\ n \in Places(RingSize)
    BY <1>1, AfterMod, RingAssumption, ZenonT(30) DEF EngineStep
<1>3. /\ dma_head # dma_tail
      /\ performed' = Append(performed, descriptors[dma_head])
      /\ UNCHANGED <<descriptors, dma_tail, driver, answer, submitted, seen>>
    BY ZenonT(30) DEF EngineStep
<1>4. /\ q \in 1 .. RingSize - 1 /\ Count(RingSize, dma_tail, n) = q - 1
      /\ Place(RingSize, dma_head, 1) = dma_head
      /\ \A i \in 1 .. q - 1 : Place(RingSize, n, i) = Place(RingSize, dma_head, i + 1)
    BY <1>1, <1>3, CountShrinks, RingAssumption, ZenonT(30) DEF Queued
<1>5. Queued' = q - 1
    BY <1>2, <1>3, <1>4, ZenonT(30) DEF Queued
<1> HIDE DEF n
<1>6. descriptors[dma_head] = submitted[Len(performed) + 1]
    BY <1>4 DEF DmaInv, QueuedOK
<1>7. Len(performed) + 1 \in 1 .. Len(submitted)
    BY <1>1, <1>4 DEF DmaInv, QueueCounted
<1>8. descriptors[dma_head] \in Transfer
    BY <1>6, <1>7 DEF DmaInv, DmaTypeOK
<1>9. /\ performed' \in Seq(Transfer) /\ Len(performed') = Len(performed) + 1
      /\ performed'[Len(performed) + 1] = submitted[Len(performed) + 1]
      /\ \A i \in 1 .. Len(performed) : performed'[i] = performed[i]
    BY <1>3, <1>6, <1>8 DEF DmaInv, DmaTypeOK
<1>10. DmaTypeOK'
    BY <1>2, <1>3, <1>9, ZenonT(30) DEF DmaInv, DmaTypeOK, Descriptor
<1>11. QueueCounted'
    <2>1. Len(submitted) = Len(performed) + q
        BY ZenonT(30) DEF DmaInv, QueueCounted
    <2>2. Len(submitted') = Len(submitted) /\ Len(performed') = Len(performed) + 1
        BY <1>3, <1>9, ZenonT(30)
    <2> HIDE DEF q
    <2>3. Len(submitted') = Len(performed') + (q - 1)
        BY <1>1, <2>1, <2>2
    <2> QED BY <1>5, <2>3, ZenonT(30) DEF QueueCounted
<1>12. PerformedOK'
    BY <1>1, <1>3, <1>9 DEF DmaInv, PerformedOK
<1>13. QueuedOK'
    <2> SUFFICES ASSUME NEW i \in 1 .. q - 1
                 PROVE  descriptors[Place(RingSize, n, i)] = submitted[Len(performed) + 1 + i]
        BY <1>2, <1>3, <1>5, <1>9, ZenonT(30) DEF QueuedOK
    <2>1. descriptors[Place(RingSize, dma_head, i + 1)] = submitted[Len(performed) + (i + 1)]
        BY <1>4 DEF DmaInv, QueuedOK
    <2> QED BY <1>1, <1>4, <2>1
<1>14. DriverOK'
    <2>1. After(RingSize, dma_tail) # n
        BY <1>1, <1>3, RingAssumption DEF After, n
    <2>2. Count(RingSize, dma_tail, driver.loaded) \in 0 .. RingSize - 1
        BY <1>1, CountMod, RingAssumption, ZenonT(30)
    <2>3. driver.pc \in {"has_completed", "capacity"} => q - 1 <= Count(RingSize, dma_tail, driver.loaded)
        BY <1>4, <2>2 DEF DmaInv, DriverOK
    <2> QED BY <1>2, <1>3, <1>5, <2>1, <2>3, ZenonT(30) DEF DmaInv, DriverOK
<1>15. AnswersAreSafe'
    <2>1. Outstanding' = q - 1
        BY <1>1, <1>3, <1>9 DEF Outstanding
    <2>2. answer.call = "has_completed" => answer.result /\ (answer.result <=> seen < Len(submitted))
        <3>1. Outstanding # 0
            BY <1>1, <1>4
        <3> QED BY <3>1, ZenonT(30) DEF DmaInv, AnswersAreSafe
    <2>3. answer.call = "capacity" => answer.result <= RingSize - 1 - (q - 1)
        BY <1>1, <1>4, RingAssumption DEF DmaInv, AnswersAreSafe, DmaTypeOK
    <2> QED BY <1>3, <2>1, <2>2, <2>3, ZenonT(30) DEF AnswersAreSafe
<1>16. SeenOK'
    BY <1>3, ZenonT(30) DEF DmaInv, SeenOK
<1> QED BY <1>10, <1>11, <1>12, <1>13, <1>14, <1>15, <1>16, ZenonT(30) DEF DmaInv

(* submit_transfer up to its last access: nothing is queued yet.             *)
LEMMA SubmitKeeps ==
    ASSUME DmaInv,
           \/ \E t \in Transfer : SubmitLoadTail(t)
           \/ SubmitCheckHead
           \/ SubmitWrite
    PROVE  DmaInv'
<1>1. /\ dma_head \in Places(RingSize) /\ dma_tail \in Places(RingSize)
      /\ Queued \in 0 .. RingSize - 1 /\ Len(performed) \in Nat
    BY DmaFacts, ZenonT(30)
<1>2. 0 \in Descriptor
    BY RingAssumption DEF Descriptor
<1>3. ASSUME NEW t \in Transfer, SubmitLoadTail(t) PROVE DmaInv'
    <2>1. DmaTypeOK'
        BY <1>3, ZenonT(30) DEF SubmitLoadTail, ringVars, DmaInv, DmaTypeOK, NoAnswer
    <2>2. QueueCounted' /\ PerformedOK' /\ QueuedOK'
        BY <1>3, ZenonT(30) DEF SubmitLoadTail, ringVars, DmaInv, QueueCounted, PerformedOK, QueuedOK, Queued
    <2>3. DriverOK' /\ SeenOK' /\ AnswersAreSafe'
        BY <1>3, ZenonT(30) DEF SubmitLoadTail, ringVars, DriverOK, SeenOK, AnswersAreSafe, NoAnswer
    <2> QED BY <2>1, <2>2, <2>3, ZenonT(30) DEF DmaInv
<1>4. CASE SubmitCheckHead
    <2>1. DmaTypeOK'
        BY <1>2, <1>4 DEF SubmitCheckHead, ringVars, DmaInv, DmaTypeOK, AtRest
    <2>2. QueueCounted' /\ PerformedOK' /\ QueuedOK'
        BY <1>4, ZenonT(30) DEF SubmitCheckHead, ringVars, DmaInv, QueueCounted, PerformedOK, QueuedOK, Queued
    <2>3. (dma_tail + 1) % RingSize = After(RingSize, dma_tail)
        BY <1>1, AfterMod, RingAssumption, ZenonT(30)
    <2>4. DriverOK'
        BY <1>4, <2>3 DEF SubmitCheckHead, ringVars, DmaInv, DmaTypeOK, DriverOK, AtRest
    <2>5. AnswersAreSafe'
        BY <1>4 DEF SubmitCheckHead, ringVars, DmaInv, AnswersAreSafe, Outstanding
    <2>6. driver'.pc \in {"idle", "write"}
        BY <1>4 DEF SubmitCheckHead, DmaInv, DmaTypeOK, AtRest
    <2>7. SeenOK'
        BY <2>6 DEF SeenOK
    <2> QED BY <2>1, <2>2, <2>4, <2>5, <2>7, ZenonT(30) DEF DmaInv
<1>5. CASE SubmitWrite
    <2>1. /\ driver.pc = "write" /\ driver.loaded = dma_tail /\ After(RingSize, dma_tail) # dma_head
          /\ descriptors' = [descriptors EXCEPT ![dma_tail] = driver.transfer]
          /\ driver' = [driver EXCEPT !.pc = "store"]
          /\ UNCHANGED <<dma_head, dma_tail, answer, submitted, performed, seen>>
        BY <1>5, ZenonT(30) DEF SubmitWrite, DmaInv, DriverOK
    <2>2. DmaTypeOK'
        BY <1>1, <2>1, ZenonT(30) DEF DmaInv, DmaTypeOK, Descriptor
    <2>3. QueueCounted' /\ PerformedOK' /\ AnswersAreSafe'
        BY <2>1, ZenonT(30) DEF DmaInv, QueueCounted, PerformedOK, AnswersAreSafe, Outstanding, Queued
    <2>4. \A i \in 1 .. Queued : Place(RingSize, dma_head, i) # dma_tail
        BY <1>1, <2>1, CountGrows, RingAssumption DEF Queued
    <2>5. QueuedOK'
        <3> SUFFICES ASSUME NEW i \in 1 .. Queued
                     PROVE  descriptors'[Place(RingSize, dma_head, i)] = submitted[Len(performed) + i]
            BY <2>1, ZenonT(30) DEF QueuedOK, Queued
        <3>1. Place(RingSize, dma_head, i) \in Descriptor
            BY <1>1, <2>1, CountGrows, RingAssumption, ZenonT(30) DEF Queued, Descriptor
        <3> QED BY <2>1, <2>4, <3>1, ZenonT(30) DEF DmaInv, DmaTypeOK, QueuedOK
    <2>6. DriverOK' /\ SeenOK'
        BY <2>1, ZenonT(30) DEF DmaInv, DmaTypeOK, DriverOK, SeenOK
    <2> QED BY <2>2, <2>3, <2>5, <2>6, ZenonT(30) DEF DmaInv
<1> QED BY <1>3, <1>4, <1>5, ZenonT(30)

(* submit_transfer's last access hands the descriptor to the engine.         *)
LEMMA StoreTailKeeps ==
    ASSUME DmaInv, SubmitStoreTail
    PROVE  DmaInv'
<1> DEFINE n == After(RingSize, dma_tail)
           q == Queued
<1>1. /\ dma_head \in Places(RingSize) /\ dma_tail \in Places(RingSize)
      /\ Len(submitted) \in Nat /\ Len(performed) \in Nat
    BY DmaFacts, ZenonT(30)
<1>2. /\ driver.pc = "store" /\ driver.loaded = dma_tail /\ n # dma_head
      /\ descriptors[dma_tail] = driver.transfer /\ driver.transfer \in Transfer
    BY ZenonT(30) DEF SubmitStoreTail, DmaInv, DmaTypeOK, DriverOK
<1>3. dma_tail' = n /\ n \in Places(RingSize)
    BY <1>1, <1>2, AfterMod, RingAssumption, ZenonT(30) DEF SubmitStoreTail
<1>4. /\ driver' = AtRest /\ answer' = [call |-> "submit_transfer", ok |-> TRUE]
      /\ submitted' = Append(submitted, driver.transfer)
      /\ UNCHANGED <<descriptors, dma_head, performed>>
    BY ZenonT(30) DEF SubmitStoreTail
<1>5. /\ q \in 0 .. RingSize - 2 /\ Count(RingSize, n, dma_head) = q + 1
      /\ Place(RingSize, dma_head, q + 1) = dma_tail
    BY <1>1, <1>2, CountGrows, RingAssumption DEF Queued
<1>6. Queued' = q + 1
    BY <1>3, <1>4, <1>5, ZenonT(30) DEF Queued
<1> HIDE DEF n
<1>7. /\ submitted' \in Seq(Transfer) /\ Len(submitted') = Len(submitted) + 1
      /\ submitted'[Len(submitted) + 1] = driver.transfer
      /\ \A i \in 1 .. Len(submitted) : submitted'[i] = submitted[i]
    BY <1>2, <1>4 DEF DmaInv, DmaTypeOK
<1>8. Len(submitted) = Len(performed) + q
    BY ZenonT(30) DEF DmaInv, QueueCounted
<1>9. DmaTypeOK'
    <2>1. AtRest.pc = "idle" /\ AtRest \in [pc : {"idle"}, loaded : Descriptor, transfer : {Blank}]
        BY RingAssumption DEF AtRest, Descriptor
    <2> QED BY <1>3, <1>4, <1>7, <2>1, ZenonT(30) DEF DmaInv, DmaTypeOK, Descriptor
<1>10. QueueCounted'
    BY <1>1, <1>4, <1>5, <1>6, <1>7, <1>8 DEF QueueCounted
<1>11. PerformedOK'
    BY <1>1, <1>4, <1>5, <1>7, <1>8 DEF DmaInv, PerformedOK
<1>12. QueuedOK'
    <2> SUFFICES ASSUME NEW i \in 1 .. q + 1
                 PROVE  descriptors[Place(RingSize, dma_head, i)] = submitted'[Len(performed) + i]
        BY <1>4, <1>6, ZenonT(30) DEF QueuedOK
    <2>1. CASE i = q + 1
        BY <1>1, <1>2, <1>5, <1>7, <1>8, <2>1
    <2>2. CASE i # q + 1
        <3>1. i \in 1 .. q /\ Len(performed) + i \in 1 .. Len(submitted)
            BY <1>1, <1>5, <1>8, <2>2
        <3> QED BY <1>7, <3>1, ZenonT(30) DEF DmaInv, QueuedOK
    <2> QED BY <2>1, <2>2, ZenonT(30)
<1>13. DriverOK' /\ SeenOK' /\ AnswersAreSafe'
    BY <1>4, ZenonT(30) DEF DriverOK, SeenOK, AnswersAreSafe, AtRest
<1> QED BY <1>9, <1>10, <1>11, <1>12, <1>13, ZenonT(30) DEF DmaInv

(* has_completed and capacity: the head they loaded may be old, the tail is  *)
(* the driver's own.                                                         *)
LEMMA QueryKeeps ==
    ASSUME DmaInv,
           \/ \E call \in {"has_completed", "capacity"} : LoadHead(call)
           \/ HasCompleted
           \/ CapacityAnswer
    PROVE  DmaInv'
<1> DEFINE k == Count(RingSize, dma_tail, driver.loaded)
<1>1. /\ dma_head \in Places(RingSize) /\ dma_tail \in Places(RingSize) /\ driver.loaded \in Places(RingSize)
      /\ Queued \in 0 .. RingSize - 1 /\ Outstanding = Queued
    BY DmaFacts, ZenonT(30)
<1>2. UNCHANGED <<descriptors, dma_head, dma_tail, submitted, performed>>
    BY ZenonT(30) DEF LoadHead, HasCompleted, CapacityAnswer, ringVars
<1>3. Queued' = Queued /\ Outstanding' = Queued
    BY <1>1, <1>2, ZenonT(30) DEF Queued, Outstanding
<1>4. QueueCounted' /\ PerformedOK' /\ QueuedOK'
    BY <1>2, <1>3, ZenonT(30) DEF DmaInv, QueueCounted, PerformedOK, QueuedOK
<1>5. k \in 0 .. RingSize - 1
    BY <1>1, CountMod, RingAssumption, ZenonT(30)
<1>6. AtRest \in [pc : {"idle"}, loaded : Descriptor, transfer : {Blank}]
    BY RingAssumption DEF AtRest, Descriptor
<1>7. ASSUME NEW call \in {"has_completed", "capacity"}, LoadHead(call) PROVE DmaInv'
    <2>1. /\ driver' = [pc |-> call, loaded |-> dma_head, transfer |-> Blank] /\ answer' = NoAnswer
          /\ seen' = Len(performed)
        BY <1>7, ZenonT(30) DEF LoadHead, AtRest
    <2>2. DmaTypeOK'
        BY <1>2, <2>1, ZenonT(30) DEF DmaInv, DmaTypeOK, NoAnswer
    <2>3. DriverOK'
        BY <1>1, <1>2, <2>1 DEF DriverOK, Queued
    <2>4. AnswersAreSafe'
        BY <2>1, ZenonT(30) DEF AnswersAreSafe, NoAnswer
    <2>5. driver'.loaded = dma_head
        BY <2>1, ZenonT(30)
    <2>6. Len(performed) \in Nat /\ Len(performed) + Queued = Len(submitted)
        BY <1>1, DmaFacts DEF DmaInv, QueueCounted
    <2>7. SeenOK'
        BY <1>2, <2>1, <2>5, <2>6, ZenonT(30) DEF SeenOK, Queued
    <2> QED BY <1>4, <2>2, <2>3, <2>4, <2>7, ZenonT(30) DEF DmaInv
<1>8. CASE HasCompleted
    <2>1. /\ driver' = AtRest /\ driver.pc = "has_completed" /\ seen' = seen
          /\ answer' = [call |-> "has_completed", result |-> driver.loaded # dma_tail]
        BY <1>8, ZenonT(30) DEF HasCompleted
    <2>2. DmaTypeOK'
        BY <1>2, <1>6, <2>1, ZenonT(30) DEF DmaInv, DmaTypeOK
    <2>3. DriverOK' /\ SeenOK'
        BY <2>1, ZenonT(30) DEF DriverOK, SeenOK, AtRest
    <2>4. driver.loaded = dma_tail => Queued = 0
        BY <1>1, <1>5, <2>1 DEF DmaInv, DriverOK, Count
    <2>5. answer'.call = "has_completed" /\ (answer'.result <=> driver.loaded # dma_tail)
        BY <2>1, ZenonT(30)
    <2>6. driver.loaded # dma_tail <=> seen < Len(submitted)
        <3>1. seen \in Nat /\ seen + k = Len(submitted)
            BY <2>1, ZenonT(30) DEF DmaInv, SeenOK
        <3>2. driver.loaded # dma_tail <=> k # 0
            BY <1>1, RingAssumption DEF Count
        <3> HIDE DEF k
        <3> QED BY <1>5, <3>1, <3>2
    <2>7. AnswersAreSafe'
        BY <1>2, <1>3, <2>1, <2>4, <2>5, <2>6, ZenonT(30) DEF AnswersAreSafe
    <2> QED BY <1>4, <2>2, <2>3, <2>7, ZenonT(30) DEF DmaInv
<1>9. CASE CapacityAnswer
    <2> DEFINE f == free_slots(driver.loaded, dma_tail)
               x == driver.loaded + RingSize - dma_tail - 1
    <2>1. /\ driver' = AtRest /\ driver.pc = "capacity"
          /\ answer' = [call |-> "capacity", result |-> f]
        BY <1>9, ZenonT(30) DEF CapacityAnswer
    <2>2. x \in 0 .. 2 * RingSize - 1 /\ f = x % RingSize
        BY <1>1, RingAssumption DEF free_slots
    <2>3. (IF x < RingSize THEN x ELSE x - RingSize) = RingSize - 1 - k
        BY <1>1, RingAssumption DEF Count
    <2> HIDE DEF x, f
    <2>4. f = RingSize - 1 - k
        BY <2>2, <2>3, RingMod, RingAssumption, ZenonT(30)
    <2> HIDE DEF k
    <2>5. Queued <= k
        BY <2>1, ZenonT(30) DEF DmaInv, DriverOK, k
    <2>6. f \in Nat /\ f <= RingSize - 1 - Queued
        BY <1>1, <1>5, <2>4, <2>5, RingAssumption
    <2>7. DmaTypeOK'
        BY <1>2, <1>6, <2>1, <2>6, ZenonT(30) DEF DmaInv, DmaTypeOK
    <2>8. DriverOK' /\ SeenOK'
        BY <2>1, ZenonT(30) DEF DriverOK, SeenOK, AtRest
    <2>9. AnswersAreSafe'
        BY <1>3, <2>1, <2>6, ZenonT(30) DEF AnswersAreSafe
    <2> QED BY <1>4, <2>7, <2>8, <2>9, ZenonT(30) DEF DmaInv
<1> QED BY <1>7, <1>8, <1>9, ZenonT(30)

(* Every step of the driver and of the engine. *)
LEMMA DmaInvStep == DmaInv /\ [DmaNext]_dmaVars => DmaInv'
<1> SUFFICES ASSUME DmaInv, [DmaNext]_dmaVars PROVE DmaInv'
    BY ZenonT(30)
<1>1. CASE UNCHANGED dmaVars
    BY <1>1, ZenonT(30) DEF dmaVars, DmaInv, DmaTypeOK, QueueCounted, PerformedOK, QueuedOK, DriverOK, SeenOK, AnswersAreSafe,
                Queued, Outstanding
<1> QED BY <1>1, EngineKeeps, SubmitKeeps, StoreTailKeeps, QueryKeeps, ZenonT(30) DEF DmaNext

(* submit_transfer against the engine: every accepted transfer is carried    *)
(* out once, in order and whole, and never more than RingSize - 1 wait.      *)
THEOREM DmaTransfersInOrder == DmaSpec => []TransfersInOrder
<1>1. DmaInv => TransfersInOrder
    <2> SUFFICES ASSUME DmaInv PROVE TransfersInOrder
        BY ZenonT(30)
    <2>1. Outstanding \in 0 .. RingSize - 1
        BY DmaFacts, ZenonT(30)
    <2>2. DOMAIN performed = 1 .. Len(performed)
        BY DEF DmaInv, DmaTypeOK
    <2> QED BY <2>1, <2>2, ZenonT(30) DEF TransfersInOrder, DmaInv, PerformedOK
<1> QED BY DmaInvInit, DmaInvStep, <1>1, PTL DEF DmaSpec

(* capacity is never more than the room there is, has_completed is true      *)
(* exactly if a transfer was waiting when head was loaded, and false means   *)
(* that all have been carried out, while the engine goes on.                 *)
THEOREM DmaAnswersAreSafe == DmaSpec => []AnswersAreSafe
<1>1. DmaInv => AnswersAreSafe
    BY ZenonT(30) DEF DmaInv
<1> QED BY DmaInvInit, DmaInvStep, <1>1, PTL DEF DmaSpec

-----------------------------------------------------------------------------
(* The console's line editor. *)

Cells == Printable \cup {"nul"}

ConsoleTypeOK ==
    /\ line_buf \in [1 .. LineMax -> Cells]
    /\ line_len \in 0 .. LineMax
    /\ state \in {"drain", "idle", "reading", "evaluating", "printing", "waiting"}

(* Strengthening: while a line is executed the buffer is already empty. *)
ConsoleInv ==
    ConsoleTypeOK /\ EchoMatchesLine /\ (state \in {"printing", "waiting"} => line_len = 0)

(* The first n cells of a buffer, as a sequence. *)
LEMMA PrefixCells ==
    ASSUME NEW b \in [1 .. LineMax -> Cells], NEW n \in 0 .. LineMax
    PROVE  /\ SubSeq(b, 1, n) \in Seq(Cells) /\ Len(SubSeq(b, 1, n)) = n
           /\ \A k \in 1 .. n : SubSeq(b, 1, n)[k] = b[k]
<1>1. n \in Int /\ n \in Nat /\ 1 \in Int /\ \A k \in 1 .. n : b[k] \in Cells
    BY LineMaxAssumption
<1>2. /\ SubSeq(b, 1, n) \in Seq(Cells)
      /\ Len(SubSeq(b, 1, n)) = IF 1 <= n THEN n - 1 + 1 ELSE 0
      /\ \A k \in 1 .. n - 1 + 1 : SubSeq(b, 1, n)[k] = b[1 + k - 1]
    BY ONLY <1>1, SubSeqProperties, SMTT(30)
<1>3. n - 1 + 1 = n /\ (IF 1 <= n THEN n - 1 + 1 ELSE 0) = n /\ \A k \in 1 .. n : 1 + k - 1 = k
    BY ONLY <1>1, SMTT(30)
<1> QED BY <1>2, <1>3, ZenonT(30)

(* Erasing the last cell shown is the line with one cell less. *)
LEMMA BackspaceShows ==
    ASSUME NEW b \in [1 .. LineMax -> Cells], NEW n \in 1 .. LineMax
    PROVE  SubSeq(SubSeq(b, 1, n), 1, Len(SubSeq(b, 1, n)) - 1) = SubSeq(b, 1, n - 1)
<1>1. n \in 0 .. LineMax /\ n - 1 \in 0 .. LineMax /\ n \in Nat /\ n - 1 \in Int /\ 1 \in Int
    BY LineMaxAssumption
<1> DEFINE t == SubSeq(b, 1, n)
<1>2. t \in Seq(Cells) /\ Len(t) = n /\ \A k \in 1 .. n : t[k] = b[k]
    BY <1>1, PrefixCells, ZenonT(30)
<1> HIDE DEF t
<1>3. \A k \in 1 .. n - 1 : t[k] = b[k] /\ t[k] \in Cells
    BY <1>1, <1>2, ElementOfSeq
<1>4. /\ SubSeq(t, 1, n - 1) \in Seq(Cells)
      /\ Len(SubSeq(t, 1, n - 1)) = IF 1 <= n - 1 THEN n - 1 - 1 + 1 ELSE 0
      /\ \A k \in 1 .. n - 1 - 1 + 1 : SubSeq(t, 1, n - 1)[k] = t[1 + k - 1]
    BY ONLY <1>1, <1>3, SubSeqProperties, SMTT(30)
<1>5. Len(SubSeq(t, 1, n - 1)) = n - 1 /\ \A k \in 1 .. n - 1 : SubSeq(t, 1, n - 1)[k] = b[k]
    BY <1>1, <1>3, <1>4
<1>6. SubSeq(t, 1, n - 1) = SubSeq(b, 1, n - 1)
    BY <1>1, <1>4, <1>5, PrefixCells, SeqEqual
<1> QED BY <1>2, <1>6, ZenonT(30) DEF t

(* Writing a cell and echoing it is the line with one cell more. *)
LEMMA TypedShows ==
    ASSUME NEW b \in [1 .. LineMax -> Cells], NEW n \in 0 .. LineMax - 1, NEW c \in Cells
    PROVE  Append(SubSeq(b, 1, n), c) = SubSeq([b EXCEPT ![n + 1] = c], 1, n + 1)
<1> DEFINE d == [b EXCEPT ![n + 1] = c]
           t == SubSeq(b, 1, n)
<1>1. n \in Nat /\ n \in 0 .. LineMax /\ n + 1 \in 1 .. LineMax /\ n + 1 \in 0 .. LineMax
    BY LineMaxAssumption
<1>2. d \in [1 .. LineMax -> Cells] /\ d[n + 1] = c /\ \A k \in 1 .. n : d[k] = b[k]
    BY <1>1
<1>3. t \in Seq(Cells) /\ Len(t) = n /\ \A k \in 1 .. n : t[k] = b[k]
    BY <1>1, PrefixCells, ZenonT(30)
<1> HIDE DEF d, t
<1>4. Append(t, c) \in Seq(Cells) /\ Len(Append(t, c)) = n + 1 /\ \A k \in 1 .. n + 1 : Append(t, c)[k] = d[k]
    BY <1>1, <1>2, <1>3, AppendProperties
<1>5. /\ SubSeq(d, 1, n + 1) \in Seq(Cells) /\ Len(SubSeq(d, 1, n + 1)) = n + 1
      /\ \A k \in 1 .. n + 1 : SubSeq(d, 1, n + 1)[k] = d[k]
    BY <1>1, <1>2, PrefixCells, ZenonT(30)
<1>6. Append(t, c) = SubSeq(d, 1, n + 1)
    BY <1>4, <1>5, SeqEqual, ZenonT(30)
<1> QED BY <1>6, ZenonT(30) DEF d, t

(* An empty line shows nothing. *)
LEMMA EmptyShows ==
    ASSUME NEW b
    PROVE  SubSeq(b, 1, 0) = <<>>
<1>1. 1 \in Int /\ 0 \in Int /\ 0 < 1
    OBVIOUS
<1> QED BY ONLY <1>1, SubSeqEmpty, SMTT(30)

(* The line is empty and nothing is shown at the first prompt. *)
LEMMA ConsoleInvInit == ConsoleInit => ConsoleInv
BY LineMaxAssumption, EmptyShows DEF ConsoleInit, ConsoleInv, ConsoleTypeOK, EchoMatchesLine, Line, Cells

(* Every byte, and every state of the loop, keeps the line shown. *)
LEMMA ConsoleInvStep == ConsoleInv /\ [ConsoleNext]_consoleVars => ConsoleInv'
<1> SUFFICES ASSUME ConsoleInv, [ConsoleNext]_consoleVars PROVE ConsoleInv'
    BY ZenonT(30)
<1> USE DEF ConsoleInv, ConsoleTypeOK, EchoMatchesLine, Line
<1>1. ASSUME NEW byte \in Byte, Arrive(byte) PROVE ConsoleInv'
    BY <1>1, ZenonT(30) DEF Arrive
<1>2. CASE Drain \/ PollNone \/ FeedNewline \/ FeedOther
    BY <1>2, ZenonT(30) DEF Drain, PollNone, FeedNewline, FeedOther, Poll
<1>3. CASE FeedBackspace
    <2>1. shown = SubSeq(line_buf, 1, line_len) /\ state' = "reading" /\ line_buf' = line_buf
        BY <1>3, ZenonT(30) DEF FeedBackspace, Poll
    <2>2. CASE line_len > 0
        <3>1. line_len \in 1 .. LineMax /\ line_len' = line_len - 1 /\ line_len' \in 0 .. LineMax
            BY <1>3, <2>2, LineMaxAssumption DEF FeedBackspace
        <3>2. shown' = SubSeq(line_buf, 1, line_len - 1)
            BY <1>3, <2>1, <2>2, <3>1, BackspaceShows, ZenonT(30) DEF FeedBackspace
        <3> QED BY <2>1, <3>1, <3>2, ZenonT(30)
    <2>3. CASE ~(line_len > 0)
        BY <1>3, <2>1, <2>3, ZenonT(30) DEF FeedBackspace
    <2> QED BY <2>2, <2>3, ZenonT(30)
<1>4. CASE FeedKill
    BY <1>4, EmptyShows, LineMaxAssumption DEF FeedKill, Poll
<1>5. ASSUME NEW byte \in Printable \cup {"tab"}, FeedPrintable(byte) PROVE ConsoleInv'
    <2> DEFINE c == IF byte = "tab" THEN "space" ELSE byte
    <2>1. c \in Cells
        BY ZenonT(30) DEF Cells, Printable
    <2>2. shown = SubSeq(line_buf, 1, line_len) /\ state' = "reading"
        BY <1>5, ZenonT(30) DEF FeedPrintable, Poll
    <2>3. CASE line_len < LineMax
        <3>1. /\ line_buf' = [line_buf EXCEPT ![line_len + 1] = c] /\ line_len' = line_len + 1
              /\ shown' = Append(shown, c)
            BY <1>5, <2>3, ZenonT(30) DEF FeedPrintable
        <3> HIDE DEF c
        <3>2. line_len \in 0 .. LineMax - 1 /\ line_len + 1 \in 0 .. LineMax
            BY <2>3, LineMaxAssumption
        <3>3. shown' = SubSeq(line_buf', 1, line_len')
            BY <2>1, <2>2, <3>1, <3>2, TypedShows, ZenonT(30)
        <3>4. line_buf' \in [1 .. LineMax -> Cells]
            BY <2>1, <3>1, ZenonT(30)
        <3> QED BY <2>2, <3>1, <3>2, <3>3, <3>4, ZenonT(30)
    <2>4. CASE ~(line_len < LineMax)
        BY <1>5, <2>2, <2>4, ZenonT(30) DEF FeedPrintable
    <2> QED BY <2>3, <2>4, ZenonT(30)
<1>6. CASE Evaluate
    BY <1>6, LineMaxAssumption DEF Evaluate
<1>7. CASE PrintOutcome \/ DeviceReady \/ ExecSpawn
    <2>1. Prompt /\ line_buf' = line_buf /\ line_len' = line_len /\ line_len = 0
        BY <1>7, ZenonT(30) DEF PrintOutcome, DeviceReady, ExecSpawn
    <2> QED BY <2>1, EmptyShows, ZenonT(30) DEF Prompt
<1>8. CASE UNCHANGED consoleVars
    BY <1>8, ZenonT(30) DEF consoleVars
<1>9. CASE WaitForDevice
    BY <1>9, ZenonT(30) DEF WaitForDevice
<1>10. CASE Tick
    BY <1>10, ZenonT(30) DEF Tick
<1> QED BY <1>1, <1>2, <1>3, <1>4, <1>5, <1>6, <1>7, <1>8, <1>9, <1>10, ZenonT(30) DEF ConsoleNext, run, Step

(* What the terminal shows is the line the compiler gets, for any length of  *)
(* the buffer.                                                               *)
THEOREM EchoIsTheLine == ConsoleFairSpec => []EchoMatchesLine
<1>1. ConsoleInv => EchoMatchesLine
    BY ZenonT(30) DEF ConsoleInv
<1> QED BY ConsoleInvInit, ConsoleInvStep, <1>1, PTL DEF ConsoleFairSpec

-----------------------------------------------------------------------------
(* The task ring: its arithmetic. *)

(* Below twice the modulus, a remainder is at most one subtraction.          *)
LEMMA ModLemma ==
    ASSUME NEW x \in 0 .. 2 * Slots - 1
    PROVE  x % Slots = IF x < Slots THEN x ELSE x - Slots
<1> USE SlotsAssumption
<1>1. CASE x < Slots
  BY <1>1
<1>2. CASE ~(x < Slots)
  <2>1. x = (x - Slots) + 1 * Slots
    OBVIOUS
  <2> QED BY <1>2, <2>1
<1> QED BY <1>1, <1>2, ZenonT(30)

(* The slot of the i-th task of a window that starts at h.                   *)
Slot(h, i) == IF h + i - 1 < Slots THEN h + i - 1 ELSE h + i - 1 - Slots

(* next steps through the ring and comes back to 0 (push_task, pop_task).    *)
LEMMA NextLemma ==
    ASSUME NEW i \in Index
    PROVE  next(i) \in Index /\ next(i) = IF i + 1 = Slots THEN 0 ELSE i + 1
<1> DEFINE x == i + 1
<1>1. x \in 0 .. 2 * Slots - 1
  BY SlotsAssumption DEF Index
<1> HIDE DEF x
<1>2. x % Slots = IF x < Slots THEN x ELSE x - Slots
  BY <1>1, ModLemma, ZenonT(30)
<1> QED BY <1>2, SlotsAssumption DEF next, Index, x

(* len is less than the number of slots.                                     *)
LEMMA LenLemma ==
    ASSUME NEW h \in Index, NEW t \in Index
    PROVE  len(h, t) \in 0 .. Slots - 1
BY SlotsAssumption DEF len, Index

(* Slot numbers wrap to indexes of the ring.                                 *)
LEMMA SlotLemma ==
    ASSUME NEW h \in Index, NEW i \in 1 .. Slots
    PROVE  (h + i - 1) % Slots = Slot(h, i) /\ Slot(h, i) \in Index
<1> DEFINE x == h + i - 1
<1>1. x \in 0 .. 2 * Slots - 1
  BY SlotsAssumption DEF Index
<1> HIDE DEF x
<1>2. x % Slots = IF x < Slots THEN x ELSE x - Slots
  BY <1>1, ModLemma, ZenonT(30)
<1> QED BY <1>2, SlotsAssumption DEF Slot, Index, x

-----------------------------------------------------------------------------
(* The window of the ring between two index values. *)

(* The window is a sequence of as many tasks as len says.                    *)
LEMMA WindowLemma ==
    ASSUME NEW h \in Index, NEW t \in Index, NEW s \in [Index -> TcbPtr]
    PROVE  /\ Window(h, t, s) \in Seq(TcbPtr)
           /\ Len(Window(h, t, s)) = len(h, t)
           /\ \A i \in 1 .. len(h, t) : Window(h, t, s)[i] = s[Slot(h, i)]
<1>1. len(h, t) \in Nat /\ \A i \in 1 .. len(h, t) : i \in 1 .. Slots
  BY LenLemma, SlotsAssumption
<1>2. \A i \in 1 .. len(h, t) : (h + i - 1) % Slots = Slot(h, i) /\ Slot(h, i) \in Index
  BY <1>1, SlotLemma, ZenonT(30)
<1>3. Window(h, t, s) = [i \in 1 .. len(h, t) |-> s[Slot(h, i)]]
  BY <1>2, ZenonT(30) DEF Window
<1>4. \A i \in 1 .. len(h, t) : s[Slot(h, i)] \in TcbPtr
  BY <1>2, ZenonT(30)
<1>5. [i \in 1 .. len(h, t) |-> s[Slot(h, i)]] \in Seq(TcbPtr)
  BY <1>1, <1>4
<1> QED BY <1>1, <1>3, <1>5

(* Advancing t over a ring that is not full appends the slot at t.           *)
LEMMA WindowPush ==
    ASSUME NEW h \in Index, NEW t \in Index, NEW s \in [Index -> TcbPtr], next(t) # h
    PROVE  /\ Len(Window(h, t, s)) < Slots - 1
           /\ Window(h, next(t), s) = Append(Window(h, t, s), s[t])
<1> DEFINE u == next(t)
           W == Window(h, t, s)
           V == Window(h, u, s)
<1>1. u \in Index /\ u # h /\ u = IF t + 1 = Slots THEN 0 ELSE t + 1
  BY NextLemma, ZenonT(30)
<1> HIDE DEF u
<1>2. len(h, u) = len(h, t) + 1 /\ len(h, t) < Slots - 1 /\ Slot(h, len(h, t) + 1) = t
  BY <1>1, SlotsAssumption DEF len, Index, Slot
<1>3. W \in Seq(TcbPtr) /\ Len(W) = len(h, t) /\ \A i \in 1 .. len(h, t) : W[i] = s[Slot(h, i)]
  BY WindowLemma, ZenonT(30)
<1>4. V \in Seq(TcbPtr) /\ Len(V) = len(h, u) /\ \A i \in 1 .. len(h, u) : V[i] = s[Slot(h, i)]
  <2>1. \A v \in Index : /\ Window(h, v, s) \in Seq(TcbPtr) /\ Len(Window(h, v, s)) = len(h, v)
                         /\ \A i \in 1 .. len(h, v) : Window(h, v, s)[i] = s[Slot(h, i)]
    BY WindowLemma, ZenonT(30)
  <2> QED BY <1>1, <2>1, ZenonT(30)
<1>5. s[t] \in TcbPtr /\ len(h, t) \in Nat
  BY LenLemma
<1> HIDE DEF W, V
<1>6. /\ Append(W, s[t]) \in Seq(TcbPtr) /\ Len(Append(W, s[t])) = len(h, t) + 1
      /\ \A i \in 1 .. len(h, t) : Append(W, s[t])[i] = W[i]
      /\ Append(W, s[t])[len(h, t) + 1] = s[t]
  BY <1>3, <1>5, AppendProperties
<1>7. ASSUME NEW i \in 1 .. Len(V) PROVE V[i] = Append(W, s[t])[i]
  <2>1. i \in 1 .. len(h, u) /\ (i \in 1 .. len(h, t) \/ i = len(h, t) + 1)
    BY <1>2, <1>4, <1>5
  <2>2. V[i] = s[Slot(h, i)]
    BY <1>4, <2>1, ZenonT(30)
  <2>3. CASE i \in 1 .. len(h, t)
    BY <1>3, <1>6, <2>2, <2>3, ZenonT(30)
  <2>4. CASE i = len(h, t) + 1
    <3>1. V[i] = s[t]
      BY <1>2, <2>2, <2>4, ZenonT(30)
    <3>2. Append(W, s[t])[i] = s[t]
      BY <1>6, <2>4, ZenonT(30)
    <3> QED BY <3>1, <3>2, ZenonT(30)
  <2> QED BY <2>1, <2>3, <2>4, ZenonT(30)
<1>8. V = Append(W, s[t])
  BY <1>2, <1>4, <1>6, <1>7, SeqEqual, ZenonT(30)
<1> QED BY <1>2, <1>3, <1>8, ZenonT(30) DEF W, V, u

(* Advancing h over a ring that is not empty removes the slot at h.          *)
LEMMA WindowPop ==
    ASSUME NEW h \in Index, NEW t \in Index, NEW s \in [Index -> TcbPtr], h # t
    PROVE  /\ Window(h, t, s) # <<>>
           /\ Head(Window(h, t, s)) = s[h]
           /\ Window(next(h), t, s) = Tail(Window(h, t, s))
<1> DEFINE g == next(h)
           W == Window(h, t, s)
           V == Window(g, t, s)
<1>1. g \in Index /\ g = IF h + 1 = Slots THEN 0 ELSE h + 1
  BY NextLemma, ZenonT(30)
<1> HIDE DEF g
<1>2. len(h, t) \in Nat /\ len(h, t) >= 1 /\ len(g, t) = len(h, t) - 1 /\ Slot(h, 1) = h
  BY <1>1, SlotsAssumption DEF len, Index, Slot
<1>3. \A i \in 1 .. len(h, t) - 1 : Slot(g, i) = Slot(h, i + 1)
  BY <1>1, SlotsAssumption DEF len, Index, Slot
<1>4. W \in Seq(TcbPtr) /\ Len(W) = len(h, t) /\ \A i \in 1 .. len(h, t) : W[i] = s[Slot(h, i)]
  BY WindowLemma, ZenonT(30)
<1>5. V \in Seq(TcbPtr) /\ Len(V) = len(g, t) /\ \A i \in 1 .. len(g, t) : V[i] = s[Slot(g, i)]
  <2>1. \A v \in Index : /\ Window(v, t, s) \in Seq(TcbPtr) /\ Len(Window(v, t, s)) = len(v, t)
                         /\ \A i \in 1 .. len(v, t) : Window(v, t, s)[i] = s[Slot(v, i)]
    BY WindowLemma, ZenonT(30)
  <2> QED BY <1>1, <2>1, ZenonT(30)
<1> HIDE DEF W, V
<1>6. W # <<>>
  BY <1>2, <1>4
<1>7. /\ Tail(W) \in Seq(TcbPtr) /\ Len(Tail(W)) = len(h, t) - 1
      /\ \A i \in 1 .. Len(Tail(W)) : Tail(W)[i] = W[i + 1]
  BY <1>4, <1>6, HeadTailProperties, ZenonT(30)
<1>8. \A i \in 1 .. Len(V) : V[i] = Tail(W)[i]
  BY <1>2, <1>3, <1>4, <1>5, <1>7
<1>9. V = Tail(W)
  BY <1>2, <1>5, <1>7, <1>8, SeqEqual, ZenonT(30)
<1>10. Head(W) = s[h]
  BY <1>2, <1>4, <1>6
<1> QED BY <1>6, <1>9, <1>10, ZenonT(30) DEF W, V, g

(* The slot at t is outside the window: writing it early disturbs nothing.   *)
LEMMA WindowWrite ==
    ASSUME NEW h \in Index, NEW t \in Index, NEW s \in [Index -> TcbPtr], NEW x
    PROVE  Window(h, t, [s EXCEPT ![t] = x]) = Window(h, t, s)
<1>1. \A i \in 1 .. len(h, t) : i \in 1 .. Slots /\ Slot(h, i) # t
  BY LenLemma, SlotsAssumption DEF len, Index, Slot
<1>2. \A i \in 1 .. len(h, t) : (h + i - 1) % Slots \in Index /\ (h + i - 1) % Slots # t
  BY <1>1, SlotLemma, ZenonT(30)
<1> QED BY <1>2, ZenonT(30) DEF Window

(* A full ring holds Slots - 1 tasks; an empty one none.                     *)
LEMMA WindowFull ==
    ASSUME NEW h \in Index, NEW t \in Index, NEW s \in [Index -> TcbPtr]
    PROVE  /\ next(t) = h => Len(Window(h, t, s)) = Slots - 1
           /\ h = t => Window(h, t, s) = <<>>
<1>1. Window(h, t, s) \in Seq(TcbPtr) /\ Len(Window(h, t, s)) = len(h, t)
  BY WindowLemma, ZenonT(30)
<1>2. next(t) = IF t + 1 = Slots THEN 0 ELSE t + 1
  BY NextLemma, ZenonT(30)
<1>3. next(t) = h => len(h, t) = Slots - 1
  BY <1>2, SlotsAssumption DEF len, Index
<1>4. h = t => len(h, t) = 0
  BY SlotsAssumption DEF len, Index
<1>5. h = t => Window(h, t, s) = <<>>
  BY <1>1, <1>4, EmptySeq, ZenonT(30)
<1> QED BY <1>1, <1>3, <1>5, ZenonT(30)

-----------------------------------------------------------------------------
(* Appending to a concatenation appends to its second part.                  *)
LEMMA ConcatAppend ==
    ASSUME NEW d \in Seq(TcbPtr), NEW q \in Seq(TcbPtr), NEW x \in TcbPtr
    PROVE  Append(d \o q, x) = d \o Append(q, x)
<1>1. d \o q \in Seq(TcbPtr) /\ <<x>> \in Seq(TcbPtr)
  BY ConcatProperties
<1>2. Append(d \o q, x) = (d \o q) \o <<x>> /\ Append(q, x) = q \o <<x>>
  BY <1>1, AppendIsConcat, ZenonT(30)
<1>3. (d \o q) \o <<x>> = d \o (q \o <<x>>)
  BY <1>1, ConcatAssociative
<1> QED BY <1>2, <1>3, ZenonT(30)

(* Moving the head of the second part to the end of the first changes        *)
(* nothing.                                                                  *)
LEMMA ConcatMove ==
    ASSUME NEW d \in Seq(TcbPtr), NEW q \in Seq(TcbPtr), q # <<>>
    PROVE  Append(d, Head(q)) \o Tail(q) = d \o q
<1> DEFINE x == Head(q)
           r == Tail(q)
<1>1. /\ x \in TcbPtr /\ r \in Seq(TcbPtr) /\ Len(q) \in Nat \ {0} /\ Len(r) = Len(q) - 1
      /\ \A i \in 1 .. Len(r) : r[i] = q[i + 1]
      /\ x = q[1]
  BY HeadTailProperties, EmptySeq
<1> HIDE DEF x, r
<1>2. <<x>> \in Seq(TcbPtr)
  BY <1>1
<1>3. q = <<x>> \o r
  <2>1. /\ <<x>> \o r \in Seq(TcbPtr) /\ Len(<<x>> \o r) = 1 + Len(r)
        /\ \A i \in 1 .. 1 + Len(r) : (<<x>> \o r)[i] = IF i <= 1 THEN x ELSE r[i - 1]
    BY <1>1, <1>2, ConcatProperties
  <2>2. \A i \in 1 .. Len(q) : q[i] = (<<x>> \o r)[i]
    BY <1>1, <2>1
  <2> DEFINE y == <<x>> \o r
  <2>3. y \in Seq(TcbPtr) /\ Len(q) = Len(y) /\ \A i \in 1 .. Len(q) : q[i] = y[i]
    BY <1>1, <2>1, <2>2
  <2> HIDE DEF y
  <2>4. q = y
    BY <2>3, SeqEqual, ZenonT(30)
  <2> QED BY <2>4, ZenonT(30) DEF y
<1>4. Append(d, x) = d \o <<x>>
  BY <1>1, AppendIsConcat, ZenonT(30)
<1>5. (d \o <<x>>) \o r = d \o (<<x>> \o r)
  BY <1>1, <1>2, ConcatAssociative
<1> QED BY <1>3, <1>4, <1>5, ZenonT(30) DEF x, r

-----------------------------------------------------------------------------
(* The inductive invariant.  What a core read into its registers is still    *)
(* true when it uses it, because only it moves the index it read: that is    *)
(* where the one producer and the one consumer are needed.                   *)

ProducerOK ==
    \A p \in Producers :
        /\ prod[p].pc # "idle" => prod[p].current_tail = tail /\ prod[p].tcb \in Task
        /\ prod[p].pc \in {"write", "commit"} => next(tail) # head
        /\ prod[p].pc = "commit" => tasks[tail] = prod[p].tcb

ConsumerOK ==
    \A c \in Consumers :
        /\ cons[c].pc # "idle" => cons[c].current_head = head
        /\ cons[c].pc \in {"read", "commit"} => head # tail
        /\ cons[c].pc = "commit" => cons[c].tcb = tasks[head]

IInv == TypeOK /\ ProducerOK /\ ConsumerOK /\ ExactlyOnceInOrder

(* Initially the ring is empty and neither side is in an operation.          *)
LEMMA InitIInv == Init => IInv
<1> SUFFICES ASSUME Init PROVE IInv
  BY ZenonT(30)
<1>1. TypeOK
  BY SlotsAssumption DEF Init, TypeOK, Index, TcbPtr
<1>2. ProducerOK /\ ConsumerOK
  BY ZenonT(30) DEF Init, ProducerOK, ConsumerOK
<1>3. Contents = <<>>
  <2>1. head \in Index /\ tail \in Index /\ tasks \in [Index -> TcbPtr] /\ head = tail
    BY <1>1, ZenonT(30) DEF Init, TypeOK
  <2> QED BY <2>1, WindowFull, ZenonT(30) DEF Contents
<1>4. ExactlyOnceInOrder
  BY <1>3 DEF Init, ExactlyOnceInOrder
<1> QED BY <1>1, <1>2, <1>4, ZenonT(30) DEF IInv

(* Registers, indices and slots keep their types, with any number of cores.  *)
LEMMA TypeStep == TypeOK /\ [Next]_vars => TypeOK'
<1> SUFFICES ASSUME TypeOK, [Next]_vars PROVE TypeOK'
  BY ZenonT(30)
<1> USE DEF TypeOK
<1>1. ASSUME NEW p \in Producers, NEW t \in Task, PushLoadTail(p, t) PROVE TypeOK'
  BY <1>1, ZenonT(30) DEF PushLoadTail, TcbPtr
<1>2. ASSUME NEW p \in Producers, PushCheckHead(p) PROVE TypeOK'
  <2>1. \/ prod' = [prod EXCEPT ![p].pc = "idle"] /\ pushed' = "err"
        \/ prod' = [prod EXCEPT ![p].pc = "write"] /\ pushed' = pushed
    BY <1>2, ZenonT(30) DEF PushCheckHead
  <2>2. UNCHANGED <<head, tail, tasks, cons, popped, accepted, delivered>>
    BY <1>2, ZenonT(30) DEF PushCheckHead
  <2>3. CASE prod' = [prod EXCEPT ![p].pc = "idle"] /\ pushed' = "err"
    BY <2>2, <2>3, ZenonT(30)
  <2>4. CASE prod' = [prod EXCEPT ![p].pc = "write"] /\ pushed' = pushed
    BY <2>2, <2>4, ZenonT(30)
  <2> QED BY <2>1, <2>3, <2>4, ZenonT(30)
<1>3. ASSUME NEW p \in Producers, PushWriteSlot(p) PROVE TypeOK'
  BY <1>3, ZenonT(30) DEF PushWriteSlot
<1>4. ASSUME NEW p \in Producers, PushStoreTail(p) PROVE TypeOK'
  <2>1. prod[p].current_tail \in Index /\ prod[p].tcb \in TcbPtr
    BY ZenonT(30)
  <2>2. tail' \in Index
    BY <1>4, <2>1, NextLemma, ZenonT(30) DEF PushStoreTail
  <2>3. accepted' \in Seq(TcbPtr)
    BY <1>4, <2>1 DEF PushStoreTail
  <2> QED BY <1>4, <2>2, <2>3, ZenonT(30) DEF PushStoreTail
<1>5. ASSUME NEW c \in Consumers, PopLoadHead(c) PROVE TypeOK'
  BY <1>5, ZenonT(30) DEF PopLoadHead, TcbPtr
<1>6. ASSUME NEW c \in Consumers, PopCheckTail(c) PROVE TypeOK'
  <2>1. \/ cons' = [cons EXCEPT ![c].pc = "idle"] /\ popped' = <<>>
        \/ cons' = [cons EXCEPT ![c].pc = "read"] /\ popped' = popped
    BY <1>6, ZenonT(30) DEF PopCheckTail
  <2>2. UNCHANGED <<head, tail, tasks, prod, pushed, accepted, delivered>>
    BY <1>6, ZenonT(30) DEF PopCheckTail
  <2>3. CASE cons' = [cons EXCEPT ![c].pc = "idle"] /\ popped' = <<>>
    <3>1. popped' \in Seq(TcbPtr)
      BY <2>3
    <3>2. cons' \in [Consumers -> [pc : {"idle", "check", "read", "commit"},
                                   current_head : Index, tcb : TcbPtr]]
      BY <2>3, ZenonT(30)
    <3> QED BY <2>2, <3>1, <3>2, ZenonT(30)
  <2>4. CASE cons' = [cons EXCEPT ![c].pc = "read"] /\ popped' = popped
    BY <2>2, <2>4, ZenonT(30)
  <2> QED BY <2>1, <2>3, <2>4, ZenonT(30)
<1>7. ASSUME NEW c \in Consumers, PopReadSlot(c) PROVE TypeOK'
  <2>1. cons[c].current_head \in Index
    BY ZenonT(30)
  <2>2. tasks[cons[c].current_head] \in TcbPtr
    BY <2>1, ZenonT(30)
  <2>3. /\ cons' = [cons EXCEPT ![c].tcb = tasks[cons[c].current_head], ![c].pc = "commit"]
        /\ UNCHANGED <<head, tail, tasks, prod, pushed, popped, accepted, delivered>>
    BY <1>7, ZenonT(30) DEF PopReadSlot
  <2>4. cons' \in [Consumers -> [pc : {"idle", "check", "read", "commit"},
                                current_head : Index, tcb : TcbPtr]]
    BY <2>2, <2>3, ZenonT(30)
  <2> QED BY <2>3, <2>4, ZenonT(30)
<1>8. ASSUME NEW c \in Consumers, PopStoreHead(c) PROVE TypeOK'
  <2>1. cons[c].current_head \in Index /\ cons[c].tcb \in TcbPtr
    BY ZenonT(30)
  <2>2. head' \in Index
    BY <1>8, <2>1, NextLemma, ZenonT(30) DEF PopStoreHead
  <2>3. delivered' \in Seq(TcbPtr) /\ popped' \in Seq(TcbPtr)
    BY <1>8, <2>1 DEF PopStoreHead
  <2> QED BY <1>8, <2>2, <2>3, ZenonT(30) DEF PopStoreHead
<1>9. CASE UNCHANGED vars
  BY <1>9, ZenonT(30) DEF vars
<1> QED BY <1>1, <1>2, <1>3, <1>4, <1>5, <1>6, <1>7, <1>8, <1>9, ZenonT(30) DEF Next, push_task, pop_task

(* The history step, given that the registers are up to date.                *)
LEMMA QueueStep ==
    ASSUME SingleProducer, SingleConsumer, IInv, [Next]_vars
    PROVE  ProducerOK' /\ ConsumerOK' /\ ExactlyOnceInOrder' /\ [Fifo!Next]_(Fifo!vars)
<1>0. TypeOK' /\ TypeOK
  BY TypeStep, ZenonT(30) DEF IInv
<1>1. /\ head \in Index /\ tail \in Index /\ tasks \in [Index -> TcbPtr]
      /\ accepted \in Seq(TcbPtr) /\ delivered \in Seq(TcbPtr)
  BY <1>0, ZenonT(30) DEF TypeOK
<1>2. Contents \in Seq(TcbPtr)
  BY <1>1, WindowLemma, ZenonT(30) DEF Contents
<1>3. accepted = delivered \o Contents
  BY ZenonT(30) DEF IInv, ExactlyOnceInOrder
<1>4. ASSUME NEW p \in Producers, NEW t \in Task, PushLoadTail(p, t)
      PROVE  ProducerOK' /\ ConsumerOK' /\ ExactlyOnceInOrder' /\ [Fifo!Next]_(Fifo!vars)
  <2>1. UNCHANGED <<head, tail, tasks, cons, pushed, popped, accepted, delivered>>
    BY <1>4, ZenonT(30) DEF PushLoadTail
  <2>2. prod' = [prod EXCEPT ![p] = [pc |-> "check", current_tail |-> tail, tcb |-> t]]
    BY <1>4, ZenonT(30) DEF PushLoadTail
  <2>3. ProducerOK'
    BY <1>0, <2>1, <2>2, ZenonT(30) DEF IInv, ProducerOK, TypeOK
  <2>4. ConsumerOK'
    BY <2>1, ZenonT(30) DEF IInv, ConsumerOK
  <2>5. Contents' = Contents
    BY <2>1, ZenonT(30) DEF Contents
  <2>6. ExactlyOnceInOrder'
    BY <1>3, <2>1, <2>5, ZenonT(30) DEF ExactlyOnceInOrder
  <2>7. UNCHANGED Fifo!vars
    BY <2>1, <2>5, ZenonT(30) DEF Fifo!vars
  <2> QED BY <2>3, <2>4, <2>6, <2>7, ZenonT(30)
<1>5. ASSUME NEW p \in Producers, PushCheckHead(p)
      PROVE  ProducerOK' /\ ConsumerOK' /\ ExactlyOnceInOrder' /\ [Fifo!Next]_(Fifo!vars)
  <2>1. UNCHANGED <<head, tail, tasks, cons, popped, accepted, delivered>>
    BY <1>5, ZenonT(30) DEF PushCheckHead
  <2>2. prod[p].pc = "check" /\ prod[p].current_tail = tail
    BY <1>5, ZenonT(30) DEF PushCheckHead, IInv, ProducerOK
  <2>3. \/ prod' = [prod EXCEPT ![p].pc = "idle"] /\ pushed' = "err" /\ next(tail) = head
        \/ prod' = [prod EXCEPT ![p].pc = "write"] /\ pushed' = pushed /\ next(tail) # head
    BY <1>5, <2>2, ZenonT(30) DEF PushCheckHead
  <2>4. ProducerOK'
    <3>1. CASE prod' = [prod EXCEPT ![p].pc = "idle"]
      BY <1>0, <2>1, <2>2, <3>1 DEF IInv, ProducerOK, TypeOK
    <3>2. CASE prod' = [prod EXCEPT ![p].pc = "write"] /\ next(tail) # head
      BY <1>0, <2>1, <2>2, <3>2 DEF IInv, ProducerOK, TypeOK
    <3> QED BY <2>3, <3>1, <3>2, ZenonT(30)
  <2>5. ConsumerOK'
    BY <2>1, ZenonT(30) DEF IInv, ConsumerOK
  <2>6. Contents' = Contents
    BY <2>1, ZenonT(30) DEF Contents
  <2>7. ExactlyOnceInOrder'
    BY <1>3, <2>1, <2>6, ZenonT(30) DEF ExactlyOnceInOrder
  <2>8. [Fifo!Next]_(Fifo!vars)
    <3>1. CASE pushed' = "err" /\ next(tail) = head
      <4>1. Len(Contents) = Slots - 1
        BY <1>1, <3>1, WindowFull, ZenonT(30) DEF Contents
      <4>2. Fifo!PushFull
        BY <2>1, <2>6, <3>1, <4>1, ZenonT(30) DEF Fifo!PushFull
      <4> QED BY <4>2, ZenonT(30) DEF Fifo!Next
    <3>2. CASE pushed' = pushed
      BY <2>1, <2>6, <3>2, ZenonT(30) DEF Fifo!vars
    <3> QED BY <2>3, <3>1, <3>2, ZenonT(30)
  <2> QED BY <2>4, <2>5, <2>7, <2>8, ZenonT(30)
<1>6. ASSUME NEW p \in Producers, PushWriteSlot(p)
      PROVE  ProducerOK' /\ ConsumerOK' /\ ExactlyOnceInOrder' /\ [Fifo!Next]_(Fifo!vars)
  <2>1. UNCHANGED <<head, tail, cons, pushed, popped, accepted, delivered>>
    BY <1>6, ZenonT(30) DEF PushWriteSlot
  <2>2. prod[p].pc = "write" /\ prod[p].current_tail = tail /\ next(tail) # head
    BY <1>6, ZenonT(30) DEF PushWriteSlot, IInv, ProducerOK
  <2>3. /\ tasks' = [tasks EXCEPT ![tail] = prod[p].tcb]
        /\ prod' = [prod EXCEPT ![p].pc = "commit"]
    BY <1>6, <2>2, ZenonT(30) DEF PushWriteSlot
  <2>4. ProducerOK'
    BY <1>0, <2>1, <2>2, <2>3 DEF IInv, ProducerOK, TypeOK, SingleProducer
  <2>5. ConsumerOK'
    BY <1>1, <2>1, <2>3, ZenonT(30) DEF IInv, ConsumerOK
  <2>6. Contents' = Contents
    <3>1. Window(head, tail, [tasks EXCEPT ![tail] = prod[p].tcb]) = Window(head, tail, tasks)
      BY <1>1, WindowWrite, ZenonT(30)
    <3> QED BY <2>1, <2>3, <3>1, ZenonT(30) DEF Contents
  <2>7. ExactlyOnceInOrder'
    BY <1>3, <2>1, <2>6, ZenonT(30) DEF ExactlyOnceInOrder
  <2>8. UNCHANGED Fifo!vars
    BY <2>1, <2>6, ZenonT(30) DEF Fifo!vars
  <2> QED BY <2>4, <2>5, <2>7, <2>8, ZenonT(30)
<1>7. ASSUME NEW p \in Producers, PushStoreTail(p)
      PROVE  ProducerOK' /\ ConsumerOK' /\ ExactlyOnceInOrder' /\ [Fifo!Next]_(Fifo!vars)
  <2>1. UNCHANGED <<head, tasks, cons, popped, delivered>>
    BY <1>7, ZenonT(30) DEF PushStoreTail
  <2>2. /\ prod[p].pc = "commit" /\ prod[p].current_tail = tail /\ next(tail) # head
        /\ prod[p].tcb \in Task /\ tasks[tail] = prod[p].tcb
    BY <1>7, ZenonT(30) DEF PushStoreTail, IInv, ProducerOK
  <2>3. /\ tail' = next(tail) /\ pushed' = "ok"
        /\ prod' = [prod EXCEPT ![p].pc = "idle"]
        /\ accepted' = Append(accepted, prod[p].tcb)
    BY <1>7, <2>2, ZenonT(30) DEF PushStoreTail
  <2>4. ProducerOK'
    BY <1>0, <2>1, <2>3 DEF ProducerOK, TypeOK, SingleProducer
  <2>5. ConsumerOK'
    BY <2>1, <2>2, <2>3, ZenonT(30) DEF IInv, ConsumerOK
  <2>6. Len(Contents) < Slots - 1 /\ Contents' = Append(Contents, prod[p].tcb)
    <3>1. Len(Window(head, tail, tasks)) < Slots - 1
          /\ Window(head, next(tail), tasks) = Append(Window(head, tail, tasks), tasks[tail])
      <4>1. next(tail) # head
        BY <2>2, ZenonT(30)
      <4> QED BY <1>1, <4>1, WindowPush, ZenonT(30)
    <3> QED BY <2>1, <2>2, <2>3, <3>1, ZenonT(30) DEF Contents
  <2>7. ExactlyOnceInOrder'
    <3>1. Append(delivered \o Contents, prod[p].tcb) = delivered \o Append(Contents, prod[p].tcb)
      BY <1>1, <1>2, <2>2, ConcatAppend, ZenonT(30) DEF TcbPtr
    <3> QED BY <1>3, <2>1, <2>3, <2>6, <3>1, ZenonT(30) DEF ExactlyOnceInOrder
  <2>8. Fifo!Push(prod[p].tcb)
    BY <2>1, <2>3, <2>6, ZenonT(30) DEF Fifo!Push
  <2>9. Fifo!Next
    BY <2>2, <2>8, ZenonT(30) DEF Fifo!Next
  <2> QED BY <2>4, <2>5, <2>7, <2>9, ZenonT(30)
<1>8. ASSUME NEW c \in Consumers, PopLoadHead(c)
      PROVE  ProducerOK' /\ ConsumerOK' /\ ExactlyOnceInOrder' /\ [Fifo!Next]_(Fifo!vars)
  <2>1. UNCHANGED <<head, tail, tasks, prod, pushed, popped, accepted, delivered>>
    BY <1>8, ZenonT(30) DEF PopLoadHead
  <2>2. cons' = [cons EXCEPT ![c] = [pc |-> "check", current_head |-> head, tcb |-> NoTask]]
    BY <1>8, ZenonT(30) DEF PopLoadHead
  <2>3. ProducerOK'
    BY <2>1, ZenonT(30) DEF IInv, ProducerOK
  <2>4. ConsumerOK'
    BY <1>0, <2>1, <2>2, ZenonT(30) DEF IInv, ConsumerOK, TypeOK
  <2>5. Contents' = Contents
    BY <2>1, ZenonT(30) DEF Contents
  <2>6. ExactlyOnceInOrder'
    BY <1>3, <2>1, <2>5, ZenonT(30) DEF ExactlyOnceInOrder
  <2>7. UNCHANGED Fifo!vars
    BY <2>1, <2>5, ZenonT(30) DEF Fifo!vars
  <2> QED BY <2>3, <2>4, <2>6, <2>7, ZenonT(30)
<1>9. ASSUME NEW c \in Consumers, PopCheckTail(c)
      PROVE  ProducerOK' /\ ConsumerOK' /\ ExactlyOnceInOrder' /\ [Fifo!Next]_(Fifo!vars)
  <2>1. UNCHANGED <<head, tail, tasks, prod, pushed, accepted, delivered>>
    BY <1>9, ZenonT(30) DEF PopCheckTail
  <2>2. cons[c].pc = "check" /\ cons[c].current_head = head
    BY <1>9, ZenonT(30) DEF PopCheckTail, IInv, ConsumerOK
  <2>3. \/ cons' = [cons EXCEPT ![c].pc = "idle"] /\ popped' = <<>> /\ head = tail
        \/ cons' = [cons EXCEPT ![c].pc = "read"] /\ popped' = popped /\ head # tail
    BY <1>9, <2>2, ZenonT(30) DEF PopCheckTail
  <2>4. ConsumerOK'
    <3>1. CASE cons' = [cons EXCEPT ![c].pc = "idle"]
      BY <1>0, <2>1, <2>2, <3>1, ZenonT(30) DEF IInv, ConsumerOK, TypeOK
    <3>2. CASE cons' = [cons EXCEPT ![c].pc = "read"] /\ head # tail
      BY <1>0, <2>1, <2>2, <3>2, ZenonT(30) DEF IInv, ConsumerOK, TypeOK
    <3> QED BY <2>3, <3>1, <3>2, ZenonT(30)
  <2>5. ProducerOK'
    BY <2>1, ZenonT(30) DEF IInv, ProducerOK
  <2>6. Contents' = Contents
    BY <2>1, ZenonT(30) DEF Contents
  <2>7. ExactlyOnceInOrder'
    BY <1>3, <2>1, <2>6, ZenonT(30) DEF ExactlyOnceInOrder
  <2>8. [Fifo!Next]_(Fifo!vars)
    <3>1. CASE popped' = <<>> /\ head = tail
      <4>1. Contents = <<>>
        BY <1>1, <3>1, WindowFull, ZenonT(30) DEF Contents
      <4>2. Fifo!PopEmpty
        BY <2>1, <2>6, <3>1, <4>1, ZenonT(30) DEF Fifo!PopEmpty
      <4> QED BY <4>2, ZenonT(30) DEF Fifo!Next
    <3>2. CASE popped' = popped
      BY <2>1, <2>6, <3>2, ZenonT(30) DEF Fifo!vars
    <3> QED BY <2>3, <3>1, <3>2, ZenonT(30)
  <2> QED BY <2>4, <2>5, <2>7, <2>8, ZenonT(30)
<1>10. ASSUME NEW c \in Consumers, PopReadSlot(c)
       PROVE  ProducerOK' /\ ConsumerOK' /\ ExactlyOnceInOrder' /\ [Fifo!Next]_(Fifo!vars)
  <2>1. UNCHANGED <<head, tail, tasks, prod, pushed, popped, accepted, delivered>>
    BY <1>10, ZenonT(30) DEF PopReadSlot
  <2>2. cons[c].pc = "read" /\ cons[c].current_head = head /\ head # tail
    BY <1>10, ZenonT(30) DEF PopReadSlot, IInv, ConsumerOK
  <2>3. cons' = [cons EXCEPT ![c].tcb = tasks[head], ![c].pc = "commit"]
    BY <1>10, <2>2, ZenonT(30) DEF PopReadSlot
  <2>4. ConsumerOK'
    BY <1>0, <2>1, <2>2, <2>3, ZenonT(30) DEF IInv, ConsumerOK, TypeOK
  <2>5. ProducerOK'
    BY <2>1, ZenonT(30) DEF IInv, ProducerOK
  <2>6. Contents' = Contents
    BY <2>1, ZenonT(30) DEF Contents
  <2>7. ExactlyOnceInOrder'
    BY <1>3, <2>1, <2>6, ZenonT(30) DEF ExactlyOnceInOrder
  <2>8. UNCHANGED Fifo!vars
    BY <2>1, <2>6, ZenonT(30) DEF Fifo!vars
  <2> QED BY <2>4, <2>5, <2>7, <2>8, ZenonT(30)
<1>11. ASSUME NEW c \in Consumers, PopStoreHead(c)
       PROVE  ProducerOK' /\ ConsumerOK' /\ ExactlyOnceInOrder' /\ [Fifo!Next]_(Fifo!vars)
  <2>1. UNCHANGED <<tail, tasks, prod, pushed, accepted>>
    BY <1>11, ZenonT(30) DEF PopStoreHead
  <2>2. /\ cons[c].pc = "commit" /\ cons[c].current_head = head /\ head # tail
        /\ cons[c].tcb = tasks[head]
    BY <1>11, ZenonT(30) DEF PopStoreHead, IInv, ConsumerOK
  <2>3. /\ head' = next(head)
        /\ cons' = [cons EXCEPT ![c].pc = "idle"]
        /\ popped' = <<tasks[head]>>
        /\ delivered' = Append(delivered, tasks[head])
    BY <1>11, <2>2, ZenonT(30) DEF PopStoreHead
  <2>4. ConsumerOK'
    BY <1>0, <2>1, <2>3 DEF ConsumerOK, TypeOK, SingleConsumer
  <2>5. next(tail) # next(head)
    <3>1. next(tail) = (IF tail + 1 = Slots THEN 0 ELSE tail + 1)
          /\ next(head) = (IF head + 1 = Slots THEN 0 ELSE head + 1)
      BY <1>1, NextLemma, ZenonT(30)
    <3> QED BY <1>1, <2>2, <3>1, SlotsAssumption DEF Index
  <2>6. ProducerOK'
    BY <2>1, <2>3, <2>5, ZenonT(30) DEF IInv, ProducerOK
  <2>7. Contents # <<>> /\ Head(Contents) = tasks[head] /\ Contents' = Tail(Contents)
    <3>1. head # tail
      BY <2>2, ZenonT(30)
    <3>2. /\ Window(head, tail, tasks) # <<>>
          /\ Head(Window(head, tail, tasks)) = tasks[head]
          /\ Window(next(head), tail, tasks) = Tail(Window(head, tail, tasks))
      BY <1>1, <3>1, WindowPop, ZenonT(30)
    <3> QED BY <2>1, <2>3, <3>2, ZenonT(30) DEF Contents
  <2>8. ExactlyOnceInOrder'
    <3>1. Append(delivered, Head(Contents)) \o Tail(Contents) = delivered \o Contents
      BY <1>1, <1>2, <2>7, ConcatMove, ZenonT(30)
    <3> QED BY <1>3, <2>1, <2>3, <2>7, <3>1, ZenonT(30) DEF ExactlyOnceInOrder
  <2>9. Fifo!Pop
    BY <2>1, <2>3, <2>7, ZenonT(30) DEF Fifo!Pop
  <2> QED BY <2>4, <2>6, <2>8, <2>9, ZenonT(30) DEF Fifo!Next
<1>12. CASE UNCHANGED vars
  <2>1. UNCHANGED <<head, tail, tasks, prod, cons, pushed, popped, accepted, delivered>>
    BY <1>12, ZenonT(30) DEF vars
  <2>2. ProducerOK' /\ ConsumerOK'
    <3>1. ProducerOK'
      BY <2>1, ZenonT(30) DEF IInv, ProducerOK
    <3>2. ConsumerOK'
      BY <2>1, ZenonT(30) DEF IInv, ConsumerOK
    <3> QED BY <3>1, <3>2, ZenonT(30)
  <2>3. Contents' = Contents
    BY <2>1, ZenonT(30) DEF Contents
  <2>4. ExactlyOnceInOrder'
    BY <1>3, <2>1, <2>3, ZenonT(30) DEF ExactlyOnceInOrder
  <2>5. UNCHANGED Fifo!vars
    BY <2>1, <2>3, ZenonT(30) DEF Fifo!vars
  <2> QED BY <2>2, <2>4, <2>5, ZenonT(30)
<1> QED
  BY <1>4, <1>5, <1>6, <1>7, <1>8, <1>9, <1>10, <1>11, <1>12, ZenonT(30) DEF Next, push_task, pop_task

-----------------------------------------------------------------------------
(* push_task and pop_task keep every index inside the ring and every         *)
(* register and result in its type, whatever cores call them.                *)
THEOREM TypeCorrect == Spec => []TypeOK
<1>1. Init => TypeOK
  BY InitIInv, ZenonT(30) DEF IInv
<1> QED BY <1>1, TypeStep, PTL DEF Spec

(* With one producer and one consumer, the tasks pop_task has returned       *)
(* followed by those in the ring are always exactly the accepted ones, in    *)
(* order.                                                                    *)
THEOREM ExactlyOnce ==
    ASSUME SingleProducer, SingleConsumer
    PROVE  Spec => []ExactlyOnceInOrder
<1>1. Init => IInv
  BY InitIInv, ZenonT(30)
<1>2. IInv /\ [Next]_vars => IInv'
  BY QueueStep, TypeStep, ZenonT(30) DEF IInv
<1>3. IInv => ExactlyOnceInOrder
  BY ZenonT(30) DEF IInv
<1> QED BY <1>1, <1>2, <1>3, PTL DEF Spec

(* With one producer and one consumer, the ring of shared accesses           *)
(* implements the bounded first-in first-out queue of Slots - 1 tasks.       *)
THEOREM Refinement ==
    ASSUME SingleProducer, SingleConsumer
    PROVE  Spec => ImplementsFifo
<1>1. Init => IInv /\ Fifo!Init
  <2>1. Init => IInv
    BY InitIInv, ZenonT(30)
  <2>2. ASSUME Init, IInv PROVE Contents = <<>>
    <3>1. head \in Index /\ tail \in Index /\ tasks \in [Index -> TcbPtr] /\ head = tail
      BY <2>2, ZenonT(30) DEF Init, IInv, TypeOK
    <3> QED BY <3>1, WindowFull, ZenonT(30) DEF Contents
  <2> QED BY <2>1, <2>2, ZenonT(30) DEF Init, Fifo!Init
<1>2. IInv /\ [Next]_vars => IInv' /\ [Fifo!Next]_(Fifo!vars)
  BY QueueStep, TypeStep, ZenonT(30) DEF IInv
<1> QED BY <1>1, <1>2, PTL DEF Spec, ImplementsFifo, Fifo!Spec
=============================================================================
