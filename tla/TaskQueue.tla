----------------------------- MODULE TaskQueue -----------------------------
(***************************************************************************)
(* LockFreeTaskQueue (crates/hros-kernel/src/scheduler.rs): a ring of      *)
(* Slots task pointers with an atomic head and an atomic tail.  A push and *)
(* a pop are each four accesses to shared memory, one action per access,   *)
(* so the accesses of different cores interleave freely.  The Release      *)
(* store of tail after the volatile slot write, read back with Acquire,    *)
(* lets a core see a slot no later than the index that publishes it, which *)
(* is what an interleaving of these accesses assumes.                      *)
(***************************************************************************)
EXTENDS Integers, Sequences, FiniteSets

CONSTANTS Task,         \* the task control blocks that are pushed
          NoTask,       \* the null pointer the ring starts with
          Slots,        \* 256 in the code
          Producers,    \* cores that call push_task
          Consumers,    \* cores that call pop_task
          MaxPush       \* bound: pushes accepted in one behaviour

ASSUME SlotsAssumption == Slots \in Nat /\ Slots >= 2
ASSUME MaxPushAssumption == MaxPush \in Nat
ASSUME NoTaskAssumption == NoTask \notin Task

VARIABLES head, tail, tasks,
          prod,         \* each producer's registers: where it is in push_task
          cons,         \* each consumer's registers: where it is in pop_task
          pushed, popped,     \* the last results returned
          accepted,     \* history: the tasks whose push returned Ok, in order
          delivered     \* history: the tasks pop_task returned, in order

vars == <<head, tail, tasks, prod, cons, pushed, popped, accepted, delivered>>

Index == 0 .. Slots - 1
TcbPtr == Task \cup {NoTask}

next(i) == (i + 1) % Slots

(* len(): the number of occupied slots between two index values. *)
len(h, t) == IF t >= h THEN t - h ELSE Slots - h + t

Init ==
    /\ head = 0
    /\ tail = 0
    /\ tasks = [i \in Index |-> NoTask]
    /\ prod = [p \in Producers |-> [pc |-> "idle", current_tail |-> 0, tcb |-> NoTask]]
    /\ cons = [c \in Consumers |-> [pc |-> "idle", current_head |-> 0, tcb |-> NoTask]]
    /\ pushed = "none"
    /\ popped = <<>>
    /\ accepted = <<>>
    /\ delivered = <<>>

-----------------------------------------------------------------------------
(* push_task *)

PushLoadTail(p, t) ==
    /\ prod[p].pc = "idle"
    /\ Len(accepted) < MaxPush
    /\ prod' = [prod EXCEPT ![p] = [pc |-> "check", current_tail |-> tail, tcb |-> t]]
    /\ UNCHANGED <<head, tail, tasks, cons, pushed, popped, accepted, delivered>>

(* Mutants: a full ring is overwritten; a ring with one free slot is refused. *)
PushCheckHead_NeverFull(p) ==
    /\ prod[p].pc = "check"
    /\ prod' = [prod EXCEPT ![p].pc = "write"]
    /\ UNCHANGED <<head, tail, tasks, cons, pushed, popped, accepted, delivered>>

PushCheckHead_FullEarly(p) ==
    /\ prod[p].pc = "check"
    /\ IF head \in {next(prod[p].current_tail), next(next(prod[p].current_tail))}
         THEN /\ prod' = [prod EXCEPT ![p].pc = "idle"]
              /\ pushed' = "err"
         ELSE /\ prod' = [prod EXCEPT ![p].pc = "write"]
              /\ UNCHANGED pushed
    /\ UNCHANGED <<head, tail, tasks, cons, popped, accepted, delivered>>

PushCheckHead(p) ==
    /\ prod[p].pc = "check"
    /\ IF next(prod[p].current_tail) = head
         THEN /\ prod' = [prod EXCEPT ![p].pc = "idle"]
              /\ pushed' = "err"
         ELSE /\ prod' = [prod EXCEPT ![p].pc = "write"]
              /\ UNCHANGED pushed
    /\ UNCHANGED <<head, tail, tasks, cons, popped, accepted, delivered>>

PushWriteSlot(p) ==
    /\ prod[p].pc = "write"
    /\ tasks' = [tasks EXCEPT ![prod[p].current_tail] = prod[p].tcb]
    /\ prod' = [prod EXCEPT ![p].pc = "commit"]
    /\ UNCHANGED <<head, tail, cons, pushed, popped, accepted, delivered>>

PushStoreTail(p) ==
    /\ prod[p].pc = "commit"
    /\ tail' = next(prod[p].current_tail)
    /\ prod' = [prod EXCEPT ![p].pc = "idle"]
    /\ pushed' = "ok"
    /\ accepted' = Append(accepted, prod[p].tcb)
    /\ UNCHANGED <<head, tasks, cons, popped, delivered>>

-----------------------------------------------------------------------------
(* pop_task *)

PopLoadHead(c) ==
    /\ cons[c].pc = "idle"
    /\ cons' = [cons EXCEPT ![c] = [pc |-> "check", current_head |-> head, tcb |-> NoTask]]
    /\ UNCHANGED <<head, tail, tasks, prod, pushed, popped, accepted, delivered>>

(* Mutant: spins until there is a second task before it takes the first. *)
PopCheckTail_WaitsForTwo(c) ==
    /\ cons[c].pc = "check"
    /\ CASE cons[c].current_head = tail ->
               /\ cons' = [cons EXCEPT ![c].pc = "idle"]
               /\ popped' = <<>>
         [] len(cons[c].current_head, tail) = 1 -> UNCHANGED <<cons, popped>>
         [] OTHER ->
               /\ cons' = [cons EXCEPT ![c].pc = "read"]
               /\ UNCHANGED popped
    /\ UNCHANGED <<head, tail, tasks, prod, pushed, accepted, delivered>>

PopCheckTail(c) ==
    /\ cons[c].pc = "check"
    /\ IF cons[c].current_head = tail
         THEN /\ cons' = [cons EXCEPT ![c].pc = "idle"]
              /\ popped' = <<>>
         ELSE /\ cons' = [cons EXCEPT ![c].pc = "read"]
              /\ UNCHANGED popped
    /\ UNCHANGED <<head, tail, tasks, prod, pushed, accepted, delivered>>

PopReadSlot(c) ==
    /\ cons[c].pc = "read"
    /\ cons' = [cons EXCEPT ![c].tcb = tasks[cons[c].current_head], ![c].pc = "commit"]
    /\ UNCHANGED <<head, tail, tasks, prod, pushed, popped, accepted, delivered>>

PopStoreHead(c) ==
    /\ cons[c].pc = "commit"
    /\ head' = next(cons[c].current_head)
    /\ cons' = [cons EXCEPT ![c].pc = "idle"]
    /\ popped' = <<cons[c].tcb>>
    /\ delivered' = Append(delivered, cons[c].tcb)
    /\ UNCHANGED <<tail, tasks, prod, pushed, accepted>>

push_task(p) ==
    \/ \E t \in Task : PushLoadTail(p, t)
    \/ PushCheckHead(p)
    \/ PushWriteSlot(p)
    \/ PushStoreTail(p)

pop_task(c) ==
    \/ PopLoadHead(c)
    \/ PopCheckTail(c)
    \/ PopReadSlot(c)
    \/ PopStoreHead(c)

Next == (\E p \in Producers : push_task(p)) \/ (\E c \in Consumers : pop_task(c))

Spec == Init /\ [][Next]_vars

(* A core that schedules calls pop_task again and again and is never        *)
(* stopped inside it; nothing makes a producer push.                        *)
FairSpec == Spec /\ \A c \in Consumers : WF_vars(pop_task(c))

-----------------------------------------------------------------------------
(* The queue the ring stands for: the slots from head up to tail. *)
Window(h, t, s) == [i \in 1 .. len(h, t) |-> s[(h + i - 1) % Slots]]
Contents == Window(head, tail, tasks)

(* One producer and one consumer: the case push_task is written for. *)
SingleProducer == \A p, q \in Producers : p = q
SingleConsumer == \A c, d \in Consumers : c = d

(* Every register, index, slot and result has a value of its type.          *)
TypeOK ==
    /\ head \in Index /\ tail \in Index
    /\ tasks \in [Index -> TcbPtr]
    /\ prod \in [Producers -> [pc : {"idle", "check", "write", "commit"},
                               current_tail : Index, tcb : TcbPtr]]
    /\ cons \in [Consumers -> [pc : {"idle", "check", "read", "commit"},
                               current_head : Index, tcb : TcbPtr]]
    /\ pushed \in {"none", "ok", "err"}
    /\ popped \in Seq(TcbPtr)
    /\ accepted \in Seq(TcbPtr)
    /\ delivered \in Seq(TcbPtr)

(* Exactly once, in order: the tasks whose push_task returned Ok are the     *)
(* ones pop_task has returned followed by the ones still in the ring, with   *)
(* none lost, repeated, invented or overtaken.                               *)
ExactlyOnceInOrder == accepted = delivered \o Contents

(* The ring implements the bounded first-in first-out queue of Slots - 1     *)
(* tasks: a push takes effect at its store of tail, a pop at its store of    *)
(* head, and "full" and "empty" are reported only when that is so.           *)
Fifo == INSTANCE BoundedFifo WITH queue <- Contents, Capacity <- Slots - 1
ImplementsFifo == Fifo!Spec

(* A task that was accepted is eventually handed out by a consumer that      *)
(* keeps calling pop_task.                                                   *)
EventuallyDelivered ==
    \A k \in 1 .. MaxPush : (Len(accepted) >= k) ~> (Len(delivered) >= k)
=============================================================================
