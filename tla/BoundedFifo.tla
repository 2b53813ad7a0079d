---------------------------- MODULE BoundedFifo ----------------------------
(***************************************************************************)
(* What a bounded task queue promises, without any of its implementation:  *)
(* a first-in first-out queue of at most Capacity tasks, in which a push   *)
(* and a pop each take effect in one step and report whether they did.     *)
(***************************************************************************)
EXTENDS Naturals, Sequences

CONSTANTS Task, Capacity

VARIABLES queue,     \* the tasks accepted and not yet handed out
          pushed,    \* what the last push returned
          popped     \* what the last pop returned

vars == <<queue, pushed, popped>>

Init ==
    /\ queue = <<>>
    /\ pushed = "none"
    /\ popped = <<>>

Push(t) ==
    /\ Len(queue) < Capacity
    /\ queue' = Append(queue, t)
    /\ pushed' = "ok"
    /\ UNCHANGED popped

PushFull ==
    /\ Len(queue) = Capacity
    /\ pushed' = "err"
    /\ UNCHANGED <<queue, popped>>

Pop ==
    /\ queue # <<>>
    /\ popped' = <<Head(queue)>>
    /\ queue' = Tail(queue)
    /\ UNCHANGED pushed

PopEmpty ==
    /\ queue = <<>>
    /\ popped' = <<>>
    /\ UNCHANGED <<queue, pushed>>

Next == (\E t \in Task : Push(t)) \/ PushFull \/ Pop \/ PopEmpty

Spec == Init /\ [][Next]_vars
=============================================================================
