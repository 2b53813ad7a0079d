-------------------------------- MODULE Exec --------------------------------
(***************************************************************************)
(* The two ways a compiled stream is executed, as functions of the stream  *)
(* and of memory: the threaded interpreter (kernel/exec.rs with            *)
(* compiler/primitives.rs) and the two-register native compiler            *)
(* (compiler/native.rs).  Each yields the memory it leaves, the value it   *)
(* returns and the bus accesses it makes, in order.                        *)
(*                                                                         *)
(* A stream is kept as the statements the parser compiles; Code gives the  *)
(* primitives it emits for them.  An address denotes itself as a value.    *)
(* The parser computes expressions itself and never emits the arithmetic   *)
(* primitives, so they are left out.                                       *)
(***************************************************************************)
EXTENDS Stream

CONSTANT VmStackSize       \* VM_STACK_SIZE: 64 in the code

ASSUME VmStackAssumption == VmStackSize \in Nat /\ VmStackSize >= 2

lit(v) == [prim |-> "lit", arg |-> v]
prim(p) == [prim |-> p]

Emit(s) ==
    IF s.op = "poke" THEN <<lit(s.addr), lit(s.val), prim("write")>>
                     ELSE <<lit(s.addr), prim("load")>>
Code(body) ==
    LET part == [i \in DOMAIN body |-> Emit(body[i])]
        upto[n \in 0 .. Len(part)] == IF n = 0 THEN <<>> ELSE upto[n - 1] \o part[n]
    IN  upto[Len(part)] \o <<prim("halt")>>

Read(a) == [op |-> "read", addr |-> a]
Write(a, v) == [op |-> "write", addr |-> a, val |-> v]

-----------------------------------------------------------------------------
(* run_threaded_stream after vm_reset. *)

vm_push(stack, v) == IF Len(stack) >= VmStackSize THEN stack ELSE Append(stack, v)
vm_top(stack) == IF stack = <<>> THEN 0 ELSE stack[Len(stack)]
vm_drop(stack) == IF stack = <<>> THEN stack ELSE SubSeq(stack, 1, Len(stack) - 1)

ThreadedStep(s, i) ==
    LET top == vm_top(s.stack)
        below == vm_drop(s.stack)
    IN  CASE i.prim = "lit" -> [s EXCEPT !.stack = vm_push(@, i.arg)]
          [] i.prim = "load" -> [s EXCEPT !.stack = vm_push(below, s.mem[top]),
                                          !.bus = Append(@, Read(top))]
          [] i.prim = "write" -> [s EXCEPT !.stack = vm_drop(below),
                                           !.mem[vm_top(below)] = top,
                                           !.bus = Append(@, Write(vm_top(below), top))]
          [] i.prim = "halt" -> s

RunThreaded(code, mem) ==
    LET run[n \in 0 .. Len(code)] ==
            IF n = 0 THEN [stack |-> <<>>, mem |-> mem, bus |-> <<>>]
                     ELSE ThreadedStep(run[n - 1], code[n])
        end == run[Len(code)]
    IN  [mem |-> end.mem, bus |-> end.bus, value |-> vm_top(end.stack)]

-----------------------------------------------------------------------------
(* compile_and_run: every stream of these primitives is compilable, and the  *)
(* instruction emitted for each one is executed in stream order.  loaded is  *)
(* acc_loaded; it is never cleared.                                          *)

(* Mutants: a literal does not look ahead for a load; a literal before a     *)
(* load is dropped once the accumulator is loaded.                           *)
NativeStep_NoLookahead(s, i, following) ==
    CASE i.prim = "lit" ->
           IF s.loaded THEN [s EXCEPT !.scratch = i.arg]
                       ELSE [s EXCEPT !.acc = i.arg, !.loaded = TRUE]
      [] i.prim = "load" -> [s EXCEPT !.acc = s.mem[s.scratch], !.loaded = TRUE,
                                      !.bus = Append(@, Read(s.scratch))]
      [] i.prim = "write" -> [s EXCEPT !.mem[s.acc] = s.scratch,
                                       !.bus = Append(@, Write(s.acc, s.scratch))]
      [] i.prim = "halt" -> s

NativeStep_DropsLit(s, i, following) ==
    CASE i.prim = "lit" ->
           IF s.loaded /\ following.prim = "load" THEN s
           ELSE IF following.prim \in {"load", "write"}
             THEN [s EXCEPT !.scratch = i.arg]
             ELSE [s EXCEPT !.acc = i.arg, !.loaded = TRUE]
      [] i.prim = "load" -> [s EXCEPT !.acc = s.mem[s.scratch], !.loaded = TRUE,
                                      !.bus = Append(@, Read(s.scratch))]
      [] i.prim = "write" -> [s EXCEPT !.mem[s.acc] = s.scratch,
                                       !.bus = Append(@, Write(s.acc, s.scratch))]
      [] i.prim = "halt" -> s

NativeStep(s, i, following) ==
    CASE i.prim = "lit" ->
           IF following.prim \in {"load", "write"} \/ s.loaded
             THEN [s EXCEPT !.scratch = i.arg]
             ELSE [s EXCEPT !.acc = i.arg, !.loaded = TRUE]
      [] i.prim = "load" -> [s EXCEPT !.acc = s.mem[s.scratch], !.loaded = TRUE,
                                      !.bus = Append(@, Read(s.scratch))]
      [] i.prim = "write" -> [s EXCEPT !.mem[s.acc] = s.scratch,
                                       !.bus = Append(@, Write(s.acc, s.scratch))]
      [] i.prim = "halt" -> s

compile_and_run(code, mem) ==
    LET run[n \in 0 .. Len(code)] ==
            IF n = 0 THEN [acc |-> 0, scratch |-> 0, loaded |-> FALSE, mem |-> mem, bus |-> <<>>]
                     ELSE NativeStep(run[n - 1], code[n], code[IF n < Len(code) THEN n + 1 ELSE n])
        end == run[Len(code)]
    IN  [mem |-> end.mem, bus |-> end.bus, value |-> end.acc]
=============================================================================
