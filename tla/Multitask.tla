----------------------------- MODULE Multitask -----------------------------
(***************************************************************************)
(* Preemptive tasks on ARM (kernel/multitask.rs): SysTick pends PendSV,    *)
(* and PendSV switches between the shell, which is task 0, and the tasks   *)
(* that `spawn' (drivers/repl.rs) has started.  Thread code is interrupted *)
(* between any two of its steps; an exception handler runs to its end.     *)
(*                                                                         *)
(* Nothing calls install_task_handlers, and Reset leaves the shell on the  *)
(* main stack: the program as it is built.  The handlers are written for   *)
(* one in which boot has done both.  Which build runs is chosen at the     *)
(* start, and with it the order in which the compiler emits the two plain  *)
(* stores of spawn_jit_task that PendSV reads.                             *)
(***************************************************************************)
EXTENDS Integers

CONSTANTS NumTasks,            \* NUM_TASKS: 4 in the code, beside the shell
          NumSlots,            \* the task slots `spawn' searches: 2 in the code
          CounterMod,          \* 2^32 in the code
          MaxIncs,             \* bound: increments a task body makes
          MaxIns               \* bound: switches to a task that are counted

ASSUME TasksAssumption == NumTasks \in Nat /\ NumSlots \in 1 .. NumTasks
ASSUME CountAssumption ==
    MaxIncs \in Nat /\ MaxIns \in Nat /\ CounterMod \in Nat /\ MaxIncs + MaxIns < CounterMod

VARIABLES build,      \* handlers: install_task_handlers was called; on_psp: the
                      \* shell runs on the process stack; sp_first: program order
          current,    \* CURRENT_TASK
          tcb,        \* TCBS
          frame,      \* what lies on each task's stack while it is not running
          cpu,        \* the registers: pc, r1, r4-r6 (low), r7-r11 (high)
          mode,       \* "thread", or "fault" once fault_hang is entered
          pendsv,     \* PendSV is pending
          systick,    \* SysTick is enabled
          spawning,   \* the `spawn' command in progress: task and step
          owned,      \* history: the registers as the shell last set them
          incs, ins   \* history: body increments and switches to each task

taskVars == <<build, current, frame, owned, incs, ins>>
multitaskVars == <<build, current, tcb, frame, cpu, mode, pendsv, systick, spawning, owned, incs, ins>>

TaskSlots == 0 .. NumTasks
Spawnable == 1 .. NumSlots
RegValue == {"a", "b"}
Junk == "junk"        \* whatever a handler or an unwritten stack leaves in a register
Dead == [state |-> "dead", sp |-> FALSE, counter |-> 0]
NoFrame == [pc |-> "none", r1 |-> 0, low |-> Junk, high |-> Junk]
NotSpawning == [task |-> 0, step |-> "idle"]

Wired == build.handlers /\ build.on_psp

MultitaskInit ==
    /\ build \in [handlers : BOOLEAN, on_psp : BOOLEAN, sp_first : BOOLEAN]
    /\ current = 0
    /\ tcb = [t \in TaskSlots |-> Dead]
    /\ frame = [t \in TaskSlots |-> NoFrame]
    /\ cpu = [pc |-> "repl", r1 |-> 0, low |-> "a", high |-> "a"]
    /\ mode = "thread" /\ pendsv = FALSE /\ systick = FALSE
    /\ spawning = NotSpawning
    /\ owned = [low |-> "a", high |-> "a"]
    /\ incs = [t \in TaskSlots |-> 0] /\ ins = [t \in TaskSlots |-> 0]

(* A pending PendSV is taken before the next thread instruction. *)
Running(t) == mode = "thread" /\ ~pendsv /\ current = t

-----------------------------------------------------------------------------
(* Thread code. *)

(* The shell computes: its registers change. *)
ReplWork ==
    /\ Running(0) /\ spawning = NotSpawning
    /\ \E l, h \in RegValue : /\ cpu' = [cpu EXCEPT !.low = l, !.high = h]
                           /\ owned' = [low |-> l, high |-> h]
    /\ UNCHANGED <<build, current, tcb, frame, mode, pendsv, systick, spawning, incs, ins>>

(* spawn NAME; -- the first dead slot, emit_fn_into_slot, spawn_jit_task and *)
(* then SysTick, one store at a time.  The task runs the counter body        *)
(* whatever was emitted.                                                     *)
Spawn ==
    /\ Running(0) /\ spawning = NotSpawning
    /\ \E t \in Spawnable :
           /\ tcb[t].state = "dead"
           /\ \A u \in 1 .. t - 1 : tcb[u].state # "dead"
           /\ spawning' = [task |-> t, step |-> "frame"]
    /\ UNCHANGED <<taskVars, tcb, cpu, mode, pendsv, systick>>

SpawnFrame ==
    /\ Running(0) /\ spawning.step = "frame"
    /\ frame' = [frame EXCEPT ![spawning.task] = [NoFrame EXCEPT !.pc = "load"]]
    /\ spawning' = [spawning EXCEPT !.step = "store1"]
    /\ UNCHANGED <<build, current, tcb, cpu, mode, pendsv, systick, owned, incs, ins>>

StoreSp == tcb' = [tcb EXCEPT ![spawning.task].sp = TRUE]
StoreState == tcb' = [tcb EXCEPT ![spawning.task].state = "ready"]

(* Mutant: the task is made ready before its stack pointer is set. *)
SpawnTcb_ReadyFirst ==
    /\ Running(0)
    /\ \/ /\ spawning.step = "store1" /\ StoreState
          /\ spawning' = [spawning EXCEPT !.step = "store2"]
       \/ /\ spawning.step = "store2" /\ StoreSp
          /\ spawning' = [spawning EXCEPT !.step = "systick"]
    /\ UNCHANGED <<taskVars, cpu, mode, pendsv, systick>>

(* Plain stores to a static, which the compiler may emit in either order;    *)
(* nothing reads the pc that is stored between them.                         *)
SpawnTcb ==
    /\ Running(0)
    /\ \/ /\ spawning.step = "store1"
          /\ IF build.sp_first THEN StoreSp ELSE StoreState
          /\ spawning' = [spawning EXCEPT !.step = "store2"]
       \/ /\ spawning.step = "store2"
          /\ IF build.sp_first THEN StoreState ELSE StoreSp
          /\ spawning' = [spawning EXCEPT !.step = "systick"]
    /\ UNCHANGED <<taskVars, cpu, mode, pendsv, systick>>

SpawnDone ==
    /\ Running(0) /\ spawning.step = "systick"
    /\ systick' = TRUE
    /\ spawning' = NotSpawning
    /\ UNCHANGED <<taskVars, tcb, cpu, mode, pendsv>>

(* task_body_1 and task_body_2: ldr r1, adds, str r1, over and over.         *)
BodyLoad(t) ==
    /\ Running(t) /\ cpu.pc = "load" /\ incs[t] < MaxIncs
    /\ cpu' = [cpu EXCEPT !.r1 = tcb[t].counter, !.pc = "store"]
    /\ UNCHANGED <<taskVars, tcb, mode, pendsv, systick, spawning>>

Plus1(n) == (n + 1) % CounterMod

BodyStore(t) ==
    /\ Running(t) /\ cpu.pc = "store"
    /\ tcb' = [tcb EXCEPT ![t].counter = Plus1(cpu.r1)]
    /\ cpu' = [cpu EXCEPT !.pc = "load"]
    /\ incs' = [incs EXCEPT ![t] = @ + 1]
    /\ UNCHANGED <<build, current, frame, mode, pendsv, systick, spawning, owned, ins>>

-----------------------------------------------------------------------------
(* Exceptions. *)

(* Mutant: the switch to a task leaves interrupts masked. *)
TimerTick_Masked ==
    /\ mode = "thread" /\ systick /\ current = 0
    /\ IF build.handlers THEN pendsv' = TRUE /\ UNCHANGED mode
                         ELSE mode' = "fault" /\ UNCHANGED pendsv
    /\ UNCHANGED <<taskVars, tcb, cpu, systick, spawning>>

(* SysTick: sys_tick_pend once it is installed, fault_hang until then. *)
TimerTick ==
    /\ mode = "thread" /\ systick
    /\ IF build.handlers THEN pendsv' = TRUE /\ UNCHANGED mode
                         ELSE mode' = "fault" /\ UNCHANGED pendsv
    /\ UNCHANGED <<taskVars, tcb, cpu, systick, spawning>>

Candidates == {t \in TaskSlots \ {current} : tcb[t].state = "ready"}

(* The scan starts at task 0 every time. *)
next_task == CHOOSE t \in Candidates : \A u \in Candidates : t <= u

(* The task's TCB after it is switched out, and after it is switched in. *)
switched_out_KeepsState(c) == [c EXCEPT !.sp = TRUE]     \* Mutant
switched_out(c) == [c EXCEPT !.sp = TRUE, !.state = "ready"]
switched_in(c) == [c EXCEPT !.state = "running", !.counter = Plus1(@)]

(* Mutants: the outgoing task's counter is incremented; r7-r11 are not saved. *)
new_tcbs_CountsOutgoing(n) ==
    [tcb EXCEPT ![current] = [switched_out(@) EXCEPT !.counter = Plus1(@)],
                ![n] = [@ EXCEPT !.state = "running"]]
saved_LowOnly == [cpu EXCEPT !.low = Junk, !.high = Junk]

new_tcbs(n) == [tcb EXCEPT ![current] = switched_out(@), ![n] = switched_in(@)]

(* r4-r6 are scratch before the save and again after the restore. *)
saved == [cpu EXCEPT !.low = Junk]
restored(n) == [frame[n] EXCEPT !.low = Junk]

(* The switch.  The handler also returns if no other task is ready, which    *)
(* never happens: spawn makes one ready before it starts the timer.  PSP     *)
(* holds no stack of the shell's until it runs on one, and a task without a  *)
(* stack pointer is restored from address 0; what the handler leaves behind  *)
(* on its way into a fault is not used again.                                *)
PendSVSwitch ==
    /\ mode = "thread" /\ pendsv /\ Candidates # {}
    /\ pendsv' = FALSE
    /\ IF (current = 0 /\ ~build.on_psp) \/ ~tcb[next_task].sp
         THEN mode' = "fault" /\ UNCHANGED <<taskVars, tcb, cpu>>
         ELSE LET n == next_task
              IN  /\ frame' = [frame EXCEPT ![current] = saved]
                  /\ tcb' = new_tcbs(n)
                  /\ current' = n
                  /\ cpu' = restored(n)
                  /\ ins' = [ins EXCEPT ![n] = IF @ <= MaxIns THEN @ + 1 ELSE @]
                  /\ UNCHANGED <<build, mode, owned, incs>>
    /\ UNCHANGED <<systick, spawning>>

(* fault_hang loops for ever. *)
FaultHang == mode = "fault" /\ UNCHANGED multitaskVars

MultitaskNext ==
    \/ ReplWork
    \/ Spawn
    \/ SpawnFrame
    \/ SpawnTcb
    \/ SpawnDone
    \/ \E t \in TaskSlots : BodyLoad(t)
    \/ \E t \in TaskSlots : BodyStore(t)
    \/ TimerTick
    \/ PendSVSwitch
    \/ FaultHang

MultitaskSpec == MultitaskInit /\ [][MultitaskNext]_multitaskVars

(* The timer keeps firing, a pended exception is taken, and the shell, which *)
(* runs for thousands of instructions between two ticks, gets through the    *)
(* spawn it has begun.  Nothing is assumed of the task bodies.               *)
MultitaskFairSpec ==
    /\ MultitaskSpec
    /\ WF_multitaskVars(TimerTick) /\ WF_multitaskVars(PendSVSwitch)
    /\ SF_multitaskVars(SpawnFrame \/ SpawnTcb \/ SpawnDone)

-----------------------------------------------------------------------------
(* A task that has been started is running if it is the current one and      *)
(* ready otherwise, so no switch ever loses one: each can be chosen again,   *)
(* and PendSV always finds another task to switch to.                        *)
Started(t) == tcb[t].sp /\ ~(spawning.task = t /\ spawning.step = "store2")
TasksNeverLost ==
    /\ \A t \in TaskSlots : Started(t) => tcb[t].state = IF t = current THEN "running" ELSE "ready"
    /\ pendsv => Candidates # {}

(* PendSV, which can come between any two stores of spawn_jit_task, never    *)
(* finds a task ready whose stack pointer or initial frame is missing,       *)
(* provided that the compiler keeps the order of the two plain stores.       *)
ReadyIsComplete ==
    build.sp_first =>
        \A t \in TaskSlots : tcb[t].state = "ready" => tcb[t].sp /\ frame[t].pc # "none"

(* When the shell is resumed, after however many switches, it is where it    *)
(* was and r7-r11, the registers PendSV does not use, hold what it left in   *)
(* them.                                                                     *)
HighRegistersKept ==
    current = 0 => cpu.pc = "repl" /\ cpu.high = owned.high

(* PendSV and the task body both increment the counter, and a switch between *)
(* a body's load and its store loses the former's increment, never the       *)
(* latter's.                                                                 *)
CounterCountsBody ==
    \A t \in TaskSlots : ins[t] <= MaxIns =>
        incs[t] <= tcb[t].counter /\ tcb[t].counter <= incs[t] + ins[t]

(* Preemption and the shell.  In a build whose boot does what the handlers   *)
(* need, and that keeps the order of the stores, the shell is not starved:   *)
(* however many tasks run it gets its turn, and nothing faults.  Without     *)
(* that boot, as the program is built, the first ticks after a spawn end in  *)
(* fault_hang.                                                               *)
ShellKeepsRunning ==
    /\ Wired /\ build.sp_first => []<>(mode = "thread" /\ current = 0)
    /\ ~Wired => (systick ~> mode = "fault")

-----------------------------------------------------------------------------
(* What the documents say, and the code does not do. *)

(* Todo.md: PendSV is a "round-robin scheduler": in a build where it runs,   *)
(* every task that is ready runs.                                            *)
EveryTaskRuns ==
    Wired /\ build.sp_first => \A t \in Spawnable : tcb[t].state = "ready" ~> current = t

(* Todo.md: it "saves/restores R4-R11": the shell is resumed with all of its *)
(* registers as it left them.                                                *)
ShellResumesWhole ==
    current = 0 => cpu.pc = "repl" /\ cpu.low = owned.low /\ cpu.high = owned.high
=============================================================================
