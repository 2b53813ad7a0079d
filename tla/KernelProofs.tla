---------------------------- MODULE KernelProofs ----------------------------
(***************************************************************************)
(* The capability layer, the vector table and the tasks, for any number of *)
(* tasks, ports, pins, vectors and task slots and any size of the bitmap:  *)
(* tokens are exclusive and no enabled pin is lost, the check of a run of  *)
(* blocks answers for the blocks of the run, whatever is claimed and       *)
(* released during it, an interrupt runs the handler attached last, and a  *)
(* context switch loses no task, whichever build runs.                     *)
(***************************************************************************)
EXTENDS Tokens, RangeCheck, Vectors, Multitask, NaturalsInduction,
        WellFoundedInduction, TLAPS

(* The steps that name no prover are for the SMT solver.                     *)
USE SMTT(30)

-----------------------------------------------------------------------------
(* Tasks. *)

Register == RegValue \cup {Junk}
Registers == [pc : {"none", "repl", "load", "store"}, r1 : Nat, low : Register, high : Register]
Controls == [state : {"dead", "ready", "running"}, sp : BOOLEAN, counter : Nat]

MultitaskTypeOK ==
    /\ build \in [handlers : BOOLEAN, on_psp : BOOLEAN, sp_first : BOOLEAN]
    /\ current \in TaskSlots
    /\ tcb \in [TaskSlots -> Controls]
    /\ frame \in [TaskSlots -> Registers]
    /\ cpu \in Registers
    /\ mode \in {"thread", "fault"}
    /\ pendsv \in BOOLEAN /\ systick \in BOOLEAN
    /\ spawning \in [task : TaskSlots, step : {"idle", "frame", "store1", "store2", "systick"}]
    /\ owned \in [low : RegValue, high : RegValue]
    /\ incs \in [TaskSlots -> Nat] /\ ins \in [TaskSlots -> Nat]

(* The registers of a task: in the processor while it runs, on its stack     *)
(* otherwise.                                                                *)
Context(t) == IF t = current THEN cpu ELSE frame[t]

(* A task's slot while it is being spawned and before: nothing but spawn     *)
(* touches it, because it is not ready, or has no stack pointer, and does    *)
(* not run.                                                                  *)
SpawnOK ==
    /\ spawning.step = "idle" <=> spawning.task = 0
    /\ spawning.step # "idle" => spawning.task \in Spawnable
    /\ spawning.step \in {"frame", "store1"} =>
           tcb[spawning.task].state = "dead" /\ ~tcb[spawning.task].sp
    /\ spawning.step = "store2" =>
           IF build.sp_first THEN tcb[spawning.task].state = "dead" /\ tcb[spawning.task].sp
                             ELSE tcb[spawning.task].state = "ready" /\ ~tcb[spawning.task].sp
    /\ spawning.step \in {"store1", "store2"} => frame[spawning.task].pc # "none"
    /\ spawning.step = "systick" => tcb[spawning.task].sp

(* A task without a stack pointer is dead, unless it is just being spawned   *)
(* by a build that stores the state first, and does not run unless it is the *)
(* shell, which gets its stack pointer when it is first switched out.        *)
StatesOK ==
    /\ \A t \in TaskSlots : ~tcb[t].sp =>
           tcb[t].state = "dead" \/ (spawning.task = t /\ spawning.step = "store2" /\ ~build.sp_first)
    /\ \A t \in TaskSlots : Started(t) => tcb[t].state = IF t = current THEN "running" ELSE "ready"
    /\ current # 0 => Started(0) /\ Started(current)

(* The timer runs only once a task has been started. *)
TimerOK ==
    /\ pendsv => systick
    /\ systick => \E t \in Spawnable : Started(t)

(* What is on a stack that can be switched to. *)
ContextOK ==
    /\ \A t \in TaskSlots : Started(t) => Context(t).pc # "none"
    /\ Context(0).pc = "repl" /\ Context(0).high = owned.high

(* The counter of a task, and the copy of it in r1 between load and store.   *)
Between(n, t) == incs[t] <= n /\ n <= incs[t] + ins[t]
CountsOK ==
    \A t \in TaskSlots :
        /\ incs[t] <= MaxIncs
        /\ Context(t).pc = "store" => incs[t] < MaxIncs
        /\ ins[t] <= MaxIns => Between(tcb[t].counter, t)
        /\ ins[t] <= MaxIns /\ Context(t).pc = "store" => Between(Context(t).r1, t)

MultitaskInv == MultitaskTypeOK /\ SpawnOK /\ StatesOK /\ TimerOK /\ ContextOK /\ CountsOK

-----------------------------------------------------------------------------
(* spawn searches slots of tasks, never the shell's. *)
LEMMA SlotsAreTasks == 0 \in TaskSlots /\ NumTasks \in Nat /\ Spawnable \subseteq TaskSlots /\ 0 \notin Spawnable
BY TasksAssumption DEF TaskSlots, Spawnable

(* The scan of PendSV finds a task whenever there is one to find. *)
LEMMA NextTaskFound ==
    ASSUME Candidates # {}
    PROVE  next_task \in Candidates
<1>1. Candidates \subseteq Nat
    BY TasksAssumption DEF Candidates, TaskSlots
<1>2. PICK t \in Candidates : \A u \in Candidates : ~(<<u, t>> \in OpToRel(<, Nat))
    BY <1>1, NatLessThanWellFounded, WFMin, ZenonT(30)
<1>3. \A u \in Candidates : ~(u < t)
    BY <1>1, <1>2, ZenonT(30) DEF OpToRel
<1>4. \E n \in Candidates : \A u \in Candidates : n <= u
    BY <1>1, <1>3
<1> QED BY <1>4, ZenonT(30) DEF next_task

(* Incrementing below the limit does not wrap. *)
LEMMA NoWrapBelow ==
    ASSUME NEW n \in Nat
    PROVE  Plus1(n) \in Nat /\ (n < MaxIncs + MaxIns => Plus1(n) = n + 1)
<1>1. CounterMod \in Nat /\ CounterMod > 0 /\ MaxIncs + MaxIns < CounterMod /\ MaxIncs \in Nat /\ MaxIns \in Nat
    BY CountAssumption
<1>2. (n + 1) % CounterMod \in Nat
    BY <1>1
<1>3. n + 1 < CounterMod => (n + 1) % CounterMod = n + 1
    BY <1>1
<1> QED BY <1>1, <1>2, <1>3 DEF Plus1

(* Boot: only the shell, which owns the processor. *)
LEMMA MultitaskInvInit == MultitaskInit => MultitaskInv
<1> SUFFICES ASSUME MultitaskInit PROVE MultitaskInv
    BY ZenonT(30)
<1>1. 0 \in TaskSlots /\ NumTasks \in Nat /\ MaxIncs \in Nat
    BY TasksAssumption, CountAssumption DEF TaskSlots
<1>2. MultitaskTypeOK
    BY <1>1, ZenonT(30) DEF MultitaskInit, MultitaskTypeOK, Controls, Registers, Register, RegValue, Dead, NoFrame, NotSpawning
<1>3. SpawnOK /\ StatesOK /\ TimerOK
    BY <1>1, ZenonT(30) DEF MultitaskInit, SpawnOK, StatesOK, TimerOK, Started, Dead, NotSpawning
<1>4. ContextOK /\ CountsOK
    BY <1>1 DEF MultitaskInit, ContextOK, CountsOK, Context, Between, Started, Dead, NoFrame
<1> QED BY <1>2, <1>3, <1>4, ZenonT(30) DEF MultitaskInv

(* The shell changes only registers of its own, and while it runs. *)
LEMMA ReplWorkKeeps ==
    ASSUME MultitaskInv, ReplWork
    PROVE  MultitaskInv'
<1> USE DEF MultitaskInv
<1>1. MultitaskTypeOK'
    <2>1. PICK l, h \in RegValue : cpu' = [cpu EXCEPT !.low = l, !.high = h] /\ owned' = [low |-> l, high |-> h]
        BY ZenonT(30) DEF ReplWork
    <2>2. cpu' \in Registers /\ owned' \in [low : RegValue, high : RegValue]
        BY <2>1, ZenonT(30) DEF MultitaskTypeOK, Registers, Register
    <2> QED BY <2>2, ZenonT(30) DEF ReplWork, MultitaskTypeOK
<1>2. SpawnOK'
    BY SlotsAreTasks, ZenonT(30) DEF ReplWork, SpawnOK
<1>3. StatesOK'
    BY SlotsAreTasks, ZenonT(30) DEF ReplWork, StatesOK, Started
<1>4. TimerOK'
    BY SlotsAreTasks, ZenonT(30) DEF ReplWork, TimerOK, Started
<1>5. ContextOK'
    BY SlotsAreTasks DEF ReplWork, ContextOK, Context, Started, Running
<1>6. CountsOK'
    BY SlotsAreTasks DEF ReplWork, CountsOK, Context, Between
<1> QED BY <1>1, <1>2, <1>3, <1>4, <1>5, <1>6, ZenonT(30)

(* spawn takes a slot that nobody else uses. *)
LEMMA SpawnKeeps ==
    ASSUME MultitaskInv, Spawn
    PROVE  MultitaskInv'
<1> USE DEF MultitaskInv
<1>1. MultitaskTypeOK'
    BY SlotsAreTasks DEF Spawn, taskVars, MultitaskTypeOK
<1>2. SpawnOK'
    BY SlotsAreTasks DEF Spawn, SpawnOK, StatesOK, Started, NotSpawning
<1>3. StatesOK'
    BY SlotsAreTasks DEF Spawn, taskVars, StatesOK, Started, NotSpawning
<1>4. TimerOK'
    BY SlotsAreTasks DEF Spawn, TimerOK, Started
<1>5. ContextOK'
    BY SlotsAreTasks, ZenonT(30) DEF Spawn, taskVars, ContextOK, Context, Started, NotSpawning
<1>6. CountsOK'
    BY SlotsAreTasks, ZenonT(30) DEF Spawn, taskVars, CountsOK, Context, Between
<1> QED BY <1>1, <1>2, <1>3, <1>4, <1>5, <1>6, ZenonT(30)

(* The first frame goes onto the stack of a task that is not running. *)
LEMMA SpawnFrameKeeps ==
    ASSUME MultitaskInv, SpawnFrame
    PROVE  MultitaskInv'
<1> USE DEF MultitaskInv
<1>1. MultitaskTypeOK'
    <2>1. [NoFrame EXCEPT !.pc = "load"] \in Registers
        BY ZenonT(30) DEF NoFrame, Registers, Register
    <2>2. spawning' \in [task : TaskSlots, step : {"idle", "frame", "store1", "store2", "systick"}]
        BY ZenonT(30) DEF SpawnFrame, MultitaskTypeOK
    <2> QED BY <2>1, <2>2, ZenonT(30) DEF SpawnFrame, MultitaskTypeOK
<1>2. SpawnOK'
    BY SlotsAreTasks DEF SpawnFrame, MultitaskTypeOK, SpawnOK
<1>3. StatesOK'
    BY SlotsAreTasks DEF SpawnFrame, StatesOK, Started
<1>4. TimerOK'
    BY SlotsAreTasks DEF SpawnFrame, TimerOK, Started
<1>5. ContextOK'
    BY SlotsAreTasks DEF SpawnFrame, ContextOK, Context, Started, Running
<1>6. CountsOK'
    BY SlotsAreTasks DEF SpawnFrame, CountsOK, Context, Between
<1> QED BY <1>1, <1>2, <1>3, <1>4, <1>5, <1>6, ZenonT(30)

(* The task is complete before it is made ready. *)
LEMMA SpawnTcbKeeps ==
    ASSUME MultitaskInv, SpawnTcb
    PROVE  MultitaskInv'
<1> USE DEF MultitaskInv
<1>1. MultitaskTypeOK'
    <2>1. spawning' \in [task : TaskSlots, step : {"idle", "frame", "store1", "store2", "systick"}]
        BY ZenonT(30) DEF SpawnTcb, MultitaskTypeOK
    <2>2. tcb' \in [TaskSlots -> Controls]
        <3>1. ASSUME NEW c \in Controls
              PROVE  [c EXCEPT !.sp = TRUE] \in Controls /\ [c EXCEPT !.state = "ready"] \in Controls
            BY <3>1, ZenonT(30) DEF Controls
        <3>2. spawning.task \in TaskSlots /\ tcb \in [TaskSlots -> Controls]
            BY ZenonT(30) DEF MultitaskTypeOK
        <3>3. \/ tcb' = [tcb EXCEPT ![spawning.task] = [tcb[spawning.task] EXCEPT !.sp = TRUE]]
              \/ tcb' = [tcb EXCEPT ![spawning.task] = [tcb[spawning.task] EXCEPT !.state = "ready"]]
            BY ZenonT(30) DEF SpawnTcb, StoreSp, StoreState
        <3> QED BY <3>1, <3>2, <3>3
    <2> QED BY <2>1, <2>2, ZenonT(30) DEF SpawnTcb, StoreSp, StoreState, taskVars, MultitaskTypeOK
<1>2. SpawnOK'
    BY SlotsAreTasks DEF SpawnTcb, StoreSp, StoreState, taskVars, MultitaskTypeOK, Controls, SpawnOK, Running
<1>3. StatesOK'
    BY SlotsAreTasks DEF SpawnTcb, StoreSp, StoreState, taskVars, MultitaskTypeOK, Controls, SpawnOK, StatesOK, Started, Running
<1>4. TimerOK'
    BY SlotsAreTasks, ZenonT(30) DEF SpawnTcb, StoreSp, StoreState, MultitaskTypeOK, SpawnOK, TimerOK, Started
<1>5. ContextOK'
    BY SlotsAreTasks, ZenonT(30) DEF SpawnTcb, StoreSp, StoreState, taskVars, MultitaskTypeOK, SpawnOK, ContextOK, Context, Started, Running
<1>6. CountsOK'
    BY SlotsAreTasks DEF SpawnTcb, StoreSp, StoreState, taskVars, MultitaskTypeOK, Controls, StatesOK, ContextOK, CountsOK, Context, Between, Running
<1> QED BY <1>1, <1>2, <1>3, <1>4, <1>5, <1>6, ZenonT(30)

(* By now the new task is there to be switched to. *)
LEMMA SpawnDoneKeeps ==
    ASSUME MultitaskInv, SpawnDone
    PROVE  MultitaskInv'
<1> USE DEF MultitaskInv
<1>1. MultitaskTypeOK'
    BY SlotsAreTasks, ZenonT(30) DEF SpawnDone, taskVars, MultitaskTypeOK, NotSpawning
<1>2. SpawnOK'
    BY SlotsAreTasks, ZenonT(30) DEF SpawnDone, SpawnOK, NotSpawning
<1>3. StatesOK'
    BY SlotsAreTasks, ZenonT(30) DEF SpawnDone, taskVars, StatesOK, Started, NotSpawning
<1>4. TimerOK'
    BY SlotsAreTasks, ZenonT(30) DEF SpawnDone, SpawnOK, TimerOK, Started, NotSpawning
<1>5. ContextOK'
    BY SlotsAreTasks, ZenonT(30) DEF SpawnDone, taskVars, ContextOK, Context, Started
<1>6. CountsOK'
    BY SlotsAreTasks, ZenonT(30) DEF SpawnDone, taskVars, CountsOK, Context, Between
<1> QED BY <1>1, <1>2, <1>3, <1>4, <1>5, <1>6, ZenonT(30)

(* The copy in r1 is between the bounds when it is made. *)
LEMMA BodyLoadKeeps ==
    ASSUME MultitaskInv, NEW t \in TaskSlots, BodyLoad(t)
    PROVE  MultitaskInv'
<1> USE DEF MultitaskInv
<1>1. MultitaskTypeOK'
    BY SlotsAreTasks, ZenonT(30) DEF BodyLoad, taskVars, MultitaskTypeOK, Controls, Registers
<1>2. SpawnOK'
    BY SlotsAreTasks, ZenonT(30) DEF BodyLoad, taskVars, SpawnOK
<1>3. StatesOK'
    BY SlotsAreTasks, ZenonT(30) DEF BodyLoad, taskVars, StatesOK, Started
<1>4. TimerOK'
    BY SlotsAreTasks, ZenonT(30) DEF BodyLoad, TimerOK, Started
<1>5. ContextOK'
    BY SlotsAreTasks DEF BodyLoad, taskVars, ContextOK, Context, Started
<1>6. CountsOK'
    BY SlotsAreTasks DEF BodyLoad, taskVars, CountsOK, Context, Between, Running
<1> QED BY <1>1, <1>2, <1>3, <1>4, <1>5, <1>6, ZenonT(30)

(* The copy may be old, but not older than the last increment of the body. *)
LEMMA BodyStoreKeeps ==
    ASSUME MultitaskInv, NEW t \in TaskSlots, BodyStore(t)
    PROVE  MultitaskInv'
<1> USE DEF MultitaskInv
<1>1. MultitaskTypeOK'
    <2>1. cpu.r1 \in Nat
        BY ZenonT(30) DEF MultitaskTypeOK, Registers
    <2>2. Plus1(cpu.r1) \in Nat
        BY <2>1, NoWrapBelow, ZenonT(30)
    <2>3. cpu' \in Registers
        BY ZenonT(30) DEF BodyStore, MultitaskTypeOK, Registers
    <2> QED BY <2>2, <2>3 DEF BodyStore, MultitaskTypeOK, Controls
<1>2. SpawnOK'
    BY SlotsAreTasks DEF BodyStore, SpawnOK
<1>3. StatesOK'
    BY SlotsAreTasks DEF BodyStore, StatesOK, Started
<1>4. TimerOK'
    BY SlotsAreTasks DEF BodyStore, TimerOK, Started
<1>5. ContextOK'
    BY SlotsAreTasks DEF BodyStore, ContextOK, Context, Started
<1>6. CountsOK'
    <2> SUFFICES ASSUME NEW u \in TaskSlots
                 PROVE  /\ incs'[u] <= MaxIncs
                        /\ Context(u)'.pc = "store" => incs'[u] < MaxIncs
                        /\ ins'[u] <= MaxIns => Between(tcb[u].counter, u)'
                        /\ ins'[u] <= MaxIns /\ Context(u)'.pc = "store" => Between(Context(u).r1, u)'
        BY ZenonT(30) DEF CountsOK
    <2>1. CASE u # t
        BY <2>1 DEF BodyStore, CountsOK, Context, Between
    <2>2. CASE u = t
        <3>1. /\ incs[t] \in Nat /\ ins[t] \in Nat /\ cpu.r1 \in Nat /\ MaxIncs \in Nat /\ MaxIns \in Nat
              /\ incs'[t] = incs[t] + 1 /\ ins'[t] = ins[t] /\ tcb'[t].counter = Plus1(cpu.r1)
              /\ Context(t)'.pc = "load"
            BY CountAssumption DEF BodyStore, MultitaskTypeOK, Registers, Context, Running
        <3>2. incs[t] < MaxIncs /\ (ins[t] <= MaxIns => incs[t] <= cpu.r1 /\ cpu.r1 <= incs[t] + ins[t])
            BY ZenonT(30) DEF BodyStore, Running, CountsOK, Context, Between
        <3>3. ins[t] <= MaxIns => Plus1(cpu.r1) = cpu.r1 + 1
            BY <3>1, <3>2, NoWrapBelow
        <3> QED BY <2>2, <3>1, <3>2, <3>3 DEF Between
    <2> QED BY <2>1, <2>2, ZenonT(30)
<1> QED BY <1>1, <1>2, <1>3, <1>4, <1>5, <1>6, ZenonT(30)

(* Only the pending bit, or a fault. *)
LEMMA TimerTickKeeps ==
    ASSUME MultitaskInv, TimerTick
    PROVE  MultitaskInv'
<1> USE DEF MultitaskInv
<1>1. MultitaskTypeOK'
    BY SlotsAreTasks, ZenonT(30) DEF TimerTick, taskVars, MultitaskTypeOK
<1>2. SpawnOK'
    BY SlotsAreTasks, ZenonT(30) DEF TimerTick, taskVars, SpawnOK
<1>3. StatesOK'
    BY SlotsAreTasks, ZenonT(30) DEF TimerTick, taskVars, StatesOK, Started
<1>4. TimerOK'
    BY SlotsAreTasks, ZenonT(30) DEF TimerTick, TimerOK, Started
<1>5. ContextOK'
    BY SlotsAreTasks, ZenonT(30) DEF TimerTick, taskVars, ContextOK, Context, Started
<1>6. CountsOK'
    BY SlotsAreTasks, ZenonT(30) DEF TimerTick, taskVars, CountsOK, Context, Between
<1> QED BY <1>1, <1>2, <1>3, <1>4, <1>5, <1>6, ZenonT(30)

(* The switch: the outgoing task leaves its registers on its stack, and the  *)
(* incoming one finds its own there.                                         *)
LEMMA SwitchKeeps ==
    ASSUME MultitaskInv, PendSVSwitch
    PROVE  MultitaskInv'
<1> USE DEF MultitaskInv
<1>1. CASE (current = 0 /\ ~build.on_psp) \/ ~tcb[next_task].sp
    <2>1. mode' = "fault" /\ pendsv' = FALSE /\ UNCHANGED <<taskVars, tcb, cpu, systick, spawning>>
        BY <1>1, ZenonT(30) DEF PendSVSwitch
    <2>2. MultitaskTypeOK' /\ SpawnOK' /\ StatesOK' /\ TimerOK'
        BY <2>1, ZenonT(30) DEF taskVars, MultitaskTypeOK, SpawnOK, StatesOK, TimerOK, Started
    <2>3. ContextOK' /\ CountsOK'
        BY <2>1, ZenonT(30) DEF taskVars, ContextOK, CountsOK, Context, Between, Started
    <2> QED BY <2>2, <2>3, ZenonT(30)
<1>2. CASE ~((current = 0 /\ ~build.on_psp) \/ ~tcb[next_task].sp)
    <2>0. PICK n \in TaskSlots, old \in TaskSlots : n = next_task /\ old = current
        BY NextTaskFound, ZenonT(30) DEF PendSVSwitch, Candidates, MultitaskTypeOK
    <2>1. n # old /\ tcb[n].state = "ready" /\ tcb[n].sp
        BY <1>2, <2>0, NextTaskFound, ZenonT(30) DEF PendSVSwitch, Candidates
    <2>2. /\ frame' = [frame EXCEPT ![old] = saved] /\ tcb' = new_tcbs(n)
          /\ current' = n /\ cpu' = restored(n) /\ pendsv' = FALSE
          /\ ins' = [ins EXCEPT ![n] = IF @ <= MaxIns THEN @ + 1 ELSE @]
          /\ UNCHANGED <<build, mode, owned, incs, systick, spawning>>
        BY <1>2, <2>0, ZenonT(30) DEF PendSVSwitch
    <2>3. /\ Started(n)
          /\ Started(old) \/ (old = 0 /\ ~tcb[old].sp)
          /\ ~(spawning.step = "store2" /\ spawning.task = old)
        <3>1. Started(n)
            BY <2>0, <2>1, ZenonT(30) DEF StatesOK, SpawnOK, Started
        <3>2. CASE old # 0
            <4>1. Started(old)
                BY <2>0, <3>2, ZenonT(30) DEF StatesOK
            <4> QED BY <3>1, <4>1, ZenonT(30) DEF Started
        <3>3. CASE old = 0
            <4>1. ~(spawning.step = "store2" /\ spawning.task = old)
                BY <3>3, ZenonT(30) DEF SpawnOK
            <4>2. tcb[old].sp => Started(old)
                BY <4>1, ZenonT(30) DEF Started
            <4> QED BY <3>1, <3>3, <4>1, <4>2, ZenonT(30)
        <3> QED BY <3>2, <3>3, ZenonT(30)
    <2>4. /\ tcb[old] \in Controls /\ tcb[n] \in Controls /\ Plus1(tcb[n].counter) \in Nat
          /\ frame[n] \in Registers /\ cpu \in Registers
        BY <2>0, <2>1, NoWrapBelow, ZenonT(30) DEF MultitaskTypeOK, Controls
    <2>5. /\ tcb'[old] = switched_out(tcb[old]) /\ tcb'[n] = switched_in(tcb[n])
          /\ \A t \in TaskSlots \ {old, n} : tcb'[t] = tcb[t]
          /\ DOMAIN tcb' = TaskSlots
        BY <2>0, <2>1, <2>2, ZenonT(30) DEF new_tcbs, MultitaskTypeOK
    <2>6. /\ tcb'[old].sp = TRUE /\ tcb'[old].state = "ready" /\ tcb'[old].counter = tcb[old].counter
          /\ tcb'[n].sp = tcb[n].sp /\ tcb'[n].state = "running"
          /\ tcb'[n].counter = Plus1(tcb[n].counter)
        BY <2>0, <2>4, <2>5, ZenonT(30) DEF switched_out, switched_in, Controls
    <2>7. switched_out(tcb[old]) \in Controls /\ switched_in(tcb[n]) \in Controls
        BY <2>0, <2>4, ZenonT(30) DEF switched_out, switched_in, Controls
    <2>8. tcb' \in [TaskSlots -> Controls]
        BY <2>0, <2>1, <2>2, <2>7, ZenonT(30) DEF new_tcbs, MultitaskTypeOK
    <2>9. /\ saved \in Registers /\ restored(n) \in Registers
          /\ saved.pc = cpu.pc /\ saved.r1 = cpu.r1 /\ saved.high = cpu.high
          /\ restored(n).pc = frame[n].pc /\ restored(n).r1 = frame[n].r1
          /\ restored(n).high = frame[n].high
        BY <2>0, <2>4, ZenonT(30) DEF saved, restored, Registers, Register
    <2>10. /\ Context(old) = cpu /\ Context(old)' = saved
           /\ Context(n) = frame[n] /\ Context(n)' = restored(n)
           /\ \A t \in TaskSlots \ {old, n} : Context(t)' = Context(t)
        BY <2>0, <2>1, <2>2, ZenonT(30) DEF Context, MultitaskTypeOK
    <2>11. \A t \in TaskSlots : /\ Context(t)'.pc = Context(t).pc /\ Context(t)'.r1 = Context(t).r1
                            /\ Context(t)'.high = Context(t).high
        BY <2>9, <2>10, ZenonT(30)
    <2>12. \A t \in TaskSlots : Started(t)' <=> Started(t) \/ t = old
        <3> SUFFICES ASSUME NEW t \in TaskSlots PROVE Started(t)' <=> Started(t) \/ t = old
            BY ZenonT(30)
        <3>1. CASE t = old
            BY <2>2, <2>3, <2>6, <3>1, ZenonT(30) DEF Started
        <3>2. CASE t # old
            <4>1. tcb'[t].sp = tcb[t].sp
                BY <2>5, <2>6, <3>2, ZenonT(30)
            <4> QED BY <2>2, <3>2, <4>1, ZenonT(30) DEF Started
        <3> QED BY <3>1, <3>2, ZenonT(30)
    <2>13. MultitaskTypeOK'
        <3>1. ins' \in [TaskSlots -> Nat]
            BY <2>2, CountAssumption DEF MultitaskTypeOK
        <3>2. frame' \in [TaskSlots -> Registers]
            BY <2>2, <2>9, ZenonT(30) DEF MultitaskTypeOK
        <3> QED BY <2>0, <2>2, <2>8, <2>9, <3>1, <3>2, ZenonT(30) DEF MultitaskTypeOK
    <2>14. SpawnOK'
        <3>1. spawning.task \in TaskSlots
            BY ZenonT(30) DEF MultitaskTypeOK
        <3>2. spawning.step \in {"frame", "store1", "store2"} => spawning.task # n /\ spawning.task # old
            <4> SUFFICES ASSUME spawning.step \in {"frame", "store1", "store2"}
                         PROVE  spawning.task # n /\ spawning.task # old
                BY ZenonT(30)
            <4>1. /\ tcb[spawning.task].state = "dead" \/ (tcb[spawning.task].state = "ready" /\ ~tcb[spawning.task].sp)
                  /\ spawning.task # 0
                BY SlotsAreTasks, ZenonT(30) DEF SpawnOK
            <4>2. old # 0 => tcb[old].state = "running"
                BY <2>0, ZenonT(30) DEF StatesOK
            <4> QED BY <2>1, <4>1, <4>2, ZenonT(30)
        <3>3. spawning.step \in {"frame", "store1", "store2"} =>
                  tcb'[spawning.task] = tcb[spawning.task] /\ frame'[spawning.task] = frame[spawning.task]
            BY <2>2, <2>5, <3>1, <3>2, ZenonT(30) DEF MultitaskTypeOK
        <3>4. tcb[spawning.task].sp => tcb'[spawning.task].sp
            BY <2>5, <2>6, <3>1, ZenonT(30)
        <3> QED BY <2>2, <3>3, <3>4, ZenonT(30) DEF SpawnOK
    <2>15. StatesOK'
        <3>1. \A t \in TaskSlots : ~tcb'[t].sp =>
                  tcb'[t].state = "dead" \/ (spawning'.task = t /\ spawning'.step = "store2" /\ ~build'.sp_first)
            <4> SUFFICES ASSUME NEW t \in TaskSlots, ~tcb'[t].sp
                         PROVE  tcb'[t].state = "dead"
                                \/ (spawning.task = t /\ spawning.step = "store2" /\ ~build.sp_first)
                BY <2>2, ZenonT(30)
            <4>1. tcb'[t] = tcb[t]
                BY <2>1, <2>5, <2>6, ZenonT(30)
            <4> QED BY <4>1, ZenonT(30) DEF StatesOK
        <3>2. \A t \in TaskSlots : Started(t)' => tcb'[t].state = IF t = current' THEN "running" ELSE "ready"
            <4> SUFFICES ASSUME NEW t \in TaskSlots, Started(t)'
                         PROVE  tcb'[t].state = IF t = current' THEN "running" ELSE "ready"
                BY ZenonT(30)
            <4>1. CASE t = old \/ t = n
                BY <2>1, <2>2, <2>6, <4>1, ZenonT(30)
            <4>2. CASE t # old /\ t # n
                <5>1. Started(t) /\ tcb'[t] = tcb[t] /\ t # current /\ t # current'
                    BY <2>0, <2>2, <2>5, <2>12, <4>2, ZenonT(30)
                <5> QED BY <5>1, ZenonT(30) DEF StatesOK
            <4> QED BY <4>1, <4>2, ZenonT(30)
        <3>3. Started(0)' /\ Started(current)'
            <4>1. Started(n)' /\ Started(old)'
                BY <2>0, <2>3, <2>12, ZenonT(30)
            <4>2. Started(current)'
                <5>1. Started(current)' <=> Started(n)'
                    BY <2>2, ZenonT(30) DEF Started
                <5> QED BY <4>1, <5>1, ZenonT(30)
            <4>3. old # 0 => Started(0)
                BY <2>0, ZenonT(30) DEF StatesOK
            <4> QED BY <2>12, <4>1, <4>2, <4>3, SlotsAreTasks, ZenonT(30)
        <3> QED BY <3>1, <3>2, <3>3, ZenonT(30) DEF StatesOK
    <2>16. TimerOK'
        BY <2>0, <2>2, <2>12, SlotsAreTasks, ZenonT(30) DEF TimerOK
    <2>17. ContextOK'
        BY <2>0, <2>2, <2>3, <2>11, <2>12, SlotsAreTasks, ZenonT(30) DEF ContextOK
    <2>18. CountsOK'
        <3> SUFFICES ASSUME NEW t \in TaskSlots
                     PROVE  /\ incs'[t] <= MaxIncs
                            /\ Context(t)'.pc = "store" => incs'[t] < MaxIncs
                            /\ ins'[t] <= MaxIns => Between(tcb[t].counter, t)'
                            /\ ins'[t] <= MaxIns /\ Context(t)'.pc = "store" => Between(Context(t).r1, t)'
            BY ZenonT(30) DEF CountsOK
        <3>0. incs' = incs /\ DOMAIN ins = TaskSlots
            BY <2>2, ZenonT(30) DEF MultitaskTypeOK
        <3>1. CASE t # n
            <4>1. ins'[t] = ins[t]
                BY <2>2, <3>0, <3>1, ZenonT(30)
            <4>2. tcb'[t].counter = tcb[t].counter
                BY <2>5, <2>6, <3>1, ZenonT(30)
            <4> QED BY <2>11, <3>0, <4>1, <4>2, ZenonT(30) DEF CountsOK, Between
        <3>2. CASE t = n
            <4>1. /\ incs[t] \in Nat /\ ins[t] \in Nat /\ MaxIncs \in Nat /\ MaxIns \in Nat
                  /\ tcb[t].counter \in Nat /\ incs[t] <= MaxIncs
                BY <2>4, <3>2, CountAssumption, ZenonT(30) DEF MultitaskTypeOK, Controls, CountsOK
            <4>2. ins'[t] = IF ins[t] <= MaxIns THEN ins[t] + 1 ELSE ins[t]
                BY <2>2, <3>0, <3>2, ZenonT(30)
            <4>3. ins'[t] <= MaxIns => ins[t] <= MaxIns /\ ins'[t] = ins[t] + 1
                BY ONLY <4>1, <4>2, SMTT(30)
            <4>4. ins'[t] <= MaxIns =>
                      incs[t] <= tcb[t].counter /\ tcb[t].counter <= incs[t] + ins[t]
                BY <4>3, ZenonT(30) DEF CountsOK, Between
            <4>5. tcb[t].counter < MaxIncs + MaxIns => Plus1(tcb[t].counter) = tcb[t].counter + 1
                BY <4>1, NoWrapBelow, ZenonT(30)
            <4>6. ins'[t] <= MaxIns => /\ incs[t] <= Plus1(tcb[t].counter)
                                      /\ Plus1(tcb[t].counter) <= incs[t] + ins'[t]
                BY ONLY <4>1, <4>2, <4>4, <4>5, SMTT(30)
            <4>7. tcb'[t].counter = Plus1(tcb[t].counter)
                BY <2>6, <3>2, ZenonT(30)
            <4>8. Context(t).pc = "store" => incs[t] < MaxIncs
                BY ZenonT(30) DEF CountsOK
            <4>9. ins'[t] <= MaxIns /\ Context(t)'.pc = "store" =>
                      incs[t] <= Context(t)'.r1 /\ Context(t)'.r1 <= incs[t] + ins'[t]
                <5>1. Context(t).r1 \in Nat
                    BY <2>4, <2>10, <3>2, ZenonT(30) DEF Registers
                <5>2. ins'[t] <= MaxIns /\ Context(t)'.pc = "store" =>
                          incs[t] <= Context(t).r1 /\ Context(t).r1 <= incs[t] + ins[t]
                    BY <2>11, <4>3, ZenonT(30) DEF CountsOK, Between
                <5>3. PICK r \in Nat : r = Context(t).r1
                    BY <5>1, ZenonT(30)
                <5>4. incs[t] <= r /\ r <= incs[t] + ins[t] => (ins'[t] <= MaxIns => r <= incs[t] + ins'[t])
                    BY ONLY <4>1, <4>2, <5>3, SMTT(30)
                <5> QED BY <2>11, <5>2, <5>3, <5>4, ZenonT(30)
            <4> QED BY <2>11, <3>0, <4>1, <4>6, <4>7, <4>8, <4>9, ZenonT(30) DEF Between
        <3> QED BY <3>1, <3>2, ZenonT(30)
    <2> QED BY <2>13, <2>14, <2>15, <2>16, <2>17, <2>18, ZenonT(30)
<1> QED BY <1>1, <1>2, ZenonT(30)

(* Every step of the threads and of the handlers keeps the invariant. *)
LEMMA MultitaskInvStep == MultitaskInv /\ [MultitaskNext]_multitaskVars => MultitaskInv'
<1> SUFFICES ASSUME MultitaskInv, [MultitaskNext]_multitaskVars PROVE MultitaskInv'
    BY ZenonT(30)
<1>1. CASE MultitaskNext /\ ~FaultHang
    BY <1>1, ReplWorkKeeps, SpawnKeeps, SpawnFrameKeeps, SpawnTcbKeeps, SpawnDoneKeeps, BodyLoadKeeps, ZenonT(30),
       BodyStoreKeeps, TimerTickKeeps, SwitchKeeps DEF MultitaskNext
<1>2. CASE UNCHANGED multitaskVars
    <2>1. MultitaskTypeOK' /\ SpawnOK' /\ StatesOK' /\ TimerOK'
        BY <1>2, ZenonT(30) DEF multitaskVars, MultitaskInv, MultitaskTypeOK, SpawnOK, StatesOK, TimerOK, Started
    <2>2. ContextOK' /\ CountsOK'
        BY <1>2, ZenonT(30) DEF multitaskVars, MultitaskInv, ContextOK, CountsOK, Context, Between, Started
    <2> QED BY <2>1, <2>2, ZenonT(30) DEF MultitaskInv
<1> QED BY <1>1, <1>2, ZenonT(30) DEF FaultHang

-----------------------------------------------------------------------------
(* PendSV loses no task, and never finds none to switch to. *)
THEOREM NoTaskLost == MultitaskSpec => []TasksNeverLost
<1>1. MultitaskInv => TasksNeverLost
    <2> SUFFICES ASSUME MultitaskInv PROVE TasksNeverLost
        BY ZenonT(30)
    <2> USE DEF MultitaskInv
    <2>1. \A t \in TaskSlots : Started(t) => tcb[t].state = IF t = current THEN "running" ELSE "ready"
        BY ZenonT(30) DEF StatesOK
    <2>2. ASSUME pendsv PROVE Candidates # {}
        <3>1. PICK w \in Spawnable : Started(w)
            BY <2>2, ZenonT(30) DEF TimerOK
        <3>2. CASE w # current
            BY <2>1, <3>1, <3>2, SlotsAreTasks, ZenonT(30) DEF Candidates
        <3>3. CASE w = current
            <4>1. current # 0 /\ Started(0)
                BY <3>3, SlotsAreTasks, ZenonT(30) DEF StatesOK
            <4> QED BY <2>1, <4>1, SlotsAreTasks, ZenonT(30) DEF Candidates
        <3> QED BY <3>2, <3>3, ZenonT(30)
    <2> QED BY <2>1, <2>2, ZenonT(30) DEF TasksNeverLost
<1> QED BY MultitaskInvInit, MultitaskInvStep, <1>1, PTL DEF MultitaskSpec

(* In a build that keeps the order of the stores of spawn_jit_task, the      *)
(* state is stored last, so PendSV never resumes a task that has no stack    *)
(* pointer or no frame.                                                      *)
THEOREM ReadyTasksComplete == MultitaskSpec => []ReadyIsComplete
<1>1. MultitaskInv => ReadyIsComplete
    <2> SUFFICES ASSUME MultitaskInv, build.sp_first, NEW t \in TaskSlots, tcb[t].state = "ready"
                 PROVE  tcb[t].sp /\ frame[t].pc # "none"
        BY ZenonT(30) DEF ReadyIsComplete
    <2> USE DEF MultitaskInv
    <2>1. tcb[t].sp /\ Started(t)
        BY ZenonT(30) DEF StatesOK, SpawnOK, Started
    <2>2. t # current
        BY <2>1, ZenonT(30) DEF StatesOK
    <2> QED BY <2>1, <2>2, ZenonT(30) DEF ContextOK, Context
<1> QED BY MultitaskInvInit, MultitaskInvStep, <1>1, PTL DEF MultitaskSpec

(* After any number of switches the shell is where it was, with r7-r11, the  *)
(* registers PendSV does not use, as it left them.                           *)
THEOREM HighRegistersSurvive == MultitaskSpec => []HighRegistersKept
<1>1. MultitaskInv => HighRegistersKept
    BY ZenonT(30) DEF MultitaskInv, HighRegistersKept, ContextOK, Context
<1> QED BY MultitaskInvInit, MultitaskInvStep, <1>1, PTL DEF MultitaskSpec

(* No increment of a task body is lost to the one that PendSV makes. *)
THEOREM BodyIncrementsCounted == MultitaskSpec => []CounterCountsBody
<1>1. MultitaskInv => CounterCountsBody
    BY ZenonT(30) DEF MultitaskInv, CounterCountsBody, CountsOK, Between
<1> QED BY MultitaskInvInit, MultitaskInvStep, <1>1, PTL DEF MultitaskSpec

-----------------------------------------------------------------------------
(* Tokens. *)

Uses == [pc : {"free"}] \cup [pc : {"count"}] \cup [pc : {"data"}]
          \cup [pc : {"dir"}, port : Ports, pin : Pins, seen : SUBSET Pins]

TokenTypeOK ==
    /\ claimed \subseteq Resources
    /\ live \subseteq Tasks \X Resources
    /\ using \in [Tasks -> Uses]
    /\ dir \in [Ports -> SUBSET Pins]
    /\ shell \subseteq Resources
    /\ stale \subseteq Resources
    /\ astray \subseteq Resources

(* Strengthening: a task in the middle of enabling a pin still holds the     *)
(* port, and what it has read is what the register holds, unless the port    *)
(* went astray.                                                              *)
SeenIsCurrent ==
    \A t \in Tasks : using[t].pc = "dir" =>
        /\ <<t, using[t].port>> \in live
        /\ using[t].port \notin astray => using[t].seen = dir[using[t].port]

TokenInv == TokenTypeOK /\ ClaimsExclusive /\ SeenIsCurrent

(* No token exists at the start: the bits that are set are stale. *)
LEMMA TokenInvInit == TokenInit => TokenInv
BY DEF TokenInit, TokenInv, TokenTypeOK, ClaimsExclusive, HeldOnce, Holders, SeenIsCurrent, Uses, Unleased, Resources

(* Who holds what is told from the bits, the stale ones, the tokens and what *)
(* the shell has: a step that changes none of them, and finds no port in     *)
(* order that was astray, keeps the claims exclusive.                        *)
LEMMA ClaimsAlone ==
    ASSUME ClaimsExclusive, UNCHANGED <<claimed, live, shell, stale>>, astray \subseteq astray'
    PROVE  ClaimsExclusive'
<1> SUFFICES ASSUME NEW r \in Resources \ astray' PROVE HeldOnce(r)'
    BY ZenonT(30) DEF ClaimsExclusive
<1>1. HeldOnce(r) /\ Holders(r)' = Holders(r)
    BY ZenonT(30) DEF ClaimsExclusive, Holders
<1> QED BY <1>1, ZenonT(30) DEF HeldOnce

(* Every step of the tasks and of the shell keeps the invariant. *)
LEMMA TokenInvStep == TokenInv /\ [TokenNext]_tokenVars => TokenInv'
<1> SUFFICES ASSUME TokenInv, [TokenNext]_tokenVars PROVE TokenInv'
    BY ZenonT(30)
<1> USE DEF TokenInv, Resources
<1>1. ASSUME NEW t \in Tasks, NEW r \in Resources, Claim(t, r) PROVE TokenInv'
    <2>1. TokenTypeOK'
        BY <1>1 DEF Claim, claim, TokenTypeOK
    <2>2. ClaimsExclusive'
        <3> SUFFICES ASSUME NEW q \in Resources, q \notin astray' PROVE HeldOnce(q)'
            BY ZenonT(30) DEF ClaimsExclusive
        <3>1. q \notin astray /\ HeldOnce(q)
            BY <1>1, ZenonT(30) DEF Claim, claim, ClaimsExclusive
        <3>2. CASE q # r
            <4>1. Holders(q)' = Holders(q)
                BY <1>1, <3>2, ZenonT(30) DEF Claim, claim, Holders
            <4> QED BY <1>1, <3>1, <3>2, <4>1, ZenonT(30) DEF Claim, claim, HeldOnce
        <3>3. CASE q = r
            <4>1. Holders(q)' = Holders(q) \cup {t}
                BY <1>1, <3>3, ZenonT(30) DEF Claim, claim, Holders
            <4>2. Holders(q) = {} /\ q \notin shell /\ q \notin stale
                BY <1>1, <3>1, <3>3, ZenonT(30) DEF Claim, claim, HeldOnce, Holders
            <4> QED BY <1>1, <3>1, <3>3, <4>1, <4>2, ZenonT(30) DEF Claim, claim, HeldOnce
        <3> QED BY <3>2, <3>3, ZenonT(30)
    <2>3. SeenIsCurrent'
        BY <1>1, ZenonT(30) DEF Claim, claim, SeenIsCurrent
    <2> QED BY <2>1, <2>2, <2>3, ZenonT(30)
<1>2. ASSUME NEW t \in Tasks, NEW r \in Resources, DropCap(t, r) PROVE TokenInv'
    <2>1. TokenTypeOK'
        BY <1>2, ZenonT(30) DEF DropCap, TokenTypeOK
    <2>2. ClaimsExclusive'
        <3> SUFFICES ASSUME NEW q \in Resources, q \notin astray' PROVE HeldOnce(q)'
            BY ZenonT(30) DEF ClaimsExclusive
        <3>1. q \notin astray /\ HeldOnce(q)
            BY <1>2, ZenonT(30) DEF DropCap, ClaimsExclusive
        <3>2. CASE q # r
            <4>1. Holders(q)' = Holders(q)
                BY <1>2, <3>2, ZenonT(30) DEF DropCap, Holders
            <4> QED BY <1>2, <3>1, <3>2, <4>1, ZenonT(30) DEF DropCap, HeldOnce
        <3>3. CASE q = r
            <4>1. Holders(q)' = Holders(q) \ {t}
                BY <1>2, <3>3, ZenonT(30) DEF DropCap, Holders
            <4>2. Holders(q) = {t} /\ q \notin shell /\ q \notin stale
                BY <1>2, <3>1, <3>3, ZenonT(30) DEF DropCap, HeldOnce, Holders
            <4> QED BY <1>2, <3>1, <3>3, <4>1, <4>2, ZenonT(30) DEF DropCap, HeldOnce
        <3> QED BY <3>2, <3>3, ZenonT(30)
    <2>3. SeenIsCurrent'
        BY <1>2 DEF DropCap, SeenIsCurrent, Unleased
    <2> QED BY <2>1, <2>2, <2>3, ZenonT(30)
<1>3. ASSUME NEW t \in Tasks, NEW r \in Resources, Steal(t, r) PROVE TokenInv'
    <2>1. TokenTypeOK'
        BY <1>3 DEF Steal, TokenTypeOK
    <2>2. ClaimsExclusive'
        <3> SUFFICES ASSUME NEW q \in Resources, q \notin astray' PROVE HeldOnce(q)'
            BY ZenonT(30) DEF ClaimsExclusive
        <3>1. q \notin astray /\ HeldOnce(q)
            BY <1>3, ZenonT(30) DEF Steal, ClaimsExclusive
        <3>2. CASE q # r
            <4>1. Holders(q)' = Holders(q)
                BY <1>3, <3>2, ZenonT(30) DEF Steal, Holders
            <4> QED BY <1>3, <3>1, <3>2, <4>1, ZenonT(30) DEF Steal, HeldOnce
        <3>3. CASE q = r
            <4>1. Holders(q)' = Holders(q) \cup {t}
                BY <1>3, <3>3, ZenonT(30) DEF Steal, Holders
            <4>2. Holders(q) = {} /\ q \notin shell
                BY <1>3, <3>1, <3>3, ZenonT(30) DEF Steal, HeldOnce, Holders
            <4> QED BY <1>3, <3>1, <3>3, <4>1, <4>2, ZenonT(30) DEF Steal, HeldOnce
        <3> QED BY <3>2, <3>3, ZenonT(30)
    <2>3. SeenIsCurrent'
        BY <1>3, ZenonT(30) DEF Steal, SeenIsCurrent
    <2> QED BY <2>1, <2>2, <2>3, ZenonT(30)
<1>4. ASSUME NEW t \in Tasks, GrantClaim(t) PROVE TokenInv'
    <2>1. TokenTypeOK'
        BY <1>4 DEF GrantClaim, claim, TokenTypeOK, Uses
    <2>2. ClaimsExclusive'
        <3> SUFFICES ASSUME NEW q \in Resources, q \notin astray' PROVE HeldOnce(q)'
            BY ZenonT(30) DEF ClaimsExclusive
        <3>1. q \notin astray /\ HeldOnce(q)
            BY <1>4, ZenonT(30) DEF GrantClaim, claim, ClaimsExclusive
        <3>2. CASE q # SuperUserCap
            <4>1. Holders(q)' = Holders(q)
                BY <1>4, <3>2, ZenonT(30) DEF GrantClaim, claim, Holders
            <4> QED BY <1>4, <3>1, <3>2, <4>1, ZenonT(30) DEF GrantClaim, claim, HeldOnce
        <3>3. CASE q = SuperUserCap
            <4>1. Holders(q)' = Holders(q) \cup {t}
                BY <1>4, <3>3, ZenonT(30) DEF GrantClaim, claim, Holders
            <4>2. Holders(q) = {} /\ q \notin shell /\ q \notin stale
                BY <1>4, <3>1, <3>3, ZenonT(30) DEF GrantClaim, claim, HeldOnce, Holders
            <4> QED BY <1>4, <3>1, <3>3, <4>1, <4>2, ZenonT(30) DEF GrantClaim, claim, HeldOnce
        <3> QED BY <3>2, <3>3, ZenonT(30)
    <2>3. SeenIsCurrent'
        BY <1>4, ZenonT(30) DEF GrantClaim, claim, SeenIsCurrent, TokenTypeOK
    <2> QED BY <2>1, <2>2, <2>3, ZenonT(30)
<1>5. ASSUME NEW t \in Tasks, GrantCount(t) PROVE TokenInv'
    <2>1. TokenTypeOK'
        BY <1>5, ZenonT(30) DEF GrantCount, TokenTypeOK, Uses, Unleased
    <2>2. ClaimsExclusive'
        BY <1>5, ClaimsAlone, ZenonT(30) DEF GrantCount
    <2>3. SeenIsCurrent'
        BY <1>5, ZenonT(30) DEF GrantCount, SeenIsCurrent, Unleased, TokenTypeOK
    <2> QED BY <2>1, <2>2, <2>3, ZenonT(30)
<1>6. ASSUME NEW t \in Tasks, EnableOutput(t) PROVE TokenInv'
    <2>1. TokenTypeOK'
        <3>1. using[t].seen \subseteq Pins /\ using[t].pin \in Pins
            <4>1. using[t] \in Uses /\ using[t].pc = "dir"
                BY <1>6, ZenonT(30) DEF EnableOutput, TokenTypeOK
            <4> QED BY ONLY <4>1, SMTT(30) DEF Uses
        <3>2. using[t].seen \cup {using[t].pin} \in SUBSET Pins
            BY <3>1, ZenonT(30)
        <3>3. [pc |-> "data"] \in Uses
            BY ZenonT(30) DEF Uses
        <3>4. dir' \in [Ports -> SUBSET Pins] /\ using' \in [Tasks -> Uses]
            BY <1>6, <3>2, <3>3, ZenonT(30) DEF EnableOutput, TokenTypeOK
        <3> QED BY <1>6, <3>4, ZenonT(30) DEF EnableOutput, TokenTypeOK
    <2>2. ClaimsExclusive'
        BY <1>6, ClaimsAlone, ZenonT(30) DEF EnableOutput
    <2>3. SeenIsCurrent'
        (* Nobody else is enabling a pin of this port: they would hold it. *)
        <3> SUFFICES ASSUME NEW u \in Tasks, using'[u].pc = "dir"
                     PROVE  /\ <<u, using'[u].port>> \in live'
                            /\ using'[u].port \notin astray' => using'[u].seen = dir'[using'[u].port]
            BY ZenonT(30) DEF SeenIsCurrent
        <3>1. u # t /\ using'[u] = using[u]
            BY <1>6, ZenonT(30) DEF EnableOutput, TokenTypeOK
        <3>2. <<u, using[u].port>> \in live /\ <<t, using[t].port>> \in live
            BY <1>6, <3>1, ZenonT(30) DEF EnableOutput, SeenIsCurrent
        <3>3. using[u].port \notin astray => using[u].port # using[t].port
            BY <3>1, <3>2, ZenonT(30) DEF ClaimsExclusive, HeldOnce, Holders, TokenTypeOK
        <3>4. using[u].port \in Ports /\ using[t].port \in Ports
            BY <1>6, <3>1, ZenonT(30) DEF EnableOutput, TokenTypeOK, Uses
        <3> QED BY <1>6, <3>1, <3>2, <3>3, <3>4, ZenonT(30) DEF EnableOutput, SeenIsCurrent, TokenTypeOK
    <2> QED BY <2>1, <2>2, <2>3, ZenonT(30)
<1>7. ASSUME NEW t \in Tasks, WriteData(t) PROVE TokenInv'
    <2>1. TokenTypeOK'
        BY <1>7, ZenonT(30) DEF WriteData, TokenTypeOK, Uses, Unleased
    <2>2. ClaimsExclusive'
        BY <1>7, ClaimsAlone, ZenonT(30) DEF WriteData
    <2>3. SeenIsCurrent'
        BY <1>7, ZenonT(30) DEF WriteData, SeenIsCurrent, Unleased, TokenTypeOK
    <2> QED BY <2>1, <2>2, <2>3, ZenonT(30)
<1>8. ASSUME NEW r \in Resources, ShellClaim(r) PROVE TokenInv'
    <2>1. TokenTypeOK'
        BY <1>8, ZenonT(30) DEF ShellClaim, TokenTypeOK
    <2>2. ClaimsExclusive'
        <3> SUFFICES ASSUME NEW q \in Resources, q \notin astray' PROVE HeldOnce(q)'
            BY ZenonT(30) DEF ClaimsExclusive
        <3>1. HeldOnce(q) /\ Holders(q)' = Holders(q)
            BY <1>8, ZenonT(30) DEF ShellClaim, ClaimsExclusive, Holders
        <3> QED BY <1>8, <3>1, ZenonT(30) DEF ShellClaim, HeldOnce
    <2>3. SeenIsCurrent'
        BY <1>8, ZenonT(30) DEF ShellClaim, SeenIsCurrent
    <2> QED BY <2>1, <2>2, <2>3, ZenonT(30)
<1>9. ASSUME NEW r \in Resources, ShellDrop(r) PROVE TokenInv'
    <2>1. TokenTypeOK'
        BY <1>9, ZenonT(30) DEF ShellDrop, TokenTypeOK
    <2>2. ClaimsExclusive'
        <3> SUFFICES ASSUME NEW q \in Resources, q \notin astray' PROVE HeldOnce(q)'
            BY ZenonT(30) DEF ClaimsExclusive
        <3>1. HeldOnce(q) /\ Holders(q)' = Holders(q) /\ (q = r => Holders(q) = {})
            BY <1>9, ZenonT(30) DEF ShellDrop, ClaimsExclusive, Holders
        <3> QED BY <1>9, <3>1, ZenonT(30) DEF ShellDrop, HeldOnce
    <2>3. SeenIsCurrent'
        BY <1>9, ZenonT(30) DEF ShellDrop, SeenIsCurrent
    <2> QED BY <2>1, <2>2, <2>3, ZenonT(30)
<1>10. ASSUME NEW p \in Ports, NEW mask \in SUBSET Pins, ShellPoke(p, mask) PROVE TokenInv'
    <2>1. TokenTypeOK'
        BY <1>10, ZenonT(30) DEF ShellPoke, TokenTypeOK
    <2>2. ClaimsExclusive'
        BY <1>10, ClaimsAlone, ZenonT(30) DEF ShellPoke
    <2>3. SeenIsCurrent'
        (* A port of the shell's is held by no task. *)
        <3> SUFFICES ASSUME NEW u \in Tasks, using[u].pc = "dir", using[u].port \notin astray'
                     PROVE  using[u].seen = dir'[using[u].port]
            BY <1>10, ZenonT(30) DEF ShellPoke, SeenIsCurrent
        <3>1. <<u, using[u].port>> \in live /\ using[u].seen = dir[using[u].port]
            BY <1>10, ZenonT(30) DEF ShellPoke, SeenIsCurrent
        <3>2. using[u].port \notin shell
            BY <1>10, <3>1, ZenonT(30) DEF ShellPoke, ClaimsExclusive, HeldOnce, Holders, TokenTypeOK
        <3>3. using[u].port # p
            BY <1>10, <3>2, ZenonT(30) DEF ShellPoke
        <3>4. using[u].port \in Ports
            <4>1. using[u] \in Uses /\ using[u].pc = "dir"
                BY ZenonT(30) DEF TokenTypeOK
            <4> QED BY ONLY <4>1, SMTT(30) DEF Uses
        <3>5. dir' = [dir EXCEPT ![p] = mask] /\ dir \in [Ports -> SUBSET Pins]
            BY <1>10, ZenonT(30) DEF ShellPoke, TokenTypeOK
        <3> QED BY <3>1, <3>3, <3>4, <3>5, ZenonT(30)
    <2> QED BY <2>1, <2>2, <2>3, ZenonT(30)
<1>11. ASSUME NEW t \in Tasks, NEW p \in Ports, NEW n \in Pins, SetLinear(t, p, n) PROVE TokenInv'
    <2>1. TokenTypeOK'
        BY <1>11, ZenonT(30) DEF SetLinear, TokenTypeOK, Uses
    <2>2. ClaimsExclusive'
        BY <1>11, ClaimsAlone, ZenonT(30) DEF SetLinear
    <2>3. SeenIsCurrent'
        BY <1>11, ZenonT(30) DEF SetLinear, SeenIsCurrent, TokenTypeOK
    <2> QED BY <2>1, <2>2, <2>3, ZenonT(30)
<1>12. CASE TokenReset
    <2>1. TokenTypeOK'
        BY <1>12, ZenonT(30) DEF TokenReset, TokenTypeOK, Uses, Unleased
    <2>2. ClaimsExclusive'
        <3> SUFFICES ASSUME NEW q \in Resources PROVE HeldOnce(q)'
            BY ZenonT(30) DEF ClaimsExclusive
        <3>1. Holders(q)' = {}
            BY <1>12, ZenonT(30) DEF TokenReset, Holders
        <3> QED BY <1>12, <3>1, ZenonT(30) DEF TokenReset, HeldOnce
    <2>3. SeenIsCurrent'
        BY <1>12, ZenonT(30) DEF TokenReset, SeenIsCurrent, Unleased
    <2> QED BY <2>1, <2>2, <2>3, ZenonT(30)
<1>13. CASE UNCHANGED tokenVars
    <2>1. TokenTypeOK'
        BY <1>13, ZenonT(30) DEF tokenVars, TokenTypeOK
    <2>2. ClaimsExclusive'
        BY <1>13 DEF tokenVars, ClaimsExclusive, HeldOnce, Holders
    <2>3. SeenIsCurrent'
        BY <1>13, ZenonT(30) DEF tokenVars, SeenIsCurrent
    <2> QED BY <2>1, <2>2, <2>3, ZenonT(30)
<1> QED BY <1>1, <1>2, <1>3, <1>4, <1>5, <1>6, <1>7, <1>8, <1>9, <1>10, <1>11, <1>12, <1>13, ZenonT(30)
        DEF TokenNext

(* claim, drop_cap, steal and the shell's commands keep a resource that is   *)
(* not astray with one holder at most, whatever bits start-up finds set and  *)
(* whenever the machine is reset.                                            *)
THEOREM TokensExclusive == TokenSpec => []ClaimsExclusive
<1>1. TokenInv => ClaimsExclusive
    BY ZenonT(30) DEF TokenInv
<1> QED BY TokenInvInit, TokenInvStep, <1>1, PTL DEF TokenSpec

(* reg_set_bit loses no pin that another task enabled. *)
THEOREM NoPinLost == TokenSpec => OutputsKept
<1> DEFINE Kept == \/ TokenReset
                   \/ \A p \in Ports : p \notin astray' \cup shell => dir[p] \subseteq dir'[p]
<1>1. TokenInv /\ [TokenNext]_tokenVars => [Kept]_tokenVars
    <2> SUFFICES ASSUME TokenInv, TokenNext, ~TokenReset, NEW p \in Ports, p \notin astray', p \notin shell
                 PROVE  dir[p] \subseteq dir'[p]
        BY ZenonT(30) DEF tokenVars
    <2> USE DEF TokenInv
    <2>1. ASSUME NEW t \in Tasks, EnableOutput(t) PROVE dir[p] \subseteq dir'[p]
        BY <2>1, ZenonT(30) DEF EnableOutput, SeenIsCurrent, TokenTypeOK
    <2>2. ASSUME NEW q \in Ports, NEW mask \in SUBSET Pins, ShellPoke(q, mask) PROVE dir[p] \subseteq dir'[p]
        BY <2>2, ZenonT(30) DEF ShellPoke, TokenTypeOK
    <2>3. CASE UNCHANGED dir
        BY <2>3, ZenonT(30)
    <2> QED BY <2>1, <2>2, <2>3, ZenonT(30) DEF TokenNext, Claim, DropCap, Steal, GrantClaim, GrantCount, WriteData,
                                    ShellClaim, ShellDrop, SetLinear
<1> QED BY TokenInvInit, TokenInvStep, <1>1, PTL DEF TokenSpec, OutputsKept

-----------------------------------------------------------------------------
(* The check of a run of blocks. *)

Checks == [pc : {"idle", "superuser", "vector", "scalar", "windows"}, by : {"registry", "hros-cap"},
           from : Nat, to : Nat, at : Nat]

RangeTypeOK ==
    /\ bits \subseteq BitmapBits
    /\ call \in Checks
    /\ verdict \in {"none", "ok", "err"}

(* What the history has seen while a check is under way. *)
HistoryOK == call.pc # "idle" => bits \subseteq wasSet /\ BitmapBits \ bits \subseteq wasClear

(* The blocks before the word that is compared next have been authorised. *)
Passed(k) == k \div WordBits < call.at
ProgressOK ==
    /\ call.pc # "idle" => /\ call.from <= call.to /\ verdict = "none"
                           /\ call.by = IF call.pc = "windows" THEN "hros-cap" ELSE "registry"
    /\ call.pc \in {"superuser", "vector", "scalar"} => call.from \in BitmapBits
    /\ call.pc = "superuser" => call.at = 0
    /\ call.pc = "vector" =>
           /\ call.to \in BitmapBits /\ call.at \in 0 .. WindowWords - 1
           /\ \A k \in Blocks : Passed(k) => k \in wasSet
    /\ call.pc = "scalar" => call.to \notin BitmapBits
    /\ call.pc = "windows" => \A k \in Blocks : Passed(k) => k \in wasSet \cup Behind

RangeInv == RangeTypeOK /\ HistoryOK /\ ProgressOK /\ OkBlocksWereSet /\ ErrBlockWasClear

-----------------------------------------------------------------------------
(* A block is bit k % WordBits of word k \div WordBits. *)
LEMMA WordAndBit ==
    ASSUME NEW D \in Nat \ {0}, NEW k \in Nat
    PROVE  /\ k \div D \in Nat /\ k % D \in 0 .. D - 1
           /\ k = D * (k \div D) + (k % D)
<1>1. k \div D \in Nat /\ k % D \in 0 .. D - 1
    OBVIOUS
<1>2. D \in Int /\ D > 0 /\ k \in Int
    OBVIOUS
<1>3. k = D * (k \div D) + (k % D)
    BY <1>2, Z3T(30), ZenonT(30)
<1> QED BY <1>1, <1>3, ZenonT(30)

(* Which word a block is in. *)
LEMMA WordOf ==
    ASSUME NEW D \in Nat \ {0}, NEW k \in Nat, NEW w \in Nat
    PROVE  k < D * w <=> k \div D < w
<1> DEFINE q == k \div D
           r == k % D
<1>1. q \in Nat /\ r \in 0 .. D - 1 /\ k = D * q + r
    BY WordAndBit, ZenonT(30)
<1> HIDE DEF q, r
<1>2. ASSUME q < w PROVE k < D * w
    <2>1. D * (q + 1) <= D * w
        BY <1>1, <1>2
    <2>2. D * (q + 1) = D * q + D
        BY <1>1
    <2> QED BY <1>1, <2>1, <2>2
<1>3. ASSUME w <= q PROVE D * w <= k
    <2>1. D * w <= D * q
        BY <1>1, <1>3
    <2> QED BY <1>1, <2>1
<1> QED BY <1>1, <1>2, <1>3 DEF q

(* A multiple of D divided by D. *)
LEMMA Multiple ==
    ASSUME NEW D \in Nat \ {0}, NEW q \in Int
    PROVE  (D * q) \div D = q
<1>1. D \in Int /\ D > 0 /\ 0 \in 0 .. D - 1
    OBVIOUS
<1> QED BY <1>1, Z3T(30), ZenonT(30)

(* The window consists of whole words. *)
LEMMA WindowWordsFit ==
    /\ Window \in Nat \ {0} /\ WordBits \in Nat \ {0} /\ WindowWords \in Nat \ {0}
    /\ Window = WordBits * WindowWords
BY WindowAssumption DEF Window

(* The larger and the smaller of two numbers. *)
LEMMA TwoNumbers ==
    ASSUME NEW a \in Int, NEW b \in Int
    PROVE  /\ Max({a, b}) = IF a >= b THEN a ELSE b
           /\ Min({a, b}) = IF a <= b THEN a ELSE b
<1>1. \E x \in {a, b} : \A y \in {a, b} : x >= y
    OBVIOUS
<1>2. \E x \in {a, b} : \A y \in {a, b} : x <= y
    OBVIOUS
<1>3. Max({a, b}) \in {a, b} /\ \A y \in {a, b} : Max({a, b}) >= y
    BY <1>1, ZenonT(30) DEF Max
<1>4. Min({a, b}) \in {a, b} /\ \A y \in {a, b} : Min({a, b}) <= y
    BY <1>2, ZenonT(30) DEF Min
<1> QED BY <1>3, <1>4

(* Comparing the mask of some blocks of word w with the word asks whether    *)
(* each of them reads as set.                                                *)
LEMMA ComparesBlocks ==
    ASSUME NEW w \in Nat, NEW S \in SUBSET Nat, \A k \in S : k \div WordBits = w
    PROVE  {k % WordBits : k \in S} \subseteq vcap(w) <=> S \subseteq bits \cup Behind
<1>1. ASSUME NEW k \in S PROVE k % WordBits \in 0 .. WordBits - 1 /\ w * WordBits + (k % WordBits) = k
    <2>1. k = WordBits * w + (k % WordBits) /\ k % WordBits \in 0 .. WordBits - 1
        BY WordAndBit, WindowWordsFit, ZenonT(30)
    <2>2. WordBits * w = w * WordBits /\ w * WordBits \in Nat
        BY WindowWordsFit
    <2> QED BY <2>1, <2>2, ZenonT(30)
<1>2. ASSUME {k % WordBits : k \in S} \subseteq vcap(w), NEW k \in S PROVE k \in bits \cup Behind
    <2>1. k % WordBits \in vcap(w)
        BY <1>2, ZenonT(30)
    <2> QED BY <1>1, <2>1, ZenonT(30) DEF vcap
<1>3. ASSUME S \subseteq bits \cup Behind, NEW k \in S PROVE k % WordBits \in vcap(w)
    BY <1>1, <1>3, ZenonT(30) DEF vcap
<1> QED BY <1>2, <1>3, ZenonT(30)

(* verify_vector: word w of the mask stands for the blocks of the run in it. *)
LEMMA VectorCompares ==
    ASSUME NEW w \in 0 .. WindowWords - 1, call \in Checks
    PROVE  word_ok(w) <=> \A k \in Blocks : k \div WordBits = w => k \in bits \cup Behind
<1> DEFINE S == {j \in call.from .. call.to : j \div WordBits = w}
<1>1. build_mask(call.from, call.to)[w] = {k % WordBits : k \in S}
    BY ZenonT(30) DEF build_mask
<1>2. w \in Nat /\ S \in SUBSET Nat
    BY WindowWordsFit DEF Checks
<1>3. word_ok(w) <=> S \subseteq bits \cup Behind
    BY <1>1, <1>2, ComparesBlocks, ZenonT(30) DEF word_ok
<1> QED BY <1>3, ZenonT(30) DEF Blocks

(* The window loop: the mask of a window, at one of its words, stands for    *)
(* the blocks of the run in that word; cutting the run at the window's ends  *)
(* leaves out none of them.                                                  *)
LEMMA WindowCompares ==
    ASSUME NEW w \in Nat, call \in Checks
    PROVE  build_mask_window(call.from, call.to, (w \div WindowWords) * Window)[w] \subseteq vcap(w)
             <=> \A k \in Blocks : k \div WordBits = w => k \in bits \cup Behind
<1> DEFINE q == w \div WindowWords
           base == q * Window
           S == {j \in call.from .. call.to : j \div WordBits = w}
           T == {j \in Max({call.from, base}) .. Min({call.to, base + Window - 1}) : j \div WordBits = w}
<1>1. /\ q \in Nat /\ w % WindowWords \in 0 .. WindowWords - 1
      /\ w = WindowWords * q + (w % WindowWords)
    BY WordAndBit, WindowWordsFit, ZenonT(30)
<1>2. call.from \in Nat /\ call.to \in Nat
    BY ZenonT(30) DEF Checks
<1> HIDE DEF q
<1>3. base \in Nat /\ base = WordBits * (WindowWords * q)
    BY <1>1, WindowWordsFit
<1>4. base \div WordBits = WindowWords * q
    <2>1. WindowWords * q \in Int /\ 0 \in 0 .. WordBits - 1
        BY <1>1, WindowWordsFit
    <2> QED BY <1>3, <2>1, WindowWordsFit, Multiple, ZenonT(30)
<1>5. w \in base \div WordBits .. base \div WordBits + WindowWords - 1
    BY <1>1, <1>4, WindowWordsFit
<1>6. ASSUME NEW j \in Nat, j \div WordBits = w PROVE base <= j /\ j <= base + Window - 1
    <2>1. ~(j < WordBits * w) /\ j < WordBits * (w + 1)
        BY <1>6, WordOf, WindowWordsFit
    <2>2. WordBits * (WindowWords * q) <= WordBits * w
        BY <1>1, WindowWordsFit
    <2>3. WordBits * (w + 1) <= WordBits * (WindowWords * q + WindowWords)
        BY <1>1, WindowWordsFit
    <2>4. WordBits * (WindowWords * q + WindowWords) = WordBits * (WindowWords * q) + Window
        BY <1>1, WindowWordsFit
    <2>5. WordBits * w \in Int /\ WordBits * (w + 1) \in Int /\ Window \in Int
        BY WindowWordsFit
    <2> HIDE DEF base
    <2> QED BY <1>3, <2>1, <2>2, <2>3, <2>4, <2>5
<1>7. /\ Max({call.from, base}) = IF call.from >= base THEN call.from ELSE base
      /\ Min({call.to, base + Window - 1}) = IF call.to <= base + Window - 1 THEN call.to ELSE base + Window - 1
    <2>1. base + Window - 1 \in Int /\ base \in Int /\ call.from \in Int /\ call.to \in Int
        BY <1>2, <1>3, WindowWordsFit
    <2> HIDE DEF base
    <2> QED BY <2>1, TwoNumbers, ZenonT(30)
<1> HIDE DEF base
<1>8. T = S
    BY <1>2, <1>3, <1>6, <1>7, WindowWordsFit
<1>9. build_mask_window(call.from, call.to, base)[w] = {k % WordBits : k \in T}
    BY <1>5, ZenonT(30) DEF build_mask_window
<1>10. S \in SUBSET Nat
    BY <1>2
<1> HIDE DEF S, T
<1>11. {k % WordBits : k \in S} \subseteq vcap(w) <=> S \subseteq bits \cup Behind
    BY <1>10, ComparesBlocks, ZenonT(30) DEF S
<1> QED BY <1>8, <1>9, <1>11, ZenonT(30) DEF S, Blocks, base, q

-----------------------------------------------------------------------------
(* No check is under way at first. *)
LEMMA RangeInvInit == RangeInit => RangeInv
<1> SUFFICES ASSUME RangeInit PROVE RangeInv
    BY ZenonT(30)
<1>1. call = NoCheck /\ call.pc = "idle" /\ verdict = "none" /\ bits = {}
    BY ZenonT(30) DEF RangeInit, NoCheck
<1>2. RangeTypeOK
    BY <1>1, ZenonT(30) DEF RangeTypeOK, Checks, NoCheck
<1> QED BY <1>1, <1>2, ZenonT(30) DEF RangeInv, HistoryOK, ProgressOK, OkBlocksWereSet, ErrBlockWasClear

(* A claim or a release only adds to the history. *)
LEMMA FlipKeeps ==
    ASSUME RangeInv, NEW id \in BitmapBits, Flip(id)
    PROVE  RangeInv'
<1> USE DEF RangeInv
<1>1. /\ bits' \subseteq BitmapBits /\ call' = call /\ verdict' = verdict
      /\ wasSet' = wasSet \cup bits' /\ wasClear' = wasClear \cup (BitmapBits \ bits')
    BY ZenonT(30) DEF Flip, RangeTypeOK
<1>2. RangeTypeOK' /\ HistoryOK'
    BY <1>1, ZenonT(30) DEF RangeTypeOK, HistoryOK
<1>3. ProgressOK'
    BY <1>1, ZenonT(30) DEF ProgressOK, Passed, Blocks
<1>4. OkBlocksWereSet' /\ ErrBlockWasClear'
    BY <1>1, ZenonT(30) DEF OkBlocksWereSet, ErrBlockWasClear, Blocks
<1> QED BY <1>2, <1>3, <1>4, ZenonT(30)

(* An empty run is authorised at once, any other is checked from its start.  *)
LEMMA StartKeeps ==
    ASSUME RangeInv, NEW first \in {"superuser", "windows"}, NEW by \in {"registry", "hros-cap"},
           NEW from \in Nat, NEW to \in Nat, NEW at \in Nat, Start(first, by, from, to, at),
           IF first = "superuser"
             THEN by = "registry" /\ from \in BitmapBits /\ at = 0
             ELSE by = "hros-cap" /\ \A k \in from .. to : at <= k \div WordBits
    PROVE  RangeInv'
<1> USE DEF RangeInv
<1>1. /\ bits' = bits /\ wasSet' = bits /\ wasClear' = BitmapBits \ bits
    BY ZenonT(30) DEF Start
<1>2. CASE to < from
    <2>1. verdict' = "ok" /\ call' = [pc |-> "idle", by |-> by, from |-> from, to |-> to, at |-> at]
        BY <1>2, ZenonT(30) DEF Start
    <2>2. from .. to = {}
        BY <1>2
    <2>3. RangeTypeOK'
        BY <1>1, <2>1, ZenonT(30) DEF RangeTypeOK, Checks
    <2>4. HistoryOK' /\ ProgressOK'
        BY <1>1, <2>1, ZenonT(30) DEF RangeTypeOK, HistoryOK, ProgressOK
    <2>5. OkBlocksWereSet' /\ ErrBlockWasClear'
        BY <1>1, <2>1, <2>2, ZenonT(30) DEF OkBlocksWereSet, ErrBlockWasClear, Blocks
    <2> QED BY <2>3, <2>4, <2>5, ZenonT(30)
<1>3. CASE ~(to < from)
    <2>1. verdict' = "none" /\ call' = [pc |-> first, by |-> by, from |-> from, to |-> to, at |-> at]
        BY <1>3, ZenonT(30) DEF Start
    <2>2. RangeTypeOK' /\ HistoryOK'
        BY <1>1, <2>1, ZenonT(30) DEF RangeTypeOK, Checks, HistoryOK
    <2>3. ProgressOK'
        <3>1. first = "windows" => \A k \in from .. to : ~(k \div WordBits < at)
            BY WindowWordsFit
        <3> QED BY <1>3, <2>1, <3>1 DEF ProgressOK, Passed, Blocks
    <2> QED BY <2>1, <2>2, <2>3, ZenonT(30) DEF OkBlocksWereSet, ErrBlockWasClear
<1> QED BY <1>2, <1>3, ZenonT(30)

(* The window loop starts at the window of the first block. *)
LEMMA BeginWindowsKeeps ==
    ASSUME RangeInv, NEW from \in 0 .. MaxBlock, NEW to \in 0 .. MaxBlock, BeginWindows(from, to)
    PROVE  RangeInv'
<1> DEFINE q == from \div Window
           at == q * WindowWords
<1>1. from \in Nat /\ to \in Nat /\ q \in Nat /\ Window * q <= from
    <2>1. from \in Nat /\ to \in Nat
        BY WindowAssumption
    <2>2. q \in Nat /\ from % Window \in 0 .. Window - 1 /\ from = Window * q + (from % Window)
        BY <2>1, WordAndBit, WindowWordsFit, ZenonT(30)
    <2> HIDE DEF q
    <2>3. Window * q \in Nat
        BY <2>2, WindowWordsFit
    <2> QED BY <2>1, <2>2, <2>3, WindowWordsFit
<1> HIDE DEF q
<1>2. at \in Nat /\ WordBits * at = Window * q
    BY <1>1, WindowWordsFit
<1> HIDE DEF at
<1>3. \A k \in from .. to : at <= k \div WordBits
    <2> SUFFICES ASSUME NEW k \in from .. to PROVE at <= k \div WordBits
        BY ZenonT(30)
    <2>1. k \in Nat /\ ~(k < WordBits * at)
        BY <1>1, <1>2, WindowWordsFit
    <2>2. k \div WordBits \in Nat
        BY <2>1, WordAndBit, WindowWordsFit, ZenonT(30)
    <2>3. k < WordBits * at <=> k \div WordBits < at
        BY <1>2, <2>1, WordOf, WindowWordsFit, ZenonT(30)
    <2> QED BY <1>2, <2>1, <2>2, <2>3
<1>4. Start("windows", "hros-cap", from, to, at)
    BY ZenonT(30) DEF BeginWindows, at, q
<1> QED BY <1>1, <1>2, <1>3, <1>4, StartKeeps, ZenonT(30)

(* The registry asks for the superuser first. *)
LEMMA CheckSuperUserKeeps ==
    ASSUME RangeInv, CheckSuperUser
    PROVE  RangeInv'
<1> USE DEF RangeInv
<1>1. /\ call.pc = "superuser" /\ call.by = "registry" /\ call.from <= call.to /\ verdict = "none"
      /\ call.from \in BitmapBits /\ call.at = 0 /\ bits \subseteq wasSet /\ BitmapBits \ bits \subseteq wasClear
      /\ call \in Checks /\ call.from \in Nat /\ call.to \in Nat
      /\ UNCHANGED <<bits, wasSet, wasClear>>
    BY ZenonT(30) DEF CheckSuperUser, HistoryOK, ProgressOK, RangeTypeOK, Checks
<1>2. CASE SuperUser \in bits
    <2>1. call' = [call EXCEPT !.pc = "idle"] /\ verdict' = "ok"
        BY <1>2, ZenonT(30) DEF CheckSuperUser, Finish
    <2> QED BY <1>1, <1>2, <2>1, ZenonT(30)
            DEF RangeTypeOK, Checks, HistoryOK, ProgressOK, OkBlocksWereSet, ErrBlockWasClear
<1>3. CASE SuperUser \notin bits /\ fits_window(call.from, call.to)
    <2>1. call' = [call EXCEPT !.pc = "vector"] /\ verdict' = verdict
        BY <1>3, ZenonT(30) DEF CheckSuperUser
    <2>2. call.to \in BitmapBits
        <3>1. call.from \div Window = 0
            BY <1>1, WindowWordsFit DEF BitmapBits
        <3> QED BY <1>1, <1>3, <3>1, WindowWordsFit DEF fits_window, BitmapBits
    <2>3. \A k \in call.from .. call.to : ~(k \div WordBits < 0)
        <3> SUFFICES ASSUME NEW k \in call.from .. call.to PROVE k \div WordBits \in Nat
            OBVIOUS
        <3>1. k \in Nat
            BY <1>1
        <3> QED BY <3>1, WordAndBit, WindowWordsFit, ZenonT(30)
    <2>4. ProgressOK'
        BY <1>1, <2>1, <2>2, <2>3, WindowWordsFit DEF Checks, ProgressOK, Passed, Blocks
    <2> QED BY <1>1, <2>1, <2>4, ZenonT(30) DEF RangeTypeOK, Checks, HistoryOK, OkBlocksWereSet, ErrBlockWasClear
<1>4. CASE SuperUser \notin bits /\ ~fits_window(call.from, call.to)
    <2>1. call' = [call EXCEPT !.pc = "scalar", !.at = call.from] /\ verdict' = verdict
        BY <1>4, ZenonT(30) DEF CheckSuperUser
    <2>2. call.to \notin BitmapBits
        <3>1. call.from \div Window = 0
            BY <1>1, WindowWordsFit DEF BitmapBits
        <3>2. (call.from \div Window) * Window + Window = Window
            BY <3>1, WindowWordsFit
        <3>3. ~(call.to < Window)
            BY <1>4, <3>2, ZenonT(30) DEF fits_window
        <3> QED BY <3>3, WindowWordsFit DEF BitmapBits
    <2> QED BY <1>1, <2>1, <2>2, ZenonT(30)
            DEF RangeTypeOK, Checks, HistoryOK, ProgressOK, OkBlocksWereSet, ErrBlockWasClear
<1> QED BY <1>2, <1>3, <1>4, ZenonT(30)

(* What is not behind the bitmap is in it. *)
LEMMA BehindIsPast == Behind \cap BitmapBits = {}
BY BehindAssumption, WindowWordsFit, WindowAssumption DEF BitmapBits

(* verify_vector: each word that passes authorises its blocks, and one that  *)
(* does not has a block that is clear.                                       *)
LEMMA VectorWordKeeps ==
    ASSUME RangeInv, VectorWord
    PROVE  RangeInv'
<1> USE DEF RangeInv
<1>1. /\ call.pc = "vector" /\ call.by = "registry" /\ call.from <= call.to /\ verdict = "none"
      /\ call.from \in BitmapBits /\ call.to \in BitmapBits /\ call.at \in 0 .. WindowWords - 1
      /\ \A k \in Blocks : Passed(k) => k \in wasSet
      /\ bits \subseteq wasSet /\ BitmapBits \ bits \subseteq wasClear /\ call \in Checks
      /\ UNCHANGED <<bits, wasSet, wasClear>>
    BY ZenonT(30) DEF VectorWord, HistoryOK, ProgressOK, RangeTypeOK
<1>2. Blocks \subseteq BitmapBits /\ Blocks \subseteq Nat
    BY <1>1, WindowWordsFit DEF Blocks, BitmapBits
<1>3. word_ok(call.at) <=> \A k \in Blocks : k \div WordBits = call.at => k \in bits \cup Behind
    BY <1>1, VectorCompares, ZenonT(30)
<1>4. CASE ~word_ok(call.at)
    <2>1. call' = [call EXCEPT !.pc = "idle"] /\ verdict' = "err"
        BY <1>4, ZenonT(30) DEF VectorWord, Finish
    <2>2. \E k \in Blocks : k \in wasClear
        BY <1>1, <1>2, <1>3, <1>4, ZenonT(30)
    <2> QED BY <1>1, <2>1, <2>2, ZenonT(30)
            DEF RangeTypeOK, Checks, HistoryOK, ProgressOK, OkBlocksWereSet, ErrBlockWasClear, Blocks
<1>5. CASE word_ok(call.at)
    <2>1. ASSUME NEW k \in Blocks, k \div WordBits <= call.at PROVE k \in wasSet
        <3>1. k \in BitmapBits /\ k \in Nat /\ k \div WordBits \in Nat
            BY <1>2, WordAndBit, WindowWordsFit, ZenonT(30)
        <3>2. CASE k \div WordBits = call.at
            BY <1>1, <1>3, <1>5, <3>1, <3>2, BehindIsPast, ZenonT(30)
        <3>3. CASE k \div WordBits < call.at
            BY <1>1, <3>3, ZenonT(30) DEF Passed
        <3> QED BY <1>1, <2>1, <3>1, <3>2, <3>3
    <2>2. CASE call.at = WindowWords - 1
        <3>1. call' = [call EXCEPT !.pc = "idle"] /\ verdict' = "ok"
            BY <1>5, <2>2, ZenonT(30) DEF VectorWord, Finish
        <3>2. Blocks \subseteq wasSet
            <4> SUFFICES ASSUME NEW k \in Blocks PROVE k \in wasSet
                BY ZenonT(30)
            <4>1. k \in Nat /\ k < WordBits * WindowWords
                BY <1>2, WindowWordsFit DEF BitmapBits
            <4>2. k \div WordBits < WindowWords /\ k \div WordBits \in Nat
                BY <4>1, WordOf, WordAndBit, WindowWordsFit, ZenonT(30)
            <4> QED BY <2>1, <2>2, <4>2, WindowWordsFit
        <3> QED BY <1>1, <3>1, <3>2, ZenonT(30)
                DEF RangeTypeOK, Checks, HistoryOK, ProgressOK, OkBlocksWereSet, ErrBlockWasClear, Blocks
    <2>3. CASE call.at # WindowWords - 1
        <3>1. call' = [call EXCEPT !.at = @ + 1] /\ verdict' = verdict
            BY <1>5, <2>3, ZenonT(30) DEF VectorWord
        <3>2. call.at + 1 \in 0 .. WindowWords - 1 /\ call.at + 1 \in Nat
            BY <1>1, <2>3, WindowWordsFit
        <3>3. \A k \in Blocks : k \div WordBits < call.at + 1 => k \in wasSet
            <4> SUFFICES ASSUME NEW k \in Blocks, k \div WordBits < call.at + 1 PROVE k \in wasSet
                BY ZenonT(30)
            <4>1. k \div WordBits \in Nat
                BY <1>2, WordAndBit, WindowWordsFit, ZenonT(30)
            <4> QED BY <1>1, <2>1, <4>1
        <3>4. RangeTypeOK' /\ HistoryOK'
            BY <1>1, <3>1, <3>2, ZenonT(30) DEF RangeTypeOK, Checks, HistoryOK
        <3>5. ProgressOK'
            BY <1>1, <3>1, <3>2, <3>3, ZenonT(30) DEF Checks, ProgressOK, Passed, Blocks
        <3> QED BY <1>1, <3>1, <3>4, <3>5, ZenonT(30) DEF OkBlocksWereSet, ErrBlockWasClear
    <2> QED BY <2>2, <2>3, ZenonT(30)
<1> QED BY <1>4, <1>5, ZenonT(30)

(* The fallback authorises a block only for the superuser, and a run that    *)
(* gets there leaves the bitmap.                                             *)
LEMMA ScalarBlockKeeps ==
    ASSUME RangeInv, ScalarBlock
    PROVE  RangeInv'
<1> USE DEF RangeInv
<1>1. /\ call.pc = "scalar" /\ call.by = "registry" /\ call.from <= call.to /\ verdict = "none"
      /\ call.from \in BitmapBits /\ call.to \notin BitmapBits /\ bits \subseteq wasSet
      /\ BitmapBits \ bits \subseteq wasClear /\ call \in Checks
      /\ UNCHANGED <<bits, wasSet, wasClear>>
    BY ZenonT(30) DEF ScalarBlock, HistoryOK, ProgressOK, RangeTypeOK
<1>2. CASE SuperUser \notin bits
    <2>1. call' = [call EXCEPT !.pc = "idle"] /\ verdict' = "err"
        BY <1>2, ZenonT(30) DEF ScalarBlock, Finish
    <2>2. call.to \in Blocks
        BY <1>1 DEF Blocks, Checks
    <2> QED BY <1>1, <2>1, <2>2, ZenonT(30)
            DEF RangeTypeOK, Checks, HistoryOK, ProgressOK, OkBlocksWereSet, ErrBlockWasClear, Blocks
<1>3. CASE SuperUser \in bits /\ call.at = call.to
    <2>1. call' = [call EXCEPT !.pc = "idle"] /\ verdict' = "ok"
        BY <1>3, ZenonT(30) DEF ScalarBlock, Finish
    <2> QED BY <1>1, <1>3, <2>1, ZenonT(30)
            DEF RangeTypeOK, Checks, HistoryOK, ProgressOK, OkBlocksWereSet, ErrBlockWasClear
<1>4. CASE SuperUser \in bits /\ call.at # call.to
    <2>1. call' = [call EXCEPT !.at = @ + 1] /\ verdict' = verdict
        BY <1>4, ZenonT(30) DEF ScalarBlock
    <2> QED BY <1>1, <2>1
            DEF RangeTypeOK, Checks, HistoryOK, ProgressOK, OkBlocksWereSet, ErrBlockWasClear
<1> QED BY <1>2, <1>3, <1>4, ZenonT(30)

(* The window loop: the same, over all windows of the run and with whatever  *)
(* lies behind the bitmap.                                                   *)
LEMMA WindowWordKeeps ==
    ASSUME RangeInv, WindowWord
    PROVE  RangeInv'
<1> USE DEF RangeInv
<1> DEFINE authorised == build_mask_window(call.from, call.to, (call.at \div WindowWords) * Window)[call.at]
                           \subseteq vcap(call.at)
           last == (call.to \div Window + 1) * WindowWords - 1
<1>1. /\ call.pc = "windows" /\ call.by = "hros-cap" /\ call.from <= call.to /\ verdict = "none"
      /\ \A k \in Blocks : Passed(k) => k \in wasSet \cup Behind
      /\ bits \subseteq wasSet /\ BitmapBits \ bits \subseteq wasClear
      /\ call \in Checks /\ call.at \in Nat /\ call.from \in Nat /\ call.to \in Nat
      /\ UNCHANGED <<bits, wasSet, wasClear>>
    BY ZenonT(30) DEF WindowWord, HistoryOK, ProgressOK, RangeTypeOK, Checks
<1>2. Blocks \subseteq Nat
    BY <1>1 DEF Blocks
<1>3. authorised <=> \A k \in Blocks : k \div WordBits = call.at => k \in bits \cup Behind
    BY <1>1, WindowCompares, ZenonT(30)
<1>4. \/ ~authorised /\ Finish("err")
      \/ authorised /\ call.at = last /\ Finish("ok")
      \/ authorised /\ call.at # last /\ call' = [call EXCEPT !.at = @ + 1] /\ UNCHANGED verdict
    BY ZenonT(30) DEF WindowWord
<1>5. call.at = last => \A k \in Blocks : k \div WordBits <= call.at
    <2> SUFFICES ASSUME call.at = last, NEW k \in Blocks PROVE k \div WordBits <= last
        BY ZenonT(30)
    <2> DEFINE q == call.to \div Window
    <2>1. q \in Nat /\ call.to < Window * (q + 1)
        <3>1. call.to \in Nat /\ Window \in Nat \ {0}
            BY <1>1, WindowWordsFit, ZenonT(30)
        <3>2. q \in Nat
            BY ONLY <3>1, WordAndBit, SMTT(30)
        <3>3. q + 1 \in Nat /\ q < q + 1
            BY <3>2
        <3>4. call.to < Window * (q + 1) <=> call.to \div Window < q + 1
            BY ONLY <3>1, <3>3, WordOf, SMTT(30)
        <3> QED BY <3>2, <3>3, <3>4, ZenonT(30)
    <2> HIDE DEF q
    <2>2. Window * (q + 1) = WordBits * ((q + 1) * WindowWords) /\ (q + 1) * WindowWords \in Nat
        BY <2>1, WindowWordsFit
    <2>3. k \in Nat /\ k < WordBits * ((q + 1) * WindowWords)
        BY <1>1, <2>1, <2>2, WindowWordsFit DEF Blocks
    <2>4. k \div WordBits < (q + 1) * WindowWords /\ k \div WordBits \in Nat
        BY <2>2, <2>3, WordOf, WordAndBit, WindowWordsFit, ZenonT(30)
    <2> QED BY <2>2, <2>4 DEF q
<1> HIDE DEF authorised, last
<1>6. CASE ~authorised /\ Finish("err")
    <2>1. call' = [call EXCEPT !.pc = "idle"] /\ verdict' = "err"
        BY <1>6, ZenonT(30) DEF Finish
    <2>2. \E k \in Blocks : k \in wasClear \/ k \notin BitmapBits \cup Behind
        BY <1>1, <1>3, <1>6, ZenonT(30)
    <2> QED BY <1>1, <2>1, <2>2, ZenonT(30)
            DEF RangeTypeOK, Checks, HistoryOK, ProgressOK, OkBlocksWereSet, ErrBlockWasClear, Blocks
<1>7. ASSUME authorised, NEW k \in Blocks, k \div WordBits <= call.at PROVE k \in wasSet \cup Behind
    <2>1. k \in Nat /\ k \div WordBits \in Nat
        BY <1>2, WordAndBit, WindowWordsFit, ZenonT(30)
    <2>2. CASE k \div WordBits = call.at
        BY <1>1, <1>3, <1>7, <2>2, ZenonT(30)
    <2>3. CASE k \div WordBits < call.at
        BY <1>1, <2>3, ZenonT(30) DEF Passed
    <2> QED BY <1>1, <1>7, <2>1, <2>2, <2>3
<1>8. CASE authorised /\ call.at = last /\ Finish("ok")
    <2>1. call' = [call EXCEPT !.pc = "idle"] /\ verdict' = "ok"
        BY <1>8, ZenonT(30) DEF Finish
    <2>2. Blocks \subseteq wasSet \cup Behind
        BY <1>5, <1>7, <1>8, ZenonT(30)
    <2> QED BY <1>1, <2>1, <2>2, ZenonT(30)
            DEF RangeTypeOK, Checks, HistoryOK, ProgressOK, OkBlocksWereSet, ErrBlockWasClear, Blocks
<1>9. CASE authorised /\ call.at # last /\ call' = [call EXCEPT !.at = @ + 1] /\ UNCHANGED verdict
    <2>1. \A k \in Blocks : k \div WordBits < call.at + 1 => k \in wasSet \cup Behind
        <3> SUFFICES ASSUME NEW k \in Blocks, k \div WordBits < call.at + 1 PROVE k \in wasSet \cup Behind
            BY ZenonT(30)
        <3>1. k \div WordBits \in Nat
            BY <1>2, WordAndBit, WindowWordsFit, ZenonT(30)
        <3>2. k \div WordBits <= call.at
            BY <1>1, <3>1
        <3> QED BY <1>7, <1>9, <3>2, ZenonT(30)
    <2>2. RangeTypeOK' /\ HistoryOK'
        BY <1>1, <1>9 DEF RangeTypeOK, Checks, HistoryOK
    <2>3. ProgressOK'
        BY <1>1, <1>9, <2>1, ZenonT(30) DEF Checks, ProgressOK, Passed, Blocks
    <2> QED BY <1>1, <1>9, <2>2, <2>3, ZenonT(30) DEF OkBlocksWereSet, ErrBlockWasClear
<1> QED BY <1>4, <1>6, <1>8, <1>9, ZenonT(30)

(* Every step of a check, and of those who claim and release meanwhile. *)
LEMMA RangeInvStep == RangeInv /\ [RangeNext]_rangeVars => RangeInv'
<1> SUFFICES ASSUME RangeInv, [RangeNext]_rangeVars PROVE RangeInv'
    BY ZenonT(30)
<1>1. ASSUME NEW from \in BitmapBits, NEW to \in 0 .. MaxBlock, Begin(from, to) PROVE RangeInv'
    <2>1. from \in Nat /\ to \in Nat
        BY WindowAssumption, WindowWordsFit DEF BitmapBits
    <2> QED BY <1>1, <2>1, StartKeeps, ZenonT(30) DEF Begin
<1>2. CASE UNCHANGED rangeVars
    BY <1>2, ZenonT(30) DEF rangeVars, RangeInv, RangeTypeOK, HistoryOK, ProgressOK, Passed, OkBlocksWereSet,
                ErrBlockWasClear, Blocks
<1> QED BY <1>1, <1>2, FlipKeeps, CheckSuperUserKeeps, VectorWordKeeps, ScalarBlockKeeps, ZenonT(30),
           BeginWindowsKeeps, WindowWordKeeps DEF RangeNext

(* verify_range_contiguous, and the window loop of hros-cap, authorise no    *)
(* block that was unclaimed throughout the check.                            *)
THEOREM RangeOkJustified == RangeSpec => []OkBlocksWereSet
<1>1. RangeInv => OkBlocksWereSet
    BY ZenonT(30) DEF RangeInv
<1> QED BY RangeInvInit, RangeInvStep, <1>1, PTL DEF RangeSpec

(* They refuse no run all of whose blocks were claimed throughout. *)
THEOREM RangeErrJustified == RangeSpec => []ErrBlockWasClear
<1>1. RangeInv => ErrBlockWasClear
    BY ZenonT(30) DEF RangeInv
<1> QED BY RangeInvInit, RangeInvStep, <1>1, PTL DEF RangeSpec

-----------------------------------------------------------------------------
(* The vector table. *)

VectorTypeOK ==
    /\ DOMAIN ram = VectorSlots
    /\ DOMAIN latest = VectorSlots
    /\ boot \in 0 .. CoreWords + 1
    /\ vtor \in {"flash", "ram"}

(* Strengthening: what was put into a slot since the reset is there; the     *)
(* words copied so far are put; and VTOR is set only after all of them.      *)
PutIsThere == \A s \in VectorSlots : latest[s] # None => ram[s] = latest[s]
CopiedSoFar == \A s \in 0 .. CoreWords - 1 : s < boot => latest[s] # None
VtorAfterCopy == vtor = "ram" <=> Booted

VectorInv == VectorTypeOK /\ PutIsThere /\ CopiedSoFar /\ VtorAfterCopy /\ DispatchIsLatest

(* The processor starts in the flash table, whose slots hang. *)
LEMMA VectorInvInit == VectorInit => VectorInv
BY TableAssumption
   DEF VectorInit, VectorInv, VectorTypeOK, PutIsThere, CopiedSoFar, VtorAfterCopy, Booted, DispatchIsLatest,
       Nothing, VectorSlots

(* Putting a handler into a slot keeps everything but the slot. *)
LEMMA PutKeeps ==
    ASSUME VectorInv, NEW s \in VectorSlots, NEW word, word # None, Put(s, word), UNCHANGED <<vtor, boot, taken>>
    PROVE  VectorInv'
<1>1. VectorTypeOK'
    BY ZenonT(30) DEF VectorInv, VectorTypeOK, Put
<1>2. PutIsThere' /\ CopiedSoFar'
    BY TableAssumption DEF VectorInv, VectorTypeOK, PutIsThere, CopiedSoFar, Put, VectorSlots
<1>3. VtorAfterCopy' /\ DispatchIsLatest'
    BY ZenonT(30) DEF VectorInv, VtorAfterCopy, Booted, DispatchIsLatest
<1> QED BY <1>1, <1>2, <1>3, ZenonT(30) DEF VectorInv

(* The processor dispatches to what is due. *)
LEMMA DispatchKeeps ==
    ASSUME VectorInv, NEW s \in VectorSlots, Dispatch(s)
    PROVE  VectorInv'
<1>1. (VectorTypeOK /\ PutIsThere /\ CopiedSoFar /\ VtorAfterCopy)'
    BY ZenonT(30) DEF VectorInv, Dispatch, VectorTypeOK, PutIsThere, CopiedSoFar, VtorAfterCopy, Booted
<1>2. s < CoreWords /\ vtor = "ram" => latest[s] # None
    BY TableAssumption DEF VectorInv, VtorAfterCopy, Booted, CopiedSoFar, VectorSlots
<1>3. s < CoreWords \/ Due(s) # None => Fetched(s) = Due(s)
    BY <1>2, ZenonT(30) DEF VectorInv, PutIsThere, Fetched, Due
<1>4. DispatchIsLatest'
    BY <1>3, ZenonT(30) DEF Dispatch, DispatchIsLatest
<1> QED BY <1>1, <1>4, ZenonT(30) DEF VectorInv

(* Boot, installation, dispatch and reset keep the invariant. *)
LEMMA VectorInvStep == VectorInv /\ [VectorNext]_vectorVars => VectorInv'
<1> SUFFICES ASSUME VectorInv, [VectorNext]_vectorVars PROVE VectorInv'
    BY ZenonT(30)
<1> USE TableAssumption
<1>1. CASE CopyWord
    <2>1. VectorTypeOK'
        BY <1>1 DEF CopyWord, VectorInv, VectorTypeOK
    <2>2. PutIsThere'
        BY <1>1, ZenonT(30) DEF CopyWord, VectorInv, VectorTypeOK, PutIsThere
    <2>3. CopiedSoFar'
        BY <1>1 DEF CopyWord, VectorInv, VectorTypeOK, CopiedSoFar, VectorSlots, Hang, None
    <2>4. VtorAfterCopy'
        BY <1>1 DEF CopyWord, VectorInv, VectorTypeOK, VtorAfterCopy, Booted
    <2>5. DispatchIsLatest'
        BY <1>1, ZenonT(30) DEF CopyWord, VectorInv, DispatchIsLatest
    <2> QED BY <2>1, <2>2, <2>3, <2>4, <2>5, ZenonT(30) DEF VectorInv
<1>2. CASE SetVtor
    <2>1. VectorTypeOK'
        BY <1>2 DEF SetVtor, VectorInv, VectorTypeOK
    <2>2. PutIsThere' /\ CopiedSoFar' /\ DispatchIsLatest'
        BY <1>2 DEF SetVtor, VectorInv, VectorTypeOK, PutIsThere, CopiedSoFar, DispatchIsLatest
    <2>3. VtorAfterCopy'
        BY <1>2, ZenonT(30) DEF SetVtor, VectorInv, VtorAfterCopy, Booted
    <2> QED BY <2>1, <2>2, <2>3, ZenonT(30) DEF VectorInv
<1>3. CASE InstallPendSV
    BY <1>3, PutKeeps DEF InstallPendSV, VectorSlots, None
<1>4. CASE InstallSysTick
    BY <1>4, PutKeeps DEF InstallSysTick, VectorSlots, None
<1>5. ASSUME NEW i \in 0 .. NumIrqs, NEW f \in Jit \cup {Trampoline}, attach_jit_irq(i, f) PROVE VectorInv'
    <2>1. f # None
        BY JitAssumption, ZenonT(30) DEF None, Trampoline
    <2> QED BY <1>5, <2>1, PutKeeps DEF attach_jit_irq, IrqSlot, VectorSlots
<1>6. ASSUME NEW s \in FaultSlots, Fault(s) PROVE VectorInv'
    BY <1>6, DispatchKeeps DEF Fault, VectorSlots
<1>7. ASSUME NEW s \in {PendSV, SysTick}, Tick(s) PROVE VectorInv'
    BY <1>7, DispatchKeeps DEF Tick, VectorSlots
<1>8. ASSUME NEW i \in 0 .. NumIrqs - 1, Irq(i) PROVE VectorInv'
    BY <1>8, DispatchKeeps DEF Irq, IrqSlot, VectorSlots
<1>9. ASSUME NEW i \in 0 .. NumIrqs - 1, Raise(i) PROVE VectorInv'
    <2>1. VectorTypeOK' /\ PutIsThere'
        BY <1>9, ZenonT(30) DEF Raise, VectorInv, VectorTypeOK, PutIsThere
    <2>2. CopiedSoFar' /\ VtorAfterCopy'
        BY <1>9, ZenonT(30) DEF Raise, VectorInv, VectorTypeOK, CopiedSoFar, VtorAfterCopy, Booted
    <2>3. DispatchIsLatest'
        BY <1>9, ZenonT(30) DEF Raise, VectorInv, DispatchIsLatest
    <2> QED BY <2>1, <2>2, <2>3, ZenonT(30) DEF VectorInv
<1>10. CASE AckRead \/ AckWrite
    <2>1. VectorTypeOK' /\ PutIsThere'
        BY <1>10, ZenonT(30) DEF AckRead, AckWrite, VectorInv, VectorTypeOK, PutIsThere
    <2>2. CopiedSoFar' /\ VtorAfterCopy'
        BY <1>10, ZenonT(30) DEF AckRead, AckWrite, VectorInv, VectorTypeOK, CopiedSoFar, VtorAfterCopy, Booted
    <2>3. DispatchIsLatest'
        BY <1>10, ZenonT(30) DEF AckRead, AckWrite, VectorInv, DispatchIsLatest
    <2> QED BY <2>1, <2>2, <2>3, ZenonT(30) DEF VectorInv
<1>11. CASE CallHandler
    <2>1. VectorTypeOK' /\ PutIsThere'
        BY <1>11, ZenonT(30) DEF CallHandler, VectorInv, VectorTypeOK, PutIsThere
    <2>2. CopiedSoFar' /\ VtorAfterCopy'
        BY <1>11, ZenonT(30) DEF CallHandler, VectorInv, VectorTypeOK, CopiedSoFar, VtorAfterCopy, Booted
    <2>3. DispatchIsLatest'
        BY <1>11 DEF CallHandler, VectorInv, PutIsThere, DispatchIsLatest, IrqSlot, VectorSlots
    <2> QED BY <2>1, <2>2, <2>3, ZenonT(30) DEF VectorInv
<1>12. CASE VectorReset
    <2>1. VectorTypeOK' /\ PutIsThere'
        BY <1>12 DEF VectorReset, VectorInv, VectorTypeOK, PutIsThere, Nothing
    <2>2. CopiedSoFar' /\ VtorAfterCopy'
        BY <1>12 DEF VectorReset, VectorInv, VectorTypeOK, CopiedSoFar, VtorAfterCopy, Booted, Nothing
    <2>3. DispatchIsLatest'
        BY <1>12, ZenonT(30) DEF VectorReset, VectorInv, DispatchIsLatest, Nothing
    <2> QED BY <2>1, <2>2, <2>3, ZenonT(30) DEF VectorInv
<1>13. CASE UNCHANGED vectorVars
    <2>1. VectorTypeOK' /\ PutIsThere'
        BY <1>13, ZenonT(30) DEF vectorVars, VectorInv, VectorTypeOK, PutIsThere
    <2>2. CopiedSoFar' /\ VtorAfterCopy'
        BY <1>13, ZenonT(30) DEF vectorVars, VectorInv, VectorTypeOK, CopiedSoFar, VtorAfterCopy, Booted
    <2>3. DispatchIsLatest'
        BY <1>13, ZenonT(30) DEF vectorVars, VectorInv, DispatchIsLatest
    <2> QED BY <2>1, <2>2, <2>3, ZenonT(30) DEF VectorInv
<1> QED BY <1>1, <1>2, <1>3, <1>4, <1>5, <1>6, <1>7, <1>8, <1>9, <1>10, <1>11, <1>12, <1>13, ZenonT(30) DEF VectorNext

(* boot_relocate_vectors, install_task_handlers and attach_jit_irq: no core  *)
(* exception and no attached interrupt meets a leftover of SRAM.             *)
THEOREM DispatchesLatest == VectorSpec => []DispatchIsLatest
<1>1. VectorInv => DispatchIsLatest
    BY ZenonT(30) DEF VectorInv
<1> QED BY VectorInvInit, VectorInvStep, <1>1, PTL DEF VectorSpec
=============================================================================
