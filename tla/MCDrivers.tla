----------------------------- MODULE MCDrivers -----------------------------
(***************************************************************************)
(* The task ring, the serial line editor, the receive ring, the DMA ring   *)
(* and the context switch for TLC.  They share no state, so what holds of  *)
(* one with the others at rest holds of it in every interleaving: a        *)
(* behaviour runs one of them.                                             *)
(***************************************************************************)
EXTENDS TaskQueue, Console, UartRing, DmaRing, Multitask

VARIABLE part        \* the one that runs

DriversInit ==
    /\ part \in {"queue", "console", "uart", "dma", "tasks"}
    /\ Init
    /\ ConsoleInit /\ (part # "console" => rx = "none")
    /\ UartInit
    /\ DmaInit
    /\ MultitaskInit /\ (part # "tasks" => build = [handlers |-> TRUE, on_psp |-> TRUE, sp_first |-> TRUE])

QueuePart(A) == part = "queue" /\ A /\ UNCHANGED <<part, consoleVars, uartVars, dmaVars, multitaskVars>>
ConsolePart(A) == part = "console" /\ A /\ UNCHANGED <<part, vars, uartVars, dmaVars, multitaskVars>>
UartPart == part = "uart" /\ UartNext /\ UNCHANGED <<part, vars, consoleVars, dmaVars, multitaskVars>>
DmaPart == part = "dma" /\ DmaNext /\ UNCHANGED <<part, vars, consoleVars, uartVars, multitaskVars>>
TasksPart(A) == part = "tasks" /\ A /\ UNCHANGED <<part, vars, consoleVars, uartVars, dmaVars>>

(* The fairness of TaskQueue, Console and MultitaskFairSpec, each for the    *)
(* behaviours in which its part runs.                                        *)
DriversFairSpec ==
    /\ DriversInit
    /\ [][\/ QueuePart(Next) \/ ConsolePart(ConsoleNext) \/ UartPart \/ DmaPart
          \/ TasksPart(MultitaskNext)]_<<part, vars, consoleVars, uartVars, dmaVars, multitaskVars>>
    /\ \A c \in Consumers : WF_vars(QueuePart(pop_task(c)))
    /\ WF_consoleVars(ConsolePart(run))
    /\ WF_multitaskVars(TasksPart(TimerTick)) /\ WF_multitaskVars(TasksPart(PendSVSwitch))
    /\ SF_multitaskVars(TasksPart(SpawnFrame \/ SpawnTcb \/ SpawnDone))
=============================================================================
