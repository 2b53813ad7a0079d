------------------------------ MODULE Console ------------------------------
(***************************************************************************)
(* The shell's control loop and line editor (run, feed and take_line in    *)
(* drivers/repl.rs) over the polled receiver of the UART (poll_get_byte in *)
(* drivers/uart.rs).  The receiver holds one byte; bytes arrive whatever   *)
(* the shell is doing, and one that finds the receiver full is lost.       *)
(*                                                                         *)
(* Which line means what is left to the compiler's modules.  Here a line's *)
(* outcome ends, or waits for a device, or is a spawn, after which the     *)
(* program as it is built stops at the next tick of the timer.             *)
(***************************************************************************)
EXTENDS Integers, Sequences

CONSTANTS Chars,      \* printable bytes other than the space
          LineMax     \* LINE_MAX: 128 in the code

ASSUME LineMaxAssumption == LineMax \in Nat

VARIABLES rx,         \* the receiver: a byte, or "none"
          state,      \* State of run, "drain" before its loop, and "waiting" in
                      \* a driver's polling loop
          line_buf, line_len,
          pending,    \* the line that was compiled, until it is executed
          shown,      \* the input line as the terminal shows it
          ticking,    \* SysTick is enabled
          hung        \* the processor is in fault_hang

consoleVars == <<rx, state, line_buf, line_len, pending, shown, ticking, hung>>
timerVars == <<ticking, hung>>

Printable == Chars \cup {"space"}
Byte == Printable \cup {"tab", "newline", "backspace", "kill", "cancel", "other"}

Line == SubSeq(line_buf, 1, line_len)

ConsoleInit ==
    /\ rx \in Byte \cup {"none"}
    /\ state = "drain"
    /\ line_buf = [i \in 1 .. LineMax |-> "nul"] /\ line_len = 0
    /\ pending = <<>>
    /\ shown = <<>>
    /\ ticking = FALSE /\ hung = FALSE

(* The line: RXNE is set and stays set until the byte is read. *)
Arrive(byte) ==
    /\ rx' = IF rx = "none" THEN byte ELSE rx
    /\ UNCHANGED <<state, line_buf, line_len, pending, shown, timerVars>>

(* while poll_get_byte().is_some() {}, and the first prompt. *)
Drain ==
    /\ state = "drain"
    /\ rx' = "none"
    /\ state' = IF rx = "none" THEN "idle" ELSE "drain"
    /\ UNCHANGED <<line_buf, line_len, pending, shown, timerVars>>

-----------------------------------------------------------------------------
(* The Idle and Reading states: one byte, or none. *)

Poll(byte) ==
    /\ state \in {"idle", "reading"}
    /\ rx = byte
    /\ rx' = "none"

PollNone ==
    /\ Poll("none")
    /\ state' = "reading"
    /\ UNCHANGED <<line_buf, line_len, pending, shown, timerVars>>

FeedNewline ==
    /\ Poll("newline")
    /\ state' = "evaluating"
    /\ UNCHANGED <<line_buf, line_len, pending, shown, timerVars>>

(* Mutant: the length is not tested, and stays, but the echo is erased. *)
FeedBackspace_EchoOnly ==
    /\ Poll("backspace")
    /\ shown' = IF shown # <<>> THEN SubSeq(shown, 1, Len(shown) - 1) ELSE shown
    /\ state' = "reading"
    /\ UNCHANGED <<line_buf, line_len, pending, timerVars>>

FeedBackspace ==
    /\ Poll("backspace")
    /\ IF line_len > 0 THEN line_len' = line_len - 1 /\ shown' = SubSeq(shown, 1, Len(shown) - 1)
                       ELSE UNCHANGED <<line_len, shown>>
    /\ state' = "reading"
    /\ UNCHANGED <<line_buf, pending, timerVars>>

(* Ctrl-U erases what is shown and stays on the line, Ctrl-C begins another. *)
FeedKill ==
    /\ Poll("kill") \/ Poll("cancel")
    /\ line_len' = 0
    /\ shown' = <<>>
    /\ state' = IF rx = "kill" THEN "reading" ELSE "idle"
    /\ UNCHANGED <<line_buf, pending, timerVars>>

(* A printable byte is stored and echoed if there is room. *)
FeedPrintable(byte) ==
    /\ Poll(byte)
    /\ LET c == IF byte = "tab" THEN "space" ELSE byte
       IN  IF line_len < LineMax
             THEN /\ line_buf' = [line_buf EXCEPT ![line_len + 1] = c]
                  /\ line_len' = line_len + 1
                  /\ shown' = Append(shown, c)
             ELSE UNCHANGED <<line_buf, line_len, shown>>
    /\ state' = "reading"
    /\ UNCHANGED <<pending, timerVars>>

FeedOther ==
    /\ Poll("other")
    /\ state' = "reading"
    /\ UNCHANGED <<line_buf, line_len, pending, shown, timerVars>>

-----------------------------------------------------------------------------
(* The Evaluating state: take_line, then compile; an empty line has no       *)
(* outcome.                                                                  *)
Evaluate ==
    /\ state = "evaluating"
    /\ pending' = Line
    /\ line_len' = 0
    /\ state' = "printing"
    /\ UNCHANGED <<rx, line_buf, shown, timerVars>>

(* Mutant: without an outcome the loop does not go on. *)
PrintOutcome_NeedsOutcome ==
    /\ state = "printing"
    /\ IF pending = <<>> THEN UNCHANGED <<pending, shown, state>>
                         ELSE pending' = <<>> /\ shown' = <<>> /\ state' = "idle"
    /\ UNCHANGED <<rx, line_buf, line_len, timerVars>>

Prompt == pending' = <<>> /\ shown' = <<>> /\ state' = "idle"

(* The Printing state: execute the outcome or print the error, then prompt. *)
PrintOutcome ==
    /\ state = "printing"
    /\ Prompt
    /\ UNCHANGED <<rx, line_buf, line_len, timerVars>>

(* spi_tx and flash_test poll a flag of their device, with no bound; nothing *)
(* configures the SPI or enables its clock, so its flag may never come.      *)
WaitForDevice ==
    /\ state = "printing" /\ pending # <<>>
    /\ state' = "waiting"
    /\ UNCHANGED <<rx, line_buf, line_len, pending, shown, timerVars>>

DeviceReady ==
    /\ state = "waiting" /\ ~hung
    /\ Prompt
    /\ UNCHANGED <<rx, line_buf, line_len, timerVars>>

(* spawn NAME; with a slot free: the timer is started, and the vector of its *)
(* exception still is fault_hang.                                            *)
ExecSpawn ==
    /\ state = "printing" /\ pending # <<>>
    /\ ticking' = TRUE
    /\ Prompt
    /\ UNCHANGED <<rx, line_buf, line_len, hung>>

Tick ==
    /\ ticking
    /\ hung' = TRUE
    /\ UNCHANGED <<rx, state, line_buf, line_len, pending, shown, ticking>>

Step ==
    \/ Drain
    \/ PollNone
    \/ FeedNewline
    \/ FeedBackspace
    \/ FeedKill
    \/ \E byte \in Printable \cup {"tab"} : FeedPrintable(byte)
    \/ FeedOther
    \/ Evaluate
    \/ PrintOutcome
    \/ WaitForDevice
    \/ ExecSpawn

run == ~hung /\ Step

ConsoleNext == run \/ DeviceReady \/ Tick \/ \E byte \in Byte : Arrive(byte)

(* The loop goes on: put_byte ends because the transmitter, which init has   *)
(* enabled, drains, and a compiled program, which has no jumps, ends.        *)
(* Nothing is assumed of the devices that drivers wait for.                  *)
ConsoleFairSpec == ConsoleInit /\ [][ConsoleNext]_consoleVars /\ WF_consoleVars(run)

-----------------------------------------------------------------------------
(* What you see is what is compiled: after any sequence of typing, erasing,  *)
(* killing and cancelling, also past the end of the buffer, the terminal     *)
(* shows exactly the line that is, or has just been, handed to the compiler; *)
(* bytes left in the buffer by longer lines never come back.                 *)
EchoMatchesLine == shown = IF state \in {"printing", "waiting"} THEN pending ELSE Line

(* The shell keeps reading: a byte in the receiver is always taken, whatever *)
(* line came before it, and however fast bytes arrive while it executes,     *)
(* unless run is stuck for good in the polling loop of spi_tx or flash_test, *)
(* or a spawn has ended in fault_hang.  Nothing else stops it.               *)
InputEventuallyRead == []<>(rx = "none") \/ <>[](state = "waiting") \/ <>[](hung /\ ticking)
=============================================================================
