---------------------------- MODULE ExecCompare ----------------------------
(***************************************************************************)
(* Every function body the parser can emit, run both ways: StreamProgram   *)
(* runs it natively (compile_and_run) and falls back to the threaded       *)
(* interpreter only for streams the native compiler refuses.               *)
(***************************************************************************)
EXTENDS Exec

CONSTANT MaxWords            \* FN_BODY_WORDS: 32 in the code

(* A body of peeks alone, three words each, does not fill the stack. *)
ASSUME MaxWordsAssumption == MaxWords \in Nat /\ MaxWords < 3 * (VmStackSize + 1)

VARIABLES body, words

execVars == <<body, words>>

ExecInit == body = <<>> /\ words = 0

Append1(s) ==
    /\ words + StmtWords(s) <= MaxWords
    /\ body' = Append(body, s)
    /\ words' = words + StmtWords(s)

ExecNext == \E a, v \in Word : Append1(Poke(a, v)) \/ Append1(Peek(a))

ExecSpec == ExecInit /\ [][ExecNext]_execVars

-----------------------------------------------------------------------------
(* The two engines do the same: for every content of memory they make the    *)
(* same accesses in the same order and leave the same memory.  The native    *)
(* compiler says it refuses a stream "too complex for the two-register       *)
(* compiler"; a stream it does not refuse must behave as the interpreter's.  *)
NativeMatchesThreaded ==
    \A m \in [Word -> Word] :
        LET native == compile_and_run(Code(body), m)
            threaded == RunThreaded(Code(body), m)
        IN  native.mem = threaded.mem /\ native.bus = threaded.bus

(* The bodies for which the accumulator still holds the address of every     *)
(* poke: pokes come first, all to one address, and only peeks follow.        *)
OneTarget ==
    \A i, j \in DOMAIN body :
        /\ body[i].op = "poke" /\ j < i => body[j].op = "poke"
        /\ body[i].op = "poke" /\ body[j].op = "poke" => body[i].addr = body[j].addr

(* On those bodies the engines agree, and a peek that ends the body leaves   *)
(* the value it read as the result in both.                                  *)
NativeMatchesOnOneTarget ==
    body # <<>> /\ OneTarget =>
        /\ NativeMatchesThreaded
        /\ body[Len(body)].op = "peek" =>
             \A m \in [Word -> Word] :
                 compile_and_run(Code(body), m).value = RunThreaded(Code(body), m).value
=============================================================================
