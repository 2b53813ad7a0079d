---------------------------- MODULE ShellProofs ----------------------------
(***************************************************************************)
(* Proofs about the shell, for any stream, body and table sizes, any       *)
(* address map and any words and names: compiled bodies name admitted      *)
(* addresses only, and the lengths that the compiler keeps are those of    *)
(* what it has compiled, however loops and calls are nested.               *)
(***************************************************************************)
EXTENDS Shell, StreamProofs

(* The steps that name no prover are for the SMT solver.                     *)
USE SMTT(30)

-----------------------------------------------------------------------------
(* The function table. *)

(* A nonempty set of slots has a first one.                                  *)
LEMMA FirstSlot ==
    ASSUME NEW T \in SUBSET FnSlots, T # {}
    PROVE  \E i \in T : \A j \in T : i <= j
<1>1. T \subseteq Nat
  BY MaxFnsAssumption DEF FnSlots
<1>2. PICK i \in T : \A j \in T : ~(<<j, i>> \in OpToRel(<, Nat))
  BY <1>1, NatLessThanWellFounded, WFMin, ZenonT(30)
<1>3. \A j \in T : ~(j < i)
  BY <1>1, <1>2, ZenonT(30) DEF OpToRel
<1> QED BY <1>1, <1>3

(* find_fn returns a slot of that name, the first one.                       *)
LEMMA FindFn ==
    ASSUME NEW name, defined(name)
    PROVE  find_fn(name) \in FnSlots /\ fns[find_fn(name)].name = name
<1> DEFINE T == {i \in FnSlots : fns[i].name = name}
<1>1. T \in SUBSET FnSlots /\ T # {}
  BY ZenonT(30) DEF defined
<1>2. PICK i \in T : \A j \in T : i <= j
  BY <1>1, FirstSlot, ZenonT(30)
<1>3. \E k \in FnSlots : /\ fns[k].name = name
                         /\ \A j \in FnSlots : fns[j].name = name => k <= j
  BY <1>2, ZenonT(30)
<1> QED BY <1>3, ZenonT(30) DEF find_fn

(* alloc_fn_slot returns a free slot.                                        *)
LEMMA AllocFnSlot ==
    ASSUME NEW name, can_alloc(name)
    PROVE  alloc_fn_slot \in FnSlots /\ ~fn_allocated(alloc_fn_slot)
<1> DEFINE T == {i \in FnSlots : ~fn_allocated(i)}
<1>1. T \in SUBSET FnSlots /\ T # {}
  BY ZenonT(30) DEF can_alloc
<1>2. PICK i \in T : \A j \in T : i <= j
  BY <1>1, FirstSlot, ZenonT(30)
<1>3. \E k \in FnSlots : /\ ~fn_allocated(k)
                         /\ \A j \in FnSlots : ~fn_allocated(j) => k <= j
  BY <1>2, ZenonT(30)
<1> QED BY <1>3, ZenonT(30) DEF alloc_fn_slot

-----------------------------------------------------------------------------
(* The inductive invariant of the compiler.  A loop that is open started     *)
(* inside the stream, so what unrolling copies was admitted; a slot that was *)
(* allocated holds a body that was.                                          *)

LoopsOK ==
    /\ parse.kind = "loop" => parse.loops # <<>>
    /\ \A i \in 1 .. Len(parse.loops) :
           /\ parse.loops[i].count >= 1
           /\ parse.loops[i].at <= Len(stream)
           /\ parse.loops[i].words <= stream_len

IInv == CompilerTypeOK /\ LoopsOK /\ BodiesAdmitted

(* At power-on every table and the stream are empty.                         *)
LEMMA InitIInv == Init => IInv
<1> SUFFICES ASSUME Init PROVE IInv
  BY ZenonT(30)
<1>1. NoFns \in [FnSlots -> [name : Names \cup {NoName}, len : 0 .. FnBodyWords, body : Seq(Stmt)]]
  BY FnBodyWordsAssumption, EmptyAddresses DEF NoFns, FreeSlot
<1>2. NoParse \in [kind : {"none", "fn", "loop"}, name : Names \cup {NoName}, loops : Seq(Loop)]
  BY DEF NoParse
<1>3. CompilerTypeOK
  BY <1>1, <1>2, EmptyAddresses, StreamAssumption, UsedCapsAssumption DEF Init, CompilerTypeOK
<1>4. LoopsOK
  BY DEF Init, LoopsOK, NoParse
<1>5. BodiesAdmitted
  BY EmptyAddresses, ZenonT(30) DEF Init, BodiesAdmitted, NoFns, FreeSlot, Nothing
<1> QED BY <1>3, <1>4, <1>5, ZenonT(30) DEF IInv

-----------------------------------------------------------------------------
Pending == {Nothing} \cup Access \cup Verb \cup Driver \cup Import \cup Program

(* A step that leaves the compiler's tables and scratch stream alone.        *)
LEMMA FrameStep ==
    ASSUME IInv, UNCHANGED <<fns, stream, stream_len, parse>>,
           claimed' \subseteq CapId,
           admitted \subseteq admitted', admitted' \subseteq Word,
           pending' \in Pending,
           pending'.cmd = "run" => Addresses(pending'.prog) \subseteq admitted'
    PROVE  IInv'
<1>1. CompilerTypeOK'
  BY ZenonT(30) DEF IInv, CompilerTypeOK, Pending
<1>2. LoopsOK'
  BY ZenonT(30) DEF IInv, LoopsOK
<1>3. BodiesAdmitted'
  <2>1. \A i \in FnSlots : Addresses(fns'[i].body) \subseteq admitted'
    BY ZenonT(30) DEF IInv, BodiesAdmitted
  <2>2. Addresses(stream') \subseteq admitted'
    BY ZenonT(30) DEF IInv, BodiesAdmitted
  <2> QED BY <2>1, <2>2, ZenonT(30) DEF BodiesAdmitted
<1> QED BY <1>1, <1>2, <1>3, ZenonT(30) DEF IInv

(* The end of a line, or a reset: the scratch stream is dead.                *)
LEMMA LineEnds ==
    ASSUME IInv, parse' = NoParse, stream' = <<>>, stream_len' = 0,
           claimed' = claimed, admitted' = admitted,
           fns' \in [FnSlots -> [name : Names \cup {NoName}, len : 0 .. FnBodyWords, body : Seq(Stmt)]],
           \A i \in FnSlots : Addresses(fns'[i].body) \subseteq admitted,
           pending' \in Pending,
           pending'.cmd = "run" => Addresses(pending'.prog) \subseteq admitted
    PROVE  IInv'
<1>1. NoParse \in [kind : {"none", "fn", "loop"}, name : Names \cup {NoName}, loops : Seq(Loop)]
  BY DEF NoParse
<1>2. CompilerTypeOK'
  BY <1>1, EmptyAddresses, StreamAssumption DEF IInv, CompilerTypeOK, Pending
<1>3. LoopsOK'
  BY DEF LoopsOK, NoParse
<1>4. BodiesAdmitted'
  <2>1. Addresses(stream') \subseteq admitted'
    BY EmptyAddresses, ZenonT(30)
  <2> QED BY <2>1, ZenonT(30) DEF BodiesAdmitted
<1> QED BY <1>2, <1>3, <1>4, ZenonT(30) DEF IInv

(* The steps that start, execute or refuse a line.                           *)
LEMMA LineSteps ==
    ASSUME IInv
    PROVE  /\ \A a, v \in Word, cmd \in {"poke", "reg_bit", "peek"} : ParseAccess(cmd, a, v) => IInv'
           /\ \A cap \in CapId, cmd \in {"cap_claim", "cap_drop", "flash_test"} : ParseVerb(cmd, cap) => IInv'
           /\ \A cmd \in {"pwm", "pwm_duty", "spi_tx"} : ParseDriver(cmd) => IInv'
           /\ \A name \in Names : ParseCall(name) => IInv'
           /\ ParseValue => IInv'
           /\ \A a \in Word : EvalPeek(a) => IInv'
           /\ RejectLine \/ Reset => IInv'
           /\ ExecPoke \/ ExecBit \/ ExecPeek \/ ExecClaim \/ ExecDrop \/ ExecRun \/ ExecDriver => IInv'
<1>0. /\ claimed \subseteq CapId /\ admitted \subseteq Word
      /\ pending \in Pending
      /\ fns \in [FnSlots -> [name : Names \cup {NoName}, len : 0 .. FnBodyWords, body : Seq(Stmt)]]
  BY ZenonT(30) DEF IInv, CompilerTypeOK, Pending
<1>1. ASSUME NEW a \in Word, NEW v \in Word, NEW cmd \in {"poke", "reg_bit", "peek"}, ParseAccess(cmd, a, v)
      PROVE  IInv'
  <2>1. pending' \in Access /\ pending'.cmd # "run"
    BY <1>1, ZenonT(30) DEF ParseAccess, Access
  <2>2. admitted' = admitted \cup {a}
    BY <1>1, ZenonT(30) DEF ParseAccess
  <2>3. UNCHANGED <<fns, stream, stream_len, parse, claimed>>
    BY <1>1, ZenonT(30) DEF ParseAccess, streamVars
  <2> QED BY <1>0, <2>1, <2>2, <2>3, FrameStep, ZenonT(30) DEF Pending
<1>2. ASSUME NEW cap \in CapId, NEW cmd \in {"cap_claim", "cap_drop", "flash_test"}, ParseVerb(cmd, cap)
      PROVE  IInv'
  <2>1. pending' \in Verb /\ pending'.cmd # "run"
    BY <1>2, ZenonT(30) DEF ParseVerb, Verb
  <2>2. UNCHANGED <<fns, stream, stream_len, parse, claimed, admitted>>
    BY <1>2, ZenonT(30) DEF ParseVerb, streamVars
  <2> QED BY <1>0, <2>1, <2>2, FrameStep, ZenonT(30) DEF Pending
<1>3. ASSUME NEW cmd \in {"pwm", "pwm_duty", "spi_tx"}, ParseDriver(cmd)
      PROVE  IInv'
  <2>1. pending' \in Driver /\ pending'.cmd # "run"
    BY <1>3, ZenonT(30) DEF ParseDriver, Driver
  <2>2. UNCHANGED <<fns, stream, stream_len, parse, claimed, admitted>>
    BY <1>3, ZenonT(30) DEF ParseDriver, streamVars
  <2> QED BY <1>0, <2>1, <2>2, FrameStep, ZenonT(30) DEF Pending
<1>4. ASSUME NEW name \in Names, ParseCall(name)
      PROVE  IInv'
  <2>1. find_fn(name) \in FnSlots
    BY <1>4, FindFn, ZenonT(30) DEF ParseCall
  <2>2. fns[find_fn(name)].body \in Seq(Stmt) /\ Addresses(fns[find_fn(name)].body) \subseteq admitted
    BY <1>0, <2>1, ZenonT(30) DEF IInv, BodiesAdmitted
  <2>3. pending' = [cmd |-> "run", prog |-> fns[find_fn(name)].body]
    BY <1>4, ZenonT(30) DEF ParseCall
  <2>4. pending' \in Program /\ Addresses(pending'.prog) \subseteq admitted
    BY <2>2, <2>3, ZenonT(30) DEF Program
  <2>5. UNCHANGED <<fns, stream, stream_len, parse, claimed, admitted>>
    BY <1>4, ZenonT(30) DEF ParseCall, streamVars
  <2> QED BY <1>0, <2>4, <2>5, FrameStep, ZenonT(30) DEF Pending
<1>5. ASSUME ParseValue PROVE IInv'
  <2>1. pending' = [cmd |-> "run", prog |-> <<>>]
    BY <1>5, ZenonT(30) DEF ParseValue
  <2>2. pending' \in Program /\ Addresses(pending'.prog) \subseteq admitted
    BY <2>1, EmptyAddresses, ZenonT(30) DEF Program
  <2>3. UNCHANGED <<fns, stream, stream_len, parse, claimed, admitted>>
    BY <1>5, ZenonT(30) DEF ParseValue, streamVars
  <2> QED BY <1>0, <2>2, <2>3, FrameStep, ZenonT(30) DEF Pending
<1>6. ASSUME NEW a \in Word, EvalPeek(a) PROVE IInv'
  <2>1. UNCHANGED <<fns, stream, stream_len, parse, claimed, admitted, pending>>
    BY <1>6, ZenonT(30) DEF EvalPeek, streamVars
  <2>2. pending.cmd = "run" => Addresses(pending.prog) \subseteq admitted
    BY ZenonT(30) DEF IInv, BodiesAdmitted
  <2> QED BY <1>0, <2>1, <2>2, FrameStep, ZenonT(30)
<1>7. ASSUME RejectLine \/ Reset PROVE IInv'
  <2>1. NoFns \in [FnSlots -> [name : Names \cup {NoName}, len : 0 .. FnBodyWords, body : Seq(Stmt)]]
    BY FnBodyWordsAssumption, EmptyAddresses DEF NoFns, FreeSlot
  <2>2. \A i \in FnSlots : Addresses(NoFns[i].body) \subseteq admitted
    BY EmptyAddresses, ZenonT(30) DEF NoFns, FreeSlot
  <2>3. \A i \in FnSlots : Addresses(fns[i].body) \subseteq admitted
    BY ZenonT(30) DEF IInv, BodiesAdmitted
  <2>4. pending.cmd = "run" => Addresses(pending.prog) \subseteq admitted
    BY ZenonT(30) DEF IInv, BodiesAdmitted
  <2>5. CASE RejectLine
    <3>1. /\ parse' = NoParse /\ stream' = <<>> /\ stream_len' = 0
          /\ UNCHANGED <<claimed, fns, pending, admitted>>
      BY <2>5, ZenonT(30) DEF RejectLine
    <3> QED BY <1>0, <2>3, <2>4, <3>1, LineEnds, ZenonT(30)
  <2>6. CASE Reset
    <3>1. /\ parse' = NoParse /\ stream' = <<>> /\ stream_len' = 0 /\ fns' = NoFns
          /\ pending' = Nothing
          /\ UNCHANGED <<claimed, admitted>>
      BY <2>6, ZenonT(30) DEF Reset
    <3>2. Nothing \in Pending /\ Nothing.cmd # "run"
      BY ZenonT(30) DEF Nothing, Pending
    <3> QED BY <2>1, <2>2, <3>1, <3>2, LineEnds, ZenonT(30)
  <2> QED BY <1>7, <2>5, <2>6, ZenonT(30)
<1>8. ASSUME ExecPoke \/ ExecBit \/ ExecPeek \/ ExecClaim \/ ExecDrop \/ ExecRun \/ ExecDriver PROVE IInv'
  <2>1. Nothing \in Pending /\ Nothing.cmd # "run"
    BY ZenonT(30) DEF Nothing, Pending
  <2>2. pending.cmd = "cap_claim" => pending.cap \in CapId
    BY <1>0 DEF Pending, Nothing, Access, Verb, Driver, Import, Program
  <2>3. /\ pending' = Nothing
        /\ UNCHANGED <<fns, stream, stream_len, parse, admitted>>
        /\ \/ claimed' = claimed
           \/ claimed' = claimed \ {pending.cap}
           \/ pending.cmd = "cap_claim" /\ claimed' = claimed \cup {pending.cap}
    <3>1. CASE ExecPoke
      BY <3>1, ZenonT(30) DEF ExecPoke, streamVars
    <3>2. CASE ExecBit
      BY <3>2, ZenonT(30) DEF ExecBit, streamVars
    <3>3. CASE ExecPeek
      BY <3>3, ZenonT(30) DEF ExecPeek, streamVars
    <3>4. CASE ExecClaim
      BY <3>4, ZenonT(30) DEF ExecClaim, acquire, streamVars
    <3>5. CASE ExecDrop
      BY <3>5, ZenonT(30) DEF ExecDrop, release, streamVars
    <3>6. CASE ExecRun
      BY <3>6, ZenonT(30) DEF ExecRun, streamVars
    <3>7. CASE ExecDriver
      BY <3>7, ZenonT(30) DEF ExecDriver, streamVars
    <3> QED BY <1>8, <3>1, <3>2, <3>3, <3>4, <3>5, <3>6, <3>7, ZenonT(30)
  <2>4. claimed' \subseteq CapId
    BY <1>0, <2>2, <2>3, ZenonT(30)
  <2> QED BY <1>0, <2>1, <2>3, <2>4, FrameStep, ZenonT(30)
<1> QED BY <1>1, <1>2, <1>3, <1>4, <1>5, <1>6, <1>7, <1>8, ZenonT(30)

(* The addresses of a body are words.                                        *)
LEMMA AddressesAreWords == \A body \in Seq(Stmt) : Addresses(body) \subseteq Word
<1> SUFFICES ASSUME NEW body \in Seq(Stmt) PROVE \A i \in DOMAIN body : body[i].addr \in Word
  BY ZenonT(30) DEF Addresses
<1>1. \A i \in DOMAIN body : body[i] \in Stmt
  OBVIOUS
<1> QED BY <1>1, ZenonT(30) DEF Stmt

(* What load does: nothing, or a body that fits goes into a free slot under  *)
(* a name that is not live.                                                  *)
LEMMA LoadEffect ==
    ASSUME IInv, ExecLoad
    PROVE  /\ pending.name \in Names /\ pending' = Nothing
           /\ UNCHANGED <<claimed, stream, stream_len, parse>>
           /\ \/ UNCHANGED <<fns, admitted>>
              \/ \E body \in Seq(Stmt) :
                    /\ can_alloc(pending.name) /\ WordCount(body) \in 0 .. FnBodyWords
                    /\ fns' = [fns EXCEPT ![alloc_fn_slot] =
                                  [name |-> pending.name, len |-> WordCount(body), body |-> body]]
                    /\ admitted' = admitted \cup Addresses(body)
<1>1. pending.name \in Names
  <2>1. pending \in Pending /\ pending.cmd = "load"
    BY ZenonT(30) DEF IInv, CompilerTypeOK, Pending, ExecLoad
  <2> QED BY <2>1 DEF Pending, Nothing, Access, Verb, Driver, Import, Program
<1>2. pending' = Nothing /\ UNCHANGED <<claimed, stream, stream_len, parse>>
  BY ZenonT(30) DEF ExecLoad, streamVars
<1>3. CASE UNCHANGED <<fns, admitted>>
  BY <1>1, <1>2, <1>3, ZenonT(30)
<1>4. ASSUME NEW body \in StoredBodies, WordCount(body) <= FnBodyWords, can_alloc(pending.name),
             install_fn(pending.name, WordCount(body), body), admitted' = admitted \cup Addresses(body)
      PROVE  \E b \in Seq(Stmt) :
                /\ can_alloc(pending.name) /\ WordCount(b) \in 0 .. FnBodyWords
                /\ fns' = [fns EXCEPT ![alloc_fn_slot] =
                              [name |-> pending.name, len |-> WordCount(b), body |-> b]]
                /\ admitted' = admitted \cup Addresses(b)
  <2>1. body \in Seq(Stmt)
    BY StoredBodiesAssumption, ZenonT(30)
  <2>2. WordCount(body) \in Nat
    BY <2>1, WordsType, ZenonT(30)
  <2>3. WordCount(body) \in 0 .. FnBodyWords
    BY ONLY <1>4, <2>2, FnBodyWordsAssumption, SMTT(30)
  <2> QED BY <1>4, <2>1, <2>3, ZenonT(30) DEF install_fn
<1> QED BY <1>1, <1>2, <1>3, <1>4, ZenonT(30) DEF ExecLoad

(* The steps that load a stored body.                                        *)
LEMMA LoadSteps ==
    ASSUME IInv
    PROVE  /\ \A name \in Names : ParseLoad(name) => IInv'
           /\ ExecLoad => IInv'
<1> DEFINE Fn == [name : Names \cup {NoName}, len : 0 .. FnBodyWords, body : Seq(Stmt)]
<1>0. /\ claimed \subseteq CapId /\ admitted \subseteq Word /\ fns \in [FnSlots -> Fn]
      /\ \A i \in FnSlots : Addresses(fns[i].body) \subseteq admitted
      /\ Addresses(stream) \subseteq admitted
  BY ZenonT(30) DEF IInv, CompilerTypeOK, BodiesAdmitted
<1>1. ASSUME NEW name \in Names, ParseLoad(name) PROVE IInv'
  <2>1. pending' \in Import /\ pending'.cmd # "run"
    BY <1>1, ZenonT(30) DEF ParseLoad, Import
  <2>2. UNCHANGED <<fns, stream, stream_len, parse, claimed, admitted>>
    BY <1>1, ZenonT(30) DEF ParseLoad, streamVars
  <2> QED BY <1>0, <2>1, <2>2, FrameStep, ZenonT(30) DEF Pending
<1>2. ASSUME ExecLoad PROVE IInv'
  <2>1. Nothing \in Pending /\ Nothing.cmd # "run"
    BY ZenonT(30) DEF Nothing, Pending
  <2>2. /\ pending.name \in Names /\ pending' = Nothing
        /\ UNCHANGED <<claimed, stream, stream_len, parse>>
    BY <1>2, LoadEffect, ZenonT(30)
  <2>3. CASE UNCHANGED <<fns, admitted>>
    BY <1>0, <2>1, <2>2, <2>3, FrameStep, ZenonT(30)
  <2>4. ASSUME NEW body \in Seq(Stmt), WordCount(body) \in 0 .. FnBodyWords,
               fns' = [fns EXCEPT ![alloc_fn_slot] =
                          [name |-> pending.name, len |-> WordCount(body), body |-> body]],
               admitted' = admitted \cup Addresses(body)
        PROVE  IInv'
    <3>1. [name |-> pending.name, len |-> WordCount(body), body |-> body] \in Fn
      BY <2>2, <2>4, ZenonT(30)
    <3>2. fns' \in [FnSlots -> Fn]
      BY <1>0, <2>4, <3>1, ZenonT(30)
    <3>3. \A i \in FnSlots : Addresses(fns'[i].body) \subseteq admitted'
      BY <1>0, <2>4, ZenonT(30)
    <3>4. admitted' \subseteq Word
      BY <1>0, <2>4, AddressesAreWords, ZenonT(30)
    <3>5. CompilerTypeOK'
      BY <2>1, <2>2, <3>2, <3>4, ZenonT(30) DEF IInv, CompilerTypeOK, Pending
    <3>6. LoopsOK'
      BY <2>2, ZenonT(30) DEF IInv, LoopsOK
    <3>7. Addresses(stream') \subseteq admitted'
      BY <1>0, <2>2, <2>4, ZenonT(30)
    <3>8. BodiesAdmitted'
      BY <2>1, <2>2, <3>3, <3>7, ZenonT(30) DEF BodiesAdmitted
    <3> QED BY <3>5, <3>6, <3>8, ZenonT(30) DEF IInv
  <2> QED BY <1>2, <2>3, <2>4, LoadEffect, ZenonT(30)
<1> QED BY <1>1, <1>2, ZenonT(30)

(* The steps that compile a body.                                            *)
LEMMA BodySteps ==
    ASSUME IInv
    PROVE  /\ \A name \in Names : BeginFn(name) => IInv'
           /\ \A count \in LoopCounts : BeginLoop(count) => IInv'
           /\ \A s \in Stmt : BodyAccess(s) => IInv'
           /\ \A name \in Names : BodyCall(name) => IInv'
           /\ \A count \in LoopCounts : BodyLoop(count) => IInv'
           /\ EndBodyLoop => IInv'
           /\ EndFn => IInv'
           /\ EndLoop => IInv'
<1> DEFINE Fn == [name : Names \cup {NoName}, len : 0 .. FnBodyWords, body : Seq(Stmt)]
           Parse == [kind : {"none", "fn", "loop"}, name : Names \cup {NoName}, loops : Seq(Loop)]
<1>0. /\ claimed \subseteq CapId /\ admitted \subseteq Word
      /\ pending \in Pending /\ fns \in [FnSlots -> Fn] /\ parse \in Parse
      /\ stream \in Seq(Stmt) /\ stream_len \in 0 .. MaxStreamWords
      /\ MaxStreamWords \in Nat /\ Len(stream) \in Nat /\ Len(parse.loops) \in Nat
  BY StreamAssumption DEF IInv, CompilerTypeOK, Pending
<1>1. /\ \A i \in FnSlots : Addresses(fns[i].body) \subseteq admitted
      /\ Addresses(stream) \subseteq admitted
      /\ pending.cmd = "run" => Addresses(pending.prog) \subseteq admitted
  BY ZenonT(30) DEF IInv, BodiesAdmitted
<1>2. /\ parse.kind = "loop" => parse.loops # <<>>
      /\ \A i \in 1 .. Len(parse.loops) :
            /\ parse.loops[i] \in Loop /\ parse.loops[i].count >= 1
            /\ parse.loops[i].at <= Len(stream) /\ parse.loops[i].words <= stream_len
  BY <1>0 DEF IInv, LoopsOK
(* What is left to show for a step that only compiles. *)
<1>3. ASSUME UNCHANGED <<claimed, pending, fns>>,
             parse' \in Parse, stream' \in Seq(Stmt), stream_len' \in 0 .. MaxStreamWords,
             admitted \subseteq admitted', admitted' \subseteq Word,
             Addresses(stream') \subseteq admitted', LoopsOK'
      PROVE  IInv'
  <2>1. CompilerTypeOK'
    BY <1>0, <1>3, ZenonT(30) DEF CompilerTypeOK, Pending
  <2>2. BodiesAdmitted'
    BY <1>1, <1>3, ZenonT(30) DEF BodiesAdmitted
  <2> QED BY <1>3, <2>1, <2>2, ZenonT(30) DEF IInv
(* Open loops stay inside a stream that only grows. *)
<1>a. ASSUME parse' = parse, Len(stream') \in Nat, Len(stream') >= Len(stream),
             stream_len' \in Nat, stream_len' >= stream_len
      PROVE  LoopsOK'
  <2>1. \A i \in 1 .. Len(parse.loops) :
          /\ parse.loops[i].at \in Nat /\ parse.loops[i].words \in Nat
          /\ parse.loops[i].count >= 1
          /\ parse.loops[i].at <= Len(stream) /\ parse.loops[i].words <= stream_len
    BY <1>2, ZenonT(30) DEF Loop
  <2>2. \A i \in 1 .. Len(parse.loops) :
          parse.loops[i].at <= Len(stream') /\ parse.loops[i].words <= stream_len'
    BY <1>0, <1>a, <2>1
  <2> QED BY <1>2, <1>a, <2>1, <2>2, ZenonT(30) DEF LoopsOK
<1>4. ASSUME NEW name \in Names, BeginFn(name) PROVE IInv'
  <2>1. /\ parse' = [kind |-> "fn", name |-> name, loops |-> <<>>]
        /\ stream' = <<>> /\ stream_len' = 0
        /\ UNCHANGED <<claimed, pending, fns, admitted>>
    BY <1>4, ZenonT(30) DEF BeginFn
  <2>2. parse' \in Parse /\ LoopsOK'
    BY <2>1 DEF LoopsOK
  <2> QED BY <1>0, <1>3, <2>1, <2>2, EmptyAddresses
<1>5. ASSUME NEW count \in LoopCounts, BeginLoop(count) PROVE IInv'
  <2>1. /\ parse' = [kind |-> "loop", name |-> NoName,
                     loops |-> <<[count |-> count, at |-> 0, words |-> 0]>>]
        /\ stream' = <<>> /\ stream_len' = 0 /\ count \in 1 .. MaxLoopUnroll
        /\ UNCHANGED <<claimed, pending, fns, admitted>>
    BY <1>5, ZenonT(30) DEF BeginLoop
  <2> DEFINE loop == [count |-> count, at |-> 0, words |-> 0]
  <2>2. loop \in Loop /\ count >= 1
    BY <2>1, LoopAssumption DEF Loop
  <2>3. parse' \in Parse
    BY <2>1, <2>2
  <2>4. LoopsOK'
    BY <2>1, <2>2, EmptyAddresses DEF LoopsOK
  <2> QED BY <1>0, <1>3, <2>1, <2>3, <2>4, EmptyAddresses
<1>6. ASSUME NEW s \in Stmt, BodyAccess(s) PROVE IInv'
  <2>1. /\ stream' = Append(stream, s) /\ stream_len' = stream_len + StmtWords(s)
        /\ stream_len + StmtWords(s) <= MaxStreamWords /\ admitted' = admitted \cup {s.addr}
        /\ UNCHANGED <<claimed, pending, fns, parse>>
    BY <1>6, ZenonT(30) DEF BodyAccess
  <2>2. StmtWords(s) \in Nat /\ s.addr \in Word
    BY StmtWordsType, ZenonT(30) DEF Stmt
  <2>3. stream' \in Seq(Stmt) /\ Len(stream') = Len(stream) + 1
    BY <1>0, <2>1
  <2>4. Addresses(stream') \subseteq admitted'
    BY <1>0, <1>1, <2>1, AppendAddresses, ZenonT(30)
  <2>5. LoopsOK'
    BY <1>0, <1>a, <2>1, <2>2, <2>3
  <2> QED BY <1>0, <1>3, <2>1, <2>2, <2>3, <2>4, <2>5
<1>7. ASSUME NEW name \in Names, BodyCall(name) PROVE IInv'
  <2> DEFINE fn == fns[find_fn(name)]
  <2>1. /\ stream' = stream \o fn.body /\ stream_len' = stream_len + fn.len
        /\ stream_len + fn.len <= MaxStreamWords
        /\ UNCHANGED <<claimed, pending, fns, parse, admitted>>
    BY <1>7, ZenonT(30) DEF BodyCall
  <2>2. find_fn(name) \in FnSlots
    BY <1>7, FindFn, ZenonT(30) DEF BodyCall
  <2>3. fn.body \in Seq(Stmt) /\ fn.len \in Nat /\ Addresses(fn.body) \subseteq admitted
    BY <1>0, <1>1, <2>2, FnBodyWordsAssumption
  <2> HIDE DEF fn
  <2>4. stream' \in Seq(Stmt) /\ Len(stream') >= Len(stream)
    BY <1>0, <2>1, <2>3
  <2>5. Addresses(stream') \subseteq admitted'
    BY <1>0, <1>1, <2>1, <2>3, ConcatAddresses, ZenonT(30)
  <2>6. LoopsOK'
    BY <1>0, <1>a, <2>1, <2>3, <2>4
  <2> QED BY <1>0, <1>3, <2>1, <2>3, <2>4, <2>5, <2>6
<1>8. ASSUME NEW count \in LoopCounts, BodyLoop(count) PROVE IInv'
  <2> DEFINE loop == [count |-> count, at |-> Len(stream), words |-> stream_len]
  <2>1. /\ parse' = [parse EXCEPT !.loops = Append(parse.loops, loop)]
        /\ count \in 1 .. MaxLoopUnroll /\ parse.kind = "fn"
        /\ UNCHANGED <<claimed, pending, fns, stream, stream_len, admitted>>
    BY <1>8, ZenonT(30) DEF BodyLoop, streamVars
  <2>2. loop \in Loop /\ loop.count >= 1 /\ loop.at <= Len(stream) /\ loop.words <= stream_len
    BY <1>0, <2>1, LoopAssumption DEF Loop
  <2> HIDE DEF loop
  <2>3. /\ Append(parse.loops, loop) \in Seq(Loop) /\ Len(Append(parse.loops, loop)) = Len(parse.loops) + 1
        /\ \A i \in 1 .. Len(parse.loops) : Append(parse.loops, loop)[i] = parse.loops[i]
        /\ Append(parse.loops, loop)[Len(parse.loops) + 1] = loop
    BY <1>0, <2>2, AppendProperties
  <2>4. parse' \in Parse /\ parse'.kind = "fn" /\ parse'.loops = Append(parse.loops, loop)
    BY <1>0, <2>1, <2>3, ZenonT(30)
  <2>5. \A i \in 1 .. Len(parse'.loops) :
          /\ parse'.loops[i].count >= 1 /\ parse'.loops[i].at <= Len(stream)
          /\ parse'.loops[i].words <= stream_len
    <3> SUFFICES ASSUME NEW i \in 1 .. Len(parse.loops) + 1
                 PROVE  /\ parse'.loops[i].count >= 1 /\ parse'.loops[i].at <= Len(stream)
                        /\ parse'.loops[i].words <= stream_len
      BY <2>3, <2>4, ZenonT(30)
    <3>1. CASE i \in 1 .. Len(parse.loops)
      BY <1>2, <2>3, <2>4, <3>1, ZenonT(30)
    <3>2. CASE i = Len(parse.loops) + 1
      BY <2>2, <2>3, <2>4, <3>2, ZenonT(30)
    <3> QED BY <1>0, <3>1, <3>2
  <2>6. LoopsOK'
    BY <2>1, <2>4, <2>5, ZenonT(30) DEF LoopsOK
  <2> QED BY <1>0, <1>1, <1>3, <2>1, <2>4, <2>6, ZenonT(30)
(* Closing a loop: its body is in the stream, once, and is copied. *)
<1>b. ASSUME parse.loops # <<>>
      PROVE  LET loop == parse.loops[Len(parse.loops)]
             IN  /\ Unrolled(stream, loop.at, loop.count) \in Seq(Stmt)
                 /\ Len(Unrolled(stream, loop.at, loop.count)) >= Len(stream)
                 /\ Addresses(Unrolled(stream, loop.at, loop.count)) \subseteq admitted
                 /\ UnrolledLen(loop) \in Nat /\ UnrolledLen(loop) >= stream_len
  <2> DEFINE loop == parse.loops[Len(parse.loops)]
  <2>1. Len(parse.loops) \in 1 .. Len(parse.loops) /\ loop = parse.loops[Len(parse.loops)]
    BY <1>0, <1>b, EmptySeq
  <2>2. /\ loop.count \in Nat /\ loop.at \in Nat /\ loop.words \in Nat
        /\ loop.count >= 1 /\ loop.at <= Len(stream) /\ loop.words <= stream_len
    BY <1>2, <2>1, ZenonT(30) DEF Loop
  <2> HIDE DEF loop
  <2> DEFINE d == stream_len - loop.words
  <2>3. d \in Nat /\ stream_len = loop.words + d
    BY <1>0, <2>2
  <2>4. loop.count * d \in Nat /\ loop.count * d >= d
    BY <2>2, <2>3, TimesAtLeast, ZenonT(30)
  <2>5. UnrolledLen(loop) \in Nat /\ UnrolledLen(loop) >= stream_len
    BY <2>2, <2>3, <2>4 DEF UnrolledLen
  <2>6. /\ Unrolled(stream, loop.at, loop.count) \in Seq(Stmt)
        /\ Len(Unrolled(stream, loop.at, loop.count)) >= Len(stream)
        /\ Addresses(Unrolled(stream, loop.at, loop.count)) \subseteq admitted
    BY <1>0, <1>1, <2>2, UnrolledLemma, ZenonT(30)
  <2> QED BY <2>5, <2>6, ZenonT(30) DEF loop
<1>9. ASSUME EndBodyLoop PROVE IInv'
  <2> DEFINE loop == parse.loops[Len(parse.loops)]
  <2>1. /\ parse.loops # <<>> /\ parse.kind = "fn"
        /\ UnrolledLen(loop) <= MaxStreamWords
        /\ stream' = Unrolled(stream, loop.at, loop.count) /\ stream_len' = UnrolledLen(loop)
        /\ parse' = [parse EXCEPT !.loops = SubSeq(parse.loops, 1, Len(parse.loops) - 1)]
        /\ UNCHANGED <<claimed, pending, fns, admitted>>
    BY <1>9, ZenonT(30) DEF EndBodyLoop
  <2>2. /\ stream' \in Seq(Stmt) /\ Len(stream') >= Len(stream) /\ Len(stream') \in Nat
        /\ Addresses(stream') \subseteq admitted
        /\ stream_len' \in Nat /\ stream_len' >= stream_len /\ stream_len' <= MaxStreamWords
    BY <1>b, <2>1
  <2>3. /\ SubSeq(parse.loops, 1, Len(parse.loops) - 1) \in Seq(Loop) /\ Len(SubSeq(parse.loops, 1, Len(parse.loops) - 1)) = Len(parse.loops) - 1
        /\ \A i \in 1 .. Len(SubSeq(parse.loops, 1, Len(parse.loops) - 1)) : SubSeq(parse.loops, 1, Len(parse.loops) - 1)[i] = parse.loops[i]
    <3> DEFINE ls == parse.loops
    <3>1. ls \in Seq(Loop) /\ ls # <<>> /\ Len(ls) \in Nat \ {0} /\ \A i \in 1 .. Len(ls) : ls[i] \in Loop
      BY <1>0, <2>1, EmptySeq, ElementOfSeq, ZenonT(30)
    <3> HIDE DEF ls
    <3> DEFINE k == Len(ls) - 1
               f == SubSeq(ls, 1, k)
    <3>2. k \in Nat /\ \A i \in 1 .. k : ls[i] \in Loop
      BY <3>1
    <3> HIDE DEF k
    <3>3. f \in Seq(Loop) /\ Len(f) = k /\ \A i \in 1 .. k : f[i] = ls[i]
      <4>1. /\ SubSeq(ls, 1, k) \in Seq(Loop)
            /\ Len(SubSeq(ls, 1, k)) = (IF 1 <= k THEN k - 1 + 1 ELSE 0)
            /\ \A i \in 1 .. k - 1 + 1 : SubSeq(ls, 1, k)[i] = ls[1 + i - 1]
        BY <3>2, SubSeqProperties
      <4> QED BY <3>2, <4>1
    <3> QED BY <3>1, <3>3, ZenonT(30) DEF ls, k
  <2>4. parse' \in Parse /\ parse'.kind = "fn" /\ parse'.loops = SubSeq(parse.loops, 1, Len(parse.loops) - 1)
    BY <1>0, <2>1, <2>3, ZenonT(30)
  <2>5. \A i \in 1 .. Len(parse'.loops) :
          /\ parse'.loops[i].count >= 1 /\ parse'.loops[i].at <= Len(stream')
          /\ parse'.loops[i].words <= stream_len'
    <3> SUFFICES ASSUME NEW i \in 1 .. Len(parse.loops) - 1
                 PROVE  /\ parse.loops[i].count >= 1 /\ parse.loops[i].at <= Len(stream')
                        /\ parse.loops[i].words <= stream_len'
      BY <2>3, <2>4, ZenonT(30)
    <3>1. /\ parse.loops[i].count >= 1 /\ parse.loops[i].at \in Nat /\ parse.loops[i].words \in Nat
          /\ parse.loops[i].at <= Len(stream) /\ parse.loops[i].words <= stream_len
      <4>1. i \in 1 .. Len(parse.loops)
        BY <1>0
      <4>2. PICK l \in Loop : l = parse.loops[i]
        BY <1>0, <4>1, ElementOfSeq, ZenonT(30)
      <4>3. l.at \in Nat /\ l.words \in Nat
        BY ZenonT(30) DEF Loop
      <4> QED BY <1>2, <4>1, <4>2, <4>3, ZenonT(30)
    <3> QED BY <1>0, <2>2, <3>1
  <2>6. LoopsOK'
    BY <2>4, <2>5, ZenonT(30) DEF LoopsOK
  <2> QED BY <1>0, <1>3, <2>1, <2>2, <2>4, <2>6
<1>10. ASSUME EndFn PROVE IInv'
  <2>1. /\ can_alloc(parse.name) /\ stream_len <= FnBodyWords
        /\ fns' = [fns EXCEPT ![alloc_fn_slot] =
                      [name |-> parse.name, len |-> stream_len, body |-> stream]]
        /\ parse' = NoParse /\ stream' = <<>> /\ stream_len' = 0
        /\ UNCHANGED <<claimed, pending, admitted>>
    BY <1>10, ZenonT(30) DEF EndFn, install_fn
  <2>2. [name |-> parse.name, len |-> stream_len, body |-> stream] \in Fn
    <3>1. /\ parse.name \in Names \cup {NoName} /\ stream \in Seq(Stmt)
          /\ stream_len \in 0 .. MaxStreamWords /\ MaxStreamWords \in Nat
      BY <1>0, ZenonT(30)
    <3>2. stream_len \in 0 .. FnBodyWords
      BY ONLY <2>1, <3>1, FnBodyWordsAssumption, SMTT(30)
    <3> QED BY <3>1, <3>2, ZenonT(30)
  <2>3. fns' \in [FnSlots -> Fn]
    BY <1>0, <2>1, <2>2, ZenonT(30)
  <2>4. \A i \in FnSlots : Addresses(fns'[i].body) \subseteq admitted
    BY <1>0, <1>1, <2>1, ZenonT(30)
  <2> QED BY <1>0, <1>1, <2>1, <2>3, <2>4, LineEnds, ZenonT(30)
<1>11. ASSUME EndLoop PROVE IInv'
  <2> DEFINE loop == parse.loops[Len(parse.loops)]
             prog == Unrolled(stream, loop.at, loop.count)
  <2>1. /\ parse.kind = "loop"
        /\ pending' = [cmd |-> "run", prog |-> prog]
        /\ parse' = NoParse /\ stream' = <<>> /\ stream_len' = 0
        /\ UNCHANGED <<claimed, fns, admitted>>
    BY <1>11, ZenonT(30) DEF EndLoop
  <2>2. prog \in Seq(Stmt) /\ Addresses(prog) \subseteq admitted
    BY <1>2, <1>b, <2>1, ZenonT(30)
  <2> HIDE DEF prog
  <2>3. pending' \in Pending /\ Addresses(pending'.prog) \subseteq admitted
    BY <2>1, <2>2, ZenonT(30) DEF Pending, Program
  <2> QED BY <1>0, <1>1, <2>1, <2>3, LineEnds, ZenonT(30)
<1> QED BY <1>4, <1>5, <1>6, <1>7, <1>8, <1>9, <1>10, <1>11, ZenonT(30)

(* Every step of the shell preserves the inductive invariant.                *)
LEMMA StepIInv == IInv /\ [Next]_vars => IInv'
<1> SUFFICES ASSUME IInv, [Next]_vars PROVE IInv'
  BY ZenonT(30)
<1>1. CASE UNCHANGED vars
  <2>1. UNCHANGED <<claimed, fns, stream, stream_len, parse, pending, admitted>>
    BY <1>1, ZenonT(30) DEF vars
  <2> QED BY <2>1, ZenonT(30) DEF IInv, CompilerTypeOK, LoopsOK, BodiesAdmitted
<1>2. CASE Next
  <2>1. Vals \subseteq Word /\ UsedCaps \subseteq CapId /\ "SUPERUSER" \in CapId
    BY WordAssumption, UsedCapsAssumption, ZenonT(30) DEF CapId
  <2>2. \A a \in Word, v \in Vals : Poke(a, v) \in Stmt /\ Peek(a) \in Stmt
    BY <2>1, StmtType, ZenonT(30)
  <2>3. \A a \in Word, v \in Vals, cmd \in {"poke", "reg_bit"} : ParseAccess(cmd, a, v) => IInv'
    BY <2>1, LineSteps, ZenonT(30)
  <2>4. \A a \in Word : ParseAccess("peek", a, a) => IInv'
    BY LineSteps, ZenonT(30)
  <2>5. \A cap \in UsedCaps, cmd \in {"cap_claim", "cap_drop"} : ParseVerb(cmd, cap) => IInv'
    BY <2>1, LineSteps, ZenonT(30)
  <2>6. ParseVerb("flash_test", "SUPERUSER") => IInv'
    BY <2>1, LineSteps, ZenonT(30)
  <2>7. \A a \in Word, v \in Vals : (BodyAccess(Poke(a, v)) => IInv') /\ (BodyAccess(Peek(a)) => IInv')
    BY <2>2, BodySteps, ZenonT(30)
  <2>8. \A a \in Word : BodyAccess(Peek(a)) => IInv'
    BY StmtType, BodySteps, ZenonT(30)
  <2> QED BY <1>2, <2>3, <2>4, <2>5, <2>6, <2>7, <2>8, LineSteps, LoadSteps, BodySteps, ZenonT(30) DEF Next, ParseFlashTest, ParseSpiTx
<1> QED BY <1>1, <1>2, ZenonT(30)

-----------------------------------------------------------------------------
(* The compiler's state is type correct: no stream, body or table index      *)
(* leaves the array that parse_fn, parse_body_stmt and the loop unrolling    *)
(* keep it in, and every outcome handed to execute is well formed.           *)
THEOREM CompilerTypeCorrect == Spec => []CompilerTypeOK
<1>1. IInv => CompilerTypeOK
  BY ZenonT(30) DEF IInv
<1> QED BY <1>1, InitIInv, StepIInv, PTL DEF Spec

(* Definition-time enforcement holds for every stream the compiler can       *)
(* build, by nesting, unrolling and splicing to any depth, but for what load *)
(* imported.                                                                 *)
THEOREM BodiesAreAdmitted == Spec => []BodiesAdmitted
<1>1. IInv => BodiesAdmitted
  BY ZenonT(30) DEF IInv
<1> QED BY <1>1, InitIInv, StepIInv, PTL DEF Spec

-----------------------------------------------------------------------------
(* The inductive invariant of the lengths: besides LengthsAgree, an open     *)
(* loop remembers the words that were compiled before it.                    *)
LoopWords ==
    \A i \in 1 .. Len(parse.loops) :
        parse.loops[i].words = WordCount(SubSeq(stream, 1, parse.loops[i].at))

LengthInv == LengthsAgree /\ LoopWords

(* At power-on everything is empty.                                          *)
LEMMA InitLengthInv == Init => LengthInv
<1> SUFFICES ASSUME Init PROVE LengthInv
  BY ZenonT(30)
<1>1. \A i \in FnSlots : NoFns[i].len = 0 /\ NoFns[i].body = <<>>
  BY ZenonT(30) DEF NoFns, FreeSlot
<1>2. LengthsAgree
  BY <1>1, WordCountEmpty, ZenonT(30) DEF Init, LengthsAgree
<1>3. LoopWords
  BY DEF Init, LoopWords, NoParse
<1> QED BY <1>2, <1>3, ZenonT(30) DEF LengthInv

(* A step that leaves the tables and the stream alone.                       *)
LEMMA LengthFrame ==
    ASSUME LengthInv, UNCHANGED <<fns, stream, stream_len, parse>>
    PROVE  LengthInv'
BY ZenonT(30) DEF LengthInv, LengthsAgree, LoopWords, WordCount

(* A step that empties the stream, with no loop open.                        *)
LEMMA LengthClear ==
    ASSUME stream' = <<>>, stream_len' = 0, parse'.loops = <<>>,
           \A i \in FnSlots : fns'[i].len = WordCount(fns'[i].body)
    PROVE  LengthInv'
<1>1. LengthsAgree'
  BY WordCountEmpty, ZenonT(30) DEF LengthsAgree, WordCount
<1>2. LoopWords'
  BY DEF LoopWords
<1> QED BY <1>1, <1>2, ZenonT(30) DEF LengthInv

(* A step that extends the stream while the same loops, or fewer, are open.  *)
LEMMA LengthGrows ==
    ASSUME IInv, LengthInv, UNCHANGED fns, Extends(stream', stream),
           stream_len' = WordCount(stream'),
           NEW k \in 0 .. Len(parse.loops), Len(parse'.loops) = k,
           \A i \in 1 .. k : parse'.loops[i] = parse.loops[i]
    PROVE  LengthInv'
<1>1. LengthsAgree'
  BY ZenonT(30) DEF LengthInv, LengthsAgree, WordCount
<1>2. ASSUME NEW i \in 1 .. k
      PROVE  parse'.loops[i].words = WordCount(SubSeq(stream', 1, parse'.loops[i].at))
  <2>1. parse.loops \in Seq(Loop) /\ stream \in Seq(Stmt) /\ Len(parse.loops) \in Nat
    <3>1. /\ stream \in Seq(Stmt)
          /\ parse \in [kind : {"none", "fn", "loop"}, name : Names \cup {NoName}, loops : Seq(Loop)]
      BY ZenonT(30) DEF IInv, CompilerTypeOK
    <3>2. parse.loops \in Seq(Loop)
      BY <3>1, ZenonT(30)
    <3> QED BY <3>1, <3>2
  <2>2. i \in 1 .. Len(parse.loops)
    BY <2>1
  <2>3. parse.loops[i].at \in Nat /\ parse.loops[i].at <= Len(stream)
    <3>1. parse.loops[i] \in Loop
      BY <2>1, <2>2, ElementOfSeq, ZenonT(30)
    <3> QED BY <2>2, <3>1, ZenonT(30) DEF IInv, LoopsOK, Loop
  <2>4. SubSeq(stream', 1, parse.loops[i].at) = SubSeq(stream, 1, parse.loops[i].at)
    BY <2>1, <2>3, PrefixKept, ZenonT(30)
  <2>5. parse.loops[i].words = WordCount(SubSeq(stream, 1, parse.loops[i].at))
    BY <2>2, ZenonT(30) DEF LengthInv, LoopWords
  <2> QED BY <2>4, <2>5, ZenonT(30)
<1>3. LoopWords'
  BY <1>2, ZenonT(30) DEF LoopWords, WordCount
<1> QED BY <1>1, <1>3, ZenonT(30) DEF LengthInv

-----------------------------------------------------------------------------
(* The steps that compile a body keep the lengths.                           *)
LEMMA BodyLengths ==
    ASSUME IInv, LengthInv
    PROVE  /\ \A name \in Names : BeginFn(name) => LengthInv'
           /\ \A count \in LoopCounts : BeginLoop(count) => LengthInv'
           /\ \A s \in Stmt : BodyAccess(s) => LengthInv'
           /\ \A name \in Names : BodyCall(name) => LengthInv'
           /\ \A count \in LoopCounts : BodyLoop(count) => LengthInv'
           /\ EndBodyLoop => LengthInv'
           /\ EndFn => LengthInv'
           /\ EndLoop => LengthInv'
           /\ RejectLine => LengthInv'
           /\ Reset => LengthInv'
<1> DEFINE Fn == [name : Names \cup {NoName}, len : 0 .. FnBodyWords, body : Seq(Stmt)]
           Parse == [kind : {"none", "fn", "loop"}, name : Names \cup {NoName}, loops : Seq(Loop)]
<1>0. /\ fns \in [FnSlots -> Fn] /\ parse \in Parse /\ parse.loops \in Seq(Loop)
      /\ stream \in Seq(Stmt) /\ stream_len \in Nat
      /\ Len(stream) \in Nat /\ Len(parse.loops) \in Nat
  BY StreamAssumption DEF IInv, CompilerTypeOK
<1>1. /\ stream_len = WordCount(stream)
      /\ \A i \in FnSlots : fns[i].len = WordCount(fns[i].body)
  BY ZenonT(30) DEF LengthInv, LengthsAgree
<1>2. ASSUME UNCHANGED <<fns, parse>>, Extends(stream', stream), stream_len' = WordCount(stream')
      PROVE  LengthInv'
  <2>1. Len(parse.loops) \in 0 .. Len(parse.loops)
    BY <1>0
  <2> QED BY <1>2, <2>1, LengthGrows, ZenonT(30)
<1>3. ASSUME NEW name \in Names, BeginFn(name) PROVE LengthInv'
  <2>1. /\ parse' = [kind |-> "fn", name |-> name, loops |-> <<>>]
        /\ stream' = <<>> /\ stream_len' = 0 /\ fns' = fns
    BY <1>3, ZenonT(30) DEF BeginFn
  <2> QED BY <1>1, <2>1, LengthClear, ZenonT(30)
<1>4. ASSUME NEW count \in LoopCounts, BeginLoop(count) PROVE LengthInv'
  <2> DEFINE loop == [count |-> count, at |-> 0, words |-> 0]
  <2>1. /\ parse' = [kind |-> "loop", name |-> NoName, loops |-> <<loop>>]
        /\ stream' = <<>> /\ stream_len' = 0 /\ fns' = fns
    BY <1>4, ZenonT(30) DEF BeginLoop
  <2>2. parse'.loops = <<loop>> /\ Len(<<loop>>) = 1 /\ <<loop>>[1] = loop /\ loop.at = 0 /\ loop.words = 0
    BY <2>1, ZenonT(30)
  <2> HIDE DEF loop
  <2>3. SubSeq(<<>>, 1, 0) = <<>>
    OBVIOUS
  <2>4. ASSUME NEW i \in 1 .. 1
        PROVE  parse'.loops[i].words = WordCount(SubSeq(stream', 1, parse'.loops[i].at))
    <3>1. i = 1
      OBVIOUS
    <3> QED BY <2>1, <2>2, <2>3, <3>1, WordCountEmpty, ZenonT(30)
  <2>5. LoopWords'
    BY <2>2, <2>4, ZenonT(30) DEF LoopWords, WordCount
  <2>6. LengthsAgree'
    BY <1>1, <2>1, WordCountEmpty, ZenonT(30) DEF LengthsAgree, WordCount
  <2> QED BY <2>5, <2>6, ZenonT(30) DEF LengthInv
<1>5. ASSUME NEW s \in Stmt, BodyAccess(s) PROVE LengthInv'
  <2>1. /\ stream' = Append(stream, s) /\ stream_len' = stream_len + StmtWords(s)
        /\ UNCHANGED <<fns, parse>>
    BY <1>5, ZenonT(30) DEF BodyAccess
  <2>2. WordCount(Append(stream, s)) = WordCount(stream) + StmtWords(s)
    BY <1>0, WordCountAppend, ZenonT(30)
  <2>3. Extends(Append(stream, s), stream)
    BY <1>0, StreamExtends, ZenonT(30)
  <2> QED BY <1>1, <1>2, <2>1, <2>2, <2>3, ZenonT(30)
<1>6. ASSUME NEW name \in Names, BodyCall(name) PROVE LengthInv'
  <2>1. find_fn(name) \in FnSlots
    BY <1>6, FindFn, ZenonT(30) DEF BodyCall
  <2>2. PICK fn \in Fn : fn = fns[find_fn(name)] /\ fn.len = WordCount(fn.body)
    BY <1>0, <1>1, <2>1, ZenonT(30)
  <2>3. PICK b \in Seq(Stmt) : b = fn.body
    BY <2>2, ZenonT(30)
  <2>4. /\ stream' = Cat(stream, b) /\ stream_len' = stream_len + fn.len
        /\ UNCHANGED <<fns, parse>>
    BY <1>6, <2>2, <2>3, ZenonT(30) DEF BodyCall, Cat
  <2>5. WordCount(Cat(stream, b)) = WordCount(stream) + WordCount(b)
    BY <1>0, WordCountConcat, ZenonT(30)
  <2>6. Extends(Cat(stream, b), stream)
    BY <1>0, StreamExtends, ZenonT(30)
  <2> QED BY <1>1, <1>2, <2>2, <2>3, <2>4, <2>5, <2>6, ZenonT(30)
<1>7. ASSUME NEW count \in LoopCounts, BodyLoop(count) PROVE LengthInv'
  <2>1. PICK loop : loop = [count |-> count, at |-> Len(stream), words |-> stream_len]
    BY ZenonT(30)
  <2>2. /\ parse' = [parse EXCEPT !.loops = Append(parse.loops, loop)]
        /\ count \in 1 .. MaxLoopUnroll
        /\ UNCHANGED <<fns, stream, stream_len>>
    BY <1>7, <2>1, ZenonT(30) DEF BodyLoop, streamVars
  <2>3. loop \in Loop /\ loop.at = Len(stream) /\ loop.words = stream_len
    BY <1>0, <2>1, <2>2, LoopAssumption, ZenonT(30) DEF Loop
  <2>4. PICK ls \in Seq(Loop), n \in Nat : ls = parse.loops /\ n = Len(ls)
    BY <1>0, ZenonT(30)
  <2>5. /\ parse'.loops = Append(ls, loop) /\ Len(Append(ls, loop)) = n + 1
        /\ \A i \in 1 .. n : Append(ls, loop)[i] = ls[i]
        /\ Append(ls, loop)[n + 1] = loop
    BY <1>0, <2>2, <2>3, <2>4, AppendProperties
  <2>6. ASSUME NEW i \in 1 .. n + 1
        PROVE  parse'.loops[i].words = WordCount(SubSeq(stream, 1, parse'.loops[i].at))
    <3>1. CASE i \in 1 .. n
      BY <2>4, <2>5, <3>1, ZenonT(30) DEF LengthInv, LoopWords
    <3>2. CASE i = n + 1
      <4>1. SubSeq(stream, 1, Len(stream)) = stream
        BY <1>0, PrefixWhole, ZenonT(30)
      <4> QED BY <1>1, <2>3, <2>5, <3>2, <4>1, ZenonT(30)
    <3> QED BY <3>1, <3>2
  <2>7. LoopWords'
    <3>1. Len(parse'.loops) = n + 1 /\ stream' = stream
      BY <2>2, <2>5, ZenonT(30)
    <3> QED BY <2>6, <3>1, ZenonT(30) DEF LoopWords
  <2>8. LengthsAgree'
    BY <1>1, <2>2, ZenonT(30) DEF LengthsAgree, WordCount
  <2> QED BY <2>7, <2>8, ZenonT(30) DEF LengthInv
<1>8. ASSUME EndBodyLoop PROVE LengthInv'
  <2> DEFINE loop == parse.loops[Len(parse.loops)]
  <2>1. /\ parse.loops # <<>>
        /\ stream' = Unrolled(stream, loop.at, loop.count) /\ stream_len' = UnrolledLen(loop)
        /\ parse' = [parse EXCEPT !.loops = SubSeq(parse.loops, 1, Len(parse.loops) - 1)]
        /\ fns' = fns
    BY <1>8, ZenonT(30) DEF EndBodyLoop
  <2>2. PICK n \in Nat : Len(parse.loops) = n + 1
    <3>1. Len(parse.loops) - 1 \in Nat /\ Len(parse.loops) = (Len(parse.loops) - 1) + 1
      BY <1>0, <2>1, EmptySeq
    <3> QED BY <3>1, ZenonT(30)
  <2>3. /\ loop \in Loop /\ loop.count >= 1 /\ loop.at <= Len(stream)
        /\ loop.words = WordCount(SubSeq(stream, 1, loop.at))
    <3>1. Len(parse.loops) \in 1 .. Len(parse.loops)
      BY <2>2
    <3>2. loop \in Loop
      BY <1>0, <3>1, ElementOfSeq, ZenonT(30)
    <3> QED BY <3>1, <3>2, ZenonT(30) DEF IInv, LoopsOK, LengthInv, LoopWords
  <2> HIDE DEF loop
  <2>4. PICK at \in Nat, count \in Nat \ {0} : at = loop.at /\ count = loop.count /\ at <= Len(stream)
    BY <2>3 DEF Loop
  <2>5. WordCount(Unrolled(stream, at, count))
          = WordCount(SubSeq(stream, 1, at)) + count * (WordCount(stream) - WordCount(SubSeq(stream, 1, at)))
    BY <1>0, <2>4, WordCountUnrolled, ZenonT(30)
  <2>6. stream_len' = WordCount(stream')
    BY <1>1, <2>1, <2>3, <2>4, <2>5, ZenonT(30) DEF UnrolledLen
  <2>7. Extends(stream', stream)
    BY <1>0, <2>1, <2>4, StreamExtends, ZenonT(30)
  <2>8. Len(parse'.loops) = n /\ \A i \in 1 .. n : parse'.loops[i] = parse.loops[i]
    <3>1. PICK ls \in Seq(Loop) : ls = parse.loops /\ Len(ls) = n + 1
      BY <1>0, <2>2, ZenonT(30)
    <3>2. parse'.loops = SubSeq(ls, 1, n)
      BY <1>0, <2>1, <2>2, <3>1
    <3>3. \A i \in 1 .. n : ls[i] \in Loop
      BY <3>1, ElementOfSeq
    <3>4. /\ Len(SubSeq(ls, 1, n)) = IF 1 <= n THEN n - 1 + 1 ELSE 0
          /\ \A i \in 1 .. n - 1 + 1 : SubSeq(ls, 1, n)[i] = ls[1 + i - 1]
      BY <3>3, SubSeqProperties
    <3>5. (IF 1 <= n THEN n - 1 + 1 ELSE 0) = n /\ \A i \in 1 .. n : i \in 1 .. n - 1 + 1 /\ 1 + i - 1 = i
      OBVIOUS
    <3>6. Len(parse'.loops) = n
      BY <3>2, <3>4, <3>5, ZenonT(30)
    <3> QED BY <3>1, <3>2, <3>4, <3>5, <3>6, ZenonT(30)
  <2>9. n \in 0 .. Len(parse.loops)
    BY <2>2
  <2> QED BY <2>1, <2>6, <2>7, <2>8, <2>9, LengthGrows, ZenonT(30)
<1>9. ASSUME EndFn PROVE LengthInv'
  <2>1. /\ fns' = [fns EXCEPT ![alloc_fn_slot] =
                      [name |-> parse.name, len |-> stream_len, body |-> stream]]
        /\ parse'.loops = <<>> /\ stream' = <<>> /\ stream_len' = 0
    BY <1>9, ZenonT(30) DEF EndFn, install_fn, NoParse
  <2>2. \A i \in FnSlots : fns'[i].len = WordCount(fns'[i].body)
    BY <1>0, <1>1, <2>1, ZenonT(30)
  <2> QED BY <2>1, <2>2, LengthClear, ZenonT(30)
<1>10. ASSUME EndLoop \/ RejectLine PROVE LengthInv'
  <2>1. parse' = NoParse /\ stream' = <<>> /\ stream_len' = 0 /\ fns' = fns
    BY <1>10, ZenonT(30) DEF EndLoop, RejectLine
  <2> QED BY <1>1, <2>1, LengthClear, ZenonT(30) DEF NoParse
<1>11. ASSUME Reset PROVE LengthInv'
  <2>1. parse' = NoParse /\ stream' = <<>> /\ stream_len' = 0 /\ fns' = NoFns
    BY <1>11, ZenonT(30) DEF Reset
  <2>2. \A i \in FnSlots : NoFns[i].len = WordCount(NoFns[i].body)
    BY WordCountEmpty, ZenonT(30) DEF NoFns, FreeSlot
  <2> QED BY <2>1, <2>2, LengthClear, ZenonT(30) DEF NoParse
<1> QED BY <1>3, <1>4, <1>5, <1>6, <1>7, <1>8, <1>9, <1>10, <1>11, ZenonT(30)

(* An imported body comes with its own length.                               *)
LEMMA LoadLengths ==
    ASSUME IInv, LengthInv, ExecLoad
    PROVE  LengthInv'
<1>1. fns \in [FnSlots -> [name : Names \cup {NoName}, len : 0 .. FnBodyWords, body : Seq(Stmt)]]
  BY ZenonT(30) DEF IInv, CompilerTypeOK
<1>2. UNCHANGED <<stream, stream_len, parse>>
  BY LoadEffect, ZenonT(30)
<1>3. \A i \in FnSlots : fns'[i].len = WordCount(fns'[i].body)
  <2>1. \A i \in FnSlots : fns[i].len = WordCount(fns[i].body)
    BY ZenonT(30) DEF LengthInv, LengthsAgree
  <2>2. ASSUME NEW body, fns' = [fns EXCEPT ![alloc_fn_slot] =
                                   [name |-> pending.name, len |-> WordCount(body), body |-> body]]
        PROVE  \A i \in FnSlots : fns'[i].len = WordCount(fns'[i].body)
    BY <1>1, <2>1, <2>2, ZenonT(30)
  <2> QED BY <2>1, <2>2, LoadEffect, ZenonT(30)
<1> QED BY <1>2, <1>3, ZenonT(30) DEF LengthInv, LengthsAgree, LoopWords, WordCount

(* Every step keeps the lengths.                                             *)
LEMMA StepLengthInv == IInv /\ LengthInv /\ [Next]_vars => LengthInv'
<1> SUFFICES ASSUME IInv, LengthInv, [Next]_vars PROVE LengthInv'
  BY ZenonT(30)
<1> DEFINE Framed == UNCHANGED <<fns, stream, stream_len, parse>>
<1>1. \A cmd, a, v : ParseAccess(cmd, a, v) => Framed
  BY ZenonT(30) DEF ParseAccess, streamVars
<1>2. /\ \A cmd, cap : ParseVerb(cmd, cap) => Framed
      /\ \A cmd : ParseDriver(cmd) => Framed
      /\ \A name : ParseCall(name) => Framed
      /\ ParseValue => Framed
      /\ \A a : EvalPeek(a) => Framed
      /\ \A name : ParseLoad(name) => Framed
  BY ZenonT(30) DEF ParseVerb, ParseLoad, ParseDriver, ParseCall, ParseValue, EvalPeek, streamVars
<1>3. ExecPoke \/ ExecBit \/ ExecPeek \/ ExecClaim \/ ExecDrop \/ ExecRun \/ ExecDriver => Framed
  BY ZenonT(30) DEF ExecPoke, ExecBit, ExecPeek, ExecClaim, ExecDrop, ExecRun, ExecDriver, streamVars
<1>4. UNCHANGED vars => Framed
  BY ZenonT(30) DEF vars
<1>5. \A a \in Word, v \in Vals : Poke(a, v) \in Stmt
  BY WordAssumption, StmtType, ZenonT(30)
<1>6. \A a \in Word : Peek(a) \in Stmt
  BY StmtType, ZenonT(30)
<1>7. /\ \A a \in Word, v \in Vals : BodyAccess(Poke(a, v)) => LengthInv'
      /\ \A a \in Word : BodyAccess(Peek(a)) => LengthInv'
  BY <1>5, <1>6, BodyLengths, ZenonT(30)
<1> HIDE DEF Framed
<1>8. Framed => LengthInv'
  BY LengthFrame, ZenonT(30) DEF Framed
<1>9. ASSUME Next PROVE Framed \/ LengthInv'
  BY <1>1, <1>2, <1>3, <1>7, <1>9, BodyLengths, LoadLengths, ZenonT(30) DEF Next, ParseFlashTest, ParseSpiTx
<1> QED BY <1>4, <1>8, <1>9, ZenonT(30)

(* stream_len is the number of words in the stream and fn_body_lens that of  *)
(* each stored body, however calls are spliced in and loops are nested: the  *)
(* length that the bounds are checked against, computed once per loop, is the*)
(* length of what is copied.                                                 *)
THEOREM LengthsAlwaysAgree == Spec => []LengthsAgree
<1>1. IInv /\ LengthInv => LengthsAgree
  BY ZenonT(30) DEF LengthInv
<1> QED BY <1>1, InitIInv, InitLengthInv, StepIInv, StepLengthInv, PTL DEF Spec
=============================================================================
