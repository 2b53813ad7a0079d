------------------------------ MODULE MCKernel ------------------------------
(***************************************************************************)
(* The services of the kernel (memory pools, symbol table, range checks,   *)
(* capability tokens, program store, vector table) and the algorithms      *)
(* (lexer, expressions, execution engines, emitters, response time         *)
(* analysis) for TLC.  They share no state, so what holds of one with the  *)
(* others at rest holds of it in every interleaving: a behaviour runs one  *)
(* of them.                                                                *)
(***************************************************************************)
EXTENDS Pool, SymbolTable, RangeCheck, Tokens, PStore, Vectors, Lexer, Expr, NativeCode, Rta

VARIABLE part        \* the one that runs

(* One name is a prefix of another. *)
MCNames == {<<1>>, <<1, 2>>}
MCBodies == {<<3, 4>>, <<5, 6>>}

(* A slot that is free, and one that looks like a program called <<1>>. *)
MCPowerOn ==
    {[name_len |-> 3, name |-> <<7, 7>>, len |-> 4, words |-> <<7, 7, 7>>],
     [name_len |-> 1, name |-> <<1, 8>>, len |-> 1, words |-> <<8, 8, 8>>]}

Literals == "0" :> 0 @@ "2" :> 2
Bindings == "x" :> 5
Memory == [a \in 0 .. 7 |-> (a + 3) % 8]

(* The edges of what one, two and four halfwords of Thumb code and one and   *)
(* two words of RISC-V code can load.                                        *)
EdgeImms == {{}, Bits(255), Bits(256), Bits(\h7FF), Bits(\h800), Bits(\hFFFF), Bits(\h10000),
             AllBits, 11 .. 31, AllBits \ {11}}
EncodedWords == [w \in {0, 1, 2} |-> <<{}, Bits(\h40020014), AllBits \ {4}>>[w + 1]]

(* Up to two higher-priority tasks, overloaded sets included. *)
SmallSets == SeqOf([cost : 0 .. 3, period : 1 .. 5], 2)

-----------------------------------------------------------------------------
Services == {"pool", "symbols", "range", "tokens", "store", "vectors"}
Algorithms == {"lexer", "expr", "exec", "emitter", "rta"}

KernelInit ==
    /\ part \in Services \cup Algorithms
    /\ IF part = "symbols" THEN TRUE ELSE hash = [name \in SymbolNames |-> 0]
    /\ IF part = "tokens" THEN TRUE ELSE claimed = {}
    /\ IF part = "store" THEN TRUE ELSE window = [i \in Slots |-> CHOOSE s \in PowerOn : TRUE]
    /\ IF part = "vectors" THEN TRUE ELSE ram = [s \in VectorSlots |-> None]
    /\ IF part = "emitter" THEN TRUE ELSE target = "thumb2"
    /\ IF part = "rta" THEN TRUE ELSE w_ti = 0 /\ higher = <<>> /\ deadline = 2
    /\ PoolInit /\ SymbolInit /\ RangeInit /\ TokenInit /\ Init /\ VectorInit
    /\ LexerInit /\ ExprInit /\ ExecInit /\ EmitterInit /\ RtaInit

OthersRest ==
    /\ UNCHANGED part
    /\ IF part = "pool" THEN TRUE ELSE UNCHANGED poolVars
    /\ IF part = "symbols" THEN TRUE ELSE UNCHANGED symbolVars
    /\ IF part = "range" THEN TRUE ELSE UNCHANGED rangeVars
    /\ IF part = "tokens" THEN TRUE ELSE UNCHANGED tokenVars
    /\ IF part = "store" THEN TRUE ELSE UNCHANGED vars
    /\ IF part = "vectors" THEN TRUE ELSE UNCHANGED vectorVars
    /\ IF part = "lexer" THEN TRUE ELSE UNCHANGED lexerVars
    /\ IF part = "expr" THEN TRUE ELSE UNCHANGED exprVars
    /\ IF part = "exec" THEN TRUE ELSE UNCHANGED execVars
    /\ IF part = "emitter" THEN TRUE ELSE UNCHANGED emitterVars
    /\ IF part = "rta" THEN TRUE ELSE UNCHANGED rtaVars

PoolPart == part = "pool" /\ PoolNext /\ OthersRest
SymbolPart == part = "symbols" /\ SymbolNext /\ OthersRest
RangePart == part = "range" /\ RangeNext /\ OthersRest
TokenPart == part = "tokens" /\ TokenNext /\ OthersRest
StorePart == part = "store" /\ Next /\ OthersRest
VectorPart == part = "vectors" /\ VectorNext /\ OthersRest
LexerPart == part = "lexer" /\ LexerNext /\ OthersRest
ExprPart == part = "expr" /\ ExprNext /\ OthersRest
ExecPart == part = "exec" /\ ExecNext /\ OthersRest
EmitterPart == part = "emitter" /\ EmitterNext /\ OthersRest
RtaPart == part = "rta" /\ RtaNext /\ OthersRest

kernelVars ==
    <<part, poolVars, symbolVars, rangeVars, tokenVars, vars, vectorVars,
      lexerVars, exprVars, execVars, emitterVars, rtaVars>>

(* An algorithm ends; a service does not. *)
Finished == part \in Algorithms /\ UNCHANGED kernelVars

KernelSpec ==
    KernelInit /\ [][\/ PoolPart \/ SymbolPart \/ RangePart \/ TokenPart \/ StorePart \/ VectorPart
                     \/ LexerPart \/ ExprPart \/ ExecPart \/ EmitterPart \/ RtaPart \/ Finished]_kernelVars
=============================================================================
