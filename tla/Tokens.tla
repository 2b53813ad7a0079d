------------------------------- MODULE Tokens -------------------------------
(***************************************************************************)
(* Linear capability tokens and the GPIO pins leased from them             *)
(* (capabilities/tokens.rs), beside the shell's cap_claim and cap_drop and *)
(* its checked writes, which work on the same registry bits.  A token is   *)
(* moved, never copied: the compiler sees to that, and to it that a token  *)
(* is not dropped or used otherwise while a pin is leased from it.         *)
(*                                                                         *)
(* Tasks run concurrently.  fetch_or and fetch_and are atomic; to enable a *)
(* pin reads the direction register and writes it back in two steps.       *)
(*                                                                         *)
(* The registry is in a section that start-up neither loads nor clears: at *)
(* power-on its bits are whatever the SRAM holds, and a reset keeps them   *)
(* while the tokens, the shell and the GPIO ports start anew.              *)
(***************************************************************************)
EXTENDS Integers, FiniteSets

CONSTANTS Tasks,         \* who may hold tokens
          Ports,         \* GPIO ports
          SuperUserCap,  \* its resource
          Pins,          \* pins of a port
          MaxGrants      \* bound: grants of SuperUserCap

Resources == Ports \cup {SuperUserCap}

ASSUME PortsAssumption == SuperUserCap \notin Ports
ASSUME GrantsAssumption == MaxGrants \in Nat

VARIABLES claimed,     \* REGISTRY_BITS
          live,        \* the live tokens: <<task, resource>>
          using,       \* what each task does with a token of its own
          dir,         \* DIR of each port: the pins that are outputs
          grants,      \* SUPERUSER_AUDIT_COUNT
          shell,       \* history: what the shell has claimed and not dropped
          stale,       \* history: bits set since start-up that nobody has claimed
          astray       \* history: resources taken from, or touched behind, their holder

tokenVars == <<claimed, live, using, dir, grants, shell, stale, astray>>

Unleased == [pc |-> "free"]
Holders(r) == {t \in Tasks : <<t, r>> \in live}

TokenInit ==
    /\ claimed \in SUBSET Resources
    /\ live = {} /\ shell = {} /\ stale = claimed /\ astray = {}
    /\ using = [t \in Tasks |-> Unleased]
    /\ dir = [p \in Ports |-> {}]
    /\ grants = 0

-----------------------------------------------------------------------------
(* claim: acquire tells whether this call set the bit. *)

(* Mutant: the token is minted whatever acquire says. *)
claim_Unchecked(t, r) ==
    /\ using[t] = Unleased
    /\ claimed' = claimed \cup {r}
    /\ live' = live \cup {<<t, r>>}

claim(t, r) ==
    /\ using[t] = Unleased
    /\ r \notin claimed
    /\ claimed' = claimed \cup {r}
    /\ live' = live \cup {<<t, r>>}

Claim(t, r) == claim(t, r) /\ UNCHANGED <<using, dir, grants, shell, stale, astray>>

(* grant_superuser: the claim, then the count. *)
GrantClaim(t) ==
    /\ grants < MaxGrants
    /\ claim(t, SuperUserCap)
    /\ using' = [using EXCEPT ![t] = [pc |-> "count"]]
    /\ UNCHANGED <<dir, grants, shell, stale, astray>>

GrantCount(t) ==
    /\ using[t].pc = "count"
    /\ grants' = grants + 1
    /\ using' = [using EXCEPT ![t] = Unleased]
    /\ UNCHANGED <<claimed, live, dir, shell, stale, astray>>

DropCap(t, r) ==
    /\ using[t] = Unleased
    /\ <<t, r>> \in live
    /\ claimed' = claimed \ {r}
    /\ live' = live \ {<<t, r>>}
    /\ UNCHANGED <<using, dir, grants, shell, stale, astray>>

(* The caller guarantees that no other token is live; the shell may have the *)
(* resource nevertheless.  A stale bit is taken over from nobody.            *)
Steal(t, r) ==
    /\ using[t] = Unleased
    /\ Holders(r) = {}
    /\ claimed' = claimed \cup {r}
    /\ live' = live \cup {<<t, r>>}
    /\ astray' = IF r \in claimed \ stale THEN astray \cup {r} ELSE astray
    /\ stale' = stale \ {r}
    /\ UNCHANGED <<using, dir, grants, shell>>

-----------------------------------------------------------------------------
(* The shell: do_claim, do_drop and a write that passes check_access. *)
ShellClaim(r) ==
    /\ r \notin claimed
    /\ claimed' = claimed \cup {r}
    /\ shell' = shell \cup {r}
    /\ UNCHANGED <<live, using, dir, grants, stale, astray>>

ShellDrop(r) ==
    /\ r \in claimed
    /\ claimed' = claimed \ {r}
    /\ shell' = shell \ {r}
    /\ stale' = stale \ {r}
    /\ astray' = IF Holders(r) # {} THEN astray \cup {r} ELSE astray
    /\ UNCHANGED <<live, using, dir, grants>>

(* That the bit is set is all check_access asks, not who has set it. *)
ShellPoke(p, mask) ==
    /\ {p, SuperUserCap} \cap claimed # {}
    /\ dir' = [dir EXCEPT ![p] = mask]
    /\ astray' = IF p \notin shell THEN astray \cup {p} ELSE astray
    /\ UNCHANGED <<claimed, live, using, grants, shell, stale>>

-----------------------------------------------------------------------------
(* A pin leased from a port's token.  set_high_linear and set_low_linear     *)
(* enable the output, then write DATA_SET or DATA_CLR; set_high and set_low  *)
(* of embedded-hal write only.  Levels are left out: the hardware sets and   *)
(* clears one bit at a time.                                                 *)
SetLinear(t, p, n) ==
    /\ using[t] = Unleased
    /\ <<t, p>> \in live
    /\ using' = [using EXCEPT ![t] = [pc |-> "dir", port |-> p, pin |-> n, seen |-> dir[p]]]
    /\ UNCHANGED <<claimed, live, dir, grants, shell, stale, astray>>

(* Mutant: a plain write, as the reference document sketched it. *)
EnableOutput_Plain(t) ==
    /\ using[t].pc = "dir"
    /\ dir' = [dir EXCEPT ![using[t].port] = {using[t].pin}]
    /\ using' = [using EXCEPT ![t] = [pc |-> "data"]]
    /\ UNCHANGED <<claimed, live, grants, shell, stale, astray>>

EnableOutput(t) ==
    /\ using[t].pc = "dir"
    /\ dir' = [dir EXCEPT ![using[t].port] = using[t].seen \cup {using[t].pin}]
    /\ using' = [using EXCEPT ![t] = [pc |-> "data"]]
    /\ UNCHANGED <<claimed, live, grants, shell, stale, astray>>

WriteData(t) ==
    /\ using[t].pc = "data"
    /\ using' = [using EXCEPT ![t] = Unleased]
    /\ UNCHANGED <<claimed, live, dir, grants, shell, stale, astray>>

(* A reset: .bss is cleared and the ports are inputs again; the registry is  *)
(* kept.                                                                     *)
TokenReset ==
    /\ live' = {} /\ shell' = {} /\ stale' = claimed /\ astray' = {}
    /\ using' = [t \in Tasks |-> Unleased]
    /\ dir' = [p \in Ports |-> {}]
    /\ grants' = 0
    /\ UNCHANGED claimed

-----------------------------------------------------------------------------
TokenNext ==
    \/ \E t \in Tasks, r \in Resources : Claim(t, r) \/ DropCap(t, r) \/ Steal(t, r)
    \/ \E t \in Tasks : GrantClaim(t) \/ GrantCount(t) \/ EnableOutput(t) \/ WriteData(t)
    \/ \E r \in Resources : ShellClaim(r) \/ ShellDrop(r)
    \/ \E p \in Ports, mask \in SUBSET Pins : ShellPoke(p, mask)
    \/ \E t \in Tasks, p \in Ports, n \in Pins : SetLinear(t, p, n)
    \/ TokenReset

TokenSpec == TokenInit /\ [][TokenNext]_tokenVars

-----------------------------------------------------------------------------
(* A token grants exclusive access: as long as nobody drops a claim that is  *)
(* not theirs, steals a claimed resource or pokes behind the holder, one     *)
(* task or the shell holds a resource, never two, and its bit is set exactly *)
(* while somebody holds it or while it is still what start-up found: such a  *)
(* bit keeps everybody out until the shell drops it or a task steals it.     *)
HeldOnce(r) ==
    /\ r \in claimed <=> Holders(r) # {} \/ r \in shell \/ r \in stale
    /\ \A t, u \in Holders(r) : t = u
    /\ Holders(r) # {} => r \notin shell
    /\ r \in stale => Holders(r) = {} /\ r \notin shell
ClaimsExclusive == \A r \in Resources \ astray : HeldOnce(r)

(* With access exclusive the read and the write of the direction register    *)
(* act as one step: no pin that is an output stops being one when another is *)
(* enabled, whoever is scheduled in between, unless the shell, holding the   *)
(* port, says so, or the machine is reset.                                   *)
OutputsKept ==
    [][\/ TokenReset
       \/ \A p \in Ports : p \notin astray' \cup shell => dir[p] \subseteq dir'[p]]_tokenVars
=============================================================================
