-------------------------------- MODULE Rta --------------------------------
(***************************************************************************)
(* Response time analysis (rta_response_time in                            *)
(* crates/hros-kernel/src/wcet.rs): the response time of a task under the  *)
(* tasks of higher priority, by iteration from its own execution time.     *)
(* One action is one pass of the loop.                                     *)
(***************************************************************************)
EXTENDS Integers, Sequences, FiniteSets, Sums

CONSTANTS Costs,        \* execution times w_ti
          HigherSets,   \* sequences of higher-priority tasks, cost and period
          Deadlines,
          MaxRounds,    \* 100 in the code
          UsizeMod      \* 2^32 on both targets

ASSUME CostsAssumption == Costs \subseteq Nat /\ Deadlines \subseteq Nat
ASSUME HigherAssumption == HigherSets \subseteq Seq([cost : Nat, period : Nat \ {0}])
ASSUME RoundsAssumption == MaxRounds \in Nat
ASSUME UsizeAssumption == UsizeMod \in Nat \ {0}

VARIABLES w_ti, higher, deadline,      \* the arguments
          r, rounds,
          result,                      \* "running", "some", and None either
                                       \* "late" or, out of rounds, "gave_up"
          overflowed                   \* history: a usize operation has wrapped

rtaVars == <<w_ti, higher, deadline, r, rounds, result, overflowed>>

RtaInit ==
    /\ w_ti \in Costs /\ higher \in HigherSets /\ deadline \in Deadlines
    /\ r = w_ti
    /\ rounds = 0
    /\ result = "running"
    /\ overflowed = FALSE

(* What each higher task asks for in a busy period of length t. *)
Demands(t) ==
    [i \in DOMAIN higher |->
        (((t + higher[i].period - 1) % UsizeMod) \div higher[i].period) * higher[i].cost]

(* Mutant: demand is added up from r. *)
demand_FromR(t) == (r + Total(Demands(t))) % UsizeMod

(* What is to be executed in a busy period of length t: usize arithmetic, so *)
(* products and sums are kept modulo 2^32.                                   *)
demand(t) == (w_ti + Total(Demands(t))) % UsizeMod

(* One of those operations leaves the range of usize. *)
Wraps(t) ==
    \/ \E i \in DOMAIN higher : t + higher[i].period - 1 >= UsizeMod
    \/ w_ti + Total(Demands(t)) >= UsizeMod

Iterate ==
    /\ result = "running" /\ rounds < MaxRounds
    /\ result' = CASE demand(r) > deadline -> "late"
                   [] demand(r) <= deadline /\ demand(r) = r -> "some"
                   [] OTHER -> "running"
    /\ r' = IF result' = "running" THEN demand(r) ELSE r
    /\ rounds' = rounds + 1
    /\ overflowed' = (overflowed \/ Wraps(r))
    /\ UNCHANGED <<w_ti, higher, deadline>>

GiveUp ==
    /\ result = "running" /\ rounds = MaxRounds
    /\ result' = "gave_up"
    /\ UNCHANGED <<w_ti, higher, deadline, r, rounds, overflowed>>

RtaNext == Iterate \/ GiveUp

RtaSpec == RtaInit /\ [][RtaNext]_rtaVars

-----------------------------------------------------------------------------
(* Reference: the times by which the task and all that was released before  *)
(* them at a higher priority can be done; the first is the response time.    *)
Released(h, t) == Cardinality({k \in 0 .. t \div h.period : k * h.period < t})
Work(t) == w_ti + Total([i \in DOMAIN higher |-> Released(higher[i], t) * higher[i].cost])
DoneBy == {t \in 0 .. deadline : Work(t) <= t}

(* Unless an operation of rta_response_time has wrapped:                     *)
(*   - Some(r) is the response time: the deadline is met, and at no earlier  *)
(*     time is the task's work and that of all higher tasks done;            *)
(*   - None on passing the deadline means that the task misses it: the       *)
(*     iteration never jumps over a response time;                           *)
(*   - None after the last round means nothing about the deadline: r is only *)
(*     a lower bound of the response time, which may exist.                  *)
AnswerIsResponseTime ==
    ~overflowed =>
       /\ result = "some" => r \in DoneBy /\ \A t \in DoneBy : r <= t
       /\ result = "late" => DoneBy = {}
       /\ result = "gave_up" => \A t \in DoneBy : r <= t

(* The comment of rta_response_time (wcet.rs:39): Some if the task is        *)
(* schedulable, None if not.  A schedulable task is never answered None.     *)
NoneIfNotSchedulable == result \in {"late", "gave_up"} => DoneBy = {}
=============================================================================
