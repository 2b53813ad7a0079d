------------------------------ MODULE AuditLog ------------------------------
(***************************************************************************)
(* The superuser audit ring (capabilities/audit.rs): the last AuditSize    *)
(* recorded writes and a count of all of them.                             *)
(***************************************************************************)
EXTENDS Integers, Sequences

CONSTANT AuditSize                   \* 16 in the code
ASSUME AuditSizeAssumption == AuditSize \in Nat \ {0}

VARIABLES log,        \* SUPERUSER_AUDIT_LOG: buffer, head and count
          recorded    \* history: every event recorded since boot, in order

EmptyEntry == [addr |-> 0, val |-> 0]
EmptyLog == [buffer |-> [i \in 0 .. AuditSize - 1 |-> EmptyEntry], head |-> 0, count |-> 0]

(* Mutant: the head stays at the last place and does not wrap. *)
record_event_NoWrap(addr, val) ==
    /\ log' = [buffer |-> [log.buffer EXCEPT ![log.head] = [addr |-> addr, val |-> val]],
               head   |-> IF log.head + 1 < AuditSize THEN log.head + 1 ELSE log.head,
               count  |-> log.count + 1]
    /\ recorded' = Append(recorded, [addr |-> addr, val |-> val])

record_event(addr, val) ==
    /\ log' = [buffer |-> [log.buffer EXCEPT ![log.head] = [addr |-> addr, val |-> val]],
               head   |-> (log.head + 1) % AuditSize,
               count  |-> log.count + 1]
    /\ recorded' = Append(recorded, [addr |-> addr, val |-> val])

(* The ring holds exactly the most recent AuditSize events: the one recorded *)
(* k events ago is k places behind head, and count is the number of events.  *)
LogHoldsLatest ==
    /\ log.count = Len(recorded)
    /\ \A k \in 1 .. AuditSize :
           k <= Len(recorded) =>
               log.buffer[(log.head + AuditSize - k) % AuditSize] = recorded[Len(recorded) + 1 - k]
=============================================================================
