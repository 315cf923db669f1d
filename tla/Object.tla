------------------------------- MODULE Object -------------------------------
(***************************************************************************)
(* The base class of everything the data containers hold: an object knows  *)
(* the priority of the feed that updated it last (prio, m_lastPriority),   *)
(* how many processing rounds have passed since (age, m_updateAge) and its *)
(* string representation (serialized, m_serialized).  The empty string is  *)
(* the empty sequence; a rendered report is a sequence of length one, so   *)
(* that appending to a message is concatenation.                           *)
(***************************************************************************)
EXTENDS Naturals

CONSTANT OBJ_OUTDATED   \* rounds after which an object counts as outdated

ASSUME OutdatedAssumption == OBJ_OUTDATED \in Nat \ {0, 1}

\* Mutant: an equal priority does not suffice.
ObjectCanUpdateStrictly(update, stored) ==
    update.prio > stored.prio \/ stored.age >= OBJ_OUTDATED

\* Object::canUpdate, called on the update with the stored object.
ObjectCanUpdate(update, stored) ==
    \/ update.prio >= stored.prio
    \/ stored.age >= OBJ_OUTDATED

\* Object::operator++
Aged(object) == [object EXCEPT !.age = @ + 1]
=============================================================================
