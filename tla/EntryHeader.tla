---------------------------- MODULE EntryHeader ----------------------------
(***************************************************************************)
(* The reader lock kept in every entry header (entry_header.h/.c): a       *)
(* 16-bit counter of the connections that are sending the entry's value.   *)
(*                                                                         *)
(* The two operations are written as operators on the counter, so that     *)
(* every module that owns headers applies the same code to them.           *)
(***************************************************************************)
EXTENDS Naturals

CONSTANT LockCapacity   \* ENTRY_HEADER_LOCK_CAPACITY, 0xFFFF in the code

ASSUME LockCapacityAssumption == LockCapacity \in Nat \ {0}

(* Values of the counter: a uint16_t, whose largest value is LockCapacity. *)
LockCount == 0 .. LockCapacity

(* entry_header_acquire_lock answers BLOCKED, and changes nothing, when the *)
(* counter is full; otherwise it adds one.                                  *)
LockIsFull(locks) == locks = LockCapacity
LockAcquired(locks) == locks + 1

(* entry_header_release_lock: an unsigned decrement.  The assertion in      *)
(* front of it, locks >= 0, holds of every unsigned value, so a release of  *)
(* a free lock wraps the counter around to LockCapacity.                    *)
LockReleased(locks) == IF locks = 0 THEN LockCapacity ELSE locks - 1

(* The event a release reports, computed from the counter it leaves behind. *)
ReleaseEvent(locks_left) ==
  IF locks_left = 0 THEN "WRITES_UNBLOCKED"
  ELSE IF locks_left = LockCapacity - 1 THEN "READS_UNBLOCKED"
  ELSE "NONE"
=============================================================================
