----------------------------- MODULE EntryFifo -----------------------------
(***************************************************************************)
(* What the memory queue promises its callers, without saying how: a       *)
(* first-in first-out sequence of entries, each owning an extent of a      *)
(* buffer of Capacity bytes.                                               *)
(*                                                                         *)
(*  - an extent handed out lies inside the buffer and overlaps no extent   *)
(*    that is still owned;                                                 *)
(*  - extents are taken back oldest first, and never while a reader holds  *)
(*    the entry's lock.                                                    *)
(***************************************************************************)
EXTENDS EntryHeader, Sequences

CONSTANT Capacity       \* bytes in the buffer

VARIABLE entries        \* the owned extents, oldest first

Extent == [addr : Nat, size : Nat, locks : LockCount]

Overlap(a, m, b, n) == a < b + n /\ b < a + m

Init == entries = << >>

(* A new entry receives an extent nobody owns. *)
Allocate(a, n) ==
  /\ a + n <= Capacity
  /\ \A i \in DOMAIN entries :
       ~Overlap(a, n, entries[i].addr, entries[i].size)
  /\ entries' = Append(entries, [addr |-> a, size |-> n, locks |-> 0])

(* The oldest extent is taken back when no reader holds it. *)
Evict ==
  /\ entries # << >>
  /\ entries[1].locks = 0
  /\ entries' = Tail(entries)

Acquire(i) ==
  /\ ~LockIsFull(entries[i].locks)
  /\ entries' = [entries EXCEPT ![i].locks = LockAcquired(@)]

Release(i) ==
  /\ entries[i].locks # 0
  /\ entries' = [entries EXCEPT ![i].locks = LockReleased(@)]

Next ==
  \/ \E a, n \in 0 .. Capacity : Allocate(a, n)
  \/ Evict
  \/ \E i \in DOMAIN entries : Acquire(i) \/ Release(i)

Spec == Init /\ [][Next]_entries
=============================================================================
