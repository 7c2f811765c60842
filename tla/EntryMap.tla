------------------------------ MODULE EntryMap ------------------------------
(***************************************************************************)
(* What entry_hash_map.h promises: a map from keys to entries.  A put or a *)
(* delete tells which entry it takes out, and entry_hash_map.c makes that  *)
(* one inactive; a put may fail, and then changes nothing.                 *)
(***************************************************************************)
CONSTANTS
  Item,      \* pointers to entries
  Key,
  KeyOf,     \* the key of every entry
  NULL

VARIABLES
  map,       \* the entry stored under every key, or NULL
  dropped,   \* the entry the last call took out of the map, or NULL
  failed     \* the last call ran out of memory

Init == map = [k \in Key |-> NULL] /\ dropped = NULL /\ failed = FALSE

Put(i) ==
  /\ failed' = FALSE
  /\ dropped' = map[KeyOf[i]]
  /\ map' = [map EXCEPT ![KeyOf[i]] = i]

PutFails == failed' = TRUE /\ dropped' = NULL /\ UNCHANGED map

Delete(k) ==
  /\ failed' = FALSE
  /\ dropped' = map[k]
  /\ map' = [map EXCEPT ![k] = NULL]

Next == (\E i \in Item : Put(i)) \/ PutFails \/ (\E k \in Key : Delete(k))

Spec == Init /\ [][Next]_<<map, dropped, failed>>
=============================================================================
