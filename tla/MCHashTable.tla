---------------------------- MODULE MCHashTable ----------------------------
(***************************************************************************)
(* Instances of HashTable.  The hashes are chosen for a table of 4 buckets *)
(* to start with: two keys with one and the same hash, others with the     *)
(* same home in the small table only, and homes at the last bucket, so     *)
(* that runs go around the end of the table.                               *)
(***************************************************************************)
EXTENDS HashTable, TLC

CONSTANTS k1, k2, k3, k4, k5, k6, i1, i2, i3, i4, i5, i6, i7

Hashes == k1 :> 3 @@ k2 :> 3 @@ k3 :> 7 @@ k4 :> 15 @@ k5 :> 6 @@ k6 :> 4

(* One entry for each of six keys, and a second one for k1.               *)
OneKeyEach == i1 :> k1 @@ i2 :> k2 @@ i3 :> k3 @@ i4 :> k4 @@ i5 :> k5
                @@ i6 :> k6 @@ i7 :> k1

FourHashes == k1 :> 3 @@ k2 :> 3 @@ k3 :> 7 @@ k4 :> 0

FourEntries == i1 :> k1 @@ i2 :> k2 @@ i3 :> k3 @@ i4 :> k4
=============================================================================
