------------------------------ MODULE HashTable ------------------------------
(***************************************************************************)
(* The robin-hood hash table of hashmap.c, as entry_hash_map.c uses it:    *)
(* open addressing, where a bucket remembers how far it is from home, an   *)
(* insertion takes the place of a bucket nearer to its home than it has    *)
(* come itself, a deletion shifts the buckets behind it back, and the      *)
(* table doubles and halves.                                               *)
(*                                                                         *)
(* The table stores hashes and POINTERS to entries.  A probe compares      *)
(* hashes first and then the keys, read through the pointers; a hash is    *)
(* computed once, when the entry is put, and never again.  The server      *)
(* rewrites keys under the table's pointers when it gives the place of an  *)
(* evicted entry away: Rewritable says of which entries.                   *)
(***************************************************************************)
EXTENDS Naturals, FiniteSets, FiniteSetsExt

CONSTANTS
  Item,        \* pointers to entries
  Key,
  NULL,
  FirstKey,    \* the key of every entry at first
  HashOf,      \* entry_hash of a key, cut to 48 bits by get_hash
  Rewritable,  \* the entries whose key the environment may change
  MinCap,      \* cap: 16, the number of buckets of a new table
  MaxCount,    \* bound: entries put
  MallocFails  \* {FALSE}, or BOOLEAN when malloc may fail

ASSUME HashTableAssumption ==
  /\ NULL \notin Item
  /\ FirstKey \in [Item -> Key]
  /\ HashOf \in [Key -> Nat]
  /\ Rewritable \subseteq Item
  /\ MinCap \in Nat \ {0, 1}
  /\ MaxCount \in Nat
  /\ MallocFails \in (SUBSET BOOLEAN) \ {{}}

VARIABLES
  buckets,    \* map->buckets, by index
  count,
  oom,
  key_bytes,  \* the key an entry's bytes spell now
  dropped     \* the item the last hashmap_set or hashmap_delete returned

vars == <<buckets, count, oom, key_bytes, dropped>>

-----------------------------------------------------------------------------
(* dib is the distance to the initial bucket plus one, 0 in a bucket that   *)
(* is empty.  It has 16 bits: runs of 65536 buckets are out of reach here.  *)
Bucket == [item : Item \union {NULL}, hash : Nat, dib : Nat]

Empty == [item |-> NULL, hash |-> 0, dib |-> 0]

(* hashmap_new_with_allocator *)
NewBuckets(n) == [i \in 0 .. n - 1 |-> Empty]

Size(b) == Cardinality(DOMAIN b)

Occupied(b) == {i \in DOMAIN b : b[i].dib # 0}

(* Two seeded slips, which a run must notice: the table fills up, and       *)
(* resize does not update growat.                                           *)
GrowAtFull(n) == n
GrowAtKept(n) == (MinCap * 3) \div 4

GrowAt(n) == (n * 3) \div 4

ShrinkAt(n) == n \div 10

(* The compare function on a bucket: equal hashes, and equal keys by now.   *)
Matches(here, hash, k) == here.hash = hash /\ key_bytes[here.item] = k

(* One round of the loop of hashmap_set: the end in an empty bucket, the    *)
(* replacement of an item, or a step to the next bucket, with what is the   *)
(* poorer of the two.  p is the loop's state.  The first is a seeded slip,  *)
(* which a run must notice: the displaced bucket is not carried on.         *)
SteppedForgetting(p, wins) ==
  LET here == p.buckets[p.i] IN
  [p EXCEPT !.buckets[p.i] = IF wins THEN p.entry ELSE here,
            !.entry.dib = @ + 1,
            !.i = (p.i + 1) % Size(p.buckets)]

Stepped(p, wins) ==
  LET here == p.buckets[p.i] IN
  [p EXCEPT !.buckets[p.i] = IF wins THEN p.entry ELSE here,
            !.entry = [(IF wins THEN here ELSE p.entry) EXCEPT !.dib = @ + 1],
            !.i = (p.i + 1) % Size(p.buckets)]

Wins(entry, here) == here.dib < entry.dib

(* resize's loop is the same without the replacement: compares is FALSE.    *)
Round(p, compares) ==
  LET here == p.buckets[p.i] IN
  IF p.ended THEN p
  ELSE IF here.dib = 0
  THEN [p EXCEPT !.buckets[p.i] = p.entry, !.ended = TRUE]
  ELSE IF compares /\ Matches(here, p.entry.hash, key_bytes[p.entry.item])
  THEN [p EXCEPT !.buckets[p.i].item = p.entry.item,
                 !.replaced = here.item, !.ended = TRUE]
  ELSE Stepped(p, Wins(p.entry, here))

(* A seeded slip: the index is taken modulo the mask. *)
StartModuloMask(b, hash) == hash % (Size(b) - 1)

Start(b, hash) == hash % Size(b)

(* The loop, by the number of its rounds.  It goes through the table once   *)
(* at most, for it ends in the first empty bucket: see ProbesEnd.           *)
Rounds(b, item, hash, compares) ==
  LET p[lap \in 0 .. Size(b)] ==
        IF lap = 0
        THEN [buckets |-> b, i |-> Start(b, hash), replaced |-> NULL,
              ended |-> FALSE,
              entry |-> [item |-> item, hash |-> hash, dib |-> 1]]
        ELSE Round(p[lap - 1], compares)
  IN  p

Inserted(b, item, hash, compares) == Rounds(b, item, hash, compares)[Size(b)]

(* resize, when malloc succeeds: the buckets from the first to the last go  *)
(* into a table of n.                                                       *)
Moves(b, n) ==
  LET new[j \in 0 .. Size(b)] ==
        IF j = 0 THEN NewBuckets(n)
        ELSE IF b[j - 1].dib = 0 THEN new[j - 1]
        ELSE Inserted(new[j - 1], b[j - 1].item, b[j - 1].hash, FALSE).buckets
  IN  new

Resized(b, n) == Moves(b, n)[Size(b)]

-----------------------------------------------------------------------------
(* The buckets at which the loops of hashmap_get and hashmap_delete stop,   *)
(* by their distance from home.                                             *)
Stops(k) ==
  LET n == Size(buckets) IN
  {d \in 0 .. n - 1 :
     LET here == buckets[(HashOf[k] + d) % n]
     IN  here.dib = 0 \/ Matches(here, HashOf[k], k)}

(* The index of the bucket a lookup of k finds, in a set of one or none.    *)
(* That a loop stops at all is ProbesEnd.                                   *)
Found(k) ==
  LET stops == Stops(k)
      i == (HashOf[k] + Min(stops)) % Size(buckets)
  IN  IF stops = {} \/ buckets[i].dib = 0 THEN {} ELSE {i}

(* hashmap_get *)
Get(k) ==
  LET found == Found(k)
  IN  IF found = {} THEN NULL ELSE buckets[CHOOSE i \in found : TRUE].item

(* Two seeded slips of the shift below: it does not happen, and it moves    *)
(* one bucket only.                                                         *)
EmptiedOnly(b, i) == [b EXCEPT ![i] = Empty]

ShiftedOne(b, i) ==
  LET n == Size(b)
      second == (i + 1) % n
  IN  IF b[second].dib <= 1 THEN [b EXCEPT ![i] = Empty]
      ELSE [b EXCEPT ![i] = [b[second] EXCEPT !.dib = @ - 1], ![second] = Empty]

(* The inner loop of hashmap_delete: the buckets behind i move back by one, *)
(* up to the first that is empty or at home.                                *)
ShiftedBack(b, i) ==
  LET n == Size(b)
      last == Min({d \in 1 .. n : d = n \/ b[(i + d) % n].dib <= 1}) - 1
  IN  [j \in DOMAIN b |->
         LET d == (j + n - i) % n IN
         IF d < last THEN [b[(j + 1) % n] EXCEPT !.dib = @ - 1]
         ELSE IF d = last THEN Empty
         ELSE b[j]]

-----------------------------------------------------------------------------
Init ==
  /\ buckets = NewBuckets(MinCap)
  /\ count = 0
  /\ oom = FALSE
  /\ key_bytes = FirstKey
  /\ dropped = NULL

(* hashmap_set of an entry, when its table is full and cannot grow, ...     *)
SetFails ==
  /\ count = GrowAt(Size(buckets))
  /\ TRUE \in MallocFails
  /\ oom' = TRUE
  /\ dropped' = NULL
  /\ UNCHANGED <<buckets, count, key_bytes>>

(* ... and otherwise.                                                       *)
Set(item) ==
  LET n == Size(buckets)
      room == IF count = GrowAt(n) THEN Resized(buckets, 2 * n) ELSE buckets
      p == Inserted(room, item, HashOf[key_bytes[item]], TRUE)
  IN  /\ count < MaxCount
      /\ count = GrowAt(n) => FALSE \in MallocFails
      /\ buckets' = p.buckets
      /\ count' = IF p.replaced = NULL THEN count + 1 ELSE count
      /\ oom' = FALSE
      /\ dropped' = p.replaced
      /\ UNCHANGED key_bytes

(* hashmap_delete.  A table that cannot shrink stays as it is.              *)
DeleteMiss(k) ==
  /\ Found(k) = {}
  /\ oom' = FALSE
  /\ dropped' = NULL
  /\ UNCHANGED <<buckets, count, key_bytes>>

DeleteHit(k) ==
  \E i \in Found(k), fails \in MallocFails :
    LET n == Size(buckets)
        shifted == ShiftedBack(buckets, i)
        shrinks == n > MinCap /\ count - 1 <= ShrinkAt(n)
    IN  /\ buckets' = IF shrinks /\ ~fails THEN Resized(shifted, n \div 2)
                      ELSE shifted
        /\ count' = count - 1
        /\ oom' = FALSE
        /\ dropped' = buckets[i].item
        /\ UNCHANGED key_bytes

(* The queue gave the place of an evicted entry to another, whose key has   *)
(* been received.                                                           *)
Rewrite(item, k) ==
  /\ item \in Rewritable
  /\ key_bytes' = [key_bytes EXCEPT ![item] = k]
  /\ UNCHANGED <<buckets, count, oom, dropped>>

Next ==
  \/ SetFails
  \/ \E item \in Item : Set(item)
  \/ \E k \in Key : DeleteMiss(k) \/ DeleteHit(k)
  \/ \E item \in Item, k \in Key : Rewrite(item, k)

Spec == Init /\ [][Next]_vars

-----------------------------------------------------------------------------
(* The sizes a table goes through, up to more of them than it needs.        *)
Doubled[k \in 0 .. MaxCount] ==
  IF k = 0 THEN MinCap ELSE 2 * Doubled[k - 1]

(* Every bucket keeps the types of its fields.  The table is a power of two *)
(* times its first size, and has grown only when entries filled three       *)
(* quarters of the half of it.                                              *)
TypeOK ==
  /\ \A i \in DOMAIN buckets : buckets[i] \in Bucket
  /\ buckets = [i \in 0 .. Size(buckets) - 1 |-> buckets[i]]
  /\ \E k \in 0 .. MaxCount : Size(buckets) = Doubled[k]
  /\ Size(buckets) = MinCap \/ 3 * Size(buckets) < 8 * MaxCount
  /\ count \in Nat /\ oom \in BOOLEAN
  /\ key_bytes \in [Item -> Key]
  /\ dropped \in Item \union {NULL}

(* Through displacements, backward shifts and resizes, also of a table      *)
(* whose keys change behind its back, a bucket is where its dib says, as    *)
(* far behind its home, and no bucket has come further than one step more   *)
(* than the bucket in front of it: so no empty bucket lies between a bucket *)
(* and its home, where every lookup would stop.                             *)
Placement ==
  LET n == Size(buckets) IN
  \A i \in Occupied(buckets) :
    /\ (i + 1 + n - (buckets[i].hash % n)) % n = buckets[i].dib % n
    /\ buckets[i].dib <= buckets[(i + n - 1) % n].dib + 1

(* The loops of hashmap_set, hashmap_get and hashmap_delete have no other   *)
(* end than an empty bucket: there always is one, because count is the      *)
(* number of occupied buckets and stays at or below the size to grow at.    *)
ProbesEnd ==
  /\ count = Cardinality(Occupied(buckets))
  /\ count < Size(buckets)

(* Whatever became of the keys of other entries, an entry that was just put *)
(* is the one a lookup of its key finds: not an older one whose bytes       *)
(* happen to spell the key, and not one displaced on the way.               *)
PutsAreFound ==
  [][\A item \in Item : Set(item) => Get(key_bytes[item])' = item]_vars

(* A key that is found stays found, whatever is put or deleted under other  *)
(* keys: also when a displaced entry, whose key has changed since, is the   *)
(* one that hashmap_set compares, and takes the place of an entry of another*)
(* key than the one that is put.                                            *)
KeysStayFound ==
  [][\A k \in Key : Get(k) # NULL /\ ~DeleteHit(k) /\ UNCHANGED key_bytes
       => Get(k)' # NULL]_vars

(* As long as no key changes, the table is a map: its lookups answer with   *)
(* the entry last put under the key, and every call returns the entry it    *)
(* takes out, and no other, which is the one entry_hash_map.c then makes    *)
(* inactive; a call that fails changes nothing.                             *)
Map == INSTANCE EntryMap WITH KeyOf <- FirstKey, failed <- oom,
                              map <- [k \in Key |-> Get(k)]

ImplementsMap == Map!Spec
=============================================================================
