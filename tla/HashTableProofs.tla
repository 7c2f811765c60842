-------------------------- MODULE HashTableProofs --------------------------
(***************************************************************************)
(* Proofs about the robin-hood hash table, for every set of entries and    *)
(* keys, every hash function, every first size and any number of entries.  *)
(*                                                                         *)
(* A table b of n buckets is Placed when every bucket is as far behind its *)
(* home as its dib says and none has come further than a step more than    *)
(* the one in front of it.  Each loop of the code keeps that: the rounds   *)
(* of an insertion (Progress), the moves of a resize (MovedTo), the shift  *)
(* of a deletion (Shifted).  A placed table with an empty bucket finds     *)
(* what it holds (HeldIsFound), so what the calls do to lookups follows    *)
(* from what the loops do to the pairs of hash and pointer in the table    *)
(* (Holds): they lose nothing and double nothing.  The loops are recursive *)
(* functions; each is unfolded once (RoundsUnfold, MovesUnfold, Doubles)   *)
(* and followed by induction over the number of its rounds.                *)
(***************************************************************************)
EXTENDS HashTable, NaturalLemmas, FiniteSetTheorems, TLAPS

-----------------------------------------------------------------------------
(* Going round a table of n buckets: the bucket d steps behind the home of  *)
(* h, and the neighbours of bucket i.                                       *)

Place(h, d, n) == Rem(h + d, n)
Following(i, n) == IF i + 1 = n THEN 0 ELSE i + 1
Preceding(i, n) == IF i = 0 THEN n - 1 ELSE i - 1

LEMMA Neighbours ==
  ASSUME NEW n \in Nat, n > 1, NEW i \in 0 .. n - 1
  PROVE  /\ Following(i, n) \in 0 .. n - 1 /\ Preceding(i, n) \in 0 .. n - 1
         /\ Following(Preceding(i, n), n) = i
         /\ Preceding(Following(i, n), n) = i
         /\ Following(i, n) # i /\ Preceding(i, n) # i
         /\ Rem(i + 1, n) = Following(i, n)
         /\ Rem(i + n - 1, n) = Preceding(i, n)
<1>1. Rem(i + 1, n) = Following(i, n)
  <2>1. i + 1 \in Nat /\ (i + 1 < n \/ i + 1 = n) /\ n < 2 * n
    OBVIOUS
  <2> QED
    BY <2>1, SmallRemainder DEF Following
<1>2. Rem(i + n - 1, n) = Preceding(i, n)
  <2>1. CASE i = 0
    <3>1. i + n - 1 \in Nat /\ i + n - 1 < n /\ i + n - 1 = n - 1
      BY <2>1
    <3> QED
      BY <2>1, <3>1, SmallRemainder DEF Preceding
  <2>2. CASE i # 0
    <3>1. /\ i + n - 1 \in Nat /\ n <= i + n - 1 /\ i + n - 1 < 2 * n
          /\ (i + n - 1) - n = i - 1
      BY <2>2
    <3> QED
      BY <2>2, <3>1, SmallRemainder DEF Preceding
  <2> QED
    BY <2>1, <2>2
<1>3. /\ Following(i, n) \in 0 .. n - 1 /\ Preceding(i, n) \in 0 .. n - 1
      /\ Following(Preceding(i, n), n) = i
      /\ Preceding(Following(i, n), n) = i
      /\ Following(i, n) # i /\ Preceding(i, n) # i
  BY DEF Following, Preceding
<1> QED
  BY <1>1, <1>2, <1>3

LEMMA Places ==
  ASSUME NEW n \in Nat, n > 1, NEW h \in Nat, NEW d \in Nat
  PROVE  /\ Place(h, d, n) \in 0 .. n - 1
         /\ Place(h, d + 1, n) = Following(Place(h, d, n), n)
         /\ Place(h, 0, n) = Rem(h, n)
<1>1. h + d \in Nat /\ h + (d + 1) = (h + d) + 1 /\ h + 0 = h /\ n # 0
  OBVIOUS
<1>2. Rem(h + d, n) \in 0 .. n - 1
  BY <1>1, Division
<1>3. Rem((h + d) + 1, n) = Rem(Rem(h + d, n) + 1, n)
  BY <1>1, RemainderOfSum
<1>4. Rem(Rem(h + d, n) + 1, n) = Following(Rem(h + d, n), n)
  BY <1>2, Neighbours
<1> QED
  BY <1>1, <1>2, <1>3, <1>4 DEF Place

(* A distance below n, counted from the home. *)
LEMMA PlaceFromHome ==
  ASSUME NEW n \in Nat, n > 1, NEW h \in Nat, NEW d \in 0 .. n - 1
  PROVE  /\ Rem(h, n) \in 0 .. n - 1
         /\ Place(h, d, n) = IF Rem(h, n) + d < n THEN Rem(h, n) + d
                             ELSE Rem(h, n) + d - n
<1> DEFINE r == Rem(h, n)
<1>1. r \in 0 .. n - 1
  BY Division
<1>2. Place(h, d, n) = Rem(r + d, n)
  BY RemainderOfSum DEF Place
<1> HIDE DEF r
<1>3. PICK t \in Nat : t = r + d /\ t < 2 * n
  BY <1>1
<1>4. (Rem(t, n) = IF t < n THEN t ELSE t - n)
  <2>1. CASE t < n
    BY <2>1, SmallRemainder
  <2>2. CASE n <= t
    BY <1>3, <2>2, SmallRemainder
  <2> QED
    BY <2>1, <2>2
<1> QED
  BY <1>1, <1>2, <1>3, <1>4 DEF r

(* Every bucket is at one distance from a home. *)
LEMMA PlaceReaches ==
  ASSUME NEW n \in Nat, n > 1, NEW h \in Nat, NEW i \in 0 .. n - 1
  PROVE  \E d \in 0 .. n - 1 : Place(h, d, n) = i
<1> DEFINE r == Rem(h, n)
           d == IF r <= i THEN i - r ELSE i + n - r
<1>1. r \in 0 .. n - 1
  BY Division
<1>2. d \in 0 .. n - 1 /\ i = IF r + d < n THEN r + d ELSE r + d - n
  <2> HIDE DEF r
  <2> QED
    BY <1>1
<1>3. Place(h, d, n) = i
  <2> HIDE DEF d
  <2> QED
    BY <1>2, PlaceFromHome
<1> QED
  BY <1>2, <1>3

LEMMA PlaceIsOneToOne ==
  ASSUME NEW n \in Nat, n > 1, NEW h \in Nat,
         NEW d \in 0 .. n - 1, NEW e \in 0 .. n - 1,
         Place(h, d, n) = Place(h, e, n)
  PROVE  d = e
<1> DEFINE r == Rem(h, n)
           At(x) == IF r + x < n THEN r + x ELSE r + x - n
<1>1. r \in 0 .. n - 1 /\ At(d) = At(e)
  BY PlaceFromHome
<1> HIDE DEF r
<1>2. CASE r + d < n
  BY <1>1, <1>2
<1>3. CASE ~(r + d < n)
  BY <1>1, <1>3
<1> QED
  BY <1>2, <1>3

(* What Placement says of a bucket d steps behind the home of its hash.     *)
LEMMA PlaceAgrees ==
  ASSUME NEW n \in Nat, n > 1, NEW h \in Nat, NEW d \in Nat, NEW i,
         i = Place(h, d, n)
  PROVE  Rem(i + 1 + n - Rem(h, n), n) = Rem(d + 1, n)
<1> DEFINE r == Rem(h, n)
           s == Rem(d, n)
<1>1. r \in 0 .. n - 1 /\ s \in 0 .. n - 1
  BY Division
<1>2. i = IF r + s < n THEN r + s ELSE r + s - n
  <2>1. d + h \in Nat /\ d + h = h + d
    OBVIOUS
  <2>2. Rem(d + h, n) = Rem(s + h, n)
    BY RemainderOfSum
  <2>3. s + h = h + s
    BY <1>1
  <2>4. i = Place(h, s, n)
    BY <2>1, <2>2, <2>3 DEF Place
  <2> HIDE DEF s
  <2> QED
    BY <1>1, <2>4, PlaceFromHome
<1>3. Rem(d + 1, n) = Rem(s + 1, n)
  BY RemainderOfSum
<1>4. Rem(s + 1, n) = Rem(n + (s + 1), n)
  <2> HIDE DEF s
  <2>1. Rem(n, n) = 0
    <3>1. n < 2 * n /\ n - n = 0
      OBVIOUS
    <3> QED
      BY <3>1, SmallRemainder
  <2>2. PICK t \in Nat : t = s + 1
    BY <1>1
  <2>3. Rem(n + t, n) = Rem(Rem(n, n) + t, n)
    BY RemainderOfSum
  <2>4. 0 + t = t
    OBVIOUS
  <2> QED
    BY <2>1, <2>2, <2>3, <2>4
<1>5. i + 1 + n - r = s + 1 \/ i + 1 + n - r = n + (s + 1)
  <2> HIDE DEF r, s
  <2> QED
    BY <1>1, <1>2
<1> HIDE DEF s
<1> QED
  BY <1>3, <1>4, <1>5 DEF r

(* The distance from bucket i on to bucket j, as ShiftedBack computes it.   *)
LEMMA Distance ==
  ASSUME NEW n \in Nat, n > 1, NEW i \in 0 .. n - 1, NEW j \in 0 .. n - 1
  PROVE  Rem(j + n - i, n) \in 0 .. n - 1 /\ Place(i, Rem(j + n - i, n), n) = j
<1> DEFINE d == IF j < i THEN j + n - i ELSE j - i
<1>1. d \in 0 .. n - 1
  OBVIOUS
<1>2. Rem(j + n - i, n) = d
  <2>1. PICK t \in Nat : t = j + n - i
    OBVIOUS
  <2>2. CASE j < i
    <3>1. t < n
      BY <2>1, <2>2
    <3> QED
      BY <2>1, <2>2, <3>1, SmallRemainder
  <2>3. CASE ~(j < i)
    <3>1. n <= t /\ t < 2 * n /\ t - n = j - i
      BY <2>1, <2>3
    <3> QED
      BY <2>1, <2>3, <3>1, SmallRemainder
  <2> QED
    BY <2>2, <2>3
<1>3. Rem(i, n) = i
  BY SmallRemainder
<1>4. j = IF i + d < n THEN i + d ELSE i + d - n
  OBVIOUS
<1>5. Place(i, d, n) = j
  <2> HIDE DEF d
  <2>1. Place(i, d, n) = IF Rem(i, n) + d < n THEN Rem(i, n) + d
                         ELSE Rem(i, n) + d - n
    BY <1>1, PlaceFromHome
  <2> QED
    BY <1>3, <1>4, <2>1
<1> QED
  BY <1>1, <1>2, <1>5

-----------------------------------------------------------------------------
(* Tables of n buckets. *)

Table(b, n) ==
  /\ b \in [0 .. n - 1 -> Bucket]
  /\ \A i \in 0 .. n - 1 : b[i].dib # 0 => b[i].item \in Item

Vacant(b, n) == \E i \in 0 .. n - 1 : b[i].dib = 0

(* Bucket i is as far behind the home of a hash as its dib says.            *)
At(i, hash, dib, n) == \E d \in Nat : dib = d + 1 /\ i = Place(hash, d, n)

(* Placement, of any table.                                                 *)
Placed(b, n) ==
  \A i \in 0 .. n - 1 :
    /\ b[i].dib # 0 => At(i, b[i].hash, b[i].dib, n)
    /\ b[Following(i, n)].dib <= b[i].dib + 1

LEMMA SizeOf ==
  ASSUME NEW n \in Nat, NEW b, DOMAIN b = 0 .. n - 1
  PROVE  Size(b) = n
<1>1. Cardinality(0 .. n - 1) = IF 0 > n - 1 THEN 0 ELSE (n - 1) - 0 + 1
  BY FS_Interval
<1>2. (IF 0 > n - 1 THEN 0 ELSE (n - 1) - 0 + 1) = n
  OBVIOUS
<1> QED
  BY <1>1, <1>2 DEF Size

LEMMA TableFacts ==
  ASSUME NEW n \in Nat, NEW b, Table(b, n)
  PROVE  /\ DOMAIN b = 0 .. n - 1 /\ Size(b) = n
         /\ Occupied(b) = {i \in 0 .. n - 1 : b[i].dib # 0}
         /\ IsFiniteSet(Occupied(b)) /\ Cardinality(Occupied(b)) \in 0 .. n
         /\ \A i \in 0 .. n - 1 : /\ b[i] \in Bucket /\ b[i].dib \in Nat
                                  /\ b[i].hash \in Nat
<1>1. DOMAIN b = 0 .. n - 1
  BY DEF Table
<1>2. Size(b) = n
  BY <1>1, SizeOf
<1>3. Occupied(b) = {i \in 0 .. n - 1 : b[i].dib # 0}
  BY <1>1 DEF Occupied
<1>4. IsFiniteSet(0 .. n - 1) /\ Cardinality(0 .. n - 1) = n
  BY <1>1, <1>2, FS_Interval DEF Size
<1>5. IsFiniteSet(Occupied(b)) /\ Cardinality(Occupied(b)) <= n
  BY <1>3, <1>4, FS_Subset
<1>6. Cardinality(Occupied(b)) \in Nat
  BY <1>5, FS_CardinalityType
<1>7. \A i \in 0 .. n - 1 : /\ b[i] \in Bucket /\ b[i].dib \in Nat
                            /\ b[i].hash \in Nat
  BY DEF Table, Bucket
<1> QED
  BY <1>1, <1>2, <1>3, <1>5, <1>6, <1>7

LEMMA FewerLeaveVacancy ==
  ASSUME NEW n \in Nat, NEW b, Table(b, n), Cardinality(Occupied(b)) < n
  PROVE  Vacant(b, n)
<1> SUFFICES ASSUME ~Vacant(b, n) PROVE FALSE
  OBVIOUS
<1>1. Occupied(b) = DOMAIN b
  BY TableFacts DEF Vacant
<1> QED
  BY <1>1, TableFacts DEF Size

(* No empty bucket lies between a bucket and its home, and each bucket of   *)
(* the run has come at least as far as a lookup has that gets there.        *)
LEMMA Run ==
  ASSUME NEW n \in Nat, n > 1, NEW b, Table(b, n), Placed(b, n),
         NEW hash \in Nat, NEW d \in Nat, b[Place(hash, d, n)].dib >= d + 1
  PROVE  \A e \in 0 .. d : b[Place(hash, e, n)].dib >= e + 1
<1> DEFINE Back == {s \in Nat :
                      s <= d => b[Place(hash, d - s, n)].dib >= (d - s) + 1}
<1>1. 0 \in Back
  <2>1. d - 0 = d
    OBVIOUS
  <2> QED
    BY <2>1
<1>2. ASSUME NEW s \in Nat, s \in Back PROVE s + 1 \in Back
  <2> SUFFICES ASSUME s + 1 <= d
               PROVE  b[Place(hash, d - (s + 1), n)].dib >= (d - (s + 1)) + 1
    OBVIOUS
  <2>1. PICK e \in Nat : e = d - (s + 1)
    OBVIOUS
  <2>2. d - s = e + 1
    BY <2>1
  <2>3. /\ Place(hash, e, n) \in 0 .. n - 1
        /\ Place(hash, e + 1, n) = Following(Place(hash, e, n), n)
        /\ Following(Place(hash, e, n), n) \in 0 .. n - 1
    <3>1. /\ Place(hash, e, n) \in 0 .. n - 1
          /\ Place(hash, e + 1, n) = Following(Place(hash, e, n), n)
      BY Places
    <3>2. Following(Place(hash, e, n), n) \in 0 .. n - 1
      BY <3>1, Neighbours
    <3> QED
      BY <3>1, <3>2
  <2>4. b[Place(hash, e + 1, n)].dib <= b[Place(hash, e, n)].dib + 1
    BY <2>3 DEF Placed
  <2>5. /\ b[Place(hash, e, n)].dib \in Nat
        /\ b[Place(hash, e + 1, n)].dib \in Nat
        /\ b[Place(hash, e + 1, n)].dib >= (e + 1) + 1
    <3>1. \A i \in 0 .. n - 1 : b[i].dib \in Nat
      BY TableFacts
    <3>2. s <= d
      OBVIOUS
    <3>3. b[Place(hash, d - s, n)].dib >= (d - s) + 1
      BY <1>2, <3>2
    <3> QED
      BY <2>2, <2>3, <3>1, <3>3
  <2> QED
    BY <2>1, <2>4, <2>5
<1> HIDE DEF Back
<1>3. \A s \in Nat : s \in Back
  BY <1>1, <1>2, SetInduction
<1>4. ASSUME NEW e \in 0 .. d PROVE b[Place(hash, e, n)].dib >= e + 1
  <2>1. d - e \in Nat /\ d - e <= d /\ d - (d - e) = e
    OBVIOUS
  <2>2. d - e \in Back
    BY <1>3, <2>1
  <2> QED
    BY <2>1, <2>2 DEF Back
<1> QED
  BY <1>4

LEMMA RunIsShort ==
  ASSUME NEW n \in Nat, n > 1, NEW b, Table(b, n), Placed(b, n), Vacant(b, n),
         NEW hash \in Nat, NEW d \in Nat, b[Place(hash, d, n)].dib >= d + 1
  PROVE  d < n
<1>1. PICK i \in 0 .. n - 1 : b[i].dib = 0
  BY DEF Vacant
<1>2. PICK e \in 0 .. n - 1 : Place(hash, e, n) = i
  BY PlaceReaches
<1>3. CASE d < n
  BY <1>3
<1>4. CASE ~(d < n)
  <2>1. e \in 0 .. d
    BY <1>4
  <2>2. 0 >= e + 1
    BY <1>1, <1>2, <2>1, Run
  <2> QED
    BY <2>2
<1> QED
  BY <1>3, <1>4

-----------------------------------------------------------------------------
(* The loop of an insertion. *)

(* The rounds are the function their definition means.                      *)
LEMMA RoundsUnfold ==
  ASSUME NEW b, Size(b) \in Nat, NEW item, NEW hash, NEW compares
  PROVE  /\ Rounds(b, item, hash, compares)[0] =
              [buckets |-> b, i |-> Start(b, hash), replaced |-> NULL,
               ended |-> FALSE,
               entry |-> [item |-> item, hash |-> hash, dib |-> 1]]
         /\ \A lap \in 1 .. Size(b) :
              Rounds(b, item, hash, compares)[lap] =
                Round(Rounds(b, item, hash, compares)[lap - 1], compares)
<1> DEFINE first == [buckets |-> b, i |-> Start(b, hash), replaced |-> NULL,
                     ended |-> FALSE,
                     entry |-> [item |-> item, hash |-> hash, dib |-> 1]]
           Unfolds(p, m) ==
             p = [lap \in 0 .. m |->
                    IF lap = 0 THEN first ELSE Round(p[lap - 1], compares)]
           Good == {m \in Nat : \E p : Unfolds(p, m)}
           all == Rounds(b, item, hash, compares)
<1>1. all = CHOOSE p : Unfolds(p, Size(b))
  BY DEF Rounds
<1> HIDE DEF first
<1>2. 0 \in Good
  <2>1. Unfolds([lap \in 0 .. 0 |-> first], 0)
    OBVIOUS
  <2> HIDE DEF Unfolds
  <2> QED
    BY <2>1
<1>3. ASSUME NEW m \in Nat, m \in Good PROVE m + 1 \in Good
  <2>1. PICK p : Unfolds(p, m)
    BY <1>3
  <2> DEFINE next == [lap \in 0 .. m + 1 |->
                        IF lap = m + 1 THEN Round(p[m], compares) ELSE p[lap]]
  <2>2. ASSUME NEW lap \in 0 .. m + 1
        PROVE  next[lap] =
                 IF lap = 0 THEN first ELSE Round(next[lap - 1], compares)
    BY <2>1
  <2>3. Unfolds(next, m + 1)
    BY <2>2
  <2> HIDE DEF next, Unfolds
  <2> QED
    BY <2>3
<1>4. Size(b) \in Good
  <2> HIDE DEF Good
  <2> QED
    BY <1>2, <1>3, SetInduction
<1>5. Unfolds(all, Size(b))
  <2> HIDE DEF Unfolds, all
  <2> QED
    BY <1>1, <1>4
<1> HIDE DEF all
<1>6. /\ all[0] = first
      /\ \A lap \in 1 .. Size(b) : all[lap] = Round(all[lap - 1], compares)
  BY <1>5
<1> QED
  BY <1>6 DEF all, first

(* The state of the loop in a table of n, and the four things a round does. *)
Loop(n) ==
  [buckets : [0 .. n - 1 -> Bucket], i : 0 .. n - 1,
   replaced : Item \union {NULL}, ended : BOOLEAN, entry : Bucket]

Meets(p) == Matches(p.buckets[p.i], p.entry.hash, key_bytes[p.entry.item])

Put(b, i, e) == [b EXCEPT ![i] = e]

Fills(p, q) ==
  /\ p.buckets[p.i].dib = 0
  /\ q.buckets = Put(p.buckets, p.i, p.entry)
  /\ q.ended /\ q.replaced = p.replaced

Replaces(p, q) ==
  /\ p.buckets[p.i].dib # 0 /\ Meets(p)
  /\ q.buckets = Put(p.buckets, p.i,
                     [p.buckets[p.i] EXCEPT !.item = p.entry.item])
  /\ q.ended /\ q.replaced = p.buckets[p.i].item

Displaces(p, q) ==
  /\ p.buckets[p.i].dib # 0 /\ p.buckets[p.i].dib < p.entry.dib
  /\ q.buckets = Put(p.buckets, p.i, p.entry)
  /\ q.entry = [p.buckets[p.i] EXCEPT !.dib = @ + 1]
  /\ ~q.ended /\ q.replaced = p.replaced

GoesOn(p, q) ==
  /\ p.buckets[p.i].dib # 0 /\ p.entry.dib <= p.buckets[p.i].dib
  /\ q.buckets = p.buckets
  /\ q.entry = [p.entry EXCEPT !.dib = @ + 1]
  /\ ~q.ended /\ q.replaced = p.replaced

LEMMA Further ==
  ASSUME NEW e \in Bucket
  PROVE  /\ [e EXCEPT !.dib = @ + 1] =
              [item |-> e.item, hash |-> e.hash, dib |-> e.dib + 1]
         /\ [e EXCEPT !.dib = @ + 1] \in Bucket
<1>1. e = [item |-> e.item, hash |-> e.hash, dib |-> e.dib]
  BY DEF Bucket
<1>2. [e EXCEPT !.dib = @ + 1] =
        [item |-> e.item, hash |-> e.hash, dib |-> e.dib + 1]
  BY <1>1
<1>3. e.item \in Item \union {NULL} /\ e.hash \in Nat /\ e.dib + 1 \in Nat
  BY DEF Bucket
<1>4. [item |-> e.item, hash |-> e.hash, dib |-> e.dib + 1] \in Bucket
  BY <1>3 DEF Bucket
<1> QED
  BY <1>2, <1>4

LEMMA RoundFacts ==
  ASSUME NEW n \in Nat, n > 1, NEW p \in Loop(n), NEW compares \in BOOLEAN,
         Table(p.buckets, n), ~p.ended,
         NEW q, q = Round(p, compares)
  PROVE  /\ q \in Loop(n)
         /\ \/ Fills(p, q)
            \/ compares /\ Replaces(p, q)
            \/ /\ Displaces(p, q) \/ GoesOn(p, q)
               /\ q.i = Following(p.i, n) /\ ~(compares /\ Meets(p))
<1> DEFINE here == p.buckets[p.i]
<1>1. /\ p.i \in 0 .. n - 1 /\ p.buckets \in [0 .. n - 1 -> Bucket]
      /\ p.entry \in Bucket /\ here \in Bucket
      /\ p.replaced \in Item \union {NULL}
      /\ DOMAIN p = {"buckets", "i", "replaced", "ended", "entry"}
  BY DEF Loop
<1>2. here.dib \in Nat /\ p.entry.dib \in Nat
  BY <1>1 DEF Bucket
<1>3. Size(p.buckets) = n /\ Following(p.i, n) = ((p.i + 1) % n)
      /\ Following(p.i, n) \in 0 .. n - 1
  BY <1>1, TableFacts, Neighbours DEF Rem
<1> DEFINE With(b, i, replaced, ended, entry) ==
             [buckets |-> b, i |-> i, replaced |-> replaced,
              ended |-> ended, entry |-> entry]
<1>4. p = With(p.buckets, p.i, p.replaced, p.ended, p.entry)
  BY DEF Loop
<1>5. ASSUME NEW e \in Bucket
      PROVE  [p.buckets EXCEPT ![p.i] = e] \in [0 .. n - 1 -> Bucket]
  BY <1>1
<1>6. CASE here.dib = 0
  <2> DEFINE b == [p.buckets EXCEPT ![p.i] = p.entry]
  <2>1. q = [p EXCEPT !.buckets[p.i] = p.entry, !.ended = TRUE]
    BY <1>6 DEF Round
  <2>2. q = With(b, p.i, p.replaced, TRUE, p.entry)
    BY <1>4, <2>1
  <2>3. b \in [0 .. n - 1 -> Bucket]
    BY <1>1, <1>5
  <2>4. Fills(p, q)
    BY <1>6, <2>2 DEF Fills, Put
  <2> HIDE DEF b
  <2>5. q \in Loop(n)
    BY <1>1, <2>2, <2>3 DEF Loop
  <2> QED
    BY <2>4, <2>5
<1>7. CASE here.dib # 0 /\ compares /\ Meets(p)
  <2> DEFINE e == [here EXCEPT !.item = p.entry.item]
             b == [p.buckets EXCEPT ![p.i] = e]
  <2>1. q = [p EXCEPT !.buckets[p.i].item = p.entry.item,
                      !.replaced = here.item, !.ended = TRUE]
    BY <1>7 DEF Round, Meets
  <2>2. q = With(b, p.i, here.item, TRUE, p.entry)
    BY <1>4, <2>1
  <2>3. here.item \in Item
    BY <1>1, <1>7 DEF Table
  <2>4. e \in Bucket
    BY <1>1 DEF Bucket
  <2>5. b \in [0 .. n - 1 -> Bucket]
    BY <1>5, <2>4
  <2> HIDE DEF b
  <2>6. q.buckets = b /\ q.ended = TRUE /\ q.replaced = here.item
    BY <2>2
  <2>7. Replaces(p, q)
    BY <1>7, <2>6 DEF Replaces, Put, b
  <2>8. q \in Loop(n)
    BY <1>1, <2>2, <2>3, <2>5 DEF Loop
  <2> QED
    BY <1>7, <2>7, <2>8
<1>8. CASE here.dib # 0 /\ ~(compares /\ Meets(p))
  <2> DEFINE next == Following(p.i, n)
  <2>1. q = Stepped(p, Wins(p.entry, here))
    BY <1>8 DEF Round, Meets
  <2>2. CASE here.dib < p.entry.dib
    <3> DEFINE b == [p.buckets EXCEPT ![p.i] = p.entry]
               e == [here EXCEPT !.dib = @ + 1]
    <3>1. q = [p EXCEPT !.buckets[p.i] = p.entry, !.entry = e, !.i = next]
      BY <1>3, <2>1, <2>2 DEF Stepped, Wins
    <3>2. q = With(b, next, p.replaced, p.ended, e)
      BY <1>4, <3>1
    <3>3. e \in Bucket
      BY <1>1, Further
    <3>4. b \in [0 .. n - 1 -> Bucket]
      BY <1>1, <1>5
    <3>5. Displaces(p, q) /\ q.i = next
      BY <1>8, <2>2, <3>2 DEF Displaces, Put
    <3> HIDE DEF b, e, next
    <3>6. q \in Loop(n)
      BY <1>1, <1>3, <3>2, <3>3, <3>4 DEF Loop, next
    <3> QED
      BY <1>8, <3>5, <3>6 DEF next
  <2>3. CASE ~(here.dib < p.entry.dib)
    <3> DEFINE e == [p.entry EXCEPT !.dib = @ + 1]
    <3>1. q = [p EXCEPT !.buckets[p.i] = here, !.entry = e, !.i = next]
      BY <1>3, <2>1, <2>3 DEF Stepped, Wins
    <3>2. [p.buckets EXCEPT ![p.i] = here] = p.buckets
      BY <1>1
    <3>3. q = With(p.buckets, next, p.replaced, p.ended, e)
      BY <1>4, <3>1, <3>2
    <3>4. e \in Bucket
      BY <1>1, Further
    <3>5. p.entry.dib <= here.dib
      BY <1>2, <2>3
    <3>6. GoesOn(p, q) /\ q.i = next
      BY <1>8, <3>3, <3>5 DEF GoesOn
    <3> HIDE DEF e, next
    <3>7. q \in Loop(n)
      BY <1>1, <1>3, <3>3, <3>4 DEF Loop, next
    <3> QED
      BY <1>8, <3>6, <3>7 DEF next
  <2> QED
    BY <2>2, <2>3
<1> QED
  BY <1>6, <1>7, <1>8

(* What the loop carries belongs where it is, and would leave no gap there. *)
Carries(p, n) ==
  /\ p.entry.item \in Item
  /\ At(p.i, p.entry.hash, p.entry.dib, n)
  /\ p.entry.dib <= p.buckets[Preceding(p.i, n)].dib + 1

(* A bucket that is put where it belongs, over a bucket nearer to its home. *)
LEMMA PutStaysPlaced ==
  ASSUME NEW n \in Nat, n > 1, NEW b, Table(b, n), Placed(b, n),
         NEW i \in 0 .. n - 1, NEW e \in Bucket, e.item \in Item,
         At(i, e.hash, e.dib, n), b[i].dib <= e.dib,
         e.dib <= b[Preceding(i, n)].dib + 1
  PROVE  /\ Table(Put(b, i, e), n) /\ Placed(Put(b, i, e), n)
         /\ Put(b, i, e)[i] = e /\ e.dib # 0
         /\ \A j \in 0 .. n - 1 : j # i => Put(b, i, e)[j] = b[j]
<1> DEFINE c == Put(b, i, e)
<1>1. /\ c[i] = e /\ \A j \in 0 .. n - 1 : j # i => c[j] = b[j]
      /\ c \in [0 .. n - 1 -> Bucket]
  BY DEF Table, Put
<1> HIDE DEF c
<1>2. e.dib \in Nat /\ e.dib # 0
  BY DEF Bucket, At
<1>3. Table(c, n)
  BY <1>1 DEF Table
<1>4. ASSUME NEW j \in 0 .. n - 1
      PROVE  /\ c[j].dib # 0 => At(j, c[j].hash, c[j].dib, n)
             /\ c[Following(j, n)].dib <= c[j].dib + 1
  <2>1. c[j].dib # 0 => At(j, c[j].hash, c[j].dib, n)
    BY <1>1 DEF Placed
  <2>2. /\ Following(j, n) \in 0 .. n - 1 /\ Following(j, n) # j
        /\ Preceding(Following(j, n), n) = j
    BY Neighbours
  <2>3. b[Following(j, n)].dib <= b[j].dib + 1
    BY DEF Placed
  <2>4. b[Following(j, n)].dib \in Nat /\ b[j].dib \in Nat
    BY <2>2, TableFacts
  <2>5. c[Following(j, n)].dib <= c[j].dib + 1
    <3>1. CASE j = i
      <4>1. c[j] = e /\ c[Following(j, n)] = b[Following(j, n)]
        BY <1>1, <2>2, <3>1
      <4> QED
        BY <1>2, <2>3, <2>4, <3>1, <4>1
    <3>2. CASE Following(j, n) = i
      <4>1. c[j] = b[j] /\ c[Following(j, n)] = e
        BY <1>1, <2>2, <3>2
      <4> QED
        BY <2>2, <3>2, <4>1
    <3>3. CASE j # i /\ Following(j, n) # i
      BY <1>1, <2>2, <2>3, <3>3
    <3> QED
      BY <3>1, <3>2, <3>3
  <2> QED
    BY <2>1, <2>5
<1> QED
  BY <1>1, <1>2, <1>3, <1>4 DEF Placed, c

SameVacancies(b, c, n) == \A i \in 0 .. n - 1 : c[i].dib = 0 <=> b[i].dib = 0

OneTaken(b, c, n) ==
  \E z \in 0 .. n - 1 :
    b[z].dib = 0 /\ \A i \in 0 .. n - 1 : c[i].dib = 0 <=> b[i].dib = 0 /\ i # z

(* The loop's invariant.  As long as it runs, it has met occupied buckets   *)
(* only, and as many of them as there were rounds.                          *)
Progress(b, p, hash, compares, lap, n) ==
  /\ p \in Loop(n) /\ Table(p.buckets, n) /\ Placed(p.buckets, n)
  /\ ~p.ended => /\ Carries(p, n) /\ p.i = Place(hash, lap, n)
                 /\ p.replaced = NULL /\ SameVacancies(b, p.buckets, n)
                 /\ \A e \in 0 .. lap - 1 : b[Place(hash, e, n)].dib # 0
  /\ p.ended => \/ p.replaced = NULL /\ OneTaken(b, p.buckets, n)
                \/ /\ compares /\ p.replaced \in Item
                   /\ SameVacancies(b, p.buckets, n)

LEMMA RoundProgress ==
  ASSUME NEW n \in Nat, n > 1, NEW b, NEW p, NEW hash \in Nat, NEW lap \in Nat,
         NEW compares \in BOOLEAN,
         Progress(b, p, hash, compares, lap, n),
         NEW q, q = Round(p, compares)
  PROVE  Progress(b, q, hash, compares, lap + 1, n)
<1> DEFINE here == p.buckets[p.i]
<1>1. CASE p.ended
  BY <1>1 DEF Progress, Round
<1>2. CASE ~p.ended
  <2>1. /\ p \in Loop(n) /\ Table(p.buckets, n) /\ Placed(p.buckets, n)
        /\ Carries(p, n) /\ p.i = Place(hash, lap, n) /\ p.replaced = NULL
        /\ SameVacancies(b, p.buckets, n)
        /\ \A e \in 0 .. lap - 1 : b[Place(hash, e, n)].dib # 0
    BY <1>2 DEF Progress
  <2>2. /\ p.i \in 0 .. n - 1 /\ p.entry \in Bucket /\ p.entry.item \in Item
        /\ At(p.i, p.entry.hash, p.entry.dib, n)
        /\ p.entry.dib <= p.buckets[Preceding(p.i, n)].dib + 1
        /\ p.entry.dib \in Nat /\ p.entry.hash \in Nat
    BY <2>1 DEF Loop, Carries, Bucket
  <2>3. here \in Bucket /\ here.dib \in Nat /\ here.hash \in Nat
    BY <2>1, <2>2, TableFacts
  <2>4. /\ Following(p.i, n) \in 0 .. n - 1
        /\ Preceding(Following(p.i, n), n) = p.i
        /\ Following(Preceding(p.i, n), n) = p.i
        /\ Preceding(p.i, n) \in 0 .. n - 1
        /\ Following(p.i, n) = Place(hash, lap + 1, n)
    <3>1. Place(hash, lap + 1, n) = Following(Place(hash, lap, n), n)
      BY Places
    <3> QED
      BY <2>1, <2>2, <3>1, Neighbours
  <2>5. here.dib # 0 => here.item \in Item /\ At(p.i, here.hash, here.dib, n)
    BY <2>1, <2>2 DEF Table, Placed
  <2>6. here.dib <= p.buckets[Preceding(p.i, n)].dib + 1
    BY <2>1, <2>4 DEF Placed
  <2>7. q \in Loop(n)
    BY <1>2, <2>1, RoundFacts
  <2>8. CASE Fills(p, q)
    <3>1. here.dib <= p.entry.dib
      BY <2>2, <2>8 DEF Fills
    <3>2. /\ Table(q.buckets, n) /\ Placed(q.buckets, n)
          /\ q.buckets[p.i] = p.entry /\ p.entry.dib # 0
          /\ \A j \in 0 .. n - 1 : j # p.i => q.buckets[j] = p.buckets[j]
      BY <2>1, <2>2, <2>8, <3>1, PutStaysPlaced DEF Fills
    <3>3. OneTaken(b, q.buckets, n)
      <4>1. b[p.i].dib = 0
        BY <2>1, <2>2, <2>8 DEF Fills, SameVacancies
      <4>2. \A i \in 0 .. n - 1 :
              q.buckets[i].dib = 0 <=> b[i].dib = 0 /\ i # p.i
        BY <2>1, <3>2 DEF SameVacancies
      <4> QED
        BY <2>2, <4>1, <4>2 DEF OneTaken
    <3> QED
      BY <2>1, <2>7, <2>8, <3>2, <3>3 DEF Fills, Progress
  <2>9. CASE compares /\ Replaces(p, q)
    <3> DEFINE e == [here EXCEPT !.item = p.entry.item]
    <3>1. /\ e \in Bucket /\ e.item = p.entry.item /\ e.hash = here.hash
          /\ e.dib = here.dib
      BY <2>2, <2>3 DEF Bucket
    <3>2. here.dib # 0 /\ q.buckets = Put(p.buckets, p.i, e)
      BY <2>9 DEF Replaces
    <3> HIDE DEF e
    <3>3. here.dib <= e.dib /\ e.dib <= p.buckets[Preceding(p.i, n)].dib + 1
      BY <2>3, <2>6, <3>1
    <3>4. At(p.i, e.hash, e.dib, n) /\ e.item \in Item
      BY <2>2, <2>5, <3>1, <3>2
    <3>5. /\ Table(q.buckets, n) /\ Placed(q.buckets, n)
          /\ q.buckets[p.i] = e /\ e.dib # 0
          /\ \A j \in 0 .. n - 1 : j # p.i => q.buckets[j] = p.buckets[j]
      BY <2>1, <2>2, <3>1, <3>2, <3>3, <3>4, PutStaysPlaced
    <3>6. SameVacancies(b, q.buckets, n)
      BY <2>1, <3>1, <3>2, <3>5 DEF SameVacancies
    <3> QED
      BY <2>5, <2>7, <2>9, <3>5, <3>6 DEF Replaces, Progress
  <2>10. ASSUME Displaces(p, q) \/ GoesOn(p, q), q.i = Following(p.i, n)
         PROVE  Progress(b, q, hash, compares, lap + 1, n)
    <3>1. b[Place(hash, lap, n)].dib # 0
      BY <2>1, <2>2, <2>10 DEF Displaces, GoesOn, SameVacancies
    <3>2. \A e \in 0 .. (lap + 1) - 1 : b[Place(hash, e, n)].dib # 0
      <4>1. \A e \in 0 .. (lap + 1) - 1 : e \in 0 .. lap - 1 \/ e = lap
        OBVIOUS
      <4> QED
        BY <2>1, <3>1, <4>1
    <3>3. /\ Table(q.buckets, n) /\ Placed(q.buckets, n)
          /\ SameVacancies(b, q.buckets, n)
          /\ \E e \in Bucket :
               /\ e.item \in Item /\ At(p.i, e.hash, e.dib, n)
               /\ q.entry = [e EXCEPT !.dib = @ + 1]
               /\ e.dib <= q.buckets[p.i].dib
      <4>1. CASE Displaces(p, q)
        <5>1. here.dib <= p.entry.dib /\ here.dib # 0
          BY <2>2, <2>3, <4>1 DEF Displaces
        <5>2. /\ Table(q.buckets, n) /\ Placed(q.buckets, n)
              /\ q.buckets[p.i] = p.entry /\ p.entry.dib # 0
              /\ \A j \in 0 .. n - 1 : j # p.i => q.buckets[j] = p.buckets[j]
          BY <2>1, <2>2, <4>1, <5>1, PutStaysPlaced DEF Displaces
        <5>3. SameVacancies(b, q.buckets, n)
          BY <2>1, <5>1, <5>2 DEF SameVacancies
        <5>4. q.entry = [here EXCEPT !.dib = @ + 1]
          BY <4>1 DEF Displaces
        <5> HIDE DEF here
        <5> QED
          BY <2>3, <2>5, <5>1, <5>2, <5>3, <5>4
      <4>2. CASE GoesOn(p, q)
        BY <2>1, <2>2, <4>2 DEF GoesOn
      <4> QED
        BY <2>10, <4>1, <4>2
    <3>4. PICK e \in Bucket :
            /\ e.item \in Item /\ At(p.i, e.hash, e.dib, n)
            /\ q.entry = [e EXCEPT !.dib = @ + 1]
            /\ e.dib <= q.buckets[p.i].dib
      BY <3>3
    <3>5. /\ q.entry.item = e.item /\ q.entry.hash = e.hash
          /\ q.entry.dib = e.dib + 1 /\ e.hash \in Nat /\ e.dib \in Nat
      BY <3>4, Further DEF Bucket
    <3>6. At(q.i, q.entry.hash, q.entry.dib, n)
      <4>1. PICK d \in Nat : e.dib = d + 1 /\ p.i = Place(e.hash, d, n)
        BY <3>4 DEF At
      <4>2. Place(e.hash, d + 1, n) = Following(Place(e.hash, d, n), n)
        BY <3>5, Places
      <4>3. q.i = Place(e.hash, d + 1, n) /\ d + 1 \in Nat
        BY <2>10, <4>1, <4>2
      <4> QED
        BY <3>5, <4>1, <4>3 DEF At
    <3>7. q.entry.dib <= q.buckets[Preceding(q.i, n)].dib + 1
      <4>1. q.buckets[p.i].dib \in Nat
        BY <2>2, <3>3, TableFacts
      <4> QED
        BY <2>4, <2>10, <3>4, <3>5, <4>1
    <3>8. Carries(q, n)
      BY <3>4, <3>5, <3>6, <3>7 DEF Carries
    <3> QED
      BY <2>1, <2>4, <2>7, <2>10, <3>2, <3>3, <3>8
         DEF Progress, Displaces, GoesOn
  <2> QED
    BY <1>2, <2>1, <2>8, <2>9, <2>10, RoundFacts
<1> QED
  BY <1>1, <1>2

LEMMA RoundsProgress ==
  ASSUME NEW n \in Nat, n > 1, NEW b, Table(b, n), Placed(b, n),
         NEW item \in Item, NEW hash \in Nat, NEW compares \in BOOLEAN
  PROVE  /\ Size(b) = n
         /\ \A lap \in 0 .. n :
              Progress(b, Rounds(b, item, hash, compares)[lap], hash, compares,
                       lap, n)
         /\ \A lap \in 0 .. n - 1 :
              Rounds(b, item, hash, compares)[lap + 1] =
                Round(Rounds(b, item, hash, compares)[lap], compares)
<1> DEFINE R == Rounds(b, item, hash, compares)
           first == R[0]
           entry == [item |-> item, hash |-> hash, dib |-> 1]
           Good == {lap \in Nat : Progress(b, R[lap], hash, compares, lap, n)}
<1>1. Size(b) = n
  BY TableFacts
<1>2. /\ first = [buckets |-> b, i |-> Start(b, hash), replaced |-> NULL,
                  ended |-> FALSE, entry |-> entry]
      /\ \A lap \in 1 .. n : R[lap] = Round(R[lap - 1], compares)
  BY <1>1, RoundsUnfold
<1>3. ASSUME NEW lap \in 0 .. n - 1 PROVE R[lap + 1] = Round(R[lap], compares)
  <2>1. lap + 1 \in 1 .. n /\ (lap + 1) - 1 = lap
    OBVIOUS
  <2> HIDE DEF R
  <2> QED
    BY <1>2, <2>1
<1>4. 0 \in Good
  <2>1. Start(b, hash) = Place(hash, 0, n) /\ Place(hash, 0, n) \in 0 .. n - 1
    <3>1. Start(b, hash) = Rem(hash, n)
      BY <1>1 DEF Start, Rem
    <3> QED
      BY <3>1, Places
  <2>2. entry \in Bucket
    BY DEF Bucket
  <2>3. /\ first.buckets = b /\ first.i = Place(hash, 0, n)
        /\ first.replaced = NULL /\ first.ended = FALSE /\ first.entry = entry
    BY <1>2, <2>1
  <2>4. first \in Loop(n)
    <3> HIDE DEF first, entry
    <3> QED
      BY <1>2, <2>1, <2>2 DEF Loop, Table
  <2>5. Carries(first, n)
    <3>1. At(Place(hash, 0, n), hash, 1, n)
      BY DEF At
    <3>2. Preceding(Place(hash, 0, n), n) \in 0 .. n - 1
      BY <2>1, Neighbours
    <3>3. b[Preceding(Place(hash, 0, n), n)].dib \in Nat
      BY <3>2, TableFacts
    <3>4. /\ first.entry.item = item /\ first.entry.hash = hash
          /\ first.entry.dib = 1
      BY <2>3
    <3> HIDE DEF first
    <3> QED
      BY <2>3, <3>1, <3>3, <3>4 DEF Carries
  <2> HIDE DEF R, first
  <2>6. Progress(b, first, hash, compares, 0, n)
    BY <2>3, <2>4, <2>5 DEF Progress, SameVacancies
  <2> QED
    BY <2>6 DEF first
<1>5. ASSUME NEW lap \in Nat, lap < n, lap \in Good PROVE lap + 1 \in Good
  <2>1. lap \in 0 .. n - 1
    BY <1>5
  <2> HIDE DEF R
  <2> QED
    BY <1>3, <1>5, <2>1, RoundProgress
<1> HIDE DEF Good
<1>6. \A lap \in 0 .. n : lap \in Good
  BY <1>4, <1>5, SetInductionTo
<1> QED
  BY <1>1, <1>3, <1>6 DEF Good

(* The loop ends: it met an empty bucket, if it did not end before.         *)
LEMMA InsertionEnds ==
  ASSUME NEW n \in Nat, n > 1, NEW b, Table(b, n), Placed(b, n), Vacant(b, n),
         NEW item \in Item, NEW hash \in Nat, NEW compares \in BOOLEAN
  PROVE  /\ Progress(b, Inserted(b, item, hash, compares), hash, compares, n, n)
         /\ Inserted(b, item, hash, compares).ended
<1> DEFINE q == Inserted(b, item, hash, compares)
<1>1. Progress(b, q, hash, compares, n, n)
  BY RoundsProgress DEF Inserted
<1> HIDE DEF q
<1>2. ASSUME ~q.ended PROVE FALSE
  <2>1. PICK i \in 0 .. n - 1 : b[i].dib = 0
    BY DEF Vacant
  <2>2. PICK e \in 0 .. n - 1 : Place(hash, e, n) = i
    BY PlaceReaches
  <2> QED
    BY <1>1, <1>2, <2>1, <2>2 DEF Progress
<1> QED
  BY <1>1, <1>2 DEF q

(* An insertion fills one bucket, or replaces an item and fills none.       *)
LEMMA InsertedTable ==
  ASSUME NEW n \in Nat, n > 1, NEW b, Table(b, n), Placed(b, n), Vacant(b, n),
         NEW item \in Item, NEW hash \in Nat, NEW compares \in BOOLEAN
  PROVE  LET q == Inserted(b, item, hash, compares) IN
         /\ Table(q.buckets, n) /\ Placed(q.buckets, n)
         /\ \/ /\ q.replaced = NULL
               /\ Cardinality(Occupied(q.buckets)) =
                    Cardinality(Occupied(b)) + 1
            \/ /\ compares /\ q.replaced \in Item
               /\ Cardinality(Occupied(q.buckets)) = Cardinality(Occupied(b))
<1> DEFINE q == Inserted(b, item, hash, compares)
<1>1. Progress(b, q, hash, compares, n, n) /\ q.ended
  BY InsertionEnds
<1> HIDE DEF q
<1>2. Table(q.buckets, n) /\ Placed(q.buckets, n)
  BY <1>1 DEF Progress
<1> DEFINE c == q.buckets
<1>3. /\ Occupied(b) = {i \in 0 .. n - 1 : b[i].dib # 0}
      /\ Occupied(c) = {i \in 0 .. n - 1 : c[i].dib # 0}
      /\ IsFiniteSet(Occupied(b))
  BY <1>2, TableFacts
<1> HIDE DEF c
<1>4. ASSUME OneTaken(b, c, n)
      PROVE  Cardinality(Occupied(c)) = Cardinality(Occupied(b)) + 1
  <2>1. PICK z \in 0 .. n - 1 :
          /\ b[z].dib = 0
          /\ \A i \in 0 .. n - 1 : c[i].dib = 0 <=> b[i].dib = 0 /\ i # z
    BY <1>4 DEF OneTaken
  <2>2. Occupied(c) = Occupied(b) \union {z} /\ z \notin Occupied(b)
    BY <1>3, <2>1
  <2> QED
    BY <1>3, <2>2, FS_AddElement
<1>5. ASSUME SameVacancies(b, c, n)
      PROVE  Cardinality(Occupied(c)) = Cardinality(Occupied(b))
  <2>1. Occupied(c) = Occupied(b)
    BY <1>3, <1>5 DEF SameVacancies
  <2> QED
    BY <2>1
<1> QED
  BY <1>1, <1>2, <1>4, <1>5 DEF Progress, c, q

-----------------------------------------------------------------------------
(* What a table holds: pairs of a hash and a pointer. *)

Holds(b, n, T) ==
  \E i \in 0 .. n - 1 : b[i].dib # 0 /\ <<b[i].hash, b[i].item>> \in T

(* A set of pairs that does not tell entries of one key apart.              *)
ByKey(T) ==
  \A h \in Nat, x, y \in Item :
    key_bytes[x] = key_bytes[y] => (<<h, x>> \in T <=> <<h, y>> \in T)

(* Nothing is lost on the way: what is carried and what is in the table are *)
(* what was there and what is put, except that an item may have taken the   *)
(* place of another one with the same hash and key.                         *)
Conserved(b, p, item, hash, n, T) ==
  p.replaced = NULL \/ ByKey(T) =>
    (\/ Holds(p.buckets, n, T)
     \/ ~p.ended /\ <<p.entry.hash, p.entry.item>> \in T)
    <=> Holds(b, n, T) \/ <<hash, item>> \in T

LEMMA RoundConserves ==
  ASSUME NEW n \in Nat, n > 1, NEW b, NEW p, NEW hash \in Nat, NEW item,
         NEW lap \in Nat, NEW compares \in BOOLEAN,
         Progress(b, p, hash, compares, lap, n),
         NEW T, Conserved(b, p, item, hash, n, T),
         NEW q, q = Round(p, compares)
  PROVE  Conserved(b, q, item, hash, n, T)
<1> DEFINE here == p.buckets[p.i]
           Pair(u) == <<u.hash, u.item>>
<1>1. CASE p.ended
  BY <1>1 DEF Round
<1>2. CASE ~p.ended
  <2>1. /\ p \in Loop(n) /\ Table(p.buckets, n) /\ Placed(p.buckets, n)
        /\ p.replaced = NULL /\ Carries(p, n)
    BY <1>2 DEF Progress
  <2>2. /\ p.i \in 0 .. n - 1 /\ p.entry \in Bucket /\ p.entry.item \in Item
        /\ p.buckets \in [0 .. n - 1 -> Bucket] /\ here \in Bucket
        /\ p.entry.dib # 0 /\ here.hash \in Nat
    <3>1. /\ p.i \in 0 .. n - 1 /\ p.entry \in Bucket
          /\ p.buckets \in [0 .. n - 1 -> Bucket]
      BY <2>1 DEF Loop
    <3>2. here \in Bucket /\ here.hash \in Nat
      BY <2>1, <3>1, TableFacts
    <3>3. p.entry.dib # 0
      BY <2>1 DEF Carries, At
    <3> QED
      BY <2>1, <3>1, <3>2, <3>3 DEF Carries
  <2>3. Holds(p.buckets, n, T) \/ Pair(p.entry) \in T
        <=> Holds(b, n, T) \/ <<hash, item>> \in T
    BY <1>2, <2>1 DEF Conserved
  <2>4. ASSUME NEW e, e.dib # 0, NEW c, c = Put(p.buckets, p.i, e)
        PROVE  /\ Holds(c, n, T) => Holds(p.buckets, n, T) \/ Pair(e) \in T
               /\ Pair(e) \in T => Holds(c, n, T)
               /\ Holds(p.buckets, n, T)
                  => Holds(c, n, T) \/ (here.dib # 0 /\ Pair(here) \in T)
               /\ here.dib # 0 /\ Pair(here) \in T => Holds(p.buckets, n, T)
    <3>1. /\ c[p.i] = e
          /\ \A j \in 0 .. n - 1 : j # p.i => c[j] = p.buckets[j]
      BY <2>2, <2>4 DEF Put
    <3> QED
      BY <2>2, <2>4, <3>1 DEF Holds
  <2>5. CASE Fills(p, q)
    BY <2>1, <2>2, <2>3, <2>4, <2>5 DEF Fills, Conserved
  <2>6. CASE Replaces(p, q)
    <3> DEFINE e == [here EXCEPT !.item = p.entry.item]
    <3>1. here.dib # 0 /\ e.dib # 0 /\ Pair(e) = Pair(p.entry)
      BY <2>2, <2>6 DEF Replaces, Meets, Matches, Bucket
    <3>2. /\ q.ended /\ q.replaced \in Item
          /\ q.buckets = Put(p.buckets, p.i, e)
      BY <2>1, <2>2, <2>6 DEF Replaces, Table
    <3>3. ByKey(T) => (Pair(here) \in T <=> Pair(p.entry) \in T)
      BY <2>1, <2>2, <2>6 DEF Replaces, Meets, Matches, ByKey, Table
    <3>4. NULL \notin Item
      BY HashTableAssumption
    <3> HIDE DEF here, e, Pair
    <3> QED
      BY <2>3, <2>4, <3>1, <3>2, <3>3, <3>4 DEF Conserved
  <2>7. CASE Displaces(p, q)
    <3>1. Pair(q.entry) = Pair(here) /\ here.dib # 0
      BY <2>2, <2>7, Further DEF Displaces
    <3> QED
      BY <2>1, <2>2, <2>3, <2>4, <2>7, <3>1 DEF Displaces, Conserved
  <2>8. CASE GoesOn(p, q)
    <3>1. Pair(q.entry) = Pair(p.entry)
      BY <2>2, <2>8, Further DEF GoesOn
    <3> QED
      BY <2>1, <2>3, <2>8, <3>1 DEF GoesOn, Conserved
  <2> QED
    BY <1>2, <2>1, <2>5, <2>6, <2>7, <2>8, RoundFacts
<1> QED
  BY <1>1, <1>2

LEMMA InsertedHolds ==
  ASSUME NEW n \in Nat, n > 1, NEW b, Table(b, n), Placed(b, n), Vacant(b, n),
         NEW item \in Item, NEW hash \in Nat, NEW compares \in BOOLEAN,
         NEW T
  PROVE  LET q == Inserted(b, item, hash, compares) IN
         q.replaced = NULL \/ ByKey(T) =>
           (Holds(q.buckets, n, T) <=> Holds(b, n, T) \/ <<hash, item>> \in T)
<1> DEFINE R == Rounds(b, item, hash, compares)
           q == Inserted(b, item, hash, compares)
           Good == {lap \in Nat : Conserved(b, R[lap], item, hash, n, T)}
<1>1. 0 \in Good
  <2>1. R[0] = [buckets |-> b, i |-> Start(b, hash), replaced |-> NULL,
                ended |-> FALSE,
                entry |-> [item |-> item, hash |-> hash, dib |-> 1]]
    BY RoundsProgress, RoundsUnfold
  <2>2. /\ R[0].buckets = b /\ R[0].ended = FALSE
        /\ R[0].entry.hash = hash /\ R[0].entry.item = item
    BY <2>1
  <2> HIDE DEF R
  <2> QED
    BY <2>2 DEF Conserved
<1>2. ASSUME NEW lap \in Nat, lap < n, lap \in Good PROVE lap + 1 \in Good
  <2>1. lap \in 0 .. n - 1 /\ lap \in 0 .. n
    BY <1>2
  <2>2. /\ Progress(b, R[lap], hash, compares, lap, n)
        /\ R[lap + 1] = Round(R[lap], compares)
    BY <2>1, RoundsProgress
  <2> HIDE DEF R
  <2> QED
    BY <1>2, <2>2, RoundConserves
<1> HIDE DEF Good
<1>3. n \in Good
  BY <1>1, <1>2, SetInductionTo
<1>4. Conserved(b, q, item, hash, n, T)
  BY <1>3, RoundsProgress DEF Good, Inserted
<1>5. q.ended
  BY InsertionEnds
<1> HIDE DEF q
<1>6. q.replaced = NULL \/ ByKey(T) =>
        (Holds(q.buckets, n, T) <=> Holds(b, n, T) \/ <<hash, item>> \in T)
  BY <1>4, <1>5 DEF Conserved
<1> QED
  BY <1>6 DEF q

(* Entries of one hash and key. *)
Same(u, v) == u.hash = v.hash /\ key_bytes[u.item] = key_bytes[v.item]

Unique(b, n) ==
  \A i, j \in 0 .. n - 1 :
    b[i].dib # 0 /\ b[j].dib # 0 /\ Same(b[i], b[j]) => i = j

Fresh(b, n, e) == \A i \in 0 .. n - 1 : b[i].dib # 0 => ~Same(b[i], e)

(* An entry whose key is in the table under no other hash replaces nothing. *)
Alone(p, n) ==
  /\ Unique(p.buckets, n) /\ p.replaced = NULL
  /\ ~p.ended => Fresh(p.buckets, n, p.entry)

LEMMA RoundKeepsAlone ==
  ASSUME NEW n \in Nat, n > 1, NEW b, NEW p, NEW hash \in Nat,
         NEW lap \in Nat, NEW compares \in BOOLEAN,
         Progress(b, p, hash, compares, lap, n), Alone(p, n),
         NEW q, q = Round(p, compares)
  PROVE  Alone(q, n)
<1> DEFINE here == p.buckets[p.i]
<1>1. CASE p.ended
  BY <1>1 DEF Round
<1>2. CASE ~p.ended
  <2>1. /\ p \in Loop(n) /\ Table(p.buckets, n) /\ p.replaced = NULL
        /\ Unique(p.buckets, n) /\ Fresh(p.buckets, n, p.entry)
    BY <1>2 DEF Progress, Alone
  <2>2. /\ p.i \in 0 .. n - 1 /\ p.entry \in Bucket
        /\ p.buckets \in [0 .. n - 1 -> Bucket] /\ here \in Bucket
    <3>1. /\ p.i \in 0 .. n - 1 /\ p.entry \in Bucket
          /\ p.buckets \in [0 .. n - 1 -> Bucket]
      BY <2>1 DEF Loop
    <3> QED
      BY <2>1, <3>1, TableFacts
  <2>3. ASSUME NEW c, c = Put(p.buckets, p.i, p.entry)
        PROVE  Unique(c, n)
    <3>1. /\ c[p.i] = p.entry
          /\ \A j \in 0 .. n - 1 : j # p.i => c[j] = p.buckets[j]
      BY <2>2, <2>3 DEF Put
    <3> QED
      BY <2>1, <3>1 DEF Unique, Fresh, Same
  <2>4. CASE Fills(p, q)
    BY <2>1, <2>3, <2>4 DEF Fills, Alone
  <2>5. ~Replaces(p, q)
    BY <2>1, <2>2 DEF Replaces, Meets, Matches, Fresh, Same
  <2>6. CASE Displaces(p, q)
    <3>1. q.entry.hash = here.hash /\ q.entry.item = here.item /\ here.dib # 0
      BY <2>2, <2>6, Further DEF Displaces
    <3>2. /\ q.buckets[p.i] = p.entry
          /\ \A j \in 0 .. n - 1 : j # p.i => q.buckets[j] = p.buckets[j]
      BY <2>2, <2>6 DEF Put, Displaces
    <3>3. ASSUME NEW j \in 0 .. n - 1, q.buckets[j].dib # 0,
                 Same(q.buckets[j], q.entry)
          PROVE  FALSE
      <4>1. Same(q.buckets[j], here)
        BY <3>1, <3>3 DEF Same
      <4>2. CASE j = p.i
        BY <2>1, <2>2, <3>1, <3>2, <4>1, <4>2 DEF Fresh, Same
      <4>3. CASE j # p.i
        BY <2>1, <2>2, <3>1, <3>2, <3>3, <4>1, <4>3 DEF Unique
      <4> QED
        BY <4>2, <4>3
    <3> QED
      BY <2>1, <2>3, <2>6, <3>3 DEF Displaces, Alone, Fresh
  <2>7. CASE GoesOn(p, q)
    <3>1. q.entry.hash = p.entry.hash /\ q.entry.item = p.entry.item
      BY <2>2, <2>7, Further DEF GoesOn
    <3> QED
      BY <2>1, <2>7, <3>1 DEF GoesOn, Alone, Fresh, Same
  <2> QED
    BY <1>2, <2>1, <2>4, <2>5, <2>6, <2>7, RoundFacts
<1> QED
  BY <1>1, <1>2

LEMMA InsertedFresh ==
  ASSUME NEW n \in Nat, n > 1, NEW b, Table(b, n), Placed(b, n), Vacant(b, n),
         NEW item \in Item, NEW hash \in Nat, NEW compares \in BOOLEAN,
         Unique(b, n), Fresh(b, n, [item |-> item, hash |-> hash, dib |-> 1])
  PROVE  LET q == Inserted(b, item, hash, compares) IN
         q.replaced = NULL /\ Unique(q.buckets, n)
<1> DEFINE R == Rounds(b, item, hash, compares)
           entry == [item |-> item, hash |-> hash, dib |-> 1]
           Good == {lap \in Nat : Alone(R[lap], n)}
<1>1. 0 \in Good
  <2>1. R[0] = [buckets |-> b, i |-> Start(b, hash), replaced |-> NULL,
                ended |-> FALSE, entry |-> entry]
    BY RoundsProgress, RoundsUnfold
  <2> HIDE DEF entry
  <2>2. /\ R[0].buckets = b /\ R[0].replaced = NULL /\ R[0].entry = entry
    BY <2>1
  <2> HIDE DEF R
  <2> QED
    BY <2>2 DEF Alone, entry
<1>2. ASSUME NEW lap \in Nat, lap < n, lap \in Good PROVE lap + 1 \in Good
  <2>1. lap \in 0 .. n - 1 /\ lap \in 0 .. n
    BY <1>2
  <2>2. /\ Progress(b, R[lap], hash, compares, lap, n)
        /\ R[lap + 1] = Round(R[lap], compares)
    BY <2>1, RoundsProgress
  <2> HIDE DEF R
  <2> QED
    BY <1>2, <2>2, RoundKeepsAlone
<1> HIDE DEF Good
<1>3. n \in Good
  BY <1>1, <1>2, SetInductionTo
<1>4. Alone(Inserted(b, item, hash, compares), n)
  BY <1>3, RoundsProgress DEF Good, Inserted
<1> QED
  BY <1>4 DEF Alone

(* The rounds one by one. *)
Steps(b, R, item, hash, compares, n) ==
  /\ R[0].buckets = b /\ R[0].ended = FALSE /\ R[0].replaced = NULL
  /\ R[0].entry = [item |-> item, hash |-> hash, dib |-> 1]
  /\ \A lap \in 0 .. n - 1 :
       /\ Progress(b, R[lap], hash, compares, lap, n)
       /\ R[lap].ended => R[lap + 1] = R[lap]
       /\ ~R[lap].ended =>
            \/ Fills(R[lap], R[lap + 1])
            \/ compares /\ Replaces(R[lap], R[lap + 1])
            \/ /\ \/ Displaces(R[lap], R[lap + 1])
                  \/ GoesOn(R[lap], R[lap + 1])
               /\ compares => ~Meets(R[lap])
  /\ R[n] = Inserted(b, item, hash, compares)

LEMMA RoundsSteps ==
  ASSUME NEW n \in Nat, n > 1, NEW b, Table(b, n), Placed(b, n),
         NEW item \in Item, NEW hash \in Nat, NEW compares \in BOOLEAN
  PROVE  Steps(b, Rounds(b, item, hash, compares), item, hash, compares, n)
<1> DEFINE R == Rounds(b, item, hash, compares)
           entry == [item |-> item, hash |-> hash, dib |-> 1]
<1>1. /\ R[0].buckets = b /\ R[0].ended = FALSE /\ R[0].replaced = NULL
      /\ R[0].entry = entry
  <2>1. R[0] = [buckets |-> b, i |-> Start(b, hash), replaced |-> NULL,
                ended |-> FALSE, entry |-> entry]
    BY RoundsProgress, RoundsUnfold
  <2> HIDE DEF R, entry
  <2> QED
    BY <2>1
<1>2. ASSUME NEW lap \in 0 .. n - 1
      PROVE  /\ Progress(b, R[lap], hash, compares, lap, n)
             /\ R[lap + 1] = Round(R[lap], compares)
  <2>1. lap \in 0 .. n
    OBVIOUS
  <2> QED
    BY <2>1, RoundsProgress
<1>3. R[n] = Inserted(b, item, hash, compares)
  BY RoundsProgress DEF Inserted
<1> HIDE DEF R
<1>4. ASSUME NEW lap \in 0 .. n - 1, R[lap].ended PROVE R[lap + 1] = R[lap]
  BY <1>2, <1>4 DEF Round
<1>5. ASSUME NEW lap \in 0 .. n - 1, ~R[lap].ended
      PROVE  \/ Fills(R[lap], R[lap + 1])
             \/ compares /\ Replaces(R[lap], R[lap + 1])
             \/ /\ \/ Displaces(R[lap], R[lap + 1])
                   \/ GoesOn(R[lap], R[lap + 1])
                /\ compares => ~Meets(R[lap])
  <2>1. R[lap] \in Loop(n) /\ Table(R[lap].buckets, n)
    BY <1>2 DEF Progress
  <2> QED
    BY <1>2, <1>5, <2>1, RoundFacts
<1> QED
  BY <1>1, <1>2, <1>3, <1>4, <1>5 DEF R, Steps

Knows(there, item, hash) ==
  /\ there.dib # 0 /\ there.hash = hash
  /\ key_bytes[there.item] = key_bytes[item]

Swaps(b, q, m, item) ==
  /\ q.replaced = b[m].item
  /\ q.buckets = Put(b, m, [b[m] EXCEPT !.item = item])

(* An entry whose key is in bucket m replaces the item there: nothing it    *)
(* meets before is nearer to its home.                                      *)
LEMMA InsertedKnown ==
  ASSUME NEW n \in Nat, n > 1, NEW b, Table(b, n), Placed(b, n), Vacant(b, n),
         NEW item \in Item, NEW hash \in Nat, NEW compares \in BOOLEAN,
         Unique(b, n),
         NEW m \in 0 .. n - 1, Knows(b[m], item, hash)
  PROVE  compares => Swaps(b, Inserted(b, item, hash, compares), m, item)
<1> DEFINE R == Rounds(b, item, hash, compares)
<1>0. Steps(b, R, item, hash, compares, n)
  BY RoundsSteps
<1> HIDE DEF R
<1>3. /\ R[0].buckets = b /\ R[0].ended = FALSE
      /\ R[0].entry = [item |-> item, hash |-> hash, dib |-> 1]
      /\ R[n] = Inserted(b, item, hash, compares)
  BY <1>0 DEF Steps
<1>4. ASSUME NEW lap \in 0 .. n - 1
      PROVE  /\ Progress(b, R[lap], hash, compares, lap, n)
             /\ R[lap].ended => R[lap + 1] = R[lap]
             /\ ~R[lap].ended =>
                  \/ Fills(R[lap], R[lap + 1])
                  \/ compares /\ Replaces(R[lap], R[lap + 1])
                  \/ /\ \/ Displaces(R[lap], R[lap + 1])
                        \/ GoesOn(R[lap], R[lap + 1])
                     /\ compares => ~Meets(R[lap])
  BY <1>0 DEF Steps
<1> DEFINE there == b[m]
           After == [there EXCEPT !.item = item]
<1>1. PICK d \in Nat : there.dib = d + 1 /\ m = Place(hash, d, n)
  BY DEF Placed, At, Knows
<1>2. /\ d < n /\ there \in Bucket
      /\ \A e \in 0 .. d : /\ b[Place(hash, e, n)].dib \in Nat
                           /\ b[Place(hash, e, n)].dib >= e + 1
  <2>1. b[Place(hash, d, n)].dib >= d + 1
    BY <1>1
  <2>2. /\ d < n
        /\ \A e \in 0 .. d : b[Place(hash, e, n)].dib >= e + 1
    <3>1. d < n
      BY <2>1, RunIsShort
    <3>2. \A e \in 0 .. d : b[Place(hash, e, n)].dib >= e + 1
      BY <2>1, Run
    <3> QED
      BY <3>1, <3>2
  <2>3. there \in Bucket
    BY TableFacts
  <2>4. \A e \in 0 .. d : b[Place(hash, e, n)].dib \in Nat
    <3>1. ASSUME NEW e \in 0 .. d PROVE Place(hash, e, n) \in 0 .. n - 1
      <4>1. e \in Nat
        OBVIOUS
      <4> QED
        BY <4>1, Places
    <3>2. \A i \in 0 .. n - 1 : b[i].dib \in Nat
      BY TableFacts
    <3> QED
      BY <3>1, <3>2
  <2> QED
    BY <2>2, <2>3, <2>4
<1> DEFINE
      On(p, lap) == /\ ~p.ended /\ p.buckets = b
                    /\ p.entry = [item |-> item, hash |-> hash, dib |-> lap + 1]
      Done(p) == /\ p.ended /\ p.replaced = there.item
                 /\ p.buckets = Put(b, m, After)
      Good == {lap \in Nat : IF lap <= d THEN On(R[lap], lap) ELSE Done(R[lap])}
<1>5. 0 \in Good
  <2>1. R[0].entry = [item |-> item, hash |-> hash, dib |-> 0 + 1]
    BY <1>3
  <2> QED
    BY <1>3, <2>1
<1> SUFFICES ASSUME compares
             PROVE  Done(Inserted(b, item, hash, compares))
  BY Zenon DEF Swaps
<1>6. ASSUME NEW lap \in Nat, lap < n, lap \in Good PROVE lap + 1 \in Good
  <2> DEFINE p == R[lap]
             q == R[lap + 1]
  <2>1. lap \in 0 .. n - 1
    BY <1>6
  <2>2. /\ Progress(b, p, hash, compares, lap, n)
        /\ p.ended => q = p
        /\ ~p.ended => \/ Fills(p, q) \/ Replaces(p, q)
                       \/ (Displaces(p, q) \/ GoesOn(p, q)) /\ ~Meets(p)
    BY <1>4, <2>1
  <2> HIDE DEF p, q
  <2>3. CASE lap <= d
    <3>1. On(p, lap)
      BY <1>6, <2>3 DEF p
    <3>2. /\ p \in Loop(n) /\ Table(p.buckets, n) /\ p.i = Place(hash, lap, n)
          /\ p.entry \in Bucket
      BY <2>2, <3>1 DEF Progress, Loop
    <3>3. /\ p.entry.hash = hash /\ p.entry.item = item
          /\ p.entry.dib = lap + 1
      BY <3>1
    <3>4. /\ b[p.i].dib \in Nat /\ b[p.i].dib >= lap + 1 /\ p.i \in 0 .. n - 1
      <4>1. Place(hash, lap, n) \in 0 .. n - 1
        BY Places
      <4>2. lap \in 0 .. d
        BY <2>3
      <4> QED
        BY <1>2, <3>2, <4>1, <4>2
    <3>5. ~Fills(p, q) /\ ~Displaces(p, q)
      BY <3>1, <3>3, <3>4 DEF Fills, Displaces
    <3>6. \/ Replaces(p, q)
          \/ GoesOn(p, q) /\ ~Meets(p)
      BY <2>2, <3>1, <3>5
    <3>7. CASE lap = d
      <4>1. p.i = m
        BY <1>1, <3>2, <3>7
      <4>2. Meets(p)
        BY <3>1, <3>3, <4>1 DEF Meets, Matches, Knows
      <4>3. Replaces(p, q)
        BY <3>6, <4>2
      <4>4. Done(q)
        <5>1. p.buckets = b
          BY <3>1
        <5> QED
          BY <3>3, <4>1, <4>3, <5>1 DEF Replaces
      <4>5. ~(lap + 1 <= d)
        BY <3>7
      <4> QED
        BY <4>4, <4>5 DEF q
    <3>8. CASE lap # d
      <4>1. p.i # m
        <5>1. lap \in 0 .. n - 1 /\ d \in 0 .. n - 1
          BY <1>2, <2>1
        <5> QED
          BY <1>1, <3>2, <3>8, <5>1, PlaceIsOneToOne
      <4>2. ~Meets(p)
        <5>1. Meets(p) => Same(b[p.i], b[m])
          BY <3>1, <3>3 DEF Meets, Matches, Same, Knows
        <5>2. b[p.i].dib # 0
          BY <3>4
        <5> QED
          BY <3>4, <4>1, <5>1, <5>2 DEF Unique, Knows
      <4>3. GoesOn(p, q)
        BY <3>6, <4>2 DEF Replaces
      <4>4. q.entry = [item |-> item, hash |-> hash, dib |-> (lap + 1) + 1]
        BY <3>2, <3>3, <4>3, Further DEF GoesOn
      <4>5. On(q, lap + 1) /\ lap + 1 <= d
        BY <2>3, <3>1, <3>8, <4>3, <4>4 DEF GoesOn
      <4> QED
        BY <4>5 DEF q
    <3> QED
      BY <3>7, <3>8
  <2>4. CASE ~(lap <= d)
    <3>1. Done(p)
      BY <1>6, <2>4 DEF p
    <3>2. q = p
      BY <2>2, <3>1
    <3>3. ~(lap + 1 <= d)
      BY <2>4
    <3> QED
      BY <3>1, <3>2, <3>3 DEF q
  <2> QED
    BY <2>3, <2>4
<1> HIDE DEF Good
<1>7. n \in Good
  BY <1>5, <1>6, SetInductionTo
<1>8. ~(n <= d)
  BY <1>2
<1> QED
  BY <1>3, <1>7, <1>8 DEF Good

(* A lookup of the key of item, whose hash is hash, stops s steps from home *)
(* and finds item there.                                                    *)
Passes(here, item, hash) ==
  /\ here.dib # 0
  /\ ~(here.hash = hash /\ key_bytes[here.item] = key_bytes[item])

FoundAt(b, s, item, hash, n) ==
  /\ b[Place(hash, s, n)].dib # 0
  /\ b[Place(hash, s, n)].hash = hash /\ b[Place(hash, s, n)].item = item
  /\ \A e \in 0 .. s - 1 : Passes(b[Place(hash, e, n)], item, hash)

Searching(p, item, hash, lap, n) ==
  /\ ~p.ended /\ p.entry.item = item /\ p.entry.hash = hash
  /\ \A e \in 0 .. lap - 1 : Passes(p.buckets[Place(hash, e, n)], item, hash)

(* What an insertion puts is found where it is put: the rounds after it     *)
(* change buckets that are further from home.                               *)
LEMMA InsertedFirst ==
  ASSUME NEW n \in Nat, n > 1, NEW b, Table(b, n), Placed(b, n), Vacant(b, n),
         NEW item \in Item, NEW hash \in Nat, NEW compares \in BOOLEAN,
         compares
  PROVE  LET q == Inserted(b, item, hash, compares) IN
         \E s \in 0 .. n - 1 : FoundAt(q.buckets, s, item, hash, n)
<1> DEFINE R == Rounds(b, item, hash, compares)
<1>1. Steps(b, R, item, hash, compares, n)
  BY RoundsSteps
<1>2. Inserted(b, item, hash, compares).ended
  BY InsertionEnds
<1> HIDE DEF R
<1> DEFINE
      Here(lap) == \E s \in 0 .. lap - 1 :
                     FoundAt(R[lap].buckets, s, item, hash, n)
      Good == {lap \in Nat : Searching(R[lap], item, hash, lap, n) \/ Here(lap)}
<1>3. 0 \in Good
  BY <1>1 DEF Steps, Searching
<1>4. ASSUME NEW lap \in Nat, lap < n, lap \in Good PROVE lap + 1 \in Good
  <2> DEFINE p == R[lap]
             q == R[lap + 1]
  <2>1. lap \in 0 .. n - 1
    BY <1>4
  <2>2. /\ Progress(b, p, hash, compares, lap, n)
        /\ p.ended => q = p
        /\ ~p.ended => \/ Fills(p, q) \/ Replaces(p, q)
                       \/ (Displaces(p, q) \/ GoesOn(p, q)) /\ ~Meets(p)
    BY <1>1, <2>1 DEF Steps
  <2>3. Searching(p, item, hash, lap, n) \/ Here(lap)
    BY <1>4
  <2>4. SUFFICES \/ Searching(q, item, hash, lap + 1, n)
                 \/ \E s \in 0 .. (lap + 1) - 1 :
                      FoundAt(q.buckets, s, item, hash, n)
    OBVIOUS
  <2>5. CASE p.ended
    <3>1. q = p /\ Here(lap)
      BY <2>2, <2>3, <2>5 DEF Searching
    <3>2. PICK s \in 0 .. lap - 1 : FoundAt(p.buckets, s, item, hash, n)
      BY <3>1
    <3>3. s \in 0 .. (lap + 1) - 1
      OBVIOUS
    <3> QED
      BY <3>1, <3>2, <3>3
  <2>6. CASE ~p.ended
    <3> HIDE DEF p, q
    <3>1. /\ p \in Loop(n) /\ Table(p.buckets, n) /\ p.i = Place(hash, lap, n)
          /\ Carries(p, n)
      BY <2>2, <2>6 DEF Progress
    <3>2. /\ p.i \in 0 .. n - 1 /\ p.entry \in Bucket
          /\ p.buckets \in [0 .. n - 1 -> Bucket]
          /\ p.entry.dib # 0
      <4>1. p.entry.dib # 0
        BY <3>1 DEF Carries, At
      <4> QED
        BY <3>1, <4>1 DEF Loop
    <3>3. ASSUME NEW e \in 0 .. lap - 1
          PROVE  /\ Place(hash, e, n) \in 0 .. n - 1
                 /\ Place(hash, e, n) # p.i
      <4>1. e \in Nat /\ e \in 0 .. n - 1 /\ e # lap
        BY <2>1
      <4>2. Place(hash, e, n) # Place(hash, lap, n)
        BY <2>1, <4>1, PlaceIsOneToOne
      <4> QED
        BY <3>1, <4>1, <4>2, Places
    <3>4. \A j \in 0 .. n - 1 : j # p.i => q.buckets[j] = p.buckets[j]
      BY <2>2, <2>6, <3>2 DEF Fills, Replaces, Displaces, GoesOn, Put
    <3>5. \A e \in 0 .. lap - 1 :
            q.buckets[Place(hash, e, n)] = p.buckets[Place(hash, e, n)]
      BY <3>3, <3>4
    <3>6. CASE Here(lap)
      <4>1. PICK s \in 0 .. lap - 1 : FoundAt(p.buckets, s, item, hash, n)
        BY <3>6 DEF p
      <4>2. s \in 0 .. (lap + 1) - 1 /\ \A e \in 0 .. s - 1 : e \in 0 .. lap - 1
        OBVIOUS
      <4>3. FoundAt(q.buckets, s, item, hash, n)
        BY <3>5, <4>1, <4>2 DEF FoundAt
      <4> QED
        BY <4>2, <4>3
    <3>7. CASE Searching(p, item, hash, lap, n)
      <4>1. \A e \in 0 .. lap - 1 :
              Passes(q.buckets[Place(hash, e, n)], item, hash)
        BY <3>5, <3>7 DEF Searching
      <4>2. p.entry.item = item /\ p.entry.hash = hash
        BY <3>7 DEF Searching
      <4>3. CASE Fills(p, q) \/ Displaces(p, q)
        <5>1. q.buckets[p.i] = p.entry
          BY <3>2, <4>3 DEF Fills, Displaces, Put
        <5>2. FoundAt(q.buckets, lap, item, hash, n)
          BY <3>1, <3>2, <4>1, <4>2, <5>1 DEF FoundAt
        <5> QED
          BY <5>2
      <4>4. CASE Replaces(p, q)
        <5>1. /\ p.buckets[p.i] \in Bucket /\ p.buckets[p.i].dib # 0
              /\ p.buckets[p.i].hash = hash
          BY <3>2, <4>2, <4>4 DEF Replaces, Meets, Matches
        <5>2. q.buckets[p.i] = [p.buckets[p.i] EXCEPT !.item = item]
          BY <3>2, <4>2, <4>4 DEF Replaces, Put
        <5>3. /\ q.buckets[p.i].dib # 0 /\ q.buckets[p.i].hash = hash
              /\ q.buckets[p.i].item = item
          BY <5>1, <5>2 DEF Bucket
        <5>4. FoundAt(q.buckets, lap, item, hash, n)
          BY <3>1, <4>1, <5>3 DEF FoundAt
        <5> QED
          BY <5>4
      <4>5. CASE GoesOn(p, q) /\ ~Meets(p)
        <5>1. q.entry.item = item /\ q.entry.hash = hash /\ ~q.ended
          BY <3>2, <4>2, <4>5, Further DEF GoesOn
        <5>2. Passes(q.buckets[p.i], item, hash)
          BY <4>2, <4>5 DEF GoesOn, Meets, Matches, Passes
        <5>3. ASSUME NEW e \in 0 .. (lap + 1) - 1
              PROVE  Passes(q.buckets[Place(hash, e, n)], item, hash)
          <6>1. e = lap \/ e \in 0 .. lap - 1
            OBVIOUS
          <6> QED
            BY <3>1, <4>1, <5>2, <6>1
        <5> QED
          BY <5>1, <5>3 DEF Searching
      <4> QED
        BY <2>2, <2>6, <4>3, <4>4, <4>5
    <3> QED
      BY <2>3, <3>6, <3>7
  <2> QED
    BY <2>5, <2>6
<1> HIDE DEF Good
<1>5. n \in Good
  BY <1>3, <1>4, SetInductionTo
<1>6. R[n] = Inserted(b, item, hash, compares)
  BY <1>1 DEF Steps
<1> QED
  BY <1>2, <1>5, <1>6 DEF Good, Searching

-----------------------------------------------------------------------------
(* Moving a table. *)

(* resize puts one bucket into the new table.                               *)
Moved(b, c, item, hash, n) ==
  /\ Table(c, n) /\ Placed(c, n)
  /\ Cardinality(Occupied(c)) = Cardinality(Occupied(b)) + 1
  /\ \A T : Holds(c, n, T) <=> Holds(b, n, T) \/ <<hash, item>> \in T
  /\ Unique(b, n) /\ Fresh(b, n, [item |-> item, hash |-> hash, dib |-> 1])
       => Unique(c, n)

LEMMA OneMoved ==
  ASSUME NEW n \in Nat, n > 1, NEW b, Table(b, n), Placed(b, n), Vacant(b, n),
         NEW item \in Item, NEW hash \in Nat
  PROVE  Moved(b, Inserted(b, item, hash, FALSE).buckets, item, hash, n)
<1>1. ASSUME NEW no \in BOOLEAN, ~no
      PROVE  Moved(b, Inserted(b, item, hash, no).buckets, item, hash, n)
  <2> DEFINE q == Inserted(b, item, hash, no)
  <2>1. /\ Table(q.buckets, n) /\ Placed(q.buckets, n)
        /\ q.replaced = NULL
        /\ Cardinality(Occupied(q.buckets)) = Cardinality(Occupied(b)) + 1
    BY <1>1, InsertedTable
  <2>2. ASSUME NEW T
        PROVE  q.replaced = NULL \/ ByKey(T) =>
                 (Holds(q.buckets, n, T)
                    <=> Holds(b, n, T) \/ <<hash, item>> \in T)
    BY InsertedHolds
  <2>3. Unique(b, n) /\ Fresh(b, n, [item |-> item, hash |-> hash, dib |-> 1])
          => Unique(q.buckets, n)
    BY InsertedFresh
  <2> HIDE DEF q
  <2> QED
    BY <2>1, <2>2, <2>3 DEF Moved, q
<1>2. FALSE \in BOOLEAN /\ ~FALSE
  OBVIOUS
<1> QED
  BY <1>1, <1>2, Zenon

MovedOn(b, c, j) ==
  IF b[j].dib = 0 THEN c
  ELSE Inserted(c, b[j].item, b[j].hash, FALSE).buckets

LEMMA MovesUnfold ==
  ASSUME NEW b, NEW m \in Nat, m = Size(b), NEW n
  PROVE  /\ Moves(b, n)[0] = NewBuckets(n)
         /\ \A j \in 1 .. m :
              Moves(b, n)[j] = MovedOn(b, Moves(b, n)[j - 1], j - 1)
         /\ Resized(b, n) = Moves(b, n)[m]
<1> DEFINE first == NewBuckets(n)
           Move(c, j) ==
             IF b[j - 1].dib = 0 THEN c
             ELSE Inserted(c, b[j - 1].item, b[j - 1].hash, FALSE).buckets
           Unfolds(p, k) ==
             p = [j \in 0 .. k |-> IF j = 0 THEN first ELSE Move(p[j - 1], j)]
           Good == {k \in Nat : \E p : Unfolds(p, k)}
           all == Moves(b, n)
<1>1. all = CHOOSE p : Unfolds(p, Size(b))
  BY Zenon DEF Moves
<1> HIDE DEF first, Move
<1>2. 0 \in Good
  <2>1. Unfolds([j \in 0 .. 0 |-> first], 0)
    OBVIOUS
  <2> HIDE DEF Unfolds
  <2> QED
    BY <2>1
<1>3. ASSUME NEW k \in Nat, k \in Good PROVE k + 1 \in Good
  <2>1. PICK p : Unfolds(p, k)
    BY <1>3
  <2> DEFINE next == [j \in 0 .. k + 1 |->
                        IF j = k + 1 THEN Move(p[k], j) ELSE p[j]]
  <2>2. ASSUME NEW j \in 0 .. k + 1
        PROVE  next[j] = IF j = 0 THEN first ELSE Move(next[j - 1], j)
    BY <2>1
  <2>3. Unfolds(next, k + 1)
    BY <2>2
  <2> HIDE DEF next, Unfolds
  <2> QED
    BY <2>3
<1>4. m \in Good
  <2> HIDE DEF Good
  <2> QED
    BY <1>2, <1>3, SetInduction
<1>5. Unfolds(all, m)
  <2> HIDE DEF Unfolds, all
  <2> QED
    BY <1>1, <1>4
<1> HIDE DEF all
<1>6. all[0] = first /\ \A j \in 1 .. m : all[j] = Move(all[j - 1], j)
  BY <1>5
<1> QED
  BY <1>6 DEF all, first, Move, MovedOn, Resized

(* The first j buckets of a table that have something in them.              *)
Filled(b, j) == {i \in 0 .. j - 1 : b[i].dib # 0}

LEMMA FilledFacts ==
  ASSUME NEW b, NEW j \in Nat
  PROVE  /\ Filled(b, 0) = {}
         /\ IsFiniteSet(Filled(b, j))
         /\ Cardinality(Filled(b, j)) \in Nat
         /\ Cardinality(Filled(b, j + 1)) =
              IF b[j].dib = 0 THEN Cardinality(Filled(b, j))
              ELSE Cardinality(Filled(b, j)) + 1
<1>1. IsFiniteSet(Filled(b, j)) /\ Cardinality(Filled(b, j)) \in Nat
  <2>1. IsFiniteSet(0 .. j - 1)
    BY FS_Interval
  <2> QED
    BY <2>1, FS_Subset, FS_CardinalityType DEF Filled
<1>2. Filled(b, 0) = {}
  BY DEF Filled
<1>3. CASE b[j].dib = 0
  <2>1. Filled(b, j + 1) = Filled(b, j)
    BY <1>3 DEF Filled
  <2> QED
    BY <1>1, <1>2, <1>3, <2>1
<1>4. CASE b[j].dib # 0
  <2>1. Filled(b, j + 1) = Filled(b, j) \union {j} /\ j \notin Filled(b, j)
    BY <1>4 DEF Filled
  <2> QED
    BY <1>1, <1>2, <1>4, <2>1, FS_AddElement
<1> QED
  BY <1>3, <1>4

(* A new table has place for everything.                                    *)
LEMMA NewTable ==
  ASSUME NEW n \in Nat, n > 1
  PROVE  /\ Table(NewBuckets(n), n) /\ Placed(NewBuckets(n), n)
         /\ \A i \in 0 .. n - 1 : NewBuckets(n)[i].dib = 0
         /\ Occupied(NewBuckets(n)) = {}
<1>1. /\ NewBuckets(n) \in [0 .. n - 1 -> Bucket]
      /\ \A i \in 0 .. n - 1 : NewBuckets(n)[i].dib = 0
  BY DEF NewBuckets, Empty, Bucket
<1> DEFINE new == NewBuckets(n)
<1> HIDE DEF new
<1>2. Table(new, n)
  BY <1>1 DEF Table, new
<1>3. Placed(new, n)
  <2>1. \A i \in 0 .. n - 1 : Following(i, n) \in 0 .. n - 1
    BY Neighbours
  <2>2. \A i \in 0 .. n - 1 : new[i].dib = 0
    BY <1>1 DEF new
  <2> QED
    BY <2>1, <2>2 DEF Placed
<1>4. Occupied(new) = {}
  BY <1>1, <1>2, TableFacts DEF new
<1> QED
  BY <1>1, <1>2, <1>3, <1>4 DEF new

(* The first j buckets of b have been moved to c.                           *)
MovedTo(b, c, j, n) ==
  /\ Table(c, n) /\ Placed(c, n)
  /\ Cardinality(Occupied(c)) = Cardinality(Filled(b, j))
  /\ \A T : Holds(c, n, T) <=> Holds(b, j, T)
  /\ Unique(b, j) => Unique(c, n)

LEMMA OneMoreMoved ==
  ASSUME NEW n \in Nat, n > 1, NEW m \in Nat, NEW b, Table(b, m),
         Cardinality(Filled(b, m)) < n, NEW j \in 0 .. m - 1,
         NEW c, MovedTo(b, c, j, n)
  PROVE  MovedTo(b, MovedOn(b, c, j), j + 1, n)
<1> DEFINE d == Inserted(c, b[j].item, b[j].hash, FALSE).buckets
<1>0. j \in Nat /\ (j + 1) - 1 = j /\ 0 .. (j + 1) - 1 = (0 .. j - 1) \union {j}
  OBVIOUS
<1>1. CASE b[j].dib = 0
  <2>1. Cardinality(Filled(b, j + 1)) = Cardinality(Filled(b, j))
    BY <1>0, <1>1, FilledFacts
  <2>2. \A T : Holds(b, j + 1, T) <=> Holds(b, j, T)
    BY <1>0, <1>1 DEF Holds
  <2>3. Unique(b, j + 1) => Unique(b, j)
    BY <1>0 DEF Unique
  <2>4. MovedTo(b, c, j + 1, n)
    BY <2>1, <2>2, <2>3 DEF MovedTo
  <2> QED
    BY <1>1, <2>4 DEF MovedOn
<1>2. CASE b[j].dib # 0
  <2>1. /\ b[j].item \in Item /\ b[j].hash \in Nat
    BY <1>2, TableFacts DEF Table
  <2>2. Cardinality(Filled(b, j + 1)) = Cardinality(Filled(b, j)) + 1
    BY <1>0, <1>2, FilledFacts
  <2>3. Cardinality(Filled(b, j + 1)) <= Cardinality(Filled(b, m))
    <3>1. Filled(b, j + 1) \subseteq Filled(b, m)
      BY DEF Filled
    <3> QED
      BY <3>1, FilledFacts, FS_Subset
  <2>4. Vacant(c, n)
    <3>1. Cardinality(Occupied(c)) < n
      <4> DEFINE x == Cardinality(Filled(b, j))
                 y == Cardinality(Filled(b, m))
      <4>1. x \in Nat /\ y \in Nat /\ x + 1 <= y /\ y < n
        BY <1>0, <2>2, <2>3, FilledFacts
      <4>2. Cardinality(Occupied(c)) = x
        BY DEF MovedTo
      <4> HIDE DEF x, y
      <4> QED
        BY <4>1, <4>2
    <3> QED
      BY <3>1, FewerLeaveVacancy DEF MovedTo
  <2>5. Moved(c, d, b[j].item, b[j].hash, n)
    <3>1. Table(c, n) /\ Placed(c, n)
      BY DEF MovedTo
    <3> QED
      BY <2>1, <2>4, <3>1, OneMoved
  <2> HIDE DEF d
  <2>6. ASSUME NEW T PROVE Holds(d, n, T) <=> Holds(b, j + 1, T)
    <3>1. Holds(d, n, T) <=> Holds(c, n, T) \/ <<b[j].hash, b[j].item>> \in T
      BY <2>5 DEF Moved
    <3>2. Holds(c, n, T) <=> Holds(b, j, T)
      BY DEF MovedTo
    <3>3. Holds(b, j + 1, T)
            <=> Holds(b, j, T) \/ <<b[j].hash, b[j].item>> \in T
      BY <1>0, <1>2 DEF Holds
    <3> QED
      BY <3>1, <3>2, <3>3
  <2>7. ASSUME Unique(b, j + 1) PROVE Unique(d, n)
    <3> DEFINE e == [item |-> b[j].item, hash |-> b[j].hash, dib |-> 1]
    <3>1. Unique(b, j)
      BY <1>0, <2>7 DEF Unique
    <3>2. ASSUME NEW i \in 0 .. n - 1, c[i].dib # 0, Same(c[i], e)
          PROVE  FALSE
      <4> DEFINE T == {<<c[i].hash, c[i].item>>}
      <4>1. Holds(c, n, T)
        BY <3>2 DEF Holds
      <4> HIDE DEF T
      <4>2. Holds(b, j, T)
        BY <4>1 DEF MovedTo
      <4>3. PICK k \in 0 .. j - 1 :
              b[k].dib # 0 /\ <<b[k].hash, b[k].item>> \in T
        BY <4>2 DEF Holds
      <4>4. b[k].hash = c[i].hash /\ b[k].item = c[i].item
        BY <4>3 DEF T
      <4>5. Same(b[k], b[j])
        BY <3>2, <4>4 DEF Same
      <4> QED
        BY <1>0, <1>2, <2>7, <4>3, <4>5 DEF Unique
    <3>3. Fresh(c, n, e)
      <4> HIDE DEF e
      <4> QED
        BY <3>2 DEF Fresh
    <3> QED
      BY <2>5, <3>1, <3>3 DEF Moved, MovedTo
  <2>8. MovedTo(b, d, j + 1, n)
    BY <2>2, <2>5, <2>6, <2>7 DEF MovedTo, Moved
  <2> QED
    BY <1>2, <2>8 DEF d, MovedOn
<1> QED
  BY <1>1, <1>2

(* resize loses nothing, doubles nothing and places everything.             *)
LEMMA ResizedTable ==
  ASSUME NEW n \in Nat, n > 1, NEW m \in Nat, NEW b, Table(b, m),
         Cardinality(Occupied(b)) < n
  PROVE  MovedTo(b, Resized(b, n), m, n) /\ Occupied(b) = Filled(b, m)
<1> DEFINE p == Moves(b, n)
           Good == {j \in Nat : MovedTo(b, p[j], j, n)}
<1>1. Size(b) = m /\ Occupied(b) = Filled(b, m)
  BY TableFacts DEF Filled
<1>2. /\ p[0] = NewBuckets(n)
      /\ \A j \in 1 .. m :
           p[j] = MovedOn(b, p[j - 1], j - 1)
      /\ Resized(b, n) = p[m]
  BY <1>1, MovesUnfold
<1> HIDE DEF p
<1>3. 0 \in Good
  <2> DEFINE new == NewBuckets(n)
  <2>1. /\ Table(new, n) /\ Placed(new, n)
        /\ \A i \in 0 .. n - 1 : new[i].dib = 0
        /\ Occupied(new) = {} /\ Filled(b, 0) = {}
    BY NewTable, FilledFacts
  <2> HIDE DEF new
  <2>2. MovedTo(b, new, 0, n)
    <3>1. /\ ~\E i \in 0 .. 0 - 1 : TRUE
          /\ Cardinality(Occupied(new)) = Cardinality(Filled(b, 0))
      BY <2>1
    <3>2. \A T : Holds(new, n, T) <=> Holds(b, 0, T)
      BY <2>1, <3>1 DEF Holds
    <3>3. Unique(new, n)
      BY <2>1 DEF Unique
    <3> QED
      BY <2>1, <3>1, <3>2, <3>3 DEF MovedTo
  <2> QED
    BY <1>2, <2>2 DEF new
<1>4. ASSUME NEW j \in Nat, j < m, j \in Good PROVE j + 1 \in Good
  <2>1. j \in 0 .. m - 1 /\ j + 1 \in 1 .. m /\ (j + 1) - 1 = j
    BY <1>4
  <2>2. p[j + 1] = MovedOn(b, p[j], j)
    BY <1>2, <2>1
  <2>3. MovedTo(b, MovedOn(b, p[j], j), j + 1, n)
    BY <1>1, <1>4, <2>1, OneMoreMoved
  <2> QED
    BY <2>2, <2>3
<1> HIDE DEF Good
<1>5. m \in Good
  BY <1>3, <1>4, SetInductionTo
<1> QED
  BY <1>1, <1>2, <1>5 DEF Good

-----------------------------------------------------------------------------
(* Deleting. *)

(* c is b after the deletion of bucket i: the m - 1 buckets behind it, none *)
(* of them at home, have moved back by one, bucket m is empty or at home.   *)
Shifted(b, c, i, m, n) ==
  /\ c \in [0 .. n - 1 -> Bucket]
  /\ b[Place(i, m, n)].dib <= 1
  /\ \A e \in 1 .. m - 1 : b[Place(i, e, n)].dib > 1
  /\ \A e \in 0 .. m - 2 :
       /\ c[Place(i, e, n)].item = b[Place(i, e + 1, n)].item
       /\ c[Place(i, e, n)].hash = b[Place(i, e + 1, n)].hash
       /\ c[Place(i, e, n)].dib = b[Place(i, e + 1, n)].dib - 1
  /\ c[Place(i, m - 1, n)].dib = 0
  /\ \A e \in m .. n - 1 : c[Place(i, e, n)] = b[Place(i, e, n)]

LEMMA LeastIsMin ==
  ASSUME NEW S \in SUBSET Nat, NEW x \in S
  PROVE  Min(S) \in S /\ \A y \in S : Min(S) <= y
<1>1. \E z \in S : \A y \in S : z <= y
  BY Least
<1> QED
  BY <1>1 DEF Min

LEMMA ShiftedBackIs ==
  ASSUME NEW n \in Nat, n > 1, NEW b, Table(b, n), Vacant(b, n),
         NEW i \in 0 .. n - 1, b[i].dib # 0
  PROVE  \E m \in 1 .. n - 1 : Shifted(b, ShiftedBack(b, i), i, m, n)
<1> DEFINE Ends == {d \in 1 .. n : d = n \/ b[Place(i, d, n)].dib <= 1}
           last == Min(Ends) - 1
           Back(j, d) == IF d < last
                         THEN [b[Following(j, n)] EXCEPT !.dib = @ - 1]
                         ELSE IF d = last THEN Empty ELSE b[j]
           c == ShiftedBack(b, i)
<1>1. c = [j \in 0 .. n - 1 |-> Back(j, Rem(j + n - i, n))]
  <2>1. Size(b) = n /\ DOMAIN b = 0 .. n - 1
    BY TableFacts
  <2>2. \A j \in 0 .. n - 1 : Rem(j + 1, n) = Following(j, n)
    BY Neighbours
  <2>3. c = [j \in 0 .. n - 1 |->
               LET d == Rem(j + n - i, n) IN
               IF d < last THEN [b[Rem(j + 1, n)] EXCEPT !.dib = @ - 1]
               ELSE IF d = last THEN Empty
               ELSE b[j]]
    BY <2>1 DEF ShiftedBack, Rem, Place
  <2> HIDE DEF last, c
  <2> QED
    BY <2>2, <2>3
<1>2. Place(i, 0, n) = i
  BY Places, SmallRemainder
<1>3. PICK z \in 1 .. n - 1 : b[Place(i, z, n)].dib = 0
  <2>1. PICK j \in 0 .. n - 1 : b[j].dib = 0
    BY DEF Vacant
  <2>2. PICK d \in 0 .. n - 1 : Place(i, d, n) = j
    BY <2>1, PlaceReaches
  <2>3. d # 0
    BY <1>2, <2>1, <2>2
  <2> QED
    BY <2>1, <2>2, <2>3
<1>4. PICK m \in 1 .. n - 1 :
        /\ last = m - 1 /\ b[Place(i, m, n)].dib <= 1
        /\ \A e \in 1 .. m - 1 : ~(b[Place(i, e, n)].dib <= 1)
  <2>1. Ends \in SUBSET Nat /\ z \in Ends
    BY <1>3
  <2>2. Min(Ends) \in Ends /\ \A y \in Ends : Min(Ends) <= y
    <3> HIDE DEF Ends
    <3> QED
      BY <2>1, LeastIsMin
  <2>3. PICK m \in Ends : m = Min(Ends) /\ \A y \in Ends : m <= y
    BY <2>2
  <2>4. m \in 1 .. n - 1 /\ b[Place(i, m, n)].dib <= 1
    BY <2>1, <2>3
  <2>5. ASSUME NEW e \in 1 .. m - 1 PROVE ~(b[Place(i, e, n)].dib <= 1)
    <3>1. e \in 1 .. n /\ ~(m <= e)
      BY <2>4
    <3> QED
      BY <2>3, <3>1
  <2> HIDE DEF Ends
  <2> QED
    BY <2>3, <2>4, <2>5
<1> HIDE DEF c, last
<1>5. ASSUME NEW e \in 0 .. n - 1
      PROVE  /\ Place(i, e, n) \in 0 .. n - 1
             /\ Following(Place(i, e, n), n) = Place(i, e + 1, n)
             /\ c[Place(i, e, n)] = Back(Place(i, e, n), e)
  <2>1. PICK j \in 0 .. n - 1 : j = Place(i, e, n)
    BY Places
  <2>2. Place(i, e + 1, n) = Following(Place(i, e, n), n)
    BY Places
  <2>3. PICK d \in 0 .. n - 1 : d = Rem(j + n - i, n) /\ Place(i, d, n) = j
    BY Distance
  <2>4. d = e
    BY <2>1, <2>3, PlaceIsOneToOne
  <2>5. c[j] = Back(j, d)
    <3> HIDE DEF Back
    <3> QED
      BY <1>1, <2>3
  <2> HIDE DEF Back
  <2> QED
    BY <2>1, <2>2, <2>4, <2>5
<1>6. \A j \in 0 .. n - 1 : b[j] \in Bucket
  BY TableFacts
<1>7. ASSUME NEW f \in 1 .. m - 1
      PROVE  b[Place(i, f, n)] \in Bucket /\ ~(b[Place(i, f, n)].dib <= 1)
  <2>1. f \in 0 .. n - 1
    OBVIOUS
  <2>2. Place(i, f, n) \in 0 .. n - 1
    BY <1>5, <2>1
  <2> QED
    BY <1>4, <1>6, <2>2
<1>8. ASSUME NEW e \in 0 .. m - 2
      PROVE  /\ c[Place(i, e, n)] \in Bucket
             /\ c[Place(i, e, n)].item = b[Place(i, e + 1, n)].item
             /\ c[Place(i, e, n)].hash = b[Place(i, e + 1, n)].hash
             /\ c[Place(i, e, n)].dib = b[Place(i, e + 1, n)].dib - 1
  <2>1. e \in 0 .. n - 1 /\ e + 1 \in 0 .. n - 1 /\ e + 1 \in 1 .. m - 1
    OBVIOUS
  <2>2. PICK here : here = b[Place(i, e + 1, n)]
    OBVIOUS
  <2>3. here \in Bucket /\ ~(here.dib <= 1)
    BY <1>7, <2>1, <2>2
  <2>4. c[Place(i, e, n)] = [here EXCEPT !.dib = @ - 1]
    <3>1. e < last /\ e \in 0 .. n - 1
      BY <1>4, <2>1
    <3>2. PICK j : j = Place(i, e, n)
      OBVIOUS
    <3>3. c[j] = [b[Following(j, n)] EXCEPT !.dib = @ - 1]
      BY <1>5, <3>1, <3>2
    <3>4. b[Following(j, n)] = here
      BY <1>5, <2>2, <3>1, <3>2
    <3> HIDE DEF c
    <3> QED
      BY <3>2, <3>3, <3>4
  <2>5. [here EXCEPT !.dib = @ - 1] =
          [item |-> here.item, hash |-> here.hash, dib |-> here.dib - 1]
    BY <2>3 DEF Bucket
  <2>6. /\ here.item \in Item \union {NULL} /\ here.hash \in Nat
        /\ here.dib - 1 \in Nat
    BY <2>3 DEF Bucket
  <2> QED
    <3>1. PICK now : now = c[Place(i, e, n)]
      OBVIOUS
    <3>2. now = [item |-> here.item, hash |-> here.hash, dib |-> here.dib - 1]
      BY <2>4, <2>5, <3>1
    <3>3. /\ now \in Bucket /\ now.item = here.item /\ now.hash = here.hash
          /\ now.dib = here.dib - 1
      BY <2>6, <3>2 DEF Bucket
    <3> QED
      BY <2>2, <3>1, <3>3
<1>9. c[Place(i, m - 1, n)] = Empty
  <2>1. PICK e \in 0 .. n - 1 : e = m - 1
    OBVIOUS
  <2>2. e = last /\ ~(e < last)
    BY <1>4, <2>1
  <2>3. c[Place(i, e, n)] = Empty
    BY <1>5, <2>2
  <2> QED
    BY <2>1, <2>3
<1>10. ASSUME NEW e \in m .. n - 1
      PROVE  c[Place(i, e, n)] = b[Place(i, e, n)]
  <2>1. PICK f \in 0 .. n - 1 : f = e
    OBVIOUS
  <2>2. ~(f < last) /\ f # last
    BY <1>4, <2>1
  <2>3. c[Place(i, f, n)] = b[Place(i, f, n)]
    BY <1>5, <2>2
  <2> QED
    BY <2>1, <2>3
<1>11. c \in [0 .. n - 1 -> Bucket]
  <2>1. ASSUME NEW j \in 0 .. n - 1 PROVE c[j] \in Bucket
    <3>1. PICK e \in 0 .. n - 1 : Place(i, e, n) = j
      <4>1. i \in Nat
        OBVIOUS
      <4> QED
        BY <4>1, PlaceReaches
    <3>2. e \in 0 .. m - 2 \/ e = m - 1 \/ e \in m .. n - 1
      OBVIOUS
    <3>3. Empty \in Bucket
      BY DEF Empty, Bucket
    <3> QED
      BY <1>6, <1>8, <1>9, <1>10, <3>1, <3>2, <3>3
  <2>2. c = [j \in 0 .. n - 1 |-> c[j]]
    <3> HIDE DEF Back
    <3> QED
      BY <1>1
  <2> QED
    BY <2>1, <2>2
<1>12. Empty.dib = 0
  BY DEF Empty
<1>13. \A e \in 1 .. m - 1 : b[Place(i, e, n)].dib > 1
  <2>1. ASSUME NEW e \in 1 .. m - 1 PROVE b[Place(i, e, n)].dib > 1
    <3>1. b[Place(i, e, n)].dib \in Nat
      <4>1. e \in 0 .. n - 1
        OBVIOUS
      <4> QED
        BY <1>5, <4>1, TableFacts
    <3> QED
      BY <1>4, <3>1
  <2> QED
    BY <2>1
<1>14. Shifted(b, c, i, m, n)
  BY <1>4, <1>8, <1>9, <1>10, <1>11, <1>12, <1>13 DEF Shifted
<1> QED
  BY <1>14 DEF c

(* Where a bucket of c comes from, as distances from i.                     *)
From(e, m) == IF e < m - 1 THEN e + 1 ELSE e

LEMMA ShiftedFrom ==
  ASSUME NEW n \in Nat, n > 1, NEW b, Table(b, n), NEW c,
         NEW i \in 0 .. n - 1, NEW m \in 1 .. n - 1, Shifted(b, c, i, m, n),
         NEW e \in 0 .. n - 1
  PROVE  IF e = m - 1
         THEN c[Place(i, e, n)].dib = 0
         ELSE LET here == c[Place(i, e, n)]
                  origin == b[Place(i, From(e, m), n)]
              IN  /\ From(e, m) \in 1 .. n - 1
                  /\ here.item = origin.item /\ here.hash = origin.hash
                  /\ here.dib # 0 <=> origin.dib # 0
                  /\ IF e < m - 1 THEN here.dib = origin.dib - 1 /\ here.dib # 0
                     ELSE here = origin
<1>1. CASE e = m - 1
  BY <1>1 DEF Shifted
<1>2. CASE e < m - 1
  <2>1. e \in 0 .. m - 2 /\ e + 1 \in 1 .. m - 1 /\ From(e, m) = e + 1
    BY <1>2 DEF From
  <2>2. PICK f \in 1 .. m - 1 : f = e + 1
    BY <2>1
  <2>3. /\ b[Place(i, f, n)].dib > 1
        /\ c[Place(i, e, n)].item = b[Place(i, f, n)].item
        /\ c[Place(i, e, n)].hash = b[Place(i, f, n)].hash
        /\ c[Place(i, e, n)].dib = b[Place(i, f, n)].dib - 1
    BY <2>1, <2>2 DEF Shifted
  <2>4. b[Place(i, f, n)].dib \in Nat
    <3>1. i \in Nat /\ f \in Nat
      OBVIOUS
    <3>2. Place(i, f, n) \in 0 .. n - 1
      BY <3>1, Places
    <3> QED
      BY <3>2, TableFacts
  <2>5. b[Place(i, f, n)].dib # 0 /\ b[Place(i, f, n)].dib - 1 # 0
    BY <2>3, <2>4
  <2> QED
    BY <1>2, <2>1, <2>2, <2>3, <2>5
<1>3. CASE e > m - 1
  <2>1. e \in m .. n - 1 /\ From(e, m) = e /\ ~(e < m - 1) /\ e # m - 1
    BY <1>3 DEF From
  <2>2. c[Place(i, e, n)] = b[Place(i, e, n)]
    BY <2>1 DEF Shifted
  <2> QED
    BY <2>1, <2>2
<1> QED
  BY <1>1, <1>2, <1>3

(* A deletion takes one bucket away, and keeps the others.                  *)
LEMMA ShiftedTable ==
  ASSUME NEW n \in Nat, n > 1, NEW b, Table(b, n), NEW c,
         NEW i \in 0 .. n - 1, b[i].dib # 0,
         NEW m \in 1 .. n - 1, Shifted(b, c, i, m, n)
  PROVE  /\ Table(c, n)
         /\ Cardinality(Occupied(c)) = Cardinality(Occupied(b)) - 1
<1>0. i \in Nat
  OBVIOUS
<1>1. Table(c, n)
  <2>1. ASSUME NEW j \in 0 .. n - 1, c[j].dib # 0 PROVE c[j].item \in Item
    <3>1. PICK e \in 0 .. n - 1 : Place(i, e, n) = j
      BY <1>0, PlaceReaches
    <3>2. PICK k \in 0 .. n - 1 : c[j].item = b[k].item /\ b[k].dib # 0
      <4>1. From(e, m) \in Nat => Place(i, From(e, m), n) \in 0 .. n - 1
        BY <1>0, Places
      <4> QED
        BY <2>1, <3>1, <4>1, ShiftedFrom
    <3> QED
      BY <3>2 DEF Table
  <2>2. c \in [0 .. n - 1 -> Bucket]
    BY DEF Shifted
  <2> QED
    BY <2>1, <2>2 DEF Table
<1>2. PICK z \in 0 .. n - 1 : z = Place(i, m - 1, n)
  BY <1>0, Places
<1>3. ASSUME NEW j \in 0 .. n - 1
      PROVE  c[j].dib # 0 <=> b[j].dib # 0 /\ j # z
  <2>1. PICK e \in 0 .. n - 1 : Place(i, e, n) = j
    BY <1>0, PlaceReaches
  <2>2. CASE e = m - 1
    BY <1>2, <2>1, <2>2, ShiftedFrom
  <2>3. CASE e # m - 1
    <3>1. j # z
      <4>1. m - 1 \in 0 .. n - 1
        OBVIOUS
      <4> QED
        BY <1>0, <1>2, <2>1, <2>3, <4>1, PlaceIsOneToOne
    <3>2. CASE e > m - 1
      <4>1. From(e, m) = e /\ ~(e < m - 1)
        BY <3>2 DEF From
      <4> QED
        BY <2>1, <2>3, <3>1, <4>1, ShiftedFrom
    <3>3. CASE e < m - 1
      <4>1. c[j].dib # 0
        BY <2>1, <2>3, <3>3, ShiftedFrom
      <4>2. b[j].dib # 0
        <5>1. CASE e = 0
          <6>1. Place(i, 0, n) = i
            BY <1>0, Places, SmallRemainder
          <6> QED
            BY <2>1, <5>1, <6>1
        <5>2. CASE e # 0
          <6>1. e \in 1 .. m - 1
            BY <3>3, <5>2
          <6>2. b[j].dib > 1
            BY <2>1, <6>1 DEF Shifted
          <6>3. b[j].dib \in Nat
            BY TableFacts
          <6> QED
            BY <6>2, <6>3
        <5> QED
          BY <5>1, <5>2
      <4> QED
        BY <3>1, <4>1, <4>2
    <3> QED
      BY <2>3, <3>2, <3>3
  <2> QED
    BY <2>2, <2>3
<1>4. b[z].dib # 0
  <2>1. CASE m = 1
    <3>1. Place(i, 0, n) = i
      BY <1>0, Places, SmallRemainder
    <3> QED
      BY <1>2, <2>1, <3>1
  <2>2. CASE m # 1
    <3>1. m - 1 \in 1 .. m - 1
      BY <2>2
    <3>2. b[z].dib > 1
      BY <1>2, <3>1 DEF Shifted
    <3>3. b[z].dib \in Nat
      BY TableFacts
    <3> QED
      BY <3>2, <3>3
  <2> QED
    BY <2>1, <2>2
<1>5. /\ Occupied(b) = {j \in 0 .. n - 1 : b[j].dib # 0}
      /\ Occupied(c) = {j \in 0 .. n - 1 : c[j].dib # 0}
      /\ IsFiniteSet(Occupied(b))
  BY <1>1, TableFacts
<1>6. Occupied(c) = Occupied(b) \ {z} /\ z \in Occupied(b)
  BY <1>3, <1>4, <1>5
<1> QED
  BY <1>1, <1>5, <1>6, FS_RemoveElement

(* A bucket that has come further than its home can move back by one.       *)
LEMMA AtPreceding ==
  ASSUME NEW n \in Nat, n > 1, NEW i \in 0 .. n - 1, NEW hash \in Nat,
         NEW dib \in Nat, dib > 1, At(Following(i, n), hash, dib, n)
  PROVE  At(i, hash, dib - 1, n)
<1>1. PICK d \in Nat : dib = d + 1 /\ Following(i, n) = Place(hash, d, n)
  BY DEF At
<1>2. PICK e \in Nat : d = e + 1 /\ dib - 1 = e + 1
  BY <1>1
<1>3. /\ Place(hash, e, n) \in 0 .. n - 1
      /\ Following(Place(hash, e, n), n) = Following(i, n)
  BY <1>1, <1>2, Places
<1>4. Place(hash, e, n) = i
  BY <1>3, Neighbours
<1> QED
  BY <1>2, <1>4 DEF At

LEMMA ShiftedPlaced ==
  ASSUME NEW n \in Nat, n > 1, NEW b, Table(b, n), Placed(b, n), NEW c,
         NEW i \in 0 .. n - 1, b[i].dib # 0,
         NEW m \in 1 .. n - 1, Shifted(b, c, i, m, n)
  PROVE  Placed(c, n)
<1>0. i \in Nat /\ Place(i, 0, n) = i
  BY Places, SmallRemainder
<1>1. Table(c, n)
  BY ShiftedTable
<1>2. ASSUME NEW e \in 0 .. n - 1
      PROVE  /\ Place(i, e, n) \in 0 .. n - 1
             /\ Following(Place(i, e, n), n) = Place(i, e + 1, n)
             /\ c[Place(i, e, n)].dib \in Nat /\ b[Place(i, e, n)].dib \in Nat
             /\ b[Place(i, e, n)].hash \in Nat
  <2>1. e \in Nat
    OBVIOUS
  <2>2. /\ Place(i, e, n) \in 0 .. n - 1
        /\ Following(Place(i, e, n), n) = Place(i, e + 1, n)
    BY <1>0, <2>1, Places
  <2> QED
    BY <1>1, <2>2, TableFacts
<1>3. Place(i, (n - 1) + 1, n) = i
  <2>1. Place(i, n, n) = Rem(i + n, n)
    BY DEF Place
  <2>2. i + n \in Nat /\ n <= i + n /\ i + n < 2 * n /\ (i + n) - n = i
    OBVIOUS
  <2>3. Rem(i + n, n) = i
    BY <2>2, SmallRemainder
  <2> QED
    BY <2>1, <2>3
(* The distance from home. *)
<1>4. ASSUME NEW e \in 0 .. n - 1, NEW j, j = Place(i, e, n), c[j].dib # 0
      PROVE  At(j, c[j].hash, c[j].dib, n)
  <2>1. e # m - 1
    BY <1>4, ShiftedFrom
  <2>2. CASE e < m - 1
    <3>1. PICK k \in 0 .. n - 1 : k = Place(i, e + 1, n)
      <4>1. e + 1 \in 0 .. n - 1
        BY <2>2
      <4> QED
        BY <1>2, <4>1
    <3>2. /\ From(e, m) = e + 1
          /\ c[j].hash = b[k].hash /\ c[j].dib = b[k].dib - 1
          /\ b[k].dib # 0
      <4>1. From(e, m) = e + 1
        BY <2>2 DEF From
      <4> QED
        BY <1>4, <2>2, <3>1, <4>1, ShiftedFrom
    <3>3. b[k].dib \in Nat /\ b[k].hash \in Nat
      BY TableFacts
    <3>4. b[k].dib > 1
      BY <1>4, <3>2, <3>3
    <3>5. At(k, b[k].hash, b[k].dib, n)
      BY <3>2 DEF Placed
    <3>6. k = Following(j, n) /\ j \in 0 .. n - 1
      BY <1>2, <1>4, <3>1
    <3> QED
      BY <3>2, <3>3, <3>4, <3>5, <3>6, AtPreceding
  <2>3. CASE e > m - 1
    <3>1. c[j] = b[j]
      <4>1. From(e, m) = e /\ ~(e < m - 1)
        BY <2>3 DEF From
      <4> QED
        BY <1>4, <2>1, <4>1, ShiftedFrom
    <3>2. j \in 0 .. n - 1
      BY <1>2, <1>4
    <3> QED
      BY <1>4, <3>1, <3>2 DEF Placed
  <2> QED
    BY <2>1, <2>2, <2>3
(* The bucket behind. *)
<1>5. ASSUME NEW e \in 0 .. n - 1
      PROVE  b[Place(i, e + 1, n)].dib <= b[Place(i, e, n)].dib + 1
  BY <1>2 DEF Placed
<1>6. ASSUME NEW e \in 0 .. n - 1
      PROVE  c[Place(i, e + 1, n)].dib <= c[Place(i, e, n)].dib + 1
  <2> DEFINE B(x) == b[Place(i, x, n)].dib
             C(x) == c[Place(i, x, n)].dib
  <2>1. \A x \in 0 .. n - 1 : B(x) \in Nat /\ C(x) \in Nat
    BY <1>2
  <2>2. \A x \in 0 .. n - 1 : B(x + 1) <= B(x) + 1
    BY <1>5
  <2>3. B((n - 1) + 1) = B(0) /\ C((n - 1) + 1) = C(0)
    BY <1>0, <1>3
  <2>4. /\ \A x \in 0 .. m - 2 : C(x) = B(x + 1) - 1
        /\ C(m - 1) = 0 /\ B(m) <= 1
        /\ \A x \in m .. n - 1 : C(x) = B(x)
    BY DEF Shifted
  <2> HIDE DEF B, C
  <2>5. CASE e + 1 <= m - 2
    <3>1. C(e) = B(e + 1) - 1 /\ C(e + 1) = B((e + 1) + 1) - 1
      BY <2>4, <2>5
    <3>2. B((e + 1) + 1) <= B(e + 1) + 1
      BY <2>2, <2>5
    <3>3. B(e + 1) \in Nat /\ B((e + 1) + 1) \in Nat
      <4>1. e + 1 \in 0 .. n - 1 /\ (e + 1) + 1 \in 0 .. n - 1
        BY <2>5
      <4> QED
        BY <2>1, <4>1
    <3> QED
      BY <3>1, <3>2, <3>3 DEF C
  <2>6. CASE e + 1 = m - 1
    <3>1. C(e + 1) = 0 /\ C(e) \in Nat
      BY <2>1, <2>4, <2>6
    <3> QED
      BY <3>1 DEF C
  <2>7. CASE e = m - 1
    <3>1. C(e) = 0 /\ C(e + 1) = B(m) /\ e + 1 = m
      BY <2>4, <2>7
    <3>2. C(e + 1) <= 1
      BY <2>4, <3>1
    <3> QED
      BY <3>1, <3>2 DEF C
  <2>8. CASE e >= m /\ e # n - 1
    <3>1. C(e) = B(e) /\ C(e + 1) = B(e + 1)
      BY <2>4, <2>8
    <3> QED
      BY <2>2, <3>1 DEF C
  <2>9. CASE e >= m /\ e = n - 1
    <3>1. C(e) = B(e) /\ C(e + 1) = C(0) /\ B(0) <= B(e) + 1 /\ B(e) \in Nat
      BY <2>1, <2>2, <2>3, <2>4, <2>9
    <3>2. CASE m = 1
      <4>1. C(0) = 0
        BY <2>4, <3>2
      <4> QED
        BY <3>1, <4>1 DEF C
    <3>3. CASE m # 1
      <4>1. C(0) = B(0 + 1) - 1 /\ B(0 + 1) <= B(0) + 1
        BY <2>2, <2>4, <3>3
      <4>2. B(0) \in Nat /\ B(0 + 1) \in Nat
        BY <2>1
      <4>3. C(0) <= B(0)
        BY <4>1, <4>2
      <4> QED
        BY <3>1, <4>1, <4>2, <4>3 DEF C
    <3> QED
      BY <3>2, <3>3
  <2> QED
    BY <2>5, <2>6, <2>7, <2>8, <2>9
<1>7. ASSUME NEW j \in 0 .. n - 1
      PROVE  /\ c[j].dib # 0 => At(j, c[j].hash, c[j].dib, n)
             /\ c[Following(j, n)].dib <= c[j].dib + 1
  <2>1. PICK e \in 0 .. n - 1 : Place(i, e, n) = j
    BY <1>0, PlaceReaches
  <2> QED
    BY <1>2, <1>4, <1>6, <2>1
<1> QED
  BY <1>7 DEF Placed

(* What it takes away is what was in bucket i.                              *)
LEMMA ShiftedHolds ==
  ASSUME NEW n \in Nat, n > 1, NEW b, Table(b, n), NEW c,
         NEW i \in 0 .. n - 1, b[i].dib # 0,
         NEW m \in 1 .. n - 1, Shifted(b, c, i, m, n)
  PROVE  /\ \A T : Holds(c, n, T) <=>
                     \E j \in 0 .. n - 1 : /\ j # i /\ b[j].dib # 0
                                           /\ <<b[j].hash, b[j].item>> \in T
         /\ Unique(b, n) => Unique(c, n)
<1>0. i \in Nat /\ Place(i, 0, n) = i
  BY Places, SmallRemainder
<1>1. ASSUME NEW e \in 1 .. n - 1
      PROVE  Place(i, e, n) \in 0 .. n - 1 /\ Place(i, e, n) # i
  <2>1. e \in Nat /\ e \in 0 .. n - 1 /\ 0 \in 0 .. n - 1 /\ e # 0
    OBVIOUS
  <2>2. Place(i, e, n) # Place(i, 0, n)
    BY <1>0, <2>1, PlaceIsOneToOne
  <2> QED
    BY <1>0, <2>1, <2>2, Places
<1>2. ASSUME NEW j \in 0 .. n - 1, c[j].dib # 0
      PROVE  \E e \in 0 .. n - 1, f \in 1 .. n - 1 :
               /\ j = Place(i, e, n) /\ e # m - 1 /\ f = From(e, m)
               /\ b[Place(i, f, n)].dib # 0
               /\ c[j].item = b[Place(i, f, n)].item
               /\ c[j].hash = b[Place(i, f, n)].hash
  <2>1. PICK e \in 0 .. n - 1 : Place(i, e, n) = j
    BY <1>0, PlaceReaches
  <2>2. e # m - 1
    BY <1>2, <2>1, ShiftedFrom
  <2>3. PICK f : f = From(e, m)
    OBVIOUS
  <2>4. /\ f \in 1 .. n - 1
        /\ c[j].item = b[Place(i, f, n)].item
        /\ c[j].hash = b[Place(i, f, n)].hash
        /\ c[j].dib # 0 <=> b[Place(i, f, n)].dib # 0
    BY <2>1, <2>2, <2>3, ShiftedFrom
  <2> QED
    BY <1>2, <2>1, <2>2, <2>3, <2>4
<1>3. ASSUME NEW k \in 0 .. n - 1, k # i, b[k].dib # 0
      PROVE  \E j \in 0 .. n - 1 : /\ c[j].dib # 0
                                   /\ c[j].item = b[k].item
                                   /\ c[j].hash = b[k].hash
  <2>1. PICK f \in 0 .. n - 1 : Place(i, f, n) = k
    BY <1>0, PlaceReaches
  <2>2. f # 0
    BY <1>0, <1>3, <2>1
  <2>3. PICK e \in 0 .. n - 1 : e # m - 1 /\ From(e, m) = f
    <3>1. CASE f <= m - 1
      <4>1. f - 1 \in 0 .. n - 1 /\ f - 1 # m - 1 /\ From(f - 1, m) = f
        BY <2>2, <3>1 DEF From
      <4> QED
        BY <4>1
    <3>2. CASE f > m - 1
      <4>1. f # m - 1 /\ From(f, m) = f
        BY <3>2 DEF From
      <4> QED
        BY <4>1
    <3> QED
      BY <3>1, <3>2
  <2>4. Place(i, e, n) \in 0 .. n - 1
    <3>1. e \in Nat
      OBVIOUS
    <3> QED
      BY <1>0, <3>1, Places
  <2> QED
    BY <1>3, <2>1, <2>3, <2>4, ShiftedFrom
<1>4. ASSUME NEW T
      PROVE  Holds(c, n, T) <=>
               \E j \in 0 .. n - 1 : /\ j # i /\ b[j].dib # 0
                                     /\ <<b[j].hash, b[j].item>> \in T
  <2>1. ASSUME Holds(c, n, T)
        PROVE  \E j \in 0 .. n - 1 : /\ j # i /\ b[j].dib # 0
                                     /\ <<b[j].hash, b[j].item>> \in T
    <3>1. PICK j \in 0 .. n - 1 : c[j].dib # 0 /\ <<c[j].hash, c[j].item>> \in T
      BY <2>1 DEF Holds
    <3>2. PICK f \in 1 .. n - 1 : /\ b[Place(i, f, n)].dib # 0
                                  /\ c[j].item = b[Place(i, f, n)].item
                                  /\ c[j].hash = b[Place(i, f, n)].hash
      BY <1>2, <3>1
    <3>3. PICK k \in 0 .. n - 1 : k = Place(i, f, n) /\ k # i
      BY <1>1
    <3> QED
      BY <3>1, <3>2, <3>3
  <2>2. ASSUME NEW k \in 0 .. n - 1, k # i, b[k].dib # 0,
               <<b[k].hash, b[k].item>> \in T
        PROVE  Holds(c, n, T)
    BY <1>3, <2>2 DEF Holds
  <2> QED
    BY <2>1, <2>2
<1>5. ASSUME Unique(b, n) PROVE Unique(c, n)
  <2>1. ASSUME NEW j \in 0 .. n - 1, NEW k \in 0 .. n - 1,
               c[j].dib # 0, c[k].dib # 0, Same(c[j], c[k])
        PROVE  j = k
    <3>1. PICK e \in 0 .. n - 1, f \in 1 .. n - 1 :
               /\ j = Place(i, e, n) /\ e # m - 1 /\ f = From(e, m)
               /\ b[Place(i, f, n)].dib # 0
               /\ c[j].item = b[Place(i, f, n)].item
               /\ c[j].hash = b[Place(i, f, n)].hash
      BY <1>2, <2>1
    <3>2. PICK g \in 0 .. n - 1, h \in 1 .. n - 1 :
               /\ k = Place(i, g, n) /\ g # m - 1 /\ h = From(g, m)
               /\ b[Place(i, h, n)].dib # 0
               /\ c[k].item = b[Place(i, h, n)].item
               /\ c[k].hash = b[Place(i, h, n)].hash
      BY <1>2, <2>1
    <3>3. Same(b[Place(i, f, n)], b[Place(i, h, n)])
      BY <2>1, <3>1, <3>2 DEF Same
    <3>4. Place(i, f, n) = Place(i, h, n)
      BY <1>1, <1>5, <3>1, <3>2, <3>3 DEF Unique
    <3>5. f = h
      <4>1. f \in 0 .. n - 1 /\ h \in 0 .. n - 1
        OBVIOUS
      <4> QED
        BY <1>0, <3>4, <4>1, PlaceIsOneToOne
    <3>6. e = g
      BY <3>1, <3>2, <3>5 DEF From
    <3> QED
      BY <3>1, <3>2, <3>6
  <2> QED
    BY <2>1 DEF Unique
<1> QED
  BY <1>4, <1>5

-----------------------------------------------------------------------------
(* Lookups, in any table b and under any keys kb of the entries.            *)

Spells(here, kb, k) ==
  here.dib # 0 /\ here.hash = HashOf[k] /\ kb[here.item] = k

StopsIn(b, kb, k, n) ==
  {d \in 0 .. n - 1 : \/ b[Place(HashOf[k], d, n)].dib = 0
                      \/ Spells(b[Place(HashOf[k], d, n)], kb, k)}

FoundIn(b, kb, k, n) ==
  LET i == Place(HashOf[k], Min(StopsIn(b, kb, k, n)), n) IN
  IF StopsIn(b, kb, k, n) = {} \/ b[i].dib = 0 THEN {} ELSE {i}

GetIn(b, kb, k, n) ==
  LET found == FoundIn(b, kb, k, n) IN
  IF found = {} THEN NULL ELSE b[CHOOSE i \in found : TRUE].item

(* What a lookup finds has the key.                                         *)
LEMMA FoundSpells ==
  ASSUME NEW n \in Nat, n > 1, NEW b, Table(b, n), NEW kb,
         NEW k, HashOf[k] \in Nat
  PROVE  \/ FoundIn(b, kb, k, n) = {} /\ GetIn(b, kb, k, n) = NULL
         \/ \E i \in 0 .. n - 1 : /\ FoundIn(b, kb, k, n) = {i}
                                  /\ Spells(b[i], kb, k)
                                  /\ GetIn(b, kb, k, n) = b[i].item
                                  /\ b[i].item \in Item
<1> DEFINE stops == StopsIn(b, kb, k, n)
           i == Place(HashOf[k], Min(stops), n)
<1>1. CASE FoundIn(b, kb, k, n) = {}
  BY <1>1 DEF GetIn
<1>2. CASE FoundIn(b, kb, k, n) # {}
  <2>1. stops # {} /\ b[i].dib # 0 /\ FoundIn(b, kb, k, n) = {i}
    BY <1>2 DEF FoundIn
  <2>2. Min(stops) \in stops
    <3>1. stops \in SUBSET Nat
      BY DEF StopsIn
    <3> HIDE DEF stops
    <3> QED
      BY <2>1, <3>1, LeastIsMin
  <2>3. Min(stops) \in Nat /\ Spells(b[i], kb, k)
    BY <2>1, <2>2 DEF StopsIn
  <2>4. i \in 0 .. n - 1
    BY <2>3, Places
  <2> HIDE DEF i
  <2>5. GetIn(b, kb, k, n) = b[i].item
    <3>1. (CHOOSE j \in {i} : TRUE) = i
      OBVIOUS
    <3> QED
      BY <2>1, <3>1 DEF GetIn
  <2>6. b[i].item \in Item
    BY <2>3, <2>4 DEF Table, Spells
  <2> QED
    BY <2>1, <2>3, <2>4, <2>5, <2>6
<1> QED
  BY <1>1, <1>2

(* It finds the first bucket that has.                                      *)
LEMMA FirstIsFound ==
  ASSUME NEW n \in Nat, n > 1, NEW b, Table(b, n), NEW kb,
         NEW k, HashOf[k] \in Nat,
         NEW s \in 0 .. n - 1, Spells(b[Place(HashOf[k], s, n)], kb, k),
         \A e \in 0 .. s - 1 :
           /\ b[Place(HashOf[k], e, n)].dib # 0
           /\ ~Spells(b[Place(HashOf[k], e, n)], kb, k)
  PROVE  FoundIn(b, kb, k, n) = {Place(HashOf[k], s, n)}
<1> DEFINE stops == StopsIn(b, kb, k, n)
<1>1. s \in stops /\ stops \in SUBSET Nat
  BY DEF StopsIn
<1>2. \A e \in stops : e >= s
  <2>1. ASSUME NEW e \in stops, ~(e >= s) PROVE FALSE
    <3>1. e \in 0 .. s - 1
      BY <1>1, <2>1
    <3> QED
      BY <3>1 DEF StopsIn
  <2> QED
    BY <2>1
<1> HIDE DEF stops
<1>3. Min(stops) \in stops /\ Min(stops) <= s
  BY <1>1, LeastIsMin
<1>4. Min(stops) = s
  BY <1>1, <1>2, <1>3
<1> QED
  BY <1>1, <1>4 DEF FoundIn, Spells, stops

(* It finds a bucket if any bucket of the table has the key.                *)
LEMMA HeldIsFound ==
  ASSUME NEW n \in Nat, n > 1, NEW b, Table(b, n), Placed(b, n), Vacant(b, n),
         NEW kb, NEW k, HashOf[k] \in Nat,
         NEW i \in 0 .. n - 1, Spells(b[i], kb, k)
  PROVE  FoundIn(b, kb, k, n) # {}
<1> DEFINE h == HashOf[k]
           stops == StopsIn(b, kb, k, n)
<1>1. PICK d \in Nat : b[i].dib = d + 1 /\ i = Place(h, d, n)
  BY DEF Spells, Placed, At
<1>2. b[Place(h, d, n)].dib >= d + 1
  BY <1>1
<1>3. d < n
  BY <1>2, RunIsShort
<1>4. \A e \in 0 .. d : b[Place(h, e, n)].dib >= e + 1
  BY <1>2, Run
<1>5. d \in stops /\ stops \in SUBSET Nat
  BY <1>1, <1>3 DEF StopsIn
<1> DEFINE e == Min(stops)
<1>6. e \in stops /\ e <= d
  <2> HIDE DEF stops
  <2> QED
    BY <1>5, LeastIsMin
<1>7. e \in 0 .. d
  BY <1>5, <1>6
<1>8. b[Place(h, e, n)].dib # 0
  <2> HIDE DEF e
  <2>1. e \in Nat
    BY <1>7
  <2>2. Place(h, e, n) \in 0 .. n - 1
    BY <2>1, Places
  <2>3. b[Place(h, e, n)].dib \in Nat
    BY <2>2, TableFacts
  <2>4. b[Place(h, e, n)].dib >= e + 1
    BY <1>4, <1>7
  <2> QED
    BY <2>1, <2>3, <2>4
<1> QED
  BY <1>5, <1>8 DEF FoundIn

-----------------------------------------------------------------------------
(* The sizes of the table. *)

LEMMA Doubles ==
  /\ Doubled[0] = MinCap
  /\ \A k \in 1 .. MaxCount : Doubled[k] = 2 * Doubled[k - 1]
<1> DEFINE Unfolds(p, m) ==
             p = [k \in 0 .. m |-> IF k = 0 THEN MinCap ELSE 2 * p[k - 1]]
           Good == {m \in Nat : \E p : Unfolds(p, m)}
<1>1. Doubled = CHOOSE p : Unfolds(p, MaxCount)
  BY DEF Doubled
<1>2. 0 \in Good
  <2>1. Unfolds([k \in 0 .. 0 |-> MinCap], 0)
    OBVIOUS
  <2> HIDE DEF Unfolds
  <2> QED
    BY <2>1
<1>3. ASSUME NEW m \in Nat, m \in Good PROVE m + 1 \in Good
  <2>1. PICK p : Unfolds(p, m)
    BY <1>3
  <2> DEFINE next == [k \in 0 .. m + 1 |-> IF k = m + 1 THEN 2 * p[m] ELSE p[k]]
  <2>2. ASSUME NEW k \in 0 .. m + 1
        PROVE  next[k] = IF k = 0 THEN MinCap ELSE 2 * next[k - 1]
    BY <2>1
  <2>3. Unfolds(next, m + 1)
    BY <2>2
  <2> HIDE DEF next, Unfolds
  <2> QED
    BY <2>3
<1>4. MaxCount \in Good
  <2> HIDE DEF Good
  <2> QED
    BY <1>2, <1>3, SetInduction, HashTableAssumption
<1>5. Unfolds(Doubled, MaxCount)
  <2> HIDE DEF Unfolds
  <2> QED
    BY <1>1, <1>4
<1> QED
  BY <1>5, HashTableAssumption

LEMMA DoubledFacts ==
  ASSUME NEW k \in 0 .. MaxCount
  PROVE  /\ Doubled[k] \in Nat /\ Doubled[k] >= 2 * (k + 1)
         /\ Doubled[k] >= MinCap /\ (k # 0 => Doubled[k] >= 2 * MinCap)
<1>1. MaxCount \in Nat /\ MinCap \in Nat /\ MinCap >= 2
  BY HashTableAssumption
<1> DEFINE Good == {m \in Nat :
             m <= MaxCount =>
               /\ Doubled[m] \in Nat /\ Doubled[m] >= 2 * (m + 1)
               /\ Doubled[m] >= MinCap /\ (m # 0 => Doubled[m] >= 2 * MinCap)}
<1>2. 0 \in Good
  BY <1>1, Doubles
<1>3. ASSUME NEW m \in Nat, m \in Good PROVE m + 1 \in Good
  <2> SUFFICES ASSUME m + 1 <= MaxCount
               PROVE  /\ Doubled[m + 1] \in Nat
                      /\ Doubled[m + 1] >= 2 * ((m + 1) + 1)
                      /\ Doubled[m + 1] >= 2 * MinCap
                      /\ Doubled[m + 1] >= MinCap
    OBVIOUS
  <2>1. PICK d : d = Doubled[m]
    OBVIOUS
  <2>2. d \in Nat /\ d >= 2 * (m + 1) /\ d >= MinCap
    BY <1>1, <1>3, <2>1
  <2>3. Doubled[m + 1] = 2 * d
    <3>1. PICK j \in 1 .. MaxCount : j = m + 1 /\ j - 1 = m
      BY <1>1
    <3> QED
      BY <2>1, <3>1, Doubles
  <2> QED
    BY <1>1, <2>2, <2>3
<1> HIDE DEF Good
<1>4. k \in Good
  BY <1>1, <1>2, <1>3, SetInduction
<1> QED
  BY <1>1, <1>4 DEF Good

(* The size of a table, and how many entries it may have.                   *)
Sized(n, c) ==
  /\ \E k \in 0 .. MaxCount : n = Doubled[k]
  /\ n = MinCap \/ 3 * n < 8 * MaxCount
  /\ c \in Nat /\ c <= GrowAt(n)

LEMMA SizedFacts ==
  ASSUME NEW n, NEW c, Sized(n, c)
  PROVE  n \in Nat /\ n > 1 /\ c \in Nat /\ c < n
<1>1. n \in Nat /\ n >= 2 /\ c \in Nat /\ c <= GrowAt(n)
  <2>1. PICK k \in 0 .. MaxCount : n = Doubled[k]
    BY DEF Sized
  <2>2. Doubled[k] >= 2 * (k + 1) /\ Doubled[k] \in Nat /\ 2 * (k + 1) >= 2
    BY DoubledFacts
  <2> QED
    BY <2>1, <2>2 DEF Sized
<1>2. GrowAt(n) < n
  BY <1>1 DEF GrowAt
<1>3. GrowAt(n) \in Int
  BY <1>1 DEF GrowAt
<1> QED
  BY <1>1, <1>2, <1>3

(* A table that is full doubles, and then has room for one entry more, ...  *)
LEMMA SizedGrows ==
  ASSUME NEW n, NEW c, Sized(n, c), c < MaxCount
  PROVE  Sized(IF c = GrowAt(n) THEN 2 * n ELSE n, c + 1)
<1>0. n \in Nat /\ n > 1 /\ c \in Nat /\ c < n /\ MaxCount \in Nat
  BY SizedFacts, HashTableAssumption
<1>1. CASE c # GrowAt(n)
  <2>1. GrowAt(n) \in Int /\ c <= GrowAt(n)
    BY <1>0 DEF GrowAt, Sized
  <2>2. c + 1 \in Nat /\ c + 1 <= GrowAt(n)
    BY <1>0, <1>1, <2>1
  <2> QED
    BY <1>1, <2>2 DEF Sized
<1>2. CASE c = GrowAt(n)
  <2>1. c = (3 * n) \div 4
    BY <1>0, <1>2 DEF GrowAt
  <2>2. 3 * n < 4 * (c + 1) /\ 4 * c <= 3 * n
    BY <1>0, <2>1
  <2>3. PICK k \in 0 .. MaxCount : n = Doubled[k]
    BY DEF Sized
  <2>4. n >= 2 * (k + 1)
    BY <2>3, DoubledFacts
  <2>5. k + 1 < MaxCount
    <3>1. k + 1 <= c
      BY <1>0, <2>2, <2>4
    <3> QED
      BY <1>0, <3>1
  <2>6. 2 * n = Doubled[k + 1]
    <3>1. PICK j \in 1 .. MaxCount : j = k + 1 /\ j - 1 = k
      BY <1>0, <2>5
    <3> QED
      BY <2>3, <3>1, Doubles
  <2>7. k + 1 \in 0 .. MaxCount
    BY <1>0, <2>5
  <2>8. 3 * (2 * n) < 8 * MaxCount
    BY <1>0, <2>2
  <2>9. c + 1 <= GrowAt(2 * n)
    <3>1. GrowAt(2 * n) = (6 * n) \div 4
      BY <1>0 DEF GrowAt
    <3>2. c + 1 <= (6 * n) \div 4
      BY <1>0, <2>2
    <3> QED
      BY <3>1, <3>2
  <2>10. Sized(2 * n, c + 1)
    BY <1>0, <2>6, <2>7, <2>8, <2>9 DEF Sized
  <2> QED
    BY <1>2, <2>10
<1> QED
  BY <1>1, <1>2

(* ... and one that has lost nearly all of its entries halves.              *)
LEMMA SizedShrinks ==
  ASSUME NEW n, NEW c, Sized(n, c), c > 0
  PROVE  /\ Sized(n, c - 1)
         /\ n > MinCap /\ c - 1 <= ShrinkAt(n) => Sized(n \div 2, c - 1)
<1>0. /\ n \in Nat /\ n > 1 /\ c \in Nat /\ c < n
      /\ MaxCount \in Nat /\ MinCap \in Nat
  BY SizedFacts, HashTableAssumption
<1>1. Sized(n, c - 1)
  <2>1. GrowAt(n) \in Int /\ c <= GrowAt(n)
    BY <1>0 DEF GrowAt, Sized
  <2>2. c - 1 \in Nat /\ c - 1 <= GrowAt(n)
    BY <1>0, <2>1
  <2> QED
    BY <2>2 DEF Sized
<1>2. ASSUME n > MinCap, c - 1 <= ShrinkAt(n) PROVE Sized(n \div 2, c - 1)
  <2>1. PICK k \in 0 .. MaxCount : n = Doubled[k]
    BY DEF Sized
  <2>2. k # 0
    BY <1>0, <1>2, <2>1, Doubles
  <2>3. PICK j \in 0 .. MaxCount : j = k - 1
    BY <1>0, <2>2
  <2>4. PICK m \in Nat : m = Doubled[j] /\ m >= 2
    <3>1. Doubled[j] \in Nat /\ Doubled[j] >= 2 * (j + 1) /\ 2 * (j + 1) >= 2
      BY DoubledFacts
    <3> QED
      BY <3>1
  <2>5. n = 2 * m
    <3>1. k \in 1 .. MaxCount
      BY <2>2
    <3> QED
      BY <2>1, <2>3, <2>4, <3>1, Doubles
  <2>6. n \div 2 = m
    BY <2>5
  <2>7. c - 1 <= GrowAt(m)
    <3>1. c - 1 <= (2 * m) \div 10
      BY <1>2, <2>5 DEF ShrinkAt
    <3>2. (2 * m) \div 10 <= (m * 3) \div 4
      BY <2>4
    <3>3. (2 * m) \div 10 \in Int /\ (m * 3) \div 4 \in Int
      BY <2>4
    <3>4. c - 1 <= (m * 3) \div 4
      BY <1>0, <3>1, <3>2, <3>3
    <3> QED
      BY <3>4 DEF GrowAt
  <2>8. 3 * m < 8 * MaxCount
    BY <1>0, <1>2, <2>4, <2>5 DEF Sized
  <2>9. c - 1 \in Nat
    BY <1>0
  <2>10. Sized(m, c - 1)
    BY <2>4, <2>7, <2>8, <2>9 DEF Sized
  <2> QED
    BY <2>6, <2>10
<1> QED
  BY <1>1, <1>2

-----------------------------------------------------------------------------
(* The calls. *)

(* hashmap_set puts an item, replacing the one with its key if one is there.*)
PutInto(b, q, item, hash, n) ==
  /\ Table(q.buckets, n) /\ Placed(q.buckets, n)
  /\ \/ /\ q.replaced = NULL
        /\ Cardinality(Occupied(q.buckets)) = Cardinality(Occupied(b)) + 1
     \/ /\ q.replaced \in Item
        /\ Cardinality(Occupied(q.buckets)) = Cardinality(Occupied(b))
  /\ \A T : q.replaced = NULL \/ ByKey(T) =>
              (Holds(q.buckets, n, T)
                 <=> Holds(b, n, T) \/ <<hash, item>> \in T)
  /\ \E s \in 0 .. n - 1 : FoundAt(q.buckets, s, item, hash, n)
  /\ Unique(b, n) /\ Fresh(b, n, [item |-> item, hash |-> hash, dib |-> 1])
       => q.replaced = NULL /\ Unique(q.buckets, n)
  /\ \A m \in 0 .. n - 1 :
       Unique(b, n) /\ Knows(b[m], item, hash)
         => Swaps(b, q, m, item)

LEMMA OnePut ==
  ASSUME NEW n \in Nat, n > 1, NEW b, Table(b, n), Placed(b, n), Vacant(b, n),
         NEW item \in Item, NEW hash \in Nat
  PROVE  PutInto(b, Inserted(b, item, hash, TRUE), item, hash, n)
<1>1. ASSUME NEW yes \in BOOLEAN, yes
      PROVE  PutInto(b, Inserted(b, item, hash, yes), item, hash, n)
  <2> DEFINE q == Inserted(b, item, hash, yes)
  <2>1. /\ Table(q.buckets, n) /\ Placed(q.buckets, n)
        /\ \/ /\ q.replaced = NULL
              /\ Cardinality(Occupied(q.buckets)) = Cardinality(Occupied(b)) + 1
           \/ /\ yes /\ q.replaced \in Item
              /\ Cardinality(Occupied(q.buckets)) = Cardinality(Occupied(b))
    BY InsertedTable
  <2>2. ASSUME NEW T
        PROVE  q.replaced = NULL \/ ByKey(T) =>
                 (Holds(q.buckets, n, T)
                    <=> Holds(b, n, T) \/ <<hash, item>> \in T)
    BY InsertedHolds
  <2>3. \E s \in 0 .. n - 1 : FoundAt(q.buckets, s, item, hash, n)
    BY <1>1, InsertedFirst
  <2>4. Unique(b, n) /\ Fresh(b, n, [item |-> item, hash |-> hash, dib |-> 1])
          => q.replaced = NULL /\ Unique(q.buckets, n)
    BY InsertedFresh
  <2>5. ASSUME NEW m \in 0 .. n - 1, Unique(b, n), Knows(b[m], item, hash)
        PROVE  yes => Swaps(b, q, m, item)
    BY <2>5, InsertedKnown
  <2> HIDE DEF q
  <2>6. PutInto(b, q, item, hash, n)
    BY <1>1, <2>1, <2>2, <2>3, <2>4, <2>5 DEF PutInto
  <2> QED
    BY <2>6 DEF q
<1>2. TRUE \in BOOLEAN /\ TRUE
  OBVIOUS
<1> QED
  BY <1>1, <1>2, Zenon

(* A table of n buckets with c entries, as the calls leave it. *)
Valid(b, n, c) ==
  /\ Table(b, n) /\ Placed(b, n)
  /\ c = Cardinality(Occupied(b)) /\ Sized(n, c)

LEMMA ValidFacts ==
  ASSUME NEW b, NEW n, NEW c, Valid(b, n, c)
  PROVE  n \in Nat /\ n > 1 /\ Size(b) = n /\ c \in Nat /\ c < n /\ Vacant(b, n)
<1>1. n \in Nat /\ n > 1 /\ c \in Nat /\ c < n
  BY SizedFacts DEF Valid
<1>2. Size(b) = n /\ Vacant(b, n)
  BY <1>1, TableFacts, FewerLeaveVacancy DEF Valid
<1> QED
  BY <1>1, <1>2

(* c holds what b holds.                                                    *)
Alike(b, n, c, m) ==
  /\ \A T : Holds(c, m, T) <=> Holds(b, n, T)
  /\ Unique(b, n) => Unique(c, m)

LEMMA RoomForOne ==
  ASSUME NEW b, NEW n, NEW c, Valid(b, n, c), c < MaxCount
  PROVE  \E m \in Nat :
           LET room == IF c = GrowAt(n) THEN Resized(b, 2 * n) ELSE b IN
           /\ m > 1 /\ Table(room, m) /\ Placed(room, m) /\ Vacant(room, m)
           /\ Cardinality(Occupied(room)) = c /\ Sized(m, c + 1)
           /\ Alike(b, n, room, m)
<1>1. n \in Nat /\ n > 1 /\ c \in Nat /\ c < n /\ Vacant(b, n)
  BY ValidFacts
<1>2. Sized(IF c = GrowAt(n) THEN 2 * n ELSE n, c + 1)
  BY SizedGrows DEF Valid
<1>3. CASE c # GrowAt(n)
  BY <1>1, <1>2, <1>3 DEF Valid, Alike
<1>4. CASE c = GrowAt(n)
  <2>1. PICK m \in Nat : m = 2 * n /\ m > 1 /\ c < m
    BY <1>1
  <2>2. MovedTo(b, Resized(b, m), n, m) /\ Occupied(b) = Filled(b, n)
    BY <1>1, <2>1, ResizedTable DEF Valid
  <2> DEFINE room == Resized(b, m)
  <2> HIDE DEF room
  <2>3. /\ Table(room, m) /\ Placed(room, m)
        /\ Cardinality(Occupied(room)) = c /\ Alike(b, n, room, m)
    BY <2>2 DEF MovedTo, Alike, Valid, room
  <2>4. Vacant(room, m)
    BY <2>1, <2>3, FewerLeaveVacancy
  <2> QED
    BY <1>2, <1>4, <2>1, <2>3, <2>4 DEF room
<1> QED
  BY <1>3, <1>4

(* c holds what b holds in other buckets than i.                            *)
Without(b, n, i, c, m) ==
  /\ \A T : Holds(c, m, T) <=>
              \E j \in 0 .. n - 1 : /\ j # i /\ b[j].dib # 0
                                    /\ <<b[j].hash, b[j].item>> \in T
  /\ Unique(b, n) => Unique(c, m)

LEMMA OneDeleted ==
  ASSUME NEW b, NEW n, NEW c, Valid(b, n, c),
         NEW i \in 0 .. n - 1, b[i].dib # 0, NEW fails \in BOOLEAN
  PROVE  \E m \in Nat :
           LET shifted == ShiftedBack(b, i)
               shrinks == n > MinCap /\ c - 1 <= ShrinkAt(n)
               left == IF shrinks /\ ~fails THEN Resized(shifted, n \div 2)
                       ELSE shifted
           IN  Valid(left, m, c - 1) /\ Without(b, n, i, left, m)
<1> DEFINE d == ShiftedBack(b, i)
           shrinks == n > MinCap /\ c - 1 <= ShrinkAt(n)
<1>1. n \in Nat /\ n > 1 /\ c \in Nat /\ c < n /\ Vacant(b, n)
  BY ValidFacts
<1>2. PICK k \in 1 .. n - 1 : Shifted(b, d, i, k, n)
  BY <1>1, ShiftedBackIs DEF Valid
<1> HIDE DEF d
<1>3. /\ Table(d, n) /\ Placed(d, n)
      /\ Cardinality(Occupied(d)) = c - 1 /\ Without(b, n, i, d, n)
  <2>1. /\ Table(b, n) /\ Placed(b, n) /\ Cardinality(Occupied(b)) = c
    BY DEF Valid
  <2>2. Table(d, n) /\ Cardinality(Occupied(d)) = Cardinality(Occupied(b)) - 1
    BY <1>1, <1>2, <2>1, ShiftedTable
  <2>3. Placed(d, n)
    BY <1>1, <1>2, <2>1, ShiftedPlaced
  <2>4. Without(b, n, i, d, n)
    BY <1>1, <1>2, <2>1, ShiftedHolds, Zenon DEF Without
  <2> QED
    BY <2>1, <2>2, <2>3, <2>4
<1>4. c > 0
  <2>1. Cardinality(Occupied(d)) \in Nat
    BY <1>1, <1>3, TableFacts
  <2> QED
    BY <1>1, <1>3, <2>1
<1>5. /\ Sized(n, c - 1)
      /\ shrinks => Sized(n \div 2, c - 1)
  BY <1>4, SizedShrinks DEF Valid
<1>6. CASE ~(shrinks /\ ~fails)
  <2>1. Valid(d, n, c - 1)
    BY <1>3, <1>5 DEF Valid
  <2> QED
    BY <1>1, <1>3, <1>6, <2>1 DEF d
<1>7. CASE shrinks /\ ~fails
  <2>1. PICK m : m = n \div 2
    OBVIOUS
  <2>2. Sized(m, c - 1)
    BY <1>5, <1>7, <2>1
  <2>3. m \in Nat /\ m > 1 /\ c - 1 < m
    BY <2>2, SizedFacts
  <2> DEFINE left == Resized(d, m)
  <2>4. MovedTo(d, left, n, m) /\ Occupied(d) = Filled(d, n)
    BY <1>1, <1>3, <2>3, ResizedTable
  <2> HIDE DEF left
  <2>5. Valid(left, m, c - 1)
    BY <1>3, <2>2, <2>4 DEF MovedTo, Valid
  <2>6. Without(b, n, i, left, m)
    BY <1>3, <2>4 DEF MovedTo, Without
  <2> QED
    BY <1>7, <2>1, <2>3, <2>5, <2>6 DEF left, d
<1> QED
  BY <1>6, <1>7

-----------------------------------------------------------------------------
(* The table is placed, knows how many entries it has, and has grown and    *)
(* shrunk accordingly.                                                      *)
IInv ==
  /\ Valid(buckets, Size(buckets), count)
  /\ oom \in BOOLEAN /\ key_bytes \in [Item -> Key]
  /\ dropped \in Item \union {NULL}

LEMMA InitIInv == Init => IInv
<1> SUFFICES ASSUME Init PROVE IInv
  OBVIOUS
<1>0. MinCap \in Nat /\ MinCap > 1 /\ MaxCount \in Nat
  BY HashTableAssumption
<1>1. /\ Table(buckets, MinCap) /\ Placed(buckets, MinCap)
      /\ Occupied(buckets) = {}
  BY <1>0, NewTable DEF Init
<1>2. Size(buckets) = MinCap
  BY <1>0, <1>1, TableFacts
<1>3. Cardinality(Occupied(buckets)) = 0
  BY <1>1, FS_EmptySet
<1>4. Sized(MinCap, 0)
  <2>1. Doubled[0] = MinCap /\ 0 \in 0 .. MaxCount
    BY <1>0, Doubles
  <2>2. 0 <= GrowAt(MinCap)
    BY <1>0 DEF GrowAt
  <2> QED
    BY <2>1, <2>2 DEF Sized
<1>5. Valid(buckets, Size(buckets), count)
  BY <1>1, <1>2, <1>3, <1>4 DEF Init, Valid
<1> QED
  BY <1>5, HashTableAssumption DEF Init, IInv

LEMMA SetSteps ==
  ASSUME IInv, NEW item \in Item, Set(item)
  PROVE  \E room, q, m :
           /\ m \in Nat /\ m > 1 /\ Size(buckets') = m
           /\ Alike(buckets, Size(buckets), room, m) /\ Table(room, m)
           /\ PutInto(room, q, item, HashOf[key_bytes[item]], m)
           /\ Valid(buckets', m, count')
           /\ buckets' = q.buckets /\ dropped' = q.replaced
<1> DEFINE n == Size(buckets)
           room == IF count = GrowAt(n) THEN Resized(buckets, 2 * n)
                   ELSE buckets
           hash == HashOf[key_bytes[item]]
           q == Inserted(room, item, hash, TRUE)
<1>1. /\ count < MaxCount /\ buckets' = q.buckets /\ dropped' = q.replaced
      /\ count' = IF q.replaced = NULL THEN count + 1 ELSE count
  BY DEF Set
<1>2. Valid(buckets, n, count)
  BY DEF IInv
<1> HIDE DEF n
<1>3. PICK m \in Nat :
        /\ m > 1 /\ Table(room, m) /\ Placed(room, m) /\ Vacant(room, m)
        /\ Cardinality(Occupied(room)) = count /\ Sized(m, count + 1)
        /\ Alike(buckets, n, room, m)
  BY <1>1, <1>2, RoomForOne
<1>4. hash \in Nat
  BY HashTableAssumption DEF IInv
<1> HIDE DEF room, hash
<1>5. PutInto(room, q, item, hash, m)
  BY <1>3, <1>4, OnePut
<1> HIDE DEF q
<1>6. count \in Nat /\ NULL \notin Item
  BY <1>2, ValidFacts, HashTableAssumption
<1>7. Sized(m, count)
  <2>1. m \in Nat /\ GrowAt(m) \in Int
    BY DEF GrowAt
  <2> QED
    BY <1>3, <1>6, <2>1 DEF Sized
<1>8. Valid(buckets', m, count')
  BY <1>1, <1>3, <1>5, <1>6, <1>7 DEF PutInto, Valid
<1>9. Size(buckets') = m
  BY <1>8, ValidFacts
<1> QED
  <2>1. /\ m > 1 /\ Size(buckets') = m
        /\ Alike(buckets, Size(buckets), room, m) /\ Table(room, m)
        /\ PutInto(room, q, item, HashOf[key_bytes[item]], m)
        /\ Valid(buckets', m, count')
        /\ buckets' = q.buckets /\ dropped' = q.replaced
    <3>1. Alike(buckets, Size(buckets), room, m)
      BY <1>3 DEF n
    <3>2. PutInto(room, q, item, HashOf[key_bytes[item]], m)
      BY <1>5 DEF hash
    <3> QED
      BY <1>1, <1>3, <1>8, <1>9, <3>1, <3>2
  <2> QED
    BY <2>1

(* The variables' lookups are those in any table.                           *)
LEMMA LookupsAre ==
  ASSUME NEW k \in Key, Table(buckets, Size(buckets)), Size(buckets) \in Nat
  PROVE  /\ Found(k) = FoundIn(buckets, key_bytes, k, Size(buckets))
         /\ Get(k) = GetIn(buckets, key_bytes, k, Size(buckets))
<1>1. Stops(k) = StopsIn(buckets, key_bytes, k, Size(buckets))
  BY DEF Stops, StopsIn, Matches, Spells, Place, Rem
<1>2. Found(k) = FoundIn(buckets, key_bytes, k, Size(buckets))
  BY <1>1 DEF Found, FoundIn, Place, Rem
<1> QED
  BY <1>2 DEF Get, GetIn

LEMMA DeleteSteps ==
  ASSUME IInv, NEW k \in Key, DeleteHit(k)
  PROVE  \E i \in 0 .. Size(buckets) - 1, m \in Nat :
           /\ Found(k) = {i} /\ Spells(buckets[i], key_bytes, k)
           /\ Valid(buckets', m, count') /\ Size(buckets') = m
           /\ Without(buckets, Size(buckets), i, buckets', m)
           /\ dropped' = buckets[i].item /\ dropped' \in Item
<1> DEFINE n == Size(buckets)
<1>1. PICK i \in Found(k), fails \in MallocFails :
        LET shifted == ShiftedBack(buckets, i)
            shrinks == n > MinCap /\ count - 1 <= ShrinkAt(n)
        IN /\ buckets' = IF shrinks /\ ~fails THEN Resized(shifted, n \div 2)
                         ELSE shifted
           /\ count' = count - 1
           /\ dropped' = buckets[i].item
  BY DEF DeleteHit
<1>2. Valid(buckets, n, count) /\ n \in Nat /\ n > 1
  BY ValidFacts DEF IInv
<1>3. /\ i \in 0 .. n - 1 /\ Found(k) = {i} /\ Spells(buckets[i], key_bytes, k)
      /\ buckets[i].item \in Item
  <2>1. HashOf[k] \in Nat
    BY HashTableAssumption
  <2>2. Found(k) = FoundIn(buckets, key_bytes, k, n)
    BY <1>2, LookupsAre DEF Valid
  <2> HIDE DEF n
  <2> QED
    BY <1>2, <2>1, <2>2, FoundSpells DEF Valid
<1>4. buckets[i].dib # 0 /\ fails \in BOOLEAN
  BY <1>3, HashTableAssumption DEF Spells
<1> HIDE DEF n
<1>5. PICK m \in Nat : /\ Valid(buckets', m, count - 1)
                       /\ Without(buckets, n, i, buckets', m)
  BY <1>1, <1>2, <1>3, <1>4, OneDeleted
<1>6. Size(buckets') = m
  BY <1>5, ValidFacts
<1> QED
  BY <1>1, <1>3, <1>5, <1>6 DEF n

LEMMA NextIInv == IInv /\ [Next]_vars => IInv'
<1> SUFFICES ASSUME IInv, [Next]_vars PROVE IInv'
  OBVIOUS
<1>1. CASE SetFails
  BY <1>1 DEF SetFails, IInv
<1>2. ASSUME NEW item \in Item, Set(item) PROVE IInv'
  <2>0. PICK room, q, m :
          /\ Size(buckets') = m /\ Valid(buckets', m, count')
          /\ PutInto(room, q, item, HashOf[key_bytes[item]], m)
          /\ dropped' = q.replaced
    BY <1>2, SetSteps
  <2>1. Valid(buckets', Size(buckets'), count')
    BY <2>0
  <2>2. dropped' \in Item \union {NULL}
    BY <2>0 DEF PutInto
  <2>3. oom' \in BOOLEAN /\ key_bytes' = key_bytes
    BY <1>2 DEF Set
  <2> QED
    BY <2>1, <2>2, <2>3 DEF IInv
<1>3. ASSUME NEW k \in Key, DeleteMiss(k) PROVE IInv'
  BY <1>3 DEF DeleteMiss, IInv
<1>4. ASSUME NEW k \in Key, DeleteHit(k) PROVE IInv'
  <2>1. Valid(buckets', Size(buckets'), count') /\ dropped' \in Item
    BY <1>4, DeleteSteps
  <2>2. oom' \in BOOLEAN /\ key_bytes' = key_bytes
    BY <1>4 DEF DeleteHit
  <2> QED
    BY <2>1, <2>2 DEF IInv
<1>5. ASSUME NEW item \in Item, NEW k \in Key, Rewrite(item, k) PROVE IInv'
  BY <1>5 DEF Rewrite, IInv
<1>6. CASE UNCHANGED vars
  BY <1>6 DEF vars, IInv
<1> QED
  BY <1>1, <1>2, <1>3, <1>4, <1>5, <1>6 DEF Next

LEMMA AlwaysIInv == Spec => []IInv
  BY InitIInv, NextIInv, PTL DEF Spec

-----------------------------------------------------------------------------
(* The types of a table of any size, and the sizes it has.                  *)
THEOREM TypesAreKept == Spec => []TypeOK
<1>1. IInv => TypeOK
  <2> SUFFICES ASSUME IInv PROVE TypeOK
    OBVIOUS
  <2> DEFINE n == Size(buckets)
  <2>1. Valid(buckets, n, count)
    BY DEF IInv
  <2> HIDE DEF n
  <2>2. buckets \in [0 .. n - 1 -> Bucket] /\ Sized(n, count)
    BY <2>1 DEF Valid, Table
  <2>3. /\ \A i \in DOMAIN buckets : buckets[i] \in Bucket
        /\ buckets = [i \in 0 .. n - 1 |-> buckets[i]]
    BY <2>2
  <2>4. /\ \E k \in 0 .. MaxCount : n = Doubled[k]
        /\ n = MinCap \/ 3 * n < 8 * MaxCount
        /\ count \in Nat
    BY <2>2 DEF Sized
  <2> QED
    BY <2>3, <2>4 DEF TypeOK, IInv, n
<1> QED
  BY <1>1, AlwaysIInv, PTL

(* Every bucket is where its dib says, and no empty bucket is between it    *)
(* and its home, after any insertions, displacements, shifts and resizes.   *)
THEOREM BucketsStayPlaced == Spec => []Placement
<1>1. IInv => Placement
  <2> SUFFICES ASSUME IInv PROVE Placement
    OBVIOUS
  <2> DEFINE n == Size(buckets)
  <2>1. /\ Table(buckets, n) /\ Placed(buckets, n) /\ n \in Nat /\ n > 1
    BY ValidFacts DEF IInv, Valid
  <2> HIDE DEF n
  <2>2. ASSUME NEW i \in Occupied(buckets)
        PROVE  /\ Rem(i + 1 + n - Rem(buckets[i].hash, n), n) =
                    Rem(buckets[i].dib, n)
               /\ buckets[i].dib <= buckets[Rem(i + n - 1, n)].dib + 1
    <3>1. i \in 0 .. n - 1 /\ buckets[i].dib # 0 /\ buckets[i].hash \in Nat
      BY <2>1, TableFacts
    <3>2. PICK d \in Nat : /\ buckets[i].dib = d + 1
                           /\ i = Place(buckets[i].hash, d, n)
      BY <2>1, <3>1 DEF Placed, At
    <3>3. Rem(i + 1 + n - Rem(buckets[i].hash, n), n) = Rem(d + 1, n)
      BY <2>1, <3>1, <3>2, PlaceAgrees
    <3>4. /\ Rem(i + n - 1, n) = Preceding(i, n)
          /\ Preceding(i, n) \in 0 .. n - 1
          /\ Following(Preceding(i, n), n) = i
      BY <2>1, <3>1, Neighbours
    <3>5. buckets[i].dib <= buckets[Preceding(i, n)].dib + 1
      BY <2>1, <3>4 DEF Placed
    <3> QED
      BY <3>2, <3>3, <3>4, <3>5
  <2> QED
    BY <2>2 DEF Placement, Rem, n
<1> QED
  BY <1>1, AlwaysIInv, PTL

(* There is always an empty bucket, where the loops end.                    *)
THEOREM ProbesAlwaysEnd == Spec => []ProbesEnd
<1>1. IInv => ProbesEnd
  <2> SUFFICES ASSUME IInv PROVE ProbesEnd
    OBVIOUS
  <2> DEFINE n == Size(buckets)
  <2>1. Valid(buckets, n, count)
    BY DEF IInv
  <2> HIDE DEF n
  <2>2. count < n /\ count = Cardinality(Occupied(buckets))
    BY <2>1, ValidFacts DEF Valid
  <2> QED
    BY <2>2 DEF ProbesEnd, n
<1> QED
  BY <1>1, AlwaysIInv, PTL

-----------------------------------------------------------------------------
(* What lookups find after a call.                                          *)

LEMMA LookupsAreNext ==
  ASSUME NEW k \in Key, NEW m \in Nat, Table(buckets', m), Size(buckets') = m
  PROVE  Get(k)' = GetIn(buckets', key_bytes', k, m)
<1>1. Stops(k)' = StopsIn(buckets', key_bytes', k, m)
  BY DEF Stops, StopsIn, Matches, Spells, Place, Rem
<1>2. Found(k)' = FoundIn(buckets', key_bytes', k, m)
  BY <1>1 DEF Found, FoundIn, Place, Rem
<1> QED
  BY <1>2 DEF Get, GetIn

(* An entry that was just put is the one a lookup of its key finds.         *)
LEMMA PutIsFound ==
  ASSUME IInv, NEW item \in Item, Set(item)
  PROVE  Get(key_bytes[item])' = item
<1> DEFINE k == key_bytes[item]
<1>1. k \in Key /\ HashOf[k] \in Nat /\ key_bytes' = key_bytes
  BY HashTableAssumption DEF IInv, Set
<1>2. PICK room, q, m :
        /\ m \in Nat /\ m > 1 /\ Size(buckets') = m
        /\ PutInto(room, q, item, HashOf[k], m) /\ buckets' = q.buckets
  BY SetSteps
<1> HIDE DEF k
<1>3. Table(buckets', m)
  BY <1>2 DEF PutInto
<1>4. PICK s \in 0 .. m - 1 : FoundAt(buckets', s, item, HashOf[k], m)
  BY <1>2 DEF PutInto
<1>5. /\ Spells(buckets'[Place(HashOf[k], s, m)], key_bytes, k)
      /\ \A e \in 0 .. s - 1 :
           /\ buckets'[Place(HashOf[k], e, m)].dib # 0
           /\ ~Spells(buckets'[Place(HashOf[k], e, m)], key_bytes, k)
  BY <1>4 DEF FoundAt, Passes, Spells, k
<1>6. FoundIn(buckets', key_bytes, k, m) = {Place(HashOf[k], s, m)}
  BY <1>1, <1>2, <1>3, <1>5, FirstIsFound
<1>7. GetIn(buckets', key_bytes, k, m) = buckets'[Place(HashOf[k], s, m)].item
  <2> DEFINE i == Place(HashOf[k], s, m)
  <2>1. (CHOOSE j \in {i} : TRUE) = i
    OBVIOUS
  <2> HIDE DEF i
  <2> QED
    BY <1>6, <2>1 DEF GetIn, i
<1>8. buckets'[Place(HashOf[k], s, m)].item = item
  BY <1>4 DEF FoundAt
<1>9. Get(k)' = GetIn(buckets', key_bytes, k', m)
  BY <1>1, <1>2, <1>3, LookupsAreNext DEF k
<1> QED
  BY <1>1, <1>7, <1>8, <1>9 DEF k

(* An entry that was just put is the one a lookup of its key finds.         *)
THEOREM PutsAreAlwaysFound == Spec => PutsAreFound
<1>1. IInv /\ [Next]_vars
        => [\A item \in Item : Set(item) => Get(key_bytes[item])' = item]_vars
  BY PutIsFound
<1> QED
  BY <1>1, AlwaysIInv, PTL DEF Spec, PutsAreFound

(* The pairs of the hash of a key and an entry that has the key.            *)
Pairs(k) == {HashOf[k]} \X {x \in Item : key_bytes[x] = k}

LEMMA PairsAreByKey ==
  ASSUME NEW k
  PROVE  ByKey(Pairs(k))
BY DEF Pairs, ByKey

(* A table that holds a pair of a key is one where the key is found.        *)
LEMMA FoundIffHeld ==
  ASSUME NEW b, NEW n, NEW c, Valid(b, n, c), NEW k \in Key
  PROVE  Holds(b, n, Pairs(k)) <=> GetIn(b, key_bytes, k, n) # NULL
<1>1. /\ n \in Nat /\ n > 1 /\ Vacant(b, n) /\ Table(b, n) /\ Placed(b, n)
      /\ HashOf[k] \in Nat /\ NULL \notin Item
  BY ValidFacts, HashTableAssumption DEF Valid
<1>2. ASSUME Holds(b, n, Pairs(k)) PROVE GetIn(b, key_bytes, k, n) # NULL
  <2>1. PICK i \in 0 .. n - 1 :
          b[i].dib # 0 /\ <<b[i].hash, b[i].item>> \in Pairs(k)
    BY <1>2 DEF Holds
  <2>2. Spells(b[i], key_bytes, k)
    BY <2>1 DEF Spells, Pairs
  <2>3. FoundIn(b, key_bytes, k, n) # {}
    BY <1>1, <2>2, HeldIsFound
  <2> QED
    BY <1>1, <2>3, FoundSpells
<1>3. ASSUME GetIn(b, key_bytes, k, n) # NULL PROVE Holds(b, n, Pairs(k))
  <2>1. PICK i \in 0 .. n - 1 : Spells(b[i], key_bytes, k) /\ b[i].item \in Item
    BY <1>1, <1>3, FoundSpells
  <2>2. b[i].dib # 0 /\ <<b[i].hash, b[i].item>> \in Pairs(k)
    BY <2>1 DEF Spells, Pairs
  <2> QED
    BY <2>2 DEF Holds
<1> QED
  BY <1>2, <1>3

(* The found bucket of another key is not the one a deletion takes away.    *)
LEMMA FoundStays ==
  ASSUME IInv, [Next]_vars, NEW k \in Key, Get(k) # NULL, ~DeleteHit(k),
         UNCHANGED key_bytes
  PROVE  Get(k)' # NULL
<1> DEFINE n == Size(buckets)
<1>1. Valid(buckets, n, count) /\ n \in Nat /\ Table(buckets, n)
  BY ValidFacts DEF IInv, Valid
<1>2. Holds(buckets, n, Pairs(k))
  <2>1. GetIn(buckets, key_bytes, k, n) # NULL
    BY <1>1, LookupsAre
  <2> HIDE DEF n
  <2> QED
    BY <1>1, <2>1, FoundIffHeld
<1> HIDE DEF n
<1>3. ASSUME NEW m, Valid(buckets', m, count'), Holds(buckets', m, Pairs(k))
      PROVE  Get(k)' # NULL
  <2>1. m \in Nat /\ Size(buckets') = m /\ Table(buckets', m)
    BY <1>3, ValidFacts DEF Valid
  <2>2. Get(k)' = GetIn(buckets', key_bytes', k, m)
    BY <2>1, LookupsAreNext
  <2> QED
    BY <1>3, <2>2, FoundIffHeld
<1>4. CASE UNCHANGED <<buckets, key_bytes>>
  <2>1. /\ Size(buckets') = n /\ Table(buckets', n)
        /\ buckets' = buckets /\ key_bytes' = key_bytes
    BY <1>1, <1>4 DEF n
  <2>2. Get(k)' = GetIn(buckets', key_bytes', k, n)
    BY <1>1, <2>1, LookupsAreNext
  <2>3. Get(k) = GetIn(buckets, key_bytes, k, n)
    BY <1>1, LookupsAre DEF n
  <2> QED
    BY <2>1, <2>2, <2>3
<1>5. ASSUME NEW item \in Item, Set(item) PROVE Get(k)' # NULL
  <2>1. PICK room, q, m :
          /\ Alike(buckets, n, room, m)
          /\ PutInto(room, q, item, HashOf[key_bytes[item]], m)
          /\ Valid(buckets', m, count') /\ buckets' = q.buckets
    BY <1>5, SetSteps DEF n
  <2>2. Holds(room, m, Pairs(k))
    BY <1>2, <2>1 DEF Alike
  <2>3. Holds(buckets', m, Pairs(k))
    BY <2>1, <2>2, PairsAreByKey DEF PutInto
  <2> QED
    BY <1>3, <2>1, <2>3
<1>6. ASSUME NEW l \in Key, DeleteHit(l) PROVE Get(k)' # NULL
  <2>1. PICK i \in 0 .. n - 1, m \in Nat :
          /\ Spells(buckets[i], key_bytes, l)
          /\ Valid(buckets', m, count') /\ Without(buckets, n, i, buckets', m)
    BY <1>6, DeleteSteps DEF n
  <2>2. PICK j \in 0 .. n - 1 :
          /\ buckets[j].dib # 0
          /\ <<buckets[j].hash, buckets[j].item>> \in Pairs(k)
    BY <1>2 DEF Holds
  <2>3. l # k
    BY <1>6
  <2>4. j # i
    BY <2>1, <2>2, <2>3 DEF Spells, Pairs
  <2>5. Holds(buckets', m, Pairs(k))
    BY <2>1, <2>2, <2>4 DEF Without
  <2> QED
    BY <1>3, <2>1, <2>5
<1> QED
  BY <1>4, <1>5, <1>6 DEF Next, vars, SetFails, DeleteMiss, Rewrite

(* A key that is found stays found under every call but its own deletion.   *)
THEOREM FoundKeysStayFound == Spec => KeysStayFound
<1>1. IInv /\ [Next]_vars
        => [\A k \in Key : Get(k) # NULL /\ ~DeleteHit(k) /\ UNCHANGED key_bytes
              => Get(k)' # NULL]_vars
  BY FoundStays
<1> QED
  BY <1>1, AlwaysIInv, PTL DEF Spec, KeysStayFound

-----------------------------------------------------------------------------
(* As long as no key changes, no two buckets have one key, and the bucket   *)
(* that a lookup finds is the only one it could find.                       *)

Pair(k, x) == {<<HashOf[k], x>>}

LEMMA AnswerIsHeld ==
  ASSUME NEW b, NEW n, NEW c, Valid(b, n, c), Unique(b, n), NEW k \in Key
  PROVE  /\ \A x \in Item :
              GetIn(b, key_bytes, k, n) = x
                <=> key_bytes[x] = k /\ Holds(b, n, Pair(k, x))
         /\ GetIn(b, key_bytes, k, n) \in Item \union {NULL}
<1> DEFINE x0 == GetIn(b, key_bytes, k, n)
<1>1. /\ n \in Nat /\ n > 1 /\ Vacant(b, n) /\ Table(b, n) /\ Placed(b, n)
      /\ HashOf[k] \in Nat /\ NULL \notin Item
  BY ValidFacts, HashTableAssumption DEF Valid
<1>2. CASE x0 = NULL
  <2>1. ASSUME NEW x \in Item, key_bytes[x] = k, Holds(b, n, Pair(k, x))
        PROVE  FALSE
    <3>1. <<HashOf[k], x>> \in Pairs(k)
      BY <2>1 DEF Pairs
    <3>2. Holds(b, n, Pairs(k))
      BY <2>1, <3>1 DEF Holds, Pair
    <3> QED
      BY <1>2, <3>2, FoundIffHeld
  <2> QED
    BY <1>1, <1>2, <2>1
<1>3. CASE x0 # NULL
  <2>1. PICK i \in 0 .. n - 1 : /\ Spells(b[i], key_bytes, k)
                                /\ x0 = b[i].item /\ x0 \in Item
    BY <1>1, <1>3, FoundSpells
  <2>2. key_bytes[x0] = k /\ Holds(b, n, Pair(k, x0))
    BY <2>1 DEF Spells, Holds, Pair
  <2>3. ASSUME NEW x \in Item, key_bytes[x] = k, Holds(b, n, Pair(k, x))
        PROVE  x0 = x
    <3>1. PICK j \in 0 .. n - 1 :
            b[j].dib # 0 /\ <<b[j].hash, b[j].item>> \in Pair(k, x)
      BY <2>3 DEF Holds
    <3>2. b[j].hash = HashOf[k] /\ b[j].item = x
      BY <3>1 DEF Pair
    <3>3. Same(b[i], b[j])
      BY <2>1, <2>3, <3>2 DEF Spells, Same
    <3>4. i = j
      BY <2>1, <3>1, <3>3 DEF Spells, Unique
    <3> QED
      BY <2>1, <3>2, <3>4
  <2> HIDE DEF x0
  <2> QED
    BY <2>1, <2>2, <2>3 DEF x0
<1> QED
  BY <1>2, <1>3

LEMMA SameAnswers ==
  ASSUME NEW b, NEW n, NEW c, Valid(b, n, c), Unique(b, n),
         NEW d, NEW m, NEW e, Valid(d, m, e), Unique(d, m),
         NEW k \in Key,
         \A x \in Item : key_bytes[x] = k =>
            (Holds(b, n, Pair(k, x)) <=> Holds(d, m, Pair(k, x)))
  PROVE  GetIn(d, key_bytes, k, m) = GetIn(b, key_bytes, k, n)
<1> DEFINE x == GetIn(b, key_bytes, k, n)
           y == GetIn(d, key_bytes, k, m)
<1>1. /\ \A z \in Item : x = z <=> key_bytes[z] = k /\ Holds(b, n, Pair(k, z))
      /\ x \in Item \union {NULL}
  BY AnswerIsHeld
<1>2. /\ \A z \in Item : y = z <=> key_bytes[z] = k /\ Holds(d, m, Pair(k, z))
      /\ y \in Item \union {NULL}
  BY AnswerIsHeld
<1> HIDE DEF x, y
<1>3. ASSUME x \in Item PROVE x = y
  BY <1>1, <1>2, <1>3
<1>4. ASSUME y \in Item PROVE x = y
  BY <1>1, <1>2, <1>4
<1>5. x = y
  BY <1>1, <1>2, <1>3, <1>4
<1> QED
  BY <1>5 DEF x, y

(* A call that puts or takes away keeps the answers under other keys.       *)
LEMMA SetAnswers ==
  ASSUME IInv, Unique(buckets, Size(buckets)), NEW item \in Item, Set(item)
  PROVE  /\ Unique(buckets', Size(buckets'))
         /\ dropped' = Get(key_bytes[item])
         /\ \A k \in Key :
              Get(k)' = IF k = key_bytes[item] THEN item ELSE Get(k)
<1> DEFINE n == Size(buckets)
           hash == HashOf[key_bytes[item]]
<1>1. Valid(buckets, n, count) /\ n \in Nat /\ Table(buckets, n)
  BY ValidFacts DEF IInv, Valid
<1>2. /\ key_bytes[item] \in Key /\ hash \in Nat /\ key_bytes' = key_bytes
  BY HashTableAssumption DEF IInv, Set
<1>3. PICK room, q, m :
        /\ m \in Nat /\ m > 1 /\ Size(buckets') = m
        /\ Alike(buckets, n, room, m) /\ Table(room, m)
        /\ PutInto(room, q, item, hash, m)
        /\ Valid(buckets', m, count')
        /\ buckets' = q.buckets /\ dropped' = q.replaced
  BY SetSteps
<1>4. Unique(buckets, n)
  OBVIOUS
<1>5. \A k \in Key : Get(k) = GetIn(buckets, key_bytes, k, n)
  BY <1>1, LookupsAre
<1>6. \A k \in Key : Get(k)' = GetIn(buckets', key_bytes, k, m)
  BY <1>2, <1>3, LookupsAreNext DEF Valid
<1> HIDE DEF n, hash
<1>7. Unique(room, m)
  BY <1>3, <1>4 DEF Alike
<1> DEFINE e == [item |-> item, hash |-> hash, dib |-> 1]
(* What is held under other keys. *)
<1>8. SUFFICES /\ Unique(buckets', m)
               /\ dropped' = GetIn(buckets, key_bytes, key_bytes[item], n)
               /\ \A x \in Item, k \in Key :
                    key_bytes[x] = k /\ k # key_bytes[item] =>
                      (Holds(room, m, Pair(k, x))
                         <=> Holds(buckets', m, Pair(k, x)))
  <2>1. \A x \in Item, k \in Key :
           key_bytes[x] = k /\ k # key_bytes[item] =>
             (Holds(buckets, n, Pair(k, x)) <=> Holds(buckets', m, Pair(k, x)))
    BY <1>3, <1>8 DEF Alike
  <2>2. ASSUME NEW k \in Key, k # key_bytes[item] PROVE Get(k)' = Get(k)
    <3>1. GetIn(buckets', key_bytes, k, m) = GetIn(buckets, key_bytes, k, n)
      BY <1>1, <1>3, <1>4, <1>8, <2>1, <2>2, SameAnswers
    <3> QED
      BY <1>5, <1>6, <3>1
  <2>3. Get(key_bytes[item])' = item
    BY PutIsFound
  <2>4. \A k \in Key : Get(k)' = IF k = key_bytes[item] THEN item ELSE Get(k)
    BY <2>2, <2>3, <1>2
  <2> QED
    BY <1>2, <1>3, <1>5, <1>8, <2>4
<1>9. CASE Fresh(room, m, e)
  <2>1. q.replaced = NULL /\ Unique(q.buckets, m)
    BY <1>3, <1>7, <1>9 DEF PutInto
  <2>2. \A T : Holds(buckets', m, T)
                  <=> Holds(room, m, T) \/ <<hash, item>> \in T
    BY <1>3, <2>1 DEF PutInto
  <2>3. ASSUME NEW x \in Item, key_bytes[x] # key_bytes[item], NEW k \in Key
        PROVE  <<hash, item>> \notin Pair(k, x)
    BY <2>3 DEF Pair
  <2>4. GetIn(buckets, key_bytes, key_bytes[item], n) = NULL
    <3>1. SUFFICES ASSUME NEW x \in Item,
                          x = GetIn(buckets, key_bytes, key_bytes[item], n)
                   PROVE  FALSE
      BY <1>1, <1>2, <1>4, AnswerIsHeld
    <3>2. /\ key_bytes[x] = key_bytes[item]
          /\ Holds(buckets, n, Pair(key_bytes[item], x))
      BY <1>1, <1>2, <1>4, <3>1, AnswerIsHeld
    <3>3. Holds(room, m, Pair(key_bytes[item], x))
      BY <1>3, <3>2 DEF Alike
    <3>4. PICK i \in 0 .. m - 1 :
            room[i].dib # 0 /\ room[i].hash = hash /\ room[i].item = x
      BY <3>3 DEF Holds, Pair, hash
    <3> QED
      BY <1>9, <3>2, <3>4 DEF Fresh, Same
  <2> QED
    BY <1>3, <2>1, <2>2, <2>3, <2>4
<1>10. CASE ~Fresh(room, m, e)
  <2>1. PICK i \in 0 .. m - 1 : Knows(room[i], item, hash)
    BY <1>10 DEF Fresh, Same, Knows
  <2>2. Swaps(room, q, i, item)
    BY <1>3, <1>7, <2>1 DEF PutInto
  <2>3. /\ room \in [0 .. m - 1 -> Bucket] /\ room[i].item \in Item
        /\ room[i].dib # 0 /\ room[i].hash = hash
        /\ key_bytes[room[i].item] = key_bytes[item]
    BY <1>3, <2>1 DEF Table, Knows
  <2> DEFINE c == buckets'
  <2>4. /\ dropped' = room[i].item
        /\ c = Put(room, i, [room[i] EXCEPT !.item = item])
    BY <1>3, <2>2 DEF Swaps
  <2> HIDE DEF c
  <2>5. /\ \A j \in 0 .. m - 1 : j # i => c[j] = room[j]
        /\ c[i].item = item /\ c[i].hash = hash /\ c[i].dib = room[i].dib
    <3>1. room[i] \in Bucket
      BY <2>3
    <3>2. PICK here : here = room[i]
      OBVIOUS
    <3>3. [here EXCEPT !.item = item] =
            [item |-> item, hash |-> here.hash, dib |-> here.dib]
      BY <3>1, <3>2 DEF Bucket
    <3>4. /\ \A j \in 0 .. m - 1 : j # i => c[j] = room[j]
          /\ c[i] = [here EXCEPT !.item = item]
      BY <2>3, <2>4, <3>2 DEF Put
    <3>5. c[i] = [item |-> item, hash |-> here.hash, dib |-> here.dib]
      BY <3>3, <3>4
    <3>6. c[i].item = item /\ c[i].hash = here.hash /\ c[i].dib = here.dib
      BY <3>5
    <3> QED
      BY <2>3, <3>2, <3>4, <3>6
  <2>6. Unique(c, m)
    <3>1. \A j \in 0 .. m - 1 :
            /\ c[j].hash = room[j].hash /\ c[j].dib = room[j].dib
            /\ key_bytes[c[j].item] = key_bytes[room[j].item]
      BY <2>3, <2>5
    <3> QED
      BY <1>7, <3>1 DEF Unique, Same
  <2>7. ASSUME NEW x \in Item, NEW k \in Key,
               key_bytes[x] = k, k # key_bytes[item]
        PROVE  Holds(room, m, Pair(k, x)) <=> Holds(c, m, Pair(k, x))
    <3>1. x # item /\ x # room[i].item
      BY <2>3, <2>7
    <3>2. /\ <<room[i].hash, room[i].item>> \notin Pair(k, x)
          /\ <<c[i].hash, c[i].item>> \notin Pair(k, x)
      BY <2>5, <3>1 DEF Pair
    <3> QED
      BY <2>5, <3>2 DEF Holds
  <2>8. room[i].item = GetIn(buckets, key_bytes, key_bytes[item], n)
    <3>1. Holds(room, m, Pair(key_bytes[item], room[i].item))
      BY <2>3 DEF Holds, Pair, hash
    <3>2. Holds(buckets, n, Pair(key_bytes[item], room[i].item))
      BY <1>3, <3>1 DEF Alike
    <3> QED
      BY <1>1, <1>2, <1>4, <2>3, <3>2, AnswerIsHeld
  <2> QED
    BY <2>4, <2>6, <2>7, <2>8 DEF c
<1> QED
  BY <1>9, <1>10

LEMMA DeleteAnswers ==
  ASSUME IInv, Unique(buckets, Size(buckets)), NEW k \in Key, DeleteHit(k)
  PROVE  /\ Unique(buckets', Size(buckets'))
         /\ dropped' = Get(k)
         /\ \A l \in Key : Get(l)' = IF l = k THEN NULL ELSE Get(l)
<1> DEFINE n == Size(buckets)
<1>1. Valid(buckets, n, count) /\ n \in Nat /\ Table(buckets, n)
  BY ValidFacts DEF IInv, Valid
<1>2. key_bytes' = key_bytes
  BY DEF DeleteHit
<1>3. PICK i \in 0 .. n - 1, m \in Nat :
        /\ Found(k) = {i} /\ Spells(buckets[i], key_bytes, k)
        /\ Valid(buckets', m, count') /\ Size(buckets') = m
        /\ Without(buckets, n, i, buckets', m)
        /\ dropped' = buckets[i].item /\ dropped' \in Item
  BY DeleteSteps
<1>4. \A l \in Key : Get(l) = GetIn(buckets, key_bytes, l, n)
  BY <1>1, LookupsAre
<1>5. \A l \in Key : Get(l)' = GetIn(buckets', key_bytes, l, m)
  BY <1>2, <1>3, LookupsAreNext DEF Valid
<1>6. Unique(buckets, n)
  OBVIOUS
<1> HIDE DEF n
<1>7. Unique(buckets', m)
  BY <1>3, <1>6 DEF Without
<1>8. dropped' = Get(k)
  <2>1. (CHOOSE j \in {i} : TRUE) = i
    OBVIOUS
  <2> QED
    BY <1>3, <2>1 DEF Get
<1>9. Get(k)' = NULL
  <2>1. SUFFICES ASSUME NEW x \in Item, x = GetIn(buckets', key_bytes, k, m)
                 PROVE  FALSE
    BY <1>3, <1>5, <1>7, AnswerIsHeld
  <2>2. key_bytes[x] = k /\ Holds(buckets', m, Pair(k, x))
    BY <1>3, <1>7, <2>1, AnswerIsHeld
  <2>3. PICK j \in 0 .. n - 1 :
          j # i /\ buckets[j].dib # 0
          /\ <<buckets[j].hash, buckets[j].item>> \in Pair(k, x)
    BY <1>3, <2>2 DEF Without
  <2>4. Same(buckets[i], buckets[j])
    BY <1>3, <2>2, <2>3 DEF Pair, Spells, Same
  <2> QED
    BY <1>3, <1>6, <2>3, <2>4 DEF Spells, Unique
<1>10. ASSUME NEW l \in Key, l # k PROVE Get(l)' = Get(l)
  <2>1. ASSUME NEW x \in Item, key_bytes[x] = l
        PROVE  Holds(buckets, n, Pair(l, x)) <=> Holds(buckets', m, Pair(l, x))
    <3>1. <<buckets[i].hash, buckets[i].item>> \notin Pair(l, x)
      BY <1>3, <1>10, <2>1 DEF Spells, Pair
    <3>2. Holds(buckets', m, Pair(l, x))
            <=> \E j \in 0 .. n - 1 :
                  /\ j # i /\ buckets[j].dib # 0
                  /\ <<buckets[j].hash, buckets[j].item>> \in Pair(l, x)
      BY <1>3 DEF Without
    <3> QED
      BY <3>1, <3>2 DEF Holds
  <2>2. GetIn(buckets', key_bytes, l, m) = GetIn(buckets, key_bytes, l, n)
    BY <1>1, <1>3, <1>6, <1>7, <2>1, SameAnswers
  <2> QED
    BY <1>4, <1>5, <2>2
<1> QED
  BY <1>3, <1>7, <1>8, <1>9, <1>10

-----------------------------------------------------------------------------
(* The table implements a map. *)

MapInv == IInv /\ key_bytes = FirstKey /\ Unique(buckets, Size(buckets))

LEMMA InitMapInv == Init => MapInv
<1> SUFFICES ASSUME Init PROVE MapInv
  OBVIOUS
<1>1. IInv
  BY InitIInv
<1>2. MinCap \in Nat /\ MinCap > 1
  BY HashTableAssumption
<1>3. \A i \in 0 .. MinCap - 1 : NewBuckets(MinCap)[i].dib = 0
  BY <1>2, NewTable
<1>4. Size(NewBuckets(MinCap)) = MinCap
  BY <1>2, NewTable, TableFacts
<1>5. Unique(buckets, Size(buckets))
  BY <1>3, <1>4 DEF Unique, Init
<1> QED
  BY <1>1, <1>5 DEF MapInv, Init

LEMMA NextMapInv ==
  ASSUME Rewritable = {}, MapInv, [Next]_vars
  PROVE  MapInv'
<1>1. IInv'
  BY NextIInv DEF MapInv
<1>2. SUFFICES key_bytes' = key_bytes /\ Unique(buckets', Size(buckets'))
  BY <1>1, <1>2 DEF MapInv, Unique, Same
<1>3. CASE UNCHANGED <<buckets, key_bytes>>
  BY <1>3 DEF MapInv
<1>4. ASSUME NEW item \in Item, Set(item)
      PROVE  key_bytes' = key_bytes /\ Unique(buckets', Size(buckets'))
  BY <1>4, SetAnswers DEF MapInv, Set
<1>5. ASSUME NEW k \in Key, DeleteHit(k)
      PROVE  key_bytes' = key_bytes /\ Unique(buckets', Size(buckets'))
  BY <1>5, DeleteAnswers DEF MapInv, DeleteHit
<1> QED
  BY <1>3, <1>4, <1>5 DEF Next, vars, SetFails, DeleteMiss, Rewrite

Answers == [k \in Key |-> Get(k)]

LEMMA MapStep ==
  ASSUME Rewritable = {}, MapInv, [Next]_vars
  PROVE  [Map!Next]_<<[k \in Key |-> Get(k)], dropped, oom>>
<1>0. /\ IInv /\ Unique(buckets, Size(buckets)) /\ key_bytes = FirstKey
      /\ FirstKey \in [Item -> Key]
  BY HashTableAssumption DEF MapInv
<1>1. ASSUME UNCHANGED <<buckets, key_bytes>>, NEW k \in Key
      PROVE  Get(k)' = Get(k)
  <2> DEFINE n == Size(buckets)
  <2>1. Valid(buckets, n, count) /\ n \in Nat /\ Table(buckets, n)
    BY <1>0, ValidFacts DEF IInv, Valid
  <2>2. /\ Size(buckets') = n /\ Table(buckets', n)
        /\ buckets' = buckets /\ key_bytes' = key_bytes
    BY <1>1, <2>1 DEF n
  <2>3. Get(k)' = GetIn(buckets', key_bytes', k, n)
    BY <2>1, <2>2, LookupsAreNext
  <2>4. Get(k) = GetIn(buckets, key_bytes, k, n)
    BY <2>1, LookupsAre DEF n
  <2> QED
    BY <2>2, <2>3, <2>4
<1>2. ASSUME UNCHANGED <<buckets, key_bytes>> PROVE Answers' = Answers
  BY <1>1, <1>2 DEF Answers
<1>3. CASE SetFails
  <2>1. Answers' = Answers
    BY <1>2, <1>3 DEF SetFails
  <2>2. Map!PutFails
    BY <1>3, <2>1 DEF SetFails, Map!PutFails, Answers
  <2> QED
    BY <2>2 DEF Map!Next
<1>4. ASSUME NEW item \in Item, Set(item) PROVE Map!Next
  <2> DEFINE k == FirstKey[item]
  <2>1. k \in Key /\ key_bytes[item] = k
    BY <1>0
  <2>2. /\ dropped' = Get(k)
        /\ \A l \in Key : Get(l)' = IF l = k THEN item ELSE Get(l)
    BY <1>0, <1>4, <2>1, SetAnswers
  <2> HIDE DEF k
  <2>3. Answers' = [Answers EXCEPT ![k] = item] /\ dropped' = Answers[k]
    BY <2>1, <2>2 DEF Answers
  <2>4. oom' = FALSE
    BY <1>4 DEF Set
  <2>5. Map!Put(item)
    BY <2>3, <2>4 DEF Map!Put, Answers, k
  <2> QED
    BY <2>5 DEF Map!Next
<1>5. ASSUME NEW k \in Key, DeleteMiss(k) PROVE Map!Next
  <2>1. Answers' = Answers /\ Get(k) = NULL
    BY <1>2, <1>5 DEF DeleteMiss, Get
  <2>2. /\ Answers' = [Answers EXCEPT ![k] = NULL]
        /\ dropped' = Answers[k] /\ oom' = FALSE
    BY <1>5, <2>1 DEF Answers, DeleteMiss
  <2>3. Map!Delete(k)
    BY <2>2 DEF Map!Delete, Answers
  <2> QED
    BY <2>3 DEF Map!Next
<1>6. ASSUME NEW k \in Key, DeleteHit(k) PROVE Map!Next
  <2>1. /\ dropped' = Get(k)
        /\ \A l \in Key : Get(l)' = IF l = k THEN NULL ELSE Get(l)
    BY <1>0, <1>6, DeleteAnswers
  <2>2. Answers' = [Answers EXCEPT ![k] = NULL] /\ dropped' = Answers[k]
    BY <2>1 DEF Answers
  <2>3. oom' = FALSE
    BY <1>6 DEF DeleteHit
  <2>4. Map!Delete(k)
    BY <2>2, <2>3 DEF Map!Delete, Answers
  <2> QED
    BY <2>4 DEF Map!Next
<1>7. CASE UNCHANGED vars
  BY <1>2, <1>7 DEF vars, Answers
<1>8. ~\E item \in Item, k \in Key : Rewrite(item, k)
  BY DEF Rewrite
<1> QED
  BY <1>3, <1>4, <1>5, <1>6, <1>7, <1>8 DEF Next

LEMMA MapInit == Init => Map!Init
<1> SUFFICES ASSUME Init PROVE Map!Init
  OBVIOUS
<1>1. IInv /\ Unique(buckets, Size(buckets)) /\ key_bytes = FirstKey
  BY InitMapInv DEF MapInv
<1>2. ASSUME NEW k \in Key PROVE Get(k) = NULL
  <2> DEFINE n == Size(buckets)
  <2>1. Valid(buckets, n, count) /\ n \in Nat /\ n > 1 /\ Table(buckets, n)
    BY <1>1, ValidFacts DEF IInv, Valid
  <2>2. Occupied(buckets) = {}
    BY NewTable, HashTableAssumption DEF Init
  <2>3. Get(k) = GetIn(buckets, key_bytes, k, n)
    BY <2>1, LookupsAre
  <2> HIDE DEF n
  <2>4. HashOf[k] \in Nat /\ \A i \in 0 .. n - 1 : buckets[i].dib = 0
    BY <2>1, <2>2, TableFacts, HashTableAssumption
  <2> QED
    BY <2>1, <2>3, <2>4, FoundSpells DEF Spells
<1> QED
  BY <1>2 DEF Map!Init, Init

(* As long as no key changes, the table is a map from keys to the entries   *)
(* last put under them.                                                     *)
THEOREM TableIsAMap ==
  ASSUME Rewritable = {}
  PROVE  Spec => ImplementsMap
<1>1. Spec => []MapInv
  <2>1. MapInv /\ [Next]_vars => MapInv'
    BY NextMapInv
  <2> QED
    BY <2>1, InitMapInv, PTL DEF Spec
<1>2. MapInv /\ [Next]_vars
        => [Map!Next]_<<[k \in Key |-> Get(k)], dropped, oom>>
  BY MapStep
<1> QED
  BY <1>1, <1>2, MapInit, PTL DEF Spec, ImplementsMap, Map!Spec
=============================================================================
