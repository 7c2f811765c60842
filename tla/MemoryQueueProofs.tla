------------------------- MODULE MemoryQueueProofs -------------------------
(***************************************************************************)
(* Proofs about the circular allocator, for every capacity, header size    *)
(* and set of payload sizes.                                               *)
(***************************************************************************)
EXTENDS MemoryQueue, NaturalLemmas, SequenceTheorems, TLAPS

Inv == TypeOK /\ Layout

Entry == [addr : Address, size : 0 .. Capacity]

(* What TypeOK says of the entries, in the form the arithmetic below needs. *)
EntryTypes ==
  /\ Capacity \in Nat /\ HeaderSize \in Nat /\ HeaderSize > 0
  /\ Len(fifo) \in Nat
  /\ read_index \in Nat /\ write_index \in Nat /\ total_size \in Nat
  /\ \A i \in 1 .. Len(fifo) :
       /\ fifo[i] \in Entry
       /\ fifo[i].addr \in Nat /\ fifo[i].size \in Nat
  /\ fifo \in Seq(Entry) /\ DOMAIN fifo = 1 .. Len(fifo)
  /\ fifo # << >> <=> 0 < Len(fifo)

LEMMA EntryTypesHold == TypeOK => EntryTypes
<1> SUFFICES ASSUME TypeOK PROVE EntryTypes
  OBVIOUS
<1>1. fifo \in Seq(Entry)
  BY DEF TypeOK, Entry
<1>2. Len(fifo) \in Nat /\ DOMAIN fifo = 1 .. Len(fifo)
  BY <1>1
<1>3. \A i \in 1 .. Len(fifo) : fifo[i] \in Entry
  BY <1>1
<1>4. \A i \in 1 .. Len(fifo) : fifo[i].addr \in Nat /\ fifo[i].size \in Nat
  BY <1>3, MemoryQueueAssumption DEF Entry, Address
<1>5. fifo # << >> <=> 0 < Len(fifo)
  BY <1>1, <1>2
<1>6. read_index \in Nat /\ write_index \in Nat /\ total_size \in Nat
  BY MemoryQueueAssumption DEF TypeOK, Address
<1> QED
  BY <1>1, <1>2, <1>3, <1>4, <1>5, <1>6, MemoryQueueAssumption DEF EntryTypes

(* The loops call force_clean only while the entries are wrapped around.    *)
LEMMA CleanedQueueIsWrapped ==
  ASSUME Inv, (pc = "wrap" /\ MustDrainUpper) \/ (pc = "reclaim" /\ MustReclaim)
  PROVE  fifo # << >> /\ Wrapped
<1>1. EntryTypes
  BY EntryTypesHold DEF Inv
<1> QED
  BY <1>1 DEF Inv, Layout, Indices, MustDrainUpper, MustReclaim, Wrapped, EntryTypes

(* What remove_entry finds behind the oldest entry of a wrapped queue.      *)
FollowingFacts ==
  /\ read_index = fifo[1].addr
  /\ read_index + size[read_index] = End(1)
  /\ End(1) \in Address
  /\ End(1) > fifo[1].addr
  /\ 1 < Len(fifo) =>
       \/ fifo[2].addr = End(1) /\ end_of_buffer[End(1)] = {FALSE}
       \/ fifo[2].addr = 0 /\ end_of_buffer[End(1)] = {TRUE}
  /\ ~(1 < Len(fifo)) => write_index = 0 /\ end_of_buffer[End(1)] = {TRUE}

LEMMA Following ==
  ASSUME Inv, fifo # << >>, Wrapped
  PROVE  FollowingFacts
<1>1. EntryTypes /\ 1 \in 1 .. Len(fifo)
  BY EntryTypesHold DEF Inv, EntryTypes
<1>2. read_index = fifo[1].addr
  BY DEF Inv, Layout, Indices
<1>3. /\ HeaderSize <= fifo[1].size /\ End(1) <= Capacity
      /\ size[fifo[1].addr] = fifo[1].size
  BY <1>1 DEF Inv, Layout, Placement
<1>4. /\ read_index + size[read_index] = End(1)
      /\ End(1) \in Address /\ End(1) > fifo[1].addr
  BY <1>1, <1>2, <1>3 DEF End, Address, EntryTypes
<1>5. IF 1 < Len(fifo)
      THEN \/ fifo[1 + 1].addr = End(1)
           \/ fifo[1 + 1].addr = 0 /\ end_of_buffer[End(1)] = {TRUE}
      ELSE \/ write_index = End(1)
           \/ write_index = 0 /\ end_of_buffer[End(1)] = {TRUE}
  BY <1>1 DEF Inv, Layout, Adjacency
<1>6. CASE ~(1 < Len(fifo))
  <2>1. write_index # End(1)
    BY <1>1, <1>2, <1>4 DEF Wrapped, EntryTypes, Address
  <2> QED BY <1>2, <1>4, <1>5, <1>6, <2>1 DEF FollowingFacts
<1>7. CASE 1 < Len(fifo)
  <2>1. 2 \in 1 .. Len(fifo)
    BY <1>1, <1>7 DEF EntryTypes
  <2>2. 1 + 1 = 2
    OBVIOUS
  <2>3. \/ fifo[2].addr = End(1)
        \/ fifo[2].addr = 0 /\ end_of_buffer[End(1)] = {TRUE}
    BY <1>5, <1>7, <2>2
  <2>4. fifo[2].addr # 0 => end_of_buffer[fifo[2].addr] = {FALSE}
    BY <2>1 DEF Inv, Layout, Placement
  <2>5. End(1) # 0
    BY <1>1, <1>4 DEF EntryTypes, Address
  <2> QED
    BY <1>2, <1>4, <1>7, <2>3, <2>4, <2>5 DEF FollowingFacts
<1> QED BY <1>6, <1>7

(* remove_entry on a wrapped queue takes the oldest entry out and moves     *)
(* read_index to the next one; everything else stays laid out as it was.    *)
LEMMA RemoveEntryKeepsTypes ==
  ASSUME Inv, fifo # << >>, Wrapped, RemoveEntry,
         UNCHANGED <<pc, total_size, result>>
  PROVE  /\ TypeOK'
         /\ Len(fifo') = Len(fifo) - 1
         /\ \A i \in 1 .. Len(fifo') : fifo'[i] = fifo[i + 1]
         /\ read_index' = IF 1 < Len(fifo) THEN fifo[2].addr ELSE 0
<1>1. EntryTypes /\ FollowingFacts /\ 0 < Len(fifo)
  BY EntryTypesHold, Following DEF Inv, EntryTypes
<1>2. /\ fifo' \in Seq(Entry) /\ Len(fifo') = Len(fifo) - 1
      /\ \A i \in 1 .. Len(fifo') : fifo'[i] = fifo[i + 1]
  <2>1. fifo \in Seq(Entry) /\ fifo # << >> /\ fifo' = Tail(fifo)
    BY <1>1 DEF EntryTypes, RemoveEntry
  <2>2. /\ Tail(fifo) \in Seq(Entry) /\ Len(Tail(fifo)) = Len(fifo) - 1
        /\ \A i \in 1 .. Len(Tail(fifo)) : Tail(fifo)[i] = fifo[i + 1]
    BY <2>1, HeadTailProperties, Zenon
  <2> QED BY <2>1, <2>2, Zenon
<1>3. read_index' = IF 1 < Len(fifo) THEN fifo[2].addr ELSE 0
  <2>1. PICK marked \in end_of_buffer[End(1)] :
          read_index' = IF marked THEN 0 ELSE End(1)
    <3>1. \E marked \in end_of_buffer[read_index + size[read_index]] :
            read_index' = IF marked THEN 0 ELSE read_index + size[read_index]
      BY Zenon DEF RemoveEntry
    <3>2. read_index + size[read_index] = End(1)
      BY <1>1, Zenon DEF FollowingFacts
    <3> QED BY <3>1, <3>2
  <2>2. CASE 1 < Len(fifo) /\ fifo[2].addr = End(1) /\ end_of_buffer[End(1)] = {FALSE}
    <3>1. read_index' = End(1)
      BY <2>1, <2>2, Zenon
    <3> QED BY <2>2, <3>1
  <2>3. CASE 1 < Len(fifo) /\ fifo[2].addr = 0 /\ end_of_buffer[End(1)] = {TRUE}
    <3>1. read_index' = 0
      BY <2>1, <2>3, Zenon
    <3> QED BY <2>3, <3>1
  <2>4. CASE ~(1 < Len(fifo)) /\ end_of_buffer[End(1)] = {TRUE}
    <3>1. read_index' = 0
      BY <2>1, <2>4, Zenon
    <3> QED BY <2>4, <3>1
  <2> QED BY <1>1, <2>2, <2>3, <2>4, Zenon DEF FollowingFacts
<1>4. read_index' \in Address
  <2>1. CASE 1 < Len(fifo)
    <3>1. 2 \in 1 .. Len(fifo)
      BY <1>1, <2>1 DEF EntryTypes
    <3> QED BY <1>1, <1>3, <2>1, <3>1 DEF Entry, EntryTypes
  <2>2. CASE ~(1 < Len(fifo))
    BY <1>1, <1>3, <2>2 DEF EntryTypes, Address
  <2> QED BY <2>1, <2>2
<1>5. entry_count' \in Nat
  BY <1>1 DEF RemoveEntry, Inv, Layout, Indices, EntryTypes
<1>6. occupied_bytes' \in Int
  <2>1. size[read_index] \in 0 .. Capacity
    BY DEF Inv, TypeOK
  <2> QED BY <1>1, <2>1 DEF RemoveEntry, Inv, TypeOK, EntryTypes
<1>7. active' \in [Address -> BOOLEAN]
  BY DEF RemoveEntry, Inv, TypeOK
<1>8. TypeOK'
  BY <1>2, <1>4, <1>5, <1>6, <1>7 DEF RemoveEntry, Inv, TypeOK, Entry
<1> QED BY <1>2, <1>3, <1>8

LEMMA RemoveEntryKeepsLayout ==
  ASSUME Inv, fifo # << >>, Wrapped, RemoveEntry,
         UNCHANGED <<pc, total_size, result>>
  PROVE  Inv'
<1>1. EntryTypes /\ FollowingFacts /\ 0 < Len(fifo)
  BY EntryTypesHold, Following DEF Inv, EntryTypes
<1>2. /\ TypeOK'
      /\ Len(fifo') = Len(fifo) - 1
      /\ \A i \in 1 .. Len(fifo') : fifo'[i] = fifo[i + 1]
      /\ read_index' = IF 1 < Len(fifo) THEN fifo[2].addr ELSE 0
  BY RemoveEntryKeepsTypes
<1>3. EntryTypes'
  BY <1>2, EntryTypesHold, PTL
<1>4. \A i \in 1 .. Len(fifo') : i + 1 \in 2 .. Len(fifo)
  BY <1>1, <1>2 DEF EntryTypes
<1>5. /\ write_index' = write_index /\ size' = size
      /\ end_of_buffer' = end_of_buffer
      /\ entry_count' = Len(fifo')
  BY <1>2 DEF RemoveEntry, Inv, Layout, Indices
<1>6. Request' /\ Reach'
  <2>1. write_index # 0 => MarkerFits
    BY <1>1 DEF Inv, Layout, Indices, Wrapped, MarkerFits, TypeOK, Address, EntryTypes
  <2>2. MarkerFits => MarkerFits'
    BY <1>5 DEF MarkerFits
  <2>3. pc' = pc /\ total_size' = total_size
    OBVIOUS
  <2> QED BY <1>5, <2>1, <2>2, <2>3 DEF Inv, Layout, Request, Reach
<1>7. CASE ~(1 < Len(fifo))
  <2>1. ~(0 < Len(fifo'))
    BY <1>1, <1>2, <1>7 DEF EntryTypes
  <2>2. fifo' = << >> /\ \A i \in 1 .. Len(fifo') : FALSE
    BY <1>3, <2>1 DEF EntryTypes
  <2>3. read_index' = 0 /\ write_index' = 0
    BY <1>1, <1>2, <1>5, <1>7 DEF FollowingFacts
  <2> QED
    BY <1>2, <1>5, <1>6, <2>2, <2>3
       DEF Inv, Layout, Indices, Placement, Order, Adjacency
<1>8. CASE 1 < Len(fifo)
  <2>1. read_index' = fifo[2].addr /\ 0 < Len(fifo') /\ 1 \in 1 .. Len(fifo')
    BY <1>1, <1>2, <1>8 DEF EntryTypes
  <2>2. fifo'[1] = fifo[2]
    BY <1>2, <2>1
  <2>3. fifo # << >> /\ fifo' # << >>
    BY <1>1, <1>3, <2>1 DEF EntryTypes
  <2> DEFINE r == read_index
             r1 == read_index'
             w == write_index
             n == Len(fifo)
             A(i) == fifo[i].addr
             E(i) == fifo[i].addr + fifo[i].size
  <2>4. /\ n \in Nat /\ 1 < n /\ r \in Nat /\ w \in Nat
        /\ w <= r /\ r = A(1) /\ r1 = A(2) /\ 2 \in 1 .. n /\ 1 \in 1 .. n
        /\ \A i \in 1 .. n : A(i) \in Nat /\ E(i) \in Nat
    BY <1>1, <1>8, <2>1 DEF EntryTypes, FollowingFacts, Wrapped
  <2>5. /\ w # 0 => w + HeaderSize < r
        /\ r1 = E(1) \/ r1 = 0
        /\ E(1) > r
    BY <1>1, <1>8, <2>1, <2>3 DEF Inv, Layout, Indices, FollowingFacts, Wrapped, End
  <2>6. \A i \in 1 .. n : A(i) < E(i) /\ (r <= A(i) \/ E(i) <= w)
    <3> SUFFICES ASSUME NEW i \in 1 .. Len(fifo)
                 PROVE  A(i) < E(i) /\ (r <= A(i) \/ E(i) <= w)
      OBVIOUS
    <3>1. HeaderSize <= fifo[i].size /\ (Upper(i) \/ End(i) <= write_index)
      BY DEF Inv, Layout, Placement
    <3> QED BY <1>1, <3>1 DEF EntryTypes, Upper, End
  <2>7. \A i, k \in 1 .. n : i < k =>
           /\ E(i) <= A(k) \/ (r <= A(i) /\ E(k) <= w)
           /\ r <= A(k) => r <= A(i)
    BY <1>1 DEF Inv, Layout, Order, Upper, End, EntryTypes
  <2>8. \A i \in 1 .. Len(fifo') :
           /\ i + 1 \in 1 .. n
           /\ i < Len(fifo') <=> i + 1 < n
           /\ fifo'[i] = fifo[i + 1]
           /\ End(i)' = E(i + 1)
    BY <1>1, <1>2, <1>4 DEF EntryTypes, End
  <2>9. \A i \in 1 .. n :
           /\ HeaderSize <= fifo[i].size /\ E(i) <= Capacity
           /\ size[A(i)] = fifo[i].size
           /\ A(i) # 0 => end_of_buffer[A(i)] = {FALSE}
    BY DEF Inv, Layout, Placement, End
  <2>10. \A i \in 1 .. n :
            IF i < n
            THEN \/ A(i + 1) = E(i)
                 \/ A(i + 1) = 0 /\ end_of_buffer[E(i)] = {TRUE} /\ r <= A(i)
            ELSE \/ w = E(i)
                 \/ w = 0 /\ end_of_buffer[E(i)] = {TRUE}
    <3> SUFFICES ASSUME NEW i \in 1 .. n
                 PROVE  IF i < n
                        THEN \/ A(i + 1) = E(i)
                             \/ A(i + 1) = 0 /\ end_of_buffer[E(i)] = {TRUE} /\ r <= A(i)
                        ELSE \/ w = E(i)
                             \/ w = 0 /\ end_of_buffer[E(i)] = {TRUE}
      OBVIOUS
    <3>1. Upper(i) => r <= A(i)
      BY <2>4 DEF Upper
    <3> QED BY <3>1 DEF Inv, Layout, Adjacency, End
  <2>11. CASE r1 = E(1)
    <3>1. r < r1 /\ w <= r1 /\ Wrapped'
      BY <1>5, <2>4, <2>5, <2>11 DEF Wrapped
    <3>2. \A k \in 2 .. n : r <= A(k) => r1 <= A(k)
      BY <2>4, <2>6, <2>7, <2>11
    <3>3. Indices'
      BY <1>1, <1>5, <2>1, <2>2, <2>3, <2>5, <3>1 DEF Indices, EntryTypes
    <3>4. Placement'
      <4> SUFFICES ASSUME NEW i \in 1 .. Len(fifo')
                   PROVE  /\ HeaderSize <= fifo'[i].size
                          /\ End(i)' <= Capacity
                          /\ size'[fifo'[i].addr] = fifo'[i].size
                          /\ fifo'[i].addr # 0 => end_of_buffer'[fifo'[i].addr] = {FALSE}
                          /\ Upper(i)' \/ End(i)' <= write_index'
        BY <3>1 DEF Placement
      <4>1. i + 1 \in 1 .. n /\ i + 1 \in 2 .. n
        BY <1>4, <2>8
      <4>2. r <= A(i + 1) \/ E(i + 1) <= w
        BY <2>6, <4>1
      <4>3. Upper(i)' \/ End(i)' <= write_index'
        BY <1>5, <2>8, <3>2, <4>1, <4>2, <2>4 DEF Upper
      <4> QED BY <1>5, <2>8, <2>9, <4>1, <4>3
    <3>5. Order'
      <4> SUFFICES ASSUME NEW i \in 1 .. Len(fifo'), NEW k \in 1 .. Len(fifo'), i < k
                   PROVE  /\ \/ End(i)' <= fifo'[k].addr
                             \/ Upper(i)' /\ End(k)' <= write_index'
                          /\ Upper(k)' => Upper(i)'
        BY <3>1 DEF Order
      <4>1. /\ i + 1 \in 1 .. n /\ i + 1 \in 2 .. n
            /\ k + 1 \in 1 .. n /\ k + 1 \in 2 .. n /\ i + 1 < k + 1
        BY <1>3, <1>4, <2>8 DEF EntryTypes
      <4>2. /\ E(i + 1) <= A(k + 1) \/ (r <= A(i + 1) /\ E(k + 1) <= w)
            /\ r <= A(k + 1) => r <= A(i + 1)
        BY <2>7, <4>1
      <4>3. /\ r <= A(i + 1) => r1 <= A(i + 1)
            /\ r1 <= A(k + 1) => r <= A(k + 1)
        <5>1. A(i + 1) \in Nat /\ A(k + 1) \in Nat
          BY <2>4, <4>1
        <5>2. r <= A(i + 1) => r1 <= A(i + 1)
          BY <3>2, <4>1
        <5>3. r \in Nat /\ r1 \in Nat /\ r < r1
          BY <2>4, <2>11, <3>1
        <5>4. r1 <= A(k + 1) => r <= A(k + 1)
          BY <5>1, <5>3
        <5> QED BY <5>2, <5>4
      <4> QED BY <1>5, <2>8, <4>1, <4>2, <4>3, <2>4, <3>1 DEF Upper
    <3>6. Adjacency'
      <4> SUFFICES ASSUME NEW i \in 1 .. Len(fifo')
                   PROVE  IF i < Len(fifo')
                          THEN \/ fifo'[i + 1].addr = End(i)'
                               \/ /\ fifo'[i + 1].addr = 0
                                  /\ end_of_buffer'[End(i)'] = {TRUE} /\ Upper(i)'
                          ELSE \/ write_index' = End(i)'
                               \/ write_index' = 0 /\ end_of_buffer'[End(i)'] = {TRUE}
        BY DEF Adjacency
      <4>1. i + 1 \in 1 .. n /\ i + 1 \in 2 .. n
        BY <1>4, <2>8
      <4>2. CASE i < Len(fifo')
        <5>1. i + 1 \in 1 .. Len(fifo') /\ i + 1 < n
          BY <1>3, <2>8, <4>2 DEF EntryTypes
        <5>2. fifo'[i + 1] = fifo[(i + 1) + 1]
          BY <2>8, <5>1
        <5>3. \/ A((i + 1) + 1) = E(i + 1)
              \/ /\ A((i + 1) + 1) = 0 /\ end_of_buffer[E(i + 1)] = {TRUE}
                 /\ r <= A(i + 1)
          BY <2>10, <4>1, <5>1
        <5>4. r <= A(i + 1) => Upper(i)'
          BY <2>4, <2>8, <3>2, <4>1 DEF Upper
        <5> QED BY <1>5, <2>8, <4>2, <5>2, <5>3, <5>4
      <4>3. CASE ~(i < Len(fifo'))
        BY <1>5, <2>8, <2>10, <4>1, <4>3
      <4> QED BY <4>2, <4>3
    <3> QED BY <1>2, <1>6, <3>3, <3>4, <3>5, <3>6 DEF Inv, Layout
  <2>12. CASE r1 = 0
    <3>1. r1 < w /\ w < r /\ ~Wrapped'
      <4>1. /\ E(1) <= A(2) \/ (r <= A(1) /\ E(2) <= w)
            /\ A(1) < E(1) /\ A(2) < E(2)
            /\ A(1) \in Nat /\ E(1) \in Nat /\ A(2) \in Nat /\ E(2) \in Nat
        BY <2>4, <2>6, <2>7
      <4>2. w > 0
        BY <2>4, <2>12, <4>1
      <4>3. HeaderSize \in Nat /\ HeaderSize > 0
        BY <1>1 DEF EntryTypes
      <4> QED BY <1>5, <2>4, <2>5, <2>12, <4>2, <4>3 DEF Wrapped
    <3>2. \A k \in 2 .. n : E(k) <= w /\ A(k) < r
      <4> SUFFICES ASSUME NEW k \in 2 .. n PROVE E(k) <= w /\ A(k) < r
        OBVIOUS
      <4>1. k \in 1 .. n /\ (k = 2 \/ 2 < k)
        BY <2>4
      <4>2. r <= A(k) \/ E(k) <= w
        BY <2>6, <4>1
      <4>3. ~(r <= A(2))
        BY <2>4, <2>12, <3>1
      <4>4. ~(r <= A(k))
        BY <2>4, <2>7, <4>1, <4>3
      <4>5. A(k) \in Nat
        BY <2>4, <4>1
      <4> QED BY <2>4, <4>2, <4>4, <4>5
    <3>3. Indices'
      BY <1>1, <1>5, <2>1, <2>2, <2>3, <3>1 DEF Indices, EntryTypes
    <3>4. Placement'
      <4> SUFFICES ASSUME NEW i \in 1 .. Len(fifo')
                   PROVE  /\ HeaderSize <= fifo'[i].size
                          /\ End(i)' <= Capacity
                          /\ size'[fifo'[i].addr] = fifo'[i].size
                          /\ fifo'[i].addr # 0 => end_of_buffer'[fifo'[i].addr] = {FALSE}
                          /\ Upper(i)' /\ End(i)' <= write_index'
        BY <3>1 DEF Placement
      <4>1. i + 1 \in 1 .. n /\ i + 1 \in 2 .. n
        BY <1>4, <2>8
      <4>2. Upper(i)' /\ End(i)' <= write_index'
        <5>1. fifo'[i] = fifo[i + 1] /\ End(i)' = E(i + 1)
          BY <2>8
        <5>2. A(i + 1) \in Nat /\ E(i + 1) <= w
          BY <2>4, <3>2, <4>1
        <5> QED BY <1>5, <2>12, <5>1, <5>2 DEF Upper
      <4> QED BY <1>5, <2>8, <2>9, <4>1, <4>2
    <3>5. Order'
      <4> SUFFICES ASSUME NEW i \in 1 .. Len(fifo'), NEW k \in 1 .. Len(fifo'), i < k
                   PROVE  End(i)' <= fifo'[k].addr /\ Upper(i)'
        BY DEF Order
      <4>1. /\ i + 1 \in 1 .. n /\ i + 1 \in 2 .. n
            /\ k + 1 \in 1 .. n /\ k + 1 \in 2 .. n /\ i + 1 < k + 1
        BY <1>3, <1>4, <2>8 DEF EntryTypes
      <4>2. E(i + 1) <= A(k + 1) \/ r <= A(i + 1)
        BY <2>7, <4>1
      <4>3. E(i + 1) <= A(k + 1)
        <5>1. A(i + 1) < r
          BY <3>2, <4>1
        <5>2. A(i + 1) \in Nat /\ r \in Nat
          BY <2>4, <4>1
        <5> QED BY <4>2, <5>1, <5>2
      <4>4. /\ fifo'[i] = fifo[i + 1] /\ End(i)' = E(i + 1)
            /\ fifo'[k] = fifo[k + 1]
        BY <2>8
      <4>5. A(i + 1) \in Nat
        BY <2>4, <4>1
      <4> QED BY <2>12, <4>3, <4>4, <4>5 DEF Upper
    <3>6. Adjacency'
      <4> SUFFICES ASSUME NEW i \in 1 .. Len(fifo')
                   PROVE  IF i < Len(fifo') THEN fifo'[i + 1].addr = End(i)'
                                            ELSE write_index' = End(i)'
        BY DEF Adjacency
      <4>1. i + 1 \in 1 .. n /\ i + 1 \in 2 .. n
        BY <1>4, <2>8
      <4>2. ~(r <= A(i + 1)) /\ w # 0
        <5>1. A(i + 1) \in Nat /\ r \in Nat /\ w \in Nat
          BY <2>4, <4>1
        <5>2. A(i + 1) < r
          BY <3>2, <4>1
        <5>3. r1 < w /\ r1 \in Nat
          BY <2>12, <3>1
        <5>4. ~(r <= A(i + 1))
          BY <5>1, <5>2
        <5>5. w # 0
          BY <5>1, <5>3
        <5> QED BY <5>4, <5>5
      <4>3. CASE i < Len(fifo')
        <5>1. i + 1 \in 1 .. Len(fifo') /\ i + 1 < n
          BY <1>3, <2>8, <4>3 DEF EntryTypes
        <5>2. fifo'[i + 1] = fifo[(i + 1) + 1]
          BY <2>8, <5>1
        <5>3. A((i + 1) + 1) = E(i + 1)
          BY <2>10, <4>1, <4>2, <5>1
        <5> QED BY <2>8, <4>3, <5>2, <5>3
      <4>4. CASE ~(i < Len(fifo'))
        BY <1>5, <2>8, <2>10, <4>1, <4>2, <4>4
      <4> QED BY <4>3, <4>4
    <3> QED BY <1>2, <1>6, <3>3, <3>4, <3>5, <3>6 DEF Inv, Layout
  <2> QED BY <2>5, <2>11, <2>12
<1> QED BY <1>7, <1>8

(* Steps that move no entry and no index.                                   *)
LEMMA LayoutStays ==
  ASSUME Layout, Request', Reach', UNCHANGED <<context, end_of_buffer, size, fifo>>
  PROVE  Layout'
BY DEF Layout, context, Indices, Placement, Order, Adjacency, Wrapped, Upper, End

LEMMA WriteBlockedKeepsInv ==
  ASSUME Inv, fifo # << >>, WriteBlocked
  PROVE  Inv'
<1>1. TypeOK'
  BY MemoryQueueAssumption DEF Inv, TypeOK, WriteBlocked, context
<1>2. Request' /\ Reach'
  BY DEF WriteBlocked, Request, Inv, Layout, Reach, MarkerFits, context
<1>3. Layout'
  BY <1>2, LayoutStays DEF Inv, WriteBlocked, context
<1> QED BY <1>1, <1>3 DEF Inv

(* Both loops call force_clean on a queue that is wrapped around.           *)
LEMMA ForceCleanKeepsInv ==
  ASSUME Inv, ForceClean,
         (pc = "wrap" /\ MustDrainUpper) \/ (pc = "reclaim" /\ MustReclaim)
  PROVE  Inv'
BY CleanedQueueIsWrapped, RemoveEntryKeepsLayout, WriteBlockedKeepsInv DEF ForceClean

LEMMA CallerKeepsInv ==
  ASSUME Inv, Caller
  PROVE  Inv'
<1>1. PICK i \in DOMAIN fifo :
        \/ \E b \in BOOLEAN : SetActive(fifo[i].addr, b)
        \/ AcquireLock(fifo[i].addr)
        \/ ReleaseLock(fifo[i].addr)
  BY DEF Caller
<1>2. UNCHANGED <<pc, total_size, result, context, end_of_buffer, size, fifo>>
  BY <1>1 DEF SetActive, AcquireLock, ReleaseLock
<1>3. active' \in [Address -> BOOLEAN]
  BY <1>1 DEF Inv, TypeOK, SetActive, AcquireLock, ReleaseLock
<1>4. locks' \in [Address -> LockCount]
  <2> DEFINE a == fifo[i].addr
  <2>0. /\ locks[a] \in 0 .. LockCapacity /\ LockCapacity \in Nat
        /\ locks \in [Address -> LockCount]
    <3>1. fifo[i] \in Entry
      BY EntryTypesHold DEF Inv, EntryTypes
    <3> QED BY <3>1, LockCapacityAssumption DEF Entry, Inv, TypeOK, LockCount
  <2>1. CASE AcquireLock(fifo[i].addr)
    <3>1. locks' = [locks EXCEPT ![a] = locks[a] + 1] /\ locks[a] # LockCapacity
      BY <2>1 DEF AcquireLock, LockIsFull, LockAcquired
    <3>2. locks[a] + 1 \in LockCount
      BY <2>0, <3>1 DEF LockCount
    <3> QED BY <2>0, <3>1, <3>2
  <2>2. CASE ReleaseLock(fifo[i].addr)
    <3>1. locks' = [locks EXCEPT ![a] = locks[a] - 1] /\ locks[a] # 0
      BY <2>2 DEF ReleaseLock, LockReleased
    <3>2. locks[a] - 1 \in LockCount
      BY <2>0, <3>1 DEF LockCount
    <3> QED BY <2>0, <3>1, <3>2
  <2>3. CASE \E b \in BOOLEAN : SetActive(fifo[i].addr, b)
    BY <2>3 DEF SetActive, Inv, TypeOK
  <2> QED BY <1>1, <2>1, <2>2, <2>3
<1>5. TypeOK'
  BY <1>2, <1>3, <1>4 DEF Inv, TypeOK, context
<1>6. Request' /\ Reach'
  BY <1>2 DEF Inv, Layout, Request, Reach, MarkerFits, context
<1> QED BY <1>2, <1>5, <1>6, LayoutStays DEF Inv

LEMMA BeginKeepsInv ==
  ASSUME Inv, NEW p \in PayloadSizes, Allocate(TotalSize(p))
  PROVE  Inv'
<1> DEFINE t == TotalSize(p)
<1>1. t \in Nat /\ HeaderSize \in Nat /\ HeaderSize <= t /\ Capacity \in Nat
  <2>1. /\ p \in Nat /\ HeaderSize \in Nat /\ SizeModulus \in Nat \ {0}
        /\ HeaderSize + p < SizeModulus
    BY MemoryQueueAssumption
  <2>2. (HeaderSize + p) % SizeModulus = HeaderSize + p
    BY <2>1
  <2> QED BY <2>1, <2>2, MemoryQueueAssumption DEF TotalSize
<1> HIDE DEF t
<1>a. Allocate(t)
  BY DEF t
<1>2. UNCHANGED <<context, headers, fifo>>
  BY <1>a DEF Allocate, AllocateOversized, AllocateBegin
<1>3. TypeOK'
  <2>1. CASE AllocateOversized(t)
    BY <2>1 DEF AllocateOversized, Inv, TypeOK, context, headers
  <2>2. CASE AllocateBegin(t)
    <3>1. total_size' \in 0 .. Capacity
      BY <1>1, <2>2 DEF AllocateBegin
    <3> QED BY <2>2, <3>1 DEF AllocateBegin, Inv, TypeOK, context, headers
  <2> QED BY <1>a, <2>1, <2>2 DEF Allocate
<1>4. Request'
  <2>1. CASE AllocateOversized(t)
    BY <2>1 DEF AllocateOversized, Inv, Layout, Request
  <2>2. CASE AllocateBegin(t)
    <3>1. write_index \in Nat
      BY <1>1 DEF Inv, TypeOK, Address
    <3>2. write_index' = write_index
      BY <1>2 DEF context
    <3> QED BY <1>1, <2>2, <3>1, <3>2 DEF AllocateBegin, TooCloseToEnd, Request
  <2> QED BY <1>a, <2>1, <2>2 DEF Allocate
<1>5. Reach'
  <2>1. UNCHANGED <<write_index, fifo, end_of_buffer>>
    BY <1>2 DEF context, headers
  <2>2. pc' = "reclaim" => write_index + total_size' + HeaderSize < Capacity
    <3>1. CASE AllocateOversized(t)
      BY <3>1 DEF AllocateOversized
    <3>2. CASE AllocateBegin(t)
      <4>1. write_index \in Nat
        BY <1>1 DEF Inv, TypeOK, Address
      <4> QED BY <1>1, <3>2, <4>1 DEF AllocateBegin, TooCloseToEnd
    <3> QED BY <1>a, <3>1, <3>2 DEF Allocate
  <2> QED BY <2>1, <2>2 DEF Inv, Layout, Reach, MarkerFits
<1> QED BY <1>2, <1>3, <1>4, <1>5, LayoutStays DEF Inv, headers

(* A marker that does not fit ends the allocation, which leaves everything. *)
LEMMA OverrunKeepsInv ==
  ASSUME Inv, WrapOverruns
  PROVE  Inv'
<1>1. /\ pc' = "overrun" /\ pc = "wrap"
      /\ UNCHANGED <<total_size, result, context, headers, fifo>>
  BY DEF WrapOverruns
<1>2. TypeOK'
  BY <1>1 DEF Inv, TypeOK, context, headers
<1>3. Request' /\ Reach'
  BY <1>1 DEF Inv, Layout, Request, Reach, MarkerFits, context, headers
<1> QED BY <1>1, <1>2, <1>3, LayoutStays DEF Inv, headers

(* Behind the first loop the queue is empty, or unwrapped, or blocked at 0  *)
(* by an earlier allocation: the marker then closes the newest entry.       *)
LEMMA WrapKeepsInv ==
  ASSUME Inv, Wrap
  PROVE  Inv'
<1>1. EntryTypes
  BY EntryTypesHold DEF Inv
<1>2. /\ UNCHANGED <<total_size, result, entry_count, occupied_bytes,
                     size, locks, active, fifo>>
      /\ write_index' = 0 /\ pc' = "reclaim" /\ pc = "wrap"
      /\ read_index <= write_index /\ write_index < Capacity
      /\ end_of_buffer' = [end_of_buffer EXCEPT ![write_index] = {TRUE}]
      /\ read_index' = IF read_index = write_index THEN 0 ELSE read_index
  BY <1>1 DEF Wrap, MustDrainUpper, EntryTypes
<1>3. /\ write_index \in Address /\ end_of_buffer \in [Address -> SUBSET BOOLEAN]
      /\ end_of_buffer'[write_index] = {TRUE}
      /\ \A a : a # write_index => end_of_buffer'[a] = end_of_buffer[a]
  BY <1>2 DEF Inv, TypeOK
<1>4. TypeOK'
  <2>1. /\ write_index' \in Address /\ read_index' \in Address
        /\ end_of_buffer' \in [Address -> SUBSET BOOLEAN]
    BY <1>2, <1>3, MemoryQueueAssumption DEF Inv, TypeOK, Address
  <2> QED BY <1>2, <2>1 DEF Inv, TypeOK
<1>5. Request' /\ Reach'
  <2>1. Request'
    BY <1>1, <1>2, <1>4 DEF Inv, Layout, Request, TypeOK, EntryTypes
  <2>2. end_of_buffer'[Capacity] = BOOLEAN
    BY <1>1, <1>2, <1>3 DEF Inv, Layout, Reach, EntryTypes
  <2> QED BY <1>2, <2>1, <2>2 DEF Reach
<1>6. CASE fifo = << >>
  BY <1>1, <1>2, <1>4, <1>5, <1>6
     DEF Inv, Layout, Indices, Placement, Order, Adjacency, EntryTypes
<1>7. CASE fifo # << >> /\ read_index < write_index
  <2>1. read_index' = read_index /\ Wrapped' /\ ~Wrapped
    BY <1>1, <1>2, <1>7 DEF Wrapped, EntryTypes
  <2>2. Indices'
    BY <1>2, <2>1 DEF Inv, Layout, Indices
  <2>3. Placement'
    <3> SUFFICES ASSUME NEW i \in 1 .. Len(fifo)
                 PROVE  /\ HeaderSize <= fifo[i].size /\ End(i) <= Capacity
                        /\ size[fifo[i].addr] = fifo[i].size
                        /\ fifo[i].addr # 0 => end_of_buffer'[fifo[i].addr] = {FALSE}
                        /\ Upper(i)
      BY <1>2, <2>1 DEF Placement, Upper, End
    <3>1. /\ HeaderSize <= fifo[i].size /\ End(i) <= Capacity
          /\ size[fifo[i].addr] = fifo[i].size
          /\ fifo[i].addr # 0 => end_of_buffer[fifo[i].addr] = {FALSE}
          /\ Upper(i) /\ End(i) <= write_index
      BY <2>1 DEF Inv, Layout, Placement
    <3>2. fifo[i].addr # write_index
      BY <1>1, <3>1 DEF EntryTypes, End
    <3> QED BY <1>3, <3>1, <3>2
  <2>4. Order'
    BY <1>2, <2>1 DEF Inv, Layout, Order, Upper, End
  <2>5. Adjacency'
    <3> SUFFICES ASSUME NEW i \in 1 .. Len(fifo)
                 PROVE  IF i < Len(fifo)
                        THEN \/ fifo[i + 1].addr = End(i)
                             \/ /\ fifo[i + 1].addr = 0
                                /\ end_of_buffer'[End(i)] = {TRUE} /\ Upper(i)
                        ELSE end_of_buffer'[End(i)] = {TRUE}
      BY <1>2, <2>1 DEF Adjacency, Upper, End
    <3>1. IF i < Len(fifo)
          THEN \/ fifo[i + 1].addr = End(i)
               \/ fifo[i + 1].addr = 0 /\ end_of_buffer[End(i)] = {TRUE} /\ Upper(i)
          ELSE \/ write_index = End(i)
               \/ write_index = 0 /\ end_of_buffer[End(i)] = {TRUE}
      BY DEF Inv, Layout, Adjacency
    <3>2. write_index # 0
      BY <1>1, <1>7 DEF EntryTypes
    <3> QED BY <1>3, <3>1, <3>2
  <2> QED BY <1>4, <1>5, <2>2, <2>3, <2>4, <2>5 DEF Inv, Layout
<1>8. CASE fifo # << >> /\ ~(read_index < write_index)
  <2>1. read_index = 0 /\ write_index = 0 /\ read_index' = 0
    BY <1>1, <1>2, <1>8 DEF Inv, Layout, Indices, Wrapped, EntryTypes
  <2>2. UNCHANGED <<read_index, write_index, entry_count, size, fifo>>
    BY <1>2, <2>1
  <2>3. \A i : end_of_buffer[i] = {TRUE} => end_of_buffer'[i] = {TRUE}
    BY <1>3
  <2>4. Placement'
    BY <1>3, <2>1, <2>2 DEF Inv, Layout, Placement, Wrapped, Upper, End
  <2>5. Adjacency'
    BY <2>2, <2>3 DEF Inv, Layout, Adjacency, Upper, End
  <2>6. Indices' /\ Order'
    BY <2>2 DEF Inv, Layout, Indices, Order, Wrapped, Upper, End
  <2> QED BY <1>4, <1>5, <2>4, <2>5, <2>6 DEF Inv, Layout
<1> QED BY <1>6, <1>7, <1>8

(* Behind the second loop the new extent, and room for a marker, lie in the *)
(* gap between the newest entry and the oldest one.                         *)
LEMMA CommitKeepsTypes ==
  ASSUME Inv, AllocateCommit
  PROVE  /\ TypeOK'
         /\ Len(fifo') = Len(fifo) + 1
         /\ \A i \in 1 .. Len(fifo) : fifo'[i] = fifo[i]
         /\ fifo'[Len(fifo) + 1] = [addr |-> write_index, size |-> total_size]
<1>1. EntryTypes
  BY EntryTypesHold DEF Inv
<1>2. /\ write_index \in Address /\ total_size \in 0 .. Capacity
      /\ write_index + total_size \in Address
  BY <1>1 DEF AllocateCommit, Inv, TypeOK, Layout, Request, Address, EntryTypes
<1> DEFINE e == [addr |-> write_index, size |-> total_size]
<1>3. e \in Entry /\ fifo' = Append(fifo, e)
  BY <1>2 DEF Entry, AllocateCommit
<1>4. /\ fifo' \in Seq(Entry) /\ Len(fifo') = Len(fifo) + 1
      /\ \A i \in 1 .. Len(fifo) : fifo'[i] = fifo[i]
      /\ fifo'[Len(fifo) + 1] = e
  <2> HIDE DEF e
  <2> QED BY <1>1, <1>3, AppendProperties DEF EntryTypes
<1>5. /\ end_of_buffer' \in [Address -> SUBSET BOOLEAN]
      /\ size' \in [Address -> 0 .. Capacity]
      /\ locks' \in [Address -> LockCount] /\ active' \in [Address -> BOOLEAN]
  <2>1. 0 \in LockCount
    BY LockCapacityAssumption DEF LockCount
  <2> QED BY <1>2, <2>1 DEF AllocateCommit, Inv, TypeOK
<1>6. entry_count' \in Nat /\ occupied_bytes' \in Int
  BY <1>2, <1>1 DEF AllocateCommit, Inv, TypeOK, EntryTypes
<1>7. TypeOK'
  BY <1>1, <1>2, <1>4, <1>5, <1>6 DEF AllocateCommit, Inv, TypeOK, Entry, EntryTypes
<1> QED BY <1>4, <1>7

LEMMA CommitKeepsInv ==
  ASSUME Inv, AllocateCommit
  PROVE  Inv'
<1>1. EntryTypes
  BY EntryTypesHold DEF Inv
<1> DEFINE n == Len(fifo)
           r == read_index
           w == write_index
           t == total_size
<1>0. PICK m \in Nat : m = n + 1
  BY <1>1 DEF EntryTypes
<1>2. /\ TypeOK' /\ Len(fifo') = m
      /\ \A i \in 1 .. n : fifo'[i] = fifo[i]
      /\ fifo'[m] = [addr |-> w, size |-> t]
  BY <1>0, CommitKeepsTypes
<1>3. /\ n \in Nat /\ r \in Nat /\ w \in Nat /\ t \in Nat
      /\ HeaderSize \in Nat /\ HeaderSize > 0 /\ HeaderSize <= t
      /\ w + t <= Capacity /\ m = n + 1
  BY <1>0, <1>1 DEF EntryTypes, AllocateCommit, Inv, Layout, Request
<1>4. /\ read_index' = r /\ write_index' = w + t /\ pc' = "idle"
      /\ size' = [size EXCEPT ![w] = t] /\ entry_count' = m
  BY <1>0 DEF AllocateCommit, Inv, Layout, Indices
<1>5. \A a \in Address :
        end_of_buffer'[a] = IF a = w THEN {FALSE}
                            ELSE IF w < a /\ a < w + t THEN BOOLEAN
                            ELSE end_of_buffer[a]
  BY DEF AllocateCommit
<1>6. \/ fifo = << >> /\ r = 0 /\ w = 0
      \/ fifo # << >> /\ r < w
      \/ fifo # << >> /\ w + t + HeaderSize < r
  BY <1>1, <1>3 DEF AllocateCommit, MustReclaim, Inv, Layout, Indices, EntryTypes
<1>7. \A i \in 1 .. n :
        /\ fifo[i].addr \in Nat /\ fifo[i].size \in Nat /\ End(i) \in Nat
        /\ fifo[i].addr < End(i) /\ End(i) <= Capacity
        /\ End(i) <= w \/ (w + t < r /\ r <= fifo[i].addr)
        /\ fifo[i].addr \in Address /\ End(i) \in Address
  <2> SUFFICES ASSUME NEW i \in 1 .. n
               PROVE  /\ fifo[i].addr \in Nat /\ fifo[i].size \in Nat /\ End(i) \in Nat
                      /\ fifo[i].addr < End(i) /\ End(i) <= Capacity
                      /\ End(i) <= w \/ (w + t < r /\ r <= fifo[i].addr)
                      /\ fifo[i].addr \in Address /\ End(i) \in Address
    OBVIOUS
  <2>1. fifo[i].addr \in Nat /\ fifo[i].size \in Nat /\ fifo # << >>
    BY <1>1, <1>3 DEF EntryTypes
  <2>2. /\ HeaderSize <= fifo[i].size /\ End(i) <= Capacity
        /\ Upper(i) \/ End(i) <= w
        /\ ~Wrapped => End(i) <= w
    BY DEF Inv, Layout, Placement
  <2>3. End(i) \in Nat /\ fifo[i].addr < End(i)
    BY <1>3, <2>1, <2>2 DEF End
  <2>4. End(i) <= w \/ (w + t < r /\ r <= fifo[i].addr)
    BY <1>3, <1>6, <2>1, <2>2 DEF Upper, Wrapped
  <2>5. fifo[i].addr \in Address /\ End(i) \in Address
    BY <1>3, <2>1, <2>2, <2>3, MemoryQueueAssumption DEF Address
  <2> QED BY <2>1, <2>2, <2>3, <2>4, <2>5
<1>8. Request' /\ Reach'
  <2>1. end_of_buffer'[Capacity] = BOOLEAN
    BY <1>3, <1>5, MemoryQueueAssumption DEF Inv, Layout, Reach, Address
  <2>2. MarkerFits' \/ write_index' = fifo'[Len(fifo')].size
    <3>1. CASE w = 0
      BY <1>2, <1>3, <1>4, <3>1
    <3>2. CASE w # 0
      <4>1. pc = "reclaim"
        BY DEF AllocateCommit
      <4>2. w + t + HeaderSize < Capacity
        BY <3>2, <4>1 DEF Inv, Layout, Reach
      <4> QED BY <1>1, <1>3, <1>4, <4>2 DEF MarkerFits, EntryTypes
    <3> QED BY <3>1, <3>2
  <2> QED BY <1>4, <2>1, <2>2 DEF Request, Reach
<1>9. EntryTypes' /\ 0 < Len(fifo') /\ fifo' # << >>
  <2>1. EntryTypes'
    BY <1>2, EntryTypesHold, PTL
  <2> QED BY <1>2, <1>3, <2>1 DEF EntryTypes
<1>10. \A i \in 1 .. Len(fifo') : i \in 1 .. n \/ i = m
  BY <1>2, <1>3
<1>11. \A i \in 1 .. n :
         /\ fifo[i].addr # w
         /\ end_of_buffer'[fifo[i].addr] = end_of_buffer[fifo[i].addr]
         /\ size'[fifo[i].addr] = size[fifo[i].addr]
         /\ End(i) \notin w .. (w + t - 1)
              => end_of_buffer'[End(i)] = end_of_buffer[End(i)]
  <2> SUFFICES ASSUME NEW i \in 1 .. n
               PROVE  /\ fifo[i].addr # w
                      /\ end_of_buffer'[fifo[i].addr] = end_of_buffer[fifo[i].addr]
                      /\ size'[fifo[i].addr] = size[fifo[i].addr]
                      /\ End(i) \notin w .. (w + t - 1)
                           => end_of_buffer'[End(i)] = end_of_buffer[End(i)]
    OBVIOUS
  <2>1. /\ fifo[i].addr \in Nat /\ End(i) \in Nat /\ fifo[i].addr < End(i)
        /\ End(i) <= w \/ (w + t < r /\ r <= fifo[i].addr)
        /\ fifo[i].addr \in Address /\ End(i) \in Address
    BY <1>7
  <2>2. fifo[i].addr # w /\ ~(w < fifo[i].addr /\ fifo[i].addr < w + t)
    BY <1>3, <2>1
  <2>3. end_of_buffer'[fifo[i].addr] = end_of_buffer[fifo[i].addr]
    BY <1>5, <2>1, <2>2
  <2>4. size'[fifo[i].addr] = size[fifo[i].addr]
    BY <1>4, <2>1, <2>2 DEF Inv, TypeOK
  <2>5. End(i) \notin w .. (w + t - 1) => end_of_buffer'[End(i)] = end_of_buffer[End(i)]
    <3>1. End(i) \notin w .. (w + t - 1) => End(i) # w /\ ~(w < End(i) /\ End(i) < w + t)
      BY <1>3, <2>1
    <3> QED BY <1>5, <2>1, <3>1
  <2> QED BY <2>2, <2>3, <2>4, <2>5
<1>12. /\ fifo'[m].addr = w /\ fifo'[m].size = t /\ End(m)' = w + t
       /\ Upper(m)' <=> r <= w
       /\ end_of_buffer'[w] = {FALSE} /\ size'[w] = t
  <2>1. w \in Address /\ size \in [Address -> 0 .. Capacity]
    BY DEF Inv, TypeOK
  <2>2. fifo'[m].addr = w /\ fifo'[m].size = t
    BY <1>2
  <2>3. End(m)' = w + t /\ (Upper(m)' <=> r <= w)
    BY <1>3, <1>4, <2>2 DEF End, Upper
  <2> QED BY <1>4, <1>5, <2>1, <2>2, <2>3
<1>13. \A i \in 1 .. n : End(i)' = End(i) /\ (Upper(i)' <=> Upper(i))
  BY <1>2, <1>4 DEF End, Upper
<1>14. Indices'
  <2>1. read_index' = fifo'[1].addr
    <3>1. CASE fifo = << >>
      <4>1. fifo'[1].addr = w
        <5>1. ~(0 < n)
          BY <1>1, <3>1 DEF EntryTypes
        <5>2. m = 1
          BY <1>3, <5>1
        <5> QED BY <1>12, <5>2
      <4> QED BY <1>4, <1>6, <3>1, <4>1
    <3>2. CASE fifo # << >>
      <4>1. 1 \in 1 .. n /\ read_index = fifo[1].addr
        BY <1>1, <3>2 DEF Inv, Layout, Indices, EntryTypes
      <4> QED BY <1>2, <1>4, <4>1
    <3> QED BY <3>1, <3>2
  <2>2. w + t <= r => w + t + HeaderSize < r
    BY <1>3, <1>6
  <2> QED BY <1>2, <1>4, <1>9, <2>1, <2>2 DEF Indices, Wrapped
<1>15. Placement'
  <2> SUFFICES ASSUME NEW i \in 1 .. Len(fifo')
               PROVE  /\ HeaderSize <= fifo'[i].size /\ End(i)' <= Capacity
                      /\ size'[fifo'[i].addr] = fifo'[i].size
                      /\ fifo'[i].addr # 0 => end_of_buffer'[fifo'[i].addr] = {FALSE}
                      /\ IF Wrapped' THEN Upper(i)' \/ End(i)' <= write_index'
                                     ELSE Upper(i)' /\ End(i)' <= write_index'
    BY DEF Placement
  <2>1. CASE i \in 1 .. n
    <3>1. /\ HeaderSize <= fifo[i].size /\ End(i) <= Capacity
          /\ size[fifo[i].addr] = fifo[i].size
          /\ fifo[i].addr # 0 => end_of_buffer[fifo[i].addr] = {FALSE}
          /\ Upper(i) \/ End(i) <= w
          /\ ~Wrapped => Upper(i) /\ End(i) <= w
      BY <2>1 DEF Inv, Layout, Placement
    <3>2. ~Wrapped' => Upper(i) /\ End(i) <= w
      <4>1. fifo # << >>
        BY <1>1, <1>3, <2>1 DEF EntryTypes
      <4> QED BY <1>3, <1>4, <1>6, <3>1, <4>1 DEF Wrapped
    <3>3. End(i) \in Nat /\ (End(i) <= w => End(i) <= w + t)
      BY <1>3, <1>7, <2>1
    <3> QED BY <1>2, <1>4, <1>11, <1>13, <2>1, <3>1, <3>2, <3>3
  <2>2. CASE i = m
    <3>1. ~Wrapped' => r <= w
      BY <1>1, <1>3, <1>4, <1>6 DEF Wrapped
    <3>2. End(m)' <= write_index' /\ (~Wrapped' => Upper(m)')
      BY <1>3, <1>4, <1>12, <3>1 DEF Upper
    <3> QED BY <1>3, <1>12, <2>2, <3>2
  <2> QED BY <1>10, <2>1, <2>2
<1>16. Order'
  <2> SUFFICES ASSUME NEW i \in 1 .. Len(fifo'), NEW k \in 1 .. Len(fifo'), i < k
               PROVE  /\ \/ End(i)' <= fifo'[k].addr
                         \/ Wrapped' /\ Upper(i)' /\ End(k)' <= write_index'
                      /\ Upper(k)' => Upper(i)'
    BY DEF Order
  <2>1. i \in 1 .. n
    BY <1>2, <1>3
  <2>2. CASE k \in 1 .. n
    <3>1. /\ End(i) <= fifo[k].addr \/ (Wrapped /\ Upper(i) /\ End(k) <= w)
          /\ Upper(k) => Upper(i)
      BY <2>1, <2>2 DEF Inv, Layout, Order
    <3>2. Wrapped /\ fifo # << >> => Wrapped'
      BY <1>3, <1>4, <1>6 DEF Wrapped
    <3>3. fifo # << >> /\ End(k) \in Nat /\ (End(k) <= w => End(k) <= w + t)
      BY <1>1, <1>3, <1>7, <2>2 DEF EntryTypes
    <3> QED BY <1>2, <1>4, <1>13, <2>1, <2>2, <3>1, <3>2, <3>3
  <2>3. CASE k = m
    <3>1. /\ End(i) <= w \/ (w + t < r /\ r <= fifo[i].addr)
          /\ fifo[i].addr \in Nat
          /\ Upper(i) \/ End(i) <= w
      BY <1>7, <2>1 DEF Inv, Layout, Placement
    <3>2. Upper(m)' => Upper(i)
      <4>1. fifo # << >>
        BY <1>1, <1>3, <2>1 DEF EntryTypes
      <4>2. r <= w => ~(w + t + HeaderSize < r) /\ (~Wrapped \/ w = r)
        BY <1>3 DEF Wrapped
      <4>3. Upper(m)' => r <= w
        BY <1>3, <1>4, <1>12 DEF Upper
      <4>4. r < w => Upper(i)
        <5>1. IF Wrapped THEN Upper(i) \/ End(i) <= w ELSE Upper(i) /\ End(i) <= w
          BY <2>1 DEF Inv, Layout, Placement
        <5>2. r < w => ~Wrapped
          BY <1>3 DEF Wrapped
        <5> QED BY <5>1, <5>2
      <4> QED BY <1>3, <1>6, <4>1, <4>2, <4>3, <4>4
    <3>3. Wrapped' \/ ~(w + t < r)
      BY <1>3, <1>4 DEF Wrapped
    <3> QED BY <1>3, <1>4, <1>12, <1>13, <2>1, <2>3, <3>1, <3>2, <3>3 DEF Upper
  <2> QED BY <1>10, <2>2, <2>3
<1>17. Adjacency'
  <2> SUFFICES ASSUME NEW i \in 1 .. Len(fifo')
               PROVE  IF i < Len(fifo')
                      THEN \/ fifo'[i + 1].addr = End(i)'
                           \/ /\ fifo'[i + 1].addr = 0
                              /\ end_of_buffer'[End(i)'] = {TRUE} /\ Upper(i)'
                      ELSE \/ write_index' = End(i)'
                           \/ write_index' = 0 /\ end_of_buffer'[End(i)'] = {TRUE}
    BY DEF Adjacency
  <2>1. CASE i = m
    <3>1. ~(i < Len(fifo'))
      BY <1>2, <1>3, <2>1
    <3>2. write_index' = End(i)'
      BY <1>4, <1>12, <2>1
    <3> QED BY <3>1, <3>2
  <2>2. CASE i \in 1 .. n
    <3>1. /\ i < Len(fifo') /\ End(i)' = End(i)
          /\ Upper(i)' <=> Upper(i)
      BY <1>2, <1>3, <1>13, <2>2
    <3>2. IF i < n
          THEN \/ fifo[i + 1].addr = End(i)
               \/ fifo[i + 1].addr = 0 /\ end_of_buffer[End(i)] = {TRUE} /\ Upper(i)
          ELSE \/ w = End(i)
               \/ w = 0 /\ end_of_buffer[End(i)] = {TRUE}
      BY <2>2 DEF Inv, Layout, Adjacency
    <3>3. /\ fifo[i].addr \in Nat /\ End(i) \in Nat /\ fifo[i].addr < End(i)
          /\ End(i) <= w \/ (w + t < r /\ r <= fifo[i].addr)
      BY <1>7, <2>2
    <3>4. CASE i < n
      <4>1. i + 1 \in 1 .. n /\ fifo'[i + 1] = fifo[i + 1]
        BY <1>2, <1>3, <2>2, <3>4
      <4>2. CASE fifo[i + 1].addr = End(i)
        BY <3>1, <4>1, <4>2
      <4>3. CASE fifo[i + 1].addr = 0 /\ end_of_buffer[End(i)] = {TRUE} /\ Upper(i)
        <5>1. ~(r < w)
          <6>1. fifo[1].addr = r /\ 1 \in 1 .. n
            BY <1>1, <1>3, <2>2 DEF Inv, Layout, Indices, EntryTypes
          <6>2. 1 < i + 1 /\ fifo[1].addr < End(1) /\ End(1) \in Nat /\ fifo[1].addr \in Nat
            BY <1>3, <1>7, <2>2, <6>1
          <6>3. End(1) <= fifo[i + 1].addr \/ Wrapped
            BY <4>1, <6>1, <6>2 DEF Inv, Layout, Order
          <6> QED BY <1>3, <4>3, <6>2, <6>3 DEF Wrapped
        <5>2. End(i) \notin w .. (w + t - 1)
          <6>1. fifo # << >>
            BY <1>1, <1>3, <2>2 DEF EntryTypes
          <6>2. w + t < r /\ r <= fifo[i].addr
            BY <1>3, <1>6, <3>3, <4>3, <5>1, <6>1 DEF Upper
          <6> QED BY <1>3, <3>3, <6>2
        <5> QED BY <1>11, <2>2, <3>1, <4>1, <4>3, <5>2
      <4> QED BY <3>2, <3>4, <4>2, <4>3
    <3>5. CASE ~(i < n)
      <4>1. i + 1 = m /\ fifo'[i + 1].addr = w
        BY <1>3, <1>12, <2>2, <3>5
      <4>2. CASE w = End(i)
        BY <3>1, <4>1, <4>2
      <4>3. CASE w = 0 /\ end_of_buffer[End(i)] = {TRUE}
        <5>1. w + t < r /\ r <= fifo[i].addr
          BY <1>3, <3>3, <4>3
        <5>2. End(i) \notin w .. (w + t - 1) /\ Upper(i)
          BY <1>3, <3>3, <5>1 DEF Upper
        <5> QED BY <1>11, <2>2, <3>1, <4>1, <4>3, <5>2
      <4> QED BY <3>2, <3>5, <4>2, <4>3
    <3> QED BY <3>4, <3>5
  <2> QED BY <1>10, <2>1, <2>2
<1> QED BY <1>2, <1>8, <1>14, <1>15, <1>16, <1>17 DEF Inv, Layout

LEMMA InitEstablishesInv == Init => Inv
<1> SUFFICES ASSUME Init PROVE Inv
  OBVIOUS
<1>1. 0 \in Address /\ 0 \in 0 .. Capacity /\ 0 \in LockCount
  BY MemoryQueueAssumption, LockCapacityAssumption DEF Address, LockCount
<1>2. BOOLEAN \in SUBSET BOOLEAN
  OBVIOUS
<1>3. TypeOK
  BY <1>1, <1>2 DEF Init, TypeOK
<1>4. Layout
  BY MemoryQueueAssumption
     DEF Init, Layout, Indices, Placement, Order, Adjacency, Request, Reach, Address
<1> QED BY <1>3, <1>4 DEF Inv

LEMMA NextKeepsInv == Inv /\ [Next]_vars => Inv'
<1> SUFFICES ASSUME Inv, [Next]_vars PROVE Inv'
  OBVIOUS
<1>1. ASSUME NEW p \in PayloadSizes, Allocate(TotalSize(p)) PROVE Inv'
  BY <1>1, BeginKeepsInv
<1>2. CASE WrapClean
  BY <1>2, ForceCleanKeepsInv DEF WrapClean
<1>3. CASE Wrap
  BY <1>3, WrapKeepsInv
<1>4. CASE ReclaimClean
  BY <1>4, ForceCleanKeepsInv DEF ReclaimClean
<1>5. CASE AllocateCommit
  BY <1>5, CommitKeepsInv
<1>6. CASE Caller
  BY <1>6, CallerKeepsInv
<1>7. CASE UNCHANGED vars
  <2>1. Layout'
    <3>1. Request' /\ Reach'
      BY <1>7 DEF vars, context, headers, Inv, Layout, Request, Reach, MarkerFits
    <3> QED BY <1>7, <3>1, LayoutStays DEF vars, headers, Inv
  <2>2. TypeOK'
    BY <1>7 DEF vars, context, headers, Inv, TypeOK
  <2> QED BY <2>1, <2>2 DEF Inv
<1>8. CASE WrapOverruns
  BY <1>8, OverrunKeepsInv
<1> QED
  BY <1>1, <1>2, <1>3, <1>4, <1>5, <1>6, <1>7, <1>8 DEF Next, AllocateStep

THEOREM InvHolds == Spec => []Inv
BY InitEstablishesInv, NextKeepsInv, PTL DEF Spec

-----------------------------------------------------------------------------
(* Every variable of the queue keeps its type.                              *)
THEOREM TypesHold == Spec => []TypeOK
BY InvHolds, PTL DEF Inv

(* The inductive invariant itself: how memory_queue_allocate and            *)
(* remove_entry keep the entries in the buffer.                             *)
THEOREM LayoutHolds == Spec => []Layout
BY InvHolds, PTL DEF Inv

(* Where the invariant puts an entry and a later one.                       *)
LEMMA OrderedExtentsAreDisjoint ==
  ASSUME Inv, NEW i \in 1 .. Len(fifo), NEW k \in 1 .. Len(fifo), i < k
  PROVE  End(i) <= fifo[k].addr \/ End(k) <= fifo[i].addr
<1>1. /\ End(k) \in Nat /\ fifo[i].addr \in Nat
      /\ read_index \in Nat /\ write_index \in Nat
  BY EntryTypesHold DEF Inv, EntryTypes, End
<1>2. End(i) <= fifo[k].addr \/ (Wrapped /\ Upper(i) /\ End(k) <= write_index)
  BY DEF Inv, Layout, Order
<1> QED BY <1>1, <1>2 DEF Wrapped, Upper

(* No two entries start at the same address or share a byte.                *)
Distinct ==
  \A i, k \in 1 .. Len(fifo) :
    i # k => /\ fifo[i].addr # fifo[k].addr
             /\ ~Overlap(fifo[i].addr, fifo[i].size, fifo[k].addr, fifo[k].size)

LEMMA DistinctAddresses == Inv => Distinct
<1> SUFFICES ASSUME Inv, NEW i \in 1 .. Len(fifo), NEW k \in 1 .. Len(fifo), i # k
             PROVE  /\ fifo[i].addr # fifo[k].addr
                    /\ ~Overlap(fifo[i].addr, fifo[i].size, fifo[k].addr, fifo[k].size)
  BY DEF Distinct
<1>1. /\ i \in Nat /\ k \in Nat
      /\ fifo[i].addr \in Nat /\ fifo[i].size \in Nat
      /\ fifo[k].addr \in Nat /\ fifo[k].size \in Nat
      /\ HeaderSize \in Nat /\ HeaderSize > 0
  BY EntryTypesHold DEF Inv, EntryTypes
<1>2. HeaderSize <= fifo[i].size /\ HeaderSize <= fifo[k].size
  BY DEF Inv, Layout, Placement
<1>3. End(i) <= fifo[k].addr \/ End(k) <= fifo[i].addr
  <2>1. i < k \/ k < i
    BY <1>1
  <2> QED BY <2>1, OrderedExtentsAreDisjoint
<1> QED BY <1>1, <1>2, <1>3 DEF End, Overlap

LEMMA InvKeepsExtentsDisjoint == Inv => ExtentsDisjoint
<1> SUFFICES ASSUME Inv, NEW i \in DOMAIN fifo
             PROVE  /\ End(i) <= Capacity
                    /\ \A k \in DOMAIN fifo : i # k =>
                         ~Overlap(fifo[i].addr, fifo[i].size,
                                  fifo[k].addr, fifo[k].size)
  BY DEF ExtentsDisjoint
<1>1. DOMAIN fifo = 1 .. Len(fifo)
  BY EntryTypesHold DEF Inv, EntryTypes
<1> QED BY <1>1, DistinctAddresses DEF Distinct, Inv, Layout, Placement

(* Whatever the sizes clients send, memory_queue_allocate never hands out a *)
(* byte that belongs to another entry or lies past the buffer.              *)
THEOREM ExtentsAreDisjoint == Spec => []ExtentsDisjoint
BY InvKeepsExtentsDisjoint, InvHolds, PTL

LEMMA InvKeepsTheChain == Inv => ChainLeadsToEntries
<1> SUFFICES ASSUME Inv PROVE ChainLeadsToEntries
  OBVIOUS
<1>1. EntryTypes
  BY EntryTypesHold DEF Inv
<1>2. ASSUME NEW i \in 1 .. Len(fifo), i + 1 \in 1 .. Len(fifo)
      PROVE  \/ end_of_buffer[End(i)] = {TRUE} /\ fifo[i + 1].addr = 0
             \/ end_of_buffer[End(i)] = {FALSE} /\ fifo[i + 1].addr = End(i)
  <2>1. i < Len(fifo)
    BY <1>1, <1>2 DEF EntryTypes
  <2>2. \/ fifo[i + 1].addr = End(i)
        \/ fifo[i + 1].addr = 0 /\ end_of_buffer[End(i)] = {TRUE}
    BY <2>1 DEF Inv, Layout, Adjacency
  <2>3. fifo[i + 1].addr # 0 => end_of_buffer[fifo[i + 1].addr] = {FALSE}
    BY <1>2 DEF Inv, Layout, Placement
  <2>4. End(i) # 0
    <3>1. HeaderSize <= fifo[i].size
      BY DEF Inv, Layout, Placement
    <3> QED BY <1>1, <3>1 DEF EntryTypes, End
  <2> QED BY <2>2, <2>3, <2>4
<1>3. /\ entry_count = Len(fifo)
      /\ fifo # << >> => read_index = fifo[1].addr
      /\ \A i \in 1 .. Len(fifo) : size[fifo[i].addr] = fifo[i].size
  BY DEF Inv, Layout, Indices, Placement
<1>4. DOMAIN fifo = 1 .. Len(fifo)
  BY <1>1 DEF EntryTypes
<1> QED BY <1>2, <1>3, <1>4 DEF ChainLeadsToEntries

(* The queue can always find its oldest entry, and from there every other.  *)
THEOREM ChainHolds == Spec => []ChainLeadsToEntries
BY InvKeepsTheChain, InvHolds, PTL

LEMMA InvMakesForceCleanSafe == Inv => ForceCleanIsSafe
<1> SUFFICES ASSUME Inv,
                    (pc = "wrap" /\ MustDrainUpper) \/ (pc = "reclaim" /\ MustReclaim)
             PROVE  /\ entry_count > 0
                    /\ read_index + size[read_index] < Capacity
                    /\ \E b \in BOOLEAN :
                         end_of_buffer[read_index + size[read_index]] = {b}
  BY DEF ForceCleanIsSafe
<1>1. fifo # << >> /\ Wrapped
  BY CleanedQueueIsWrapped
<1>2. FollowingFacts
  BY <1>1, Following
<1>3. entry_count > 0
  BY <1>1, EntryTypesHold DEF Inv, Layout, Indices, EntryTypes
<1>4. end_of_buffer[End(1)] = {TRUE} \/ end_of_buffer[End(1)] = {FALSE}
  BY <1>2 DEF FollowingFacts
<1>5. read_index + size[read_index] = End(1)
  BY <1>2 DEF FollowingFacts
<1>6. End(1) < Capacity
  <2>1. end_of_buffer[Capacity] = BOOLEAN
    BY DEF Inv, Layout, Reach
  <2>2. End(1) # Capacity
    BY <1>4, <2>1
  <2>3. End(1) \in 0 .. Capacity /\ Capacity \in Nat
    BY <1>2, MemoryQueueAssumption DEF FollowingFacts, Address
  <2> QED BY <2>2, <2>3
<1> QED BY <1>3, <1>4, <1>5, <1>6

(* The assertion of force_clean never fails, and remove_entry never decides *)
(* on a bit outside the buffer or one the queue did not write.              *)
THEOREM ForceCleanHolds == Spec => []ForceCleanIsSafe
BY InvMakesForceCleanSafe, InvHolds, PTL

LEMMA InvLeavesMarkerRoom == Inv => MarkerRoom
<1> SUFFICES ASSUME Inv, write_index # 0 PROVE MarkerRoom
  BY DEF MarkerRoom
<1>1. EntryTypes
  BY EntryTypesHold DEF Inv
<1>2. ASSUME NEW i \in 1 .. Len(fifo)
      PROVE  ~Overlap(write_index, HeaderSize, fifo[i].addr, fifo[i].size)
  <2>1. fifo # << >> /\ fifo[i].addr \in Nat /\ fifo[i].size \in Nat
    BY <1>1 DEF EntryTypes
  <2>2. IF Wrapped THEN Upper(i) \/ End(i) <= write_index
                   ELSE Upper(i) /\ End(i) <= write_index
    BY DEF Inv, Layout, Placement
  <2>3. Wrapped => write_index + HeaderSize < read_index
    BY <2>1 DEF Inv, Layout, Indices
  <2> QED BY <1>1, <2>1, <2>2, <2>3 DEF Upper, End, Overlap, EntryTypes
<1>3. MarkerFits \/ fifo[Len(fifo)].size + HeaderSize > Capacity
  <2>1. MarkerFits \/ write_index = fifo[Len(fifo)].size
    BY DEF Inv, Layout, Reach
  <2> QED BY <1>1, <2>1 DEF MarkerFits, EntryTypes
<1> QED BY <1>1, <1>2, <1>3 DEF MarkerRoom, EntryTypes

(* There is room in the buffer for a header behind the newest entry, unless *)
(* that entry alone leaves less than a header of it.                        *)
THEOREM MarkerRoomHolds == Spec => []MarkerRoom
BY InvLeavesMarkerRoom, InvHolds, PTL

-----------------------------------------------------------------------------
(* occupied_bytes. *)

(* The sums of the sizes are the function their definition means.           *)
LEMMA SumsUnfold ==
  ASSUME NEW s, Len(s) \in Nat
  PROVE  Sums(s) = [i \in 0 .. Len(s) |->
                      IF i = 0 THEN 0 ELSE Sums(s)[i - 1] + s[i].size]
<1> DEFINE Unfolds(sum, m) ==
             sum = [i \in 0 .. m |-> IF i = 0 THEN 0 ELSE sum[i - 1] + s[i].size]
           Good == {m \in Nat : \E sum : Unfolds(sum, m)}
<1>1. 0 \in Good
  <2>1. Unfolds([i \in 0 .. 0 |-> 0], 0)
    OBVIOUS
  <2> HIDE DEF Unfolds
  <2> QED
    BY <2>1
<1>2. ASSUME NEW m \in Nat, m \in Good PROVE m + 1 \in Good
  <2>1. PICK sum : Unfolds(sum, m)
    BY <1>2
  <2> DEFINE next == [i \in 0 .. m + 1 |->
                        IF i = m + 1 THEN sum[m] + s[i].size ELSE sum[i]]
  <2>2. ASSUME NEW i \in 0 .. m + 1
        PROVE  next[i] = IF i = 0 THEN 0 ELSE next[i - 1] + s[i].size
    BY <2>1
  <2>3. Unfolds(next, m + 1)
    BY <2>2
  <2> HIDE DEF next, Unfolds
  <2> QED
    BY <2>3
<1>3. Len(s) \in Good
  <2> HIDE DEF Good
  <2> QED
    BY <1>1, <1>2, SetInduction
<1>4. \E sum : sum = [i \in 0 .. Len(s) |->
                       IF i = 0 THEN 0 ELSE sum[i - 1] + s[i].size]
  BY <1>3
<1> QED
  BY <1>4 DEF Sums

LEMMA SumsStep ==
  ASSUME NEW s, Len(s) \in Nat
  PROVE  /\ Sums(s)[0] = 0
         /\ \A i \in 1 .. Len(s) : Sums(s)[i] = Sums(s)[i - 1] + s[i].size
<1> DEFINE sum == Sums(s)
<1>1. sum = [i \in 0 .. Len(s) |-> IF i = 0 THEN 0 ELSE sum[i - 1] + s[i].size]
  BY SumsUnfold
<1> HIDE DEF sum
<1>2. /\ sum[0] = 0
      /\ \A i \in 1 .. Len(s) : sum[i] = sum[i - 1] + s[i].size
  BY <1>1
<1> QED
  BY <1>2 DEF sum

(* A sequence that starts as another one has the same sums so far ...       *)
LEMMA SumsOfPrefix ==
  ASSUME NEW s, Len(s) \in Nat, NEW t, Len(t) \in Nat, Len(s) <= Len(t),
         \A i \in 1 .. Len(s) : t[i] = s[i]
  PROVE  \A i \in 0 .. Len(s) : Sums(t)[i] = Sums(s)[i]
<1> DEFINE Same == {i \in Nat : Sums(t)[i] = Sums(s)[i]}
<1>1. 0 \in Same
  BY SumsStep
<1>2. ASSUME NEW i \in Nat, i < Len(s), i \in Same PROVE i + 1 \in Same
  <2>1. i + 1 \in 1 .. Len(s) /\ i + 1 \in 1 .. Len(t) /\ (i + 1) - 1 = i
    BY <1>2
  <2>2. /\ Sums(t)[i + 1] = Sums(t)[i] + t[i + 1].size
        /\ Sums(s)[i + 1] = Sums(s)[i] + s[i + 1].size
    BY <2>1, SumsStep
  <2> QED
    BY <1>2, <2>1, <2>2
<1> HIDE DEF Same
<1>3. \A i \in 0 .. Len(s) : i \in Same
  BY <1>1, <1>2, SetInductionTo
<1> QED
  BY <1>3 DEF Same

(* ... and one without the first element sums that much less.               *)
LEMMA SumsOfTail ==
  ASSUME NEW s, Len(s) \in Nat, NEW t, Len(t) \in Nat, Len(s) = Len(t) + 1,
         \A i \in 1 .. Len(t) : t[i] = s[i + 1],
         \A i \in 1 .. Len(s) : s[i].size \in Nat
  PROVE  \A i \in 0 .. Len(t) :
           Sums(s)[i + 1] \in Nat /\ Sums(t)[i] = Sums(s)[i + 1] - s[1].size
<1> DEFINE Less == {i \in Nat : /\ Sums(s)[i + 1] \in Nat
                                /\ Sums(t)[i] = Sums(s)[i + 1] - s[1].size}
<1>1. 0 \in Less
  <2>1. 1 \in 1 .. Len(s)
    OBVIOUS
  <2>2. Sums(s)[0 + 1] = s[1].size /\ s[1].size \in Nat
    BY <2>1, SumsStep
  <2> QED
    BY <2>2, SumsStep
<1>2. ASSUME NEW i \in Nat, i < Len(t), i \in Less PROVE i + 1 \in Less
  <2>1. /\ i + 1 \in 1 .. Len(t) /\ (i + 1) - 1 = i
        /\ (i + 1) + 1 \in 1 .. Len(s) /\ ((i + 1) + 1) - 1 = i + 1
        /\ 1 \in 1 .. Len(s)
    BY <1>2
  <2>2. /\ Sums(t)[i + 1] = Sums(t)[i] + t[i + 1].size
        /\ Sums(s)[(i + 1) + 1] = Sums(s)[i + 1] + s[(i + 1) + 1].size
    BY <2>1, SumsStep
  <2>3. /\ t[i + 1] = s[(i + 1) + 1] /\ s[(i + 1) + 1].size \in Nat
        /\ s[1].size \in Nat
    BY <2>1
  <2> QED
    BY <1>2, <2>2, <2>3
<1> HIDE DEF Less
<1>3. \A i \in 0 .. Len(t) : i \in Less
  BY <1>1, <1>2, SetInductionTo
<1> QED
  BY <1>3 DEF Less

(* remove_entry reads the size from the header of the oldest entry, which   *)
(* is the size it was allocated with; a commit adds the one it writes.      *)
LEMMA OccupiedBytesStay ==
  Inv /\ OccupiedBytesExact /\ [Next]_vars => OccupiedBytesExact'
<1> SUFFICES ASSUME Inv, OccupiedBytesExact, [Next]_vars
             PROVE  OccupiedBytesExact'
  OBVIOUS
<1>1. EntryTypes
  BY EntryTypesHold DEF Inv
<1> DEFINE bytes == Sums(fifo)[Len(fifo)]
<1>2. ASSUME fifo # << >>, Wrapped, RemoveEntry,
             UNCHANGED <<pc, total_size, result>>
      PROVE  OccupiedBytesExact'
  <2>1. PICK t : t = fifo'
    OBVIOUS
  <2>2. /\ Len(t) = Len(fifo) - 1 /\ \A i \in 1 .. Len(t) : t[i] = fifo[i + 1]
        /\ occupied_bytes' = occupied_bytes - fifo[1].size
    <3>1. 1 \in 1 .. Len(fifo)
      BY <1>1, <1>2 DEF EntryTypes
    <3>2. size[read_index] = fifo[1].size
      BY <1>2, <3>1 DEF Inv, Layout, Indices, Placement
    <3> QED
      BY <1>2, <2>1, <3>2, RemoveEntryKeepsTypes DEF RemoveEntry
  <2>3. /\ Len(t) \in Nat /\ Len(fifo) = Len(t) + 1 /\ Len(t) \in 0 .. Len(t)
        /\ Len(fifo) \in Nat
    BY <1>1, <1>2, <2>2 DEF EntryTypes
  <2>4. Sums(t)[Len(t)] = Sums(fifo)[Len(t) + 1] - fifo[1].size
    BY <1>1, <2>2, <2>3, SumsOfTail DEF EntryTypes
  <2>5. occupied_bytes = bytes
    BY DEF OccupiedBytesExact
  <2>6. occupied_bytes' = Sums(t)[Len(t)]
    BY <2>2, <2>3, <2>4, <2>5
  <2> QED
    BY <2>1, <2>6 DEF OccupiedBytesExact
<1>3. CASE AllocateCommit
  <2>1. PICK t : t = fifo'
    OBVIOUS
  <2>2. PICK m \in Nat : m = Len(fifo) + 1
    BY <1>1 DEF EntryTypes
  <2>3. /\ Len(t) = m /\ \A i \in 1 .. Len(fifo) : t[i] = fifo[i]
        /\ t[m].size = total_size
        /\ occupied_bytes' = occupied_bytes + total_size
    BY <1>3, <2>1, <2>2, CommitKeepsTypes DEF AllocateCommit
  <2>4. /\ Len(fifo) \in Nat /\ m \in 1 .. m /\ m - 1 = Len(fifo)
        /\ Len(fifo) \in 0 .. Len(fifo) /\ Len(fifo) <= m
    BY <1>1, <2>2 DEF EntryTypes
  <2>5. Sums(t)[m] = Sums(t)[Len(fifo)] + t[m].size
    BY <2>3, <2>4, SumsStep
  <2>6. Sums(t)[Len(fifo)] = Sums(fifo)[Len(fifo)]
    BY <2>3, <2>4, SumsOfPrefix
  <2>7. occupied_bytes' = Sums(t)[Len(t)]
    BY <2>3, <2>5, <2>6 DEF OccupiedBytesExact
  <2> QED
    BY <2>1, <2>7 DEF OccupiedBytesExact
<1>4. CASE UNCHANGED <<occupied_bytes, fifo>>
  BY <1>4 DEF OccupiedBytesExact
<1>5. CASE ForceClean /\ WrapClean
  BY <1>2, <1>4, <1>5, CleanedQueueIsWrapped
     DEF ForceClean, WriteBlocked, WrapClean, context
<1>6. CASE ForceClean /\ ReclaimClean
  BY <1>2, <1>4, <1>6, CleanedQueueIsWrapped
     DEF ForceClean, WriteBlocked, ReclaimClean, context
<1>7. CASE \/ \E p \in PayloadSizes : Allocate(TotalSize(p))
           \/ Wrap \/ WrapOverruns \/ Caller \/ UNCHANGED vars
  BY <1>4, <1>7
     DEF Allocate, AllocateOversized, AllocateBegin, Wrap, WrapOverruns, Caller,
         SetActive, AcquireLock, ReleaseLock, vars, context
<1> QED
  BY <1>3, <1>5, <1>6, <1>7
     DEF Next, AllocateStep, WrapClean, ReclaimClean

(* occupied_bytes is the sum of the sizes of the entries, in spite of being *)
(* maintained from headers that live inside the buffer.                     *)
THEOREM OccupiedBytesAreExact == Spec => []OccupiedBytesExact
<1>1. Init => OccupiedBytesExact
  <2> SUFFICES ASSUME Init PROVE OccupiedBytesExact
    OBVIOUS
  <2>1. fifo = << >> /\ occupied_bytes = 0 /\ Len(fifo) = 0
    BY DEF Init
  <2>2. Sums(fifo)[Len(fifo)] = 0
    BY <2>1, SumsStep
  <2> QED
    BY <2>1, <2>2 DEF OccupiedBytesExact
<1> QED
  BY <1>1, OccupiedBytesStay, InvHolds, PTL DEF Spec

-----------------------------------------------------------------------------
(* remove_entry takes entry 1 out, which nobody reads; every other entry    *)
(* keeps its header.                                                        *)
LEMMA RemoveEntryEffect ==
  ASSUME Inv, fifo # << >>, Wrapped, RemoveEntry,
         UNCHANGED <<pc, total_size, result>>
  PROVE  /\ locks[fifo[1].addr] = 0
         /\ Len(fifo') = Len(fifo) - 1
         /\ \A i \in 1 .. Len(fifo') : fifo'[i] = fifo[i + 1]
         /\ UNCHANGED <<size, locks>>
BY RemoveEntryKeepsTypes DEF RemoveEntry, Inv, Layout, Indices

(* AllocateCommit writes a header at an address no entry has.               *)
LEMMA CommitEffect ==
  ASSUME Inv, AllocateCommit
  PROVE  /\ Len(fifo') = Len(fifo) + 1
         /\ \A i \in 1 .. Len(fifo) :
              /\ fifo'[i] = fifo[i] /\ fifo[i].addr # write_index
              /\ ~Overlap(write_index, total_size, fifo[i].addr, fifo[i].size)
              /\ size'[fifo[i].addr] = size[fifo[i].addr]
              /\ locks'[fifo[i].addr] = locks[fifo[i].addr]
         /\ fifo'[Len(fifo) + 1] = [addr |-> write_index, size |-> total_size]
         /\ locks'[write_index] = 0
<1>1. EntryTypes /\ EntryTypes' /\ Inv'
  BY EntryTypesHold, CommitKeepsInv, PTL DEF Inv
<1>2. PICK m \in Nat : m = Len(fifo) + 1
  BY <1>1 DEF EntryTypes
<1>3. /\ Len(fifo') = m
      /\ \A i \in 1 .. Len(fifo) : fifo'[i] = fifo[i]
      /\ fifo'[m] = [addr |-> write_index, size |-> total_size]
  BY <1>2, CommitKeepsTypes
<1>4. Distinct'
  BY <1>1, DistinctAddresses, PTL
<1>5. ASSUME NEW i \in 1 .. Len(fifo)
      PROVE  /\ fifo[i].addr # write_index
             /\ ~Overlap(write_index, total_size, fifo[i].addr, fifo[i].size)
  <2>1. m \in 1 .. Len(fifo') /\ i \in 1 .. Len(fifo') /\ i # m
    BY <1>1, <1>2, <1>3 DEF EntryTypes
  <2>2. /\ fifo'[m].addr = write_index /\ fifo'[m].size = total_size
        /\ fifo'[i] = fifo[i]
    BY <1>3
  <2> QED BY <1>4, <2>1, <2>2 DEF Distinct, Overlap
<1>6. ASSUME NEW i \in 1 .. Len(fifo)
      PROVE  /\ size'[fifo[i].addr] = size[fifo[i].addr]
             /\ locks'[fifo[i].addr] = locks[fifo[i].addr]
  <2>1. fifo[i].addr \in Address /\ write_index \in Address
    BY <1>1 DEF EntryTypes, Entry, Inv, TypeOK
  <2>2. /\ size' = [size EXCEPT ![write_index] = total_size]
        /\ locks' = [locks EXCEPT ![write_index] = 0]
        /\ size \in [Address -> 0 .. Capacity] /\ locks \in [Address -> LockCount]
    BY DEF AllocateCommit, Inv, TypeOK
  <2> QED BY <1>5, <2>1, <2>2
<1>7. locks'[write_index] = 0
  BY DEF AllocateCommit, Inv, TypeOK
<1> QED BY <1>2, <1>3, <1>5, <1>6, <1>7

(* No step of an allocation disturbs an entry that a connection is sending. *)
THEOREM LockedEntriesAreKept == Spec => LockedEntriesStay
<1> DEFINE Kept == \A i \in DOMAIN fifo :
                     LET a == fifo[i].addr IN
                     locks[a] > 0 =>
                       /\ \E k \in DOMAIN fifo' : fifo'[k] = fifo[i]
                       /\ size'[a] = size[a]
                       /\ locks'[a] \in {locks[a] - 1, locks[a], locks[a] + 1}
<1>1. Inv /\ [Next]_vars => [Kept]_vars
  <2> SUFFICES ASSUME Inv, Next, NEW i \in DOMAIN fifo, locks[fifo[i].addr] > 0
               PROVE  /\ \E k \in DOMAIN fifo' : fifo'[k] = fifo[i]
                      /\ size'[fifo[i].addr] = size[fifo[i].addr]
                      /\ locks'[fifo[i].addr] \in {locks[fifo[i].addr] - 1,
                           locks[fifo[i].addr], locks[fifo[i].addr] + 1}
    BY DEF vars
  <2>1. Inv'
    BY NextKeepsInv
  <2>2. EntryTypes /\ EntryTypes'
    BY <2>1, EntryTypesHold, PTL DEF Inv
  <2>3. /\ i \in 1 .. Len(fifo) /\ fifo[i].addr \in Address
        /\ DOMAIN fifo' = 1 .. Len(fifo') /\ Len(fifo) \in Nat
        /\ locks \in [Address -> LockCount] /\ LockCount \subseteq Nat
    BY <2>2, LockCapacityAssumption DEF EntryTypes, Entry, Inv, TypeOK, LockCount
  <2>4. CASE UNCHANGED <<fifo, size, locks>>
    BY <2>4
  <2>5. CASE /\ fifo # << >> /\ Wrapped /\ RemoveEntry
             /\ UNCHANGED <<pc, total_size, result>>
    <3>1. /\ locks[fifo[1].addr] = 0 /\ Len(fifo') = Len(fifo) - 1
          /\ \A k \in 1 .. Len(fifo') : fifo'[k] = fifo[k + 1]
          /\ UNCHANGED <<size, locks>>
      BY <2>5, RemoveEntryEffect
    <3>2. i # 1
      BY <3>1
    <3>3. i - 1 \in 1 .. Len(fifo') /\ (i - 1) + 1 = i
      BY <2>3, <3>1, <3>2
    <3>4. fifo'[i - 1] = fifo[i]
      BY <3>1, <3>3
    <3> QED BY <2>3, <3>1, <3>3, <3>4
  <2>6. CASE AllocateCommit
    <3>1. i \in 1 .. Len(fifo')
      <4>1. Len(fifo') = Len(fifo) + 1
        BY <2>6, CommitEffect
      <4> QED BY <2>3, <4>1
    <3> QED BY <2>3, <2>6, <3>1, CommitEffect
  <2>7. CASE Caller
    <3>1. PICK k \in DOMAIN fifo :
            \/ \E b \in BOOLEAN : SetActive(fifo[k].addr, b)
            \/ AcquireLock(fifo[k].addr)
            \/ ReleaseLock(fifo[k].addr)
      BY <2>7 DEF Caller
    <3>2. UNCHANGED <<fifo, size>>
      BY <3>1 DEF SetActive, AcquireLock, ReleaseLock
    <3>3. locks'[fifo[i].addr] \in {locks[fifo[i].addr] - 1, locks[fifo[i].addr],
                                    locks[fifo[i].addr] + 1}
      BY <2>3, <3>1
         DEF SetActive, AcquireLock, ReleaseLock, LockAcquired, LockReleased
    <3> QED BY <2>3, <3>2, <3>3
  <2>8. ASSUME NEW p \in PayloadSizes, Allocate(TotalSize(p))
        PROVE  UNCHANGED <<fifo, size, locks>>
    BY <2>8 DEF Allocate, AllocateOversized, AllocateBegin, headers
  <2>9. CASE WriteBlocked \/ Wrap \/ WrapOverruns
    BY <2>4, <2>9 DEF WriteBlocked, Wrap, WrapOverruns, headers
  <2>10. CASE WrapClean \/ ReclaimClean
    BY <2>5, <2>9, <2>10, CleanedQueueIsWrapped DEF WrapClean, ReclaimClean, ForceClean
  <2> QED
    BY <2>4, <2>6, <2>7, <2>8, <2>9, <2>10 DEF Next, AllocateStep
<1> QED BY <1>1, InvHolds, PTL DEF Spec, LockedEntriesStay

-----------------------------------------------------------------------------
(* The refinement mapping, element by element.                              *)
EntriesFacts ==
  /\ Entries \in Seq(Fifo!Extent) /\ Len(Entries) = Len(fifo)
  /\ DOMAIN Entries = 1 .. Len(fifo)
  /\ \A i \in 1 .. Len(fifo) :
       /\ Entries[i] = [addr |-> fifo[i].addr, size |-> fifo[i].size,
                        locks |-> locks[fifo[i].addr]]
       /\ Entries[i] \in Fifo!Extent

LEMMA EntriesMap == TypeOK => EntriesFacts
<1> SUFFICES ASSUME TypeOK PROVE EntriesFacts
  OBVIOUS
<1>1. EntryTypes
  BY EntryTypesHold
<1>2. \A i \in 1 .. Len(fifo) :
        [addr |-> fifo[i].addr, size |-> fifo[i].size,
         locks |-> locks[fifo[i].addr]] \in Fifo!Extent
  BY <1>1 DEF Fifo!Extent, EntryTypes, Entry, TypeOK, Fifo!LockCount, LockCount
<1>3. Entries \in [1 .. Len(fifo) -> Fifo!Extent] /\ Len(fifo) \in Nat
  BY <1>1, <1>2 DEF Entries, EntryTypes
<1>4. Entries \in Seq(Fifo!Extent) /\ Len(Entries) = Len(fifo)
  BY <1>3
<1> QED BY <1>1, <1>2, <1>3, <1>4 DEF EntriesFacts, Entries, EntryTypes

(* memory_queue.c implements the first-in first-out store.                  *)
THEOREM QueueImplementsFifo == Spec => ImplementsFifo
<1>1. Init => Fifo!Init
  BY DEF Init, Fifo!Init, Entries
<1>2. Inv /\ [Next]_vars => [Fifo!Next]_Entries
  <2> SUFFICES ASSUME Inv, [Next]_vars PROVE Fifo!Next \/ UNCHANGED Entries
    OBVIOUS
  <2>1. /\ EntryTypes /\ EntryTypes' /\ EntriesFacts /\ EntriesFacts' /\ Distinct
        /\ Inv'
    BY NextKeepsInv, EntryTypesHold, EntriesMap, DistinctAddresses, PTL DEF Inv
  <2>2. CASE UNCHANGED <<fifo, locks>>
    BY <2>2 DEF Entries
  <2>3. CASE /\ fifo # << >> /\ Wrapped /\ RemoveEntry
             /\ UNCHANGED <<pc, total_size, result>>
    <3>1. /\ locks[fifo[1].addr] = 0 /\ Len(fifo') = Len(fifo) - 1
          /\ \A i \in 1 .. Len(fifo') : fifo'[i] = fifo[i + 1]
          /\ UNCHANGED locks
      BY <2>3, RemoveEntryEffect
    <3>2. /\ Entries \in Seq(Fifo!Extent) /\ Entries # << >>
          /\ Len(Entries) = Len(fifo) /\ 1 \in 1 .. Len(fifo)
          /\ Entries' \in Seq(Fifo!Extent) /\ Len(Entries') = Len(fifo) - 1
      BY <2>1, <2>3, <3>1 DEF EntriesFacts, EntryTypes
    <3>3. /\ Tail(Entries) \in Seq(Fifo!Extent)
          /\ Len(Tail(Entries)) = Len(Entries) - 1
          /\ \A i \in 1 .. Len(Tail(Entries)) : Tail(Entries)[i] = Entries[i + 1]
      BY <3>2, HeadTailProperties, Zenon
    <3>4. Len(Entries') = Len(Tail(Entries))
      BY <3>2, <3>3
    <3>5. ASSUME NEW i \in 1 .. Len(Entries')
          PROVE  Entries'[i] = Tail(Entries)[i]
      <4>1. i \in 1 .. Len(fifo') /\ i + 1 \in 1 .. Len(fifo)
        BY <2>1, <3>1, <3>2 DEF EntryTypes
      <4>2. Entries'[i] = Entries[i + 1]
        BY <2>1, <3>1, <4>1 DEF EntriesFacts
      <4> QED BY <3>3, <3>4, <4>2
    <3>6. Entries' = Tail(Entries)
      BY <3>2, <3>3, <3>4, <3>5, SeqEqual, Zenon
    <3>7. Entries[1].locks = 0
      BY <2>1, <3>1, <3>2 DEF EntriesFacts
    <3> QED BY <3>2, <3>6, <3>7 DEF Fifo!Next, Fifo!Evict
  <2>4. CASE AllocateCommit
    <3> DEFINE a == write_index
               n == total_size
               e == [addr |-> a, size |-> n, locks |-> 0]
    <3>1. /\ a \in 0 .. Capacity /\ n \in 0 .. Capacity /\ a + n <= Capacity
      BY <2>4 DEF AllocateCommit, Inv, TypeOK, Address, Layout, Request
    <3>2. \A i \in DOMAIN Entries :
            ~Fifo!Overlap(a, n, Entries[i].addr, Entries[i].size)
      BY <2>1, <2>4, CommitEffect DEF EntriesFacts, Overlap, Fifo!Overlap
    <3>3. e \in Fifo!Extent
      BY <2>1, <3>1, LockCapacityAssumption
         DEF Fifo!Extent, Fifo!LockCount, EntryTypes
    <3>4. /\ Entries \in Seq(Fifo!Extent) /\ Entries' \in Seq(Fifo!Extent)
          /\ Len(Entries) = Len(fifo) /\ Len(Entries') = Len(fifo) + 1
      BY <2>1, <2>4, CommitEffect DEF EntriesFacts
    <3>5. /\ Append(Entries, e) \in Seq(Fifo!Extent)
          /\ Len(Append(Entries, e)) = Len(Entries) + 1
          /\ \A i \in 1 .. Len(Entries) : Append(Entries, e)[i] = Entries[i]
          /\ Append(Entries, e)[Len(Entries) + 1] = e
      <4> HIDE DEF e
      <4> QED BY <3>3, <3>4, AppendProperties
    <3>6. ASSUME NEW i \in 1 .. Len(Entries')
          PROVE  Entries'[i] = Append(Entries, e)[i]
      <4>1. PICK m \in Nat : m = Len(fifo) + 1
        BY <2>1 DEF EntryTypes
      <4>2. i \in 1 .. Len(fifo) \/ i = m
        BY <2>1, <3>4, <4>1 DEF EntryTypes
      <4>3. CASE i \in 1 .. Len(fifo)
        <5>1. fifo'[i] = fifo[i] /\ locks'[fifo[i].addr] = locks[fifo[i].addr]
          BY <2>4, <4>3, CommitEffect
        <5>2. i \in 1 .. Len(fifo')
          BY <2>1, <3>4 DEF EntriesFacts
        <5> QED BY <2>1, <3>4, <3>5, <4>3, <5>1, <5>2 DEF EntriesFacts
      <4>4. CASE i = m
        <5>1. fifo'[m] = [addr |-> a, size |-> n] /\ locks'[a] = 0
          BY <2>4, <4>1, CommitEffect
        <5>2. m \in 1 .. Len(fifo')
          BY <2>1, <3>4, <4>4 DEF EntriesFacts
        <5>3. Entries'[m] = e
          BY <2>1, <5>1, <5>2 DEF EntriesFacts
        <5> QED BY <3>4, <3>5, <4>1, <4>4, <5>3
      <4> QED BY <4>2, <4>3, <4>4
    <3>7. Entries' = Append(Entries, e)
      <4> HIDE DEF e
      <4>1. Len(Entries') = Len(Append(Entries, e))
        BY <3>4, <3>5
      <4> QED BY <3>4, <3>5, <3>6, <4>1, SeqEqual, Zenon
    <3>8. Fifo!Allocate(a, n)
      BY <3>1, <3>2, <3>7 DEF Fifo!Allocate
    <3> QED BY <3>1, <3>8 DEF Fifo!Next
  <2>5. CASE Caller
    <3>1. PICK k \in DOMAIN fifo :
            \/ \E b \in BOOLEAN : SetActive(fifo[k].addr, b)
            \/ AcquireLock(fifo[k].addr)
            \/ ReleaseLock(fifo[k].addr)
      BY <2>5 DEF Caller
    <3> DEFINE a == fifo[k].addr
    <3>2. CASE \E b \in BOOLEAN : SetActive(a, b)
      BY <2>2, <3>2 DEF SetActive
    <3>3. ASSUME NEW v, fifo' = fifo, locks' = [locks EXCEPT ![a] = v]
          PROVE  Entries' = [Entries EXCEPT ![k].locks = v]
      <4>1. \A i \in 1 .. Len(fifo) : fifo[i].addr \in Address
        BY <2>1 DEF EntryTypes, Entry
      <4>2. locks \in [Address -> LockCount] /\ DOMAIN fifo = 1 .. Len(fifo)
        BY <2>1 DEF Inv, TypeOK, EntryTypes
      <4>3. \A i \in 1 .. Len(fifo) :
              locks'[fifo[i].addr] = IF i = k THEN v ELSE locks[fifo[i].addr]
        BY <2>1, <3>3, <4>1, <4>2 DEF Distinct
      <4>4. Entries' = [i \in 1 .. Len(fifo) |->
                          [addr |-> fifo[i].addr, size |-> fifo[i].size,
                           locks |-> IF i = k THEN v ELSE locks[fifo[i].addr]]]
        BY <3>3, <4>2, <4>3 DEF Entries
      <4>5. [Entries EXCEPT ![k].locks = v] =
              [i \in 1 .. Len(fifo) |->
                 [addr |-> fifo[i].addr, size |-> fifo[i].size,
                  locks |-> IF i = k THEN v ELSE locks[fifo[i].addr]]]
        <5>1. /\ Entries = [i \in 1 .. Len(fifo) |-> Entries[i]]
              /\ DOMAIN Entries = 1 .. Len(fifo)
          BY <4>2 DEF Entries
        <5>2. [Entries EXCEPT ![k].locks = v] =
                [i \in 1 .. Len(fifo) |->
                   IF i = k THEN [Entries[i] EXCEPT !.locks = v] ELSE Entries[i]]
          BY <5>1
        <5>3. ASSUME NEW i \in 1 .. Len(fifo)
              PROVE  (IF i = k THEN [Entries[i] EXCEPT !.locks = v] ELSE Entries[i])
                       = [addr |-> fifo[i].addr, size |-> fifo[i].size,
                          locks |-> IF i = k THEN v ELSE locks[fifo[i].addr]]
          <6>1. Entries[i] = [addr |-> fifo[i].addr, size |-> fifo[i].size,
                              locks |-> locks[fifo[i].addr]]
            BY <2>1 DEF EntriesFacts
          <6>2. CASE i = k
            BY <6>1, <6>2
          <6>3. CASE i # k
            BY <6>1, <6>3
          <6> QED BY <6>2, <6>3
        <5> QED BY <5>2, <5>3
      <4> QED BY <4>4, <4>5
    <3>4. k \in DOMAIN Entries /\ Entries[k].locks = locks[a]
      BY <2>1 DEF EntriesFacts, EntryTypes
    <3>5. CASE AcquireLock(a)
      <4>1. Fifo!Acquire(k)
        BY <3>3, <3>4, <3>5
           DEF AcquireLock, Fifo!Acquire, LockIsFull, LockAcquired,
               Fifo!LockIsFull, Fifo!LockAcquired
      <4> QED BY <3>4, <4>1 DEF Fifo!Next
    <3>6. CASE ReleaseLock(a)
      <4>1. Fifo!Release(k)
        BY <3>3, <3>4, <3>6
           DEF ReleaseLock, Fifo!Release, LockReleased, Fifo!LockReleased
      <4> QED BY <3>4, <4>1 DEF Fifo!Next
    <3> QED BY <3>1, <3>2, <3>5, <3>6
  <2>6. ASSUME NEW p \in PayloadSizes, Allocate(TotalSize(p))
        PROVE  UNCHANGED <<fifo, locks>>
    BY <2>6 DEF Allocate, AllocateOversized, AllocateBegin, headers
  <2>7. CASE WriteBlocked \/ Wrap \/ WrapOverruns \/ UNCHANGED vars
    BY <2>2, <2>7 DEF WriteBlocked, Wrap, WrapOverruns, vars, headers
  <2>8. CASE WrapClean \/ ReclaimClean
    BY <2>3, <2>7, <2>8, CleanedQueueIsWrapped DEF WrapClean, ReclaimClean, ForceClean
  <2> QED
    BY <2>2, <2>4, <2>5, <2>6, <2>7, <2>8 DEF Next, AllocateStep
<1> QED BY <1>1, <1>2, InvHolds, PTL DEF Spec, ImplementsFifo, Fifo!Spec
=============================================================================
