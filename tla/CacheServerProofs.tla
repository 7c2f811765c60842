------------------------- MODULE CacheServerProofs -------------------------
(***************************************************************************)
(* Proofs about the whole server where the buffer has room for all that is *)
(* put: locks count their readers, the memory queue is used as it needs to *)
(* be, a GET is answered with the value last put, and what clients see is  *)
(* a cache (Cache.tla).                                                    *)
(***************************************************************************)
EXTENDS ServerLoopProofs, FiniteSetTheorems

Owned == {fifo[i].addr : i \in DOMAIN fifo}

Writes(k) == k.state = "RECEIVING_BODY" /\ k.type = "PUT"

(* A PUT that has been announced and is still to get its entry.             *)
Announces(k) == k.state = "RECEIVING_ARGUMENTS" /\ k.type = "PUT"
Announced == {c \in Conn : Announces(conn[c])}

(* An entry with a key.                                                     *)
Keyed(a) == a \in Owned /\ size[a] - HeaderSize - 1 \in 0 .. 1

-----------------------------------------------------------------------------
(* The inductive invariant.                                                 *)

(* A connection_t by itself.                                                *)
Local(k) ==
  /\ DOMAIN k = DOMAIN NewRequest
  /\ k.state \in States /\ k.remaining \in 0 .. 2 /\ k.entry \in Entry
  /\ k.key \in Key \union {NULL} /\ k.locked \in BOOLEAN
  /\ k.locked => /\ k.state \in SendingStates /\ k.type = "VALUE"
                 /\ k.request = "GET" /\ k.key \in Key /\ k.expected # NULL
  /\ k.state \in SendingStates /\ k.type = "VALUE" => k.locked
  /\ k.state = "SENDING_BODY" => k.locked
  /\ k.type = "NOT_FOUND" => k.expected = NULL
  /\ k.state = "RECEIVING_HEADER" =>
       k.type = "NONE" /\ k.request = "NONE" /\ k.key = NULL
  /\ k.state \in {"RECEIVING_ARGUMENTS", "RECEIVING_BODY"} =>
       k.type \in {"GET", "PUT", "DELETE"} /\ k.request = k.type
  /\ k.state = "RECEIVING_ARGUMENTS" => k.key = NULL
  /\ k.state = "RECEIVING_BODY" /\ k.type # "PUT" => k.key = NULL

LocalInv == DOMAIN conn = Conn /\ \A c \in Conn : Local(conn[c])

(* A key is mapped to the one entry its value was last put in.              *)
Holds(k) ==
  \/ buckets[k] = << >> /\ store[k] = NULL
  \/ \E a \in Owned :
       /\ buckets[k] = <<a>> /\ key_bytes[a] = k
       /\ value_bytes[a] = store[k] /\ store[k] # NULL
       /\ Keyed(a)

MapInv ==
  /\ buckets \in [Key -> Seq(Queue!Address)]
  /\ store \in [Key -> Value \union {Empty, NULL}]
  /\ key_bytes \in [Queue!Address -> Key \union {NULL, Torn}]
  /\ value_bytes \in [Queue!Address -> Value \union {Empty, NULL}]
  /\ \A k \in Key : Holds(k)

(* Who sends an entry sends the value it found.                             *)
ReadersInv ==
  \A c \in Conn : conn[c].locked =>
    Keyed(conn[c].entry) /\ value_bytes[conn[c].entry] = conn[c].expected

(* Who receives an entry has it for itself.                                 *)
WritersInv ==
  \A c \in Conn : Writes(conn[c]) =>
    /\ conn[c].entry \in Owned
    /\ conn[c].remaining > 0 => Keyed(conn[c].entry)
    /\ conn[c].key # NULL => key_bytes[conn[c].entry] = conn[c].key
    /\ \A k \in Key : buckets[k] # <<conn[c].entry>>
    /\ \A d \in Conn \ {c} :
         Writes(conn[d]) \/ conn[d].locked => conn[d].entry # conn[c].entry

LocksInv ==
  \A a \in Queue!Address :
    IsFiniteSet(Readers(a)) /\ locks[a] = Cardinality(Readers(a))

DataInv == LocalInv /\ MapInv /\ ReadersInv /\ WritersInv /\ LocksInv

(* There is room for every PUT that has been announced.                     *)
BudgetInv ==
  /\ pc \in {"idle", "reclaim"} /\ read_index = 0
  /\ fifo # << >> => write_index # 0
  /\ write_index <= Len(fifo) * (HeaderSize + 2)
  /\ pc # "idle" => Announces(conn[current]) /\ total_size - HeaderSize \in 0 .. 2
  /\ IsFiniteSet(Announced)
  /\ Len(fifo) + Cardinality(Announced) <= puts
  /\ puts \in 0 .. MaxPuts

ServerInv == LoopInv /\ QueueInv /\ DataInv /\ BudgetInv

-----------------------------------------------------------------------------
(* What a turn does to the data: connection c becomes k.                    *)

Becomes(c, k) == conn' = [conn EXCEPT ![c] = k]

Asks(k) == k.state \notin SendingStates \union {"CLOSED"}

Refused(k) ==
  /\ k.state \in SendingStates /\ ~k.locked
  /\ \E r \in Seen!Refusals : k.request = r[1] /\ k.type = r[2]

NotFound(k) ==
  /\ k.state \in SendingStates /\ ~k.locked
  /\ k.request = "GET" /\ k.type = "NOT_FOUND"
  /\ k.key \in Key /\ store[k.key] = NULL

(* The client of a connection that was l and becomes k is told nothing      *)
(* more, or that its request has no effect.                                 *)
Told(l, k) ==
  \/ k.state \notin SendingStates
  \/ /\ {k.state, l.state} \subseteq SendingStates
     /\ k.request = l.request /\ k.type = l.type /\ k.key = l.key
     /\ k.locked = l.locked
  \/ Asks(l) /\ (Refused(k) \/ NotFound(k))

(* The data stay as they are, and so does what c has to do with an entry.   *)
Quiet(c, k) ==
  /\ Told(conn[c], k)
  /\ k.locked = conn[c].locked
  /\ k.locked => k.entry = conn[c].entry /\ k.expected = conn[c].expected
  /\ Writes(k) => /\ Writes(conn[c]) /\ k.entry = conn[c].entry
                  /\ k.key = conn[c].key /\ k.remaining = conn[c].remaining
  /\ UNCHANGED <<mapVars, locks>>

(* A GET locks the entry it finds.                                          *)
Locks(c, k) ==
  /\ Asks(conn[c]) /\ ~conn[c].locked /\ k.locked
  /\ buckets[k.key] = <<k.entry>> /\ k.expected = store[k.key]
  /\ locks' = [locks EXCEPT ![k.entry] = @ + 1]
  /\ UNCHANGED mapVars

(* The lock of an entry is released, its value being sent or not.           *)
Unlocks(c, k) ==
  /\ conn[c].locked /\ ~k.locked /\ k.state \notin SendingStates /\ ~Writes(k)
  /\ locks' = [locks EXCEPT ![conn[c].entry] = @ - 1]
  /\ UNCHANGED mapVars

(* A DELETE takes its key out of the map.                                   *)
Deletes(c, k) ==
  /\ Asks(conn[c]) /\ ~conn[c].locked /\ ~k.locked
  /\ k.state \in SendingStates /\ k.request = "DELETE" /\ k.type = "OK"
  /\ k.key \in Key
  /\ buckets' = [buckets EXCEPT ![k.key] = << >>]
  /\ store' = [store EXCEPT ![k.key] = NULL]
  /\ UNCHANGED <<key_bytes, value_bytes, locks>>

(* Part of the body of a PUT arrives in its entry.                          *)
Fills(c, k) ==
  /\ Writes(conn[c]) /\ conn[c].remaining > 0
  /\ Writes(k) /\ k.entry = conn[c].entry
  /\ \E b \in Key \union {NULL}, v \in Values :
       /\ key_bytes' = [key_bytes EXCEPT ![k.entry] = b]
       /\ value_bytes' = [value_bytes EXCEPT ![k.entry] = v]
       /\ k.key # NULL => k.key = b
  /\ UNCHANGED <<buckets, store, locks>>

(* The body of a PUT has arrived, and is put in the map or refused.         *)
Puts(c, k, v) ==
  LET a == conn[c].entry IN
  /\ Writes(conn[c]) /\ conn[c].remaining > 0
  /\ k.state \in SendingStates /\ k.request = "PUT" /\ ~k.locked
  /\ k.key \in Key
  /\ key_bytes' = [key_bytes EXCEPT ![a] = k.key]
  /\ value_bytes' = [value_bytes EXCEPT ![a] = v]
  /\ UNCHANGED locks
  /\ \/ /\ k.type = "OUT_OF_MEMORY"
        /\ UNCHANGED <<buckets, store>>
     \/ /\ k.type = "OK"
        /\ buckets' = [buckets EXCEPT ![k.key] = <<a>>]
        /\ store' = [store EXCEPT ![k.key] = v]

Effect(c, k) ==
  /\ Becomes(c, k) /\ Local(k)
  /\ \/ Quiet(c, k) \/ Locks(c, k) \/ Unlocks(c, k) \/ Deletes(c, k)
     \/ Fills(c, k) \/ \E v \in Value \union {Empty} : Puts(c, k, v)

(* A PUT is given the entry its allocation has made for it, and no other    *)
(* entry loses its bytes.                                                   *)
Granted(c, k) ==
  /\ Becomes(c, k) /\ Local(k)
  /\ Announces(conn[c]) /\ Writes(k) /\ k.key = NULL
  /\ k.entry = write_index /\ write_index \in Queue!Address \ Owned
  /\ k.remaining = total_size - HeaderSize
  /\ Owned' = Owned \union {write_index}
  /\ size' = [size EXCEPT ![write_index] = total_size]
  /\ locks' = [locks EXCEPT ![write_index] = 0]
  /\ key_bytes' \in [Queue!Address -> Key \union {NULL, Torn}]
  /\ value_bytes' \in [Queue!Address -> Values]
  /\ \A a \in Owned : key_bytes'[a] = key_bytes[a] /\ value_bytes'[a] = value_bytes[a]
  /\ UNCHANGED <<buckets, store>>

-----------------------------------------------------------------------------
(* Such a turn keeps the invariant of the data.                             *)

LEMMA ConnAfter ==
  ASSUME LocalInv, NEW c \in Conn, NEW k, Becomes(c, k), Local(k)
  PROVE  /\ LocalInv'
         /\ conn'[c] = k
         /\ \A d \in Conn \ {c} : conn'[d] = conn[d]
  BY DEF LocalInv, Becomes

LEMMA SameEntries ==
  ASSUME UNCHANGED <<size, fifo>>
  PROVE  Owned' = Owned /\ \A a : Keyed(a)' <=> Keyed(a)
  BY DEF Owned, Keyed

(* Locks that nobody acquires or releases go on counting their readers.     *)
LEMMA SameReaders ==
  ASSUME LocksInv, UNCHANGED locks, \A a \in Queue!Address : Readers(a)' = Readers(a)
  PROVE  LocksInv'
  BY DEF LocksInv

LEMMA QuietKeepsData ==
  ASSUME DataInv, NEW c \in Conn, NEW k, Becomes(c, k), Local(k), Quiet(c, k),
         UNCHANGED <<size, fifo>>
  PROVE  DataInv'
<1>1. /\ LocalInv' /\ conn'[c] = k
      /\ \A d \in Conn \ {c} : conn'[d] = conn[d]
  BY ConnAfter DEF DataInv
<1>2. Owned' = Owned /\ \A a : Keyed(a)' <=> Keyed(a)
  BY SameEntries
<1>3. /\ UNCHANGED <<buckets, key_bytes, value_bytes, store, locks>>
      /\ k.locked = conn[c].locked
      /\ k.locked => k.entry = conn[c].entry /\ k.expected = conn[c].expected
      /\ Writes(k) => /\ Writes(conn[c]) /\ k.entry = conn[c].entry
                      /\ k.key = conn[c].key /\ k.remaining = conn[c].remaining
  BY DEF Quiet, mapVars
<1>4. MapInv'
  BY <1>2, <1>3 DEF DataInv, MapInv, Holds
<1>5. ReadersInv'
  BY <1>1, <1>2, <1>3 DEF DataInv, ReadersInv
<1>6. WritersInv'
  BY <1>1, <1>2, <1>3 DEF DataInv, WritersInv
<1>7. LocksInv'
  <2>1. \A a \in Queue!Address : Readers(a)' = Readers(a)
    BY <1>1, <1>3 DEF Readers
  <2> QED
    BY <1>3, <2>1, SameReaders DEF DataInv
<1> QED
  BY <1>1, <1>4, <1>5, <1>6, <1>7 DEF DataInv

(* The entry under a key.                                                   *)
LEMMA BucketFacts ==
  ASSUME MapInv, NEW k \in Key, NEW a, buckets[k] = <<a>>
  PROVE  /\ a \in Owned /\ Keyed(a) /\ key_bytes[a] = k
         /\ value_bytes[a] = store[k] /\ store[k] # NULL
<1>1. <<a>> # << >> /\ \A b : <<a>> = <<b>> => a = b
  OBVIOUS
<1>2. Holds(k)
  BY DEF MapInv
<1> QED
  BY <1>1, <1>2 DEF Holds

LEMMA OwnedAddresses ==
  ASSUME QueueInv PROVE Owned \subseteq Queue!Address
<1> DEFINE Extent == [addr : Queue!Address, size : 0 .. Capacity]
<1>1. fifo \in Seq(Extent)
  BY DEF QueueInv, Queue!TypeOK
<1>2. \A x \in Extent : x.addr \in Queue!Address
  OBVIOUS
<1> HIDE DEF Extent
<1>3. \A i \in DOMAIN fifo : fifo[i] \in Extent
  BY <1>1
<1> QED
  BY <1>2, <1>3 DEF Owned

LEMMA LocksKeepsData ==
  ASSUME QueueInv, DataInv, NEW c \in Conn, NEW k, Becomes(c, k), Local(k),
         Locks(c, k), UNCHANGED <<size, fifo>>
  PROVE  DataInv'
<1>1. /\ LocalInv' /\ conn'[c] = k
      /\ \A d \in Conn \ {c} : conn'[d] = conn[d]
  BY ConnAfter DEF DataInv
<1>2. Owned' = Owned /\ \A a : Keyed(a)' <=> Keyed(a)
  BY SameEntries
<1> DEFINE e == k.entry
<1>3. /\ UNCHANGED <<buckets, key_bytes, value_bytes, store>>
      /\ ~conn[c].locked /\ k.locked /\ k.state \in SendingStates
      /\ k.key \in Key /\ k.expected = store[k.key]
      /\ buckets[k.key] = <<e>>
      /\ locks' = [locks EXCEPT ![e] = @ + 1]
  BY DEF Locks, mapVars, Local
<1>4. /\ e \in Owned /\ Keyed(e) /\ value_bytes[e] = k.expected
      /\ \A d \in Conn : Writes(conn[d]) => conn[d].entry # e
      /\ e \in Queue!Address
  BY <1>3, BucketFacts, OwnedAddresses DEF DataInv, WritersInv
<1>5. ~Writes(k)
  BY <1>3 DEF Writes, SendingStates
<1>6. MapInv'
  BY <1>2, <1>3 DEF DataInv, MapInv, Holds
<1>7. ReadersInv'
  BY <1>1, <1>2, <1>3, <1>4 DEF DataInv, ReadersInv
<1>8. WritersInv'
  BY <1>1, <1>2, <1>3, <1>4, <1>5 DEF DataInv, WritersInv
<1>9. LocksInv'
  <2>1. c \notin Readers(e) /\ Readers(e)' = Readers(e) \union {c}
    BY <1>1, <1>3 DEF Readers
  <2>2. \A a \in Queue!Address \ {e} : Readers(a)' = Readers(a)
    BY <1>1, <1>3 DEF Readers
  <2>3. IsFiniteSet(Readers(e)) /\ locks[e] = Cardinality(Readers(e))
    BY <1>4 DEF DataInv, LocksInv
  <2>4. /\ IsFiniteSet(Readers(e)')
        /\ Cardinality(Readers(e)') = Cardinality(Readers(e)) + 1
    BY <2>1, <2>3, FS_AddElement
  <2>5. /\ locks'[e] = locks[e] + 1
        /\ \A a \in Queue!Address \ {e} : locks'[a] = locks[a]
    BY <1>3, <1>4 DEF QueueInv, Queue!TypeOK
  <2> QED
    BY <2>2, <2>3, <2>4, <2>5 DEF DataInv, LocksInv
<1> QED
  BY <1>1, <1>6, <1>7, <1>8, <1>9 DEF DataInv

LEMMA UnlocksKeepsData ==
  ASSUME QueueInv, DataInv, NEW c \in Conn, NEW k, Becomes(c, k), Local(k),
         Unlocks(c, k), UNCHANGED <<size, fifo>>
  PROVE  DataInv'
<1>1. /\ LocalInv' /\ conn'[c] = k
      /\ \A d \in Conn \ {c} : conn'[d] = conn[d]
  BY ConnAfter DEF DataInv
<1>2. Owned' = Owned /\ \A a : Keyed(a)' <=> Keyed(a)
  BY SameEntries
<1>0. PICK e : e = conn[c].entry
  OBVIOUS
<1>3. /\ UNCHANGED <<buckets, key_bytes, value_bytes, store>>
      /\ conn[c].locked /\ ~k.locked /\ ~Writes(k)
      /\ locks' = [locks EXCEPT ![e] = @ - 1]
  BY <1>0 DEF Unlocks, mapVars
<1>4. e \in Queue!Address
  BY <1>0, <1>3, OwnedAddresses DEF DataInv, ReadersInv, Keyed
<1>5. MapInv'
  BY <1>2, <1>3 DEF DataInv, MapInv, Holds
<1>6. ReadersInv'
  BY <1>1, <1>2, <1>3 DEF DataInv, ReadersInv
<1>7. WritersInv'
  BY <1>1, <1>2, <1>3 DEF DataInv, WritersInv
<1>8. LocksInv'
  <2>1. c \in Readers(e) /\ Readers(e)' = Readers(e) \ {c}
    BY <1>0, <1>1, <1>3 DEF Readers
  <2>2. \A a \in Queue!Address \ {e} : Readers(a)' = Readers(a)
    BY <1>0, <1>1, <1>3 DEF Readers
  <2>3. IsFiniteSet(Readers(e)) /\ locks[e] = Cardinality(Readers(e))
    BY <1>4 DEF DataInv, LocksInv
  <2>4. /\ IsFiniteSet(Readers(e)')
        /\ Cardinality(Readers(e)') = Cardinality(Readers(e)) - 1
    BY <2>1, <2>3, FS_RemoveElement
  <2>5. /\ locks'[e] = locks[e] - 1
        /\ \A a \in Queue!Address \ {e} : locks'[a] = locks[a]
    BY <1>3, <1>4 DEF QueueInv, Queue!TypeOK
  <2> QED
    BY <2>2, <2>3, <2>4, <2>5 DEF DataInv, LocksInv
<1> QED
  BY <1>1, <1>5, <1>6, <1>7, <1>8 DEF DataInv

LEMMA DeletesKeepsData ==
  ASSUME DataInv, NEW c \in Conn, NEW k, Becomes(c, k), Local(k), Deletes(c, k),
         UNCHANGED <<size, fifo>>
  PROVE  DataInv'
<1>1. /\ LocalInv' /\ conn'[c] = k
      /\ \A d \in Conn \ {c} : conn'[d] = conn[d]
  BY ConnAfter DEF DataInv
<1>2. Owned' = Owned /\ \A a : Keyed(a)' <=> Keyed(a)
  BY SameEntries
<1>3. /\ UNCHANGED <<key_bytes, value_bytes, locks>>
      /\ ~conn[c].locked /\ ~k.locked /\ k.state \in SendingStates
      /\ k.key \in Key
      /\ buckets' = [buckets EXCEPT ![k.key] = << >>]
      /\ store' = [store EXCEPT ![k.key] = NULL]
  BY DEF Deletes
<1>4. ~Writes(k)
  BY <1>3 DEF Writes, SendingStates
<1>5. /\ buckets' \in [Key -> Seq(Queue!Address)]
      /\ store' \in [Key -> Value \union {Empty, NULL}]
      /\ buckets'[k.key] = << >> /\ store'[k.key] = NULL
      /\ \A j \in Key \ {k.key} : buckets'[j] = buckets[j] /\ store'[j] = store[j]
  BY <1>3 DEF DataInv, MapInv
<1>6. MapInv'
  BY <1>2, <1>3, <1>5 DEF DataInv, MapInv, Holds
<1>7. ReadersInv'
  BY <1>1, <1>2, <1>3 DEF DataInv, ReadersInv
<1>8. WritersInv'
  <2>1. \A a : << >> # <<a>>
    OBVIOUS
  <2> QED
    BY <1>1, <1>2, <1>3, <1>4, <1>5, <2>1 DEF DataInv, WritersInv
<1>9. LocksInv'
  <2>1. \A a \in Queue!Address : Readers(a)' = Readers(a)
    BY <1>1, <1>3 DEF Readers
  <2> QED
    BY <1>3, <2>1, SameReaders DEF DataInv
<1> QED
  BY <1>1, <1>6, <1>7, <1>8, <1>9 DEF DataInv

(* Bytes that arrive in an entry of a PUT are nobody else's.                *)
LEMMA WrittenAlone ==
  ASSUME QueueInv, MapInv, ReadersInv, WritersInv, NEW c \in Conn, Writes(conn[c])
  PROVE  /\ conn[c].entry \in Owned /\ conn[c].entry \in Queue!Address
         /\ \A j \in Key : buckets[j] # <<conn[c].entry>>
         /\ \A d \in Conn \ {c} :
              Writes(conn[d]) \/ conn[d].locked => conn[d].entry # conn[c].entry
  BY OwnedAddresses DEF WritersInv

LEMMA FillsKeepsData ==
  ASSUME QueueInv, DataInv, NEW c \in Conn, NEW k, Becomes(c, k), Local(k),
         Fills(c, k), UNCHANGED <<size, fifo>>
  PROVE  DataInv'
<1>1. /\ LocalInv' /\ conn'[c] = k
      /\ \A d \in Conn \ {c} : conn'[d] = conn[d]
  BY ConnAfter DEF DataInv
<1>2. Owned' = Owned /\ \A a : Keyed(a)' <=> Keyed(a)
  BY SameEntries
<1> DEFINE e == conn[c].entry
<1>3. /\ UNCHANGED <<buckets, store, locks>>
      /\ Writes(conn[c]) /\ conn[c].remaining > 0
      /\ Writes(k) /\ k.entry = e
  BY DEF Fills
<1>bytes. PICK b \in Key \union {NULL}, v \in Values :
        /\ key_bytes' = [key_bytes EXCEPT ![e] = b]
        /\ value_bytes' = [value_bytes EXCEPT ![e] = v]
        /\ k.key # NULL => k.key = b
  BY <1>3 DEF Fills
<1>4. /\ e \in Owned /\ e \in Queue!Address /\ Keyed(e)
      /\ \A j \in Key : buckets[j] # <<e>>
      /\ \A d \in Conn \ {c} :
           Writes(conn[d]) \/ conn[d].locked => conn[d].entry # e
  BY <1>3, WrittenAlone DEF DataInv, WritersInv
<1>5. ~k.locked /\ ~conn[c].locked
  BY <1>3 DEF DataInv, LocalInv, Local, Writes, SendingStates
<1>6. /\ key_bytes' \in [Queue!Address -> Key \union {NULL, Torn}]
      /\ value_bytes' \in [Queue!Address -> Value \union {Empty, NULL}]
      /\ key_bytes'[e] = b
      /\ \A a \in Queue!Address \ {e} :
           key_bytes'[a] = key_bytes[a] /\ value_bytes'[a] = value_bytes[a]
  BY <1>4, <1>bytes DEF DataInv, MapInv, Values
<1>7. MapInv'
  <2>1. ASSUME NEW j \in Key PROVE Holds(j)'
    <3>1. CASE buckets[j] = << >> /\ store[j] = NULL
      BY <1>3, <3>1 DEF Holds
    <3>2. ASSUME NEW a \in Owned, buckets[j] = <<a>>, key_bytes[a] = j,
                 value_bytes[a] = store[j], store[j] # NULL, Keyed(a)
          PROVE  Holds(j)'
      <4>1. a # e /\ a \in Queue!Address
        BY <1>4, <3>2, OwnedAddresses
      <4> QED
        BY <1>2, <1>3, <1>6, <3>2, <4>1 DEF Holds
    <3> QED
      BY <3>1, <3>2 DEF DataInv, MapInv, Holds
  <2> QED
    BY <1>3, <1>6, <2>1 DEF DataInv, MapInv
<1>8. ReadersInv'
  <2>1. ASSUME NEW d \in Conn \ {c}, conn[d].locked
        PROVE  value_bytes'[conn[d].entry] = value_bytes[conn[d].entry]
    BY <1>4, <1>6, <2>1, OwnedAddresses DEF DataInv, ReadersInv, Keyed
  <2> QED
    BY <1>1, <1>2, <1>5, <2>1 DEF DataInv, ReadersInv
<1>9. WritersInv'
  <2>1. ASSUME NEW d \in Conn \ {c}, Writes(conn[d])
        PROVE  key_bytes'[conn[d].entry] = key_bytes[conn[d].entry]
    BY <1>4, <1>6, <2>1, OwnedAddresses DEF DataInv, WritersInv
  <2> QED
    BY <1>1, <1>2, <1>3, <1>4, <1>5, <1>6, <1>bytes, <2>1 DEF DataInv, WritersInv
<1>10. LocksInv'
  <2>1. \A a \in Queue!Address : Readers(a)' = Readers(a)
    BY <1>1, <1>5 DEF Readers
  <2> QED
    BY <1>3, <2>1, SameReaders DEF DataInv
<1> QED
  BY <1>1, <1>7, <1>8, <1>9, <1>10 DEF DataInv

LEMMA PutsKeepsData ==
  ASSUME QueueInv, DataInv, NEW c \in Conn, NEW k, Becomes(c, k), Local(k),
         NEW v \in Value \union {Empty}, Puts(c, k, v), UNCHANGED <<size, fifo>>
  PROVE  DataInv'
<1>1. /\ LocalInv' /\ conn'[c] = k
      /\ \A d \in Conn \ {c} : conn'[d] = conn[d]
  BY ConnAfter DEF DataInv
<1>2. Owned' = Owned /\ \A a : Keyed(a)' <=> Keyed(a)
  BY SameEntries
<1>0. PICK e : e = conn[c].entry
  OBVIOUS
<1>3. /\ UNCHANGED locks
      /\ Writes(conn[c]) /\ conn[c].remaining > 0
      /\ k.state \in SendingStates /\ ~k.locked /\ k.key \in Key
      /\ key_bytes' = [key_bytes EXCEPT ![e] = k.key]
      /\ value_bytes' = [value_bytes EXCEPT ![e] = v]
      /\ \/ UNCHANGED <<buckets, store>>
         \/ /\ buckets' = [buckets EXCEPT ![k.key] = <<e>>]
            /\ store' = [store EXCEPT ![k.key] = v]
  BY <1>0 DEF Puts
<1>4. /\ e \in Owned /\ e \in Queue!Address /\ Keyed(e)
      /\ \A j \in Key : buckets[j] # <<e>>
      /\ \A d \in Conn \ {c} :
           Writes(conn[d]) \/ conn[d].locked => conn[d].entry # e
  BY <1>0, <1>3, WrittenAlone DEF DataInv, WritersInv
<1>5. ~conn[c].locked /\ ~Writes(k)
  BY <1>3 DEF DataInv, LocalInv, Local, Writes, SendingStates
<1>6. /\ key_bytes' \in [Queue!Address -> Key \union {NULL, Torn}]
      /\ value_bytes' \in [Queue!Address -> Value \union {Empty, NULL}]
      /\ key_bytes'[e] = k.key /\ value_bytes'[e] = v /\ v # NULL
      /\ \A a \in Queue!Address \ {e} :
           key_bytes'[a] = key_bytes[a] /\ value_bytes'[a] = value_bytes[a]
  BY <1>3, <1>4, ConnectionAssumption DEF DataInv, MapInv
<1>7. /\ buckets' \in [Key -> Seq(Queue!Address)]
      /\ store' \in [Key -> Value \union {Empty, NULL}]
      /\ \A j \in Key : \/ buckets'[j] = buckets[j] /\ store'[j] = store[j]
                        \/ j = k.key /\ buckets'[j] = <<e>> /\ store'[j] = v
  <2>1. /\ buckets \in [Key -> Seq(Queue!Address)]
        /\ store \in [Key -> Value \union {Empty, NULL}]
    BY DEF DataInv, MapInv
  <2>2. <<e>> \in Seq(Queue!Address)
    BY <1>4
  <2>3. CASE UNCHANGED <<buckets, store>>
    BY <2>1, <2>3
  <2>4. CASE /\ buckets' = [buckets EXCEPT ![k.key] = <<e>>]
             /\ store' = [store EXCEPT ![k.key] = v]
    BY <2>1, <2>2, <2>4
  <2> QED
    BY <1>3, <2>3, <2>4
<1>8. MapInv'
  <2>1. ASSUME NEW j \in Key PROVE Holds(j)'
    <3>1. CASE j = k.key /\ buckets'[j] = <<e>> /\ store'[j] = v
      BY <1>2, <1>4, <1>6, <3>1 DEF Holds
    <3>2. CASE buckets'[j] = buckets[j] /\ store'[j] = store[j]
      <4>1. CASE buckets[j] = << >> /\ store[j] = NULL
        BY <3>2, <4>1 DEF Holds
      <4>2. ASSUME NEW a \in Owned, buckets[j] = <<a>>, key_bytes[a] = j,
                   value_bytes[a] = store[j], store[j] # NULL, Keyed(a)
            PROVE  Holds(j)'
        <5>1. a # e /\ a \in Queue!Address
          BY <1>4, <4>2, OwnedAddresses
        <5> QED
          BY <1>2, <1>6, <3>2, <4>2, <5>1 DEF Holds
      <4> QED
        BY <4>1, <4>2 DEF DataInv, MapInv, Holds
    <3> QED
      BY <1>7, <3>1, <3>2
  <2> QED
    BY <1>6, <1>7, <2>1 DEF MapInv
<1>9. ReadersInv'
  <2>1. ASSUME NEW d \in Conn \ {c}, conn[d].locked
        PROVE  value_bytes'[conn[d].entry] = value_bytes[conn[d].entry]
    BY <1>4, <1>6, <2>1, OwnedAddresses DEF DataInv, ReadersInv, Keyed
  <2> QED
    BY <1>1, <1>2, <1>3, <2>1 DEF DataInv, ReadersInv
<1>10. WritersInv'
  <2>1. ASSUME NEW d \in Conn \ {c}, Writes(conn[d])
        PROVE  /\ key_bytes'[conn[d].entry] = key_bytes[conn[d].entry]
               /\ \A j \in Key : buckets'[j] # <<conn[d].entry>>
    <3>1. \A a, b : <<a>> = <<b>> => a = b
      OBVIOUS
    <3>2. /\ conn[d].entry \in Owned /\ conn[d].entry # e
          /\ \A j \in Key : buckets[j] # <<conn[d].entry>>
      BY <1>4, <2>1 DEF DataInv, WritersInv
    <3>3. key_bytes'[conn[d].entry] = key_bytes[conn[d].entry]
      BY <1>6, <3>2, OwnedAddresses
    <3>4. \A j \in Key : buckets'[j] # <<conn[d].entry>>
      BY <1>7, <3>1, <3>2
    <3> QED
      BY <3>3, <3>4
  <2> QED
    BY <1>1, <1>2, <1>3, <1>5, <2>1 DEF DataInv, WritersInv
<1>11. LocksInv'
  <2>1. \A a \in Queue!Address : Readers(a)' = Readers(a)
    BY <1>1, <1>3, <1>5 DEF Readers
  <2> QED
    BY <1>3, <2>1, SameReaders DEF DataInv
<1> QED
  BY <1>1, <1>8, <1>9, <1>10, <1>11 DEF DataInv

LEMMA EffectKeepsData ==
  ASSUME QueueInv, DataInv, NEW c \in Conn, NEW k, Effect(c, k),
         UNCHANGED <<size, fifo>>
  PROVE  DataInv'
  BY QuietKeepsData, LocksKeepsData, UnlocksKeepsData, DeletesKeepsData,
     FillsKeepsData, PutsKeepsData DEF Effect

LEMMA GrantedKeepsData ==
  ASSUME QueueInv, DataInv, NEW c \in Conn, NEW k, Granted(c, k),
         total_size - HeaderSize \in 0 .. 2
  PROVE  DataInv'
<1>1. /\ LocalInv' /\ conn'[c] = k
      /\ \A d \in Conn \ {c} : conn'[d] = conn[d]
  BY ConnAfter DEF DataInv, Granted
<1>0. PICK e : e = write_index
  OBVIOUS
<1>2. /\ UNCHANGED <<buckets, store>>
      /\ key_bytes' \in [Queue!Address -> Key \union {NULL, Torn}]
      /\ value_bytes' \in [Queue!Address -> Value \union {Empty, NULL}]
      /\ \A a \in Owned : /\ key_bytes'[a] = key_bytes[a]
                           /\ value_bytes'[a] = value_bytes[a]
      /\ Announces(conn[c]) /\ Writes(k) /\ k.key = NULL /\ k.entry = e
      /\ e \in Queue!Address /\ e \notin Owned
      /\ k.remaining = total_size - HeaderSize
      /\ Owned' = Owned \union {e}
      /\ size' = [size EXCEPT ![e] = total_size]
      /\ locks' = [locks EXCEPT ![e] = 0]
  BY <1>0 DEF Granted, Values
<1>3. /\ \A a \in Queue!Address \ {e} : size'[a] = size[a] /\ locks'[a] = locks[a]
      /\ size'[e] = total_size /\ locks'[e] = 0
  BY <1>2 DEF QueueInv, Queue!TypeOK
<1>4. Owned \subseteq Queue!Address
  BY OwnedAddresses
<1>5. \A a : Keyed(a) => Keyed(a)'
  BY <1>2, <1>3, <1>4 DEF Keyed
<1>6. k.remaining > 0 => Keyed(e)'
  <2>1. /\ total_size \in Int /\ HeaderSize \in Int
        /\ total_size - HeaderSize \in 0 .. 2
    BY QueueAssumption DEF QueueInv, Queue!TypeOK, Queue!MemoryQueueAssumption
  <2>2. total_size - HeaderSize > 0 => total_size - HeaderSize - 1 \in 0 .. 1
    BY <2>1
  <2> QED
    BY <1>2, <1>3, <2>2 DEF Keyed
<1>7. ~k.locked /\ ~conn[c].locked
  BY <1>1, <1>2 DEF DataInv, LocalInv, Local, Writes, Announces, SendingStates
<1>8. MapInv'
  <2>1. ASSUME NEW j \in Key PROVE Holds(j)'
    BY <1>2, <1>5 DEF DataInv, MapInv, Holds
  <2> QED
    BY <1>2, <2>1 DEF DataInv, MapInv
<1>9. ReadersInv'
  <2>1. \A d \in Conn : conn[d].locked => conn[d].entry \in Owned
    BY DEF DataInv, ReadersInv, Keyed
  <2> QED
    BY <1>1, <1>2, <1>5, <1>7, <2>1 DEF DataInv, ReadersInv
<1>10. WritersInv'
  <2>1. \A j \in Key : buckets[j] # <<e>>
    BY <1>2, BucketFacts DEF DataInv
  <2>2. \A d \in Conn : Writes(conn[d]) \/ conn[d].locked => conn[d].entry # e
    BY <1>2 DEF DataInv, WritersInv, ReadersInv, Keyed
  <2> QED
    BY <1>1, <1>2, <1>5, <1>6, <1>7, <2>1, <2>2 DEF DataInv, WritersInv
<1>11. LocksInv'
  <2>1. \A a \in Queue!Address : Readers(a)' = Readers(a)
    BY <1>1, <1>7 DEF Readers
  <2>2. Readers(e) = {}
    BY <1>2 DEF DataInv, ReadersInv, Readers, Keyed
  <2>3. IsFiniteSet(Readers(e)) /\ Cardinality(Readers(e)) = 0
    BY <2>2, FS_EmptySet
  <2>4. ASSUME NEW a \in Queue!Address
        PROVE  IsFiniteSet(Readers(a)') /\ locks'[a] = Cardinality(Readers(a)')
    <3>1. CASE a = e
      BY <1>3, <2>1, <2>3, <3>1
    <3>2. CASE a # e
      BY <1>3, <2>1, <3>2 DEF DataInv, LocksInv
    <3> QED
      BY <3>1, <3>2
  <2> QED
    BY <2>4 DEF LocksInv
<1> QED
  BY <1>1, <1>8, <1>9, <1>10, <1>11 DEF DataInv

LEMMA IdleKeepsData ==
  ASSUME DataInv, UNCHANGED <<conn, mapVars, size, locks, fifo>>
  PROVE  DataInv'
<1>1. UNCHANGED <<buckets, key_bytes, value_bytes, store>>
  BY DEF mapVars
<1>2. Owned' = Owned /\ \A a : Keyed(a)' <=> Keyed(a)
  BY SameEntries
<1>3. LocalInv' /\ MapInv' /\ ReadersInv' /\ WritersInv'
  BY <1>1, <1>2 DEF DataInv, LocalInv, MapInv, Holds, ReadersInv, WritersInv
<1>4. LocksInv'
  BY SameReaders DEF DataInv, Readers
<1> QED
  BY <1>3, <1>4 DEF DataInv

LEMMA InitEstablishesData == Init => DataInv
<1> SUFFICES ASSUME Init PROVE DataInv
  OBVIOUS
<1>1. /\ conn = [c \in Conn |-> Closed] /\ fifo = << >>
      /\ buckets = [k \in Key |-> << >>] /\ store = [k \in Key |-> NULL]
      /\ key_bytes = [a \in Queue!Address |-> NULL]
      /\ value_bytes = [a \in Queue!Address |-> NULL]
      /\ locks = [a \in Queue!Address |-> 0]
  BY DEF Init, LoopInit, Queue!Init
<1>2. Local(Closed) /\ ~Closed.locked /\ Closed.state = "CLOSED"
  BY DEF Local, Closed, NewRequest, States, Entry, SendingStates
<1>3. LocalInv
  BY <1>1, <1>2 DEF LocalInv
<1>4. MapInv
  BY <1>1 DEF MapInv, Holds
<1>5. ReadersInv /\ WritersInv
  BY <1>1, <1>2 DEF ReadersInv, WritersInv, Writes
<1>6. LocksInv
  <2>1. \A a \in Queue!Address : Readers(a) = {}
    BY <1>1, <1>2 DEF Readers
  <2> QED
    BY <1>1, <2>1, FS_EmptySet DEF LocksInv
<1> QED
  BY <1>3, <1>4, <1>5, <1>6 DEF DataInv

-----------------------------------------------------------------------------
(* Every handler of connection.c, with room in the buffer, is such a turn.  *)

(* The budget of PUTs: one is spent when it is announced.                   *)
Spends(c, k) ==
  \/ puts' = puts /\ (Announces(k) => Announces(conn[c]))
  \/ puts' = puts + 1 /\ puts < MaxPuts

Settled == UNCHANGED <<pc, read_index, write_index, size, fifo>>

Turned(c, k) ==
  /\ Effect(c, k) /\ Spends(c, k) /\ Settled
  /\ UNCHANGED queueVars \/ Queue!Next

Fields == {"state", "type", "remaining", "entry", "keep_alive", "allocated",
           "locked", "event", "request", "key", "expected"}

LEMMA FieldsOfRequests ==
  /\ DOMAIN NewRequest = Fields
  /\ Local(NewRequest) /\ Local(Closed)
  /\ NewRequest.state = "RECEIVING_HEADER" /\ Closed.state = "CLOSED"
  /\ NewRequest.request = "NONE" /\ NewRequest.key = NULL
  /\ ~NewRequest.locked /\ ~Closed.locked
  BY DEF NewRequest, Closed, Fields, Local, States, Entry, SendingStates,
         ReceivingStates

LEMMA HeaderSent ==
  ASSUME NEW l, DOMAIN l = Fields, NEW type, NEW h, h = SendHeader(l, type)
  PROVE  /\ DOMAIN h = Fields /\ h.state = "SENDING_HEADER" /\ h.type = type
         /\ h.remaining = 1 /\ h.entry = l.entry /\ h.locked = l.locked
         /\ h.request = l.request /\ h.key = l.key /\ h.expected = l.expected
  BY DEF SendHeader, Fields

LEMMA NotLocked == \A k : k.locked = FALSE => k.locked \in BOOLEAN /\ ~k.locked
  OBVIOUS

LEMMA TurnFacts ==
  ASSUME DataInv, NEW c \in Conn, NEW s, Turn(c, s)
  PROVE  /\ Local(conn[c]) /\ DOMAIN conn[c] = Fields
         /\ conn[c].state = s /\ pc = "idle"
  BY FieldsOfRequests DEF DataInv, LocalInv, Local, Turn

LEMMA Returned ==
  ASSUME NEW c, NEW k, NEW r, Return(c, k, r)
  PROVE  IF r = "DISCONNECT" THEN Becomes(c, Closed) ELSE Becomes(c, k)
  BY DEF Return, Becomes

LEMMA Finished ==
  ASSUME NEW c, NEW k, FinishRequest(c, k)
  PROVE  \E l \in {NewRequest, Closed} : Becomes(c, l)
  BY Returned DEF FinishRequest

LEMMA StaysSettled ==
  /\ UNCHANGED queueVars => Settled /\ UNCHANGED locks
  /\ \A a, b : Queue!SetActive(a, b) => Settled /\ UNCHANGED locks
  /\ \A a : Queue!AcquireLock(a) => Settled
  /\ \A a : ReleaseLock(a) => Settled
  /\ \A n : Queue!AllocateOversized(n) => Settled /\ UNCHANGED locks
  BY DEF queueVars, Settled, Queue!SetActive, Queue!AcquireLock, ReleaseLock,
         Queue!AllocateOversized, Queue!context, Queue!headers

(* A turn after which the connection is as it was, or a new or closed one.  *)
LEMMA QuietTurns ==
  ASSUME DataInv, NEW c \in Conn, UNCHANGED <<mapVars, puts, queueVars>>
  PROVE  /\ Becomes(c, conn[c]) => Turned(c, conn[c])
         /\ ~conn[c].locked => \A l \in {NewRequest, Closed} :
              Becomes(c, l) => Turned(c, l)
<1>1. Settled /\ UNCHANGED <<mapVars, puts, locks>> /\ UNCHANGED queueVars
  BY StaysSettled
<1>2. Local(conn[c])
  BY DEF DataInv, LocalInv
<1>3. Told(conn[c], conn[c])
  BY DEF Told
<1>4. ASSUME Becomes(c, conn[c]) PROVE Turned(c, conn[c])
  BY <1>1, <1>2, <1>3, <1>4 DEF Turned, Effect, Quiet, Spends
<1>5. ASSUME ~conn[c].locked, NEW l \in {NewRequest, Closed}, Becomes(c, l)
      PROVE  Turned(c, l)
  <2>1. /\ Local(l) /\ ~l.locked /\ l.state \notin SendingStates
        /\ ~Writes(l) /\ ~Announces(l)
    BY FieldsOfRequests DEF SendingStates, Writes, Announces
  <2>2. l.locked = conn[c].locked
    BY <1>2, <1>5, <2>1 DEF Local
  <2> QED
    BY <1>1, <1>5, <2>1, <2>2 DEF Turned, Effect, Quiet, Told, Spends
<1> QED
  BY <1>4, <1>5

LEMMA NoTransferTurns ==
  ASSUME DataInv, NEW c \in Conn, NoTransfer(c)
  PROVE  \E k : Turned(c, k)
  BY Returned, QuietTurns DEF NoTransfer

LEMMA PartialPutBodyTurns ==
  ASSUME QueueInv, DataInv, NEW c \in Conn, PartialPutBody(c),
         UNCHANGED <<buckets, store, puts, queueVars>>
  PROVE  Turned(c, conn[c])
<1>1. /\ Local(conn[c]) /\ conn[c].state = "RECEIVING_BODY"
      /\ conn[c].type = "PUT" /\ conn[c].remaining > 0
      /\ Becomes(c, conn[c]) /\ Settled /\ UNCHANGED locks
  BY TurnFacts, Returned, StaysSettled DEF PartialPutBody, Moves
<1>2. Writes(conn[c]) /\ ~Announces(conn[c])
  BY <1>1 DEF Writes, Announces
<1>3. PICK a : a = conn[c].entry
  OBVIOUS
<1>4. /\ a \in Queue!Address
      /\ conn[c].key # NULL => key_bytes[a] = conn[c].key
      /\ conn[c].key \in Key \union {NULL}
  BY <1>1, <1>2, <1>3, WrittenAlone DEF DataInv, WritersInv, Local
<1>5. /\ key_bytes \in [Queue!Address -> Key \union {NULL, Torn}]
      /\ value_bytes \in [Queue!Address -> Values]
  BY DEF DataInv, MapInv, Values
<1>6. CASE /\ conn[c].key = NULL
           /\ key_bytes' = [key_bytes EXCEPT ![a] = NULL] /\ UNCHANGED value_bytes
  <2>1. value_bytes' = [value_bytes EXCEPT ![a] = value_bytes[a]]
    BY <1>5, <1>6
  <2>2. value_bytes[a] \in Values
    BY <1>4, <1>5
  <2> QED
    BY <1>1, <1>2, <1>3, <1>6, <2>1, <2>2 DEF Turned, Effect, Fills, Spends
<1>7. CASE /\ conn[c].key # NULL
           /\ value_bytes' = [value_bytes EXCEPT ![a] = NULL] /\ UNCHANGED key_bytes
  <2>1. key_bytes' = [key_bytes EXCEPT ![a] = conn[c].key]
    BY <1>4, <1>5, <1>7
  <2>2. NULL \in Values
    BY DEF Values
  <2> QED
    BY <1>1, <1>2, <1>3, <1>4, <1>7, <2>1, <2>2 DEF Turned, Effect, Fills, Spends
<1> QED
  BY <1>3, <1>6, <1>7 DEF PartialPutBody

LEMMA PartialTransferTurns ==
  ASSUME QueueInv, DataInv, NEW c \in Conn, PartialTransfer(c)
  PROVE  \E k : Turned(c, k)
<1> DEFINE k == [conn[c] EXCEPT !.remaining = 1]
<1>1. UNCHANGED <<buckets, store, puts, queueVars>>
  BY DEF PartialTransfer
<1>2. \/ /\ Moves(c, "RECEIVING_HEADER") /\ Becomes(c, k)
         /\ UNCHANGED <<key_bytes, value_bytes>>
      \/ Becomes(c, conn[c]) /\ UNCHANGED <<key_bytes, value_bytes>>
      \/ PartialPutBody(c)
  BY Returned DEF PartialTransfer
<1>3. ASSUME Moves(c, "RECEIVING_HEADER"), Becomes(c, k),
             UNCHANGED <<key_bytes, value_bytes>>
      PROVE  Turned(c, k)
  <2>1. /\ Local(conn[c]) /\ DOMAIN conn[c] = Fields
        /\ conn[c].state = "RECEIVING_HEADER"
    BY <1>3, TurnFacts DEF Moves
  <2>2. /\ DOMAIN k = Fields /\ k.state = conn[c].state /\ k.type = conn[c].type
        /\ k.remaining = 1 /\ k.entry = conn[c].entry /\ k.key = conn[c].key
        /\ k.locked = conn[c].locked /\ k.request = conn[c].request
        /\ k.expected = conn[c].expected
    BY <2>1 DEF Fields
  <2> HIDE DEF k
  <2>3. /\ Local(k) /\ k.state \notin SendingStates /\ ~Writes(k) /\ ~Announces(k)
    BY <2>1, <2>2 DEF Local, SendingStates, Writes, Announces
  <2> QED
    BY <1>1, <1>3, <2>2, <2>3, StaysSettled
       DEF Turned, Effect, Quiet, Told, Spends, mapVars
<1> QED
  BY <1>1, <1>2, <1>3, QuietTurns, PartialPutBodyTurns DEF mapVars

(* A request that is answered without being looked at.                      *)
LEMMA RefusedTurns ==
  ASSUME DataInv, NEW c \in Conn, NEW l, DOMAIN l = Fields,
         Asks(conn[c]), ~conn[c].locked, l.locked = conn[c].locked,
         l.entry \in Entry, l.key \in Key \union {NULL}, NEW type,
         type \notin {"VALUE", "NOT_FOUND"},
         \E r \in Seen!Refusals : l.request = r[1] /\ type = r[2],
         Becomes(c, SendHeader(l, type)),
         UNCHANGED <<mapVars, locks>>
  PROVE  /\ Effect(c, SendHeader(l, type))
         /\ ~Announces(SendHeader(l, type))
<1> DEFINE k == SendHeader(l, type)
<1>1. /\ DOMAIN k = Fields /\ k.state = "SENDING_HEADER" /\ k.type = type
      /\ k.remaining = 1 /\ k.entry = l.entry /\ k.locked = l.locked
      /\ k.request = l.request /\ k.key = l.key /\ k.expected = l.expected
  BY HeaderSent
<1>2. ~conn[c].locked /\ conn[c].locked \in BOOLEAN /\ Becomes(c, k)
  BY DEF DataInv, LocalInv, Local
<1> HIDE DEF k
<1>3. Local(k) /\ ~Writes(k) /\ ~Announces(k)
  BY <1>1, <1>2, FieldsOfRequests
     DEF Local, States, SendingStates, Writes, Announces
<1>4. Refused(k)
  BY <1>1, <1>2 DEF Refused, SendingStates
<1> QED
  BY <1>1, <1>2, <1>3, <1>4 DEF Effect, Quiet, Told, k

LEMMA ReceiveHeaderTurns ==
  ASSUME DataInv, NEW c \in Conn, ReceiveHeader(c)
  PROVE  \E k : Turned(c, k)
<1>1. /\ Local(conn[c]) /\ conn[c].state = "RECEIVING_HEADER"
      /\ UNCHANGED <<mapVars, queueVars, locks>> /\ Settled
  BY TurnFacts, StaysSettled DEF ReceiveHeader, Moves
<1>2. PICK type \in RequestTypes, keep \in BOOLEAN :
        /\ type = "PUT" => puts < MaxPuts
        /\ puts' = IF type = "PUT" THEN puts + 1 ELSE puts
        /\ Return(c, HeaderReceived(type, keep), "SUCCESS")
  BY DEF ReceiveHeader
<1> DEFINE k == HeaderReceived(type, keep)
           m == [NewRequest EXCEPT !.type = type, !.request = type,
                                   !.keep_alive = keep]
<1>3. Becomes(c, k)
  BY <1>2, Returned
<1>4. /\ DOMAIN m = Fields /\ m.request = type /\ m.type = type
      /\ ~m.locked /\ m.locked = FALSE /\ m.key = NULL /\ m.entry = NULL
      /\ m.expected = NULL
  BY DEF NewRequest, Fields
<1>5. ~conn[c].locked /\ conn[c].locked = FALSE /\ Asks(conn[c])
  BY <1>1 DEF Local, Asks, SendingStates
<1>6. NULL \in Entry /\ NewRequest.entry = NULL /\ NewRequest.locked = FALSE
  BY DEF Entry, NewRequest
<1>7. /\ <<"PING", "PONG">> \in Seen!Refusals
      /\ <<"UNKNOWN", "UNKNOWN_REQUEST">> \in Seen!Refusals
      /\ <<"NONE", "UNSUPPORTED_VERSION">> \in Seen!Refusals
  BY DEF Seen!Refusals
<1>8. CASE type = "BAD_VERSION"
  <2>1. k = SendHeader(NewRequest, "UNSUPPORTED_VERSION")
    BY <1>8 DEF HeaderReceived
  <2> HIDE DEF k
  <2>2. \E r \in Seen!Refusals : NewRequest.request = r[1] /\ "UNSUPPORTED_VERSION" = r[2]
    BY <1>7, FieldsOfRequests
  <2>3. Effect(c, k) /\ ~Announces(k)
    BY <1>1, <1>3, <1>5, <1>6, <2>1, <2>2, FieldsOfRequests, RefusedTurns
  <2>4. puts' = puts
    BY <1>2, <1>8
  <2> QED
    BY <1>1, <2>3, <2>4 DEF Turned, Spends
<1>9. CASE type = "PING"
  <2>1. k = SendHeader(m, "PONG")
    BY <1>9 DEF HeaderReceived
  <2> HIDE DEF k, m
  <2>2. \E r \in Seen!Refusals : m.request = r[1] /\ "PONG" = r[2]
    BY <1>4, <1>7, <1>9
  <2>3. Effect(c, k) /\ ~Announces(k)
    BY <1>1, <1>3, <1>4, <1>5, <1>6, <2>1, <2>2, RefusedTurns
  <2>4. puts' = puts
    BY <1>2, <1>9
  <2> QED
    BY <1>1, <2>3, <2>4 DEF Turned, Spends
<1>10. CASE type = "UNKNOWN"
  <2>1. k = SendHeader(m, "UNKNOWN_REQUEST")
    BY <1>10 DEF HeaderReceived
  <2> HIDE DEF k, m
  <2>2. \E r \in Seen!Refusals : m.request = r[1] /\ "UNKNOWN_REQUEST" = r[2]
    BY <1>4, <1>7, <1>10
  <2>3. Effect(c, k) /\ ~Announces(k)
    BY <1>1, <1>3, <1>4, <1>5, <1>6, <2>1, <2>2, RefusedTurns
  <2>4. puts' = puts
    BY <1>2, <1>10
  <2> QED
    BY <1>1, <2>3, <2>4 DEF Turned, Spends
<1>11. CASE type \in {"GET", "PUT", "DELETE"}
  <2>1. k = [m EXCEPT !.state = "RECEIVING_ARGUMENTS", !.remaining = 1]
    BY <1>11 DEF HeaderReceived
  <2> HIDE DEF k
  <2>2. /\ DOMAIN k = Fields /\ k.state = "RECEIVING_ARGUMENTS"
        /\ k.remaining = 1 /\ k.type = type /\ k.request = type
        /\ k.locked = FALSE /\ k.key = NULL /\ k.entry = NULL
    <3> HIDE DEF m
    <3> QED
      BY <1>4, <2>1 DEF Fields
  <2>3. /\ ~Writes(k) /\ k.state \notin SendingStates
        /\ Announces(k) => type = "PUT"
    BY <2>2 DEF SendingStates, Writes, Announces
  <2>6. k.type \in {"GET", "PUT", "DELETE"} /\ k.request = k.type /\ k.entry \in Entry
    BY <1>6, <1>11, <2>2
  <2>7. Local(k)
    <3>1. DOMAIN k = DOMAIN NewRequest
      BY <2>2, FieldsOfRequests
    <3>2. k.state \in States /\ k.state \notin SendingStates
      BY <2>2 DEF States, ReceivingStates, SendingStates
    <3>3. k.remaining \in 0 .. 2 /\ k.key \in Key \union {NULL} /\ k.key = NULL
      BY <2>2
    <3>4. k.locked \in BOOLEAN /\ ~k.locked
      BY <2>2
    <3>5. k.type # "NOT_FOUND"
      BY <2>6
    <3> QED
      BY <2>2, <2>6, <3>1, <3>2, <3>3, <3>4, <3>5 DEF Local, SendingStates
  <2>4. Effect(c, k)
    BY <1>1, <1>3, <1>5, <2>2, <2>3, <2>7 DEF Effect, Quiet, Told
  <2>5. Spends(c, k)
    BY <1>2, <2>3 DEF Spends
  <2> QED
    BY <1>1, <2>4, <2>5 DEF Turned
<1> QED
  BY <1>8, <1>9, <1>10, <1>11, ConnectionAssumption

LEMMA ReceiveKeyArgumentsTurns ==
  ASSUME DataInv, NEW c \in Conn, ReceiveKeyArguments(c)
  PROVE  \E k : Turned(c, k)
<1>1. /\ Local(conn[c]) /\ DOMAIN conn[c] = Fields
      /\ conn[c].state = "RECEIVING_ARGUMENTS"
      /\ UNCHANGED <<mapVars, puts, queueVars, locks>> /\ Settled
      /\ conn[c].type \in {"GET", "DELETE"}
  BY TurnFacts, StaysSettled DEF ReceiveKeyArguments, Moves
<1>2. /\ conn[c].request = conn[c].type /\ conn[c].locked = FALSE
      /\ conn[c].key = NULL /\ conn[c].entry \in Entry /\ Asks(conn[c])
  BY <1>1 DEF Local, Asks, SendingStates
<1>3. PICK key_size \in KeySizes :
        \/ Return(c, SendHeader(conn[c], "OUT_OF_MEMORY"), "SUCCESS")
        \/ Return(c, [conn[c] EXCEPT !.state = "RECEIVING_BODY", !.entry = Heap,
                                     !.remaining = key_size, !.allocated = TRUE],
                  "SUCCESS")
  BY DEF ReceiveKeyArguments
<1>4. CASE Return(c, SendHeader(conn[c], "OUT_OF_MEMORY"), "SUCCESS")
  <2>1. <<conn[c].type, "OUT_OF_MEMORY">> \in Seen!Refusals
    BY <1>1 DEF Seen!Refusals
  <2>2. \E r \in Seen!Refusals :
          conn[c].request = r[1] /\ "OUT_OF_MEMORY" = r[2]
    BY <1>2, <2>1
  <2>3. Becomes(c, SendHeader(conn[c], "OUT_OF_MEMORY"))
    BY <1>4, Returned
  <2>4. /\ Effect(c, SendHeader(conn[c], "OUT_OF_MEMORY"))
        /\ ~Announces(SendHeader(conn[c], "OUT_OF_MEMORY"))
    BY <1>1, <1>2, <2>2, <2>3, RefusedTurns
  <2> QED
    BY <1>1, <2>4 DEF Turned, Spends
<1>5. CASE Return(c, [conn[c] EXCEPT !.state = "RECEIVING_BODY", !.entry = Heap,
                                     !.remaining = key_size, !.allocated = TRUE],
                  "SUCCESS")
  <2> DEFINE k == [conn[c] EXCEPT !.state = "RECEIVING_BODY", !.entry = Heap,
                                  !.remaining = key_size, !.allocated = TRUE]
  <2>1. Becomes(c, k)
    BY <1>5, Returned
  <2>2. /\ DOMAIN k = Fields /\ k.state = "RECEIVING_BODY" /\ k.entry = Heap
        /\ k.remaining = key_size /\ k.type = conn[c].type
        /\ k.request = conn[c].type /\ k.locked = FALSE /\ k.key = NULL
    BY <1>1, <1>2 DEF Fields
  <2> HIDE DEF k
  <2>3. k.remaining \in 0 .. 2 /\ k.entry \in Entry
    BY <2>2, ConnectionAssumption DEF Entry
  <2>4. /\ Local(k) /\ ~Writes(k) /\ k.state \notin SendingStates /\ ~Announces(k)
    BY <1>1, <2>2, <2>3, FieldsOfRequests
       DEF Local, States, ReceivingStates, SendingStates, Writes, Announces
  <2>5. Effect(c, k)
    BY <1>1, <1>2, <2>1, <2>2, <2>4 DEF Effect, Quiet, Told
  <2> QED
    BY <1>1, <2>4, <2>5 DEF Turned, Spends
<1> QED
  BY <1>3, <1>4, <1>5

LEMMA OversizedTurns ==
  ASSUME DataInv, NEW c \in Conn, Moves(c, "RECEIVING_ARGUMENTS"),
         conn[c].type = "PUT", NEW p \in PayloadSizes,
         Queue!AllocateOversized(Queue!TotalSize(p)),
         Return(c, SendHeader(conn[c], "OUT_OF_MEMORY"), "SUCCESS"),
         UNCHANGED <<mapVars, puts>>
  PROVE  \E k : Turned(c, k)
<1>1. /\ Local(conn[c]) /\ DOMAIN conn[c] = Fields
      /\ conn[c].state = "RECEIVING_ARGUMENTS"
      /\ UNCHANGED <<mapVars, puts, locks>> /\ Settled
  BY TurnFacts, StaysSettled DEF Moves
<1>2. /\ conn[c].request = "PUT" /\ conn[c].locked = FALSE
      /\ conn[c].key = NULL /\ conn[c].entry \in Entry /\ Asks(conn[c])
  BY <1>1 DEF Local, Asks, SendingStates
<1>3. <<"PUT", "OUT_OF_MEMORY">> \in Seen!Refusals
  BY DEF Seen!Refusals
<1>4. \E r \in Seen!Refusals : conn[c].request = r[1] /\ "OUT_OF_MEMORY" = r[2]
  BY <1>2, <1>3
<1>5. Becomes(c, SendHeader(conn[c], "OUT_OF_MEMORY"))
  BY Returned
<1>6. /\ Effect(c, SendHeader(conn[c], "OUT_OF_MEMORY"))
      /\ ~Announces(SendHeader(conn[c], "OUT_OF_MEMORY"))
  BY <1>1, <1>2, <1>4, <1>5, RefusedTurns
<1>7. Queue!Next
  BY DEF Queue!Next, Queue!Allocate
<1> QED
  BY <1>1, <1>6, <1>7 DEF Turned, Spends

(* What a probe finds: the one entry under its key.                         *)
LEMMA HitsOfOne ==
  ASSUME NEW k \in Key, NEW bytes,
         \/ buckets[k] = << >>
         \/ \E b : buckets[k] = <<b>> /\ bytes[b] = k /\ size[b] > HeaderSize
  PROVE  /\ buckets[k] = << >> => Hits(k, bytes) = {}
         /\ \A b : buckets[k] = <<b>> => Hits(k, bytes) = {1} /\ buckets[k][1] = b
<1>1. \A b : DOMAIN <<b>> = {1} /\ <<b>>[1] = b
  OBVIOUS
<1>2. DOMAIN << >> = {}
  OBVIOUS
<1>3. \A a, b : <<a>> = <<b>> => a = b
  OBVIOUS
<1> QED
  BY <1>1, <1>2, <1>3 DEF Hits

(* Whoever has a key has bytes behind its header.                           *)
LEMMA KeyedIsLonger ==
  ASSUME QueueInv, NEW a, Keyed(a)
  PROVE  size[a] > HeaderSize
<1>1. a \in Queue!Address /\ size[a] - HeaderSize - 1 \in 0 .. 1
  BY OwnedAddresses DEF Keyed
<1>2. Capacity \in Nat /\ HeaderSize \in Nat /\ size[a] \in 0 .. Capacity
  BY <1>1, QueueAssumption DEF QueueInv, Queue!TypeOK, Queue!MemoryQueueAssumption
<1> QED
  BY <1>1, <1>2

LEMMA MapFacts ==
  ASSUME QueueInv, MapInv, NEW k \in Key
  PROVE  /\ \/ buckets[k] = << >>
            \/ \E b : buckets[k] = <<b>> /\ key_bytes[b] = k /\ size[b] > HeaderSize
         /\ buckets[k] = << >> => store[k] = NULL
<1>1. Holds(k)
  BY DEF MapInv
<1>2. \A b : <<b>> # << >>
  OBVIOUS
<1> QED
  BY <1>1, <1>2, KeyedIsLonger DEF Holds

LEMMA ReceiveGetBodyTurns ==
  ASSUME QueueInv, DataInv, NEW c \in Conn, ReceiveGetBody(c)
  PROVE  \E l : Turned(c, l)
<1>1. /\ Local(conn[c]) /\ DOMAIN conn[c] = Fields
      /\ conn[c].state = "RECEIVING_BODY" /\ pc = "idle"
      /\ UNCHANGED <<mapVars, puts>> /\ conn[c].type = "GET"
  BY TurnFacts DEF ReceiveGetBody, Moves
<1>2. /\ conn[c].request = "GET" /\ conn[c].locked = FALSE
      /\ Asks(conn[c]) /\ conn[c].remaining \in 0 .. 2
  BY <1>1 DEF Local, Asks, SendingStates
<1>3. PICK k \in Key : \E a \in MapGet(k) : GetBody(c, k, a)
  BY DEF ReceiveGetBody
<1>4. PICK a \in MapGet(k) : GetBody(c, k, a)
  BY <1>3
<1>5. \/ a = NULL /\ store[k] = NULL
      \/ buckets[k] = <<a>>
  BY <1>4, MapFacts, HitsOfOne DEF DataInv, MapGet
<1>6. buckets[k] = <<a>> =>
        /\ a \in Owned /\ a \in Queue!Address /\ a # NULL /\ store[k] # NULL
        /\ a \in Entry
  BY BucketFacts, OwnedAddresses, ConnectionAssumption
     DEF DataInv, Queue!Address, Entry
<1>7. a \in Entry
  BY <1>5, <1>6 DEF Entry
<1> DEFINE got == [conn[c] EXCEPT !.entry = a, !.allocated = FALSE, !.key = k,
                                  !.expected = store[k]]
           held == [got EXCEPT !.locked = TRUE]
           waits == [got EXCEPT !.state = "AWAITING_READ_UNBLOCK",
                                !.remaining = 0]
<1>8. /\ DOMAIN got = Fields /\ got.entry = a /\ got.key = k
      /\ got.expected = store[k] /\ got.locked = FALSE /\ got.request = "GET"
      /\ got.type = "GET"
  BY <1>1, <1>2 DEF Fields
<1>9. IF a = NULL
      THEN Return(c, SendHeader(got, "NOT_FOUND"), "SUCCESS") /\ UNCHANGED queueVars
      ELSE \/ Return(c, waits, "READ_BLOCKED") /\ UNCHANGED queueVars
           \/ Return(c, SendHeader(held, "VALUE"), "SUCCESS") /\ Queue!AcquireLock(a)
  BY <1>4 DEF GetBody
<1>10. CASE a = NULL
  <2> DEFINE l == SendHeader(got, "NOT_FOUND")
  <2>1. /\ DOMAIN l = Fields /\ l.state = "SENDING_HEADER" /\ l.type = "NOT_FOUND"
        /\ l.remaining = 1 /\ l.entry = a /\ l.locked = FALSE
        /\ l.request = "GET" /\ l.key = k /\ l.expected = store[k]
    <3> HIDE DEF got
    <3> QED
      BY <1>8, HeaderSent
  <2>2. Becomes(c, l) /\ UNCHANGED queueVars
    BY <1>9, <1>10, Returned
  <2>3. store[k] = NULL
    BY <1>5, <1>6, <1>10
  <2> HIDE DEF l
  <2>4. ~Writes(l) /\ ~Announces(l) /\ l.state \in SendingStates
    BY <2>1 DEF Writes, Announces, SendingStates
  <2>5. Local(l)
    BY <1>7, <2>1, <2>3, FieldsOfRequests, NotLocked DEF Local, States, SendingStates
  <2>6. NotFound(l)
    BY <2>1, <2>3, <2>4 DEF NotFound
  <2> QED
    BY <1>1, <1>2, <2>1, <2>2, <2>4, <2>5, <2>6, StaysSettled
       DEF Turned, Effect, Quiet, Told, Spends
<1>11. CASE /\ a # NULL /\ Return(c, waits, "READ_BLOCKED") /\ UNCHANGED queueVars
  <2>1. Becomes(c, waits)
    BY <1>11, Returned
  <2>2. /\ DOMAIN waits = Fields /\ waits.state = "AWAITING_READ_UNBLOCK"
        /\ waits.remaining = 0 /\ waits.locked = FALSE /\ waits.entry = a
        /\ waits.key = k /\ waits.type = "GET"
    <3> HIDE DEF got
    <3> QED
      BY <1>8 DEF Fields
  <2> HIDE DEF waits
  <2>3. /\ Local(waits) /\ ~Writes(waits) /\ ~Announces(waits)
        /\ waits.state \notin SendingStates
    BY <1>7, <2>2, FieldsOfRequests, NotLocked
       DEF Local, States, AwaitingStates, SendingStates, Writes, Announces
  <2> QED
    BY <1>1, <1>2, <1>11, <2>1, <2>2, <2>3, StaysSettled
       DEF Turned, Effect, Quiet, Told, Spends
<1>12. CASE /\ a # NULL
            /\ Return(c, SendHeader(held, "VALUE"), "SUCCESS")
            /\ Queue!AcquireLock(a)
  <2> DEFINE l == SendHeader(held, "VALUE")
  <2>1. /\ DOMAIN held = Fields /\ held.entry = a /\ held.key = k
        /\ held.expected = store[k] /\ held.locked = TRUE /\ held.request = "GET"
    <3> HIDE DEF got
    <3> QED
      BY <1>8 DEF Fields
  <2>2. /\ DOMAIN l = Fields /\ l.state = "SENDING_HEADER" /\ l.type = "VALUE"
        /\ l.remaining = 1 /\ l.entry = a /\ l.locked = TRUE
        /\ l.request = "GET" /\ l.key = k /\ l.expected = store[k]
    <3> HIDE DEF held
    <3> QED
      BY <2>1, HeaderSent
  <2>3. Becomes(c, l)
    BY <1>12, Returned
  <2> HIDE DEF l, held, got
  <2>4. buckets[k] = <<a>>
    BY <1>5, <1>12
  <2>5. ~Announces(l) /\ l.state \in SendingStates
    BY <2>2 DEF Announces, SendingStates
  <2>6. Local(l)
    <3>1. l.locked \in BOOLEAN /\ l.locked
      BY <2>2
    <3> QED
      BY <1>6, <1>7, <2>2, <2>4, <3>1, FieldsOfRequests
         DEF Local, States, SendingStates
  <2>7. locks' = [locks EXCEPT ![a] = @ + 1] /\ Settled
    BY <1>12, StaysSettled DEF Queue!AcquireLock, Queue!LockAcquired
  <2>8. Locks(c, l)
    BY <1>1, <1>2, <2>2, <2>4, <2>7 DEF Locks
  <2>9. Queue!Next
    BY <1>1, <1>6, <1>12, <2>4 DEF Queue!Next, Queue!Caller, Owned
  <2> QED
    BY <1>1, <2>3, <2>5, <2>6, <2>7, <2>8, <2>9 DEF Turned, Effect, Spends
<1> QED
  BY <1>9, <1>10, <1>11, <1>12

LEMMA ReceiveDeleteBodyTurns ==
  ASSUME QueueInv, DataInv, NEW c \in Conn, ReceiveDeleteBody(c)
  PROVE  \E l : Turned(c, l)
<1>1. /\ Local(conn[c]) /\ DOMAIN conn[c] = Fields
      /\ conn[c].state = "RECEIVING_BODY" /\ pc = "idle"
      /\ UNCHANGED <<key_bytes, value_bytes, puts>> /\ conn[c].type = "DELETE"
  BY TurnFacts DEF ReceiveDeleteBody, Moves
<1>2. /\ conn[c].request = "DELETE" /\ conn[c].locked = FALSE
      /\ Asks(conn[c]) /\ conn[c].entry \in Entry
  BY <1>1 DEF Local, Asks, SendingStates
<1>3. PICK k \in Key :
        /\ MapDelete(k)
        /\ store' = [store EXCEPT ![k] = NULL]
        /\ Return(c, SendHeader([conn[c] EXCEPT !.key = k], "OK"), "SUCCESS")
  BY DEF ReceiveDeleteBody
<1> DEFINE m == [conn[c] EXCEPT !.key = k]
           l == SendHeader(m, "OK")
<1>4. /\ DOMAIN m = Fields /\ m.key = k /\ m.entry = conn[c].entry
      /\ m.locked = FALSE /\ m.request = "DELETE"
  BY <1>1, <1>2 DEF Fields
<1>5. /\ DOMAIN l = Fields /\ l.state = "SENDING_HEADER" /\ l.type = "OK"
      /\ l.remaining = 1 /\ l.entry = conn[c].entry /\ l.locked = FALSE
      /\ l.request = "DELETE" /\ l.key = k
  <2> HIDE DEF m
  <2> QED
    BY <1>4, HeaderSent
<1>6. Becomes(c, l)
  BY <1>3, Returned
<1> HIDE DEF l, m
<1>7. ~Announces(l) /\ l.state \in SendingStates
  BY <1>5 DEF Announces, SendingStates
<1>8. Local(l)
  BY <1>2, <1>5, FieldsOfRequests, NotLocked DEF Local, States, SendingStates
<1>9. /\ buckets' = [buckets EXCEPT ![k] = << >>]
      /\ Settled /\ UNCHANGED locks
      /\ UNCHANGED queueVars \/ Queue!Next
  <2>1. CASE buckets[k] = << >>
    <3>1. Hits(k, key_bytes) = {}
      BY <2>1, HitsOfOne
    <3>2. UNCHANGED <<buckets, queueVars>>
      BY <1>3, <3>1 DEF MapDelete
    <3>3. buckets = [buckets EXCEPT ![k] = << >>]
      BY <2>1 DEF DataInv, MapInv
    <3> QED
      BY <3>2, <3>3, StaysSettled
  <2>2. ASSUME NEW b, buckets[k] = <<b>>, key_bytes[b] = k, size[b] > HeaderSize
        PROVE  /\ buckets' = [buckets EXCEPT ![k] = << >>]
               /\ Settled /\ UNCHANGED locks /\ Queue!Next
    <3>1. Hits(k, key_bytes) = {1} /\ buckets[k][1] = b
      BY <2>2, HitsOfOne
    <3>2. /\ buckets' = [buckets EXCEPT ![k] = RemoveAt(@, 1)]
          /\ Queue!SetActive(b, FALSE)
      BY <1>3, <3>1 DEF MapDelete
    <3>3. RemoveAt(<<b>>, 1) = << >>
      BY DEF RemoveAt
    <3>4. b \in Owned
      BY <2>2, BucketFacts DEF DataInv
    <3>5. Queue!Next
      BY <1>1, <3>2, <3>4 DEF Queue!Next, Queue!Caller, Owned
    <3> QED
      BY <2>2, <3>2, <3>3, <3>5, StaysSettled
  <2> QED
    BY <2>1, <2>2, MapFacts DEF DataInv
<1>10. Deletes(c, l)
  BY <1>1, <1>2, <1>3, <1>5, <1>7, <1>9 DEF Deletes
<1> QED
  BY <1>1, <1>6, <1>7, <1>8, <1>9, <1>10 DEF Turned, Effect, Spends

LEMMA ReceivePutKeyTurns ==
  ASSUME QueueInv, DataInv, NEW c \in Conn, ReceivePutKey(c)
  PROVE  \E l : Turned(c, l)
<1>1. /\ Local(conn[c]) /\ DOMAIN conn[c] = Fields
      /\ conn[c].state = "RECEIVING_BODY"
      /\ UNCHANGED <<buckets, store, puts, queueVars>>
      /\ conn[c].type = "PUT" /\ conn[c].remaining = 2
      /\ Settled /\ UNCHANGED locks
  BY TurnFacts, StaysSettled DEF ReceivePutKey, Moves
<1>2. PICK k \in Key, v \in {value_bytes[conn[c].entry], NULL} :
        /\ key_bytes' = [key_bytes EXCEPT ![conn[c].entry] = k]
        /\ value_bytes' = [value_bytes EXCEPT ![conn[c].entry] = v]
        /\ Return(c, [conn[c] EXCEPT !.remaining = 1, !.key = k], "SUCCESS")
  BY DEF ReceivePutKey
<1> DEFINE l == [conn[c] EXCEPT !.remaining = 1, !.key = k]
<1>3. Becomes(c, l)
  BY <1>2, Returned
<1>4. /\ DOMAIN l = Fields /\ l.state = "RECEIVING_BODY" /\ l.type = "PUT"
      /\ l.remaining = 1 /\ l.entry = conn[c].entry /\ l.key = k
      /\ l.locked = conn[c].locked /\ l.request = conn[c].request
  BY <1>1 DEF Fields
<1> HIDE DEF l
<1>5. /\ Local(l) /\ Writes(l) /\ Writes(conn[c]) /\ ~Announces(l)
  BY <1>1, <1>4, FieldsOfRequests DEF Local, Writes, Announces, SendingStates
<1>6. v \in Values
  <2>1. conn[c].entry \in Queue!Address
    BY <1>5, WrittenAlone DEF DataInv
  <2> QED
    BY <2>1 DEF DataInv, MapInv, Values
<1>7. Fills(c, l)
  <2>1. \E b \in Key \union {NULL}, w \in Values :
          /\ key_bytes' = [key_bytes EXCEPT ![l.entry] = b]
          /\ value_bytes' = [value_bytes EXCEPT ![l.entry] = w]
          /\ l.key # NULL => l.key = b
    BY <1>2, <1>4, <1>6
  <2>2. conn[c].remaining > 0
    BY <1>1
  <2> QED
    BY <1>1, <1>4, <1>5, <2>1, <2>2 DEF Fills
<1> QED
  BY <1>1, <1>3, <1>5, <1>7 DEF Turned, Effect, Spends

LEMMA ReceivePutBodyTurns ==
  ASSUME QueueInv, DataInv, NEW c \in Conn, ReceivePutBody(c)
  PROVE  \E l : Turned(c, l)
<1>1. /\ Local(conn[c]) /\ DOMAIN conn[c] = Fields
      /\ conn[c].state = "RECEIVING_BODY" /\ pc = "idle"
      /\ UNCHANGED puts
      /\ conn[c].type = "PUT" /\ conn[c].remaining > 0
  BY TurnFacts DEF ReceivePutBody, Moves
<1>2. /\ conn[c].request = "PUT" /\ conn[c].locked = FALSE
      /\ Asks(conn[c]) /\ conn[c].entry \in Entry
  BY <1>1 DEF Local, Asks, SendingStates
<1>3. Writes(conn[c])
  BY <1>1 DEF Writes
<1> DEFINE keyComes == conn[c].key = NULL
           valueComes == keyComes => conn[c].remaining = 2
<1>body. PICK k \in (IF keyComes THEN Key ELSE {conn[c].key}),
           v \in (IF valueComes THEN Value ELSE {Empty}), fails \in HeapFails :
        /\ key_bytes' = IF keyComes
                        THEN [key_bytes EXCEPT ![conn[c].entry] = k] ELSE key_bytes
        /\ value_bytes' = [value_bytes EXCEPT ![conn[c].entry] = v]
        /\ IF fails
           THEN /\ Return(c, SendHeader([conn[c] EXCEPT !.key = k],
                                        "OUT_OF_MEMORY"), "SUCCESS")
                /\ UNCHANGED <<buckets, store, queueVars>>
           ELSE /\ MapPut(conn[c].entry, key_bytes')
                /\ store' = [store EXCEPT ![k] = v]
                /\ Return(c, SendHeader([conn[c] EXCEPT !.key = k], "OK"),
                          "SUCCESS")
  BY DEF ReceivePutBody
<1>0. PICK a : a = conn[c].entry
  OBVIOUS
<1>4. /\ key_bytes' = IF keyComes
                      THEN [key_bytes EXCEPT ![a] = k] ELSE key_bytes
      /\ value_bytes' = [value_bytes EXCEPT ![a] = v]
      /\ IF fails
         THEN /\ Return(c, SendHeader([conn[c] EXCEPT !.key = k],
                                      "OUT_OF_MEMORY"), "SUCCESS")
              /\ UNCHANGED <<buckets, store, queueVars>>
         ELSE /\ MapPut(a, key_bytes')
              /\ store' = [store EXCEPT ![k] = v]
              /\ Return(c, SendHeader([conn[c] EXCEPT !.key = k], "OK"),
                        "SUCCESS")
  BY <1>0, <1>body
<1>5. /\ a \in Owned /\ a \in Queue!Address
      /\ \A j \in Key : buckets[j] # <<a>>
      /\ conn[c].key # NULL => key_bytes[a] = conn[c].key
  BY <1>0, <1>3, WrittenAlone DEF DataInv, WritersInv
<1>6. k \in Key /\ v \in Value \union {Empty}
  BY <1>1, <1>body DEF Local
<1>7. /\ key_bytes \in [Queue!Address -> Key \union {NULL, Torn}]
      /\ key_bytes' = [key_bytes EXCEPT ![a] = k]
  BY <1>4, <1>5 DEF DataInv, MapInv
<1>8. key_bytes'[a] = k /\ \A b : b # a => key_bytes'[b] = key_bytes[b]
  BY <1>5, <1>7
<1> HIDE DEF keyComes, valueComes
<1> DEFINE m == [conn[c] EXCEPT !.key = k]
<1>9. /\ DOMAIN m = Fields /\ m.key = k /\ m.entry = conn[c].entry
      /\ m.locked = FALSE /\ m.request = "PUT"
  BY <1>1, <1>2 DEF Fields
<1>10. ASSUME NEW type \in {"OK", "OUT_OF_MEMORY"}, NEW l, l = SendHeader(m, type)
       PROVE  /\ Local(l) /\ ~Announces(l) /\ l.state \in SendingStates
              /\ l.request = "PUT" /\ l.type = type /\ ~l.locked /\ l.key = k
  <2>1. /\ DOMAIN l = Fields /\ l.state = "SENDING_HEADER" /\ l.type = type
        /\ l.remaining = 1 /\ l.entry = conn[c].entry /\ l.locked = FALSE
        /\ l.request = "PUT" /\ l.key = k
    <3> HIDE DEF m
    <3> QED
      BY <1>9, <1>10, HeaderSent
  <2>2. ~Announces(l) /\ l.state \in SendingStates
    BY <2>1 DEF Announces, SendingStates
  <2>3. l.type # "VALUE" /\ l.type # "NOT_FOUND"
    BY <2>1
  <2>4. Local(l)
    BY <1>2, <1>6, <2>1, <2>3, FieldsOfRequests, NotLocked
       DEF Local, States, SendingStates
  <2> QED
    BY <2>1, <2>2, <2>4, NotLocked
<1>11. CASE /\ Return(c, SendHeader(m, "OUT_OF_MEMORY"), "SUCCESS")
            /\ UNCHANGED <<buckets, store, queueVars>>
  <2> DEFINE l == SendHeader(m, "OUT_OF_MEMORY")
  <2>1. Becomes(c, l)
    BY <1>11, Returned
  <2>2. /\ Local(l) /\ ~Announces(l) /\ l.state \in SendingStates
        /\ l.request = "PUT" /\ l.type = "OUT_OF_MEMORY" /\ ~l.locked /\ l.key = k
    BY <1>10
  <2> HIDE DEF l, m
  <2>3. Settled /\ UNCHANGED locks
    BY <1>11, StaysSettled
  <2>4. Puts(c, l, v)
    BY <1>0, <1>1, <1>3, <1>4, <1>6, <1>7, <1>11, <2>2, <2>3 DEF Puts
  <2> QED
    BY <1>1, <1>6, <1>11, <2>1, <2>2, <2>3, <2>4 DEF Turned, Effect, Spends
<1>12. CASE /\ MapPut(a, key_bytes')
            /\ store' = [store EXCEPT ![k] = v]
            /\ Return(c, SendHeader(m, "OK"), "SUCCESS")
  <2> DEFINE l == SendHeader(m, "OK")
  <2>1. Becomes(c, l)
    BY <1>12, Returned
  <2>2. /\ Local(l) /\ ~Announces(l) /\ l.state \in SendingStates
        /\ l.request = "PUT" /\ l.type = "OK" /\ ~l.locked /\ l.key = k
    BY <1>10
  <2> HIDE DEF l, m
  <2>3. /\ buckets' = [buckets EXCEPT ![k] = <<a>>]
        /\ Settled /\ UNCHANGED locks
        /\ UNCHANGED queueVars \/ Queue!Next
    <3>1. CASE buckets[k] = << >>
      <4>1. Hits(k, key_bytes') = {}
        BY <1>6, <3>1, HitsOfOne
      <4>2. buckets' = [buckets EXCEPT ![k] = Append(@, a)] /\ UNCHANGED queueVars
        BY <1>8, <1>12, <4>1 DEF MapPut
      <4>3. Append(<< >>, a) = <<a>>
        OBVIOUS
      <4> QED
        BY <3>1, <4>2, <4>3, StaysSettled
    <3>2. ASSUME NEW b, buckets[k] = <<b>>, key_bytes[b] = k, size[b] > HeaderSize
          PROVE  /\ buckets' = [buckets EXCEPT ![k] = <<a>>]
                 /\ Settled /\ UNCHANGED locks /\ Queue!Next
      <4>1. b # a /\ b \in Owned
        BY <1>5, <1>6, <3>2, BucketFacts DEF DataInv
      <4>2. Hits(k, key_bytes') = {1} /\ buckets[k][1] = b
        BY <1>6, <1>8, <3>2, <4>1, HitsOfOne
      <4>3. /\ buckets' = [buckets EXCEPT ![k][1] = a]
            /\ Queue!SetActive(b, FALSE)
        BY <1>8, <1>12, <4>2 DEF MapPut
      <4>4. [<<b>> EXCEPT ![1] = a] = <<a>>
        OBVIOUS
      <4>5. Queue!Next
        BY <1>1, <4>1, <4>3 DEF Queue!Next, Queue!Caller, Owned
      <4> QED
        BY <3>2, <4>3, <4>4, <4>5, StaysSettled
    <3> QED
      BY <1>6, <3>1, <3>2, MapFacts DEF DataInv
  <2>4. Puts(c, l, v)
    BY <1>0, <1>1, <1>3, <1>4, <1>6, <1>7, <1>12, <2>2, <2>3 DEF Puts
  <2> QED
    BY <1>1, <1>6, <2>1, <2>2, <2>3, <2>4 DEF Turned, Effect, Spends
<1> QED
  BY <1>4, <1>11, <1>12

LEMMA SendResponseHeaderTurns ==
  ASSUME QueueInv, DataInv, NEW c \in Conn, SendResponseHeader(c)
  PROVE  \E l : Turned(c, l)
<1>1. /\ Local(conn[c]) /\ DOMAIN conn[c] = Fields
      /\ conn[c].state = "SENDING_HEADER"
      /\ UNCHANGED <<mapVars, puts, queueVars, locks>> /\ Settled
  BY TurnFacts, StaysSettled DEF SendResponseHeader, Moves
<1>2. CASE conn[c].type = "VALUE"
  <2> DEFINE l == [conn[c] EXCEPT !.state = "SENDING_BODY",
                                  !.remaining = ValueSize(conn[c].entry)]
  <2>1. Becomes(c, l)
    BY <1>2, Returned DEF SendResponseHeader
  <2>2. /\ DOMAIN l = Fields /\ l.state = "SENDING_BODY" /\ l.type = "VALUE"
        /\ l.remaining = ValueSize(conn[c].entry) /\ l.entry = conn[c].entry
        /\ l.key = conn[c].key /\ l.locked = conn[c].locked
        /\ l.request = conn[c].request /\ l.expected = conn[c].expected
    BY <1>1, <1>2 DEF Fields
  <2> HIDE DEF l
  <2>3. conn[c].locked
    BY <1>1, <1>2 DEF Local, SendingStates
  <2>4. ValueSize(conn[c].entry) \in 0 .. 1
    BY <2>3 DEF DataInv, ReadersInv, Keyed, ValueSize
  <2>5. l.remaining \in 0 .. 2
    BY <2>2, <2>4
  <2>6. Local(l) /\ ~Writes(l) /\ ~Announces(l)
    BY <1>1, <2>2, <2>3, <2>5, FieldsOfRequests
       DEF Local, States, SendingStates, Writes, Announces
  <2>7. Told(conn[c], l)
    BY <1>1, <1>2, <2>2 DEF Told, SendingStates
  <2> QED
    BY <1>1, <2>1, <2>2, <2>6, <2>7 DEF Turned, Effect, Quiet, Spends
<1>3. CASE conn[c].type # "VALUE"
  <2>1. ~conn[c].locked
    BY <1>1, <1>3 DEF Local
  <2>2. \E k : FinishRequest(c, k)
    BY <1>3 DEF SendResponseHeader
  <2>3. \E l \in {NewRequest, Closed} : Becomes(c, l)
    BY <2>2, Finished
  <2> QED
    BY <1>1, <2>1, <2>3, QuietTurns
<1> QED
  BY <1>2, <1>3

(* A lock is released by a reader it has counted.                           *)
LEMMA ReleaseTurns ==
  ASSUME QueueInv, DataInv, NEW c \in Conn, conn[c].locked, pc = "idle",
         NEW l \in {NewRequest, Closed}, Becomes(c, l),
         ReleaseLock(conn[c].entry), UNCHANGED <<mapVars, puts>>
  PROVE  Turned(c, l)
<1>0. PICK a : a = conn[c].entry
  OBVIOUS
<1>1. a \in Owned /\ a \in Queue!Address
  BY <1>0, OwnedAddresses DEF DataInv, ReadersInv, Keyed
<1>2. c \in Readers(a) /\ IsFiniteSet(Readers(a)) /\ locks[a] = Cardinality(Readers(a))
  BY <1>0, <1>1 DEF DataInv, LocksInv, Readers
<1>3. locks[a] # 0
  BY <1>2, FS_EmptySet
<1>4. locks' = [locks EXCEPT ![a] = @ - 1]
  BY <1>0, <1>3 DEF ReleaseLock, LockReleased
<1>5. /\ Local(l) /\ ~l.locked /\ l.state \notin SendingStates
      /\ ~Writes(l) /\ ~Announces(l)
  BY FieldsOfRequests DEF SendingStates, Writes, Announces
<1>6. Unlocks(c, l)
  BY <1>0, <1>4, <1>5 DEF Unlocks
<1>7. Queue!ReleaseLock(a)
  BY <1>0, <1>3 DEF ReleaseLock, Queue!ReleaseLock, Queue!context,
     LockReleased, Queue!LockReleased
<1>8. Queue!Next
  BY <1>1, <1>7 DEF Queue!Next, Queue!Caller, Owned
<1> QED
  BY <1>5, <1>6, <1>8, StaysSettled DEF Turned, Effect, Spends

LEMMA SendValueTurns ==
  ASSUME QueueInv, DataInv, NEW c \in Conn, SendValue(c)
  PROVE  \E l : Turned(c, l)
<1>1. Local(conn[c]) /\ conn[c].state = "SENDING_BODY" /\ pc = "idle"
  BY TurnFacts DEF SendValue, Moves
<1>2. conn[c].locked
  BY <1>1 DEF Local
<1>3. \E k : FinishRequest(c, k)
  BY DEF SendValue
<1>4. PICK l \in {NewRequest, Closed} : Becomes(c, l)
  BY <1>3, Finished
<1> QED
  BY <1>1, <1>2, <1>4, ReleaseTurns DEF SendValue

LEMMA SocketFailsTurns ==
  ASSUME QueueInv, DataInv, NEW c \in Conn, SocketFails(c)
  PROVE  \E l : Turned(c, l)
<1>1. pc = "idle"
  BY DEF SocketFails, Turn
<1>2. Becomes(c, Closed)
  BY Returned DEF SocketFails
<1>3. CASE conn[c].locked
  BY <1>1, <1>2, <1>3, ReleaseTurns DEF SocketFails
<1>4. CASE ~conn[c].locked
  BY <1>2, <1>4, QuietTurns DEF SocketFails
<1> QED
  BY <1>3, <1>4

(* accept_connection *)
LEMMA AcceptTurns ==
  ASSUME DataInv, NEW c \in Conn, AcceptConnection(c)
  PROVE  Turned(c, NewRequest)
<1>1. Local(conn[c]) /\ conn[c].state = "CLOSED"
  BY DEF DataInv, LocalInv, AcceptConnection, Accept, IsOpen
<1>2. ~conn[c].locked
  BY <1>1 DEF Local, SendingStates
<1> QED
  BY <1>2, QuietTurns DEF AcceptConnection, Accept, Becomes

-----------------------------------------------------------------------------
(* A step of the server: a turn, one of the steps of an allocation, or the  *)
(* end of the program.                                                      *)

Begins(c) ==
  /\ pc = "idle" /\ current = c /\ Announces(conn[c])
  /\ \E p \in PayloadSizes : Queue!AllocateBegin(Queue!TotalSize(p))
  /\ UNCHANGED <<loopVars, mapVars, puts>>

Stops == UNCHANGED <<conn, list, order, current, mapVars, puts, queueVars>>

LEMMA ServeTurns ==
  ASSUME QueueInv, DataInv, NEW c \in Conn, Serve(c)
  PROVE  pc = "idle" /\ ((\E k : Turned(c, k)) \/ Begins(c) \/ Stops)
<1>1. pc = "idle"
  BY DEF Serve, Transfer, PartialTransfer, NoTransfer, SocketFails,
     SocketFailsInFree, SendSignals, TransferUnsupported, ReceiveHeader,
     ReceiveKeyArguments, ReceivePutArguments, ReceiveGetBody,
     ReceiveDeleteBody, ReceivePutKey, ReceivePutBody, SendResponseHeader,
     SendValue, PartialPutBody, StrayPointer, Moves, Turn
<1>2. CASE ReceivePutArguments(c)
  <2>1. /\ Moves(c, "RECEIVING_ARGUMENTS") /\ conn[c].type = "PUT"
        /\ UNCHANGED <<mapVars, puts>>
    BY <1>2 DEF ReceivePutArguments
  <2>2. PICK p \in PayloadSizes :
          \/ /\ Queue!AllocateOversized(Queue!TotalSize(p))
             /\ Return(c, SendHeader(conn[c], "OUT_OF_MEMORY"), "SUCCESS")
          \/ /\ Queue!AllocateBegin(Queue!TotalSize(p))
             /\ UNCHANGED loopVars
    BY <1>2 DEF ReceivePutArguments
  <2>3. CASE /\ Queue!AllocateOversized(Queue!TotalSize(p))
             /\ Return(c, SendHeader(conn[c], "OUT_OF_MEMORY"), "SUCCESS")
    BY <1>1, <2>1, <2>3, OversizedTurns
  <2>4. CASE /\ Queue!AllocateBegin(Queue!TotalSize(p))
             /\ UNCHANGED loopVars
    <3>1. Announces(conn[c]) /\ current = c
      BY <2>1 DEF Announces, Moves, Turn
    <3> QED
      BY <1>1, <2>1, <2>4, <3>1 DEF Begins
  <2> QED
    BY <2>2, <2>3, <2>4
<1>3. CASE \/ SocketFailsInFree(c) \/ SendSignals(c) \/ TransferUnsupported(c)
           \/ StrayPointer(c)
  BY <1>1, <1>3 DEF SocketFailsInFree, SendSignals, TransferUnsupported,
     StrayPointer, Fail, Stops
<1>4. CASE \/ ReceiveHeader(c) \/ ReceiveKeyArguments(c) \/ ReceiveGetBody(c)
           \/ ReceiveDeleteBody(c) \/ ReceivePutKey(c) \/ ReceivePutBody(c)
           \/ SendResponseHeader(c) \/ SendValue(c)
           \/ PartialTransfer(c) \/ NoTransfer(c) \/ SocketFails(c)
  BY <1>1, <1>4, ReceiveHeaderTurns, ReceiveKeyArgumentsTurns,
     ReceiveGetBodyTurns, ReceiveDeleteBodyTurns, ReceivePutKeyTurns,
     ReceivePutBodyTurns, SendResponseHeaderTurns, SendValueTurns,
     PartialTransferTurns, NoTransferTurns, SocketFailsTurns
<1> QED
  BY <1>2, <1>3, <1>4 DEF Serve, Transfer

(* The numbers the budget is about.                                         *)
LEMMA BudgetNumbers ==
  ASSUME QueueInv, BudgetInv
  PROVE  /\ Capacity \in Nat /\ HeaderSize \in Nat \ {0} /\ MaxPuts \in Nat
         /\ Len(fifo) \in Nat /\ write_index \in Nat /\ total_size \in Nat
         /\ puts \in 0 .. MaxPuts
         /\ Cardinality(Announced) \in Nat
<1>1. /\ Capacity \in Nat /\ HeaderSize \in Nat \ {0} /\ MaxPuts \in Nat
  BY QueueAssumption, ConnectionAssumption DEF Queue!MemoryQueueAssumption
<1>2. /\ write_index \in Nat /\ total_size \in Nat
  BY <1>1 DEF QueueInv, Queue!TypeOK, Queue!Address
<1>3. Len(fifo) \in Nat
  BY DEF QueueInv, Queue!TypeOK
<1>4. Cardinality(Announced) \in Nat
  BY FS_CardinalityType DEF BudgetInv
<1> QED
  BY <1>1, <1>2, <1>3, <1>4 DEF BudgetInv

LEMMA MoreEntries ==
  ASSUME NEW m \in Nat, NEW n \in Nat, NEW h \in Nat, m + 1 <= n
  PROVE  (m + 1) * h = m * h + h /\ m * h + h <= n * h
<1>1. (m + 1) * h = m * h + h
  OBVIOUS
<1>2. PICK d \in Nat : n = (m + 1) + d
  <2>1. n - (m + 1) \in Nat /\ n = (m + 1) + (n - (m + 1))
    OBVIOUS
  <2> QED
    BY <2>1
<1>3. n * h = (m + 1) * h + d * h
  BY <1>2
<1>4. d * h >= 0
  BY <1>2
<1>5. m * h \in Nat /\ d * h \in Nat /\ (m + 1) * h \in Nat
  BY <1>2
<1> QED
  BY <1>1, <1>3, <1>4, <1>5

(* A turn keeps the budget.                                                 *)
LEMMA TurnKeepsBudget ==
  ASSUME QueueInv, DataInv, BudgetInv, pc = "idle",
         NEW c \in Conn, NEW k, Turned(c, k)
  PROVE  BudgetInv'
<1>1. /\ conn'[c] = k /\ \A d \in Conn \ {c} : conn'[d] = conn[d]
      /\ pc' = "idle" /\ UNCHANGED <<read_index, write_index, fifo>>
      /\ Spends(c, k)
  BY ConnAfter DEF DataInv, Turned, Effect, Settled
<1>2. /\ IsFiniteSet(Announced)
      /\ Len(fifo) + Cardinality(Announced) <= puts
      /\ Len(fifo) \in Nat /\ Cardinality(Announced) \in Nat
      /\ puts \in 0 .. MaxPuts /\ MaxPuts \in Nat
  BY BudgetNumbers DEF BudgetInv
<1>3. CASE Announces(k) => Announces(conn[c])
  <2>1. Announced' \subseteq Announced
    BY <1>1, <1>3 DEF Announced
  <2>2. /\ IsFiniteSet(Announced') /\ Cardinality(Announced') <= Cardinality(Announced)
        /\ Cardinality(Announced') \in Nat
    BY <1>2, <2>1, FS_Subset, FS_CardinalityType
  <2>3. puts' \in 0 .. MaxPuts /\ puts' >= puts
    BY <1>1, <1>2 DEF Spends
  <2>4. Len(fifo) + Cardinality(Announced') <= puts'
    BY <1>2, <2>2, <2>3
  <2> QED
    BY <1>1, <2>2, <2>3, <2>4 DEF BudgetInv
<1>4. CASE Announces(k) /\ ~Announces(conn[c])
  <2>1. Announced' = Announced \union {c} /\ c \notin Announced
    BY <1>1, <1>4 DEF Announced
  <2>2. /\ IsFiniteSet(Announced')
        /\ Cardinality(Announced') = Cardinality(Announced) + 1
    BY <1>2, <2>1, FS_AddElement
  <2>3. puts' = puts + 1 /\ puts < MaxPuts
    BY <1>1, <1>4 DEF Spends
  <2>4. Len(fifo) + Cardinality(Announced') <= puts' /\ puts' \in 0 .. MaxPuts
    BY <1>2, <2>2, <2>3
  <2> QED
    BY <1>1, <2>2, <2>4 DEF BudgetInv
<1> QED
  BY <1>3, <1>4

(* With room, memory_queue_allocate neither restarts at 0 nor evicts.       *)
LEMMA BeginKeepsBudget ==
  ASSUME HasRoom, QueueInv, DataInv, BudgetInv, NEW c \in Conn, Begins(c)
  PROVE  BudgetInv'
<1>1. /\ pc = "idle" /\ Announces(conn[c]) /\ current = c
      /\ UNCHANGED <<conn, current, puts>>
  BY DEF Begins, loopVars
<1>2. PICK p \in PayloadSizes : Queue!AllocateBegin(Queue!TotalSize(p))
  BY DEF Begins
<1>3. PICK n : n = Queue!TotalSize(p)
  OBVIOUS
<1>4. /\ n <= Capacity /\ total_size' = n
      /\ pc' = IF write_index + n + HeaderSize >= Capacity
               THEN "wrap" ELSE "reclaim"
      /\ UNCHANGED <<read_index, write_index, fifo>>
  BY <1>2, <1>3 DEF Queue!AllocateBegin, Queue!TooCloseToEnd, Queue!context
<1>5. /\ Capacity \in Nat /\ HeaderSize \in Nat \ {0} /\ MaxPuts \in Nat
      /\ Len(fifo) \in Nat /\ write_index \in Nat /\ puts \in 0 .. MaxPuts
      /\ Cardinality(Announced) \in Nat
  BY BudgetNumbers
<1>6. n = HeaderSize + p /\ p \in Nat
  <2>1. /\ p \in Nat /\ HeaderSize \in Nat /\ SizeModulus \in Nat \ {0}
        /\ HeaderSize + p < SizeModulus
    BY QueueAssumption DEF Queue!MemoryQueueAssumption
  <2>2. HeaderSize + p \in Nat
    BY <2>1
  <2>3. ASSUME NEW x \in Nat, NEW y \in Nat \ {0}, x < y PROVE (x % y) = x
    BY <2>3
  <2>4. ((HeaderSize + p) % SizeModulus) = HeaderSize + p
    BY <2>1, <2>2, <2>3
  <2> QED
    BY <1>3, <2>1, <2>4 DEF Queue!TotalSize
<1>7. p \in 0 .. 2
  BY <1>4, <1>5, <1>6, UnitsAssumption
<1>8. Len(fifo) + 1 <= MaxPuts
  <2>1. c \in Announced /\ IsFiniteSet(Announced)
    BY <1>1 DEF Announced, BudgetInv
  <2>2. Cardinality(Announced) # 0
    BY <2>1, FS_EmptySet
  <2>3. Len(fifo) + Cardinality(Announced) <= puts
    BY DEF BudgetInv
  <2> QED
    BY <1>5, <2>2, <2>3
<1>9. write_index + n + HeaderSize < Capacity
  <2> DEFINE h == HeaderSize + 2
             used == Len(fifo) * h
             all == MaxPuts * h
  <2>1. h \in Nat /\ used \in Nat /\ all \in Nat
    BY <1>5
  <2>2. used + h <= all
    BY <1>5, <1>8, <2>1, MoreEntries
  <2>3. write_index <= used /\ all + HeaderSize < Capacity
    BY DEF BudgetInv, HasRoom
  <2>4. n <= h /\ n \in Nat
    BY <1>5, <1>6, <1>7
  <2> HIDE DEF h, used, all
  <2> QED
    BY <1>5, <2>1, <2>2, <2>3, <2>4
<1>10. pc' = "reclaim"
  BY <1>4, <1>5, <1>6, <1>9
<1>11. total_size' - HeaderSize \in 0 .. 2
  BY <1>4, <1>5, <1>6, <1>7
<1>12. Announced' = Announced /\ Announces(conn'[current'])
  BY <1>1 DEF Announced
<1> QED
  BY <1>1, <1>4, <1>10, <1>11, <1>12 DEF BudgetInv

LEMMA NothingInTheWay ==
  ASSUME QueueInv, BudgetInv, pc # "idle"
  PROVE  pc = "reclaim" /\ ~Queue!MustReclaim
<1>1. pc = "reclaim"
  BY DEF BudgetInv, QueueInv, Queue!TypeOK
<1>2. ASSUME entry_count > 0 PROVE write_index > read_index
  <2>1. entry_count = Len(fifo)
    BY DEF QueueInv, Queue!Layout, Queue!Indices
  <2>2. fifo # << >>
    <3>1. Len(<< >>) = 0
      OBVIOUS
    <3> QED
      BY <1>2, <2>1, <3>1
  <2>3. write_index # 0 /\ read_index = 0
    BY <2>2 DEF BudgetInv
  <2> QED
    BY <2>3, BudgetNumbers
<1>3. read_index \in Nat /\ write_index \in Nat
  BY BudgetNumbers DEF BudgetInv
<1> QED
  BY <1>1, <1>2, <1>3 DEF Queue!MustReclaim

LEMMA StepCommits ==
  ASSUME QueueInv, BudgetInv, pc # "idle", Queue!AllocateStep
  PROVE  Queue!AllocateCommit
  BY NothingInTheWay DEF Queue!AllocateStep, Queue!WrapClean, Queue!Wrap,
     Queue!WrapOverruns, Queue!ReclaimClean

LEMMA NoLoop ==
  ASSUME QueueInv, BudgetInv
  PROVE  ~AllocateLoop
  BY StepCommits DEF AllocateLoop, Allocating, Queue!AllocateCommit

(* The bytes behind write_index are no entry's.                             *)
LEMMA EntriesLieBefore ==
  ASSUME QueueInv, BudgetInv, NEW a \in Owned
  PROVE  ~Queue!Overlap(a, size[a], write_index, total_size)
<1>1. PICK i \in 1 .. Len(fifo) : a = fifo[i].addr
  BY DEF Owned, QueueInv, Queue!TypeOK
<1>2. fifo # << >>
  BY <1>1
<1>3. ~Queue!Wrapped
  BY <1>2, BudgetNumbers DEF BudgetInv, Queue!Wrapped
<1>4. fifo[i].addr + fifo[i].size <= write_index /\ size[a] = fifo[i].size
  BY <1>1, <1>3 DEF QueueInv, Queue!Layout, Queue!Placement, Queue!End
<1>5. a \in Nat /\ size[a] \in Nat /\ write_index \in Nat
  BY BudgetNumbers, OwnedAddresses DEF QueueInv, Queue!TypeOK, Queue!Address
<1> QED
  BY <1>1, <1>4, <1>5 DEF Queue!Overlap

(* The entry that is handed out is nobody's.                                *)
LEMMA CommitOwns ==
  ASSUME QueueInv, Queue!AllocateCommit
  PROVE  /\ write_index \in Queue!Address \ Owned
         /\ Owned' = Owned \union {write_index}
         /\ Len(fifo') = Len(fifo) + 1 /\ Len(fifo) \in Nat
         /\ size' = [size EXCEPT ![write_index] = total_size]
         /\ locks' = [locks EXCEPT ![write_index] = 0]
         /\ write_index' = write_index + total_size
         /\ UNCHANGED read_index
         /\ pc' = "idle" /\ result' = "SUCCESS"
<1>1. QueueProofs!Inv /\ QueueProofs!AllocateCommit
  BY QueueInvIsInv DEF Queue!AllocateCommit, QueueProofs!AllocateCommit,
     Queue!MustReclaim, QueueProofs!MustReclaim, Queue!Address,
     QueueProofs!Address
<1>2. /\ Len(fifo') = Len(fifo) + 1
      /\ \A i \in 1 .. Len(fifo) :
           fifo'[i] = fifo[i] /\ fifo[i].addr # write_index
      /\ fifo'[Len(fifo) + 1] = [addr |-> write_index, size |-> total_size]
  BY <1>1, QueueProofs!CommitEffect, QueueAssumption, LockCapacityAssumption
     DEF Queue!MemoryQueueAssumption
<1>3. PICK m \in Nat : m = Len(fifo)
  BY DEF QueueInv, Queue!TypeOK
<1>4. DOMAIN fifo = 1 .. m /\ DOMAIN fifo' = 1 .. m + 1
  <2>1. DOMAIN fifo = 1 .. m
    BY <1>3 DEF QueueInv, Queue!TypeOK
  <2>2. fifo' = Append(fifo, [addr |-> write_index, size |-> total_size])
    BY DEF Queue!AllocateCommit
  <2>3. fifo \in Seq([addr : Queue!Address, size : 0 .. Capacity])
    BY DEF QueueInv, Queue!TypeOK
  <2>4. DOMAIN fifo' = 1 .. Len(fifo) + 1
    BY <2>2, <2>3
  <2> QED
    BY <1>3, <2>1, <2>4
<1>5. write_index \notin Owned
  BY <1>2, <1>3, <1>4 DEF Owned
<1>6. Owned' = Owned \union {write_index}
  <2>1. fifo'[m + 1].addr = write_index /\ m + 1 \in DOMAIN fifo'
    BY <1>2, <1>3, <1>4
  <2>2. \A i \in 1 .. m : fifo'[i].addr = fifo[i].addr
    BY <1>2, <1>3
  <2>3. 1 .. m + 1 = (1 .. m) \union {m + 1}
    BY <1>3
  <2> QED
    BY <1>4, <2>1, <2>2, <2>3 DEF Owned
<1> QED
  BY <1>2, <1>3, <1>5, <1>6 DEF QueueInv, Queue!TypeOK, Queue!AllocateCommit

LEMMA ReturnGrants ==
  ASSUME LoopInv, QueueInv, DataInv, BudgetInv, AllocateReturns
  PROVE  /\ current \in Conn /\ \E k : Granted(current, k)
         /\ Queue!AllocateCommit /\ UNCHANGED puts
<1>1. /\ Queue!AllocateStep /\ CleanMap /\ pc # "idle"
      /\ UNCHANGED <<store, puts>>
  BY DEF AllocateReturns, Allocating
<1>2. Queue!AllocateCommit /\ pc = "reclaim" /\ ~Queue!MustReclaim
  BY <1>1, StepCommits, NothingInTheWay
<1>3. UNCHANGED <<buckets, store>>
  BY <1>1, <1>2 DEF CleanMap
<1>4. /\ write_index \in Queue!Address \ Owned
      /\ Owned' = Owned \union {write_index}
      /\ size' = [size EXCEPT ![write_index] = total_size]
      /\ locks' = [locks EXCEPT ![write_index] = 0]
      /\ result' = "SUCCESS"
  BY <1>2, CommitOwns
<1>bytes. /\ key_bytes' \in [Queue!Address -> Key \union {NULL, Torn}]
      /\ value_bytes' \in [Queue!Address -> Values]
      /\ \A a \in Owned : /\ key_bytes'[a] = key_bytes[a]
                           /\ value_bytes'[a] = value_bytes[a]
  <2> DEFINE left(bytes) == IF IsTorn(write_index) THEN NULL ELSE bytes
             given == Given(write_index, total_size)
  <2>1. /\ key_bytes \in [Queue!Address -> Key \union {NULL, Torn}]
        /\ value_bytes \in [Queue!Address -> Values]
    BY DEF DataInv, MapInv, Values
  <2>2. /\ key_bytes' = [given EXCEPT ![write_index] = left(given[write_index])]
        /\ value_bytes' = [value_bytes EXCEPT
                             ![write_index] = left(value_bytes[write_index])]
    BY <1>4 DEF AllocateReturns
  <2>3. given \in [Queue!Address -> Key \union {NULL, Torn}]
    BY <2>1 DEF Given
  <2>4. \A a \in Owned : given[a] = key_bytes[a] /\ a \in Queue!Address
    BY EntriesLieBefore, OwnedAddresses DEF Given
  <2>5. /\ left(given[write_index]) \in Key \union {NULL, Torn}
        /\ left(value_bytes[write_index]) \in Values
    <3>1. NULL \in Values
      BY DEF Values
    <3> QED
      BY <1>4, <2>1, <2>3, <3>1
  <2> HIDE DEF left, given
  <2> QED
    BY <1>4, <2>1, <2>2, <2>3, <2>4, <2>5
<1>5. Announces(conn[current]) /\ total_size - HeaderSize \in 0 .. 2
  BY <1>1 DEF BudgetInv
<1>6. current \in Conn
  BY <1>1 DEF LoopInv, TurnsInv
<1>7. /\ Local(conn[current]) /\ DOMAIN conn[current] = Fields
      /\ conn[current].state = "RECEIVING_ARGUMENTS"
      /\ conn[current].type = "PUT"
  BY <1>5, <1>6, FieldsOfRequests DEF DataInv, LocalInv, Local, Announces
<1>8. /\ conn[current].request = "PUT" /\ conn[current].locked = FALSE
      /\ conn[current].key = NULL
  BY <1>7 DEF Local, SendingStates
<1>9. write_index \in Entry
  BY <1>4 DEF Entry
<1> DEFINE k == WriteGranted(conn[current])
<1>10. /\ DOMAIN k = Fields /\ k.state = "RECEIVING_BODY"
       /\ k.remaining = total_size - HeaderSize /\ k.entry = write_index
       /\ k.type = "PUT" /\ k.request = "PUT" /\ k.locked = FALSE /\ k.key = NULL
  BY <1>7, <1>8 DEF WriteGranted, Fields
<1>11. Becomes(current, k)
  <2>1. Return(current, WriteGranted(conn[current]), "SUCCESS")
    BY <1>4 DEF AllocateReturns
  <2> QED
    BY <2>1, Returned
<1> HIDE DEF k
<1>12. Local(k) /\ Writes(k)
  BY <1>5, <1>9, <1>10, FieldsOfRequests, NotLocked
     DEF Local, States, ReceivingStates, SendingStates, Writes
<1>13. Granted(current, k)
  BY <1>3, <1>4, <1>5, <1>10, <1>11, <1>12, <1>bytes DEF Granted
<1> QED
  BY <1>1, <1>2, <1>6, <1>13

LEMMA ReturnKeepsBudget ==
  ASSUME HasRoom, LoopInv, QueueInv, DataInv, BudgetInv, AllocateReturns
  PROVE  BudgetInv'
<1>1. /\ current \in Conn /\ Queue!AllocateCommit /\ UNCHANGED puts
      /\ pc # "idle"
  BY ReturnGrants DEF AllocateReturns, Allocating
<1>2. PICK k : Granted(current, k)
  BY ReturnGrants
<1>3. PICK c \in Conn : c = current
  BY <1>1
<1>4. /\ conn'[c] = k /\ \A d \in Conn \ {c} : conn'[d] = conn[d]
      /\ Announces(conn[c]) /\ Writes(k)
  BY <1>2, <1>3, ConnAfter DEF DataInv, Granted
<1>5. /\ Len(fifo') = Len(fifo) + 1 /\ UNCHANGED read_index /\ pc' = "idle"
      /\ write_index' = write_index + total_size
  BY <1>1, CommitOwns
<1>6. /\ Capacity \in Nat /\ HeaderSize \in Nat \ {0} /\ MaxPuts \in Nat
      /\ Len(fifo) \in Nat /\ write_index \in Nat /\ total_size \in Nat
      /\ puts \in 0 .. MaxPuts /\ Cardinality(Announced) \in Nat
  BY BudgetNumbers
<1>7. Announced' = Announced \ {c} /\ c \in Announced
  BY <1>4 DEF Announced, Announces, Writes
<1>8. /\ IsFiniteSet(Announced')
      /\ Cardinality(Announced') = Cardinality(Announced) - 1
  BY <1>7, FS_RemoveElement DEF BudgetInv
<1>9. Len(fifo') + Cardinality(Announced') <= puts'
  BY <1>1, <1>5, <1>6, <1>8 DEF BudgetInv
<1>10. total_size - HeaderSize \in 0 .. 2
  BY <1>1 DEF BudgetInv
<1>11. write_index' <= Len(fifo') * (HeaderSize + 2)
  <2> DEFINE h == HeaderSize + 2
             used == Len(fifo) * h
  <2>1. h \in Nat /\ used \in Nat
    BY <1>6
  <2>2. (Len(fifo) + 1) * h = used + h
    BY <1>6, <2>1, MoreEntries
  <2>3. write_index <= used
    BY DEF BudgetInv
  <2>4. total_size <= h
    BY <1>6, <1>10
  <2>5. Len(fifo') * h = used + h
    BY <1>5, <2>2
  <2> HIDE DEF used
  <2>6. write_index' <= Len(fifo') * h
    <3> HIDE DEF h
    <3> QED
      BY <1>5, <1>6, <2>1, <2>3, <2>4, <2>5
  <2> QED
    BY <2>6
<1>12. write_index' # 0
  BY <1>5, <1>6, <1>10
<1> QED
  BY <1>1, <1>5, <1>8, <1>9, <1>11, <1>12 DEF BudgetInv

-----------------------------------------------------------------------------
(* The invariant of the server.                                             *)

LEMMA StutterKeepsBudget ==
  ASSUME BudgetInv, UNCHANGED <<conn, current, puts, queueVars>>
  PROVE  BudgetInv'
<1>1. UNCHANGED <<pc, read_index, write_index, fifo, total_size>>
  BY DEF queueVars
<1>2. Announced' = Announced
  BY DEF Announced
<1> QED
  BY <1>1, <1>2 DEF BudgetInv

LEMMA InitEstablishesBudget == Init => BudgetInv
<1> SUFFICES ASSUME Init PROVE BudgetInv
  OBVIOUS
<1>1. /\ conn = [c \in Conn |-> Closed] /\ pc = "idle" /\ read_index = 0
      /\ write_index = 0 /\ fifo = << >> /\ puts = 0
  BY DEF Init, LoopInit, Queue!Init
<1>2. Announced = {}
  BY <1>1, FieldsOfRequests DEF Announced, Announces
<1>3. IsFiniteSet(Announced) /\ Cardinality(Announced) = 0 /\ Len(fifo) = 0
  BY <1>1, <1>2, FS_EmptySet
<1>4. 0 <= 0 * (HeaderSize + 2) /\ 0 \in 0 .. MaxPuts
  BY QueueAssumption, ConnectionAssumption DEF Queue!MemoryQueueAssumption
<1> QED
  BY <1>1, <1>3, <1>4 DEF BudgetInv

Data == DataInv /\ BudgetInv

(* What a step of the server is, with room in the buffer.                   *)
LEMMA StepIs ==
  ASSUME LoopInv, QueueInv, Data, [Next]_vars
  PROVE  \/ pc = "idle" /\ \E c \in Conn : \E k : Turned(c, k)
         \/ \E c \in Conn : Begins(c)
         \/ AllocateReturns
         \/ Stops
<1>1. ASSUME NEW c \in Conn, Serve(c)
      PROVE  \/ pc = "idle" /\ \E k : Turned(c, k)
             \/ Begins(c) \/ Stops
  BY <1>1, ServeTurns DEF Data
<1>2. ASSUME NEW c \in Conn, AcceptConnection(c)
      PROVE  pc = "idle" /\ Turned(c, NewRequest)
  BY <1>2, AcceptTurns DEF Data, AcceptConnection
<1>3. ~AllocateLoop
  BY NoLoop DEF Data
<1>4. CASE UNCHANGED vars
  BY <1>4 DEF vars, loopVars, Stops
<1> QED
  BY <1>1, <1>2, <1>3, <1>4 DEF Next

LEMMA StepKeepsData ==
  ASSUME HasRoom, LoopInv, QueueInv, Data, [Next]_vars
  PROVE  Data'
<1>1. ASSUME pc = "idle", NEW c \in Conn, NEW k, Turned(c, k)
      PROVE  Data'
  <2>1. Effect(c, k) /\ UNCHANGED <<size, fifo>>
    BY <1>1 DEF Turned, Settled
  <2> QED
    BY <1>1, <2>1, EffectKeepsData, TurnKeepsBudget DEF Data
<1>2. ASSUME NEW c \in Conn, Begins(c) PROVE Data'
  <2>1. UNCHANGED <<conn, mapVars, size, locks, fifo>>
    BY <1>2 DEF Begins, loopVars, Queue!AllocateBegin, Queue!headers
  <2> QED
    BY <1>2, <2>1, IdleKeepsData, BeginKeepsBudget DEF Data
<1>3. CASE AllocateReturns
  <2>1. current \in Conn /\ \E k : Granted(current, k)
    BY <1>3, ReturnGrants DEF Data
  <2>2. total_size - HeaderSize \in 0 .. 2
    BY <1>3 DEF Data, BudgetInv, AllocateReturns, Allocating
  <2> QED
    BY <1>3, <2>1, <2>2, GrantedKeepsData, ReturnKeepsBudget DEF Data
<1>4. CASE Stops
  <2>1. UNCHANGED <<conn, current, mapVars, puts, size, locks, fifo>>
    BY <1>4 DEF Stops, queueVars
  <2> QED
    BY <1>4, <2>1, IdleKeepsData, StutterKeepsBudget DEF Data, Stops
<1> QED
  BY <1>1, <1>2, <1>3, <1>4, StepIs

LEMMA NextKeepsServerInv ==
  ASSUME HasRoom
  PROVE  ServerInv /\ [Next]_vars => ServerInv'
  BY NextKeepsInv, ServerKeepsQueueInv, StepKeepsData DEF ServerInv, Data

(* The inductive invariant of the server.                                   *)
THEOREM ServerInvHolds ==
  ASSUME HasRoom
  PROVE  Spec => []ServerInv
<1>1. Init => ServerInv
  BY InitEstablishesInv, QueueInit, InitEstablishesData, InitEstablishesBudget
     DEF ServerInv, Init
<1> QED
  BY <1>1, NextKeepsServerInv, PTL DEF Spec

(* entry_header's lock of an entry counts the connections that are sending  *)
(* its value, so that force_clean blocks on an entry exactly as long as     *)
(* somebody reads it.                                                       *)
THEOREM LocksCountReadersHolds ==
  ASSUME HasRoom
  PROVE  Spec => []LocksCountReaders
<1>1. ServerInv => LocksCountReaders
  BY DEF ServerInv, DataInv, LocksInv, LocksCountReaders
<1> QED
  BY <1>1, ServerInvHolds, PTL

(* What event_received_body finds for a GET is what was last put under its  *)
(* key, and the bytes stay as they are until event_sent_body.               *)
THEOREM GetsAnswerTheStoreHolds ==
  ASSUME HasRoom
  PROVE  Spec => []GetsAnswerTheStore
<1>1. ServerInv => GetsAnswerTheStore
  BY DEF ServerInv, DataInv, LocalInv, Local, ReadersInv, GetsAnswerTheStore
<1> QED
  BY <1>1, ServerInvHolds, PTL

(* connection.c and entry_hash_map.c keep the contract of memory_queue.c:   *)
(* they touch only the headers of entries the queue has handed out, and     *)
(* entry_header_release_lock is given only locks that are held.             *)
THEOREM QueueIsUsedAsMeantHolds ==
  ASSUME HasRoom
  PROVE  Spec => QueueIsUsedAsMeant
<1>1. Init => Queue!Init
  BY DEF Init
<1>2. ServerInv /\ [Next]_vars => [Queue!Next]_(Queue!vars)
  <2> SUFFICES ASSUME ServerInv, [Next]_vars
               PROVE  UNCHANGED queueVars \/ Queue!Next
    BY DEF Queue!vars, Queue!context, Queue!headers, queueVars
  <2>1. \A c \in Conn : Begins(c) => Queue!Next
    BY DEF Begins, Queue!Next, Queue!Allocate
  <2>2. AllocateReturns => Queue!Next
    BY DEF AllocateReturns, Queue!Next
  <2> QED
    BY <2>1, <2>2, StepIs DEF ServerInv, Data, Turned, Stops
<1> QED
  BY <1>1, <1>2, ServerInvHolds, PTL DEF Spec, QueueIsUsedAsMeant, Queue!Spec

-----------------------------------------------------------------------------
(* The cache the clients see.                                               *)

LEMMA MapFound == QueueInv /\ MapInv => MapSeen = store
<1> SUFFICES ASSUME QueueInv, MapInv PROVE MapSeen = store
  OBVIOUS
<1>1. store \in [Key -> Value \union {Empty, NULL}]
  BY DEF MapInv
<1>2. ASSUME NEW k \in Key PROVE MapSeen[k] = store[k]
  <2>1. CASE buckets[k] = << >>
    <3>1. Hits(k, key_bytes) = {}
      BY <2>1, HitsOfOne
    <3> QED
      BY <2>1, <3>1, MapFacts DEF MapSeen
  <2>2. ASSUME NEW a, buckets[k] = <<a>>, key_bytes[a] = k, size[a] > HeaderSize
        PROVE  MapSeen[k] = store[k]
    <3>1. Hits(k, key_bytes) = {1} /\ buckets[k][1] = a
      BY <2>2, HitsOfOne
    <3>2. (CHOOSE i \in {1} : TRUE) = 1 /\ {1} # {}
      OBVIOUS
    <3>3. MapSeen[k] = value_bytes[a]
      BY <3>1, <3>2 DEF MapSeen
    <3> QED
      BY <2>2, <3>3, BucketFacts
  <2> QED
    BY <2>1, <2>2, MapFacts
<1>3. MapSeen = [k \in Key |-> MapSeen[k]]
  BY DEF MapSeen
<1> QED
  BY <1>1, <1>2, <1>3

(* What is being answered on a connection, from its connection_t alone.     *)
AnswerOf(k) ==
  IF k.state \in SendingStates
  THEN [request |-> k.request, type |-> k.type, key |-> k.key,
        value |-> IF k.locked THEN k.expected ELSE NULL]
  ELSE IF k.state = "CLOSED" THEN Seen!Closed ELSE Seen!Asking

AnswersOf == [c \in Conn |-> AnswerOf(conn[c])]

LEMMA AnswersFound == ReadersInv => AnswerSeen = AnswersOf
  BY DEF ReadersInv, AnswerSeen, AnswersOf, AnswerOf, IsOpen,
     Seen!Closed, Seen!Asking

(* The answer to one client becomes another.                                *)
Answers(c, b) ==
  /\ c \in Conn /\ AnswerSeen = [d \in Conn |-> AnswerSeen[d]]
  /\ AnswerSeen' = [AnswerSeen EXCEPT ![c] = b]

LEMMA AnswersMap ==
  ASSUME QueueInv, DataInv, QueueInv', DataInv', NEW c \in Conn, NEW k, Becomes(c, k)
  PROVE  /\ Answers(c, AnswerOf(k))
         /\ AnswerSeen[c] = AnswerOf(conn[c])
         /\ MapSeen = store /\ MapSeen' = store'
<1>1. AnswerSeen = [d \in Conn |-> AnswerOf(conn[d])]
  BY AnswersFound DEF DataInv, AnswersOf
<1>2. AnswerSeen' = [d \in Conn |-> AnswerOf(conn'[d])]
  <2>1. (ReadersInv => AnswerSeen = AnswersOf)'
    BY AnswersFound, PTL
  <2> QED
    BY <2>1 DEF DataInv, AnswersOf, AnswerOf
<1>3. conn'[c] = k /\ \A d \in Conn \ {c} : conn'[d] = conn[d]
  BY DEF DataInv, LocalInv, Becomes
<1>4. MapSeen = store
  BY MapFound DEF DataInv
<1>5. MapSeen' = store'
  <2>1. (QueueInv /\ MapInv => MapSeen = store)'
    BY MapFound, PTL
  <2> QED
    BY <2>1 DEF DataInv
<1>6. AnswerSeen' = [AnswerSeen EXCEPT ![c] = AnswerOf(k)]
  BY <1>1, <1>2, <1>3
<1> QED
  BY <1>1, <1>4, <1>5, <1>6 DEF Answers

LEMMA Answered ==
  ASSUME NEW c, NEW b, Answers(c, b)
  PROVE  /\ b = AnswerSeen[c] => UNCHANGED AnswerSeen
         /\ b # AnswerSeen[c] => c \in {d \in Conn : AnswerSeen'[d] # AnswerSeen[d]}
  BY DEF Answers

(* Asking and being closed are not answers.                                 *)
LEMMA NotAnswers ==
  /\ Seen!Closed # Seen!Asking
  /\ \A r, t, k, v : t \notin {"CLOSED", "ASKING"} =>
       LET b == [request |-> r, type |-> t, key |-> k, value |-> v] IN
       b # Seen!Closed /\ b # Seen!Asking
  BY DEF Seen!Closed, Seen!Asking

(* The client of c is told nothing more: it has gone, or may ask again.     *)
LEMMA LeavingIsSeen ==
  ASSUME NEW c, NEW b \in {Seen!Closed, Seen!Asking}, Answers(c, b),
         UNCHANGED MapSeen
  PROVE  UNCHANGED AnswerSeen \/ Seen!Next
<1>1. SUFFICES ASSUME b # AnswerSeen[c] PROVE Seen!Next
  BY Answered
<1>2. c \in {d \in Conn : AnswerSeen'[d] # AnswerSeen[d]}
  BY <1>1, Answered
<1>3. AnswerSeen' = [AnswerSeen EXCEPT ![c] = b]
  BY DEF Answers
<1>4. Seen!Leave(c) \/ Seen!Open(c) \/ Seen!Sent(c)
  BY <1>1, <1>3 DEF Seen!Leave, Seen!Open, Seen!Sent
<1> QED
  BY <1>2, <1>4 DEF Seen!Next

(* The client of c, which has asked, is answered.                           *)
LEMMA AnsweringIsSeen ==
  ASSUME NEW c, NEW r, NEW t, NEW k \in Key \union {NULL}, NEW v,
         t \notin {"CLOSED", "ASKING"},
         AnswerSeen[c] = Seen!Asking,
         Answers(c, [request |-> r, type |-> t, key |-> k, value |-> v]),
         \/ /\ <<r, t>> \in Seen!Refusals /\ v = NULL /\ UNCHANGED MapSeen
         \/ /\ r = "GET" /\ k \in Key /\ v = MapSeen[k] /\ UNCHANGED MapSeen
            /\ t = IF MapSeen[k] = NULL THEN "NOT_FOUND" ELSE "VALUE"
         \/ /\ r = "DELETE" /\ t = "OK" /\ k \in Key /\ v = NULL
            /\ MapSeen' = [MapSeen EXCEPT ![k] = NULL]
         \/ /\ r = "PUT" /\ t = "OK" /\ k \in Key /\ v = NULL
            /\ \E w \in Value \union {Empty} : MapSeen' = [MapSeen EXCEPT ![k] = w]
  PROVE  Seen!Next
<1> DEFINE b == [request |-> r, type |-> t, key |-> k, value |-> v]
<1>1. b # AnswerSeen[c]
  BY NotAnswers
<1>2. c \in {d \in Conn : AnswerSeen'[d] # AnswerSeen[d]}
  BY <1>1, Answered
<1>3. Seen!Answered(c, r, t, k, v)
  BY DEF Answers, Seen!Answered
<1>4. CASE <<r, t>> \in Seen!Refusals /\ v = NULL /\ UNCHANGED MapSeen
  <2>1. Seen!Refuse(c, k)
    BY <1>3, <1>4 DEF Seen!Refuse
  <2> QED
    BY <1>2, <2>1 DEF Seen!Next
<1>5. CASE /\ r = "GET" /\ k \in Key /\ v = MapSeen[k] /\ UNCHANGED MapSeen
           /\ t = IF MapSeen[k] = NULL THEN "NOT_FOUND" ELSE "VALUE"
  <2>1. Seen!Get(c, k)
    BY <1>3, <1>5 DEF Seen!Get
  <2> QED
    BY <1>2, <1>5, <2>1 DEF Seen!Next
<1>6. CASE /\ r = "DELETE" /\ t = "OK" /\ k \in Key /\ v = NULL
           /\ MapSeen' = [MapSeen EXCEPT ![k] = NULL]
  <2>1. Seen!Delete(c, k)
    BY <1>3, <1>6 DEF Seen!Delete
  <2> QED
    BY <1>2, <1>6, <2>1 DEF Seen!Next
<1>7. CASE /\ r = "PUT" /\ t = "OK" /\ k \in Key /\ v = NULL
           /\ \E w \in Value \union {Empty} : MapSeen' = [MapSeen EXCEPT ![k] = w]
  <2>1. PICK w \in Value \union {Empty} : Seen!Put(c, k, w)
    BY <1>3, <1>7 DEF Seen!Put
  <2> QED
    BY <1>2, <1>7, <2>1 DEF Seen!Next
<1> QED
  BY <1>4, <1>5, <1>6, <1>7

(* Every turn is a step of the cache, or nothing to its clients.            *)
LEMMA TurnIsSeen ==
  ASSUME QueueInv, DataInv, QueueInv', DataInv', NEW c \in Conn, NEW k, Effect(c, k)
  PROVE  UNCHANGED <<MapSeen, AnswerSeen>> \/ Seen!Next
<1>1. Becomes(c, k) /\ Local(k) /\ Local(conn[c])
  BY DEF Effect, DataInv, LocalInv
<1>2. /\ Answers(c, AnswerOf(k)) /\ AnswerSeen[c] = AnswerOf(conn[c])
      /\ MapSeen = store /\ MapSeen' = store'
  BY <1>1, AnswersMap
<1>3. Asks(conn[c]) => AnswerSeen[c] = Seen!Asking
  BY <1>2 DEF Asks, AnswerOf
<1>4. ASSUME k.state \notin SendingStates, UNCHANGED store
      PROVE  UNCHANGED <<MapSeen, AnswerSeen>> \/ Seen!Next
  <2>1. AnswerOf(k) \in {Seen!Closed, Seen!Asking}
    BY <1>4 DEF AnswerOf
  <2> QED
    BY <1>2, <1>4, <2>1, LeavingIsSeen
<1>5. ASSUME k.state \in SendingStates
      PROVE  AnswerOf(k) = [request |-> k.request, type |-> k.type, key |-> k.key,
                            value |-> IF k.locked THEN k.expected ELSE NULL]
  BY <1>5 DEF AnswerOf
<1>6. k.key \in Key \union {NULL}
  BY <1>1 DEF Local
<1>7. \A r \in Seen!Refusals :
        /\ <<r[1], r[2]>> \in Seen!Refusals
        /\ r[2] \notin {"CLOSED", "ASKING"}
  BY DEF Seen!Refusals
<1>8. CASE Quiet(c, k)
  <2>1. UNCHANGED store /\ Told(conn[c], k)
    BY <1>8 DEF Quiet, mapVars
  <2>2. CASE /\ {k.state, conn[c].state} \subseteq SendingStates
             /\ k.request = conn[c].request /\ k.type = conn[c].type
             /\ k.key = conn[c].key /\ k.locked = conn[c].locked
    <3>1. k.locked => k.expected = conn[c].expected
      BY <1>8 DEF Quiet
    <3>2. AnswerOf(k) = AnswerOf(conn[c])
      BY <2>2, <3>1 DEF AnswerOf
    <3> QED
      BY <1>2, <2>1, <3>2, Answered
  <2>3. CASE Asks(conn[c]) /\ Refused(k)
    <3>1. PICK r \in Seen!Refusals : k.request = r[1] /\ k.type = r[2]
      BY <2>3 DEF Refused
    <3>2. <<k.request, k.type>> \in Seen!Refusals /\ k.type \notin {"CLOSED", "ASKING"}
      BY <1>7, <3>1
    <3>3. k.state \in SendingStates /\ ~k.locked
      BY <2>3 DEF Refused
    <3>4. Answers(c, [request |-> k.request, type |-> k.type, key |-> k.key,
                      value |-> NULL])
      BY <1>2, <1>5, <3>3
    <3> QED
      BY <1>2, <1>3, <1>6, <2>1, <2>3, <3>2, <3>4, AnsweringIsSeen
  <2>4. CASE Asks(conn[c]) /\ NotFound(k)
    <3>1. /\ k.state \in SendingStates /\ ~k.locked /\ k.request = "GET"
          /\ k.type = "NOT_FOUND" /\ k.key \in Key /\ store[k.key] = NULL
      BY <2>4 DEF NotFound
    <3>2. Answers(c, [request |-> "GET", type |-> "NOT_FOUND", key |-> k.key,
                      value |-> NULL])
      BY <1>2, <1>5, <3>1
    <3> QED
      BY <1>2, <1>3, <2>1, <2>4, <3>1, <3>2, AnsweringIsSeen
  <2> QED
    BY <1>4, <2>1, <2>2, <2>3, <2>4 DEF Told
<1>9. CASE Locks(c, k)
  <2>1. /\ UNCHANGED store /\ Asks(conn[c]) /\ k.locked
        /\ k.expected = store[k.key]
    BY <1>9 DEF Locks, mapVars
  <2>2. /\ k.state \in SendingStates /\ k.type = "VALUE" /\ k.request = "GET"
        /\ k.key \in Key /\ k.expected # NULL
    BY <1>1, <2>1 DEF Local
  <2>3. Answers(c, [request |-> "GET", type |-> "VALUE", key |-> k.key,
                    value |-> store[k.key]])
    BY <1>2, <1>5, <2>1, <2>2
  <2> QED
    BY <1>2, <1>3, <2>1, <2>2, <2>3, AnsweringIsSeen
<1>10. CASE Unlocks(c, k)
  BY <1>4, <1>10 DEF Unlocks, mapVars
<1>11. CASE Deletes(c, k)
  <2>1. /\ Asks(conn[c]) /\ ~k.locked /\ k.state \in SendingStates
        /\ k.request = "DELETE" /\ k.type = "OK" /\ k.key \in Key
        /\ store' = [store EXCEPT ![k.key] = NULL]
    BY <1>11 DEF Deletes
  <2>2. Answers(c, [request |-> "DELETE", type |-> "OK", key |-> k.key,
                    value |-> NULL])
    BY <1>2, <1>5, <2>1
  <2> QED
    BY <1>2, <1>3, <2>1, <2>2, AnsweringIsSeen
<1>12. CASE Fills(c, k)
  <2>1. UNCHANGED store /\ k.state \notin SendingStates
    BY <1>12 DEF Fills, Writes, SendingStates
  <2> QED
    BY <1>4, <2>1
<1>13. ASSUME NEW v \in Value \union {Empty}, Puts(c, k, v)
       PROVE  UNCHANGED <<MapSeen, AnswerSeen>> \/ Seen!Next
  <2>1. /\ Writes(conn[c]) /\ ~k.locked /\ k.state \in SendingStates
        /\ k.request = "PUT" /\ k.key \in Key
        /\ \/ k.type = "OUT_OF_MEMORY" /\ UNCHANGED store
           \/ k.type = "OK" /\ store' = [store EXCEPT ![k.key] = v]
    BY <1>13 DEF Puts
  <2>2. Asks(conn[c])
    BY <2>1 DEF Writes, Asks, SendingStates
  <2>3. Answers(c, [request |-> "PUT", type |-> k.type, key |-> k.key,
                    value |-> NULL])
    BY <1>2, <1>5, <2>1
  <2>4. <<"PUT", "OUT_OF_MEMORY">> \in Seen!Refusals
    BY DEF Seen!Refusals
  <2> QED
    BY <1>2, <1>3, <2>1, <2>2, <2>3, <2>4, AnsweringIsSeen
<1> QED
  BY <1>8, <1>9, <1>10, <1>11, <1>12, <1>13 DEF Effect

(* Every request takes effect at once and under the key its client sent;    *)
(* one whose allocation, insertion or socket fails has no effect; and what  *)
(* a GET is answered with stays what it was when it was looked up, while    *)
(* other connections put, replace and delete.                               *)
THEOREM ServesACacheHolds ==
  ASSUME HasRoom
  PROVE  Spec => ServesACache
<1>1. ASSUME QueueInv, DataInv, UNCHANGED <<conn, store>>, QueueInv', DataInv'
      PROVE  UNCHANGED <<MapSeen, AnswerSeen>>
  <2>1. /\ AnswerSeen = AnswersOf /\ MapSeen = store
    BY <1>1, AnswersFound, MapFound DEF DataInv
  <2>2. /\ (ReadersInv => AnswerSeen = AnswersOf)'
        /\ (QueueInv /\ MapInv => MapSeen = store)'
    BY AnswersFound, MapFound, PTL
  <2>3. AnswersOf' = AnswersOf
    BY <1>1 DEF AnswersOf, AnswerOf
  <2> QED
    BY <1>1, <2>1, <2>2, <2>3 DEF DataInv
<1>2. Init => Seen!Init
  <2> SUFFICES ASSUME Init PROVE Seen!Init
    OBVIOUS
  <2>1. QueueInv /\ DataInv
    BY QueueInit, InitEstablishesData DEF Init
  <2>2. /\ MapSeen = [k \in Key |-> NULL] /\ conn = [c \in Conn |-> Closed]
    BY <2>1, MapFound DEF DataInv, Init, LoopInit
  <2>3. AnswerSeen = [c \in Conn |-> Seen!Closed]
    <3>1. AnswerOf(Closed) = Seen!Closed
      BY FieldsOfRequests DEF AnswerOf, SendingStates
    <3> QED
      BY <2>1, <2>2, <3>1, AnswersFound DEF DataInv, AnswersOf
  <2> QED
    BY <2>2, <2>3 DEF Seen!Init
<1>3. ServerInv /\ ServerInv' /\ [Next]_vars => [Seen!Next]_(Seen!vars)
  <2> SUFFICES ASSUME ServerInv, ServerInv', [Next]_vars
               PROVE  UNCHANGED <<MapSeen, AnswerSeen>> \/ Seen!Next
    BY DEF Seen!vars
  <2>1. QueueInv /\ DataInv /\ QueueInv' /\ DataInv'
    BY DEF ServerInv
  <2>2. ASSUME NEW c \in Conn, NEW k, Turned(c, k)
        PROVE  UNCHANGED <<MapSeen, AnswerSeen>> \/ Seen!Next
    BY <2>1, <2>2, TurnIsSeen DEF Turned
  <2>3. ASSUME NEW c \in Conn, Begins(c)
        PROVE  UNCHANGED <<MapSeen, AnswerSeen>>
    BY <1>1, <2>1, <2>3 DEF Begins, loopVars, mapVars
  <2>4. CASE Stops
    BY <1>1, <2>1, <2>4 DEF Stops, mapVars
  <2>5. CASE AllocateReturns
    <3>1. PICK k : Granted(current, k)
      BY <2>5, ReturnGrants DEF ServerInv
    <3>2. PICK c \in Conn : c = current
      BY <2>5, ReturnGrants DEF ServerInv
    <3>3. /\ Becomes(c, k) /\ Announces(conn[c]) /\ Writes(k) /\ UNCHANGED store
      BY <3>1, <3>2 DEF Granted
    <3>4. AnswerOf(k) = AnswerOf(conn[c])
      BY <3>3 DEF AnswerOf, Announces, Writes, SendingStates
    <3> QED
      BY <2>1, <3>3, <3>4, AnswersMap, Answered
  <2> QED
    BY <2>2, <2>3, <2>4, <2>5, StepIs DEF ServerInv, Data
<1> QED
  BY <1>2, <1>3, ServerInvHolds, PTL DEF Spec, ServesACache, Seen!Spec
=============================================================================
