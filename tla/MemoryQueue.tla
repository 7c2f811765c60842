---------------------------- MODULE MemoryQueue ----------------------------
(***************************************************************************)
(* The circular allocator of memory_queue.c.                               *)
(*                                                                         *)
(* Entries are laid out one after the other in a buffer of Capacity bytes; *)
(* an allocation that would come too close to the end writes an            *)
(* end-of-buffer marker and starts again at 0, removing the oldest entries *)
(* in its way.  The queue keeps no list of its entries: the chain is read  *)
(* back from the headers in the buffer.                                    *)
(*                                                                         *)
(* memory_queue_allocate has two loops around force_clean.  One iteration  *)
(* is one step here and pc says which loop is running; callers act only    *)
(* when pc = "idle", as the program has a single thread.                   *)
(*                                                                         *)
(* Memory is one function per header field, indexed by address.  Only the  *)
(* end-of-buffer bit is ever read at an address that need not hold a       *)
(* header, so it is the one field kept as the SET of values the bit may    *)
(* have: {FALSE} after a header was written, {TRUE} after a marker was,    *)
(* BOOLEAN for bytes malloc or a client's key or value left there.         *)
(***************************************************************************)
EXTENDS EntryHeader, Integers, Sequences

CONSTANTS
  Capacity,      \* capacity_bytes
  HeaderSize,    \* sizeof(entry_header_t), 16 in the code
  SizeModulus,   \* 2^32: total_size is a uint32_t
  PayloadSizes   \* the values of key_size + value_size that clients send

(* The last conjunct is a contract of the callers, which nothing enforces:  *)
(* no client announces a payload so large that total_size wraps around.     *)
ASSUME MemoryQueueAssumption ==
  /\ Capacity \in Nat
  /\ HeaderSize \in Nat \ {0}
  /\ SizeModulus \in Nat \ {0}
  /\ PayloadSizes \subseteq Nat
  /\ \A p \in PayloadSizes : HeaderSize + p < SizeModulus

(* The size of a request, in the width of the local that holds it.          *)
TotalSize(p) == (HeaderSize + p) % SizeModulus

VARIABLES
  pc,              \* "idle", the loop memory_queue_allocate is in, or "overrun"
  total_size,      \* its total_size local, 0 when idle
  result,          \* the last memory_queue_result_t returned
  entry_count, occupied_bytes, read_index, write_index,
  end_of_buffer, size, locks, active,   \* header fields, by address
  fifo             \* history: extents handed out and not removed, oldest first

context == <<entry_count, occupied_bytes, read_index, write_index>>
headers == <<end_of_buffer, size, locks, active>>
vars == <<pc, total_size, result, context, headers, fifo>>

(* The bytes of the buffer, and Capacity, the first byte behind it.  That   *)
(* one is not the queue's: its bit may be anything and never changes here.  *)
Address == 0 .. Capacity

Init ==
  /\ pc = "idle" /\ total_size = 0 /\ result = "NONE"
  /\ entry_count = 0 /\ occupied_bytes = 0
  /\ read_index = 0 /\ write_index = 0
  /\ end_of_buffer = [a \in Address |-> BOOLEAN]
  /\ size = [a \in Address |-> 0]
  /\ locks = [a \in Address |-> 0]
  /\ active = [a \in Address |-> FALSE]
  /\ fifo = << >>

-----------------------------------------------------------------------------
(* Two seeded slips of remove_entry, which a run must notice: the test of   *)
(* the lock is missing, and occupied_bytes is not kept.                     *)
RemoveEntryUnlocked ==
  LET following == read_index + size[read_index] IN
  /\ entry_count' = entry_count - 1
  /\ occupied_bytes' = occupied_bytes - size[read_index]
  /\ active' = [active EXCEPT ![read_index] = FALSE]
  /\ \E marked \in end_of_buffer[following] :
       read_index' = IF marked THEN 0 ELSE following
  /\ fifo' = Tail(fifo)
  /\ UNCHANGED <<write_index, end_of_buffer, size, locks>>

RemoveEntryUncounted ==
  LET following == read_index + size[read_index] IN
  /\ locks[read_index] = 0
  /\ entry_count' = entry_count - 1
  /\ active' = [active EXCEPT ![read_index] = FALSE]
  /\ \E marked \in end_of_buffer[following] :
       read_index' = IF marked THEN 0 ELSE following
  /\ fifo' = Tail(fifo)
  /\ UNCHANGED <<occupied_bytes, write_index, end_of_buffer, size, locks>>

(* remove_entry on an entry no reader holds.  The entry's key leaves the    *)
(* hash map if it is active, and read_index moves on: past the entry, or to *)
(* 0 when the bytes found there say end of buffer.                          *)
RemoveEntry ==
  LET following == read_index + size[read_index] IN
  /\ locks[read_index] = 0
  /\ entry_count' = entry_count - 1
  /\ occupied_bytes' = occupied_bytes - size[read_index]
  /\ active' = [active EXCEPT ![read_index] = FALSE]
  /\ \E marked \in end_of_buffer[following] :
       read_index' = IF marked THEN 0 ELSE following
  /\ fifo' = Tail(fifo)
  /\ UNCHANGED <<write_index, end_of_buffer, size, locks>>

(* force_clean on an entry that is being read: it is made inactive, so that *)
(* no further reader finds it, and the allocation gives up.                 *)
WriteBlocked ==
  /\ locks[read_index] # 0
  /\ active' = [active EXCEPT ![read_index] = FALSE]
  /\ pc' = "idle" /\ total_size' = 0 /\ result' = "WRITE_BLOCKED"
  /\ UNCHANGED <<context, end_of_buffer, size, locks, fifo>>

ForceClean ==
  \/ RemoveEntry /\ UNCHANGED <<pc, total_size, result>>
  \/ WriteBlocked

-----------------------------------------------------------------------------
(* Seeded slips of the three conditions below. *)
CloseToEndWithoutSize(n) == write_index + HeaderSize >= Capacity
DrainNothing == FALSE
ReclaimUncounted ==
  /\ write_index <= read_index
  /\ write_index + total_size + HeaderSize >= read_index
ReclaimUnlessEqual ==
  /\ entry_count > 0
  /\ write_index < read_index
  /\ write_index + total_size + HeaderSize >= read_index
ReclaimBeyond ==
  /\ entry_count > 0
  /\ write_index <= read_index
  /\ write_index + total_size + HeaderSize > read_index
ReclaimWithoutMarker ==
  /\ entry_count > 0
  /\ write_index <= read_index
  /\ write_index + total_size >= read_index

(* The conditions memory_queue_allocate evaluates. *)
TooCloseToEnd(n) == write_index + n + HeaderSize >= Capacity
MustDrainUpper == write_index < read_index
MustReclaim ==
  /\ entry_count > 0
  /\ write_index <= read_index
  /\ write_index + total_size + HeaderSize >= read_index

(* An entry larger than the buffer is refused. *)
AllocateOversized(n) ==
  /\ pc = "idle"
  /\ n > Capacity
  /\ result' = "OUT_OF_MEMORY"
  /\ UNCHANGED <<pc, total_size, context, headers, fifo>>

AllocateBegin(n) ==
  /\ pc = "idle"
  /\ n <= Capacity
  /\ total_size' = n
  /\ pc' = IF TooCloseToEnd(n) THEN "wrap" ELSE "reclaim"
  /\ UNCHANGED <<result, context, headers, fifo>>

(* First loop: the entries between read_index and the previous marker go.   *)
WrapClean ==
  /\ pc = "wrap"
  /\ MustDrainUpper
  /\ ForceClean

(* Two seeded slips of the wrap: no marker is written, and the condition is *)
(* tested again, as a while would.                                          *)
WrapUnmarked ==
  /\ pc = "wrap"
  /\ ~MustDrainUpper
  /\ write_index < Capacity
  /\ read_index' = IF read_index = write_index THEN 0 ELSE read_index
  /\ write_index' = 0
  /\ pc' = "reclaim"
  /\ UNCHANGED <<total_size, result, entry_count, occupied_bytes,
                 end_of_buffer, size, locks, active, fifo>>

WrapAgain ==
  /\ pc = "wrap"
  /\ ~MustDrainUpper
  /\ write_index < Capacity
  /\ end_of_buffer' = [end_of_buffer EXCEPT ![write_index] = {TRUE}]
  /\ read_index' = IF read_index = write_index THEN 0 ELSE read_index
  /\ write_index' = 0
  /\ pc' = IF total_size + HeaderSize >= Capacity THEN "wrap" ELSE "reclaim"
  /\ UNCHANGED <<total_size, result, entry_count, occupied_bytes,
                 size, locks, active, fifo>>

(* Behind the first loop: mark the end of the buffer and restart at 0.      *)
Wrap ==
  /\ pc = "wrap"
  /\ ~MustDrainUpper
  /\ write_index < Capacity
  /\ end_of_buffer' = [end_of_buffer EXCEPT ![write_index] = {TRUE}]
  /\ read_index' = IF read_index = write_index THEN 0 ELSE read_index
  /\ write_index' = 0
  /\ pc' = "reclaim"
  /\ UNCHANGED <<total_size, result, entry_count, occupied_bytes,
                 size, locks, active, fifo>>

(* The header that would hold the marker does not fit between write_index   *)
(* and the end of the buffer, which C leaves undefined: the program ends,   *)
(* or Wrap, as long as the byte with the bit itself is in the buffer.       *)
MarkerFits == write_index + HeaderSize <= Capacity

WrapOverruns ==
  /\ pc = "wrap"
  /\ ~MustDrainUpper
  /\ ~MarkerFits
  /\ pc' = "overrun"
  /\ UNCHANGED <<total_size, result, context, headers, fifo>>

(* Second loop: the entries the new one, and a marker behind it, would      *)
(* overlap go.                                                              *)
ReclaimClean ==
  /\ pc = "reclaim"
  /\ MustReclaim
  /\ ForceClean

(* Behind the second loop: the header is written, and the bytes that follow *)
(* are the caller's to fill.                                                *)
AllocateCommit ==
  /\ pc = "reclaim"
  /\ ~MustReclaim
  /\ end_of_buffer' = [a \in Address |->
       IF a = write_index THEN {FALSE}
       ELSE IF write_index < a /\ a < write_index + total_size THEN BOOLEAN
       ELSE end_of_buffer[a]]
  /\ size' = [size EXCEPT ![write_index] = total_size]
  /\ locks' = [locks EXCEPT ![write_index] = 0]
  /\ active' = [active EXCEPT ![write_index] = FALSE]
  /\ entry_count' = entry_count + 1
  /\ occupied_bytes' = occupied_bytes + total_size
  /\ write_index' = write_index + total_size
  /\ fifo' = Append(fifo, [addr |-> write_index, size |-> total_size])
  /\ pc' = "idle" /\ total_size' = 0 /\ result' = "SUCCESS"
  /\ UNCHANGED read_index

AllocateStep ==
  WrapClean \/ Wrap \/ WrapOverruns \/ ReclaimClean \/ AllocateCommit

-----------------------------------------------------------------------------
(* What callers do to the header of an entry they were given: publish it,   *)
(* withdraw it (the hash map's put and delete), lock and unlock it.         *)
SetActive(a, b) ==
  /\ active' = [active EXCEPT ![a] = b]
  /\ UNCHANGED <<pc, total_size, result, context,
                 end_of_buffer, size, locks, fifo>>

AcquireLock(a) ==
  /\ ~LockIsFull(locks[a])
  /\ locks' = [locks EXCEPT ![a] = LockAcquired(@)]
  /\ UNCHANGED <<pc, total_size, result, context,
                 end_of_buffer, size, active, fifo>>

ReleaseLock(a) ==
  /\ locks[a] # 0
  /\ locks' = [locks EXCEPT ![a] = LockReleased(@)]
  /\ UNCHANGED <<pc, total_size, result, context,
                 end_of_buffer, size, active, fifo>>

(* The contract of the callers: they touch only entries of the queue.       *)
Caller ==
  /\ pc = "idle"
  /\ \E i \in DOMAIN fifo :
       \/ \E b \in BOOLEAN : SetActive(fifo[i].addr, b)
       \/ AcquireLock(fifo[i].addr)
       \/ ReleaseLock(fifo[i].addr)

Allocate(n) == AllocateOversized(n) \/ AllocateBegin(n)

Next ==
  \/ \E p \in PayloadSizes : Allocate(TotalSize(p))
  \/ AllocateStep
  \/ Caller

Spec == Init /\ [][Next]_vars

(* The loops run to their end: nothing interrupts the one thread.           *)
FairSpec == Spec /\ WF_vars(AllocateStep)

-----------------------------------------------------------------------------
(* memory_queue_clean, which the tests call and the server does not: the    *)
(* oldest entry goes when it is inactive or has expired.                    *)
Clean(expired) ==
  /\ pc = "idle"
  /\ entry_count > 0
  /\ ~active[read_index] \/ expired
  /\ \/ RemoveEntry /\ result' = "SUCCESS"
     \/ /\ locks[read_index] # 0
        /\ result' = "WRITE_BLOCKED"
        /\ UNCHANGED <<context, headers, fifo>>
  /\ UNCHANGED <<pc, total_size>>

ApiNext == Next \/ \E expired \in BOOLEAN : Clean(expired)

ApiSpec == Init /\ [][ApiNext]_vars

-----------------------------------------------------------------------------
(* Properties.                                                              *)

End(i) == fifo[i].addr + fifo[i].size

Overlap(a, m, b, n) == a < b + n /\ b < a + m

(* Every variable keeps the type of its C declaration, and every owned      *)
(* extent starts inside the buffer.                                         *)
TypeOK ==
  /\ pc \in {"idle", "wrap", "reclaim", "overrun"}
  /\ total_size \in 0 .. Capacity
  /\ result \in {"NONE", "SUCCESS", "OUT_OF_MEMORY", "WRITE_BLOCKED"}
  /\ entry_count \in Nat /\ occupied_bytes \in Int
  /\ read_index \in Address /\ write_index \in Address
  /\ end_of_buffer \in [Address -> SUBSET BOOLEAN]
  /\ size \in [Address -> 0 .. Capacity]
  /\ locks \in [Address -> LockCount]
  /\ active \in [Address -> BOOLEAN]
  /\ fifo \in Seq([addr : Address, size : 0 .. Capacity])

(* No two entries the queue has handed out and not removed share a byte,    *)
(* and none reaches past the buffer: the wrap-around and reclaim conditions *)
(* of memory_queue_allocate leave room for exactly what they hand out.      *)
ExtentsDisjoint ==
  \A i \in DOMAIN fifo :
    /\ End(i) <= Capacity
    /\ \A k \in DOMAIN fifo :
         i # k => ~Overlap(fifo[i].addr, fifo[i].size, fifo[k].addr, fifo[k].size)

(* read_index and entry_count, which are all the queue keeps, lead to the   *)
(* oldest entry, and the chain of headers and markers read from there gives *)
(* back every entry in the order of its allocation.  No bit that steers the *)
(* walk from one entry to the next is a leftover of a key or value.         *)
ChainLeadsToEntries ==
  /\ entry_count = Len(fifo)
  /\ fifo # << >> => read_index = fifo[1].addr
  /\ \A i \in DOMAIN fifo :
       /\ size[fifo[i].addr] = fifo[i].size
       /\ i + 1 \in DOMAIN fifo =>
            \/ /\ end_of_buffer[End(i)] = {TRUE}
               /\ fifo[i + 1].addr = 0
            \/ /\ end_of_buffer[End(i)] = {FALSE}
               /\ fifo[i + 1].addr = End(i)

(* The assertion entry_count > 0 of force_clean holds whenever either loop  *)
(* calls it, and the bit remove_entry then reads behind the removed entry   *)
(* lies in the buffer and was written by the queue.                         *)
ForceCleanIsSafe ==
  \/ pc = "wrap" /\ MustDrainUpper
  \/ pc = "reclaim" /\ MustReclaim
  => LET following == read_index + size[read_index] IN
     /\ entry_count > 0
     /\ following < Capacity
     /\ \E b \in BOOLEAN : end_of_buffer[following] = {b}

(* Between calls there is room for one more header behind the newest entry, *)
(* clear of every other entry and inside the buffer: what the               *)
(* "+ sizeof(entry_header_t)" of both conditions is for.  There are two     *)
(* exceptions.  A write_index of 0 left by a blocked allocation has no room *)
(* yet; and a newest entry that leaves less than a header of an otherwise   *)
(* empty buffer, which line 53 admits, has none inside the buffer: behind   *)
(* it alone does the next allocation write past the end (WrapOverruns).     *)
MarkerRoom ==
  pc = "idle" /\ write_index # 0 =>
    /\ \A i \in DOMAIN fifo :
         ~Overlap(write_index, HeaderSize, fifo[i].addr, fifo[i].size)
    /\ MarkerFits \/ fifo[Len(fifo)].size + HeaderSize > Capacity

(* The sums of the sizes of the first entries of s.                         *)
Sums(s) ==
  LET sum[i \in 0 .. Len(s)] == IF i = 0 THEN 0 ELSE sum[i - 1] + s[i].size
  IN  sum

(* occupied_bytes is the sum of the sizes of the entries, in spite of being *)
(* maintained from headers that live inside the buffer.                     *)
OccupiedBytesExact == occupied_bytes = Sums(fifo)[Len(fifo)]

(* While a connection sends an entry, no step removes the entry, moves it   *)
(* or rewrites its header, and its lock changes by one reader at a time.    *)
LockedEntriesStay ==
  [][\A i \in DOMAIN fifo :
       LET a == fifo[i].addr IN
       locks[a] > 0 =>
         /\ \E k \in DOMAIN fifo' : fifo'[k] = fifo[i]
         /\ size'[a] = size[a]
         /\ locks'[a] \in {locks[a] - 1, locks[a], locks[a] + 1}]_vars

(* Every allocation returns, or has overrun the buffer: the two loops of    *)
(* memory_queue_allocate end.                                               *)
AllocationReturns == pc # "idle" ~> pc \in {"idle", "overrun"}

(* The queue implements the first-in first-out store of EntryFifo.          *)
Entries ==
  [i \in DOMAIN fifo |-> [addr |-> fifo[i].addr, size |-> fifo[i].size,
                          locks |-> locks[fifo[i].addr]]]

Fifo == INSTANCE EntryFifo WITH entries <- Entries

ImplementsFifo == Fifo!Spec

(* memory_queue_clean leaves an emptied queue with its two indices together *)
(* (test_memory_queue.c:74-75).                                             *)
EmptiedQueueIndicesMeet ==
  [][fifo # << >> /\ fifo' = << >> /\ pc = "idle" => read_index' = write_index']_vars

-----------------------------------------------------------------------------
(* How the entries lie in the buffer: the inductive invariant.              *)

(* write_index has restarted from 0 and read_index has not followed yet.    *)
Wrapped == write_index <= read_index

(* Entry i lies above the gap between write_index and read_index.           *)
Upper(i) == fifo[i].addr >= read_index

Indices ==
  /\ entry_count = Len(fifo)
  /\ fifo = << >> => read_index = 0 /\ write_index = 0
  /\ fifo # << >> => read_index = fifo[1].addr
  /\ fifo # << >> /\ Wrapped /\ write_index # 0
       => write_index + HeaderSize < read_index

Placement ==
  \A i \in 1 .. Len(fifo) :
    /\ HeaderSize <= fifo[i].size
    /\ End(i) <= Capacity
    /\ size[fifo[i].addr] = fifo[i].size
    /\ fifo[i].addr # 0 => end_of_buffer[fifo[i].addr] = {FALSE}
    /\ IF Wrapped THEN Upper(i) \/ End(i) <= write_index
                  ELSE Upper(i) /\ End(i) <= write_index

Order ==
  \A i, k \in 1 .. Len(fifo) :
    i < k => /\ \/ End(i) <= fifo[k].addr
                \/ Wrapped /\ Upper(i) /\ End(k) <= write_index
             /\ Upper(k) => Upper(i)

Adjacency ==
  \A i \in 1 .. Len(fifo) :
    IF i < Len(fifo)
    THEN \/ fifo[i + 1].addr = End(i)
         \/ fifo[i + 1].addr = 0 /\ end_of_buffer[End(i)] = {TRUE} /\ Upper(i)
    ELSE \/ write_index = End(i)
         \/ write_index = 0 /\ end_of_buffer[End(i)] = {TRUE}

Request ==
  /\ pc # "idle" => HeaderSize <= total_size
  /\ pc = "reclaim" => write_index + total_size <= Capacity

(* How far the newest entry reaches, and that nothing is written behind the *)
(* buffer.                                                                  *)
Reach ==
  /\ pc = "reclaim" /\ write_index # 0
       => write_index + total_size + HeaderSize < Capacity
  /\ write_index # 0
       => MarkerFits \/ write_index = fifo[Len(fifo)].size
  /\ end_of_buffer[Capacity] = BOOLEAN

Layout == Indices /\ Placement /\ Order /\ Adjacency /\ Request /\ Reach
=============================================================================
