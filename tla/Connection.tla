----------------------------- MODULE Connection -----------------------------
(***************************************************************************)
(* The protocol state machine of connection.c, with the hash map it looks  *)
(* entries up in (entry_hash_map.c) and the memory queue it allocates them *)
(* from (MemoryQueue.tla, whose variables this module declares).           *)
(*                                                                         *)
(* One action is one call of connection_proc: one recv or send, and the    *)
(* event handler behind it when it was the last of its transfer.  Only     *)
(* memory_queue_allocate is spread over several steps, the iterations of   *)
(* its loops.                                                              *)
(***************************************************************************)
EXTENDS ServerLoop, EntryHeader, Integers, FiniteSets, SequencesExt

CONSTANTS
  Key, Value,
  Empty,         \* the value of size 0
  Torn,          \* what is left of an entry whose bytes another one was given
  KeySizes,      \* the sizes a GET or DELETE may announce for its key
  Heap,          \* a pointer to memory malloc returned, outside the buffer
  RequestTypes,  \* the requests clients send
  MaxPuts,       \* bound: PUT requests sent
  HeapFails,     \* {FALSE}, or BOOLEAN when malloc and hashmap_set may fail
  Capacity, HeaderSize, SizeModulus, PayloadSizes

ASSUME ConnectionAssumption ==
  /\ {NULL, Torn} \intersect (Key \union Value \union {Empty}) = {}
  /\ NULL # Torn
  /\ Empty \notin Value
  /\ KeySizes \subseteq {0, 1}
  /\ RequestTypes \subseteq {"GET", "PUT", "DELETE", "PING", "UNKNOWN",
                             "BAD_VERSION"}
  /\ MaxPuts \in Nat
  /\ HeapFails \in (SUBSET BOOLEAN) \ {{}}
  /\ Heap # NULL
  /\ {NULL, Heap} \intersect (0 .. Capacity) = {}

VARIABLES
  buckets,                  \* the hash map: addresses by hash of their key
  key_bytes, value_bytes,   \* key and value in the buffer, by entry address;
                            \* NULL when the bytes spell none
  store,                    \* history: the value last put under every key
  puts,                     \* how many PUT requests were sent
  pc, total_size, result, entry_count, occupied_bytes, read_index,
  write_index, end_of_buffer, size, locks, active, fifo

mapVars == <<buckets, key_bytes, value_bytes, store>>
queueVars == <<pc, total_size, result, entry_count, occupied_bytes, read_index,
               write_index, end_of_buffer, size, locks, active, fifo>>
vars == <<loopVars, mapVars, puts, queueVars>>

Queue == INSTANCE MemoryQueue

ASSUME QueueAssumption == Queue!MemoryQueueAssumption

(* A key and a value are one unit each, or empty; no entry has more than    *)
(* both, but one that is too large for the buffer.                          *)
ASSUME UnitsAssumption ==
  \A p \in PayloadSizes : p \in 0 .. 2 \/ HeaderSize + p > Capacity

(* The buffer holds every entry the clients put, and a marker: nothing is   *)
(* evicted.                                                                 *)
HasRoom == MaxPuts * (HeaderSize + 2) + HeaderSize < Capacity

Init ==
  /\ LoopInit
  /\ Queue!Init
  /\ buckets = [k \in Key |-> << >>]
  /\ key_bytes = [a \in Queue!Address |-> NULL]
  /\ value_bytes = [a \in Queue!Address |-> NULL]
  /\ store = [k \in Key |-> NULL]
  /\ puts = 0

-----------------------------------------------------------------------------
(* The n bytes at a are given to a new entry, or to a marker: whatever was  *)
(* an entry that starts elsewhere and has bytes there is one no longer.     *)
Given(a, n) ==
  [x \in Queue!Address |->
     IF x # a /\ Queue!Overlap(x, size[x], a, n) THEN Torn ELSE key_bytes[x]]

IsTorn(a) == key_bytes[a] = Torn

(* The hash map holds pointers, by the hash of the key they were put under. *)
(* A probe for k stops at a bucket with that hash whose entry, read through *)
(* the pointer, has the key k NOW.  Buckets of one hash are in no           *)
(* particular order: displacements and resizes reorder them (HashTable.tla).*)
Hits(k, bytes) ==
  {i \in DOMAIN buckets[k] :
     bytes[buckets[k][i]] = k /\ size[buckets[k][i]] > HeaderSize}

(* entry_hash_map_get: what it may return. *)
MapGet(k) ==
  IF Hits(k, key_bytes) = {} THEN {NULL}
  ELSE {buckets[k][i] : i \in Hits(k, key_bytes)}

(* A seeded slip, which a run must notice: the map keeps both entries. *)
MapPutBehind(a, bytes) ==
  /\ buckets' = [buckets EXCEPT ![bytes[a]] = Append(@, a)]
  /\ UNCHANGED queueVars

(* entry_hash_map_put of the entry at a: it takes the bucket of an entry    *)
(* with the same key, which is made inactive, or a new bucket.  Nothing     *)
(* ever makes the entry itself active.                                      *)
MapPut(a, bytes) ==
  LET k == bytes[a] IN
  \/ /\ Hits(k, bytes) = {}
     /\ buckets' = [buckets EXCEPT ![k] = Append(@, a)]
     /\ UNCHANGED queueVars
  \/ \E i \in Hits(k, bytes) :
       /\ buckets' = [buckets EXCEPT ![k][i] = a]
       /\ Queue!SetActive(buckets[k][i], FALSE)

(* A seeded slip, which a run must notice: the pointer stays in the map. *)
MapDeleteInactiveOnly(k) ==
  \/ /\ Hits(k, key_bytes) = {}
     /\ UNCHANGED <<buckets, queueVars>>
  \/ \E i \in Hits(k, key_bytes) :
       /\ UNCHANGED buckets
       /\ Queue!SetActive(buckets[k][i], FALSE)

(* entry_hash_map_delete *)
MapDelete(k) ==
  \/ /\ Hits(k, key_bytes) = {}
     /\ UNCHANGED <<buckets, queueVars>>
  \/ \E i \in Hits(k, key_bytes) :
       /\ buckets' = [buckets EXCEPT ![k] = RemoveAt(@, i)]
       /\ Queue!SetActive(buckets[k][i], FALSE)

(* Two seeded slips of a release: it is forgotten, and it releases for all. *)
ReleaseForgotten(a) == UNCHANGED queueVars

ReleaseForAll(a) ==
  /\ locks' = [locks EXCEPT ![a] = 0]
  /\ UNCHANGED <<pc, total_size, result, entry_count, occupied_bytes,
                 read_index, write_index, end_of_buffer, size, active, fifo>>

(* entry_header_release_lock of the header a pointer leads to, whose entry  *)
(* may be long gone.                                                        *)
ReleaseLock(a) ==
  /\ locks' = [locks EXCEPT ![a] = LockReleased(@)]
  /\ UNCHANGED <<pc, total_size, result, entry_count, occupied_bytes,
                 read_index, write_index, end_of_buffer, size, active, fifo>>

-----------------------------------------------------------------------------
(* A seeded slip, which a run must notice: the state is not set. *)
SendHeaderWithoutState(k, type) == [k EXCEPT !.type = type, !.remaining = 1]

(* send_header, init_request and finish_request. *)
SendHeader(k, type) ==
  [k EXCEPT !.type = type, !.remaining = 1, !.state = "SENDING_HEADER"]

FinishRequest(c, k) ==
  IF k.keep_alive THEN Return(c, NewRequest, "NEW_REQUEST")
                  ELSE Return(c, k, "DISCONNECT")

(* It is the turn of connection c, in state s. *)
Turn(c, s) ==
  /\ fault = "none"
  /\ pc = "idle"
  /\ current = c
  /\ conn[c].state = s

(* The transfer of that turn can move something: recv and send of 0 bytes   *)
(* return 0, which connection_transfer takes for a socket that is not ready.*)
Moves(c, s) == Turn(c, s) /\ conn[c].remaining > 0

-----------------------------------------------------------------------------
(* connection_transfer: nothing was transferred, because the socket is not  *)
(* ready, the client has closed its end, or nothing remains to transfer.    *)
NoTransfer(c) ==
  /\ \E s \in ReceivingStates \union SendingStates : Turn(c, s)
  /\ Return(c, conn[c], "NO_TRANSFER")
  /\ UNCHANGED <<mapVars, puts, queueVars>>

(* A pointer that connection c is about to follow leads to other bytes than *)
(* when c was given it.  The value it sends is in part another entry's; or  *)
(* the body of its PUT would not fall into an entry of that size, or not    *)
(* behind the key it sent.                                                  *)
Strays(c) ==
  LET a == conn[c].entry
      payload == conn[c].remaining + (IF conn[c].key = NULL THEN 0 ELSE 1)
  IN  \/ conn[c].locked /\ IsTorn(a)
      \/ /\ conn[c].state = "RECEIVING_BODY" /\ conn[c].type = "PUT"
         /\ \/ IsTorn(a) \/ size[a] # HeaderSize + payload
            \/ conn[c].key # NULL /\ key_bytes[a] \notin Key

(* A turn that follows such a pointer, or compares keys with an entry that  *)
(* is torn.  It reads and writes headers, keys and values anywhere in the   *)
(* buffer and behind it: the model does not follow the program any further. *)
StrayPointer(c) ==
  /\ \/ \E s \in ReceivingStates \union SendingStates : Moves(c, s) /\ Strays(c)
     \/ c \in MayFail /\ \E s \in SendingStates : Turn(c, s) /\ Strays(c)
     \/ /\ Moves(c, "RECEIVING_BODY")
        /\ \E k \in Key : \E i \in DOMAIN buckets[k] : IsTorn(buckets[k][i])
  /\ Fail("stray_pointer")
  /\ UNCHANGED <<mapVars, puts, queueVars>>

(* A transfer that moves part of what remains, after which there is no      *)
(* event: it changes nothing but whose turn comes next, and the bytes of    *)
(* the entry the body of a PUT is received into.                            *)
PartialPutBody(c) ==
  LET a == conn[c].entry IN
  /\ Moves(c, "RECEIVING_BODY")
  /\ conn[c].type = "PUT"
  /\ ~Strays(c)
  /\ IF conn[c].key = NULL
     THEN /\ key_bytes' = [key_bytes EXCEPT ![a] = NULL]
          /\ UNCHANGED value_bytes
     ELSE /\ value_bytes' = [value_bytes EXCEPT ![a] = NULL]
          /\ UNCHANGED key_bytes
  /\ Return(c, conn[c], "SUCCESS")

PartialTransfer(c) ==
  /\ \/ /\ Moves(c, "RECEIVING_HEADER")
        /\ Return(c, [conn[c] EXCEPT !.remaining = 1], "SUCCESS")
        /\ UNCHANGED <<key_bytes, value_bytes>>
     \/ /\ \E s \in (ReceivingStates \union SendingStates)
                    \ {"RECEIVING_HEADER"} : Moves(c, s)
        /\ ~(conn[c].state = "RECEIVING_BODY" /\ conn[c].type = "PUT")
        /\ Return(c, conn[c], "SUCCESS")
        /\ UNCHANGED <<key_bytes, value_bytes>>
     \/ PartialPutBody(c)
  /\ UNCHANGED <<buckets, store, puts, queueVars>>

(* connection_transfer: the socket failed.  The free of an allocated buffer *)
(* is given connection->buffer, which is not what malloc returned.          *)
SocketFailsInFree(c) ==
  /\ c \in MayFail
  /\ \E s \in ReceivingStates \union SendingStates : Turn(c, s)
  /\ conn[c].allocated
  /\ Fail("invalid_free")
  /\ UNCHANGED <<mapVars, puts, queueVars>>

SocketFails(c) ==
  /\ c \in MayFail
  /\ \E s \in ReceivingStates \union SendingStates : Turn(c, s)
  /\ ~conn[c].allocated
  /\ ~(conn[c].locked /\ IsTorn(conn[c].entry))
  /\ IF conn[c].locked
     THEN LET a == conn[c].entry IN
          /\ ReleaseLock(a)
          /\ Return(c, [conn[c] EXCEPT !.event = ReleaseEvent(locks'[a])],
                    "DISCONNECT")
     ELSE /\ Return(c, conn[c], "DISCONNECT")
          /\ UNCHANGED queueVars
  /\ UNCHANGED <<mapVars, puts>>

(* A send to a connection the client has reset raises SIGPIPE, which main   *)
(* does not ignore.                                                         *)
SendSignals(c) ==
  /\ c \in MayFail
  /\ \E s \in SendingStates : Turn(c, s)
  /\ Fail("sigpipe")
  /\ UNCHANGED <<mapVars, puts, queueVars>>

(* connection_transfer in a state that transfers nothing: assert(0). *)
TransferUnsupported(c) ==
  /\ \E s \in AwaitingStates : Turn(c, s)
  /\ Fail("unsupported_transfer")
  /\ UNCHANGED <<mapVars, puts, queueVars>>

-----------------------------------------------------------------------------
(* event_received_header *)
HeaderReceived(type, keep) ==
  LET k == [NewRequest EXCEPT !.type = type, !.request = type,
                              !.keep_alive = keep] IN
  CASE type = "BAD_VERSION" -> SendHeader(NewRequest, "UNSUPPORTED_VERSION")
    [] type = "PING" -> SendHeader(k, "PONG")
    [] type \in {"GET", "DELETE", "PUT"} ->
         [k EXCEPT !.state = "RECEIVING_ARGUMENTS", !.remaining = 1]
    [] OTHER -> SendHeader(k, "UNKNOWN_REQUEST")

ReceiveHeader(c) ==
  /\ Moves(c, "RECEIVING_HEADER")
  /\ \E type \in RequestTypes, keep \in BOOLEAN :
       /\ type = "PUT" => puts < MaxPuts
       /\ puts' = IF type = "PUT" THEN puts + 1 ELSE puts
       /\ Return(c, HeaderReceived(type, keep), "SUCCESS")
  /\ UNCHANGED <<mapVars, queueVars>>

(* event_received_arguments of a GET or DELETE: room for the key.           *)
ReceiveKeyArguments(c) ==
  /\ Moves(c, "RECEIVING_ARGUMENTS")
  /\ conn[c].type \in {"GET", "DELETE"}
  /\ \E fails \in HeapFails, key_size \in KeySizes :
       Return(c,
         IF fails
         THEN SendHeader(conn[c], "OUT_OF_MEMORY")
         ELSE [conn[c] EXCEPT !.state = "RECEIVING_BODY", !.entry = Heap,
                              !.remaining = key_size, !.allocated = TRUE],
         "SUCCESS")
  /\ UNCHANGED <<mapVars, puts, queueVars>>

(* event_received_arguments of a PUT, hence attempt_memory_write: an entry  *)
(* that can never fit is answered at once, any other enters the loops of    *)
(* memory_queue_allocate.                                                   *)
ReceivePutArguments(c) ==
  /\ Moves(c, "RECEIVING_ARGUMENTS")
  /\ conn[c].type = "PUT"
  /\ \E p \in PayloadSizes :
       \/ /\ Queue!AllocateOversized(Queue!TotalSize(p))
          /\ Return(c, SendHeader(conn[c], "OUT_OF_MEMORY"), "SUCCESS")
       \/ /\ Queue!AllocateBegin(Queue!TotalSize(p))
          /\ UNCHANGED loopVars
  /\ UNCHANGED <<mapVars, puts>>

(* One iteration of the loops.  force_clean takes an entry out of the map   *)
(* when it is active.  The marker falls into bytes that may have been an    *)
(* entry's.                                                                 *)
Allocating == fault = "none" /\ pc # "idle"

CleanMap ==
  LET cleans == IF pc = "wrap" THEN Queue!MustDrainUpper ELSE Queue!MustReclaim
      k == key_bytes[read_index]
  IN  IF cleans /\ active[read_index] /\ Hits(k, key_bytes) # {}
      THEN \E i \in Hits(k, key_bytes) :
             buckets' = [buckets EXCEPT ![k] = RemoveAt(@, i)]
      ELSE buckets' = buckets

AllocateLoop ==
  /\ Allocating
  /\ Queue!AllocateStep
  /\ pc' # "idle"
  /\ CleanMap
  /\ key_bytes' = IF pc = "wrap" /\ pc' = "reclaim"
                  THEN Given(write_index, HeaderSize) ELSE key_bytes
  /\ UNCHANGED <<loopVars, value_bytes, store, puts>>

(* A seeded slip, which a run must notice: the header is counted in. *)
WriteGrantedWithHeader(k) ==
  [k EXCEPT !.state = "RECEIVING_BODY", !.remaining = total_size,
            !.entry = write_index]

(* attempt_memory_write, once the allocation has returned: the entry is     *)
(* where write_index was, also when the allocation gave up.                 *)
WriteGranted(k) ==
  [k EXCEPT !.state = "RECEIVING_BODY", !.remaining = total_size - HeaderSize,
            !.entry = write_index]

WriteRefused(k) ==
  [k EXCEPT !.state = "AWAITING_WRITE_UNBLOCK", !.remaining = 0,
            !.entry = write_index]

(* The last iteration, and attempt_memory_write's tail.  The bytes at the   *)
(* entry's own address are what they were; a torn entry left none to spell. *)
AllocateReturns ==
  /\ Allocating
  /\ Queue!AllocateStep
  /\ pc' = "idle"
  /\ CleanMap
  /\ IF result' = "SUCCESS"
     THEN LET left(bytes) == IF IsTorn(write_index) THEN NULL ELSE bytes IN
          /\ key_bytes' = [Given(write_index, total_size)
                             EXCEPT ![write_index] = left(@)]
          /\ value_bytes' = [value_bytes EXCEPT ![write_index] = left(@)]
          /\ Return(current, WriteGranted(conn[current]), "SUCCESS")
     ELSE /\ UNCHANGED <<key_bytes, value_bytes>>
          /\ Return(current, WriteRefused(conn[current]), "WRITE_BLOCKED")
  /\ UNCHANGED <<store, puts>>

-----------------------------------------------------------------------------
(* event_received_body of a GET: look the key up, and attempt_memory_read.  *)
GetBody(c, k, a) ==
  LET got == [conn[c] EXCEPT !.entry = a, !.allocated = FALSE, !.key = k,
                             !.expected = store[k]]
  IN  IF a = NULL
      THEN /\ Return(c, SendHeader(got, "NOT_FOUND"), "SUCCESS")
           /\ UNCHANGED queueVars
      ELSE IF LockIsFull(locks[a])
      THEN /\ Return(c, [got EXCEPT !.state = "AWAITING_READ_UNBLOCK",
                                    !.remaining = 0], "READ_BLOCKED")
           /\ UNCHANGED queueVars
      ELSE /\ Queue!AcquireLock(a)
           /\ Return(c, SendHeader([got EXCEPT !.locked = TRUE], "VALUE"),
                     "SUCCESS")

ReceiveGetBody(c) ==
  /\ Moves(c, "RECEIVING_BODY")
  /\ conn[c].type = "GET"
  /\ \E k \in Key : \E a \in MapGet(k) : GetBody(c, k, a)
  /\ UNCHANGED <<mapVars, puts>>

(* event_received_body of a DELETE.  The buffer is freed, its flag stays.   *)
ReceiveDeleteBody(c) ==
  /\ Moves(c, "RECEIVING_BODY")
  /\ conn[c].type = "DELETE"
  /\ \E k \in Key :
       /\ MapDelete(k)
       /\ store' = [store EXCEPT ![k] = NULL]
       /\ Return(c, SendHeader([conn[c] EXCEPT !.key = k], "OK"), "SUCCESS")
  /\ UNCHANGED <<key_bytes, value_bytes, puts>>

(* The key of a PUT arrives, in a transfer that ends in front of its value  *)
(* or inside it.  It is received into the entry, wherever the entry has     *)
(* gone since.                                                              *)
ReceivePutKey(c) ==
  LET a == conn[c].entry IN
  /\ Moves(c, "RECEIVING_BODY")
  /\ conn[c].type = "PUT"
  /\ conn[c].remaining = 2
  /\ ~Strays(c)
  /\ \E k \in Key, v \in {value_bytes[a], NULL} :
       /\ key_bytes' = [key_bytes EXCEPT ![a] = k]
       /\ value_bytes' = [value_bytes EXCEPT ![a] = v]
       /\ Return(c, [conn[c] EXCEPT !.remaining = 1, !.key = k], "SUCCESS")
  /\ UNCHANGED <<buckets, store, puts, queueVars>>

(* The rest of a PUT arrives, and event_received_body puts the entry in the *)
(* hash map, under the key its bytes spell by now.  Of a PUT with an empty  *)
(* value the rest is its key.                                               *)
ReceivePutBody(c) ==
  LET a == conn[c].entry
      keyComes == conn[c].key = NULL
      valueComes == keyComes => conn[c].remaining = 2
  IN
  /\ Moves(c, "RECEIVING_BODY")
  /\ conn[c].type = "PUT"
  /\ ~Strays(c)
  /\ \E k \in (IF keyComes THEN Key ELSE {conn[c].key}),
        v \in (IF valueComes THEN Value ELSE {Empty}), fails \in HeapFails :
       /\ key_bytes' = IF keyComes
                       THEN [key_bytes EXCEPT ![a] = k] ELSE key_bytes
       /\ value_bytes' = [value_bytes EXCEPT ![a] = v]
       /\ IF fails
          THEN /\ Return(c, SendHeader([conn[c] EXCEPT !.key = k],
                                       "OUT_OF_MEMORY"), "SUCCESS")
               /\ UNCHANGED <<buckets, store, queueVars>>
          ELSE /\ MapPut(a, key_bytes')
               /\ store' = [store EXCEPT ![k] = v]
               /\ Return(c, SendHeader([conn[c] EXCEPT !.key = k], "OK"),
                         "SUCCESS")
  /\ UNCHANGED puts

-----------------------------------------------------------------------------
ErrorTypes == {"OUT_OF_MEMORY", "UNKNOWN_REQUEST", "UNSUPPORTED_VERSION"}

(* value_size in the header at a.  Only an entry with a key has a value. *)
ValueSize(a) == IF size[a] = HeaderSize + 2 THEN 1 ELSE 0

(* event_sent_header: an error ends the connection, a value is sent next.   *)
SendResponseHeader(c) ==
  /\ Moves(c, "SENDING_HEADER")
  /\ ~Strays(c)
  /\ IF conn[c].type = "VALUE"
     THEN Return(c, [conn[c] EXCEPT !.state = "SENDING_BODY",
                                    !.remaining = ValueSize(conn[c].entry)],
                 "SUCCESS")
     ELSE FinishRequest(c, IF conn[c].type \in ErrorTypes
                           THEN [conn[c] EXCEPT !.keep_alive = FALSE]
                           ELSE conn[c])
  /\ UNCHANGED <<mapVars, puts, queueVars>>

(* event_sent_body: the lock is released.  A connection that keeps alive    *)
(* has forgotten the event by the time the loop looks for it.               *)
SendValue(c) ==
  LET a == conn[c].entry IN
  /\ Moves(c, "SENDING_BODY")
  /\ ~Strays(c)
  /\ ReleaseLock(a)
  /\ FinishRequest(c, [conn[c] EXCEPT !.locked = FALSE,
                                      !.event = ReleaseEvent(locks'[a])])
  /\ UNCHANGED <<mapVars, puts>>

(* connection_proc of connection c, when its transfer moves all of a unit.  *)
Transfer(c) ==
  \/ ReceiveHeader(c) \/ ReceiveKeyArguments(c) \/ ReceivePutArguments(c)
  \/ ReceiveGetBody(c) \/ ReceiveDeleteBody(c)
  \/ ReceivePutKey(c) \/ ReceivePutBody(c)
  \/ SendResponseHeader(c) \/ SendValue(c)
=============================================================================
