# CacheServer: a TLA+ verification

CacheServer is an in-memory key-value cache behind a small binary protocol over
TCP. One thread runs a loop over non-blocking sockets; values live in one
circular buffer; a hash map of pointers into that buffer finds them. This
directory models the program in `src/src/`, checks the models with TLC, and proves
with TLAPS that the allocator, the connection list, the hash table, the accept
period and the start are correct, that the loop holds no freed connection, and
that the server is an atomic map to its clients as long as the buffer has room.
Where this holds only up to some act of the program, the models name that act
(`WrapOverruns`, `StrayPointer`, `fault`).
Every safety property that a passing run checks is also proved.

## 1. Inventory

| component | state | operations | works with |
|---|---|---|---|
| server loop, `cache_server.c` | `current_connection`, time of the last accept | `cache_server_proc`, `accept_connection`, `get_next_connection`, `handle_lock_release_event` | every component below |
| connection, `connection.c` | per connection: state, flags, transfer position, `entry_header`, `lock_release_event`, list links | `connection_proc` (one transfer and its event), `connection_unblock_read/write` | hash map, memory queue, lock |
| connection list, `connection_list.c` | head, tail, count; links inside connections | append, remove | loop, blocked connections |
| blocked connections, `blocked_connections.c` | a list of lists, by entry and kind of block | add, pop | loop |
| memory queue, `memory_queue.c` | buffer, read and write index, entry count, bytes | allocate, clean, `force_clean`, `remove_entry` | hash map (takes evicted entries out), lock |
| entry header, `entry_header.c` | per entry: active, end of buffer, expiry, sizes, locks | acquire, release | connection, queue |
| hash map, `entry_hash_map.c` over `hashmap.c` | buckets with a hash and a pointer to an entry | get, put, delete | reads keys *through* the pointers |
| configuration, `configuration.c` | one pointer per option, to the heap or to a static default | parse, get | read at the start, the expiry at every PUT |
| clock, `time_util.c` | | `time_get_timestamp` | the accept period, the expiry of entries |
| `main.c` | | parse, open, loop | configuration, server loop |
| Python client, `cache_client.py` | a socket | open, ping, put, get, delete, close | the server, one blocking call at a time |

What is hard here is not parallelism, since there is one thread, but the
interleaving of connections that share the buffer through raw pointers:

* an allocation evicts entries while other connections send them, receive into
  them, or still find them through the hash map;
* the allocator keeps no list of its entries: everything depends on headers and
  marker bits inside a buffer whose other bytes clients write;
* keys and values have any sizes a client announces, so a pointer to an evicted
  entry may lead anywhere in what took its place;
* the loop holds a current and a next connection across a call that may free or
  block either;
* a connection may block, fail, stall or be moved between any two transfers;
* the loop polls: what it accepts, and when, hangs on a clock that can be set;
* `recv` and `send` return 0 for several reasons, which the code treats alike.

What makes each component correct:

* **queue**: entries never overlap, the chain of headers always leads to all of
  them in order, an entry being read stays, both loops end, oldest out first;
* **list**: the links spell one sequence in both directions;
* **loop**: it never holds a freed connection, starves nobody, never serves a
  connection that cannot transfer;
* **hash table**: what was put is found, whatever is displaced, shifted or moved,
  and its loops end;
* **connections and hash map**: a GET answers with what was put; every lock is
  released once, by the connection that took it;
* **the program**: while the buffer holds what was put, it is an atomic map;
* **accepting**: nobody waits for ever, and accepting does not crowd out serving;
* **the start**: the server is built from the last value given of each option.

`PROJECT.json` lists the hazards at their lines, each with the properties that
would show it going wrong, or the reason why none does yet.

## 2. Modules

| module | models | state and actions |
|---|---|---|
| `EntryHeader` | the reader lock | operators on a counter whose largest value is `LockCapacity`; a release of 0 wraps around, as the unsigned decrement does |
| `MemoryQueue` | `memory_queue.c` | one function per header field, by address; `pc` says which loop of `memory_queue_allocate` runs: `AllocateBegin`, then `WrapClean`* and `Wrap`, then `ReclaimClean`* and `AllocateCommit`; `AllocateOversized` and `WriteBlocked` are the early returns; `WrapOverruns` is a marker written past the buffer, after which `pc` is `"overrun"` |
| `EntryFifo` | what the queue promises | a sequence of extents: allocate one nobody owns, evict the oldest if unlocked, lock, unlock |
| `MemoryQueueProofs` | | the theorems about `MemoryQueue` |
| `ConnectionList` | `connection_list.c` | a record of head, tail, count and the links; `Appended`, `Removed`, and the order in which the server calls them |
| `ConnectionListProofs` | | the theorems about `ConnectionList`, and lemmas about sequences an element is taken out of |
| `ServerLoop` | `cache_server.c` | `Accept`; `Return(c, k, r)` is the rest of `cache_server_proc` once `connection_proc` left connection `c` as `k` and returned `r` |
| `Connection` | `connection.c`, `entry_hash_map.c` | one action per state and kind of transfer, each ending in `Return`; `StrayPointer` is the turn that follows a pointer into the middle of other bytes; it declares the variables of `MemoryQueue` and takes its actions through `Queue == INSTANCE MemoryQueue` |
| `HashTable` | `hashmap.c` as `entry_hash_map.c` uses it | buckets of pointer, stored hash and distance from home; `Set`, `SetFails`, `DeleteHit`, `DeleteMiss`, each a whole call with its resize, and `Rewrite`, a key that changes behind a pointer |
| `EntryMap` | what the hash map promises | a function from keys to entries; put and delete tell what they take out |
| `HashTableProofs` | | the theorems about `HashTable` |
| `NaturalLemmas` | | lemmas for several components: induction over the naturals, stated of sets, and remainders |
| `MCHashTable` | | the hashes and keys of the instances |
| `MCCacheServer` | | the symmetry of `evicting` |
| `CacheServer` | the program | `Next`, the fairness, and the properties of the whole |
| `ServerLoopProofs` | | what holds of the loop, of the queue and of all types, with eviction or without |
| `CacheServerProofs` | | what holds of the data while the buffer has room, and the refinement of `Cache` |
| `Cache` | what the program promises its clients | a map, and what each client is being answered: a request takes effect in one step, its answer stays until it is sent |
| `AcceptPeriod` | the other half of `cache_server_proc`: when it accepts | the clock, the timestamp, the queue of the listening socket; `AcceptTurn`, `ServeTurn`, `LeaveTurn`, and `Tick`, `Connect`, `Adjust` of the environment |
| `AcceptPeriodProofs` | | the theorems about `AcceptPeriod` |
| `Startup` | `configuration.c`, `cache_server_open`, `main` | the two states of the parser, the cells of the heap it allocates, then one action per call that may fail; `OpenFails` is their common error path |
| `StartupProofs` | | the theorems about `Startup` |
| `MCStartup` | | options, texts and their numbers |

`MemoryQueue` and the list are checked alone under callers that keep their
contracts. `CacheServer` then asks whether the server *is* such a caller:
`ListIsUsedAsMeant` is the list's `Spec`, `QueueIsUsedAsMeant` the queue's.
`ServesACache` is the `Spec` of `Cache`, with the map read out of the bytes the
hash map leads to and the answers out of the entries the connections hold.
`ServerLoop` leaves it open at every turn whether to accept, `AcceptPeriod` is about
that choice, and what it shows is what the fairness of the others rests on.

Definitions introduced as *seeded slips* (`ReclaimUnlessEqual`,
`CurrentAfterDangling`, ...) are part of no specification. Each is a plausible mistake
in one definition; put in its place, it makes the run named in `PROJECT.json`
fail, which shows that the property can see it.

### Abstractions

* **Time.** In `ServerLoop`, whether the accept period has passed is
  nondeterministic, so an accept may come at any turn; `AcceptPeriod` has the
  clock. Expiry is used only by `memory_queue_clean`,
  which the server never calls, and is a Boolean there.
* **What a turn does to the connections** is in `AcceptPeriod` only whether one
  of them leaves.
* **Transfers.** A connection moves units: half a request header, arguments,
  key, value, response header. A transfer may move none (not ready, or closed by
  the client: `recv` returning 0 is treated alike by the code), part of what remains
  (`PartialTransfer`), or a whole unit; the body of a PUT may stop between key and
  value, or inside either. A key or value that comes in parts counts with the
  transfer that brings its last byte; until then what lies in the entry spells
  none (`NULL`). A request header is two units. A unit of
  size 0 (`Empty`, an empty key) cannot be transferred: `recv` and `send` of 0 bytes
  return 0, which the code takes for a socket that is not ready (`Moves`).
* **Memory.** `MemoryQueue` works on addresses. Of the bytes that are not
  headers it keeps only what the end-of-buffer bit there may be: a set of
  Booleans, all of `BOOLEAN` where malloc or a client left something. In
  `Connection` key and value are kept by the address of their entry, and each is
  one byte or empty (`UnitsAssumption`). A `PayloadSizes` element too large for the
  buffer is refused. A payload of 1 is a key with an empty value; an empty key
  with a value is left out. Such a PUT is answered like any other, and no GET or
  DELETE reaches its entry, since theirs hang on an empty key.
* **A marker past the buffer** (`memory_queue.c:66`) is undefined in C. The model has
  both outcomes: the program ends (`WrapOverruns`), or goes on as if the marker
  had been written, as long as the byte with the bit is in the buffer (`Wrap`).
  Behind an entry as large as the buffer that byte is outside, and only the first is left.
* **Stale pointers.** Entries have several sizes, and nothing takes evicted ones out of
  the hash map or away from the connections that use them. `Connection` follows
  such pointers while they lead to bytes it can tell: those the entry left, or
  another entry at the same address, which is then found, locked, released, read or
  received into. An entry that lost bytes to another one, or to a marker, is
  `Torn`. The turn that follows a pointer to a torn entry, or would receive a
  body into an entry of another size, is `StrayPointer`. What it reads and writes
  may be anything, headers and bytes behind the buffer included, and the model follows
  the program no further: what is shown of the server with eviction is shown up to there.
* **Hash map.** In `Connection`, the pointers by the hash under which they were put;
  a probe compares the key read through the pointer *now* and may meet those of
  one hash in any order, because displacements and resizes reorder them. Distinct
  keys have distinct hashes there. `HashTable` has the table itself, with
  collisions of full hashes. One effect of it is left out of `Connection`: an
  insertion that displaces a pointer goes on comparing *that* one, and with keys
  that changed behind their pointers it can replace an item of a third key.
* **Loops of the hash table** are one step each: nothing runs in between. An
  insertion is a recursive function of the number of its rounds, over one lap
  (`Rounds`), a resize one of the buckets moved (`Moves`); a lookup and the shift
  of a deletion are given by where they stop.
* **Ends of the program.** A stray pointer, a failed assertion, `free` of a pointer malloc did
  not return (glibc aborts), SIGPIPE, and the loop in `blocked_connections_add`
  set `fault`, after which nothing happens, nor does it once `pc` is `"overrun"`. Those
  runs therefore do not check deadlock.
* **Failed accepts** change nothing. A failing `connection_init` forgets its
  client (`lost` in `AcceptPeriod`); in `ServerLoop` that is as if nobody came.
* **The command line** is chosen as it is read. Addresses are texts, and a port is
  its number modulo 2^16. A malloc of the parser that fails ends the program
  at the write that follows. A start that fails does not close the listening
  socket; the process exits.

## 3. Runs

| run | configuration | what it shows |
|---|---|---|
| `queue` | 12 bytes, headers of 2, entries of 3, 5, 11, 12 and 13, two readers per lock | layout, disjointness, the chain, both loops' ends, the locks and the refinement of `EntryFifo` |
| `queue_clean` | 8 bytes, headers of 2, entries of 3 and 4 | *violation*: cleaning the last entry sends `read_index` by a bit nobody wrote |
| `list` | five connections, a counter that wraps at 4 | the links through every order of operations |
| `roomy` | two connections, two keys, a value and the empty one, empty keys, every kind of request, one failing socket, malloc may fail, room for two entries, two PUTs | without eviction: the server implements `Cache`, GETs are linearizable at their lookup, locks count readers, the queue's contract is kept |
| `evicting` | three connections, four PUTs of entries of 2 and 3 bytes in a buffer of 6, a lock of one reader | the loop never dangles and uses the list as meant, through blocking and eviction; the code that unblocks connections is never reached; the queue stays sound although headers of evicted entries are locked and released and bodies received into them, up to a stray pointer |
| `answers` | two connections, GET, PUT, DELETE and a wrong version, empty keys and values, a PUT that is too large, room for the others; one client may stall for ever, close its end, or fail in every way a socket can | liveness: every open connection gets its turn, and requests of the other are answered, unless they come to a transfer of 0 bytes themselves or that failure ends the program |
| `accept` | period of 2, turns of up to 2, a clock of 16 values set twice, two clients, `connection_init` may fail | accepts come in time whatever becomes of the clock, a connection is served between two of them, whoever waits is accepted |
| `startup` | five options, eight arguments to choose from, command lines of up to five, malloc may fail | the parser amounts to "the last value given, or the default"; its frees are right; a failed start leaves neither map nor buffer |
| `hash_map` | six keys, two of one hash, tables of 4, 8 and 16 buckets, malloc may fail | while keys stay, the table implements `EntryMap`, what every call returns included |
| `hash_stale` | four entries, two of which change keys at any time | the structure stays sound, loops end, an entry just put is found, and what is done to other keys hides none |
| `blocks` | two connections, a buffer of one entry, two PUTs | *violation*: a blocked connection is served again, `assert(0)` |
| `stale_value` | one entry fits, two PUTs | *violation*: a GET sends what a later PUT writes |

### Bounds

* `queue`: three of the smallest entries fit, so each way of meeting the end
  occurs: exact fit, wrap with and without entries above the gap, evictions that
  cross the marker, blocking in either loop. Total sizes 12 and 13 lie on either side of
  the test against the capacity; behind 11 the marker begins in the buffer and ends outside.
  Its state space is finite without a bound. `queue_clean` needs a handful of steps.
* `list`: five connections give a head, a tail and three inner positions, so
  neighbours of a removed inner element may themselves be inner.
* server runs: `MaxPuts` bounds the PUT requests sent (GETs, DELETEs, failures
  and new connections are unbounded). `roomy` takes as many as fit, `stale_value`
  one more. `evicting` takes four, of which one or two fit: with fewer PUTs no
  reader is left behind by an eviction that another entry follows. A new entry lies
  where one of the other size began, ended or had its middle, with a reader, a
  receiver or the map still pointing there. Its connections are symmetric (`Alike`), so
  none of its sockets fails; `roomy` and `answers` have one that does, and the
  theorems any number.
* `answers`: the connection whose client does its part has one beside it whose client
  does anything, which may be ahead of it or behind it in the list. That a third one does not starve
  is neither checked nor proved: with three, the run takes too long.
* `accept`: a turn takes up to one period, so the period passes between any two
  turns or not; 16 clock values keep period, delay and a wrapped difference apart; two
  adjustments let one undo the other. `WaitedCap` stops a history counter beyond
  what the invariant allows.
* `startup`: five arguments are two options with values and a fifth, so an option
  may come twice, a value may look like an option, and a name may be left over.
  `PortModulus` is 16, with a number beyond it.
* hash runs: a first table of 4 buckets instead of 16 (`MinCap`), so that six keys
  make it grow twice and shrink with an entry left in it; homes at the last
  bucket make runs go around the end. `MaxCount` bounds the entries. `dib` has 16
  bits in the code, which a run of 65536 buckets would overflow: out of reach.
* `LockCapacity` is small so that locks fill; `CountModulus` so that the count
  wraps around.

### Fairness

`MemoryQueue!FairSpec` assumes weak fairness of the allocation's steps: a single
thread runs the loops. `CacheServer!FairSpec` makes these assumptions:

* weak fairness of `\E c : PassiveTurn(c)`: `main` calls `cache_server_proc` for
  ever, and although an accept may come at any turn, the accept period leaves turns
  in between. A passive turn asks nothing of an idle client: the current
  connection is passed over, or transfers because its request has begun. A
  weaker-looking "some connection is served" would force an idle client to send
  whenever passing it over changes nothing, and so hide starvation by the order
  of turns;
* strong fairness, *for a connection in the middle of a request only*, of a
  transfer that completes a unit: its client goes on sending what it announced
  and reading what it is sent, so that a socket whose turn comes again and
  again is found ready again and again. It is *not* assumed of the connections in
  `Stalling`, whose clients may stop in mid-request or close their end, which the server
  does not notice;
* of those, `UnitsAreFinite`: a client that stalls may also trickle parts of a
  unit, but a unit has finitely many bytes.

The server has no timeout (the TODO at `connection.c:399`), so without the second
assumption a request may stay for ever.

`AcceptPeriod!Spec`: turns are taken and time passes (weak fairness), and `accept`
does not fail for ever while somebody waits (strong fairness, since the turns in
between disable it). `AcceptPeriodAssumption` bounds a turn by the period
(`MaxDelay <= Period`). `ServedBetweenAccepts` needs it: were a turn to take
longer than the period, every turn could be an accept.

## 4. Proofs

Every theorem holds for every value of the constants that satisfies the named
assumptions, so for any number of connections, keys, values and bytes.

| module | theorems | of the runs' properties |
|---|---|---|
| `MemoryQueueProofs` | `TypesHold`, `LayoutHolds`, `ExtentsAreDisjoint`, `ChainHolds`, `ForceCleanHolds`, `MarkerRoomHolds`, `OccupiedBytesAreExact`, `LockedEntriesAreKept`, `QueueImplementsFifo` | all of `queue` but the liveness |
| `ConnectionListProofs` | `TypesHold`, `LinksHold`, `RemovesHold` | all of `list` |
| `ServerLoopProofs` | `CurrentIsAliveHolds`, `NothingToUnblockHolds`, `ListIsUsedAsMeantHolds`, `QueueStaysSoundHolds`, `ServerTypesHold` | all of `evicting`, and the types of `roomy` |
| `HashTableProofs` | `TypesAreKept`, `BucketsStayPlaced`, `ProbesAlwaysEnd`, `PutsAreAlwaysFound`, `FoundKeysStayFound`, `TableIsAMap` | all of `hash_map` and `hash_stale` |
| `CacheServerProofs` | `LocksCountReadersHolds`, `GetsAnswerTheStoreHolds`, `QueueIsUsedAsMeantHolds`, `ServesACacheHolds` | the others of `roomy` |
| `AcceptPeriodProofs` | `Timely`, `Served` | all of `accept` but the liveness |
| `StartupProofs` | `ValuesAreTheHeapHolds`, `ServesAsSaidHolds`, `FailedStartsLeaveNothingHolds` | all of `startup` |

### The memory queue

That entries do not overlap is not inductive: an allocation is
safe only because of where *all* entries lie relative to the two indices.
`Layout` says so. While `write_index > read_index`, every entry lies between the two.
After a wrap (`Wrapped`) the entries are in two groups, the upper ones at or
above `read_index` and the lower ones below `write_index`; the gap between is larger
than a header unless `write_index` is 0 (`Indices`, `Placement`). Older entries come
first within a group and the upper group first (`Order`); each entry is followed
in the buffer by the next one, or by a marker and the next one at 0
(`Adjacency`); a request that has passed the wrap fits (`Request`); and only an entry
that has the buffer to itself ends where no marker fits behind it (`Reach`), from
which follow `MarkerRoom` and that nothing changes the byte behind the buffer. One lemma
per action preserves each part. Overrunning changes nothing but `pc`, so what is proved
holds when it happens, too. `QueueImplementsFifo`: every step is a step of
`EntryFifo` or leaves it alone. `OccupiedBytesAreExact` is by induction over the
queue: a prefix keeps its sums (`SumsOfPrefix`), and without its first entry every
sum is smaller by that entry (`SumsOfTail`).

*Assumptions*: `MemoryQueueAssumption`: sizes are naturals, headers are not
empty, and no announced payload makes `total_size` wrap around. The last is a
contract of the callers: the server does not check it (`connection.c:226`, "TODO:
Validate arguments").

### The connection list

The invariant is `LinksSpellOrder` with the types, and with the order naming each
connection once (`Distinct`). The code removes and appends in one handler, and
in between the links are *not* those of a list: the connection that was
removed keeps its own, and `append` overwrites one of them and relies on the other.
`SpellsBut` says what holds there: the list spells its sequence
but for the links of that connection, which are NULL if it was the only one, the
case in which `append` leaves them alone. The count is a number modulo `CountModulus`, so
its argument is one about remainders (`Len` may exceed it).

### The hash table

The theorems hold for any hash function, so also where all keys collide, for any
first size from two buckets on, and whatever keys change behind the pointers
(`Rewritable`), except that `TableIsAMap` assumes that none does.

The invariant (`IInv`) is a table that is `Placed`: each occupied bucket lies its
`dib` behind its home, and none has come further than one step more than the one
in front of it; with it, that `count` is the number of occupied buckets and that
size and count fit (`Sized`), so that some bucket is empty. Two facts follow that
carry the rest: in front of a bucket, back to its home, all are occupied and
each has come as far as a probe that gets there (`Run`); and such a run is shorter
than the table (`RunIsShort`). So a probe meets every bucket of its hash
(`HeldIsFound`), and loops end (`InsertionEnds`).

The loops are followed round by round. `Progress` is the invariant of an
insertion: what is carried would be in its place where the loop is, and would
leave no gap there (`Carries`), whether it is the entry that is put or one displaced on
the way. A resize is a sequence of insertions (`MovedTo`). The shift of a deletion
(`Shifted`) ends before the first bucket that is empty or at home, because of which
the rest stays placed (`ShiftedPlaced`).

What this does to lookups goes by the pairs of hash and pointer a table
holds (`Holds`): an insertion adds one and loses none, unless it replaces an item
with the same hash and key (`InsertedHolds`); a resize keeps them; a deletion takes
one (`ShiftedHolds`). `PutsAreAlwaysFound` needs more, since another bucket may spell the
key that is put: the place it takes is the first on the way (`InsertedFirst`). While
no key changes, no two buckets have one hash and key (`Unique`); an insertion
then meets the key it replaces before it displaces anything (`InsertedKnown`), so the
table is the map of `EntryMap`, return values included.

`Rounds`, `Moves` and the sizes (`Doubled`) are recursive functions. That they are what
their recursion says is itself proved, by induction, in `RoundsUnfold`, `MovesUnfold`
and `Doubles`: the library's induction theorems cannot be instantiated, but
that every set of naturals with 0 and each successor is all of them
(`SetInduction`) follows from one about well-founded relations and serves as well.

*Assumptions*: `HashTableAssumption`: NULL is no entry, hashes are naturals, the first
table has two buckets or more.

### The server loop and the queue in it

These theorems have no assumption beyond those of `Connection`: they hold with
eviction and blocking, for entries of all sizes the model has, up to the turn that follows a stray
pointer. Those about the loop use nothing of what the connections transfer.

`LoopInv` joins the list's invariant with: the open connections are those of the
list and the blocked one; nobody is blocked but the current connection, and its
state then is an `AWAITING` one; a handler in the loops of `memory_queue_allocate`
belongs to the current connection. The last part is why an allocation may span
steps. `ListIsUsedAsMeantHolds` then turns each theorem about the list into one
about the server.

`QueueStaysSoundHolds` starts from a different end than `QueueIsUsedAsMeant`: with
eviction the server breaks the queue's contract, locks and releases headers of
entries the queue has taken back, and even takes locks below 0. The proof shows
that the invariant of `MemoryQueueProofs` says nothing of locks and active flags
but their types (`TouchedQueue`), and that these are all that the
handlers touch (`HandlersTouch`), of whatever header an entry once had. It does not
say that a program gone astray keeps the queue: such a turn ends the model's run.

`ServerTypesHold` needs more than `LoopInv`, since what a field may hold hangs on the
state the connection is in (`Kept`: a PUT that is received has an address in the buffer)
and on the allocation under way, whose size is that of a header and at most two units
(`SizeInv`). One lemma per handler keeps these (`TypesInv`).

### The server as a cache

The theorems of `CacheServerProofs` assume `HasRoom`: `MaxPuts` entries of the largest
size fit, with a header to spare. Without it they are false, as `stale_value` shows:
the code keeps evicted entries in the map. With `HasRoom` they hold
for any number of connections, keys, values and PUTs.

None of these properties is inductive. `ServerInv` is the conjunction of `LoopInv`,
`QueueInv`, and

* `DataInv`: a connection's fields fit its state (`LocalInv`); each key is mapped to the
  one entry that holds its value, or to none (`MapInv`); a connection that holds a
  lock points to an entry with the value it expects (`ReadersInv`); one that
  receives a PUT has its entry to itself, no key leading there and nobody
  reading or writing it (`WritersInv`); locks count readers (`LocksInv`);
* `BudgetInv`: entries in the queue and PUTs announced but not yet allocated are
  together no more than the PUTs sent, so that the allocation under way neither wraps
  around nor evicts, and `write_index` is bounded by the entries.

The invariant survives every handler. Each is first shown to be, for the data,
one of six kinds of turn (`Quiet`, `Locks`, `Unlocks`, `Deletes`, `Fills`, `Puts`),
or to be granted an entry by the queue; one lemma per kind then
preserves `DataInv`. The same kinds serve the refinement: `MapFound` and `AnswersFound` show that
the map and the answers *seen* through the pointers are the history
variable `store` and what the connection expects, and each kind of turn is then a step of
`Cache`, or none. TLC has also found `ServerInv` to be an invariant of the
instance of `roomy`.

### The accept period

`waited` is a history that no variable of the program holds, so the
invariant relates it to what the program sees (`Waited`): either `Elapsed` accounts for
it, up to the settings so far (`Told`), or the next turn accepts, because
`Elapsed` is already beyond the period (`Passed`) or because nobody is connected
(`Nobody`). Setting the clock leads from each case to `Told` or `Passed` with one more
period allowed. The difference can wrap around to 0 by passing time only in `Passed`,
because a period and a turn are less than the clock's width, and then `Told` holds.
`Served` needs that since an accept only the turn in progress took
time (`Fresh`).

*Assumptions*: `AcceptPeriodAssumption`: a turn takes at most
`MaxDelay`, which is at most a period, and the clock is wider than both together.

### The start

The parser reads the arguments from left to right, `Said` looks for the last
place of a name among the odd ones. `Reflects` is what relates them while
reading: what is kept for an option is the value behind the last place *so far*. It needs
that the number of arguments read is even where a name is expected and odd
where a value is (`ReadInv`), from which a name alone adds no place (`NameAlone`) and a
value adds the greatest (`NameAndValue`). That cells are shared by nobody
(`HeapInv`) makes the free before each new value take exactly one cell out.

*Assumptions*: `ValuesAssumption`: `atoll` and the defaults give an `int64_t`
(`Long`), the capacity and the port are numbers, and a null pointer is no cell. That the
capacity is served unchanged as a `uint64_t` rests on the width of `Long`.

### Only model-checked

* Liveness (`AllocationReturns`, `TurnsComeRound`, `RequestsAreAnswered`,
  `WaitingClientsAreAccepted`): fairness is beyond the prover. These are the only
  properties of passing runs without a theorem.
* That the server needs `HasRoom` for being a cache, and what goes wrong
  without it, are the violations of `stale_value` and `blocks`.

## 5. What the checks say about the code

1. **Blocking ends the server** (`blocks`): on READ_BLOCKED and WRITE_BLOCKED
   the connection leaves the list but stays current, and its next turn is an
   `assert(0)`. Hence `handle_lock_release_event` never finds anyone to unblock
   (`NothingToUnblock`, proved).
2. **A GET may send what was not put** (`stale_value`). Nothing sets `active`, so
   an evicted entry stays in the hash map (`memory_queue.c:136`): a GET finds it
   while its place is already that of a PUT. Likewise its lock may be reset under
   a reader (`memory_queue.c:89`), who then wraps it around, the assertion of
   `entry_header.c:16` being true of every unsigned number.
3. **`memory_queue_clean` reads a bit nobody wrote** (`queue_clean`) when it
   removes the last entry; `memory_queue_allocate` never does
   (`ForceCleanIsSafe`, proved).
4. The hash table is a map as long as keys stay (`ImplementsMap`); keys that change
   behind its pointers cannot break its structure or hide an entry just put
   (`Placement`, `ProbesEnd`, `PutsAreFound`): proved for any table and any hashes.
5. Within its contract the allocator is right; as long as nothing is evicted the
   server is within that contract (`QueueIsUsedAsMeant`), and is a cache
   (`ServesACache`): proved for any number of connections, keys and values.
   Outside of it the bytes of a client may go wrong (2.), while the queue does
   not, until a pointer to an evicted entry is followed into the middle of other
   bytes (`QueueStaysSound`, proved). `evicting` reaches such turns: a body received
   into, or a lock released in, what by then is the inside of another entry.
6. **A transfer of 0 bytes hangs** its own request and no other: that of a GET or DELETE
   with an empty key, of a GET whose value is empty, of a PUT with neither key nor
   value. A PUT of which only one is empty is answered. A client that stalls or
   closes its end holds up nobody (`RequestsAreAnswered`), unless it is sent
   something after that: SIGPIPE (`connection.c:387`) ends the server for all, as
   does the invalid free of `connection.c:410`.
7. **Options without effect.** The accept period and the backlog limit are macros
   (`cache_server.c:21-22`), whatever is configured; the active limit and the timeout are read by
   nothing. What is read is what was said (`ServesAsSaid`, proved).
8. A clock that is set back costs at most one period: the unsigned difference
   makes the next turn accept (`AcceptsAreTimely`).
9. **A marker may be written past the buffer.** An entry that ends less than a header
   from the end of the buffer is accepted when it has the buffer to itself
   (`memory_queue.c:53`), and the next allocation marks the end behind it
   (`memory_queue.c:66`): `queue` reaches `"overrun"` behind its entries of 11 and 12
   bytes. In all other cases there is room for the marker (`MarkerRoom`, proved).

## 6. Not modelled, and the plan

Not modelled, and why:

* **Unblocking**: the body of the loop in `handle_lock_release_event`,
  `connection_unblock_read/write`, the rest of `blocked_connections_pop`. No state of
  the program reaches them: `NothingToUnblock` shows, with three connections,
  that a blocked connection is the current one until its next turn ends the
  program, and a second call of `blocked_connections_add` would not return. A
  model of them would be one of a program that does not exist. So its slips are no hazards of
  this one.
* **The rest of `hashmap.c`**, which is vendored: clear, probe, scan, iter, the
  hash functions; `entry_hash_map.c` calls none but the hash function, of which only
  the value matters.
* **What a stray pointer does.** A body received into the middle of other entries may
  write any header; the model stops at that turn (`StrayPointer`).
* **Sizes.** `MemoryQueue` has entries of any sizes; in `Connection` a key and a value are
  one unit each or empty. A `total_size` that wraps around is outside the
  contract that `MemoryQueueAssumption` names. A PUT of an empty key with a
  value is left out (see Abstractions).
* **The scripts.** What clients can do to the server is its environment in `Connection`;
  the calls of `cache_client.py` themselves are not modelled. `test_cache.py` is a
  source of properties; `cache_protocol.py` and `c2py.py` pack structs.
* Logging.

Next, theorems: what of `GetsAnswerTheStore` is true with eviction, a GET whose entry
is locked and still in the queue; and that `HashTable` does what `Connection` assumes of
its map, which `FoundKeysStayFound` shows of lookups but not of what an insertion with
changed keys replaces.
