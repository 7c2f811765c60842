---------------------------- MODULE CacheServer ----------------------------
(***************************************************************************)
(* The whole server: the loop (ServerLoop.tla) over connections            *)
(* (Connection.tla), the list it keeps them in (ConnectionList.tla) and    *)
(* the memory queue their entries live in (MemoryQueue.tla).               *)
(***************************************************************************)
EXTENDS Connection

CONSTANT Stalling   \* connections whose client may stop in mid-request

ASSUME StallingAssumption == Stalling \subseteq Conn

(* One connection is served: it transfers, or it does not, or it fails.     *)
Serve(c) ==
  \/ Transfer(c)
  \/ PartialTransfer(c) \/ NoTransfer(c)
  \/ SocketFails(c) \/ SocketFailsInFree(c) \/ SendSignals(c)
  \/ TransferUnsupported(c) \/ StrayPointer(c)

AcceptConnection(c) ==
  /\ pc = "idle"
  /\ Accept(c)
  /\ UNCHANGED <<mapVars, puts, queueVars>>

(* memory_queue_allocate runs to its end before the loop takes a turn.      *)
Next ==
  \/ AllocateLoop
  \/ AllocateReturns
  \/ \E c \in Conn : Serve(c) \/ AcceptConnection(c)

Spec == Init /\ [][Next]_vars

(* A client that has begun a request and not read all of its answer.        *)
MidRequest(c) ==
  IsOpen(c) /\ ~(conn[c].state = "RECEIVING_HEADER" /\ conn[c].remaining = 2)

(* A turn that asks nothing of an idle client: the current connection       *)
(* transfers only if it is in the middle of a request, or is passed over.   *)
PassiveTurn(c) == NoTransfer(c) \/ (MidRequest(c) /\ Transfer(c))

(* A unit has finitely many bytes: who goes on transferring parts of units  *)
(* for ever completes units for ever.                                       *)
UnitsAreFinite(c) ==
  (<>[][~PartialTransfer(c)]_vars) \/ ([]<><<Transfer(c)>>_vars)

(* The loop keeps taking turns, and the client of a request that has begun, *)
(* unless it is one that stalls, keeps its socket ready: a connection whose *)
(* turn comes again and again transfers again and again.  A client that     *)
(* stalls, or closes its end, may leave its request as it is for ever.      *)
(* Nothing is assumed of the order in which sockets become ready.           *)
Fairness ==
  /\ WF_vars(AllocateLoop \/ AllocateReturns)
  /\ WF_vars(\E c \in Conn : PassiveTurn(c))
  /\ \A c \in Conn \ Stalling : SF_vars(MidRequest(c) /\ Transfer(c))
  /\ \A c \in Stalling : UnitsAreFinite(c)

FairSpec == Spec /\ Fairness

-----------------------------------------------------------------------------
Entry == Queue!Address \union {NULL, Heap}

Values == Value \union {Empty, NULL}

RequestNames == {"NONE", "GET", "PUT", "DELETE", "PING", "UNKNOWN"}

ResponseNames == ErrorTypes \union {"VALUE", "NOT_FOUND", "OK", "PONG"}

ConnectionType ==
  [state : {"CLOSED"} \union ReceivingStates \union SendingStates
             \union AwaitingStates,
   type : RequestNames \union ResponseNames, remaining : 0 .. 2,
   entry : Entry, keep_alive : BOOLEAN, allocated : BOOLEAN, locked : BOOLEAN,
   event : {"NONE", "READS_UNBLOCKED", "WRITES_UNBLOCKED"},
   request : RequestNames, key : Key \union {NULL}, expected : Values]

(* What a socket, or a pointer the code followed, ends the program with.    *)
SocketFaults == {"invalid_free", "sigpipe"}

Faults == SocketFaults \union
  {"none", "unblocked", "list_assertion", "add_never_returns",
   "unsupported_transfer", "stray_pointer"}

(* Every variable keeps the type of its declaration.                        *)
TypeOK ==
  /\ Queue!TypeOK
  /\ conn \in [Conn -> ConnectionType]
  /\ list \in Connections!Lists
  /\ order \in Seq(Conn)
  /\ current \in Conn \union {NULL}
  /\ blocked \subseteq [connection : Conn, entry : Entry, type : {"READ", "WRITE"}]
  /\ fault \in Faults
  /\ buckets \in [Key -> Seq(Queue!Address)]
  /\ key_bytes \in [Queue!Address -> Key \union {NULL, Torn}]
  /\ value_bytes \in [Queue!Address -> Values]
  /\ store \in [Key -> Values]
  /\ puts \in 0 .. MaxPuts

(* The loop uses the connection list as connection_list.c needs it: it      *)
(* removes only connections of the list, and appends to an empty list only  *)
(* connections without links.                                               *)
ListIsUsedAsMeant == Connections!Spec

(* The loop never holds a pointer to a connection it has freed, and it      *)
(* stops turning only when the list is empty: current_connection is a       *)
(* connection of the list, or one that has just been blocked, and is NULL   *)
(* exactly when there is neither.                                           *)
CurrentIsAlive ==
  LET listed == {order[i] : i \in DOMAIN order}
      waiting == {b.connection : b \in blocked}
  IN  /\ listed \union waiting = {c \in Conn : IsOpen(c)}
      /\ IF current = NULL
         THEN listed \union waiting = {}
         ELSE current \in listed \/ current \in waiting

(* No turn meets a failing assertion of connection_list_remove, or calls    *)
(* blocked_connections_add while a list is there, which would not return.   *)
(* No turn pops a blocked connection either: the only connection that can   *)
(* be blocked is the current one, whose next turn ends the program, so the  *)
(* code that unblocks connections is never reached.                         *)
NothingToUnblock ==
  /\ fault \notin {"list_assertion", "add_never_returns", "unblocked"}
  /\ \A b \in blocked : b.connection = current

(* The lock of an entry counts the connections that are sending it.         *)
Readers(a) == {c \in Conn : conn[c].locked /\ conn[c].entry = a}

LocksCountReaders ==
  \A a \in Queue!Address : locks[a] = Cardinality(Readers(a))

(* A GET answers with the value last put under its key when it looked the   *)
(* key up, byte for byte until its last byte is sent, whatever the other    *)
(* connections put, replace and delete meanwhile; and it answers NOT_FOUND  *)
(* only if there was none.                                                  *)
GetsAnswerTheStore ==
  \A c \in Conn :
    /\ conn[c].locked => /\ conn[c].expected # NULL
                         /\ value_bytes[conn[c].entry] = conn[c].expected
    /\ conn[c].type = "NOT_FOUND" => conn[c].expected = NULL

(* The cache the clients see: the value of a key is whatever bytes lie where*)
(* the hash map leads to now, and a GET that is being answered is being     *)
(* answered with the bytes of the entry it has locked.                      *)
MapSeen ==
  [k \in Key |->
     IF Hits(k, key_bytes) = {} THEN NULL
     ELSE value_bytes[buckets[k][CHOOSE i \in Hits(k, key_bytes) : TRUE]]]

AnswerSeen ==
  [c \in Conn |->
     IF conn[c].state \in SendingStates
     THEN [request |-> conn[c].request, type |-> conn[c].type,
           key |-> conn[c].key,
           value |-> IF conn[c].locked THEN value_bytes[conn[c].entry] ELSE NULL]
     ELSE [request |-> "NONE", key |-> NULL, value |-> NULL,
           type |-> IF IsOpen(c) THEN "ASKING" ELSE "CLOSED"]]

Seen == INSTANCE Cache WITH Client <- Conn, Value <- Value \union {Empty},
                            map <- MapSeen, answer <- AnswerSeen

(* The server serves a cache: every request takes effect at once and under  *)
(* the key its client sent, a request whose allocation, insertion or socket *)
(* fails has no effect, no entry changes while it is received, allocated    *)
(* next to, or while a body that replaces it arrives, and an answer stays   *)
(* what it was when it was looked up until it has been sent.                *)
ServesACache == Seen!Spec

(* The server keeps the contract under which the memory queue is proved     *)
(* correct: it locks, unlocks and changes only headers of entries the queue *)
(* has handed out, and releases only locks that are held.  It is about a    *)
(* buffer with room for all that is put, where the queue takes nothing back *)
(* (HasRoom); what happens where it does is QueueStaysSound.                *)
QueueIsUsedAsMeant == Queue!Spec

(* Also where that contract is broken, because pointers to entries that     *)
(* were evicted are found, locked, released, received into and put into the *)
(* map, while the bytes there are still theirs or those of another entry at *)
(* the same address, the queue itself stays sound: it never hands out bytes *)
(* twice, loses the way from one entry to the next, or fails the assertion  *)
(* of force_clean.  Nothing keeps the program from following a pointer into *)
(* the middle of another entry; it is sound up to that turn, StrayPointer.  *)
QueueStaysSound ==
  /\ Queue!ExtentsDisjoint
  /\ Queue!ChainLeadsToEntries
  /\ Queue!ForceCleanIsSafe
  /\ Queue!MarkerRoom

(* A socket that failed has ended the program, and every request in it.     *)
EndedBySocket == fault \in SocketFaults

(* Every open connection gets its turn, also one whose client has not begun *)
(* a request yet: returning to the head of the list after every successful  *)
(* transfer starves nobody behind it.                                       *)
TurnsComeRound ==
  \A c \in Conn : IsOpen(c) ~> current = c \/ ~IsOpen(c) \/ EndedBySocket

(* A connection that is to receive or send 0 bytes: of an empty key, of an  *)
(* empty value, or of a PUT without either.                                 *)
TransfersNothing(c) ==
  conn[c].state \in ReceivingStates \union SendingStates /\ conn[c].remaining = 0

(* A request whose client does its part is answered, whatever the clients   *)
(* of other connections do: go on, be idle, stop in mid-request, bring      *)
(* their own connection to a transfer of 0 bytes, or close their end.  A    *)
(* recv of a closed connection goes unnoticed, and the transfers of 0 bytes *)
(* wait for ever, of a value with its entry locked: they stop the requests  *)
(* they belong to and no other.  The exception are the failures of another  *)
(* socket that end the program, and with it every request: a send to a      *)
(* client that has gone (SIGPIPE, connection.c:387), and a failure in a GET *)
(* or DELETE whose key was allocated (the free of connection.c:410).        *)
RequestsAreAnswered ==
  \A c \in Conn \ Stalling :
    MidRequest(c) ~> \/ ~MidRequest(c) \/ TransfersNothing(c)
                     \/ EndedBySocket

-----------------------------------------------------------------------------
(* What the repository says of the program and the program does not do.     *)

(* connection_proc and connection_transfer are called only in states they   *)
(* support: their default branches assert(0) (connection.c:137-139 and      *)
(* 394-396).                                                                *)
TransfersAreSupported == fault # "unsupported_transfer"

(* A get is answered with the value that was put (scripts/test_cache.py,    *)
(* lines 22-25): while the value is sent, it is the value the key had when  *)
(* it was looked up.                                                        *)
GetReturnsWhatWasPut ==
  \A c \in Conn : conn[c].state = "SENDING_BODY" =>
    value_bytes[conn[c].entry] = conn[c].expected
=============================================================================
