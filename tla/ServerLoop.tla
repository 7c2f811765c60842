----------------------------- MODULE ServerLoop -----------------------------
(***************************************************************************)
(* The loop of cache_server.c: one thread that, on every turn, either      *)
(* accepts a connection or lets the current connection make one transfer   *)
(* and then, from the result it returns, picks the next one.               *)
(*                                                                         *)
(* Connection.tla extends this module with the handlers of connection.c,   *)
(* which end in Return, what cache_server_proc does with their result.     *)
(*                                                                         *)
(* Outcomes that end the program (a failed assertion, a free of a pointer  *)
(* malloc did not return, a signal, a loop that cannot end), or behind     *)
(* which the model does not follow it (a pointer into the middle of other  *)
(* bytes), set fault, and no step follows.                                 *)
(***************************************************************************)
EXTENDS Naturals, Sequences

CONSTANTS
  Conn,          \* the connections that can be open at the same time
  NULL,
  CountModulus,  \* 2^16, the width of the list's count
  MayFail        \* the connections whose socket may fail

ASSUME ServerLoopAssumption ==
  /\ NULL \notin Conn
  /\ CountModulus \in Nat \ {0}
  /\ MayFail \subseteq Conn

VARIABLES
  conn,      \* the connection_t of every connection, closed ones included
  list,      \* connection_list.c's context and links
  order,     \* history: the connections in list, first to last
  current,   \* context.current_connection
  blocked,   \* blocked_connections.c: the set of its lists, one connection each
  fault      \* "none", or what ended the program

loopVars == <<conn, list, order, current, blocked, fault>>

Connections == INSTANCE ConnectionList

ReceivingStates == {"RECEIVING_HEADER", "RECEIVING_ARGUMENTS", "RECEIVING_BODY"}
SendingStates == {"SENDING_HEADER", "SENDING_BODY"}
AwaitingStates == {"AWAITING_WRITE_UNBLOCK", "AWAITING_READ_UNBLOCK"}

(* connection_t as init_request leaves it.  What a transfer moves is counted *)
(* in units: the arguments, a key, a value, a response header; a request     *)
(* header is two.  type is header.request.type while a request is received,  *)
(* header.response.header.type once its response is sent.  request, key and  *)
(* expected are history: what the client asked, the key it sent and, of a    *)
(* GET, the value stored under it at its lookup.                             *)
NewRequest ==
  [state |-> "RECEIVING_HEADER", type |-> "NONE", remaining |-> 2,
   entry |-> NULL, keep_alive |-> FALSE, allocated |-> FALSE,
   locked |-> FALSE, event |-> "NONE",
   request |-> "NONE", key |-> NULL, expected |-> NULL]

Closed == [NewRequest EXCEPT !.state = "CLOSED", !.remaining = 0]

IsOpen(c) == conn[c].state # "CLOSED"

LoopInit ==
  /\ conn = [c \in Conn |-> Closed]
  /\ list = Connections!EmptyList /\ order = << >>
  /\ current = NULL
  /\ blocked = {}
  /\ fault = "none"

-----------------------------------------------------------------------------
(* accept_connection.  With a current connection it runs when the accept    *)
(* period has passed, which may be any turn.                                *)
Accept(c) ==
  /\ fault = "none"
  /\ ~IsOpen(c)
  /\ conn' = [conn EXCEPT ![c] = NewRequest]
  /\ list' = Connections!Appended(list, c)
  /\ order' = Append(order, c)
  /\ current' = IF current = NULL THEN c ELSE current
  /\ UNCHANGED <<blocked, fault>>

(* get_next_connection, evaluated before connection_proc.                   *)
GetNext(c) == IF list.next[c] # NULL THEN list.next[c] ELSE list.head

-----------------------------------------------------------------------------
(* handle_lock_release_event pops a list blocked on the entry and type of   *)
(* the event the connection k carries.  It is modelled up to the question   *)
(* whether there is one: see NothingToUnblock.                              *)
Pops(k) ==
  \E b \in blocked :
    /\ b.entry = k.entry
    /\ \/ k.event = "READS_UNBLOCKED" /\ b.type = "READ"
       \/ k.event = "WRITES_UNBLOCKED" /\ b.type = "WRITE"

Leaves(r) == r \in {"DISCONNECT", "READ_BLOCKED", "WRITE_BLOCKED"}
Blocks(r) == r \in {"READ_BLOCKED", "WRITE_BLOCKED"}

(* Where the turn ends the program: connections were unblocked, which this  *)
(* model does not follow; an assertion or null pointer of                   *)
(* connection_list_remove; the loop of blocked_connections_add, which never *)
(* advances when there is a list already.                                   *)
TurnFault(c, k, r) ==
  IF Pops(k) THEN "unblocked"
  ELSE IF (Leaves(r) \/ r = "NEW_REQUEST") /\ ~Connections!RemoveIsSafe(list, c)
       THEN "list_assertion"
  ELSE IF Blocks(r) /\ blocked # {} THEN "add_never_returns"
  ELSE "none"

(* blocked_connection_list_init *)
BlockedList(c, k, r) ==
  [connection |-> c, entry |-> k.entry,
   type |-> IF r = "READ_BLOCKED" THEN "READ" ELSE "WRITE"]

(* Seeded slips of the switch below, which a run must notice: a connection  *)
(* is appended again without being removed, a connection is freed but not   *)
(* removed, a single connection stays the current one when it is freed, and *)
(* an idle connection sends the loop back to the head.                      *)
ListAfterAppendOnly(c, r) ==
  CASE r = "NEW_REQUEST" -> Connections!Appended(list, c)
    [] Leaves(r) -> Connections!Unlinked(Connections!Removed(list, c), c)
    [] OTHER -> list

ListAfterFreeOnly(c, r) ==
  CASE r = "NEW_REQUEST" -> Connections!Appended(Connections!Removed(list, c), c)
    [] Blocks(r) -> Connections!Unlinked(Connections!Removed(list, c), c)
    [] OTHER -> list

CurrentAfterDangling(c, r) ==
  CASE r = "SUCCESS" -> list.head
    [] r \in {"NO_TRANSFER", "NEW_REQUEST", "DISCONNECT"} -> GetNext(c)
    [] OTHER -> current

CurrentAfterAlwaysHead(c, r) ==
  CASE r \in {"SUCCESS", "NO_TRANSFER"} -> list.head
    [] r = "NEW_REQUEST" -> GetNext(c)
    [] r = "DISCONNECT" -> IF GetNext(c) = c THEN NULL ELSE GetNext(c)
    [] OTHER -> current

(* The switch of cache_server_proc, on each of the variables it changes.    *)
(* A connection that blocks leaves the list and is still the current one.   *)
ListAfter(c, r) ==
  CASE r = "NEW_REQUEST" -> Connections!Appended(Connections!Removed(list, c), c)
    [] Leaves(r) -> Connections!Unlinked(Connections!Removed(list, c), c)
    [] OTHER -> list

CurrentAfter(c, r) ==
  CASE r = "SUCCESS" -> list.head
    [] r \in {"NO_TRANSFER", "NEW_REQUEST"} -> GetNext(c)
    [] r = "DISCONNECT" -> IF GetNext(c) = c THEN NULL ELSE GetNext(c)
    [] OTHER -> current

OrderAfter(c, r) ==
  LET without == Connections!Without(order, c) IN
  CASE r = "NEW_REQUEST" -> Append(without, c)
    [] Leaves(r) -> without
    [] OTHER -> order

(* The rest of cache_server_proc, after connection_proc(c) has left         *)
(* connection c as k and returned r.                                        *)
Return(c, k, r) ==
  /\ fault' = TurnFault(c, k, r)
  /\ conn' = [conn EXCEPT ![c] = IF r = "DISCONNECT" THEN Closed ELSE k]
  /\ list' = ListAfter(c, r)
  /\ order' = OrderAfter(c, r)
  /\ current' = CurrentAfter(c, r)
  /\ blocked' = IF Blocks(r) THEN blocked \union {BlockedList(c, k, r)}
                ELSE blocked

(* The program ends within the turn. *)
Fail(f) ==
  /\ fault' = f
  /\ UNCHANGED <<conn, list, order, current, blocked>>
=============================================================================
