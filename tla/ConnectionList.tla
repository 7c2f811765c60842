--------------------------- MODULE ConnectionList ---------------------------
(***************************************************************************)
(* The list of connections the server takes turns on (connection_list.c).  *)
(*                                                                         *)
(* It is intrusive: previous and next are fields of the connections, so a  *)
(* list is a record of the context (head, tail, count) and of those two    *)
(* fields of every connection, and the operations are operators on it.     *)
(* append, on an empty list, leaves the fields of the connection alone,    *)
(* and remove leaves those of the connection it removes alone: who appends *)
(* a connection must know that its fields are NULL.                        *)
(*                                                                         *)
(* The specification at the end runs the operations in the order the       *)
(* server calls them, next to the sequence of connections they stand for.  *)
(***************************************************************************)
EXTENDS Naturals, Sequences, SequencesExt

CONSTANTS
  Conn,          \* the connections
  NULL,          \* the null pointer
  CountModulus   \* 2^16: count is a uint16_t

ASSUME ConnectionListAssumption ==
  /\ NULL \notin Conn
  /\ CountModulus \in Nat \ {0}

Pointer == Conn \union {NULL}

Lists == [head : Pointer, tail : Pointer, count : 0 .. CountModulus - 1,
          previous : [Conn -> Pointer], next : [Conn -> Pointer]]

(* connection_list_open *)
EmptyList ==
  [head |-> NULL, tail |-> NULL, count |-> 0,
   previous |-> [c \in Conn |-> NULL], next |-> [c \in Conn |-> NULL]]

(* Two seeded slips of append, which a run must notice: the counter is not  *)
(* 16 bits wide, and the back link is missing.                              *)
AppendedUnbounded(l, c) ==
  IF l.head = NULL
  THEN [l EXCEPT !.count = @ + 1, !.head = c, !.tail = c]
  ELSE [l EXCEPT !.count = @ + 1, !.previous[c] = l.tail, !.next[c] = NULL,
                 !.next[l.tail] = c, !.tail = c]

AppendedOneWay(l, c) ==
  LET counted == [l EXCEPT !.count = (@ + 1) % CountModulus] IN
  IF l.head = NULL
  THEN [counted EXCEPT !.head = c, !.tail = c]
  ELSE [counted EXCEPT !.next[c] = NULL, !.next[l.tail] = c, !.tail = c]

(* connection_list_append *)
Appended(l, c) ==
  LET counted == [l EXCEPT !.count = (@ + 1) % CountModulus] IN
  IF l.head = NULL
  THEN [counted EXCEPT !.head = c, !.tail = c]
  ELSE [counted EXCEPT !.previous[c] = l.tail, !.next[c] = NULL,
                       !.next[l.tail] = c, !.tail = c]

(* The two halves of connection_list_remove, each of which looks at one end *)
(* of the list.                                                             *)
UnlinkedBehind(l, c) ==
  IF c = l.tail
  THEN [l EXCEPT !.tail = l.previous[c]]
  ELSE [l EXCEPT !.previous[l.next[c]] = l.previous[c]]

(* A seeded slip: the predecessor keeps its link. *)
UnlinkedAheadAtHeadOnly(l, c) ==
  IF c = l.head THEN [l EXCEPT !.head = l.next[c]] ELSE l

UnlinkedAhead(l, c) ==
  IF c = l.head
  THEN [l EXCEPT !.head = l.next[c]]
  ELSE [l EXCEPT !.next[l.previous[c]] = l.next[c]]

(* connection_list_remove *)
Removed(l, c) ==
  LET counted == [l EXCEPT !.count = (@ + CountModulus - 1) % CountModulus]
  IN  UnlinkedAhead(UnlinkedBehind(counted, c), c)

(* Its two assertions, and the two pointers it follows without looking.     *)
RemoveIsSafe(l, c) ==
  /\ (c = l.tail) = (l.next[c] = NULL)
  /\ (c = l.head) = (l.previous[c] = NULL)

(* What its callers do to a removed connection they do not append again:    *)
(* connection_deinit frees it, and blocked_connection_list_init clears its  *)
(* links.  Either way the next append finds NULL in both.                   *)
Unlinked(l, c) == [l EXCEPT !.previous[c] = NULL, !.next[c] = NULL]

-----------------------------------------------------------------------------
VARIABLES
  list,    \* the context and the links
  order    \* history: the connections in the list, first to last

vars == <<list, order>>

Init == list = EmptyList /\ order = << >>

(* The sequence without its element c. *)
Without(s, c) == RemoveAt(s, CHOOSE i \in DOMAIN s : s[i] = c)

(* accept_connection appends a connection fresh from connection_init.       *)
AppendFresh(c) ==
  /\ c \notin ToSet(order)
  /\ list' = Appended(list, c)
  /\ order' = Append(order, c)

(* A disconnect, or a connection that blocks.                               *)
Leave(c) ==
  /\ c \in ToSet(order)
  /\ list' = Unlinked(Removed(list, c), c)
  /\ order' = Without(order, c)

(* A connection that keeps alive goes to the tail for its next request.     *)
MoveToTail(c) ==
  /\ c \in ToSet(order)
  /\ list' = Appended(Removed(list, c), c)
  /\ order' = Append(Without(order, c), c)

Next == \E c \in Conn : AppendFresh(c) \/ Leave(c) \/ MoveToTail(c)

Spec == Init /\ [][Next]_vars

-----------------------------------------------------------------------------
(* The links of l spell the sequence s, in both directions, nothing outside *)
(* s carries a link, and count is its length.                               *)
Spells(l, s) ==
  /\ l.count = Len(s) % CountModulus
  /\ l.head = IF s = << >> THEN NULL ELSE s[1]
  /\ l.tail = IF s = << >> THEN NULL ELSE s[Len(s)]
  /\ \A i \in DOMAIN s :
       /\ l.previous[s[i]] = IF i = 1 THEN NULL ELSE s[i - 1]
       /\ l.next[s[i]] = IF i = Len(s) THEN NULL ELSE s[i + 1]
  /\ \A c \in Conn \ ToSet(s) : l.previous[c] = NULL /\ l.next[c] = NULL

(* The context and the links keep the types of their declarations.          *)
TypeOK == list \in Lists /\ order \in Seq(Conn)

(* However appends, removals and moves to the tail follow one another, the  *)
(* links form one list, the same from head to tail as from tail to head,    *)
(* in the order the connections were appended: no removal leaves a          *)
(* neighbour, an end of the list or a removed connection pointing astray.   *)
LinksSpellOrder == Spells(list, order)

(* The two assertions of connection_list_remove hold for every connection   *)
(* of the list, and it follows no null pointer.                             *)
RemovesAreSafe == \A c \in ToSet(order) : RemoveIsSafe(list, c)
=============================================================================
