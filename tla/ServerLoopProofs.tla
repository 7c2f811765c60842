-------------------------- MODULE ServerLoopProofs --------------------------
(***************************************************************************)
(* Proofs about what the connections of the server share, whatever they    *)
(* ask and for every set of them: the loop of cache_server_proc with its   *)
(* connection list and its current connection, the memory queue, and the   *)
(* types of all variables.                                                 *)
(***************************************************************************)
EXTENDS CacheServer, TLAPS

ListProofs == INSTANCE ConnectionListProofs

Listed == ToSet(order)
Waiting == {b.connection : b \in blocked}

Distinct(s) == \A i, j \in DOMAIN s : s[i] = s[j] => i = j

(* The inductive invariant, in three parts: the list; the states of the     *)
(* connections; and who is current, who is blocked, and what an allocation  *)
(* that is under way is for.                                                *)
ListInv ==
  Connections!TypeOK /\ Distinct(order) /\ Connections!LinksSpellOrder

States == {"CLOSED"} \union ReceivingStates \union SendingStates
                     \union AwaitingStates

StatesInv ==
  /\ DOMAIN conn = Conn
  /\ \A c \in Conn : "state" \in DOMAIN conn[c] /\ conn[c].state \in States

TurnsInv ==
  /\ Listed \union Waiting = {c \in Conn : IsOpen(c)}
  /\ current = NULL => Listed = {} /\ Waiting = {}
  /\ current # NULL => current \in Listed \/ current \in Waiting
  /\ \A b \in blocked : b.connection = current /\ current \notin Listed
  /\ blocked # {} => conn[current].state \in AwaitingStates
  /\ pc # "idle" => /\ current \in Conn
                    /\ conn[current].state = "RECEIVING_ARGUMENTS"
  /\ fault \notin {"list_assertion", "add_never_returns", "unblocked"}

LoopInv == ListInv /\ StatesInv /\ TurnsInv

-----------------------------------------------------------------------------
(* The connection list, whose proofs are those of ConnectionListProofs.     *)

LEMMA ListInvIsInv == ListInv <=> ListProofs!Inv
  BY DEF ListInv, Distinct, Connections!TypeOK, Connections!LinksSpellOrder,
         Connections!Lists, Connections!Pointer, Connections!Spells,
         Connections!ToSet, ListProofs!Inv, ListProofs!Distinct,
         ListProofs!TypeOK, ListProofs!LinksSpellOrder, ListProofs!Lists,
         ListProofs!Pointer, ListProofs!Spells, ListProofs!ToSet

LEMMA ListInit == Connections!Init => ListInv
<1>1. ListProofs!Init => ListProofs!Inv
  BY ServerLoopAssumption, ListProofs!InitEstablishesInv
<1>2. Connections!Init => ListProofs!Init
  BY DEF Connections!Init, ListProofs!Init, Connections!EmptyList,
         ListProofs!EmptyList
<1> QED
  BY <1>1, <1>2, ListInvIsInv

LEMMA ListStep ==
  ASSUME ListInv,
         \/ Connections!Next
         \/ UNCHANGED <<list, order>>
  PROVE  ListInv'
<1>1. ListProofs!Inv /\ [ListProofs!Next]_(ListProofs!vars) => ListProofs!Inv'
  BY ServerLoopAssumption, ListProofs!NextKeepsInv
<1>2. Connections!Next => ListProofs!Next
  BY DEF Connections!Next, ListProofs!Next,
         Connections!AppendFresh, ListProofs!AppendFresh,
         Connections!Leave, ListProofs!Leave,
         Connections!MoveToTail, ListProofs!MoveToTail,
         Connections!Appended, ListProofs!Appended,
         Connections!Unlinked, ListProofs!Unlinked,
         Connections!Removed, ListProofs!Removed,
         Connections!UnlinkedAhead, ListProofs!UnlinkedAhead,
         Connections!UnlinkedBehind, ListProofs!UnlinkedBehind,
         Connections!Without, ListProofs!Without,
         Connections!RemoveAt, ListProofs!RemoveAt,
         Connections!ToSet, ListProofs!ToSet
<1>3. UNCHANGED <<list, order>> => UNCHANGED ListProofs!vars
  BY DEF ListProofs!vars
<1>4. ListInv' <=> ListProofs!Inv'
  BY ListInvIsInv, PTL
<1> QED
  BY <1>1, <1>2, <1>3, <1>4, ListInvIsInv

(* The list is left for its next connection, or for its head behind the     *)
(* last: from a connection of the list one stays in the list, and comes     *)
(* back to the same one only if there is no other.                          *)
LEMMA NextIsListed ==
  ASSUME ListInv, NEW c \in Listed
  PROVE  /\ c \in Conn
         /\ Connections!RemoveIsSafe(list, c)
         /\ list.head \in Listed
         /\ GetNext(c) \in Listed
         /\ GetNext(c) = c => Listed = {c}
<1>1. /\ list \in ListProofs!Lists /\ order \in Seq(Conn)
      /\ ListProofs!Distinct(order) /\ ListProofs!Spells(list, order)
  BY ListInvIsInv DEF ListProofs!Inv, ListProofs!TypeOK, ListProofs!LinksSpellOrder
<1>2. /\ Len(order) \in Nat /\ DOMAIN order = 1 .. Len(order)
      /\ \A i \in 1 .. Len(order) : order[i] \in Conn /\ order[i] \in Listed
      /\ \A d \in Listed : \E i \in 1 .. Len(order) : order[i] = d
  BY <1>1 DEF Listed, ToSet
<1>3. PICK i \in 1 .. Len(order) : order[i] = c
  BY <1>2
<1>4. /\ c = list.head <=> i = 1
      /\ list.next[c] = IF i = Len(order) THEN NULL ELSE order[i + 1]
      /\ list.next[c] # c
      /\ ListProofs!RemoveIsSafe(list, c)
  BY <1>1, <1>3, ServerLoopAssumption, ListProofs!SpelledFacts
<1>5. Connections!RemoveIsSafe(list, c)
  BY <1>4 DEF Connections!RemoveIsSafe, ListProofs!RemoveIsSafe
<1>6. list.head = order[1] /\ 1 \in 1 .. Len(order)
  <2>1. 1 \in 1 .. Len(order) /\ order # << >>
    BY <1>1, <1>2, <1>3
  <2> QED
    BY <1>1, <2>1 DEF ListProofs!Spells
<1>7. i # Len(order) => i + 1 \in 1 .. Len(order)
  <2>1. Len(order) \in Nat
    BY <1>2
  <2> QED
    BY <2>1
<1>8. i # Len(order) => GetNext(c) = order[i + 1]
  BY <1>2, <1>4, <1>7, ServerLoopAssumption DEF GetNext
<1>9. i = Len(order) => GetNext(c) = order[1]
  BY <1>4, <1>6 DEF GetNext
<1>10. GetNext(c) \in Listed
  BY <1>2, <1>6, <1>7, <1>8, <1>9
<1>11. ASSUME GetNext(c) = c PROVE Listed = {c}
  <2>1. i = Len(order)
    BY <1>4, <1>8, <1>11
  <2>2. i = 1
    BY <1>4, <1>6, <1>9, <1>11, <2>1
  <2>3. \A j \in 1 .. Len(order) : j = 1
    BY <1>2, <2>1, <2>2
  <2> QED
    BY <1>2, <1>3, <2>2, <2>3
<1> QED
  BY <1>2, <1>3, <1>5, <1>6, <1>10, <1>11

(* What the turn of a listed connection does to the list.                   *)
LEMMA TurnOfTheList ==
  ASSUME ListInv, NEW c \in Listed, NEW k, NEW r, Return(c, k, r)
  PROVE  /\ Connections!Next \/ UNCHANGED <<list, order>>
         /\ ListInv'
         /\ Listed' = IF Leaves(r) THEN Listed \ {c} ELSE Listed
<1>1. /\ list' = ListAfter(c, r) /\ order' = OrderAfter(c, r)
  BY DEF Return
<1>2. c \in Conn /\ c \in Connections!ToSet(order)
  BY NextIsListed DEF Listed, ToSet, Connections!ToSet
<1>3. /\ order \in Seq(Conn) /\ ListProofs!Distinct(order)
      /\ c \in ListProofs!ToSet(order)
      /\ Listed \subseteq Conn
  BY <1>2 DEF ListInv, Connections!TypeOK, Distinct, ListProofs!Distinct,
         ListProofs!ToSet, Connections!ToSet, Listed, ToSet
<1> DEFINE t == Connections!Without(order, c)
<1>4. /\ t \in Seq(Conn) /\ ListProofs!Distinct(t)
      /\ \A d \in Conn : d \in ListProofs!ToSet(t)
                           <=> d \in ListProofs!ToSet(order) /\ d # c
  <2>1. ListProofs!Without(order, c) = t
    BY DEF ListProofs!Without, Connections!Without, ListProofs!RemoveAt,
           Connections!RemoveAt
  <2>2. PICK i \in 1 .. Len(order) : order[i] = c
    BY <1>3 DEF ListProofs!ToSet
  <2>3. t \in Seq(Conn)
    BY <1>3, <2>1, <2>2, ServerLoopAssumption, ListProofs!WithoutProperties
  <2> QED
    BY <1>3, <2>1, <2>3, ServerLoopAssumption, ListProofs!WithoutElements
<1>5. ListProofs!ToSet(t) \subseteq Conn /\ ListProofs!ToSet(order) = Listed
  BY <1>4 DEF ListProofs!ToSet, Listed, ToSet
<1> HIDE DEF t
<1>6. CASE Leaves(r)
  <2>1. /\ list' = Connections!Unlinked(Connections!Removed(list, c), c)
        /\ order' = t
    BY <1>1, <1>6 DEF Leaves, ListAfter, OrderAfter, t
  <2>2. Connections!Next
    BY <1>2, <2>1 DEF Connections!Next, Connections!Leave, t
  <2>3. Listed' = ListProofs!ToSet(t)
    BY <2>1 DEF Listed, ToSet, ListProofs!ToSet
  <2>4. Listed' = Listed \ {c}
    BY <1>3, <1>4, <1>5, <2>3
  <2> QED
    BY <1>6, <2>2, <2>4, ListStep
<1>7. CASE r = "NEW_REQUEST"
  <2>1. /\ list' = Connections!Appended(Connections!Removed(list, c), c)
        /\ order' = Append(t, c)
    BY <1>1, <1>7 DEF Leaves, ListAfter, OrderAfter, t
  <2>2. Connections!Next
    BY <1>2, <2>1 DEF Connections!Next, Connections!MoveToTail, t
  <2>3. Listed' = ListProofs!ToSet(Append(t, c))
    BY <2>1 DEF Listed, ToSet, ListProofs!ToSet
  <2>4. c \notin ListProofs!ToSet(t)
    BY <1>2, <1>4
  <2>5. /\ Append(t, c) \in Seq(Conn)
        /\ \A d \in Conn : d \in ListProofs!ToSet(Append(t, c))
                             <=> d \in ListProofs!ToSet(t) \/ d = c
    BY <1>2, <1>4, <2>4, ServerLoopAssumption, ListProofs!AppendElements
  <2>6. ListProofs!ToSet(Append(t, c)) \subseteq Conn
    BY <2>5 DEF ListProofs!ToSet
  <2>7. Listed' = Listed
    BY <1>3, <1>4, <1>5, <2>3, <2>5, <2>6
  <2> QED
    BY <1>7, <2>2, <2>7, ListStep DEF Leaves
<1>8. CASE ~Leaves(r) /\ r # "NEW_REQUEST"
  <2>1. UNCHANGED <<list, order>>
    BY <1>1, <1>8 DEF Leaves, ListAfter, OrderAfter
  <2> QED
    BY <1>8, <2>1, ListStep DEF Listed
<1> QED
  BY <1>6, <1>7, <1>8

-----------------------------------------------------------------------------
(* A turn of connection c that ends in Return.                              *)
Results == {"SUCCESS", "NO_TRANSFER", "NEW_REQUEST", "DISCONNECT",
            "READ_BLOCKED", "WRITE_BLOCKED"}

TurnReturns(c, k, r) ==
  /\ Return(c, k, r)
  /\ r \in Results
  /\ "state" \in DOMAIN k
  /\ k.state \in States \ {"CLOSED"}
  /\ Blocks(r) => k.state \in AwaitingStates

(* A connection that transfers is in the list, and nobody is blocked.       *)
LEMMA OnTurn ==
  ASSUME LoopInv, NEW c \in Conn, current = c,
         conn[c].state \in ReceivingStates \union SendingStates
  PROVE  blocked = {} /\ Waiting = {} /\ c \in Listed
<1>1. conn[c].state \notin AwaitingStates
  BY DEF ReceivingStates, SendingStates, AwaitingStates
<1>2. blocked = {}
  BY <1>1 DEF LoopInv, TurnsInv
<1>3. Waiting = {}
  BY <1>2 DEF Waiting
<1>4. c \in Listed
  BY <1>3, ServerLoopAssumption DEF LoopInv, TurnsInv
<1> QED
  BY <1>2, <1>3, <1>4

(* The switch of cache_server_proc keeps the invariant, whichever result it *)
(* is given.                                                                *)
LEMMA ReturnKeepsInv ==
  ASSUME LoopInv, NEW c \in Conn, NEW k, NEW r, current = c,
         conn[c].state \in ReceivingStates \union SendingStates,
         TurnReturns(c, k, r), pc' = "idle"
  PROVE  LoopInv'
<1>1. /\ blocked = {} /\ Waiting = {} /\ c \in Listed
      /\ Listed = {d \in Conn : IsOpen(d)}
  BY OnTurn DEF LoopInv, TurnsInv
<1>2. /\ fault' = TurnFault(c, k, r)
      /\ conn' = [conn EXCEPT ![c] = IF r = "DISCONNECT" THEN Closed ELSE k]
      /\ current' = CurrentAfter(c, r)
      /\ blocked' = IF Blocks(r) THEN blocked \union {BlockedList(c, k, r)}
                    ELSE blocked
      /\ Return(c, k, r) /\ r \in Results
      /\ "state" \in DOMAIN k /\ k.state \in States \ {"CLOSED"}
      /\ Blocks(r) => k.state \in AwaitingStates
  BY DEF TurnReturns, Return
<1>3. /\ Connections!RemoveIsSafe(list, c)
      /\ list.head \in Listed /\ GetNext(c) \in Listed
      /\ GetNext(c) = c => Listed = {c}
  BY <1>1, NextIsListed DEF LoopInv
<1>4. ListInv' /\ Listed' = IF Leaves(r) THEN Listed \ {c} ELSE Listed
  BY <1>1, <1>2, TurnOfTheList DEF LoopInv
<1>5. /\ "state" \in DOMAIN Closed /\ Closed.state = "CLOSED"
  BY DEF Closed, NewRequest
<1>6. /\ DOMAIN conn' = Conn
      /\ \A d \in Conn : d # c => conn'[d] = conn[d]
      /\ conn'[c] = IF r = "DISCONNECT" THEN Closed ELSE k
  BY <1>2 DEF LoopInv, StatesInv
<1>7. StatesInv'
  BY <1>2, <1>5, <1>6 DEF LoopInv, StatesInv, States
<1>8. /\ \A d \in Conn : d # c => (IsOpen(d)' <=> IsOpen(d))
      /\ IsOpen(c)' <=> r # "DISCONNECT"
  BY <1>2, <1>5, <1>6 DEF IsOpen
<1>9. fault' = "none"
  BY <1>1, <1>2, <1>3 DEF TurnFault, Pops
<1>10. Waiting' = IF Blocks(r) THEN {c} ELSE {}
  <2>1. blocked' = IF Blocks(r) THEN {BlockedList(c, k, r)} ELSE {}
    BY <1>1, <1>2
  <2>2. BlockedList(c, k, r).connection = c
    BY DEF BlockedList
  <2> QED
    BY <2>1, <2>2 DEF Waiting
<1>11. c # NULL /\ \A d \in Listed : d \in Conn /\ d # NULL
  BY <1>1, ServerLoopAssumption
<1>12. CASE Blocks(r)
  <2>1. /\ Leaves(r) /\ r # "DISCONNECT" /\ current' = c
        /\ r \notin {"SUCCESS", "NO_TRANSFER", "NEW_REQUEST"}
    BY <1>2, <1>12 DEF Blocks, Leaves, CurrentAfter
  <2>2. Listed' = Listed \ {c} /\ Waiting' = {c} /\ conn'[c] = k
    BY <1>4, <1>6, <1>10, <1>12, <2>1
  <2>3. \A b \in blocked' : b.connection = c
    BY <1>10, <1>12 DEF Waiting
  <2>4. Listed' \union Waiting' = {d \in Conn : IsOpen(d)'}
    BY <1>1, <1>8, <2>1, <2>2
  <2> QED
    BY <1>2, <1>4, <1>7, <1>9, <1>11, <1>12, <2>1, <2>2, <2>3, <2>4
       DEF LoopInv, TurnsInv
<1>13. CASE ~Blocks(r)
  <2>1. blocked' = {} /\ Waiting' = {}
    BY <1>1, <1>2, <1>10, <1>13
  <2>2. CASE r = "DISCONNECT"
    <3>1. Listed' = Listed \ {c}
      BY <1>4, <2>2 DEF Leaves
    <3>2. Listed' = {d \in Conn : IsOpen(d)'}
      BY <1>1, <1>8, <2>2, <3>1
    <3>3. current' = IF GetNext(c) = c THEN NULL ELSE GetNext(c)
      BY <1>2, <2>2 DEF CurrentAfter
    <3>4. IF current' = NULL THEN Listed' = {} ELSE current' \in Listed'
      BY <1>3, <1>11, <3>1, <3>3
    <3> QED
      BY <1>4, <1>7, <1>9, <2>1, <3>2, <3>4 DEF LoopInv, TurnsInv
  <2>3. CASE r # "DISCONNECT"
    <3>1. ~Leaves(r) /\ Listed' = Listed
      BY <1>4, <1>13, <2>3 DEF Leaves, Blocks
    <3>2. Listed' = {d \in Conn : IsOpen(d)'}
      BY <1>1, <1>8, <2>3, <3>1
    <3>3. r \in {"SUCCESS", "NO_TRANSFER", "NEW_REQUEST"}
      BY <1>2, <3>1 DEF Results, Leaves
    <3>4. current' \in Listed'
      BY <1>2, <1>3, <3>1, <3>3 DEF CurrentAfter
    <3>5. current' # NULL
      BY <1>11, <3>1, <3>4
    <3> QED
      BY <1>4, <1>7, <1>9, <2>1, <3>2, <3>4, <3>5 DEF LoopInv, TurnsInv
  <2> QED
    BY <2>2, <2>3
<1> QED
  BY <1>12, <1>13

-----------------------------------------------------------------------------
(* What the handlers of connection.c do, as far as the loop is concerned:   *)
(* they return, or they leave an allocation to run, or they end the program.*)

TakesTurn(c) ==
  /\ current = c /\ conn[c].state \in ReceivingStates \union SendingStates
  /\ \E k, r : TurnReturns(c, k, r)
  /\ pc' = "idle"

BeginsAllocation(c) ==
  /\ current = c /\ conn[c].state = "RECEIVING_ARGUMENTS"
  /\ UNCHANGED loopVars

EndsProgram ==
  /\ \E f \in {"invalid_free", "sigpipe", "unsupported_transfer",
              "stray_pointer"} : Fail(f)
  /\ UNCHANGED queueVars

(* Header fields, bytes and buckets change; the queue goes on being idle.   *)
LEMMA QueueStaysIdle ==
  ASSUME pc = "idle"
  PROVE  /\ UNCHANGED queueVars => pc' = "idle"
         /\ \A a, b : Queue!SetActive(a, b) => pc' = "idle"
         /\ \A a : Queue!AcquireLock(a) => pc' = "idle"
         /\ \A a : ReleaseLock(a) => pc' = "idle"
         /\ \A n : Queue!AllocateOversized(n) => pc' = "idle"
  BY DEF queueVars, Queue!SetActive, Queue!AcquireLock, ReleaseLock,
         Queue!AllocateOversized

LEMMA SendHeaderState ==
  ASSUME NEW k, "state" \in DOMAIN k, NEW type
  PROVE  /\ "state" \in DOMAIN SendHeader(k, type)
         /\ SendHeader(k, type).state = "SENDING_HEADER"
  BY DEF SendHeader

LEMMA NewRequestState ==
  "state" \in DOMAIN NewRequest /\ NewRequest.state = "RECEIVING_HEADER"
  BY DEF NewRequest

LEMMA Successful ==
  ASSUME NEW c, NEW k, "state" \in DOMAIN k,
         k.state \in ReceivingStates \union SendingStates,
         NEW r \in {"SUCCESS", "NO_TRANSFER", "NEW_REQUEST", "DISCONNECT"},
         Return(c, k, r)
  PROVE  \E l, q : TurnReturns(c, l, q)
<1>1. k.state \in States \ {"CLOSED"} /\ r \in Results /\ ~Blocks(r)
  BY DEF States, ReceivingStates, SendingStates, AwaitingStates, Results, Blocks
<1>2. TurnReturns(c, k, r)
  BY <1>1 DEF TurnReturns
<1> QED
  BY <1>2

LEMMA Blocking ==
  ASSUME NEW c, NEW k, "state" \in DOMAIN k, k.state \in AwaitingStates,
         NEW r \in {"READ_BLOCKED", "WRITE_BLOCKED"}, Return(c, k, r)
  PROVE  \E l, q : TurnReturns(c, l, q)
<1>1. k.state \in States \ {"CLOSED"} /\ r \in Results
  BY DEF States, AwaitingStates, Results
<1>2. TurnReturns(c, k, r)
  BY <1>1 DEF TurnReturns
<1> QED
  BY <1>2

LEMMA FinishReturns ==
  ASSUME NEW c, NEW k, "state" \in DOMAIN k, k.state \in SendingStates,
         FinishRequest(c, k)
  PROVE  \E l, q : TurnReturns(c, l, q)
<1>1. CASE k.keep_alive
  <2>1. Return(c, NewRequest, "NEW_REQUEST")
    BY <1>1 DEF FinishRequest
  <2> QED
    BY <2>1, NewRequestState, Successful DEF ReceivingStates
<1>2. CASE ~k.keep_alive
  <2>1. Return(c, k, "DISCONNECT")
    BY <1>2 DEF FinishRequest
  <2> QED
    BY <2>1, Successful
<1> QED
  BY <1>1, <1>2

(* connection_proc, when its transfer moves all of a unit: every handler.   *)
LEMMA TransferLeaves ==
  ASSUME StatesInv, NEW c \in Conn, Transfer(c)
  PROVE  TakesTurn(c) \/ BeginsAllocation(c)
<1>1. "state" \in DOMAIN conn[c]
  BY DEF StatesInv
<1>2. ASSUME NEW s \in ReceivingStates \union SendingStates, Moves(c, s),
             pc' = "idle", \E l, q : TurnReturns(c, l, q)
      PROVE  TakesTurn(c)
  BY <1>2 DEF TakesTurn, Moves, Turn
<1>3. \A s : Moves(c, s) => pc = "idle" /\ conn[c].state = s /\ current = c
  BY DEF Moves, Turn
<1>4. ReceivingStates = {"RECEIVING_HEADER", "RECEIVING_ARGUMENTS", "RECEIVING_BODY"}
      /\ SendingStates = {"SENDING_HEADER", "SENDING_BODY"}
      /\ AwaitingStates = {"AWAITING_WRITE_UNBLOCK", "AWAITING_READ_UNBLOCK"}
  BY DEF ReceivingStates, SendingStates, AwaitingStates
<1>5. CASE ReceiveHeader(c)
  <2>1. Moves(c, "RECEIVING_HEADER") /\ pc' = "idle"
    BY <1>3, <1>5, QueueStaysIdle DEF ReceiveHeader
  <2>2. PICK type, keep : Return(c, HeaderReceived(type, keep), "SUCCESS")
    BY <1>5 DEF ReceiveHeader
  <2> DEFINE k == HeaderReceived(type, keep)
  <2>3. /\ "state" \in DOMAIN k
        /\ k.state \in {"SENDING_HEADER", "RECEIVING_ARGUMENTS"}
    <3> DEFINE m == [NewRequest EXCEPT !.type = type, !.request = type,
                                       !.keep_alive = keep]
    <3>1. "state" \in DOMAIN m
      BY NewRequestState
    <3>2. \/ \E t : k = SendHeader(NewRequest, t)
          \/ \E t : k = SendHeader(m, t)
          \/ k = [m EXCEPT !.state = "RECEIVING_ARGUMENTS", !.remaining = 1]
      BY DEF HeaderReceived
    <3> HIDE DEF k, m
    <3> QED
      BY <3>1, <3>2, SendHeaderState, NewRequestState
  <2> HIDE DEF k
  <2> QED
    BY <1>2, <1>4, <2>1, <2>2, <2>3, Successful DEF k
<1>6. CASE ReceiveKeyArguments(c)
  <2>1. Moves(c, "RECEIVING_ARGUMENTS") /\ pc' = "idle"
    BY <1>3, <1>6, QueueStaysIdle DEF ReceiveKeyArguments
  <2>2. PICK key_size :
          \/ Return(c, SendHeader(conn[c], "OUT_OF_MEMORY"), "SUCCESS")
          \/ Return(c, [conn[c] EXCEPT !.state = "RECEIVING_BODY",
                          !.entry = Heap, !.remaining = key_size,
                          !.allocated = TRUE], "SUCCESS")
    BY <1>6 DEF ReceiveKeyArguments
  <2> QED
    BY <1>1, <1>2, <1>4, <2>1, <2>2, SendHeaderState, Successful
<1>7. CASE ReceivePutArguments(c)
  <2>1. Moves(c, "RECEIVING_ARGUMENTS")
    BY <1>7 DEF ReceivePutArguments
  <2>2. CASE \E n : /\ Queue!AllocateOversized(n)
                    /\ Return(c, SendHeader(conn[c], "OUT_OF_MEMORY"), "SUCCESS")
    BY <1>1, <1>2, <1>3, <1>4, <2>1, <2>2, SendHeaderState, Successful,
       QueueStaysIdle
  <2>3. CASE UNCHANGED loopVars
    BY <1>3, <2>1, <2>3 DEF BeginsAllocation
  <2> QED
    BY <1>7, <2>2, <2>3 DEF ReceivePutArguments
<1>8. CASE ReceiveGetBody(c)
  <2>1. Moves(c, "RECEIVING_BODY")
    BY <1>8 DEF ReceiveGetBody
  <2>2. PICK k, a : GetBody(c, k, a)
    BY <1>8 DEF ReceiveGetBody
  <2> DEFINE got == [conn[c] EXCEPT !.entry = a, !.allocated = FALSE, !.key = k,
                                    !.expected = store[k]]
             held == [got EXCEPT !.locked = TRUE]
             waits == [got EXCEPT !.state = "AWAITING_READ_UNBLOCK",
                                  !.remaining = 0]
  <2>3. /\ "state" \in DOMAIN got /\ "state" \in DOMAIN held
        /\ "state" \in DOMAIN waits
        /\ waits.state = "AWAITING_READ_UNBLOCK"
    BY <1>1
  <2>4. \/ /\ Return(c, SendHeader(got, "NOT_FOUND"), "SUCCESS")
           /\ UNCHANGED queueVars
        \/ /\ Return(c, waits, "READ_BLOCKED")
           /\ UNCHANGED queueVars
        \/ /\ Return(c, SendHeader(held, "VALUE"), "SUCCESS")
           /\ Queue!AcquireLock(a)
    BY <2>2 DEF GetBody
  <2> HIDE DEF got, held, waits
  <2>5. pc' = "idle"
    BY <1>3, <2>1, <2>4, QueueStaysIdle
  <2>6. \E l, q : TurnReturns(c, l, q)
    BY <1>4, <2>3, <2>4, SendHeaderState, Successful, Blocking
  <2> QED
    BY <1>2, <1>4, <2>1, <2>5, <2>6
<1>9. CASE ReceiveDeleteBody(c)
  <2>1. Moves(c, "RECEIVING_BODY")
    BY <1>9 DEF ReceiveDeleteBody
  <2>2. PICK k : /\ MapDelete(k)
                 /\ Return(c, SendHeader([conn[c] EXCEPT !.key = k], "OK"),
                           "SUCCESS")
    BY <1>9 DEF ReceiveDeleteBody
  <2>3. pc' = "idle"
    BY <1>3, <2>1, <2>2, QueueStaysIdle DEF MapDelete
  <2>4. "state" \in DOMAIN [conn[c] EXCEPT !.key = k]
    BY <1>1
  <2> QED
    BY <1>2, <1>4, <2>1, <2>2, <2>3, <2>4, SendHeaderState, Successful
<1>10. CASE ReceivePutKey(c)
  <2>1. Moves(c, "RECEIVING_BODY") /\ pc' = "idle"
    BY <1>3, <1>10, QueueStaysIdle DEF ReceivePutKey
  <2>2. PICK k : Return(c, [conn[c] EXCEPT !.remaining = 1, !.key = k], "SUCCESS")
    BY <1>10 DEF ReceivePutKey
  <2>3. /\ "state" \in DOMAIN [conn[c] EXCEPT !.remaining = 1, !.key = k]
        /\ [conn[c] EXCEPT !.remaining = 1, !.key = k].state = conn[c].state
    BY <1>1
  <2> QED
    BY <1>2, <1>3, <1>4, <2>1, <2>2, <2>3, Successful
<1>11. CASE ReceivePutBody(c)
  <2>1. Moves(c, "RECEIVING_BODY")
    BY <1>11 DEF ReceivePutBody
  <2>2. PICK k :
          \/ /\ Return(c, SendHeader([conn[c] EXCEPT !.key = k],
                                     "OUT_OF_MEMORY"), "SUCCESS")
             /\ UNCHANGED queueVars
          \/ /\ Return(c, SendHeader([conn[c] EXCEPT !.key = k], "OK"), "SUCCESS")
             /\ MapPut(conn[c].entry, key_bytes')
    BY <1>11 DEF ReceivePutBody
  <2>3. pc' = "idle"
    BY <1>3, <2>1, <2>2, QueueStaysIdle DEF MapPut
  <2>4. "state" \in DOMAIN [conn[c] EXCEPT !.key = k]
    BY <1>1
  <2> QED
    BY <1>2, <1>4, <2>1, <2>2, <2>3, <2>4, SendHeaderState, Successful
<1>12. CASE SendResponseHeader(c)
  <2>1. Moves(c, "SENDING_HEADER") /\ pc' = "idle"
    BY <1>3, <1>12, QueueStaysIdle DEF SendResponseHeader
  <2> DEFINE v == [conn[c] EXCEPT !.state = "SENDING_BODY",
                                  !.remaining = ValueSize(conn[c].entry)]
             e == [conn[c] EXCEPT !.keep_alive = FALSE]
  <2>2. /\ "state" \in DOMAIN v /\ v.state = "SENDING_BODY"
        /\ "state" \in DOMAIN e /\ e.state = conn[c].state
    BY <1>1
  <2>3. \/ Return(c, v, "SUCCESS")
        \/ FinishRequest(c, e)
        \/ FinishRequest(c, conn[c])
    BY <1>12 DEF SendResponseHeader
  <2> HIDE DEF v, e
  <2>4. \E l, q : TurnReturns(c, l, q)
    BY <1>1, <1>3, <1>4, <2>1, <2>2, <2>3, Successful, FinishReturns
  <2> QED
    BY <1>2, <1>4, <2>1, <2>4
<1>13. CASE SendValue(c)
  <2>1. Moves(c, "SENDING_BODY") /\ pc' = "idle"
    BY <1>3, <1>13, QueueStaysIdle DEF SendValue
  <2> DEFINE v == [conn[c] EXCEPT !.locked = FALSE,
                     !.event = ReleaseEvent(locks'[conn[c].entry])]
  <2>2. "state" \in DOMAIN v /\ v.state = conn[c].state
    BY <1>1
  <2>3. FinishRequest(c, v)
    BY <1>13 DEF SendValue
  <2> HIDE DEF v
  <2>4. \E l, q : TurnReturns(c, l, q)
    BY <1>3, <1>4, <2>1, <2>2, <2>3, FinishReturns
  <2> QED
    BY <1>2, <1>4, <2>1, <2>4
<1> QED
  BY <1>5, <1>6, <1>7, <1>8, <1>9, <1>10, <1>11, <1>12, <1>13 DEF Transfer

LEMMA ServeLeaves ==
  ASSUME StatesInv, NEW c \in Conn, Serve(c)
  PROVE  TakesTurn(c) \/ BeginsAllocation(c) \/ EndsProgram
<1>1. "state" \in DOMAIN conn[c]
  BY DEF StatesInv
<1>2. \A s : Turn(c, s) => pc = "idle" /\ conn[c].state = s /\ current = c
  BY DEF Turn
<1>3. CASE Transfer(c)
  BY <1>3, TransferLeaves
<1>4. CASE PartialTransfer(c)
  <2>1. PICK s \in ReceivingStates \union SendingStates : Moves(c, s)
    BY <1>4 DEF PartialTransfer, PartialPutBody, ReceivingStates
  <2>2. pc' = "idle" /\ current = c /\ conn[c].state = s
    BY <1>2, <1>4, <2>1, QueueStaysIdle DEF PartialTransfer, Moves
  <2>3. /\ "state" \in DOMAIN [conn[c] EXCEPT !.remaining = 1]
        /\ [conn[c] EXCEPT !.remaining = 1].state = conn[c].state
    BY <1>1
  <2>4. \/ Return(c, [conn[c] EXCEPT !.remaining = 1], "SUCCESS")
        \/ Return(c, conn[c], "SUCCESS")
    BY <1>4 DEF PartialTransfer, PartialPutBody
  <2>5. \E l, q : TurnReturns(c, l, q)
    BY <1>1, <2>1, <2>2, <2>3, <2>4, Successful
  <2> QED
    BY <2>1, <2>2, <2>5 DEF TakesTurn
<1>5. CASE NoTransfer(c)
  <2>1. PICK s \in ReceivingStates \union SendingStates : Turn(c, s)
    BY <1>5 DEF NoTransfer
  <2>2. pc' = "idle" /\ current = c /\ conn[c].state = s
    BY <1>2, <1>5, <2>1, QueueStaysIdle DEF NoTransfer
  <2>3. \E l, q : TurnReturns(c, l, q)
    BY <1>1, <1>5, <2>1, <2>2, Successful DEF NoTransfer
  <2> QED
    BY <2>1, <2>2, <2>3 DEF TakesTurn
<1>6. CASE SocketFails(c)
  <2>1. PICK s \in ReceivingStates \union SendingStates : Turn(c, s)
    BY <1>6 DEF SocketFails
  <2>2. pc' = "idle" /\ current = c /\ conn[c].state = s
    BY <1>2, <1>6, <2>1, QueueStaysIdle DEF SocketFails
  <2>3. PICK e :
          \/ Return(c, [conn[c] EXCEPT !.event = e], "DISCONNECT")
          \/ Return(c, conn[c], "DISCONNECT")
    BY <1>6 DEF SocketFails
  <2>4. /\ "state" \in DOMAIN [conn[c] EXCEPT !.event = e]
        /\ [conn[c] EXCEPT !.event = e].state = conn[c].state
    BY <1>1
  <2>5. \E l, q : TurnReturns(c, l, q)
    BY <1>1, <2>1, <2>2, <2>3, <2>4, Successful
  <2> QED
    BY <2>1, <2>2, <2>5 DEF TakesTurn
<1>7. CASE \/ SocketFailsInFree(c) \/ SendSignals(c) \/ TransferUnsupported(c)
           \/ StrayPointer(c)
  BY <1>7 DEF SocketFailsInFree, SendSignals, TransferUnsupported, StrayPointer,
     EndsProgram
<1> QED
  BY <1>3, <1>4, <1>5, <1>6, <1>7 DEF Serve

LEMMA ServeKeepsInv ==
  ASSUME LoopInv, NEW c \in Conn, Serve(c)
  PROVE  LoopInv'
<1>1. CASE TakesTurn(c)
  BY <1>1, ReturnKeepsInv DEF TakesTurn
<1>2. CASE BeginsAllocation(c)
  <2>1. UNCHANGED <<conn, list, order, current, blocked, fault>>
    BY <1>2 DEF BeginsAllocation, loopVars
  <2>2. ListInv' /\ StatesInv'
    BY <2>1, ListStep DEF LoopInv, StatesInv
  <2>3. Listed' = Listed /\ Waiting' = Waiting /\ \A d \in Conn : IsOpen(d)' = IsOpen(d)
    BY <2>1 DEF Listed, Waiting, IsOpen
  <2>4. TurnsInv'
    BY <1>2, <2>1, <2>3 DEF LoopInv, TurnsInv, BeginsAllocation
  <2> QED
    BY <2>2, <2>4 DEF LoopInv
<1>3. CASE EndsProgram
  <2>1. /\ UNCHANGED <<conn, list, order, current, blocked, pc>>
        /\ fault' \in {"invalid_free", "sigpipe", "unsupported_transfer",
                       "stray_pointer"}
    BY <1>3 DEF EndsProgram, Fail, queueVars
  <2>2. ListInv' /\ StatesInv'
    BY <2>1, ListStep DEF LoopInv, StatesInv
  <2>3. Listed' = Listed /\ Waiting' = Waiting /\ \A d \in Conn : IsOpen(d)' = IsOpen(d)
    BY <2>1 DEF Listed, Waiting, IsOpen
  <2>4. TurnsInv'
    BY <2>1, <2>3 DEF LoopInv, TurnsInv
  <2> QED
    BY <2>2, <2>4 DEF LoopInv
<1> QED
  BY <1>1, <1>2, <1>3, ServeLeaves DEF LoopInv

(* accept_connection: the new connection is the last of the list.           *)
LEMMA AcceptKeepsInv ==
  ASSUME LoopInv, NEW c \in Conn, AcceptConnection(c)
  PROVE  LoopInv' /\ Connections!Next
<1>1. /\ ~IsOpen(c) /\ pc' = pc
      /\ conn' = [conn EXCEPT ![c] = NewRequest]
      /\ list' = Connections!Appended(list, c)
      /\ order' = Append(order, c)
      /\ current' = IF current = NULL THEN c ELSE current
      /\ UNCHANGED <<blocked, fault>>
      /\ pc = "idle"
  BY DEF AcceptConnection, Accept, queueVars
<1>2. c \notin Listed /\ Listed \subseteq Conn /\ Waiting \subseteq Conn
      /\ c \notin Waiting
  BY <1>1 DEF LoopInv, TurnsInv
<1>3. Connections!Next
  BY <1>1, <1>2 DEF Connections!Next, Connections!AppendFresh, Connections!ToSet,
     Listed, ToSet
<1>4. ListInv'
  BY <1>3, ListStep DEF LoopInv
<1>5. Listed' = Listed \union {c}
  <2>1. /\ order \in Seq(Conn) /\ ListProofs!Distinct(order)
        /\ ListProofs!ToSet(order) = Listed /\ ListProofs!ToSet(order') = Listed'
    BY DEF LoopInv, ListInv, Connections!TypeOK, Distinct, ListProofs!Distinct,
           ListProofs!ToSet, Listed, ToSet
  <2>2. /\ Append(order, c) \in Seq(Conn)
        /\ \A d \in Conn : d \in ListProofs!ToSet(Append(order, c))
                            <=> d \in ListProofs!ToSet(order) \/ d = c
    BY <1>2, <2>1, ServerLoopAssumption, ListProofs!AppendElements
  <2>3. ListProofs!ToSet(Append(order, c)) \subseteq Conn
    BY <2>2 DEF ListProofs!ToSet
  <2> QED
    BY <1>1, <1>2, <2>1, <2>2, <2>3
<1>6. /\ DOMAIN conn' = Conn /\ conn'[c] = NewRequest
      /\ \A d \in Conn : d # c => conn'[d] = conn[d]
  BY <1>1 DEF LoopInv, StatesInv
<1>7. StatesInv'
  BY <1>6, NewRequestState DEF LoopInv, StatesInv, States, ReceivingStates
<1>8. /\ \A d \in Conn : d # c => (IsOpen(d)' <=> IsOpen(d))
      /\ IsOpen(c)'
  BY <1>6, NewRequestState DEF IsOpen
<1>9. Waiting' = Waiting
  BY <1>1 DEF Waiting
<1>10. Listed' \union Waiting' = {d \in Conn : IsOpen(d)'}
  BY <1>2, <1>5, <1>8, <1>9 DEF LoopInv, TurnsInv
<1>11. CASE current = NULL
  <2>1. blocked = {} /\ current' = c /\ c # NULL
    BY <1>1, <1>11, ServerLoopAssumption DEF LoopInv, TurnsInv, Waiting
  <2> QED
    BY <1>1, <1>3, <1>4, <1>5, <1>7, <1>9, <1>10, <2>1 DEF LoopInv, TurnsInv
<1>12. CASE current # NULL
  <2>1. current' = current /\ current \in Conn /\ current # c
    BY <1>1, <1>2, <1>12 DEF LoopInv, TurnsInv
  <2>2. conn'[current] = conn[current]
    BY <1>6, <2>1
  <2>3. TurnsInv'
    BY <1>1, <1>2, <1>5, <1>9, <1>10, <1>12, <2>1, <2>2 DEF LoopInv, TurnsInv
  <2> QED
    BY <1>3, <1>4, <1>7, <2>3 DEF LoopInv
<1> QED
  BY <1>11, <1>12

(* attempt_memory_write, once its allocation has returned, returns too.     *)
LEMMA AllocateReturnsLeaves ==
  ASSUME LoopInv, AllocateReturns
  PROVE  current \in Conn /\ TakesTurn(current)
<1>1. /\ current \in Conn /\ conn[current].state = "RECEIVING_ARGUMENTS"
      /\ pc' = "idle" /\ "state" \in DOMAIN conn[current]
  BY DEF AllocateReturns, Allocating, LoopInv, TurnsInv, StatesInv
<1> DEFINE g == WriteGranted(conn[current])
           w == WriteRefused(conn[current])
<1>2. /\ "state" \in DOMAIN g /\ g.state = "RECEIVING_BODY"
      /\ "state" \in DOMAIN w /\ w.state = "AWAITING_WRITE_UNBLOCK"
  BY <1>1 DEF WriteGranted, WriteRefused
<1>3. Return(current, g, "SUCCESS") \/ Return(current, w, "WRITE_BLOCKED")
  BY DEF AllocateReturns
<1> HIDE DEF g, w
<1>4. \E l, q : TurnReturns(current, l, q)
  BY <1>2, <1>3, Successful, Blocking DEF ReceivingStates, AwaitingStates
<1> QED
  BY <1>1, <1>4 DEF TakesTurn, ReceivingStates

LEMMA InitEstablishesInv == Init => LoopInv
<1> SUFFICES ASSUME Init PROVE LoopInv
  OBVIOUS
<1>1. /\ conn = [c \in Conn |-> Closed] /\ order = << >> /\ blocked = {}
      /\ current = NULL /\ fault = "none" /\ pc = "idle"
      /\ list = Connections!EmptyList
  BY DEF Init, LoopInit, Queue!Init
<1>2. ListInv
  BY <1>1, ListInit DEF Connections!Init
<1>3. "state" \in DOMAIN Closed /\ Closed.state = "CLOSED"
  BY DEF Closed, NewRequest
<1>4. StatesInv
  BY <1>1, <1>3 DEF StatesInv, States
<1>5. Listed = {} /\ Waiting = {} /\ {c \in Conn : IsOpen(c)} = {}
  BY <1>1, <1>3 DEF Listed, ToSet, Waiting, IsOpen
<1> QED
  BY <1>1, <1>2, <1>4, <1>5 DEF LoopInv, TurnsInv

LEMMA StutterKeepsInv ==
  ASSUME LoopInv, UNCHANGED loopVars, pc' # "idle" => pc # "idle"
  PROVE  LoopInv'
<1>1. UNCHANGED <<conn, list, order, current, blocked, fault>>
  BY DEF loopVars
<1>2. ListInv' /\ StatesInv'
  BY <1>1, ListStep DEF LoopInv, StatesInv
<1>3. Listed' = Listed /\ Waiting' = Waiting /\ \A d \in Conn : IsOpen(d)' = IsOpen(d)
  BY <1>1 DEF Listed, Waiting, IsOpen
<1>4. TurnsInv'
  BY <1>1, <1>3 DEF LoopInv, TurnsInv
<1> QED
  BY <1>2, <1>4 DEF LoopInv

LEMMA NextKeepsInv == LoopInv /\ [Next]_vars => LoopInv'
<1> SUFFICES ASSUME LoopInv, [Next]_vars PROVE LoopInv'
  OBVIOUS
<1>1. CASE AllocateLoop
  BY <1>1, StutterKeepsInv DEF AllocateLoop, Allocating
<1>2. CASE AllocateReturns
  <2>1. current \in Conn /\ TakesTurn(current)
    BY <1>2, AllocateReturnsLeaves
  <2> QED
    BY <2>1, ReturnKeepsInv DEF TakesTurn
<1>3. ASSUME NEW c \in Conn, Serve(c) PROVE LoopInv'
  BY <1>3, ServeKeepsInv
<1>4. ASSUME NEW c \in Conn, AcceptConnection(c) PROVE LoopInv'
  BY <1>4, AcceptKeepsInv
<1>5. CASE UNCHANGED vars
  BY <1>5, StutterKeepsInv DEF vars, queueVars
<1> QED
  BY <1>1, <1>2, <1>3, <1>4, <1>5 DEF Next

-----------------------------------------------------------------------------
(* The inductive invariant of the loop.                                     *)
THEOREM LoopInvHolds == Spec => []LoopInv
  BY InitEstablishesInv, NextKeepsInv, PTL DEF Spec

(* cache_server_proc never holds a pointer to a connection it has freed,    *)
(* and stops turning only when there is no connection.                      *)
THEOREM CurrentIsAliveHolds == Spec => []CurrentIsAlive
<1>1. LoopInv => CurrentIsAlive
  <2> SUFFICES ASSUME LoopInv PROVE CurrentIsAlive
    OBVIOUS
  <2>1. Listed = {order[i] : i \in DOMAIN order}
    BY DEF Listed, ToSet
  <2> QED
    BY <2>1 DEF LoopInv, TurnsInv, CurrentIsAlive, Waiting
<1> QED
  BY <1>1, LoopInvHolds, PTL

(* handle_lock_release_event never finds a connection to unblock, and the   *)
(* turn of cache_server_proc meets no failing assertion of                  *)
(* connection_list_remove and no second call of blocked_connections_add.    *)
THEOREM NothingToUnblockHolds == Spec => []NothingToUnblock
<1>1. LoopInv => NothingToUnblock
  BY DEF LoopInv, TurnsInv, NothingToUnblock
<1> QED
  BY <1>1, LoopInvHolds, PTL

(* The loop calls connection_list_append and connection_list_remove in the  *)
(* orders ConnectionList.tla is about, so that what is proved there of the  *)
(* links holds in the server.                                               *)
THEOREM ListIsUsedAsMeantHolds == Spec => ListIsUsedAsMeant
<1>1. Init => Connections!Init
  BY DEF Init, LoopInit, Connections!Init
<1>2. LoopInv /\ [Next]_vars => [Connections!Next]_(Connections!vars)
  <2> SUFFICES ASSUME LoopInv, [Next]_vars
               PROVE  Connections!Next \/ UNCHANGED <<list, order>>
    BY DEF Connections!vars
  <2>1. ASSUME NEW c \in Conn, TakesTurn(c)
        PROVE  Connections!Next \/ UNCHANGED <<list, order>>
    <3>1. c \in Listed
      BY <2>1, OnTurn DEF TakesTurn
    <3>2. PICK k, r : Return(c, k, r)
      BY <2>1 DEF TakesTurn, TurnReturns
    <3> QED
      BY <3>1, <3>2, TurnOfTheList DEF LoopInv
  <2>2. CASE AllocateLoop \/ UNCHANGED vars
    BY <2>2 DEF AllocateLoop, vars, loopVars
  <2>3. CASE AllocateReturns
    BY <2>1, <2>3, AllocateReturnsLeaves
  <2>4. ASSUME NEW c \in Conn, Serve(c)
        PROVE  Connections!Next \/ UNCHANGED <<list, order>>
    <3>1. TakesTurn(c) \/ BeginsAllocation(c) \/ EndsProgram
      BY <2>4, ServeLeaves DEF LoopInv
    <3> QED
      BY <2>1, <3>1 DEF BeginsAllocation, loopVars, EndsProgram, Fail
  <2>5. ASSUME NEW c \in Conn, AcceptConnection(c) PROVE Connections!Next
    BY <2>5, AcceptKeepsInv
  <2> QED
    BY <2>2, <2>3, <2>4, <2>5 DEF Next
<1> QED
  BY <1>1, <1>2, LoopInvHolds, PTL DEF Spec, ListIsUsedAsMeant, Connections!Spec

-----------------------------------------------------------------------------
(* The memory queue, under whatever the connections do with the entries     *)
(* they point to, those that were evicted included.                         *)

QueueProofs == INSTANCE MemoryQueueProofs

QueueInv == Queue!TypeOK /\ Queue!Layout

LEMMA QueueInvIsInv == QueueInv <=> QueueProofs!Inv
  BY DEF QueueInv, QueueProofs!Inv, Queue!TypeOK, QueueProofs!TypeOK,
         Queue!Layout, QueueProofs!Layout, Queue!Indices, QueueProofs!Indices,
         Queue!Placement, QueueProofs!Placement, Queue!Order, QueueProofs!Order,
         Queue!Adjacency, QueueProofs!Adjacency, Queue!Request,
         QueueProofs!Request, Queue!Wrapped, QueueProofs!Wrapped, Queue!Upper,
         QueueProofs!Upper, Queue!Reach, QueueProofs!Reach,
         Queue!MarkerFits, QueueProofs!MarkerFits,
         Queue!End, QueueProofs!End, Queue!Address,
         QueueProofs!Address, Queue!LockCount, QueueProofs!LockCount

LEMMA QueueInit == Queue!Init => QueueInv
<1>1. QueueProofs!Init => QueueProofs!Inv
  BY QueueAssumption, LockCapacityAssumption, QueueProofs!InitEstablishesInv
     DEF Queue!MemoryQueueAssumption
<1>2. Queue!Init => QueueProofs!Init
  BY DEF Queue!Init, QueueProofs!Init, Queue!Address, QueueProofs!Address
<1> QED
  BY <1>1, <1>2, QueueInvIsInv

(* A step of memory_queue_allocate. *)
LEMMA QueueStep ==
  ASSUME QueueInv,
         \/ Queue!AllocateStep
         \/ \E p \in PayloadSizes : Queue!Allocate(Queue!TotalSize(p))
  PROVE  QueueInv'
<1>1. QueueProofs!Inv /\ [QueueProofs!Next]_(QueueProofs!vars) => QueueProofs!Inv'
  BY QueueAssumption, LockCapacityAssumption, QueueProofs!NextKeepsInv
     DEF Queue!MemoryQueueAssumption
<1>2. Queue!AllocateStep => QueueProofs!Next
  BY DEF Queue!AllocateStep, QueueProofs!AllocateStep, QueueProofs!Next,
         Queue!WrapClean, QueueProofs!WrapClean, Queue!Wrap, QueueProofs!Wrap,
         Queue!WrapOverruns, QueueProofs!WrapOverruns,
         Queue!MarkerFits, QueueProofs!MarkerFits,
         Queue!ReclaimClean, QueueProofs!ReclaimClean,
         Queue!AllocateCommit, QueueProofs!AllocateCommit,
         Queue!MustDrainUpper, QueueProofs!MustDrainUpper,
         Queue!MustReclaim, QueueProofs!MustReclaim,
         Queue!ForceClean, QueueProofs!ForceClean,
         Queue!RemoveEntry, QueueProofs!RemoveEntry,
         Queue!WriteBlocked, QueueProofs!WriteBlocked,
         Queue!context, QueueProofs!context, Queue!headers, QueueProofs!headers,
         Queue!Address, QueueProofs!Address
<1>3. (\E p \in PayloadSizes : Queue!Allocate(Queue!TotalSize(p)))
      => QueueProofs!Next
  BY DEF Queue!Allocate, QueueProofs!Allocate, QueueProofs!Next,
         Queue!TotalSize, QueueProofs!TotalSize,
         Queue!AllocateOversized, QueueProofs!AllocateOversized,
         Queue!AllocateBegin, QueueProofs!AllocateBegin,
         Queue!TooCloseToEnd, QueueProofs!TooCloseToEnd,
         Queue!context, QueueProofs!context, Queue!headers, QueueProofs!headers
<1>4. QueueInv' <=> QueueProofs!Inv'
  BY QueueInvIsInv, PTL
<1> QED
  BY <1>1, <1>2, <1>3, <1>4, QueueInvIsInv

(* A step that changes nothing of the queue but locks and active flags,     *)
(* wherever they are.                                                       *)
HeadersTouched ==
  /\ UNCHANGED <<pc, total_size, result, entry_count, occupied_bytes,
                 read_index, write_index, end_of_buffer, size, fifo>>
  /\ locks' \in [Queue!Address -> Queue!LockCount]
  /\ active' \in [Queue!Address -> BOOLEAN]

LEMMA TouchedQueue ==
  ASSUME QueueInv, HeadersTouched
  PROVE  QueueInv'
<1>1. Queue!TypeOK'
  BY DEF QueueInv, HeadersTouched, Queue!TypeOK, Queue!Address
<1>2. Queue!Layout'
  BY DEF QueueInv, HeadersTouched, Queue!Layout, Queue!Indices, Queue!Placement,
         Queue!Order, Queue!Adjacency, Queue!Request, Queue!Wrapped,
         Queue!Upper, Queue!End, Queue!Reach, Queue!MarkerFits
<1> QED
  BY <1>1, <1>2 DEF QueueInv

(* What entry_hash_map and entry_header do to headers is of that kind.      *)
LEMMA Touching ==
  ASSUME QueueInv
  PROVE  /\ UNCHANGED queueVars => HeadersTouched
         /\ \A a : \A b \in BOOLEAN : Queue!SetActive(a, b) => HeadersTouched
         /\ \A a : Queue!AcquireLock(a) => HeadersTouched
         /\ \A a : ReleaseLock(a) => HeadersTouched
<1>1. /\ locks \in [Queue!Address -> Queue!LockCount]
      /\ active \in [Queue!Address -> BOOLEAN]
      /\ LockCapacity \in Nat \ {0}
  BY LockCapacityAssumption DEF QueueInv, Queue!TypeOK
<1>2. UNCHANGED queueVars => HeadersTouched
  BY <1>1 DEF queueVars, HeadersTouched
<1>3. ASSUME NEW a, NEW b \in BOOLEAN, Queue!SetActive(a, b)
      PROVE  HeadersTouched
  BY <1>1, <1>3 DEF Queue!SetActive, Queue!context, HeadersTouched
<1>4. ASSUME NEW a, Queue!AcquireLock(a) PROVE HeadersTouched
  <2>1. /\ ~(locks[a] = LockCapacity)
        /\ locks' = [locks EXCEPT ![a] = locks[a] + 1]
    BY <1>4 DEF Queue!AcquireLock, Queue!LockIsFull, Queue!LockAcquired
  <2>2. \A b \in Queue!Address : locks[b] \in 0 .. LockCapacity
    BY <1>1 DEF Queue!LockCount
  <2>3. a \in Queue!Address => locks[a] + 1 \in 0 .. LockCapacity
    BY <1>1, <2>1, <2>2
  <2>4. locks' \in [Queue!Address -> Queue!LockCount]
    BY <1>1, <2>1, <2>3 DEF Queue!LockCount
  <2> QED
    BY <1>1, <1>4, <2>4 DEF Queue!AcquireLock, Queue!context, HeadersTouched
<1>5. ASSUME NEW a, ReleaseLock(a) PROVE HeadersTouched
  <2>1. locks' = [locks EXCEPT ![a] = IF locks[a] = 0 THEN LockCapacity
                                      ELSE locks[a] - 1]
    BY <1>5 DEF ReleaseLock, LockReleased
  <2>2. \A b \in Queue!Address : locks[b] \in 0 .. LockCapacity
    BY <1>1 DEF Queue!LockCount
  <2>3. a \in Queue!Address => IF locks[a] = 0 THEN LockCapacity \in 0 .. LockCapacity
                               ELSE locks[a] - 1 \in 0 .. LockCapacity
    BY <1>1, <2>2
  <2>4. locks' \in [Queue!Address -> Queue!LockCount]
    BY <1>1, <2>1, <2>3 DEF Queue!LockCount
  <2> QED
    BY <1>1, <1>5, <2>4 DEF ReleaseLock, HeadersTouched
<1> QED
  BY <1>2, <1>3, <1>4, <1>5

LEMMA HandlersTouch ==
  ASSUME QueueInv, NEW c \in Conn, Serve(c), ~ReceivePutArguments(c)
  PROVE  HeadersTouched
<1>1. UNCHANGED queueVars => HeadersTouched
  BY Touching
<1>2. CASE ReceiveGetBody(c)
  <2>1. PICK k, a : GetBody(c, k, a)
    BY <1>2 DEF ReceiveGetBody
  <2> QED
    BY <1>1, <2>1, Touching DEF GetBody
<1>3. \A k : MapDelete(k) => HeadersTouched
  BY Touching DEF MapDelete
<1>4. CASE ReceiveDeleteBody(c)
  BY <1>3, <1>4 DEF ReceiveDeleteBody
<1>5. \A a, bytes : MapPut(a, bytes) => HeadersTouched
  BY Touching DEF MapPut
<1>6. CASE ReceivePutBody(c)
  BY <1>1, <1>5, <1>6 DEF ReceivePutBody
<1>7. CASE SendValue(c)
  BY <1>7, Touching DEF SendValue
<1>8. CASE SocketFails(c)
  BY <1>1, <1>8, Touching DEF SocketFails
<1>9. CASE \/ ReceiveHeader(c) \/ ReceiveKeyArguments(c) \/ ReceivePutKey(c)
           \/ SendResponseHeader(c) \/ PartialTransfer(c) \/ NoTransfer(c)
           \/ SocketFailsInFree(c) \/ SendSignals(c) \/ TransferUnsupported(c)
           \/ StrayPointer(c)
  BY <1>1, <1>9 DEF ReceiveHeader, ReceiveKeyArguments, ReceivePutKey,
     SendResponseHeader, PartialTransfer, NoTransfer, SocketFailsInFree,
     SendSignals, TransferUnsupported, StrayPointer
<1> QED
  BY <1>2, <1>4, <1>6, <1>7, <1>8, <1>9 DEF Serve, Transfer

LEMMA ServerKeepsQueueInv == QueueInv /\ [Next]_vars => QueueInv'
<1> SUFFICES ASSUME QueueInv, [Next]_vars PROVE QueueInv'
  OBVIOUS
<1>1. CASE AllocateLoop \/ AllocateReturns
  BY <1>1, QueueStep DEF AllocateLoop, AllocateReturns
<1>2. ASSUME NEW c \in Conn, Serve(c) PROVE QueueInv'
  <2>1. CASE ReceivePutArguments(c)
    BY <2>1, QueueStep DEF ReceivePutArguments, Queue!Allocate
  <2>2. CASE ~ReceivePutArguments(c)
    BY <1>2, <2>2, HandlersTouch, TouchedQueue
  <2> QED
    BY <2>1, <2>2
<1>3. ASSUME NEW c \in Conn, AcceptConnection(c) PROVE QueueInv'
  BY <1>3, Touching, TouchedQueue DEF AcceptConnection
<1>4. CASE UNCHANGED vars
  BY <1>4, Touching, TouchedQueue DEF vars
<1> QED
  BY <1>1, <1>2, <1>3, <1>4 DEF Next

LEMMA QueueInvHolds == Spec => []QueueInv
<1>1. Init => QueueInv
  BY QueueInit DEF Init
<1> QED
  BY <1>1, ServerKeepsQueueInv, PTL DEF Spec

(* memory_queue.c stays sound in the server, for entries of any sizes and   *)
(* whatever connection.c does to the headers of entries that were evicted,  *)
(* up to a turn that follows a pointer into the middle of another entry.    *)
THEOREM QueueStaysSoundHolds == Spec => []QueueStaysSound
<1>1. QueueInv => QueueStaysSound
  <2> SUFFICES ASSUME QueueProofs!Inv PROVE QueueStaysSound
    BY QueueInvIsInv
  <2>1. /\ QueueProofs!ExtentsDisjoint /\ QueueProofs!ChainLeadsToEntries
        /\ QueueProofs!ForceCleanIsSafe /\ QueueProofs!MarkerRoom
    BY QueueAssumption, LockCapacityAssumption,
       QueueProofs!InvKeepsExtentsDisjoint, QueueProofs!InvKeepsTheChain,
       QueueProofs!InvMakesForceCleanSafe, QueueProofs!InvLeavesMarkerRoom
       DEF Queue!MemoryQueueAssumption
  <2>2. Queue!ExtentsDisjoint
    BY <2>1 DEF Queue!ExtentsDisjoint, QueueProofs!ExtentsDisjoint,
       Queue!End, QueueProofs!End, Queue!Overlap, QueueProofs!Overlap
  <2>3. Queue!ChainLeadsToEntries
    BY <2>1 DEF Queue!ChainLeadsToEntries, QueueProofs!ChainLeadsToEntries,
       Queue!End, QueueProofs!End
  <2>4. Queue!ForceCleanIsSafe
    BY <2>1 DEF Queue!ForceCleanIsSafe, QueueProofs!ForceCleanIsSafe,
       Queue!MustDrainUpper, QueueProofs!MustDrainUpper,
       Queue!MustReclaim, QueueProofs!MustReclaim
  <2>5. Queue!MarkerRoom
    BY <2>1 DEF Queue!MarkerRoom, QueueProofs!MarkerRoom,
       Queue!Overlap, QueueProofs!Overlap,
       Queue!MarkerFits, QueueProofs!MarkerFits
  <2> QED
    BY <2>2, <2>3, <2>4, <2>5 DEF QueueStaysSound
<1> QED
  BY <1>1, QueueInvHolds, PTL

-----------------------------------------------------------------------------
(* The types of what connection.c and entry_hash_map.c change, whatever is  *)
(* evicted meanwhile.  The body of a PUT is received at an address of the   *)
(* buffer, and an allocation is of an entry that may fit.                   *)

InBody(k) == k.state = "RECEIVING_BODY" /\ k.type = "PUT"

Kept(k) == k \in ConnectionType /\ (InBody(k) => k.entry \in Queue!Address)

BlockedType == [connection : Conn, entry : Entry, type : {"READ", "WRITE"}]

ConnTypes ==
  /\ DOMAIN conn = Conn /\ conn = [c \in Conn |-> conn[c]]
  /\ \A c \in Conn : Kept(conn[c])
  /\ blocked \subseteq BlockedType
  /\ fault \in Faults

MapTypes ==
  /\ buckets \in [Key -> Seq(Queue!Address)]
  /\ key_bytes \in [Queue!Address -> Key \union {NULL, Torn}]
  /\ value_bytes \in [Queue!Address -> Values]
  /\ store \in [Key -> Values]
  /\ puts \in 0 .. MaxPuts

SizeInv == pc # "idle" => total_size - HeaderSize \in 0 .. 2

TypesInv == ConnTypes /\ MapTypes /\ SizeInv

(* A connection_t keeps its type when a field is given a value of its own.  *)
LEMMA FieldTypes ==
  ASSUME NEW k \in ConnectionType
  PROVE  /\ \A x \in States : [k EXCEPT !.state = x] \in ConnectionType
         /\ \A x \in RequestNames \union ResponseNames :
              [k EXCEPT !.type = x] \in ConnectionType
         /\ \A x \in 0 .. 2 : [k EXCEPT !.remaining = x] \in ConnectionType
         /\ \A x \in Entry : [k EXCEPT !.entry = x] \in ConnectionType
         /\ \A x \in Key \union {NULL} : [k EXCEPT !.key = x] \in ConnectionType
         /\ \A x \in Values : [k EXCEPT !.expected = x] \in ConnectionType
<1>1. \A x \in States : [k EXCEPT !.state = x] \in ConnectionType
  BY DEF ConnectionType, States
<1>2. \A x \in RequestNames \union ResponseNames :
        [k EXCEPT !.type = x] \in ConnectionType
  BY DEF ConnectionType
<1>3. \A x \in 0 .. 2 : [k EXCEPT !.remaining = x] \in ConnectionType
  BY DEF ConnectionType
<1>4. \A x \in Entry : [k EXCEPT !.entry = x] \in ConnectionType
  BY DEF ConnectionType
<1>5. \A x \in Key \union {NULL} : [k EXCEPT !.key = x] \in ConnectionType
  BY DEF ConnectionType
<1>6. \A x \in Values : [k EXCEPT !.expected = x] \in ConnectionType
  BY DEF ConnectionType
<1> QED
  BY <1>1, <1>2, <1>3, <1>4, <1>5, <1>6

LEMMA FlagTypes ==
  ASSUME NEW k \in ConnectionType, NEW x \in BOOLEAN
  PROVE  /\ [k EXCEPT !.keep_alive = x] \in ConnectionType
         /\ [k EXCEPT !.allocated = x] \in ConnectionType
         /\ [k EXCEPT !.locked = x] \in ConnectionType
<1>1. [k EXCEPT !.keep_alive = x] \in ConnectionType
  BY DEF ConnectionType
<1>2. [k EXCEPT !.allocated = x] \in ConnectionType
  BY DEF ConnectionType
<1>3. [k EXCEPT !.locked = x] \in ConnectionType
  BY DEF ConnectionType
<1> QED
  BY <1>1, <1>2, <1>3

LEMMA FreshTypes == Kept(NewRequest) /\ Kept(Closed)
<1>1. NewRequest \in ConnectionType
  <2>1. /\ "RECEIVING_HEADER" \in ReceivingStates /\ "NONE" \in RequestNames
        /\ NULL \in Entry /\ NULL \in Values
    BY DEF ReceivingStates, RequestNames, Entry, Values
  <2> QED
    BY <2>1 DEF ConnectionType, NewRequest
<1>2. Closed \in ConnectionType
  <2> DEFINE m == [NewRequest EXCEPT !.state = "CLOSED"]
  <2>1. m \in ConnectionType
    BY <1>1, FieldTypes DEF States
  <2>2. Closed = [m EXCEPT !.remaining = 0]
    BY Zenon DEF Closed
  <2>3. 0 \in 0 .. 2
    OBVIOUS
  <2> HIDE DEF m
  <2>4. [m EXCEPT !.remaining = 0] \in ConnectionType
    BY <2>1, <2>3, FieldTypes, Zenon
  <2> QED
    BY <2>2, <2>4
<1>3. NewRequest.state = "RECEIVING_HEADER" /\ Closed.state = "CLOSED"
  BY DEF NewRequest, Closed
<1> QED
  BY <1>1, <1>2, <1>3 DEF Kept, InBody

LEMMA ReturnTypes ==
  ASSUME ConnTypes, NEW c \in Conn, NEW k, NEW r, Return(c, k, r),
         r = "DISCONNECT" \/ Kept(k)
  PROVE  ConnTypes'
<1>1. TurnFault(c, k, r) \in Faults
  BY DEF TurnFault, Faults, SocketFaults
<1>2. Kept(IF r = "DISCONNECT" THEN Closed ELSE k)
  BY FreshTypes
<1>3. /\ conn' = [conn EXCEPT ![c] = IF r = "DISCONNECT" THEN Closed ELSE k]
      /\ fault' \in Faults
  BY <1>1 DEF Return
<1>4. \A d \in Conn : Kept(conn'[d])
  BY <1>2, <1>3 DEF ConnTypes
<1>5. DOMAIN conn' = Conn /\ conn' = [d \in Conn |-> conn'[d]]
  BY <1>3 DEF ConnTypes
<1>6. blocked' \subseteq BlockedType
  <2>1. CASE Blocks(r)
    <3>1. k \in ConnectionType
      BY <2>1 DEF Blocks, Kept
    <3>2. k.entry \in Entry
      BY <3>1 DEF ConnectionType
    <3>3. BlockedList(c, k, r) \in BlockedType
      BY <3>2 DEF BlockedList, BlockedType
    <3> QED
      BY <2>1, <3>3 DEF Return, ConnTypes
  <2>2. CASE ~Blocks(r)
    BY <2>2 DEF Return, ConnTypes
  <2> QED
    BY <2>1, <2>2
<1> QED
  BY <1>3, <1>4, <1>5, <1>6 DEF ConnTypes, Kept, InBody

LEMMA SendHeaderTypes ==
  ASSUME NEW k \in ConnectionType, NEW type \in ResponseNames
  PROVE  Kept(SendHeader(k, type))
<1> DEFINE m == [k EXCEPT !.type = type]
           n == [m EXCEPT !.remaining = 1]
<1>1. m \in ConnectionType
  BY FieldTypes
<1>2. n \in ConnectionType
  <2> HIDE DEF m
  <2>1. 1 \in 0 .. 2
    OBVIOUS
  <2> QED
    BY <1>1, <2>1, FieldTypes, Zenon
<1>3. SendHeader(k, type) = [n EXCEPT !.state = "SENDING_HEADER"]
  BY Zenon DEF SendHeader
<1>4. "SENDING_HEADER" \in States
  BY DEF States, SendingStates
<1>5. "state" \in DOMAIN n
  BY <1>2 DEF ConnectionType
<1> HIDE DEF m, n
<1> QED
  BY <1>2, <1>3, <1>4, <1>5, FieldTypes DEF Kept, InBody

LEMMA FinishTypes ==
  ASSUME ConnTypes, NEW c \in Conn, NEW k, FinishRequest(c, k)
  PROVE  ConnTypes'
  BY FreshTypes, ReturnTypes DEF FinishRequest

(* RemoveAt keeps a sequence one of addresses.                              *)
LEMMA RemoveAtTypes ==
  ASSUME NEW S, NEW s \in Seq(S), NEW i \in DOMAIN s
  PROVE  RemoveAt(s, i) \in Seq(S)
<1>1. i \in 1 .. Len(s) /\ Len(s) \in Nat
  OBVIOUS
<1>2. SubSeq(s, 1, i - 1) \in Seq(S) /\ SubSeq(s, i + 1, Len(s)) \in Seq(S)
  BY <1>1
<1> QED
  BY <1>2 DEF RemoveAt

(* What entry_hash_map_put and entry_hash_map_delete leave in the buckets.  *)
LEMMA RemovedTypes ==
  ASSUME MapTypes, NEW k, NEW i \in Hits(k, key_bytes)
  PROVE  [buckets EXCEPT ![k] = RemoveAt(@, i)] \in [Key -> Seq(Queue!Address)]
<1>1. k \in Key => RemoveAt(buckets[k], i) \in Seq(Queue!Address)
  BY RemoveAtTypes DEF MapTypes, Hits
<1> QED
  BY <1>1 DEF MapTypes

LEMMA DeletedTypes ==
  ASSUME MapTypes, NEW k, MapDelete(k)
  PROVE  buckets' \in [Key -> Seq(Queue!Address)]
<1>1. CASE UNCHANGED buckets
  BY <1>1 DEF MapTypes
<1>2. CASE \E i \in Hits(k, key_bytes) :
             buckets' = [buckets EXCEPT ![k] = RemoveAt(@, i)]
  BY <1>2, RemovedTypes
<1> QED
  BY <1>1, <1>2 DEF MapDelete

LEMMA PutTypes ==
  ASSUME MapTypes, NEW a \in Queue!Address, NEW bytes, bytes[a] \in Key,
         MapPut(a, bytes)
  PROVE  buckets' \in [Key -> Seq(Queue!Address)]
<1> DEFINE k == bytes[a]
<1>1. k \in Key /\ buckets[k] \in Seq(Queue!Address)
  BY DEF MapTypes
<1>2. Append(buckets[k], a) \in Seq(Queue!Address)
  BY <1>1
<1>3. \A i \in DOMAIN buckets[k] : [buckets[k] EXCEPT ![i] = a] \in Seq(Queue!Address)
  BY <1>1
<1>4. Hits(k, bytes) \subseteq DOMAIN buckets[k]
  BY DEF Hits
<1>5. \/ buckets' = [buckets EXCEPT ![k] = Append(buckets[k], a)]
      \/ \E i \in Hits(k, bytes) :
           buckets' = [buckets EXCEPT ![k] = [buckets[k] EXCEPT ![i] = a]]
  BY DEF MapPut
<1>6. \E s \in Seq(Queue!Address) : buckets' = [buckets EXCEPT ![k] = s]
  BY <1>2, <1>3, <1>4, <1>5
<1>7. buckets \in [Key -> Seq(Queue!Address)]
  BY DEF MapTypes
<1> HIDE DEF k
<1> QED
  BY <1>6, <1>7

LEMMA HeaderTypes ==
  ASSUME NEW type \in RequestTypes, NEW keep \in BOOLEAN
  PROVE  Kept(HeaderReceived(type, keep))
<1> DEFINE l == [NewRequest EXCEPT !.type = type]
           m == [l EXCEPT !.request = type]
           k == [m EXCEPT !.keep_alive = keep]
<1>1. NewRequest \in ConnectionType
  BY FreshTypes DEF Kept
<1>2. CASE type = "BAD_VERSION"
  <2>1. HeaderReceived(type, keep) = SendHeader(NewRequest, "UNSUPPORTED_VERSION")
    BY <1>2 DEF HeaderReceived
  <2>2. "UNSUPPORTED_VERSION" \in ResponseNames
    BY DEF ResponseNames, ErrorTypes
  <2> QED
    BY <1>1, <2>1, <2>2, SendHeaderTypes
<1>3. CASE type # "BAD_VERSION"
  <2>1. type \in RequestNames
    BY <1>3, ConnectionAssumption DEF RequestNames
  <2>2. l \in ConnectionType
    BY <1>1, <2>1, FieldTypes
  <2>3. m \in ConnectionType
    <3> HIDE DEF l
    <3> QED
      BY <2>1, <2>2 DEF ConnectionType
  <2>4. k \in ConnectionType
    <3> HIDE DEF m
    <3> QED
      BY <2>3, FlagTypes
  <2>5. k = [NewRequest EXCEPT !.type = type, !.request = type, !.keep_alive = keep]
    BY Zenon
  <2> HIDE DEF l, m, k
  <2> DEFINE o == [k EXCEPT !.state = "RECEIVING_ARGUMENTS"]
  <2>6. o \in ConnectionType
    BY <2>4, FieldTypes DEF States, ReceivingStates
  <2>7. [k EXCEPT !.state = "RECEIVING_ARGUMENTS", !.remaining = 1]
          = [o EXCEPT !.remaining = 1]
    BY Zenon
  <2>8. Kept([k EXCEPT !.state = "RECEIVING_ARGUMENTS", !.remaining = 1])
    <3>1. 1 \in 0 .. 2
      OBVIOUS
    <3>2. o.state = "RECEIVING_ARGUMENTS"
      BY <2>4 DEF ConnectionType
    <3> HIDE DEF o
    <3>3. [o EXCEPT !.remaining = 1] \in ConnectionType
      BY <2>6, <3>1, FieldTypes, Zenon
    <3>4. [o EXCEPT !.remaining = 1].state = o.state
      BY <2>6 DEF ConnectionType
    <3> QED
      BY <2>7, <3>2, <3>3, <3>4 DEF Kept, InBody
  <2>9. Kept(SendHeader(k, "PONG")) /\ Kept(SendHeader(k, "UNKNOWN_REQUEST"))
    BY <2>4, SendHeaderTypes DEF ResponseNames, ErrorTypes
  <2> QED
    BY <1>3, <2>5, <2>8, <2>9 DEF HeaderReceived
<1> QED
  BY <1>2, <1>3

(* attempt_memory_write, in the two ways an allocation ends.                *)
LEMMA WriteTypes ==
  ASSUME NEW k \in ConnectionType, write_index \in Queue!Address,
         total_size - HeaderSize \in 0 .. 2
  PROVE  Kept(WriteGranted(k)) /\ Kept(WriteRefused(k))
<1> DEFINE given(s, n) == [k EXCEPT !.state = s, !.remaining = n, !.entry = write_index]
<1>1. ASSUME NEW s \in States, NEW n \in 0 .. 2
      PROVE  given(s, n) \in ConnectionType /\ given(s, n).entry = write_index
  <2> DEFINE l == [k EXCEPT !.state = s]
             m == [l EXCEPT !.remaining = n]
  <2>1. l \in ConnectionType
    BY FieldTypes
  <2>2. m \in ConnectionType
    <3> HIDE DEF l
    <3> QED
      BY <2>1, FieldTypes
  <2>3. given(s, n) = [m EXCEPT !.entry = write_index]
    BY Zenon
  <2>4. write_index \in Entry
    BY DEF Entry
  <2> HIDE DEF m, given
  <2>5. "entry" \in DOMAIN m
    BY <2>2 DEF ConnectionType
  <2> QED
    BY <2>2, <2>3, <2>4, <2>5, FieldTypes
<1>2. "RECEIVING_BODY" \in States /\ "AWAITING_WRITE_UNBLOCK" \in States
  BY DEF States, ReceivingStates, AwaitingStates
<1>3. /\ WriteGranted(k) = given("RECEIVING_BODY", total_size - HeaderSize)
      /\ WriteRefused(k) = given("AWAITING_WRITE_UNBLOCK", 0)
  BY DEF WriteGranted, WriteRefused
<1>4. 0 \in 0 .. 2
  OBVIOUS
<1> HIDE DEF given
<1> QED
  BY <1>1, <1>2, <1>3, <1>4 DEF Kept

LEMMA CleanedTypes ==
  ASSUME MapTypes, CleanMap
  PROVE  buckets' \in [Key -> Seq(Queue!Address)]
<1>1. CASE buckets' = buckets
  BY <1>1 DEF MapTypes
<1>2. CASE \E i \in Hits(key_bytes[read_index], key_bytes) :
             buckets' = [buckets EXCEPT ![key_bytes[read_index]] = RemoveAt(@, i)]
  BY <1>2, RemovedTypes
<1> QED
  BY <1>1, <1>2 DEF CleanMap

-----------------------------------------------------------------------------
(* The types through every turn.                                            *)

Unmapped == UNCHANGED <<mapVars, puts>>

LEMMA QuietMap ==
  ASSUME MapTypes, Unmapped
  PROVE  MapTypes'
  BY DEF MapTypes, Unmapped, mapVars

LEMMA KeptConn ==
  ASSUME ConnTypes, NEW c \in Conn
  PROVE  /\ Kept(conn[c]) /\ conn[c] \in ConnectionType
         /\ conn[c].remaining \in 0 .. 2 /\ conn[c].key \in Key \union {NULL}
  BY DEF ConnTypes, Kept, ConnectionType

LEMMA ReceiveHeaderTypes ==
  ASSUME ConnTypes, MapTypes, NEW c \in Conn, ReceiveHeader(c)
  PROVE  ConnTypes' /\ MapTypes'
<1>1. PICK type \in RequestTypes, keep \in BOOLEAN :
        /\ type = "PUT" => puts < MaxPuts
        /\ puts' = IF type = "PUT" THEN puts + 1 ELSE puts
        /\ Return(c, HeaderReceived(type, keep), "SUCCESS")
  BY DEF ReceiveHeader
<1>2. ConnTypes'
  BY <1>1, HeaderTypes, ReturnTypes
<1>3. puts' \in 0 .. MaxPuts
  BY <1>1, ConnectionAssumption DEF MapTypes
<1> QED
  BY <1>2, <1>3 DEF ReceiveHeader, MapTypes, mapVars

LEMMA ReceiveKeyArgumentsTypes ==
  ASSUME ConnTypes, MapTypes, NEW c \in Conn, ReceiveKeyArguments(c)
  PROVE  ConnTypes' /\ MapTypes'
<1>1. conn[c] \in ConnectionType /\ conn[c].type \in {"GET", "DELETE"}
  BY KeptConn DEF ReceiveKeyArguments
<1>2. PICK fails \in HeapFails, n \in KeySizes :
        Return(c,
          IF fails
          THEN SendHeader(conn[c], "OUT_OF_MEMORY")
          ELSE [conn[c] EXCEPT !.state = "RECEIVING_BODY", !.entry = Heap,
                               !.remaining = n, !.allocated = TRUE],
          "SUCCESS")
  BY DEF ReceiveKeyArguments
<1> DEFINE l == [conn[c] EXCEPT !.state = "RECEIVING_BODY"]
           m == [l EXCEPT !.entry = Heap]
           o == [m EXCEPT !.remaining = n]
           k == [o EXCEPT !.allocated = TRUE]
<1>3. l \in ConnectionType
  BY <1>1, FieldTypes DEF States, ReceivingStates
<1>4. m \in ConnectionType
  <2> HIDE DEF l
  <2> QED
    BY <1>3, FieldTypes DEF Entry
<1>5. o \in ConnectionType
  <2>1. n \in 0 .. 2
    BY ConnectionAssumption
  <2> HIDE DEF m
  <2> QED
    BY <1>4, <2>1, FieldTypes, Zenon
<1>6. k \in ConnectionType
  <2> HIDE DEF o
  <2> QED
    BY <1>5, FlagTypes
<1>7. k.type = conn[c].type
  BY <1>1 DEF ConnectionType
<1>8. Kept(k)
  BY <1>1, <1>6, <1>7 DEF Kept, InBody
<1>9. k = [conn[c] EXCEPT !.state = "RECEIVING_BODY", !.entry = Heap,
                          !.remaining = n, !.allocated = TRUE]
  BY Zenon
<1> HIDE DEF k
<1>10. Kept(SendHeader(conn[c], "OUT_OF_MEMORY"))
  BY <1>1, SendHeaderTypes DEF ResponseNames, ErrorTypes
<1>11. ConnTypes'
  BY <1>2, <1>8, <1>9, <1>10, ReturnTypes
<1> QED
  BY <1>11, QuietMap DEF ReceiveKeyArguments, Unmapped

(* An allocation is begun only of an entry with a payload of two units.     *)
LEMMA BegunSize ==
  ASSUME NEW p \in PayloadSizes, Queue!AllocateBegin(Queue!TotalSize(p))
  PROVE  total_size' - HeaderSize \in 0 .. 2
<1>1. /\ p \in Nat /\ HeaderSize \in Nat \ {0} /\ SizeModulus \in Nat \ {0}
      /\ HeaderSize + p < SizeModulus /\ Capacity \in Nat
  BY QueueAssumption DEF Queue!MemoryQueueAssumption
<1>2. HeaderSize + p \in Nat
  BY <1>1
<1>3. ASSUME NEW x \in Nat, NEW y \in Nat \ {0}, x < y PROVE (x % y) = x
  BY <1>3
<1>4. ((HeaderSize + p) % SizeModulus) = HeaderSize + p
  BY <1>1, <1>2, <1>3
<1>5. total_size' = HeaderSize + p /\ HeaderSize + p <= Capacity
  BY <1>4 DEF Queue!AllocateBegin, Queue!TotalSize
<1>6. p \in 0 .. 2
  BY <1>1, <1>5, UnitsAssumption
<1> QED
  BY <1>1, <1>5, <1>6

LEMMA ReceivePutArgumentsTypes ==
  ASSUME ConnTypes, MapTypes, NEW c \in Conn, ReceivePutArguments(c)
  PROVE  ConnTypes' /\ MapTypes' /\ SizeInv'
<1>1. pc = "idle" /\ Unmapped
  BY DEF ReceivePutArguments, Moves, Turn, Unmapped
<1>2. PICK p \in PayloadSizes :
        \/ /\ Queue!AllocateOversized(Queue!TotalSize(p))
           /\ Return(c, SendHeader(conn[c], "OUT_OF_MEMORY"), "SUCCESS")
        \/ /\ Queue!AllocateBegin(Queue!TotalSize(p))
           /\ UNCHANGED loopVars
  BY DEF ReceivePutArguments
<1>3. CASE /\ Queue!AllocateOversized(Queue!TotalSize(p))
           /\ Return(c, SendHeader(conn[c], "OUT_OF_MEMORY"), "SUCCESS")
  <2>1. Kept(SendHeader(conn[c], "OUT_OF_MEMORY"))
    BY KeptConn, SendHeaderTypes DEF ResponseNames, ErrorTypes
  <2>2. ConnTypes'
    BY <1>3, <2>1, ReturnTypes
  <2>3. SizeInv'
    BY <1>1, <1>3 DEF Queue!AllocateOversized, SizeInv
  <2> QED
    BY <1>1, <2>2, <2>3, QuietMap
<1>4. CASE /\ Queue!AllocateBegin(Queue!TotalSize(p))
           /\ UNCHANGED loopVars
  <2>1. ConnTypes'
    BY <1>4 DEF loopVars, ConnTypes, Kept, InBody
  <2>2. SizeInv'
    BY <1>4, BegunSize DEF SizeInv
  <2> QED
    BY <1>1, <2>1, <2>2, QuietMap
<1> QED
  BY <1>2, <1>3, <1>4

LEMMA ReceiveGetBodyTypes ==
  ASSUME ConnTypes, MapTypes, NEW c \in Conn, ReceiveGetBody(c)
  PROVE  ConnTypes' /\ MapTypes'
<1>1. PICK key \in Key : \E a \in MapGet(key) : GetBody(c, key, a)
  BY DEF ReceiveGetBody
<1>2. PICK a \in MapGet(key) : GetBody(c, key, a)
  BY <1>1
<1>3. a \in Entry
  <2>1. buckets[key] \in Seq(Queue!Address)
    BY DEF MapTypes
  <2>2. \A i \in DOMAIN buckets[key] : buckets[key][i] \in Queue!Address
    BY <2>1
  <2> QED
    BY <2>2 DEF MapGet, Hits, Entry
<1>4. store[key] \in Values
  BY DEF MapTypes
<1> DEFINE l == [conn[c] EXCEPT !.entry = a]
           m == [l EXCEPT !.allocated = FALSE]
           o == [m EXCEPT !.key = key]
           k == [o EXCEPT !.expected = store[key]]
<1>5. l \in ConnectionType
  BY <1>3, KeptConn, FieldTypes
<1>6. m \in ConnectionType
  <2> HIDE DEF l
  <2> QED
    BY <1>5, FlagTypes
<1>7. o \in ConnectionType
  <2> HIDE DEF m
  <2> QED
    BY <1>6, FieldTypes
<1>8. k \in ConnectionType
  <2> HIDE DEF o
  <2> QED
    BY <1>4, <1>7, FieldTypes
<1>9. k = [conn[c] EXCEPT !.entry = a, !.allocated = FALSE, !.key = key,
                          !.expected = store[key]]
  BY Zenon
<1> HIDE DEF l, m, o, k
<1>10. \/ Return(c, SendHeader(k, "NOT_FOUND"), "SUCCESS")
       \/ Return(c, [k EXCEPT !.state = "AWAITING_READ_UNBLOCK", !.remaining = 0],
                 "READ_BLOCKED")
       \/ Return(c, SendHeader([k EXCEPT !.locked = TRUE], "VALUE"), "SUCCESS")
  BY <1>2, <1>9 DEF GetBody
<1>11. Kept(SendHeader(k, "NOT_FOUND"))
  BY <1>8, SendHeaderTypes DEF ResponseNames
<1>12. Kept(SendHeader([k EXCEPT !.locked = TRUE], "VALUE"))
  <2>1. [k EXCEPT !.locked = TRUE] \in ConnectionType
    BY <1>8, FlagTypes
  <2> QED
    BY <2>1, SendHeaderTypes DEF ResponseNames
<1>13. Kept([k EXCEPT !.state = "AWAITING_READ_UNBLOCK", !.remaining = 0])
  <2> DEFINE w == [k EXCEPT !.state = "AWAITING_READ_UNBLOCK"]
  <2>1. w \in ConnectionType /\ w.state = "AWAITING_READ_UNBLOCK"
    <3>1. w \in ConnectionType
      BY <1>8, FieldTypes DEF States, AwaitingStates
    <3>2. w.state = "AWAITING_READ_UNBLOCK"
      BY <1>8 DEF ConnectionType
    <3> QED
      BY <3>1, <3>2
  <2>2. 0 \in 0 .. 2
    OBVIOUS
  <2>3. [k EXCEPT !.state = "AWAITING_READ_UNBLOCK", !.remaining = 0]
          = [w EXCEPT !.remaining = 0]
    BY Zenon
  <2> HIDE DEF w
  <2>4. [w EXCEPT !.remaining = 0] \in ConnectionType
    BY <2>1, <2>2, FieldTypes, Zenon
  <2>5. [w EXCEPT !.remaining = 0].state = w.state
    BY <2>1 DEF ConnectionType
  <2> QED
    BY <2>1, <2>3, <2>4, <2>5 DEF Kept, InBody
<1>14. ConnTypes'
  BY <1>10, <1>11, <1>12, <1>13, ReturnTypes
<1> QED
  BY <1>14, QuietMap DEF ReceiveGetBody, Unmapped

LEMMA ReceiveDeleteBodyTypes ==
  ASSUME ConnTypes, MapTypes, NEW c \in Conn, ReceiveDeleteBody(c)
  PROVE  ConnTypes' /\ MapTypes'
<1>1. PICK k \in Key :
        /\ MapDelete(k)
        /\ store' = [store EXCEPT ![k] = NULL]
        /\ Return(c, SendHeader([conn[c] EXCEPT !.key = k], "OK"), "SUCCESS")
  BY DEF ReceiveDeleteBody
<1>2. [conn[c] EXCEPT !.key = k] \in ConnectionType
  BY KeptConn, FieldTypes
<1>3. Kept(SendHeader([conn[c] EXCEPT !.key = k], "OK"))
  BY <1>2, SendHeaderTypes DEF ResponseNames
<1>4. ConnTypes'
  BY <1>1, <1>3, ReturnTypes
<1>5. buckets' \in [Key -> Seq(Queue!Address)]
  BY <1>1, DeletedTypes
<1>6. store' \in [Key -> Values]
  <2>1. NULL \in Values
    BY DEF Values
  <2> QED
    BY <1>1, <2>1 DEF MapTypes
<1> QED
  BY <1>4, <1>5, <1>6 DEF MapTypes, ReceiveDeleteBody

(* The address the body of a PUT is received at.                            *)
LEMMA BodyAddress ==
  ASSUME ConnTypes, NEW c \in Conn, Moves(c, "RECEIVING_BODY"),
         conn[c].type = "PUT"
  PROVE  conn[c].entry \in Queue!Address
  BY KeptConn DEF Kept, InBody, Moves, Turn

LEMMA ReceivePutKeyTypes ==
  ASSUME ConnTypes, MapTypes, NEW c \in Conn, ReceivePutKey(c)
  PROVE  ConnTypes' /\ MapTypes'
<1>0. PICK a : a = conn[c].entry
  OBVIOUS
<1>1. a \in Queue!Address /\ UNCHANGED <<buckets, store, puts>>
  BY <1>0, BodyAddress DEF ReceivePutKey
<1>2. PICK k \in Key, v \in {value_bytes[a], NULL} :
        /\ key_bytes' = [key_bytes EXCEPT ![a] = k]
        /\ value_bytes' = [value_bytes EXCEPT ![a] = v]
        /\ Return(c, [conn[c] EXCEPT !.remaining = 1, !.key = k], "SUCCESS")
  BY <1>0 DEF ReceivePutKey
<1> DEFINE l == [conn[c] EXCEPT !.remaining = 1]
           m == [l EXCEPT !.key = k]
<1>3. l \in ConnectionType
  <2>1. 1 \in 0 .. 2
    OBVIOUS
  <2> QED
    BY <2>1, KeptConn, FieldTypes, Zenon
<1>4. m \in ConnectionType
  <2> HIDE DEF l
  <2> QED
    BY <1>3, FieldTypes
<1>5. m = [conn[c] EXCEPT !.remaining = 1, !.key = k]
  BY Zenon
<1>6. m.entry = conn[c].entry
  BY KeptConn DEF ConnectionType
<1> HIDE DEF l, m
<1>7. ConnTypes'
  BY <1>0, <1>1, <1>2, <1>4, <1>5, <1>6, ReturnTypes DEF Kept
<1>8. v \in Values
  BY <1>1, <1>2 DEF MapTypes, Values
<1> QED
  BY <1>1, <1>2, <1>7, <1>8 DEF MapTypes

LEMMA ReceivePutBodyTypes ==
  ASSUME ConnTypes, MapTypes, NEW c \in Conn, ReceivePutBody(c)
  PROVE  ConnTypes' /\ MapTypes'
<1> DEFINE a == conn[c].entry
           keyComes == conn[c].key = NULL
           valueComes == keyComes => conn[c].remaining = 2
<1>0. a = conn[c].entry
  OBVIOUS
<1>1. a \in Queue!Address /\ UNCHANGED puts
  BY <1>0, BodyAddress DEF ReceivePutBody
<1>2. conn[c].key # NULL => key_bytes[a] \in Key
  BY <1>0 DEF ReceivePutBody, Strays, Moves, Turn
<1>3. PICK k \in (IF keyComes THEN Key ELSE {conn[c].key}),
           v \in (IF valueComes THEN Value ELSE {Empty}), fails \in HeapFails :
        /\ key_bytes' = IF keyComes
                        THEN [key_bytes EXCEPT ![a] = k] ELSE key_bytes
        /\ value_bytes' = [value_bytes EXCEPT ![a] = v]
        /\ IF fails
           THEN /\ Return(c, SendHeader([conn[c] EXCEPT !.key = k],
                                        "OUT_OF_MEMORY"), "SUCCESS")
                /\ UNCHANGED <<buckets, store, queueVars>>
           ELSE /\ MapPut(a, key_bytes')
                /\ store' = [store EXCEPT ![k] = v]
                /\ Return(c, SendHeader([conn[c] EXCEPT !.key = k], "OK"),
                          "SUCCESS")
  BY DEF ReceivePutBody
<1>4. k \in Key /\ v \in Values
  BY <1>3, KeptConn DEF Values
<1> HIDE DEF a, valueComes
<1>5. /\ key_bytes' \in [Queue!Address -> Key \union {NULL, Torn}]
      /\ key_bytes'[a] \in Key
  BY <1>1, <1>2, <1>3, <1>4 DEF MapTypes
<1>6. value_bytes' \in [Queue!Address -> Values]
  BY <1>1, <1>3, <1>4 DEF MapTypes
<1>7. [conn[c] EXCEPT !.key = k] \in ConnectionType
  BY <1>4, KeptConn, FieldTypes
<1>8. /\ Kept(SendHeader([conn[c] EXCEPT !.key = k], "OUT_OF_MEMORY"))
      /\ Kept(SendHeader([conn[c] EXCEPT !.key = k], "OK"))
  BY <1>7, SendHeaderTypes DEF ResponseNames, ErrorTypes
<1>9. ConnTypes'
  BY <1>3, <1>8, ReturnTypes
<1>10. buckets' \in [Key -> Seq(Queue!Address)]
  BY <1>1, <1>3, <1>5, PutTypes DEF MapTypes
<1>11. store' \in [Key -> Values]
  BY <1>3, <1>4 DEF MapTypes
<1> QED
  BY <1>1, <1>5, <1>6, <1>9, <1>10, <1>11 DEF MapTypes

LEMMA SendResponseHeaderTypes ==
  ASSUME ConnTypes, MapTypes, NEW c \in Conn, SendResponseHeader(c)
  PROVE  ConnTypes' /\ MapTypes'
<1>1. MapTypes'
  BY QuietMap DEF SendResponseHeader, Unmapped
<1>2. CASE conn[c].type = "VALUE"
  <2>0. PICK n \in 0 .. 2 : n = ValueSize(conn[c].entry)
    BY DEF ValueSize
  <2> DEFINE l == [conn[c] EXCEPT !.state = "SENDING_BODY"]
             k == [l EXCEPT !.remaining = n]
  <2>1. l \in ConnectionType
    BY KeptConn, FieldTypes DEF States, SendingStates
  <2>2. k \in ConnectionType
    <3> HIDE DEF l
    <3> QED
      BY <2>1, FieldTypes
  <2>3. k.type = conn[c].type
    BY KeptConn DEF ConnectionType
  <2>4. k = [conn[c] EXCEPT !.state = "SENDING_BODY", !.remaining = n]
    BY Zenon
  <2> HIDE DEF k
  <2>5. Return(c, k, "SUCCESS")
    BY <1>2, <2>0, <2>4 DEF SendResponseHeader
  <2> QED
    BY <1>1, <1>2, <2>2, <2>3, <2>5, ReturnTypes DEF Kept, InBody
<1>3. CASE conn[c].type # "VALUE"
  <2>1. \E k : FinishRequest(c, k)
    BY <1>3 DEF SendResponseHeader
  <2> QED
    BY <1>1, <2>1, FinishTypes
<1> QED
  BY <1>2, <1>3

LEMMA SendValueTypes ==
  ASSUME ConnTypes, MapTypes, NEW c \in Conn, SendValue(c)
  PROVE  ConnTypes' /\ MapTypes'
<1>1. \E k : FinishRequest(c, k)
  BY DEF SendValue
<1> QED
  BY <1>1, FinishTypes, QuietMap DEF SendValue, Unmapped

LEMMA PartialTransferTypes ==
  ASSUME ConnTypes, MapTypes, NEW c \in Conn, PartialTransfer(c)
  PROVE  ConnTypes' /\ MapTypes'
<1>1. Kept([conn[c] EXCEPT !.remaining = 1])
  <2>1. 1 \in 0 .. 2
    OBVIOUS
  <2>2. [conn[c] EXCEPT !.remaining = 1] \in ConnectionType
    BY <2>1, KeptConn, FieldTypes, Zenon
  <2>3. /\ [conn[c] EXCEPT !.remaining = 1].state = conn[c].state
        /\ [conn[c] EXCEPT !.remaining = 1].type = conn[c].type
        /\ [conn[c] EXCEPT !.remaining = 1].entry = conn[c].entry
    BY KeptConn DEF ConnectionType
  <2> QED
    BY <2>2, <2>3, KeptConn DEF Kept, InBody
<1>2. \/ Return(c, [conn[c] EXCEPT !.remaining = 1], "SUCCESS")
      \/ Return(c, conn[c], "SUCCESS")
  BY DEF PartialTransfer, PartialPutBody
<1>3. ConnTypes'
  BY <1>1, <1>2, KeptConn, ReturnTypes
<1>4. MapTypes'
  <2>1. CASE PartialPutBody(c)
    <3>1. PICK a \in Queue!Address : a = conn[c].entry
      BY <2>1, BodyAddress DEF PartialPutBody
    <3>2. NULL \in Values
      BY DEF Values
    <3>3. \/ key_bytes' = [key_bytes EXCEPT ![a] = NULL] /\ UNCHANGED value_bytes
          \/ value_bytes' = [value_bytes EXCEPT ![a] = NULL] /\ UNCHANGED key_bytes
      BY <2>1, <3>1 DEF PartialPutBody
    <3> QED
      BY <3>2, <3>3 DEF PartialTransfer, MapTypes
  <2>2. CASE UNCHANGED <<key_bytes, value_bytes>>
    BY <2>2 DEF PartialTransfer, MapTypes
  <2> QED
    BY <2>1, <2>2 DEF PartialTransfer
<1> QED
  BY <1>3, <1>4

LEMMA EndTypes ==
  ASSUME ConnTypes, EndsProgram
  PROVE  ConnTypes'
  BY DEF EndsProgram, Fail, ConnTypes, Kept, InBody, Faults, SocketFaults

LEMMA HandlerTypes ==
  ASSUME QueueInv, TypesInv, NEW c \in Conn, Serve(c)
  PROVE  TypesInv'
<1>1. CASE ReceivePutArguments(c)
  BY <1>1, ReceivePutArgumentsTypes DEF TypesInv
<1>2. ASSUME ~ReceivePutArguments(c), ConnTypes' /\ MapTypes' PROVE TypesInv'
  BY <1>2, HandlersTouch DEF HeadersTouched, TypesInv, SizeInv
<1>3. CASE NoTransfer(c)
  <2>1. ConnTypes'
    BY <1>3, KeptConn, ReturnTypes DEF NoTransfer, TypesInv
  <2> QED
    BY <1>1, <1>2, <1>3, <2>1, QuietMap DEF NoTransfer, Unmapped, TypesInv
<1>4. CASE SocketFails(c)
  <2>1. \E k : Return(c, k, "DISCONNECT")
    BY <1>4 DEF SocketFails
  <2> QED
    BY <1>1, <1>2, <1>4, <2>1, ReturnTypes, QuietMap
       DEF SocketFails, Unmapped, TypesInv
<1>5. CASE \/ SocketFailsInFree(c) \/ SendSignals(c) \/ TransferUnsupported(c)
           \/ StrayPointer(c)
  <2>1. EndsProgram /\ Unmapped
    BY <1>5 DEF SocketFailsInFree, SendSignals, TransferUnsupported, StrayPointer,
       EndsProgram, Unmapped
  <2> QED
    BY <1>1, <1>2, <2>1, EndTypes, QuietMap DEF TypesInv
<1>6. CASE \/ ReceiveHeader(c) \/ ReceiveKeyArguments(c) \/ ReceiveGetBody(c)
           \/ ReceiveDeleteBody(c) \/ ReceivePutKey(c) \/ ReceivePutBody(c)
           \/ SendResponseHeader(c) \/ SendValue(c) \/ PartialTransfer(c)
  BY <1>1, <1>2, <1>6, ReceiveHeaderTypes, ReceiveKeyArgumentsTypes,
     ReceiveGetBodyTypes, ReceiveDeleteBodyTypes, ReceivePutKeyTypes,
     ReceivePutBodyTypes, SendResponseHeaderTypes, SendValueTypes,
     PartialTransferTypes DEF TypesInv
<1> QED
  BY <1>1, <1>3, <1>4, <1>5, <1>6 DEF Serve, Transfer

(* The loops of memory_queue_allocate.                                      *)
LEMMA LoopTypes ==
  ASSUME LoopInv, QueueInv, TypesInv, AllocateLoop \/ AllocateReturns
  PROVE  TypesInv'
<1>1. /\ pc # "idle" /\ CleanMap /\ Queue!AllocateStep
      /\ UNCHANGED <<store, puts>>
  BY DEF AllocateLoop, AllocateReturns, Allocating
<1>2. SizeInv'
  BY <1>1 DEF TypesInv, SizeInv, Queue!AllocateStep, Queue!WrapClean, Queue!Wrap,
     Queue!WrapOverruns, Queue!ReclaimClean, Queue!AllocateCommit,
     Queue!ForceClean, Queue!WriteBlocked
<1>3. buckets' \in [Key -> Seq(Queue!Address)]
  BY <1>1, CleanedTypes DEF TypesInv
<1>4. /\ key_bytes \in [Queue!Address -> Key \union {NULL, Torn}]
      /\ value_bytes \in [Queue!Address -> Values]
      /\ store' \in [Key -> Values] /\ puts' \in 0 .. MaxPuts
  BY <1>1 DEF TypesInv, MapTypes
<1>5. \A n : Given(write_index, n) \in [Queue!Address -> Key \union {NULL, Torn}]
  BY <1>4 DEF Given
<1>6. write_index \in Queue!Address /\ NULL \in Values
  BY DEF QueueInv, Queue!TypeOK, Values
<1>7. CASE AllocateLoop
  <2>1. ConnTypes'
    BY <1>7 DEF AllocateLoop, loopVars, TypesInv, ConnTypes, Kept, InBody
  <2>2. \/ key_bytes' = key_bytes \/ key_bytes' = Given(write_index, HeaderSize)
    BY <1>7 DEF AllocateLoop
  <2>3. UNCHANGED value_bytes
    BY <1>7 DEF AllocateLoop
  <2> QED
    BY <1>2, <1>3, <1>4, <1>5, <2>1, <2>2, <2>3 DEF TypesInv, MapTypes
<1>8. CASE AllocateReturns
  <2>1. current \in Conn /\ total_size - HeaderSize \in 0 .. 2
    BY <1>1 DEF LoopInv, TurnsInv, TypesInv, SizeInv
  <2>2. Kept(WriteGranted(conn[current])) /\ Kept(WriteRefused(conn[current]))
    BY <1>6, <2>1, KeptConn, WriteTypes DEF TypesInv
  <2>3. \/ Return(current, WriteGranted(conn[current]), "SUCCESS")
        \/ Return(current, WriteRefused(conn[current]), "WRITE_BLOCKED")
    BY <1>8 DEF AllocateReturns
  <2>4. ConnTypes'
    BY <2>1, <2>2, <2>3, ReturnTypes DEF TypesInv
  <2>5. CASE result' = "SUCCESS"
    <3> DEFINE left(bytes) == IF IsTorn(write_index) THEN NULL ELSE bytes
               given == Given(write_index, total_size)
    <3>1. /\ key_bytes' = [given EXCEPT ![write_index] = left(given[write_index])]
          /\ value_bytes' = [value_bytes EXCEPT
                               ![write_index] = left(value_bytes[write_index])]
      BY <1>8, <2>5 DEF AllocateReturns
    <3>2. /\ left(given[write_index]) \in Key \union {NULL, Torn}
          /\ left(value_bytes[write_index]) \in Values
      BY <1>4, <1>5, <1>6
    <3>3. given \in [Queue!Address -> Key \union {NULL, Torn}]
      BY <1>5
    <3> HIDE DEF left, given
    <3>4. /\ key_bytes' \in [Queue!Address -> Key \union {NULL, Torn}]
          /\ value_bytes' \in [Queue!Address -> Values]
      BY <1>4, <1>6, <3>1, <3>2, <3>3
    <3> QED
      BY <1>2, <1>3, <1>4, <2>4, <3>4 DEF TypesInv, MapTypes
  <2>6. CASE result' # "SUCCESS"
    <3>1. UNCHANGED <<key_bytes, value_bytes>>
      BY <1>8, <2>6 DEF AllocateReturns
    <3> QED
      BY <1>2, <1>3, <1>4, <2>4, <3>1 DEF TypesInv, MapTypes
  <2> QED
    BY <2>5, <2>6
<1> QED
  BY <1>7, <1>8

LEMMA AcceptTypes ==
  ASSUME TypesInv, NEW c \in Conn, AcceptConnection(c)
  PROVE  TypesInv'
<1>1. /\ conn' = [conn EXCEPT ![c] = NewRequest] /\ UNCHANGED <<blocked, fault>>
      /\ Unmapped /\ UNCHANGED queueVars
  BY DEF AcceptConnection, Accept, Unmapped
<1>2. ConnTypes'
  <2>1. \A d \in Conn : Kept(conn'[d])
    BY <1>1, FreshTypes DEF TypesInv, ConnTypes
  <2>2. DOMAIN conn' = Conn /\ conn' = [d \in Conn |-> conn'[d]]
    BY <1>1 DEF TypesInv, ConnTypes
  <2> QED
    BY <1>1, <2>1, <2>2 DEF TypesInv, ConnTypes, Kept, InBody
<1> QED
  BY <1>1, <1>2, QuietMap DEF TypesInv, SizeInv, queueVars

LEMMA StutterTypes ==
  ASSUME TypesInv, UNCHANGED vars
  PROVE  TypesInv'
<1>1. /\ UNCHANGED <<conn, blocked, fault, pc, total_size>> /\ Unmapped
  BY DEF vars, loopVars, queueVars, Unmapped
<1>2. ConnTypes'
  BY <1>1 DEF TypesInv, ConnTypes, Kept, InBody
<1> QED
  BY <1>1, <1>2, QuietMap DEF TypesInv, SizeInv

LEMMA InitTypes == Init => TypesInv
<1> SUFFICES ASSUME Init PROVE TypesInv
  OBVIOUS
<1>1. /\ conn = [c \in Conn |-> Closed] /\ blocked = {} /\ fault = "none"
      /\ pc = "idle"
  BY DEF Init, LoopInit, Queue!Init
<1>2. ConnTypes
  BY <1>1, FreshTypes DEF ConnTypes, Faults
<1>3. MapTypes
  BY ConnectionAssumption DEF Init, MapTypes, Values
<1> QED
  BY <1>1, <1>2, <1>3 DEF TypesInv, SizeInv

(* Every variable of the server keeps the type of its declaration, and the  *)
(* program ends of nothing but the listed faults, whatever the sizes of the *)
(* entries and whatever is evicted: cache_server.c, connection.c and        *)
(* memory_queue.c together.                                                 *)
THEOREM ServerTypesHold == Spec => []TypeOK
<1>1. Init => LoopInv /\ QueueInv /\ TypesInv
  BY InitEstablishesInv, QueueInit, InitTypes DEF Init
<1>2. LoopInv /\ QueueInv /\ TypesInv /\ [Next]_vars => TypesInv'
  BY HandlerTypes, LoopTypes, AcceptTypes, StutterTypes DEF Next
<1>3. LoopInv /\ QueueInv /\ TypesInv => TypeOK
  <2> SUFFICES ASSUME LoopInv, QueueInv, TypesInv PROVE TypeOK
    OBVIOUS
  <2>1. Queue!TypeOK /\ list \in Connections!Lists /\ order \in Seq(Conn)
    BY DEF QueueInv, LoopInv, ListInv, Connections!TypeOK
  <2>2. current \in Conn \union {NULL}
    BY DEF LoopInv, TurnsInv, Listed, Waiting
  <2>3. conn \in [Conn -> ConnectionType]
    BY DEF TypesInv, ConnTypes, Kept
  <2> QED
    BY <2>1, <2>2, <2>3 DEF TypesInv, ConnTypes, MapTypes, BlockedType, TypeOK
<1> QED
  BY <1>1, <1>2, <1>3, LoopInvHolds, QueueInvHolds, PTL DEF Spec
=============================================================================
