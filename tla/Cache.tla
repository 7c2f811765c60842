------------------------------- MODULE Cache -------------------------------
(***************************************************************************)
(* What the server promises its clients: a map of keys to values, on which *)
(* every request takes effect at one moment, between its arrival and its   *)
(* answer, and whose answer says what it found at that moment and is not   *)
(* changed by what other clients do before it has been sent to its end.    *)
(*                                                                         *)
(* CacheServer.tla is shown to implement this module while nothing is      *)
(* evicted, with the map read out of the bytes in the buffer.              *)
(***************************************************************************)
CONSTANTS Client, Key, Value, NULL

VARIABLES
  map,       \* the value of every key, NULL for none
  answer     \* of every client: Closed, Asking, or what it is being answered

vars == <<map, answer>>

Closed == [request |-> "NONE", type |-> "CLOSED", key |-> NULL, value |-> NULL]
Asking == [request |-> "NONE", type |-> "ASKING", key |-> NULL, value |-> NULL]

Init ==
  /\ map = [k \in Key |-> NULL]
  /\ answer = [c \in Client |-> Closed]

Answered(c, request, type, k, v) ==
  /\ answer[c] = Asking
  /\ answer' = [answer EXCEPT ![c] = [request |-> request, type |-> type,
                                     key |-> k, value |-> v]]

Open(c) ==
  /\ answer[c] = Closed
  /\ answer' = [answer EXCEPT ![c] = Asking]
  /\ UNCHANGED map

Get(c, k) ==
  /\ Answered(c, "GET", IF map[k] = NULL THEN "NOT_FOUND" ELSE "VALUE",
              k, map[k])
  /\ UNCHANGED map

Put(c, k, v) ==
  /\ Answered(c, "PUT", "OK", k, NULL)
  /\ map' = [map EXCEPT ![k] = v]

Delete(c, k) ==
  /\ Answered(c, "DELETE", "OK", k, NULL)
  /\ map' = [map EXCEPT ![k] = NULL]

(* A ping, and what is refused, have no effect.  A request can be refused   *)
(* before its key is known.                                                 *)
Refusals ==
  {<<"PING", "PONG">>, <<"UNKNOWN", "UNKNOWN_REQUEST">>,
   <<"NONE", "UNSUPPORTED_VERSION">>}
    \union ({"GET", "PUT", "DELETE"} \X {"OUT_OF_MEMORY"})

Refuse(c, k) ==
  /\ \E r \in Refusals : Answered(c, r[1], r[2], k, NULL)
  /\ UNCHANGED map

(* The answer has been sent: the client may ask again, or is closed. *)
Sent(c) ==
  /\ answer[c] \notin {Closed, Asking}
  /\ answer' = [answer EXCEPT ![c] = Asking]
  /\ UNCHANGED map

Leave(c) ==
  /\ answer' = [answer EXCEPT ![c] = Closed]
  /\ UNCHANGED map

(* Every step is one of one client, and changes what it is being answered. *)
Next ==
  \E c \in {d \in Client : answer'[d] # answer[d]} :
    \/ Open(c) \/ Sent(c) \/ Leave(c)
    \/ \E k \in Key : Get(c, k) \/ Delete(c, k) \/ \E v \in Value : Put(c, k, v)
    \/ \E k \in Key \union {NULL} : Refuse(c, k)

Spec == Init /\ [][Next]_vars
=============================================================================
