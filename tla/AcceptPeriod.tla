---------------------------- MODULE AcceptPeriod ----------------------------
(***************************************************************************)
(* When cache_server_proc accepts: at once while there is no connection,   *)
(* and otherwise once the accept period has passed, by the clock of the    *)
(* machine, which gettimeofday reads and which can be set.                 *)
(*                                                                         *)
(* ServerLoop.tla leaves the choice between accepting and serving open on  *)
(* every turn.  This module is about that choice: the clients that wait to *)
(* be accepted, the clock, and turns that take time.  What a turn does to  *)
(* the connections is abstracted to whether one of them leaves.            *)
(*                                                                         *)
(* Timestamps are unsigned and their difference wraps around, which is the *)
(* case to look at: a clock that was set back.                             *)
(*                                                                         *)
(* A turn that accepts reads the clock twice, to compare and to stamp      *)
(* (cache_server.c:117 and 170).  Here it is one reading: no time passes   *)
(* in between, and the clock is not set.                                   *)
(***************************************************************************)
EXTENDS Integers, Sequences

CONSTANTS
  Client,
  Period,          \* ACCEPT_PERIOD_MICROS
  BacklogLimit,    \* CONNECTION_BACKLOG_LIMIT
  ClockModulus,    \* 2^64
  MaxDelay,        \* the longest a turn takes, and the loop between two turns
  MaxAdjustments,  \* bound: how often the clock is set
  InitFails        \* {FALSE}, or BOOLEAN when connection_init may fail

ASSUME AcceptPeriodAssumption ==
  /\ Period \in Nat
  /\ BacklogLimit \in Nat \ {0}
  /\ MaxDelay \in 1 .. Period
  /\ ClockModulus \in Nat /\ Period + MaxDelay < ClockModulus
  /\ MaxAdjustments \in Nat
  /\ InitFails \in (SUBSET BOOLEAN) \ {{}}

VARIABLES
  clock,
  last_accept_timestamp,
  backlog,       \* the clients in the listening socket's queue
  connected,     \* the clients that have a connection, and so turns
  lost,          \* clients accepted for which no connection was made
  delay,         \* how long ago the last turn was
  waited,        \* history: how long ago the last turn that accepts was
  adjustments,   \* how often the clock was set
  adjusted,      \* history: it was set since the last turn that accepts
  served         \* history: a connection had a turn since then

vars == <<clock, last_accept_timestamp, backlog, connected, lost, delay,
          waited, adjustments, adjusted, served>>

(* context.last_accept_timestamp = 0: the first turn has no connection yet  *)
(* and accepts whatever the clock says.                                     *)
Init ==
  /\ clock \in 0 .. ClockModulus - 1
  /\ last_accept_timestamp = 0
  /\ backlog = << >> /\ connected = {} /\ lost = {}
  /\ delay = 0 /\ waited = 0
  /\ adjustments = 0 /\ adjusted = FALSE
  /\ served = FALSE

-----------------------------------------------------------------------------
(* time_get_timestamp *)
Timestamp == clock

(* A seeded slip, which a run must notice: a signed difference. *)
ElapsedSigned == Timestamp - last_accept_timestamp

(* The difference of two unsigned numbers, modulo 2^64. *)
Elapsed ==
  IF Timestamp >= last_accept_timestamp THEN Timestamp - last_accept_timestamp
  ELSE Timestamp - last_accept_timestamp + ClockModulus

AcceptDue == connected = {} \/ Elapsed > Period

(* accept_connection: a client waits, and gets a connection unless accept   *)
(* fails (and the client waits on) or connection_init does (and the client, *)
(* whose descriptor is forgotten, is never served nor closed).              *)
Accepted ==
  \/ /\ backlog # << >>
     /\ \E fails \in InitFails :
          /\ backlog' = Tail(backlog)
          /\ connected' = IF fails THEN connected
                          ELSE connected \union {Head(backlog)}
          /\ lost' = IF fails THEN lost \union {Head(backlog)} ELSE lost
  \/ UNCHANGED <<backlog, connected, lost>>

(* A seeded slip: only a client that is accepted sets the timestamp. *)
StampedOnAccept ==
  last_accept_timestamp' = IF backlog' = backlog THEN last_accept_timestamp
                           ELSE Timestamp

Stamped == last_accept_timestamp' = Timestamp

AcceptTurn ==
  /\ AcceptDue
  /\ Accepted
  /\ Stamped
  /\ delay' = 0 /\ waited' = 0
  /\ adjusted' = FALSE /\ served' = FALSE
  /\ UNCHANGED <<clock, adjustments>>

(* A turn of the current connection: it stays, or some connection leaves.   *)
Serve(left) ==
  /\ ~AcceptDue
  /\ connected' = connected \ left
  /\ delay' = 0
  /\ served' = TRUE
  /\ UNCHANGED <<clock, last_accept_timestamp, backlog, lost, waited,
                 adjustments, adjusted>>

(* A seeded slip: a turn that serves sets the timestamp as well. *)
ServeTurnStamped ==
  /\ ~AcceptDue
  /\ last_accept_timestamp' = clock
  /\ delay' = 0
  /\ served' = TRUE
  /\ UNCHANGED <<clock, backlog, connected, lost, waited, adjustments, adjusted>>

ServeTurn == Serve({})

LeaveTurn == \E c \in connected : Serve({c})

(* The clients and the clock. *)
Connect(c) ==
  /\ c \notin connected \union lost
  /\ \A i \in DOMAIN backlog : backlog[i] # c
  /\ Len(backlog) < BacklogLimit
  /\ backlog' = Append(backlog, c)
  /\ UNCHANGED <<clock, last_accept_timestamp, connected, lost, delay, waited,
                 adjustments, adjusted, served>>

(* The bound up to which waited counts, beyond all AcceptsAreTimely allows. *)
WaitedCap == (MaxAdjustments + 1) * (Period + MaxDelay) + 1

Tick ==
  /\ delay < MaxDelay
  /\ clock' = IF clock + 1 = ClockModulus THEN 0 ELSE clock + 1
  /\ delay' = delay + 1
  /\ waited' = IF waited < WaitedCap THEN waited + 1 ELSE waited
  /\ UNCHANGED <<last_accept_timestamp, backlog, connected, lost, adjustments,
                 adjusted, served>>

(* The clock is set, back or ahead. *)
Adjust(t) ==
  /\ adjustments < MaxAdjustments
  /\ clock' = t
  /\ adjustments' = adjustments + 1
  /\ adjusted' = TRUE
  /\ UNCHANGED <<last_accept_timestamp, backlog, connected, lost, delay,
                 waited, served>>

Next ==
  \/ AcceptTurn \/ ServeTurn \/ LeaveTurn
  \/ Tick
  \/ \E c \in Client : Connect(c)
  \/ \E t \in 0 .. ClockModulus - 1 : Adjust(t)

(* The loop takes turns, time passes, and accept does not fail for ever.    *)
Fairness ==
  /\ WF_vars(AcceptTurn) /\ WF_vars(ServeTurn) /\ WF_vars(Tick)
  /\ SF_vars(AcceptTurn /\ backlog # << >> /\ backlog' = Tail(backlog))

Spec == Init /\ [][Next]_vars /\ Fairness

-----------------------------------------------------------------------------
(* A clock that is set delays the next accept by one more period at most:   *)
(* set back behind the last accept, the unsigned difference is so large     *)
(* that the next turn accepts, instead of waiting until the clock has       *)
(* caught up.                                                               *)
AcceptsAreTimely == waited <= (adjustments + 1) * (Period + MaxDelay)

(* Accepting never takes two turns running while somebody is connected, be  *)
(* it that nobody waits or that accept fails, unless the clock was set.     *)
(* It needs MaxDelay <= Period: were a turn to take longer than the period, *)
(* every turn could accept.                                                 *)
ServedBetweenAccepts ==
  [][AcceptTurn /\ connected # {} /\ ~adjusted => served]_vars

(* Who waits to be accepted is accepted, however busy the connections are   *)
(* and whatever becomes of the clock.                                       *)
WaitingClientsAreAccepted ==
  \A c \in Client :
    (\E i \in DOMAIN backlog : backlog[i] = c) ~> c \in connected \union lost
=============================================================================
