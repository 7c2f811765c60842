------------------------- MODULE AcceptPeriodProofs -------------------------
(***************************************************************************)
(* Two theorems about AcceptPeriod.tla, for every period, length of turns, *)
(* width and setting of the clock: the server accepts in time, and it does *)
(* not accept twice running while there is a connection to serve.          *)
(***************************************************************************)
EXTENDS AcceptPeriod, TLAPS

(* What the time since the last turn that accepts may be, in a behaviour in *)
(* which the clock was set n times.                                         *)
Allowed(n) == n * (Period + MaxDelay)

Types ==
  /\ clock \in 0 .. ClockModulus - 1
  /\ last_accept_timestamp \in 0 .. ClockModulus - 1
  /\ delay \in 0 .. MaxDelay
  /\ waited \in Nat
  /\ adjustments \in Nat
  /\ adjusted \in BOOLEAN
  /\ served \in BOOLEAN

(* Since the last accept only the turn in progress has taken time, unless   *)
(* the clock was set or a connection was served.                            *)
Fresh == connected # {} /\ ~adjusted /\ ~served => Elapsed = delay

(* Either the clock tells, but for its adjustments, how long the last turn  *)
(* that accepts was ago, and the turn before this one found the period not  *)
(* passed; or it tells that the period has passed; or nobody is connected,  *)
(* in either of which cases the next turn accepts.                          *)
Told ==
  /\ Elapsed <= Period + delay
  /\ waited <= Allowed(adjustments) + Elapsed

Passed ==
  /\ Elapsed > Period
  /\ waited + MaxDelay <= Allowed(adjustments) + delay

Nobody == connected = {} /\ waited <= delay

Waited == Told \/ Passed \/ Nobody

IInv == Types /\ Fresh /\ Waited

-----------------------------------------------------------------------------
(* Constants are what the assumption says, in a form the leaves can use.    *)
LEMMA Constants ==
  /\ Period \in Nat /\ MaxDelay \in Nat /\ ClockModulus \in Nat
  /\ 1 <= MaxDelay /\ MaxDelay <= Period
  /\ Period + MaxDelay < ClockModulus
  BY AcceptPeriodAssumption DEF AcceptPeriodAssumption

LEMMA AllowedGrows ==
  ASSUME NEW n \in Nat
  PROVE  /\ Allowed(n) \in Nat
         /\ Allowed(n + 1) = Allowed(n) + Period + MaxDelay
  BY Constants DEF Allowed

(* The difference of two timestamps is less than the width of the clock,    *)
(* and a tick adds one to it, or makes it 0.                                *)
LEMMA DifferenceIsSmall ==
  ASSUME NEW t \in 0 .. ClockModulus - 1, NEW last \in 0 .. ClockModulus - 1
  PROVE  (IF t >= last THEN t - last ELSE t - last + ClockModulus)
           \in 0 .. ClockModulus - 1
  BY Constants

LEMMA ElapsedIsSmall ==
  ASSUME Types
  PROVE  Elapsed \in 0 .. ClockModulus - 1
  BY DifferenceIsSmall DEF Types, Elapsed, Timestamp

LEMMA TickAddsOne ==
  ASSUME Types, Tick
  PROVE  Elapsed' = IF Elapsed = ClockModulus - 1 THEN 0 ELSE Elapsed + 1
  BY Constants DEF Types, Tick, Elapsed, Timestamp

(* A turn that accepts sets the timestamp to the clock. *)
LEMMA AcceptResets ==
  ASSUME Types, AcceptTurn
  PROVE  Elapsed' = 0
  BY DEF Types, AcceptTurn, Stamped, Elapsed, Timestamp

LEMMA InitTypes == Init => Types
<1> SUFFICES ASSUME Init PROVE Types
  OBVIOUS
<1>1. adjusted \in BOOLEAN /\ served \in BOOLEAN
  BY Zenon DEF Init
<1>2. /\ clock \in 0 .. ClockModulus - 1
      /\ last_accept_timestamp = 0 /\ delay = 0 /\ waited = 0
      /\ adjustments = 0
  BY Zenon DEF Init
<1> QED
  BY <1>1, <1>2, Constants DEF Types

LEMMA TypesKept ==
  ASSUME Types, [Next]_vars
  PROVE  Types'
<1> USE Constants
<1>1. CASE AcceptTurn
  <2>1. adjusted' \in BOOLEAN /\ served' \in BOOLEAN
    BY <1>1, Zenon DEF AcceptTurn
  <2>2. /\ clock' = clock /\ last_accept_timestamp' = clock
        /\ delay' = 0 /\ waited' = 0 /\ adjustments' = adjustments
    BY <1>1, Zenon DEF AcceptTurn, Stamped, Timestamp
  <2> QED
    BY <2>1, <2>2 DEF Types
<1>2. ASSUME NEW left, Serve(left) PROVE Types'
  BY <1>2 DEF Types, Serve
<1>3. CASE Tick
  BY <1>3 DEF Types, Tick
<1>4. ASSUME NEW c \in Client, Connect(c) PROVE Types'
  BY <1>4 DEF Types, Connect
<1>5. ASSUME NEW t \in 0 .. ClockModulus - 1, Adjust(t) PROVE Types'
  BY <1>5 DEF Types, Adjust
<1>6. CASE UNCHANGED vars
  BY <1>6 DEF Types, vars
<1> QED
  BY <1>1, <1>2, <1>3, <1>4, <1>5, <1>6 DEF Next, ServeTurn, LeaveTurn

(* Whatever the case, the wait is within what one more period allows: what  *)
(* is left of the invariant when the clock is set.                          *)
LEMMA WaitedIsBounded ==
  ASSUME Types, Waited
  PROVE  waited <= Allowed(adjustments) + Period + delay
<1>1. Allowed(adjustments) \in Nat
  BY AllowedGrows DEF Types
<1> QED
  BY <1>1, Constants, ElapsedIsSmall DEF Types, Waited, Told, Passed, Nobody

LEMMA FreshKept ==
  ASSUME Types, Fresh, [Next]_vars
  PROVE  Fresh'
<1>1. CASE AcceptTurn
  BY <1>1, AcceptResets DEF Fresh, AcceptTurn
<1>2. ASSUME NEW left, Serve(left) PROVE Fresh'
  BY <1>2 DEF Fresh, Serve
<1>3. CASE Tick
  <2>1. SUFFICES ASSUME connected # {}, ~adjusted, ~served
                 PROVE  Elapsed' = delay + 1
    BY <1>3 DEF Fresh, Tick
  <2>2. Elapsed = delay /\ delay < MaxDelay
    BY <1>3, <2>1 DEF Fresh, Tick
  <2> QED
    BY <1>3, <2>2, TickAddsOne, Constants DEF Types
<1>4. ASSUME NEW c \in Client, Connect(c) PROVE Fresh'
  BY <1>4 DEF Fresh, Connect, Elapsed, Timestamp
<1>5. ASSUME NEW t \in 0 .. ClockModulus - 1, Adjust(t) PROVE Fresh'
  BY <1>5 DEF Fresh, Adjust
<1>6. CASE UNCHANGED vars
  BY <1>6 DEF Fresh, vars, Elapsed, Timestamp
<1> QED
  BY <1>1, <1>2, <1>3, <1>4, <1>5, <1>6 DEF Next, ServeTurn, LeaveTurn

LEMMA WaitedKept ==
  ASSUME Types, Waited, [Next]_vars
  PROVE  Waited'
<1> DEFINE A == Allowed(adjustments)
<1>1. /\ A \in Nat
      /\ Allowed(adjustments + 1) = A + Period + MaxDelay
  BY AllowedGrows DEF Types
<1>2. Elapsed \in Nat /\ Types'
  BY ElapsedIsSmall, TypesKept
<1>3. Elapsed' \in 0 .. ClockModulus - 1
  <2>1. /\ clock' \in 0 .. ClockModulus - 1
        /\ last_accept_timestamp' \in 0 .. ClockModulus - 1
    BY <1>2 DEF Types
  <2> QED
    BY <2>1, DifferenceIsSmall DEF Elapsed, Timestamp
<1>4. CASE AcceptTurn
  <2>1. Elapsed' = 0 /\ waited' = 0 /\ delay' = 0 /\ adjustments' = adjustments
    BY <1>4, AcceptResets DEF AcceptTurn
  <2> QED
    BY <2>1, <1>1, Constants DEF Waited, Told, Allowed
<1>5. ASSUME NEW left, Serve(left) PROVE Waited'
  <2>1. connected # {} /\ ~(Elapsed > Period)
    BY <1>5 DEF Serve, AcceptDue
  <2>2. waited <= A + Elapsed
    BY <2>1 DEF Waited, Told, Passed, Nobody
  <2>3. /\ Elapsed' = Elapsed /\ waited' = waited /\ delay' = 0
        /\ Allowed(adjustments)' = A
    BY <1>5 DEF Serve, Elapsed, Timestamp, Allowed
  <2> QED
    BY <2>1, <2>2, <2>3, <1>2, Constants DEF Waited, Told
<1>6. CASE Tick
  <2>1. /\ delay < MaxDelay /\ delay' = delay + 1 /\ connected' = connected
        /\ Allowed(adjustments)' = A
    BY <1>6 DEF Tick, Allowed
  <2>2. waited' <= waited + 1 /\ waited' \in Nat
    BY <1>6, <1>2 DEF Tick, Types
  <2>3. Elapsed' = IF Elapsed = ClockModulus - 1 THEN 0 ELSE Elapsed + 1
    BY <1>6, TickAddsOne
  <2>4. CASE Told
    BY <2>1, <2>2, <2>3, <2>4, <1>1, <1>2, Constants DEF Waited, Told, Types
  <2>5. CASE Passed /\ Elapsed' = 0
    BY <2>1, <2>2, <2>5, <1>1, <1>2, Constants DEF Waited, Passed, Told, Types
  <2>6. CASE Passed /\ Elapsed' = Elapsed + 1
    BY <2>1, <2>2, <2>6, <1>1, <1>2, Constants DEF Waited, Passed, Types
  <2>7. CASE Nobody
    BY <2>1, <2>2, <2>7, Constants DEF Waited, Nobody, Types
  <2> QED
    BY <2>3, <2>4, <2>5, <2>6, <2>7 DEF Waited
<1>7. ASSUME NEW c \in Client, Connect(c) PROVE Waited'
  <2>1. /\ Elapsed' = Elapsed /\ waited' = waited /\ delay' = delay
        /\ Allowed(adjustments)' = A
    BY <1>7 DEF Connect, Elapsed, Timestamp, Allowed
  <2>2. connected' = connected
    BY <1>7 DEF Connect
  <2> QED
    BY <2>1, <2>2 DEF Waited, Told, Passed, Nobody
<1>8. ASSUME NEW t \in 0 .. ClockModulus - 1, Adjust(t) PROVE Waited'
  <2>1. /\ waited' = waited /\ delay' = delay
        /\ Allowed(adjustments)' = A + Period + MaxDelay
    BY <1>8, <1>1 DEF Adjust, Allowed
  <2>2. waited <= A + Period + delay
    BY WaitedIsBounded
  <2>3. CASE Elapsed' > Period
    BY <2>1, <2>2, <2>3, <1>1, Constants DEF Waited, Passed, Types
  <2>4. CASE ~(Elapsed' > Period)
    BY <2>1, <2>2, <2>4, <1>1, <1>3, Constants DEF Waited, Told, Types
  <2> QED
    BY <2>3, <2>4
<1>9. CASE UNCHANGED vars
  BY <1>9 DEF vars, Waited, Told, Passed, Nobody, Elapsed, Timestamp, Allowed
<1> QED
  BY <1>4, <1>5, <1>6, <1>7, <1>8, <1>9 DEF Next, ServeTurn, LeaveTurn

LEMMA Invariance == Spec => []IInv
<1>1. Init => IInv
  BY InitTypes DEF Init, IInv, Fresh, Waited, Nobody
<1>2. IInv /\ [Next]_vars => IInv'
  BY TypesKept, FreshKept, WaitedKept DEF IInv
<1> QED
  BY <1>1, <1>2, PTL DEF Spec

-----------------------------------------------------------------------------
(* However often the clock is set, back or ahead, the server accepts again  *)
(* within one period and one turn, and as much again for every setting.     *)
THEOREM Timely == Spec => []AcceptsAreTimely
<1>1. IInv => AcceptsAreTimely
  <2> SUFFICES ASSUME IInv PROVE AcceptsAreTimely
    OBVIOUS
  <2>1. Types /\ waited <= Allowed(adjustments) + Period + delay
    BY WaitedIsBounded DEF IInv
  <2>2. /\ Allowed(adjustments) \in Nat
        /\ Allowed(adjustments + 1) = Allowed(adjustments) + Period + MaxDelay
    BY <2>1, AllowedGrows DEF Types
  <2>3. waited <= Allowed(adjustments + 1)
    BY <2>1, <2>2, Constants DEF Types
  <2> QED
    BY <2>3 DEF Allowed, AcceptsAreTimely
<1> QED
  BY <1>1, Invariance, PTL

(* As long as a turn takes no longer than the period, two turns that accept *)
(* have a turn of a connection between them, unless the clock was set.      *)
THEOREM Served == Spec => ServedBetweenAccepts
<1>1. IInv /\ [Next]_vars =>
        [AcceptTurn /\ connected # {} /\ ~adjusted => served]_vars
  <2> SUFFICES ASSUME IInv, AcceptTurn, connected # {}, ~adjusted, ~served
               PROVE  FALSE
    OBVIOUS
  <2>1. Elapsed > Period
    BY DEF AcceptTurn, AcceptDue
  <2>2. Elapsed = delay
    BY DEF IInv, Fresh
  <2> QED
    BY <2>1, <2>2, Constants DEF IInv, Types
<1> QED
  BY <1>1, Invariance, PTL DEF Spec, ServedBetweenAccepts
=============================================================================
