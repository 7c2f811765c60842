------------------------ MODULE ConnectionListProofs ------------------------
(***************************************************************************)
(* Proofs about the connection list, for every set of connections, list of *)
(* any length, and width of its counter.                                   *)
(***************************************************************************)
EXTENDS ConnectionList, SequenceTheorems, TLAPS

Distinct(s) == \A i, j \in DOMAIN s : s[i] = s[j] => i = j

Inv == TypeOK /\ Distinct(order) /\ LinksSpellOrder

(* Between a removal and the append that follows it, the connection c is in *)
(* no list and still carries its links: Spells, but for those.  They are    *)
(* NULL when c was alone, and that is when append leaves them alone.        *)
SpellsBut(l, s, c) ==
  /\ l.count = Len(s) % CountModulus
  /\ l.head = IF s = << >> THEN NULL ELSE s[1]
  /\ l.tail = IF s = << >> THEN NULL ELSE s[Len(s)]
  /\ \A i \in DOMAIN s :
       /\ l.previous[s[i]] = IF i = 1 THEN NULL ELSE s[i - 1]
       /\ l.next[s[i]] = IF i = Len(s) THEN NULL ELSE s[i + 1]
  /\ \A d \in Conn \ ToSet(s) :
       d # c => l.previous[d] = NULL /\ l.next[d] = NULL
  /\ s = << >> => l.previous[c] = NULL /\ l.next[c] = NULL

-----------------------------------------------------------------------------
(* Sequences. *)

LEMMA ElementsAreIndexed ==
  ASSUME NEW s \in Seq(Conn)
  PROVE  /\ Len(s) \in Nat /\ DOMAIN s = 1 .. Len(s)
         /\ \A i \in 1 .. Len(s) : s[i] \in Conn
         /\ \A c : c \in ToSet(s) <=> \E i \in 1 .. Len(s) : s[i] = c
         /\ s = << >> <=> Len(s) = 0
  BY DEF ToSet

(* RemoveAt takes the i-th element out and keeps the order of the others.   *)
LEMMA RemoveAtProperties ==
  ASSUME NEW S, NEW s \in Seq(S), NEW i \in 1 .. Len(s)
  PROVE  /\ RemoveAt(s, i) \in Seq(S)
         /\ Len(RemoveAt(s, i)) = Len(s) - 1
         /\ \A j \in 1 .. Len(s) - 1 :
              RemoveAt(s, i)[j] = IF j < i THEN s[j] ELSE s[j + 1]
<1> DEFINE front == SubSeq(s, 1, i - 1)
           back == SubSeq(s, i + 1, Len(s))
<1>1. Len(s) \in Nat /\ \A j \in 1 .. Len(s) : s[j] \in S
  OBVIOUS
<1>2. /\ front \in Seq(S) /\ Len(front) = i - 1
      /\ \A j \in 1 .. i - 1 : front[j] = s[j]
  BY <1>1, SubSeqProperties
<1>3. /\ back \in Seq(S) /\ Len(back) = Len(s) - i
      /\ \A j \in 1 .. Len(s) - i : back[j] = s[i + j]
  BY <1>1, SubSeqProperties
<1> HIDE DEF front, back
<1>4. RemoveAt(s, i) = front \o back
  BY DEF RemoveAt, front, back
<1>5. /\ front \o back \in Seq(S) /\ Len(front \o back) = Len(s) - 1
      /\ \A j \in 1 .. Len(s) - 1 :
           (front \o back)[j] = IF j <= i - 1 THEN front[j] ELSE back[j - (i - 1)]
  <2>1. /\ front \o back \in Seq(S)
        /\ Len(front \o back) = Len(front) + Len(back)
        /\ \A j \in 1 .. Len(front) + Len(back) :
             (front \o back)[j] = IF j <= Len(front) THEN front[j]
                                  ELSE back[j - Len(front)]
    BY <1>2, <1>3, ConcatProperties
  <2>2. Len(front) = i - 1 /\ Len(front) + Len(back) = Len(s) - 1
    BY <1>1, <1>2, <1>3
  <2> QED
    BY <2>1, <2>2
<1>6. \A j \in 1 .. Len(s) - 1 : j >= i =>
        j - (i - 1) \in 1 .. Len(s) - i /\ i + (j - (i - 1)) = j + 1
  BY <1>1
<1> QED
  BY <1>1, <1>2, <1>3, <1>4, <1>5, <1>6

(* Without, of a sequence in which nothing comes twice. *)
LEMMA WithoutProperties ==
  ASSUME NEW s \in Seq(Conn), Distinct(s), NEW i \in 1 .. Len(s)
  PROVE  /\ Without(s, s[i]) \in Seq(Conn)
         /\ Len(Without(s, s[i])) = Len(s) - 1
         /\ \A j \in 1 .. Len(s) - 1 :
              Without(s, s[i])[j] = IF j < i THEN s[j] ELSE s[j + 1]
<1>1. (CHOOSE j \in DOMAIN s : s[j] = s[i]) = i
  BY ElementsAreIndexed DEF Distinct
<1>2. Without(s, s[i]) = RemoveAt(s, i)
  BY <1>1 DEF Without
<1> QED
  BY <1>2, RemoveAtProperties

LEMMA WithoutElements ==
  ASSUME NEW s \in Seq(Conn), Distinct(s), NEW c \in ToSet(s)
  PROVE  /\ Distinct(Without(s, c))
         /\ \A d \in Conn : d \in ToSet(Without(s, c)) <=> d \in ToSet(s) /\ d # c
<1> DEFINE t == Without(s, c)
<1>1. PICK i \in 1 .. Len(s) : s[i] = c
  BY ElementsAreIndexed
<1>2. /\ t \in Seq(Conn) /\ Len(t) = Len(s) - 1
      /\ \A j \in 1 .. Len(s) - 1 : t[j] = IF j < i THEN s[j] ELSE s[j + 1]
  BY <1>1, WithoutProperties
<1>3. Len(s) \in Nat /\ DOMAIN t = 1 .. Len(s) - 1 /\ DOMAIN s = 1 .. Len(s)
  BY <1>2, ElementsAreIndexed
<1> HIDE DEF t
<1>4. Distinct(t)
  <2>1. \A j \in 1 .. Len(s) - 1 :
          /\ j \in 1 .. Len(s) /\ j + 1 \in 1 .. Len(s)
    BY <1>3
  <2>2. \A j, k \in 1 .. Len(s) : s[j] = s[k] => j = k
    BY <1>3 DEF Distinct
  <2>3. \A j, k \in 1 .. Len(s) - 1 :
          t[j] = t[k] => \/ j = k \/ j + 1 = k + 1
                         \/ j = k + 1 /\ j < i /\ ~(k < i)
                         \/ j + 1 = k /\ ~(j < i) /\ k < i
    BY <1>2, <2>1, <2>2
  <2>4. \A j, k \in 1 .. Len(s) - 1 : t[j] = t[k] => j = k
    BY <1>3, <2>3
  <2> QED
    BY <1>3, <2>4 DEF Distinct
<1>5. ASSUME NEW d \in Conn, d \in ToSet(t) PROVE d \in ToSet(s) /\ d # c
  <2>1. PICK j \in 1 .. Len(s) - 1 : t[j] = d
    BY <1>2, <1>3, <1>5, ElementsAreIndexed
  <2>2. PICK k \in 1 .. Len(s) : s[k] = d /\ k # i
    BY <1>2, <1>3, <2>1
  <2> QED
    BY <1>1, <1>3, <2>2, ElementsAreIndexed DEF Distinct
<1>6. ASSUME NEW d \in Conn, d \in ToSet(s), d # c PROVE d \in ToSet(t)
  <2>1. PICK k \in 1 .. Len(s) : s[k] = d /\ k # i
    BY <1>1, <1>6, ElementsAreIndexed
  <2>2. \E j \in 1 .. Len(t) : t[j] = d
    <3>1. CASE k < i
      <4>1. k \in 1 .. Len(s) - 1 /\ t[k] = s[k]
        BY <1>2, <1>3, <3>1
      <4> QED
        BY <1>2, <2>1, <4>1
    <3>2. CASE k > i
      <4>1. k - 1 \in 1 .. Len(s) - 1 /\ t[k - 1] = s[k]
        BY <1>2, <1>3, <3>2
      <4> QED
        BY <1>2, <2>1, <4>1
    <3> QED
      BY <2>1, <3>1, <3>2
  <2> QED
    BY <1>2, <2>2, ElementsAreIndexed
<1> QED
  BY <1>4, <1>5, <1>6 DEF t

LEMMA AppendElements ==
  ASSUME NEW s \in Seq(Conn), Distinct(s), NEW c \in Conn, c \notin ToSet(s)
  PROVE  /\ Append(s, c) \in Seq(Conn) /\ Distinct(Append(s, c))
         /\ \A d \in Conn : d \in ToSet(Append(s, c)) <=> d \in ToSet(s) \/ d = c
<1> DEFINE t == Append(s, c)
<1>1. /\ t \in Seq(Conn) /\ Len(t) = Len(s) + 1 /\ t[Len(s) + 1] = c
      /\ \A i \in 1 .. Len(s) : t[i] = s[i]
  BY AppendProperties
<1>2. Len(s) \in Nat /\ DOMAIN t = 1 .. Len(s) + 1 /\ DOMAIN s = 1 .. Len(s)
  BY <1>1, ElementsAreIndexed
<1>3. \A i \in 1 .. Len(s) : s[i] # c
  BY ElementsAreIndexed
<1> HIDE DEF t
<1>4. Distinct(t)
  BY <1>1, <1>2, <1>3 DEF Distinct
<1>5. \A d : d \in ToSet(t) <=> \E i \in 1 .. Len(s) + 1 : t[i] = d
  BY <1>1, <1>2, ElementsAreIndexed
<1>6. \A d : d \in ToSet(s) <=> \E i \in 1 .. Len(s) : s[i] = d
  BY ElementsAreIndexed
<1>7. ASSUME NEW d \in Conn PROVE d \in ToSet(t) <=> d \in ToSet(s) \/ d = c
  BY <1>1, <1>2, <1>5, <1>6
<1> QED
  BY <1>1, <1>4, <1>7 DEF t

-----------------------------------------------------------------------------
(* The counter counts modulo its width. *)

LEMMA Division ==
  ASSUME NEW n \in Nat
  PROVE  /\ n \div CountModulus \in Int
         /\ n % CountModulus \in 0 .. CountModulus - 1
         /\ n = CountModulus * (n \div CountModulus) + (n % CountModulus)
<1>1. n \div CountModulus \in Int
  BY ConnectionListAssumption
<1>2. n % CountModulus \in 0 .. CountModulus - 1
  BY ConnectionListAssumption
<1>3. n = CountModulus * (n \div CountModulus) + (n % CountModulus)
  BY ConnectionListAssumption
<1> QED
  BY <1>1, <1>2, <1>3

LEMMA Remainder ==
  ASSUME NEW q \in Int, NEW r \in 0 .. CountModulus - 1
  PROVE  (CountModulus * q + r) % CountModulus = r
  BY ConnectionListAssumption

LEMMA CountUp ==
  ASSUME NEW n \in Nat
  PROVE  ((n % CountModulus) + 1) % CountModulus = (n + 1) % CountModulus
<1> DEFINE r == n % CountModulus
           q == n \div CountModulus
<1>1. q \in Int /\ r \in 0 .. CountModulus - 1 /\ n = CountModulus * q + r
  BY Division
<1> HIDE DEF r, q
<1>2. CASE r < CountModulus - 1
  <2>1. /\ r + 1 \in 0 .. CountModulus - 1
        /\ n + 1 = CountModulus * q + (r + 1)
        /\ r + 1 = CountModulus * 0 + (r + 1)
    BY <1>1, <1>2, ConnectionListAssumption
  <2>2. (n + 1) % CountModulus = r + 1 /\ (r + 1) % CountModulus = r + 1
    BY <2>1, <1>1, Remainder
  <2> QED
    BY <2>2 DEF r
<1>3. CASE r = CountModulus - 1
  <2>1. /\ 0 \in 0 .. CountModulus - 1
        /\ n + 1 = CountModulus * (q + 1) + 0
        /\ r + 1 = CountModulus * 1 + 0
    BY <1>1, <1>3, ConnectionListAssumption
  <2>2. (n + 1) % CountModulus = 0 /\ (r + 1) % CountModulus = 0
    BY <2>1, <1>1, Remainder
  <2> QED
    BY <2>2 DEF r
<1> QED
  BY <1>1, <1>2, <1>3, ConnectionListAssumption

LEMMA CountDown ==
  ASSUME NEW n \in Nat
  PROVE  (((n + 1) % CountModulus) + CountModulus - 1) % CountModulus
           = n % CountModulus
<1> DEFINE r == (n + 1) % CountModulus
           q == (n + 1) \div CountModulus
<1>1. /\ q \in Int /\ r \in 0 .. CountModulus - 1
      /\ n + 1 = CountModulus * q + r
  BY Division
<1> HIDE DEF r, q
<1>2. CASE r = 0
  <2>1. /\ CountModulus - 1 \in 0 .. CountModulus - 1
        /\ n = CountModulus * (q - 1) + (CountModulus - 1)
        /\ r + CountModulus - 1 = CountModulus * 0 + (CountModulus - 1)
    BY <1>1, <1>2, ConnectionListAssumption
  <2>2. /\ n % CountModulus = CountModulus - 1
        /\ (r + CountModulus - 1) % CountModulus = CountModulus - 1
    BY <2>1, <1>1, Remainder
  <2> QED
    BY <2>2 DEF r
<1>3. CASE r > 0
  <2>1. /\ r - 1 \in 0 .. CountModulus - 1
        /\ n = CountModulus * q + (r - 1)
        /\ r + CountModulus - 1 = CountModulus * 1 + (r - 1)
    BY <1>1, <1>3, ConnectionListAssumption
  <2>2. /\ n % CountModulus = r - 1
        /\ (r + CountModulus - 1) % CountModulus = r - 1
    BY <2>1, <1>1, Remainder
  <2> QED
    BY <2>2 DEF r
<1> QED
  BY <1>1, <1>2, <1>3 DEF r

-----------------------------------------------------------------------------
(* The operations, field by field. *)

LEMMA AppendedFields ==
  ASSUME NEW l \in Lists, NEW c \in Conn
  PROVE  /\ Appended(l, c).count = (l.count + 1) % CountModulus
         /\ Appended(l, c).head = IF l.head = NULL THEN c ELSE l.head
         /\ Appended(l, c).tail = c
         /\ Appended(l, c).previous =
              IF l.head = NULL THEN l.previous
              ELSE [l.previous EXCEPT ![c] = l.tail]
         /\ Appended(l, c).next =
              IF l.head = NULL THEN l.next
              ELSE [[l.next EXCEPT ![c] = NULL] EXCEPT ![l.tail] = c]
         /\ Appended(l, c) =
              [head |-> Appended(l, c).head, tail |-> Appended(l, c).tail,
               count |-> Appended(l, c).count,
               previous |-> Appended(l, c).previous, next |-> Appended(l, c).next]
  BY DEF Appended, Lists

LEMMA RemovedFields ==
  ASSUME NEW l \in Lists, NEW c \in Conn, l.next[c] # c
  PROVE  /\ Removed(l, c).count = (l.count + CountModulus - 1) % CountModulus
         /\ Removed(l, c).head = IF c = l.head THEN l.next[c] ELSE l.head
         /\ Removed(l, c).tail = IF c = l.tail THEN l.previous[c] ELSE l.tail
         /\ Removed(l, c).previous =
              IF c = l.tail THEN l.previous
              ELSE [l.previous EXCEPT ![l.next[c]] = l.previous[c]]
         /\ Removed(l, c).next =
              IF c = l.head THEN l.next
              ELSE [l.next EXCEPT ![l.previous[c]] = l.next[c]]
         /\ Removed(l, c) =
              [head |-> Removed(l, c).head, tail |-> Removed(l, c).tail,
               count |-> Removed(l, c).count,
               previous |-> Removed(l, c).previous, next |-> Removed(l, c).next]
  BY DEF Removed, UnlinkedAhead, UnlinkedBehind, Lists

LEMMA UnlinkedFields ==
  ASSUME NEW l \in Lists, NEW c \in Conn
  PROVE  /\ Unlinked(l, c).head = l.head /\ Unlinked(l, c).tail = l.tail
         /\ Unlinked(l, c).count = l.count
         /\ Unlinked(l, c).previous = [l.previous EXCEPT ![c] = NULL]
         /\ Unlinked(l, c).next = [l.next EXCEPT ![c] = NULL]
         /\ Unlinked(l, c) =
              [head |-> Unlinked(l, c).head, tail |-> Unlinked(l, c).tail,
               count |-> Unlinked(l, c).count,
               previous |-> Unlinked(l, c).previous, next |-> Unlinked(l, c).next]
<1>1. Unlinked(l, c) =
        [l EXCEPT !.previous = [l.previous EXCEPT ![c] = NULL],
                  !.next = [l.next EXCEPT ![c] = NULL]]
  BY DEF Unlinked, Lists
<1> QED
  BY <1>1 DEF Lists

-----------------------------------------------------------------------------
(* What the operations do to a list that spells s. *)

LEMMA SpelledFacts ==
  ASSUME NEW l \in Lists, NEW s \in Seq(Conn), Distinct(s), Spells(l, s),
         NEW i \in 1 .. Len(s)
  PROVE  /\ s[i] = l.head <=> i = 1
         /\ s[i] = l.tail <=> i = Len(s)
         /\ l.previous[s[i]] = IF i = 1 THEN NULL ELSE s[i - 1]
         /\ l.next[s[i]] = IF i = Len(s) THEN NULL ELSE s[i + 1]
         /\ l.next[s[i]] # s[i]
         /\ RemoveIsSafe(l, s[i])
<1>1. /\ Len(s) \in Nat /\ DOMAIN s = 1 .. Len(s) /\ s # << >>
      /\ \A j \in 1 .. Len(s) : s[j] \in Conn
      /\ \A j, k \in 1 .. Len(s) : s[j] = s[k] => j = k
      /\ 1 \in 1 .. Len(s) /\ Len(s) \in 1 .. Len(s)
  BY ElementsAreIndexed DEF Distinct
<1>2. /\ l.head = s[1] /\ l.tail = s[Len(s)]
      /\ l.previous[s[i]] = IF i = 1 THEN NULL ELSE s[i - 1]
      /\ l.next[s[i]] = IF i = Len(s) THEN NULL ELSE s[i + 1]
  BY <1>1 DEF Spells
<1>3. s[i] = s[1] <=> i = 1
  BY <1>1
<1>4. s[i] = s[Len(s)] <=> i = Len(s)
  BY <1>1
<1>5. i # Len(s) => /\ i + 1 \in 1 .. Len(s) /\ i + 1 # i
                   /\ s[i + 1] \in Conn /\ s[i + 1] # s[i]
  <2>1. i # Len(s) => i + 1 \in 1 .. Len(s) /\ i + 1 # i
    <3>1. Len(s) \in Nat
      BY <1>1
    <3> QED
      BY <3>1
  <2>2. \A k \in 1 .. Len(s) : s[k] \in Conn /\ (k # i => s[k] # s[i])
    BY <1>1
  <2> QED
    BY <2>1, <2>2
<1>6. i # 1 => i - 1 \in 1 .. Len(s) /\ s[i - 1] \in Conn
  BY <1>1
<1>7. l.next[s[i]] = NULL <=> i = Len(s)
  BY <1>2, <1>5, ConnectionListAssumption
<1>8. l.previous[s[i]] = NULL <=> i = 1
  BY <1>2, <1>6, ConnectionListAssumption
<1>9. l.next[s[i]] # s[i]
  BY <1>1, <1>2, <1>5, ConnectionListAssumption
<1> QED
  BY <1>2, <1>3, <1>4, <1>7, <1>8, <1>9 DEF RemoveIsSafe

(* A removal takes c out of the sequence, and leaves the links of c.        *)
LEMMA RemovedSpells ==
  ASSUME NEW l \in Lists, NEW s \in Seq(Conn), Distinct(s), Spells(l, s),
         NEW c \in ToSet(s)
  PROVE  /\ Removed(l, c) \in Lists
         /\ SpellsBut(Removed(l, c), Without(s, c), c)
<1> DEFINE t == Without(s, c)
           r == Removed(l, c)
           n == Len(s)
<1>1. PICK i \in 1 .. n : s[i] = c
  BY ElementsAreIndexed
<1>2. /\ c = l.head <=> i = 1
      /\ c = l.tail <=> i = n
      /\ l.previous[c] = IF i = 1 THEN NULL ELSE s[i - 1]
      /\ l.next[c] = IF i = n THEN NULL ELSE s[i + 1]
      /\ l.next[c] # c
  BY <1>1, SpelledFacts
<1>3. /\ t \in Seq(Conn) /\ Len(t) = n - 1
      /\ \A j \in 1 .. n - 1 : t[j] = IF j < i THEN s[j] ELSE s[j + 1]
  BY <1>1, WithoutProperties
<1>4. /\ n \in Nat /\ DOMAIN s = 1 .. n /\ DOMAIN t = 1 .. n - 1
      /\ \A j \in 1 .. n : s[j] \in Conn
      /\ \A j, k \in 1 .. n : s[j] = s[k] => j = k
      /\ s # << >> /\ (t = << >> <=> n = 1)
  <2>1. /\ n \in Nat /\ DOMAIN s = 1 .. n
        /\ \A j \in 1 .. n : s[j] \in Conn
    BY ElementsAreIndexed
  <2>2. \A j, k \in 1 .. n : s[j] = s[k] => j = k
    BY <2>1 DEF Distinct
  <2>3. DOMAIN t = 1 .. n - 1 /\ (t = << >> <=> Len(t) = 0)
    BY <1>3, ElementsAreIndexed
  <2>4. s # << >> /\ (Len(t) = 0 <=> n = 1)
    BY <1>1, <1>3, <2>1, ElementsAreIndexed
  <2> QED
    BY <2>1, <2>2, <2>3, <2>4
<1>5. /\ l.head = s[1] /\ l.tail = s[n] /\ l.count = n % CountModulus
      /\ \A j \in 1 .. n :
           /\ l.previous[s[j]] = IF j = 1 THEN NULL ELSE s[j - 1]
           /\ l.next[s[j]] = IF j = n THEN NULL ELSE s[j + 1]
      /\ \A d \in Conn \ ToSet(s) : l.previous[d] = NULL /\ l.next[d] = NULL
  BY <1>4 DEF Spells
<1>6. c \in Conn /\ NULL \notin Conn
  BY <1>1, <1>4, ConnectionListAssumption
<1>7. /\ l.previous \in [Conn -> Pointer] /\ l.next \in [Conn -> Pointer]
      /\ l.head \in Pointer /\ l.tail \in Pointer
  BY DEF Lists
<1>8. /\ r.count = (l.count + CountModulus - 1) % CountModulus
      /\ r.head = IF i = 1 THEN l.next[c] ELSE l.head
      /\ r.tail = IF i = n THEN l.previous[c] ELSE l.tail
      /\ r.previous = IF i = n THEN l.previous
                      ELSE [l.previous EXCEPT ![s[i + 1]] = l.previous[c]]
      /\ r.next = IF i = 1 THEN l.next
                  ELSE [l.next EXCEPT ![s[i - 1]] = l.next[c]]
      /\ r = [head |-> r.head, tail |-> r.tail, count |-> r.count,
              previous |-> r.previous, next |-> r.next]
  <2>1. /\ i # n => l.next[c] = s[i + 1]
        /\ i # 1 => l.previous[c] = s[i - 1]
    BY <1>2
  <2>2. /\ r.count = (l.count + CountModulus - 1) % CountModulus
        /\ r.head = IF c = l.head THEN l.next[c] ELSE l.head
        /\ r.tail = IF c = l.tail THEN l.previous[c] ELSE l.tail
        /\ r.previous = IF c = l.tail THEN l.previous
                        ELSE [l.previous EXCEPT ![l.next[c]] = l.previous[c]]
        /\ r.next = IF c = l.head THEN l.next
                    ELSE [l.next EXCEPT ![l.previous[c]] = l.next[c]]
        /\ r = [head |-> r.head, tail |-> r.tail, count |-> r.count,
                previous |-> r.previous, next |-> r.next]
    BY <1>2, <1>6, RemovedFields
  <2> HIDE DEF n, r
  <2> QED
    BY <1>2, <2>1, <2>2
<1> HIDE DEF t, r, n
<1>9. r.count = Len(t) % CountModulus
  <2>1. n - 1 \in Nat /\ n = (n - 1) + 1
    BY <1>1, <1>4
  <2> QED
    BY <2>1, <1>3, <1>5, <1>8, CountDown
<1>10. r.head = IF t = << >> THEN NULL ELSE t[1]
  BY <1>1, <1>2, <1>3, <1>4, <1>5, <1>8
<1>11. r.tail = IF t = << >> THEN NULL ELSE t[n - 1]
  BY <1>1, <1>2, <1>3, <1>4, <1>5, <1>8
<1>12. \A j \in 1 .. n - 1 :
         /\ r.previous[t[j]] = IF j = 1 THEN NULL ELSE t[j - 1]
         /\ r.next[t[j]] = IF j = n - 1 THEN NULL ELSE t[j + 1]
  <2> SUFFICES ASSUME NEW j \in 1 .. n - 1
               PROVE  /\ r.previous[t[j]] = IF j = 1 THEN NULL ELSE t[j - 1]
                      /\ r.next[t[j]] = IF j = n - 1 THEN NULL ELSE t[j + 1]
    OBVIOUS
  <2>1. CASE j < i
    <3>1. t[j] = s[j]
      BY <1>3, <2>1
    <3>2. r.previous[s[j]] = IF j = 1 THEN NULL ELSE s[j - 1]
      <4>1. /\ j \in 1 .. n
            /\ i # n => i + 1 \in 1 .. n /\ i + 1 # j
        BY <1>1, <1>4, <2>1
      <4>2. s[j] \in Conn /\ (i # n => s[j] # s[i + 1])
        BY <1>4, <4>1
      <4>3. l.previous[s[j]] = IF j = 1 THEN NULL ELSE s[j - 1]
        BY <1>5, <4>1
      <4> QED
        BY <1>7, <1>8, <4>2, <4>3
    <3>3. CASE j < i - 1
      BY <1>1, <1>3, <1>4, <1>5, <1>7, <1>8, <2>1, <3>1, <3>2, <3>3
    <3>4. CASE j = i - 1
      BY <1>1, <1>2, <1>3, <1>4, <1>5, <1>7, <1>8, <2>1, <3>1, <3>2, <3>4
    <3> QED
      BY <1>1, <1>4, <2>1, <3>3, <3>4
  <2>2. CASE j >= i
    <3>1. t[j] = s[j + 1]
      BY <1>3, <2>2
    <3>2. r.next[s[j + 1]] = IF j + 1 = n THEN NULL ELSE s[j + 2]
      <4>1. /\ j + 1 \in 1 .. n /\ (j + 1) + 1 = j + 2
            /\ i # 1 => i - 1 \in 1 .. n /\ i - 1 # j + 1
        BY <1>1, <1>4, <2>2
      <4>2. s[j + 1] \in Conn /\ (i # 1 => s[j + 1] # s[i - 1])
        BY <1>4, <4>1
      <4>3. l.next[s[j + 1]] = IF j + 1 = n THEN NULL ELSE s[j + 2]
        BY <1>5, <4>1
      <4> QED
        BY <1>7, <1>8, <4>2, <4>3
    <3>3. CASE j > i
      <4>1. /\ j + 1 \in 1 .. n /\ j + 1 # 1 /\ j - 1 \in 1 .. n - 1
            /\ i # n /\ i + 1 \in 1 .. n /\ (j + 1) - 1 = j /\ (j - 1) + 1 = j
        BY <1>1, <1>4, <3>3
      <4>2. l.previous[s[j + 1]] = s[j] /\ t[j - 1] = s[j]
        BY <1>1, <1>3, <1>5, <3>3, <4>1
      <4>3. s[j + 1] # s[i + 1] /\ s[j + 1] \in Conn
        BY <1>1, <1>4, <3>3, <4>1
      <4>4. r.previous[s[j + 1]] = s[j]
        BY <1>7, <1>8, <4>2, <4>3
      <4>5. j + 1 # n => t[j + 1] = s[j + 2]
        BY <1>1, <1>3, <1>4, <3>3
      <4> QED
        BY <1>1, <1>4, <3>1, <3>2, <3>3, <4>5, <4>2, <4>4
    <3>4. CASE j = i
      BY <1>1, <1>2, <1>3, <1>4, <1>5, <1>7, <1>8, <2>2, <3>1, <3>2, <3>4
    <3> QED
      BY <1>1, <1>4, <2>2, <3>3, <3>4
  <2> QED
    BY <1>1, <1>4, <2>1, <2>2
<1>13. \A d \in Conn \ ToSet(t) :
         d # c => r.previous[d] = NULL /\ r.next[d] = NULL
  <2> SUFFICES ASSUME NEW d \in Conn, d \notin ToSet(t), d # c
               PROVE  r.previous[d] = NULL /\ r.next[d] = NULL
    OBVIOUS
  <2>1. d \notin ToSet(s)
    BY WithoutElements DEF t
  <2>2. \A j \in 1 .. n : s[j] # d
    BY <2>1, ElementsAreIndexed DEF n
  <2> QED
    BY <1>1, <1>4, <1>5, <1>7, <1>8, <2>1, <2>2
<1>14. t = << >> => r.previous[c] = NULL /\ r.next[c] = NULL
  BY <1>1, <1>2, <1>4, <1>8
<1>15. r \in Lists
  <2>1. \A j \in 1 .. n : s[j] \in Pointer
    BY <1>4 DEF Pointer
  <2>2. l.previous[c] \in Pointer /\ l.next[c] \in Pointer
    BY <1>6, <1>7
  <2>3. r.head \in Pointer /\ r.tail \in Pointer
    BY <2>2, <1>7, <1>8
  <2>4. r.previous \in [Conn -> Pointer] /\ r.next \in [Conn -> Pointer]
    BY <2>2, <1>7, <1>8
  <2>5. r.count \in 0 .. CountModulus - 1
    BY <1>3, <1>9, ElementsAreIndexed, Division
  <2> QED
    BY <2>3, <2>4, <2>5, <1>8 DEF Lists
<1> QED
  BY <1>3, <1>4, <1>9, <1>10, <1>11, <1>12, <1>13, <1>14, <1>15
     DEF SpellsBut, t, r

LEMMA SpellsIsSpellsBut ==
  ASSUME NEW l, NEW s \in Seq(Conn), NEW c \in Conn, c \notin ToSet(s),
         Spells(l, s)
  PROVE  SpellsBut(l, s, c)
  BY DEF Spells, SpellsBut

(* Cleared of its links, c is like any other connection outside.            *)
LEMMA UnlinkedSpells ==
  ASSUME NEW l \in Lists, NEW s \in Seq(Conn), NEW c \in Conn, c \notin ToSet(s),
         SpellsBut(l, s, c)
  PROVE  Unlinked(l, c) \in Lists /\ Spells(Unlinked(l, c), s)
<1> DEFINE u == Unlinked(l, c)
<1>1. /\ l.previous \in [Conn -> Pointer] /\ l.next \in [Conn -> Pointer]
      /\ NULL \in Pointer
  BY DEF Lists, Pointer
<1>2. /\ u.head = l.head /\ u.tail = l.tail /\ u.count = l.count
      /\ u.previous = [l.previous EXCEPT ![c] = NULL]
      /\ u.next = [l.next EXCEPT ![c] = NULL]
      /\ u = [head |-> u.head, tail |-> u.tail, count |-> u.count,
              previous |-> u.previous, next |-> u.next]
  BY UnlinkedFields
<1> HIDE DEF u
<1>3. u \in Lists
  BY <1>1, <1>2 DEF Lists
<1>4. \A i \in DOMAIN s : s[i] \in Conn /\ s[i] # c
  BY ElementsAreIndexed
<1> QED
  BY <1>1, <1>2, <1>3, <1>4 DEF Spells, SpellsBut, u

(* An append puts c at the end. *)
LEMMA AppendedSpells ==
  ASSUME NEW l \in Lists, NEW s \in Seq(Conn), Distinct(s),
         NEW c \in Conn, c \notin ToSet(s), SpellsBut(l, s, c)
  PROVE  Appended(l, c) \in Lists /\ Spells(Appended(l, c), Append(s, c))
<1> DEFINE a == Appended(l, c)
           t == Append(s, c)
           n == Len(s)
<1>1. /\ n \in Nat /\ DOMAIN s = 1 .. n /\ \A j \in 1 .. n : s[j] \in Conn
      /\ s = << >> <=> n = 0
      /\ \A j \in 1 .. n : s[j] # c
  BY ElementsAreIndexed
<1>2. /\ t \in Seq(Conn) /\ Len(t) = n + 1 /\ t[n + 1] = c /\ t # << >>
      /\ \A j \in 1 .. n : t[j] = s[j]
      /\ DOMAIN t = 1 .. n + 1
  BY AppendProperties, ElementsAreIndexed
<1>3. \A j, k \in 1 .. n : s[j] = s[k] => j = k
  BY <1>1 DEF Distinct
<1>4. /\ l.head = IF n = 0 THEN NULL ELSE s[1]
      /\ l.tail = IF n = 0 THEN NULL ELSE s[n]
      /\ l.count = n % CountModulus
      /\ \A j \in 1 .. n :
           /\ l.previous[s[j]] = IF j = 1 THEN NULL ELSE s[j - 1]
           /\ l.next[s[j]] = IF j = n THEN NULL ELSE s[j + 1]
      /\ \A d \in Conn \ ToSet(s) :
           d # c => l.previous[d] = NULL /\ l.next[d] = NULL
      /\ n = 0 => l.previous[c] = NULL /\ l.next[c] = NULL
  BY <1>1 DEF SpellsBut
<1>5. /\ l.previous \in [Conn -> Pointer] /\ l.next \in [Conn -> Pointer]
      /\ l.head \in Pointer /\ l.tail \in Pointer /\ NULL \notin Conn
  BY ConnectionListAssumption DEF Lists
<1>6. l.head = NULL <=> n = 0
  <2>1. n # 0 => s[1] \in Conn
    BY <1>1
  <2> QED
    BY <2>1, <1>4, <1>5
<1>7. /\ a.count = (l.count + 1) % CountModulus
      /\ a.head = IF n = 0 THEN c ELSE l.head
      /\ a.tail = c
      /\ a.previous = IF n = 0 THEN l.previous
                      ELSE [l.previous EXCEPT ![c] = l.tail]
      /\ a.next = IF n = 0 THEN l.next
                  ELSE [[l.next EXCEPT ![c] = NULL] EXCEPT ![l.tail] = c]
      /\ a = [head |-> a.head, tail |-> a.tail, count |-> a.count,
              previous |-> a.previous, next |-> a.next]
  <2>1. l.head = NULL <=> n = 0
    BY <1>6
  <2> HIDE DEF n
  <2> QED
    BY <2>1, AppendedFields
<1> HIDE DEF a, t, n
<1>8. a.count = Len(t) % CountModulus
  BY <1>1, <1>2, <1>4, <1>7, CountUp
<1>9. a.head = t[1] /\ a.tail = t[Len(t)]
  <2>1. n # 0 => 1 \in 1 .. n
    BY <1>1
  <2> QED
    BY <2>1, <1>1, <1>2, <1>4, <1>7
<1>10. \A j \in 1 .. n + 1 :
         /\ a.previous[t[j]] = IF j = 1 THEN NULL ELSE t[j - 1]
         /\ a.next[t[j]] = IF j = n + 1 THEN NULL ELSE t[j + 1]
  <2> SUFFICES ASSUME NEW j \in 1 .. n + 1
               PROVE  /\ a.previous[t[j]] = IF j = 1 THEN NULL ELSE t[j - 1]
                      /\ a.next[t[j]] = IF j = n + 1 THEN NULL ELSE t[j + 1]
    OBVIOUS
  <2>1. CASE n = 0
    <3>1. j = 1 /\ t[j] = c
      BY <1>2, <2>1
    <3> QED
      BY <2>1, <3>1, <1>4, <1>7
  <2>2. CASE n # 0 /\ j = n + 1
    <3>1. n \in 1 .. n /\ j # 1 /\ j - 1 = n
      BY <1>1, <2>2
    <3>2. l.tail = t[n] /\ l.tail # c /\ t[j] = c
      BY <3>1, <1>1, <1>2, <1>4, <2>2
    <3> QED
      BY <2>2, <3>1, <3>2, <1>5, <1>7
  <2>3. CASE n # 0 /\ j = n
    <3>1. n \in 1 .. n /\ n # n + 1 /\ (n # 1 => n - 1 \in 1 .. n)
      BY <1>1, <2>3
    <3>2. /\ t[n] = s[n] /\ l.tail = s[n] /\ s[n] # c /\ s[n] \in Conn
          /\ t[n + 1] = c /\ (n # 1 => t[n - 1] = s[n - 1])
      BY <3>1, <1>1, <1>2, <1>4, <2>3
    <3>3. l.previous[s[n]] = IF n = 1 THEN NULL ELSE s[n - 1]
      BY <3>1, <1>4
    <3>4. a.previous[s[n]] = l.previous[s[n]] /\ a.next[s[n]] = c
      BY <3>2, <1>5, <1>7, <2>3
    <3> QED
      BY <2>3, <3>1, <3>2, <3>3, <3>4
  <2>4. CASE n # 0 /\ j < n
    <3>1. j \in 1 .. n /\ j + 1 \in 1 .. n /\ n \in 1 .. n /\ j # n
          /\ j # n + 1 /\ (j # 1 => j - 1 \in 1 .. n)
      BY <1>1, <2>4
    <3>2. /\ t[j] = s[j] /\ l.tail = s[n] /\ s[j] # c /\ s[j] \in Conn
          /\ s[j] # s[n] /\ t[j + 1] = s[j + 1]
          /\ (j # 1 => t[j - 1] = s[j - 1])
      BY <3>1, <1>1, <1>2, <1>3, <1>4, <2>4
    <3>3. /\ l.previous[s[j]] = IF j = 1 THEN NULL ELSE s[j - 1]
          /\ l.next[s[j]] = s[j + 1]
      BY <3>1, <1>4
    <3>4. a.previous[s[j]] = l.previous[s[j]] /\ a.next[s[j]] = l.next[s[j]]
      BY <3>2, <1>5, <1>7, <2>4
    <3> QED
      BY <3>1, <3>2, <3>3, <3>4
  <2> QED
    BY <1>1, <2>1, <2>2, <2>3, <2>4
<1>11. \A d \in Conn \ ToSet(t) : a.previous[d] = NULL /\ a.next[d] = NULL
  <2> SUFFICES ASSUME NEW d \in Conn, d \notin ToSet(t)
               PROVE  a.previous[d] = NULL /\ a.next[d] = NULL
    OBVIOUS
  <2>1. d # c /\ d \notin ToSet(s)
    BY AppendElements DEF t
  <2>2. n # 0 => d # l.tail
    <3>1. n # 0 => n \in 1 .. n
      BY <1>1
    <3>2. \A j \in 1 .. n : s[j] # d
      BY <2>1, ElementsAreIndexed DEF n
    <3> QED
      BY <3>1, <3>2, <1>4
  <2> QED
    BY <2>1, <2>2, <1>4, <1>5, <1>7
<1>12. a \in Lists
  <2>1. c \in Pointer /\ NULL \in Pointer
    BY DEF Pointer
  <2>2. a.previous \in [Conn -> Pointer] /\ a.next \in [Conn -> Pointer]
    <3>1. CASE n = 0
      BY <1>5, <1>7, <3>1
    <3>2. CASE n # 0
      <4>1. a.previous = [l.previous EXCEPT ![c] = l.tail]
        BY <1>7, <3>2
      <4>2. a.next = [[l.next EXCEPT ![c] = NULL] EXCEPT ![l.tail] = c]
        BY <1>7, <3>2
      <4>3. a.previous \in [Conn -> Pointer]
        BY <1>5, <4>1
      <4>4. a.next \in [Conn -> Pointer]
        BY <2>1, <1>5, <4>2
      <4> QED
        BY <4>3, <4>4
    <3> QED
      BY <3>1, <3>2
  <2>3. a.head \in Pointer /\ a.tail \in Pointer
    BY <2>1, <1>5, <1>7
  <2>4. a.count \in 0 .. CountModulus - 1
    <3>1. Len(t) \in Nat
      BY <1>1, <1>2
    <3> QED
      BY <1>8, <3>1, Division
  <2> QED
    BY <2>2, <2>3, <2>4, <1>7 DEF Lists
<1> QED
  BY <1>1, <1>2, <1>8, <1>9, <1>10, <1>11, <1>12 DEF Spells, a, t

-----------------------------------------------------------------------------
LEMMA EmptyListSpells == EmptyList \in Lists /\ Spells(EmptyList, << >>)
<1>1. 0 \in 0 .. CountModulus - 1 /\ 0 % CountModulus = 0
  BY ConnectionListAssumption
<1>2. EmptyList \in Lists
  BY <1>1 DEF EmptyList, Lists, Pointer
<1> QED
  BY <1>1, <1>2 DEF EmptyList, Spells, ToSet

LEMMA InitEstablishesInv == Init => Inv
  BY EmptyListSpells DEF Init, Inv, TypeOK, LinksSpellOrder, Distinct

LEMMA NextKeepsInv == Inv /\ [Next]_vars => Inv'
<1> SUFFICES ASSUME Inv, [Next]_vars PROVE Inv'
  OBVIOUS
<1>1. /\ list \in Lists /\ order \in Seq(Conn) /\ Distinct(order)
      /\ Spells(list, order)
  BY DEF Inv, TypeOK, LinksSpellOrder
<1>2. ASSUME NEW c \in Conn, AppendFresh(c) PROVE Inv'
  <2>1. /\ c \notin ToSet(order) /\ list' = Appended(list, c)
        /\ order' = Append(order, c)
    BY <1>2 DEF AppendFresh
  <2>2. SpellsBut(list, order, c)
    BY <1>1, <2>1, SpellsIsSpellsBut
  <2>3. list' \in Lists /\ Spells(list', order')
    BY <1>1, <2>1, <2>2, AppendedSpells
  <2>4. order' \in Seq(Conn) /\ Distinct(order')
    BY <1>1, <2>1, AppendElements
  <2> QED
    BY <2>3, <2>4 DEF Inv, TypeOK, LinksSpellOrder
<1>3. ASSUME NEW c \in ToSet(order)
      PROVE  /\ c \in Conn
             /\ Removed(list, c) \in Lists
             /\ Without(order, c) \in Seq(Conn)
             /\ Distinct(Without(order, c))
             /\ c \notin ToSet(Without(order, c))
             /\ SpellsBut(Removed(list, c), Without(order, c), c)
  <2>1. PICK i \in 1 .. Len(order) : order[i] = c
    BY <1>1, ElementsAreIndexed
  <2>2. c \in Conn /\ Without(order, c) \in Seq(Conn)
    BY <1>1, <2>1, WithoutProperties
  <2> QED
    BY <1>1, <2>2, WithoutElements, RemovedSpells
<1>4. ASSUME NEW c \in Conn, Leave(c) PROVE Inv'
  <2>1. /\ c \in ToSet(order) /\ list' = Unlinked(Removed(list, c), c)
        /\ order' = Without(order, c)
    BY <1>4 DEF Leave
  <2>2. list' \in Lists /\ Spells(list', order')
    BY <1>3, <2>1, UnlinkedSpells
  <2> QED
    BY <1>3, <2>1, <2>2 DEF Inv, TypeOK, LinksSpellOrder
<1>5. ASSUME NEW c \in Conn, MoveToTail(c) PROVE Inv'
  <2>1. /\ c \in ToSet(order) /\ list' = Appended(Removed(list, c), c)
        /\ order' = Append(Without(order, c), c)
    BY <1>5 DEF MoveToTail
  <2>2. list' \in Lists /\ Spells(list', order')
    BY <1>3, <2>1, AppendedSpells
  <2>3. order' \in Seq(Conn) /\ Distinct(order')
    BY <1>3, <2>1, AppendElements
  <2> QED
    BY <2>2, <2>3 DEF Inv, TypeOK, LinksSpellOrder
<1>6. CASE UNCHANGED vars
  BY <1>1, <1>6 DEF vars, Inv, TypeOK, LinksSpellOrder
<1> QED
  BY <1>2, <1>4, <1>5, <1>6 DEF Next

(* The inductive invariant: types, nothing twice, and the spelling.         *)
THEOREM InvHolds == Spec => []Inv
  BY InitEstablishesInv, NextKeepsInv, PTL DEF Spec

(* The context and the links keep their types, however long the list gets   *)
(* and however often its counter wraps around.                              *)
THEOREM TypesHold == Spec => []TypeOK
<1>1. Inv => TypeOK
  BY DEF Inv
<1> QED
  BY <1>1, InvHolds, PTL

(* connection_list_append and connection_list_remove, in the orders the     *)
(* server calls them, keep the links one list that spells the order.        *)
THEOREM LinksHold == Spec => []LinksSpellOrder
<1>1. Inv => LinksSpellOrder
  BY DEF Inv
<1> QED
  BY <1>1, InvHolds, PTL

(* The assertions of connection_list_remove hold for whatever connection of *)
(* the list it is given.                                                    *)
THEOREM RemovesHold == Spec => []RemovesAreSafe
<1>1. Inv => RemovesAreSafe
  <2> SUFFICES ASSUME Inv, NEW c \in ToSet(order) PROVE RemoveIsSafe(list, c)
    BY DEF RemovesAreSafe
  <2>1. /\ list \in Lists /\ order \in Seq(Conn) /\ Distinct(order)
        /\ Spells(list, order)
    BY DEF Inv, TypeOK, LinksSpellOrder
  <2>2. PICK i \in 1 .. Len(order) : order[i] = c
    BY <2>1, ElementsAreIndexed
  <2> QED
    BY <2>1, <2>2, SpelledFacts
<1> QED
  BY <1>1, InvHolds, PTL
=============================================================================
