--------------------------- MODULE StartupProofs ---------------------------
(***************************************************************************)
(* Proofs about the program up to its loop, for every table of options and *)
(* every command line, of any length.                                      *)
(***************************************************************************)
EXTENDS Startup, TLAPS

Opening == {"open", "queue", "socket", "flags", "bind", "listen"}

-----------------------------------------------------------------------------
(* The inductive invariant, in four parts.                                  *)

(* The parser keeps a cell per option, and the type it has read last.       *)
ParserTypes ==
  /\ phase \in {"key", "value", "serving", "exited"} \union Opening
  /\ arguments \in Seq(Argument)
  /\ phase = "value" => type \in Option
  /\ values \in [Option -> Cell \union {NULL}]
  /\ \A o \in Option \ StringOption : Given(o) => values[o].value \in Long
  /\ ~Parsing /\ phase # "exited" => \A o \in Option : Given(o)
  /\ fault \in {"none", "null_write"}

(* The cells the options have are those of the heap.                        *)
Cells == {values[o].cell : o \in {p \in Option : Given(p)}}

HeapInv ==
  /\ live = Cells \ {Static}
  /\ \A o, p \in Option :
       Given(o) /\ Given(p) /\ o # p /\ values[o].cell = values[p].cell =>
         values[o].cell = Static
  /\ Parsing =>
       \A o \in Option : Given(o) => values[o].cell \in 1 .. Len(arguments)

(* What the parser has kept is what the command line has said so far.       *)
IsLast(o, i) == i \in Places(o) /\ \A j \in Places(o) : j <= i

Reflects(o) ==
  \/ ~Given(o) /\ Places(o) = {}
  \/ /\ Given(o)
     /\ \E i \in Nat :
          IsLast(o, i) /\ values[o].value = Parsed(o, arguments[i + 1])

ReadInv ==
  Parsing /\ fault = "none" =>
    /\ phase = "key" => (Len(arguments) % 2) = 0
    /\ phase = "value" => /\ (Len(arguments) % 2) = 1
                          /\ type = arguments[Len(arguments)]
    /\ \A o \in Option : Reflects(o)

SaidInv ==
  ~Parsing /\ phase # "exited" =>
    /\ fault = "none"
    /\ \A o \in Option : Configured(o) = Said(o)

(* What cache_server_open has opened when it makes its next call.           *)
OpenInv ==
  /\ DOMAIN listener = {"port", "address", "backlog"}
  /\ phase \in {"key", "value", "open", "exited"} => ~map_open /\ buffer = NULL
  /\ phase = "queue" => map_open /\ buffer = NULL
  /\ phase \in {"socket", "flags", "bind", "listen", "serving"} =>
       /\ map_open /\ buffer # NULL
       /\ Configured("ENTRY_CAPACITY_BYTES") >= 0
       /\ buffer = Configured("ENTRY_CAPACITY_BYTES") % WordModulus
  /\ phase \in {"listen", "serving"} =>
       /\ listener.port = Configured("PORT") % PortModulus
       /\ listener.address = Configured("IP_ADDRESS")

IInv == ParserTypes /\ HeapInv /\ ReadInv /\ SaidInv /\ OpenInv

-----------------------------------------------------------------------------
(* A cell and a null pointer are told apart.                                *)
LEMMA GivenIsCell ==
  ASSUME ParserTypes, NEW o \in Option
  PROVE  /\ Given(o) <=> values[o] \in Cell
         /\ Given(o) => values[o].cell \in Nat
  BY ValuesAssumption DEF ParserTypes, Given, Cell

LEMMA InitEstablishesInv == Init => IInv
<1> SUFFICES ASSUME Init PROVE IInv
  OBVIOUS
<1>1. /\ phase = "key" /\ arguments = << >> /\ live = {} /\ ~map_open
      /\ buffer = NULL /\ fault = "none" /\ values = [o \in Option |-> NULL]
  BY DEF Init
<1>2. \A o \in Option : ~Given(o)
  BY <1>1 DEF Given
<1>3. ParserTypes
  BY <1>1, <1>2 DEF ParserTypes, Parsing, Opening
<1>4. HeapInv
  BY <1>1, <1>2 DEF HeapInv, Cells
<1>5. ReadInv
  <2>1. Len(arguments) = 0 /\ DOMAIN arguments = {}
    BY <1>1
  <2>2. \A o \in Option : Places(o) = {}
    BY <2>1 DEF Places
  <2>3. (0 % 2) = 0
    OBVIOUS
  <2> QED
    BY <1>1, <1>2, <2>1, <2>2, <2>3 DEF ReadInv, Reflects
<1>6. SaidInv /\ OpenInv
  <2>1. DOMAIN listener = {"port", "address", "backlog"}
    BY DEF Init
  <2> QED
    BY <1>1, <2>1 DEF SaidInv, OpenInv, Parsing
<1> QED
  BY <1>3, <1>4, <1>5, <1>6 DEF IInv

-----------------------------------------------------------------------------
(* Arguments that are appended.                                             *)

LEMMA Appended ==
  ASSUME arguments \in Seq(Argument), NEW a \in Argument,
         arguments' = Append(arguments, a)
  PROVE  /\ arguments' \in Seq(Argument)
         /\ Len(arguments) \in Nat /\ Len(arguments') = Len(arguments) + 1
         /\ DOMAIN arguments = 1 .. Len(arguments)
         /\ DOMAIN arguments' = 1 .. Len(arguments) + 1
         /\ arguments'[Len(arguments) + 1] = a
         /\ \A i \in 1 .. Len(arguments) : arguments'[i] = arguments[i]
  OBVIOUS

LEMMA Parity ==
  ASSUME NEW n \in Nat
  PROVE  /\ (n % 2) = 0 \/ (n % 2) = 1
         /\ (n % 2) = 0 => ((n + 1) % 2) = 1
         /\ (n % 2) = 1 => ((n + 1) % 2) = 0
  OBVIOUS

(* A name that has been read is of no effect until its value is.            *)
LEMMA NameAlone ==
  ASSUME arguments \in Seq(Argument), NEW a \in Argument,
         arguments' = Append(arguments, a), (Len(arguments) % 2) = 0,
         NEW o
  PROVE  Places(o)' = Places(o)
<1>1. /\ Len(arguments) \in Nat
      /\ DOMAIN arguments = 1 .. Len(arguments)
      /\ DOMAIN arguments' = 1 .. Len(arguments) + 1
      /\ \A i \in 1 .. Len(arguments) : arguments'[i] = arguments[i]
  BY Appended
<1>2. PICK n \in Nat : n = Len(arguments)
  BY <1>1
<1>3. n \notin Places(o)'
  <2>1. (n % 2) # 1
    BY <1>2
  <2> QED
    BY <2>1 DEF Places
<1>4. ASSUME NEW i \in Places(o) PROVE i \in Places(o)'
  <2>1. i \in 1 .. n /\ i + 1 \in 1 .. n /\ (i % 2) = 1 /\ arguments[i] = o
    BY <1>1, <1>2, <1>4 DEF Places
  <2>2. i \in 1 .. n + 1 /\ i + 1 \in 1 .. n + 1
    BY <2>1
  <2> QED
    BY <1>1, <1>2, <2>1, <2>2 DEF Places
<1>5. ASSUME NEW i \in Places(o)' PROVE i \in Places(o)
  <2>1. /\ i \in 1 .. n + 1 /\ i + 1 \in 1 .. n + 1
        /\ (i % 2) = 1 /\ arguments'[i] = o /\ i # n
    BY <1>1, <1>2, <1>3, <1>5 DEF Places
  <2>2. i \in 1 .. n /\ i + 1 \in 1 .. n
    BY <2>1
  <2> QED
    BY <1>1, <1>2, <2>1, <2>2 DEF Places
<1> QED
  BY <1>4, <1>5

(* A value that has been read is the last one of its option.                *)
LEMMA NameAndValue ==
  ASSUME arguments \in Seq(Argument), NEW a \in Argument,
         arguments' = Append(arguments, a), (Len(arguments) % 2) = 1,
         NEW o
  PROVE  Places(o)' = IF arguments[Len(arguments)] = o
                      THEN Places(o) \union {Len(arguments)} ELSE Places(o)
<1>1. /\ Len(arguments) \in Nat
      /\ DOMAIN arguments = 1 .. Len(arguments)
      /\ DOMAIN arguments' = 1 .. Len(arguments) + 1
      /\ \A i \in 1 .. Len(arguments) : arguments'[i] = arguments[i]
  BY Appended
<1>2. PICK n \in Nat : n = Len(arguments)
  BY <1>1
<1>3. n # 0 /\ (n % 2) = 1
  BY <1>2
<1>4. ASSUME NEW i \in Places(o) PROVE i \in Places(o)'
  <2>1. i \in 1 .. n /\ i + 1 \in 1 .. n /\ (i % 2) = 1 /\ arguments[i] = o
    BY <1>1, <1>2, <1>4 DEF Places
  <2>2. i \in 1 .. n + 1 /\ i + 1 \in 1 .. n + 1
    BY <2>1
  <2> QED
    BY <1>1, <1>2, <2>1, <2>2 DEF Places
<1>5. ASSUME arguments[n] = o PROVE n \in Places(o)'
  <2>1. n \in 1 .. n /\ n \in 1 .. n + 1 /\ n + 1 \in 1 .. n + 1
    BY <1>3
  <2> QED
    BY <1>1, <1>2, <1>3, <1>5, <2>1 DEF Places
<1>6. ASSUME NEW i \in Places(o)', i # n \/ arguments[n] # o
      PROVE  i \in Places(o)
  <2>1. /\ i \in 1 .. n + 1 /\ i + 1 \in 1 .. n + 1
        /\ (i % 2) = 1 /\ arguments'[i] = o
    BY <1>1, <1>2, <1>6 DEF Places
  <2>2. i \in 1 .. n
    BY <2>1
  <2>3. i # n
    BY <1>1, <1>2, <1>6, <2>1, <2>2
  <2>4. i + 1 \in 1 .. n
    BY <2>1, <2>2, <2>3
  <2> QED
    BY <1>1, <1>2, <2>1, <2>2, <2>4 DEF Places
<1> QED
  BY <1>2, <1>4, <1>5, <1>6

-----------------------------------------------------------------------------
(* The actions.                                                             *)

LEMMA ReadKeyKeepsInv ==
  ASSUME IInv, NEW a \in Argument, ReadKey(a)
  PROVE  IInv'
<1>1. /\ phase = "key" /\ fault = "none" /\ arguments' = Append(arguments, a)
      /\ UNCHANGED <<values, live, map_open, buffer, listener, fault>>
      /\ \/ a \in Option /\ phase' = "value" /\ type' = a
         \/ phase' = "exited" /\ type' = type
  BY DEF ReadKey, Running, Reads, serverVars
<1>2. /\ arguments' \in Seq(Argument) /\ Len(arguments) \in Nat
      /\ Len(arguments') = Len(arguments) + 1
      /\ arguments'[Len(arguments) + 1] = a
      /\ \A i \in 1 .. Len(arguments) : arguments'[i] = arguments[i]
      /\ DOMAIN arguments = 1 .. Len(arguments)
  BY <1>1, Appended DEF IInv, ParserTypes
<1>3. \A o : Given(o)' <=> Given(o)
  BY <1>1 DEF Given
<1>4. ParserTypes'
  BY <1>1, <1>2, <1>3 DEF IInv, ParserTypes, Parsing
<1>5. HeapInv'
  <2>1. Cells' = Cells
    BY <1>1 DEF Cells, Given
  <2>2. \A o \in Option : Given(o) => values[o].cell \in 1 .. Len(arguments) + 1
    <3>1. \A x : x \in 1 .. Len(arguments) => x \in 1 .. Len(arguments) + 1
      BY <1>2
    <3> QED
      BY <1>1, <3>1 DEF IInv, HeapInv, Parsing
  <2> QED
    BY <1>1, <1>2, <1>3, <2>1, <2>2 DEF IInv, HeapInv
<1>6. ReadInv'
  <2>1. CASE phase' = "exited"
    BY <2>1 DEF ReadInv, Parsing
  <2>2. CASE a \in Option /\ phase' = "value" /\ type' = a
    <3>1. (Len(arguments) % 2) = 0 /\ \A o \in Option : Reflects(o)
      BY <1>1 DEF IInv, ReadInv, Parsing
    <3>2. (Len(arguments') % 2) = 1
      BY <1>2, <3>1, Parity
    <3>3. ASSUME NEW o \in Option PROVE Reflects(o)'
      <4>1. Places(o)' = Places(o)
        BY <1>1, <3>1, NameAlone DEF IInv, ParserTypes
      <4>2. CASE ~Given(o) /\ Places(o) = {}
        BY <1>3, <4>1, <4>2 DEF Reflects
      <4>3. ASSUME Given(o), NEW i \in Nat, IsLast(o, i),
                   values[o].value = Parsed(o, arguments[i + 1])
            PROVE  Reflects(o)'
        <5>1. i + 1 \in 1 .. Len(arguments)
          BY <1>2, <4>3 DEF IsLast, Places
        <5>2. IsLast(o, i)'
          BY <4>1, <4>3 DEF IsLast
        <5>3. values'[o].value = Parsed(o, arguments'[i + 1])
          BY <1>1, <1>2, <4>3, <5>1
        <5> QED
          BY <1>3, <4>3, <5>2, <5>3 DEF Reflects, Parsed
      <4> QED
        BY <3>1, <4>2, <4>3 DEF Reflects
    <3> QED
      BY <1>2, <2>2, <3>2, <3>3 DEF ReadInv
  <2> QED
    BY <1>1, <2>1, <2>2
<1>7. SaidInv'
  BY <1>1 DEF SaidInv, Parsing
<1>8. OpenInv'
  BY <1>1 DEF IInv, OpenInv
<1> QED
  BY <1>4, <1>5, <1>6, <1>7, <1>8 DEF IInv

LEMMA ReadValueKeepsInv ==
  ASSUME IInv, NEW a \in Argument, ReadValue(a)
  PROVE  IInv'
<1> DEFINE cell == Len(arguments) + 1
           freed == IF Given(type) THEN live \ {values[type].cell} ELSE live
<1>1. /\ phase = "value" /\ fault = "none" /\ phase' = "key"
      /\ arguments' = Append(arguments, a)
      /\ UNCHANGED <<type, map_open, buffer, listener>>
  BY DEF ReadValue, Running, Reads, serverVars
<1>2. /\ arguments' \in Seq(Argument) /\ Len(arguments) \in Nat
      /\ Len(arguments') = cell
      /\ arguments'[cell] = a
      /\ \A i \in 1 .. Len(arguments) : arguments'[i] = arguments[i]
      /\ DOMAIN arguments = 1 .. Len(arguments)
  BY <1>1, Appended DEF IInv, ParserTypes
<1>3. /\ type \in Option /\ values \in [Option -> Cell \union {NULL}]
      /\ \A o \in Option : Given(o) => values[o].cell \in 1 .. Len(arguments)
  BY <1>1 DEF IInv, ParserTypes, HeapInv, Parsing
<1>4. Given(type) => values[type].cell \in live
  <2>1. \A n \in 1 .. Len(arguments) : n # Static
    BY <1>2 DEF Static
  <2>2. Given(type) => values[type].cell \in Cells \ {Static}
    BY <1>3, <2>1 DEF Cells
  <2> QED
    BY <2>2 DEF IInv, HeapInv
<1> DEFINE new == [cell |-> cell, value |-> Parsed(type, a)]
<1>5. \/ /\ fault' = "null_write" /\ live' = freed
         /\ values' = [values EXCEPT ![type] = NULL]
      \/ /\ fault' = "none" /\ live' = freed \union {cell}
         /\ values' = [values EXCEPT ![type] = new]
  BY <1>4 DEF ReadValue
<1>6. /\ cell \in Nat /\ cell # Static /\ cell \notin 1 .. Len(arguments)
      /\ cell \in 1 .. cell /\ \A n \in 1 .. Len(arguments) : n \in 1 .. cell
  BY <1>2 DEF Static
<1>7. /\ new \in Cell /\ new # NULL /\ new.cell = cell
      /\ new.value = Parsed(type, a)
      /\ type \notin StringOption => new.value \in Long
  <2>1. Parsed(type, a) \in Long \union Argument
    BY ValuesAssumption DEF Parsed
  <2>2. new \in Cell
    BY <1>6, <2>1 DEF Cell
  <2>3. type \notin StringOption => new.value \in Long
    BY ValuesAssumption DEF Parsed
  <2> QED
    BY <2>2, <2>3, ValuesAssumption
<1>8. live = Cells \ {Static}
  BY DEF IInv, HeapInv
<1>9. \A o, p \in Option :
        Given(o) /\ Given(p) /\ o # p => values[o].cell # values[p].cell
  <2>1. \A n \in 1 .. Len(arguments) : n # Static
    BY <1>2 DEF Static
  <2> QED
    BY <1>3, <2>1 DEF IInv, HeapInv
<1>10. \A o \in Option \ {type} :
         values'[o] = values[o] /\ (Given(o)' <=> Given(o))
  BY <1>3, <1>5 DEF Given
<1>11. \/ values'[type] = NULL /\ fault' = "null_write"
          /\ live' = freed
       \/ values'[type] = new /\ new # NULL /\ fault' = "none"
          /\ live' = freed \union {cell}
  BY <1>3, <1>5, <1>7
<1>12. values' \in [Option -> Cell \union {NULL}]
  BY <1>3, <1>5, <1>7
<1> DEFINE others == {values[o].cell : o \in {p \in Option \ {type} : Given(p)}}
<1>13. freed = others \ {Static}
  <2>1. CASE Given(type)
    <3>1. Cells = others \union {values[type].cell}
      BY <1>3, <2>1 DEF Cells
    <3>2. values[type].cell \notin others
      BY <1>3, <1>9, <2>1
    <3>3. freed = live \ {values[type].cell}
      BY <2>1
    <3> HIDE DEF others, freed
    <3> QED
      BY <1>8, <3>1, <3>2, <3>3
  <2>2. CASE ~Given(type)
    <3>1. Cells = others
      BY <1>3, <2>2 DEF Cells
    <3> QED
      BY <1>8, <2>2, <3>1
  <2> QED
    BY <2>1, <2>2
<1> HIDE DEF cell, freed, new
<1>14. ParserTypes'
  <2>1. \A o \in Option \ StringOption : Given(o)' => values'[o].value \in Long
    BY <1>7, <1>10, <1>11 DEF IInv, ParserTypes, Given
  <2>2. /\ phase' = "key" /\ fault' \in {"none", "null_write"}
        /\ arguments' \in Seq(Argument)
    BY <1>1, <1>2, <1>11
  <2> QED
    BY <1>12, <2>1, <2>2 DEF ParserTypes, Parsing
<1>15. HeapInv'
  <2>1. live' = Cells' \ {Static}
    <3>0. others = {values'[o].cell : o \in {p \in Option \ {type} : Given(p)'}}
      BY <1>10
    <3>1. CASE values'[type] = NULL /\ live' = freed
      <4>1. Cells' = others
        BY <3>0, <3>1 DEF Cells, Given
      <4> HIDE DEF others
      <4> QED
        BY <1>13, <3>1, <4>1
    <3>2. CASE values'[type] = new /\ new # NULL /\ live' = freed \union {cell}
      <4>1. values'[type].cell = cell
        BY <1>7, <3>2
      <4>2. Cells' = others \union {cell}
        BY <1>3, <3>0, <3>2, <4>1 DEF Cells, Given
      <4> HIDE DEF others
      <4> QED
        BY <1>6, <1>13, <3>2, <4>2
    <3> QED
      BY <1>11, <3>1, <3>2
  <2>2. \A o \in Option : Given(o)' =>
          \/ o = type /\ values'[o].cell = cell
          \/ o # type /\ Given(o) /\ values'[o].cell = values[o].cell
    BY <1>7, <1>10, <1>11 DEF Given
  <2>3. \A o, p \in Option :
          Given(o)' /\ Given(p)' /\ o # p => values'[o].cell # values'[p].cell
    BY <1>3, <1>6, <1>9, <2>2
  <2>4. \A o \in Option : Given(o)' => values'[o].cell \in 1 .. Len(arguments')
    BY <1>2, <1>3, <1>6, <2>2
  <2> QED
    BY <2>1, <2>3, <2>4 DEF HeapInv
<1>16. ReadInv'
  <2>0. SUFFICES ASSUME fault' = "none"
                 PROVE  /\ (Len(arguments') % 2) = 0
                        /\ \A o \in Option : Reflects(o)'
    BY <1>1 DEF ReadInv
  <2>1. /\ (Len(arguments) % 2) = 1 /\ type = arguments[Len(arguments)]
        /\ \A o \in Option : Reflects(o)
    BY <1>1 DEF IInv, ReadInv, Parsing
  <2>2. (Len(arguments') % 2) = 0
    BY <1>2, <2>1, Parity DEF cell
  <2>3. ASSUME NEW o \in Option PROVE Reflects(o)'
    <3>1. Places(o)' = IF type = o THEN Places(o) \union {Len(arguments)}
                       ELSE Places(o)
      BY <1>1, <2>1, NameAndValue DEF IInv, ParserTypes
    <3>2. CASE o = type
      <4>1. \A j \in Places(o) : j <= Len(arguments)
        BY <1>2 DEF Places
      <4>2. PICK n \in Nat : n = Len(arguments)
        BY <1>2
      <4>4. n \in Places(o)' /\ \A j \in Places(o)' : j <= n
        BY <3>1, <3>2, <4>1, <4>2
      <4>5. IsLast(o, n)'
        BY <4>4 DEF IsLast
      <4>3. values'[o].value = Parsed(o, arguments'[n + 1])
        BY <1>2, <1>7, <1>11, <2>0, <3>2, <4>2 DEF cell
      <4> QED
        BY <1>11, <2>0, <3>2, <4>3, <4>5 DEF Reflects, Parsed, Given
    <3>3. CASE o # type
      <4>1. Places(o)' = Places(o)
        BY <3>1, <3>3
      <4>2. CASE ~Given(o) /\ Places(o) = {}
        BY <1>10, <3>3, <4>1, <4>2 DEF Reflects
      <4>3. ASSUME Given(o), NEW i \in Nat, IsLast(o, i),
                   values[o].value = Parsed(o, arguments[i + 1])
            PROVE  Reflects(o)'
        <5>1. i + 1 \in 1 .. Len(arguments)
          BY <1>2, <4>3 DEF IsLast, Places
        <5>2. IsLast(o, i)'
          BY <4>1, <4>3 DEF IsLast
        <5>3. values'[o].value = Parsed(o, arguments'[i + 1])
          BY <1>2, <1>10, <3>3, <4>3, <5>1
        <5> QED
          BY <1>10, <3>3, <4>3, <5>2, <5>3 DEF Reflects, Parsed
      <4> QED
        BY <2>1, <4>2, <4>3 DEF Reflects
    <3> QED
      BY <3>2, <3>3
  <2> QED
    BY <2>2, <2>3
<1>17. SaidInv'
  BY <1>1 DEF SaidInv, Parsing
<1>18. OpenInv'
  BY <1>1 DEF IInv, OpenInv
<1> QED
  BY <1>14, <1>15, <1>16, <1>17, <1>18 DEF IInv

(* The cells of the defaults add nothing to the heap, and what was read is  *)
(* what the command line says.                                              *)
LEMMA LastIsMax ==
  ASSUME NEW o, NEW i, IsLast(o, i), arguments \in Seq(Argument)
  PROVE  Places(o) # {} /\ Max(Places(o)) = i
<1>1. i \in Places(o) /\ \A j \in Places(o) : j <= i
  BY DEF IsLast
<1>2. Places(o) \subseteq Nat
  BY DEF Places
<1>3. \A x, y \in Nat : x <= y /\ x >= y => x = y
  OBVIOUS
<1>4. \A j \in Places(o) : i >= j
  BY <1>1, <1>2
<1>5. /\ Max(Places(o)) \in Places(o)
      /\ \A j \in Places(o) : Max(Places(o)) >= j
  BY <1>1, <1>4 DEF Max
<1> QED
  BY <1>1, <1>2, <1>3, <1>5

LEMMA EndArgumentsKeepsInv ==
  ASSUME IInv, EndArguments
  PROVE  IInv'
<1>1. /\ phase \in {"key", "value"} /\ fault = "none" /\ phase' = "open"
      /\ UNCHANGED <<arguments, type, live, map_open, buffer, listener, fault>>
      /\ values' = [o \in Option |->
                     IF Given(o) THEN values[o]
                     ELSE [cell |-> Static, value |-> Default[o]]]
  BY DEF EndArguments, Running, serverVars
<1>2. Parsing /\ ~Parsing'
  BY <1>1 DEF Parsing
<1>3. /\ values \in [Option -> Cell \union {NULL}]
      /\ \A o \in Option \ StringOption : Given(o) => values[o].value \in Long
  BY DEF IInv, ParserTypes
<1>4. \A o \in Option : [cell |-> Static, value |-> Default[o]] \in Cell
  BY DEF Cell, Static
<1>5. ASSUME NEW o \in Option
      PROVE  /\ Given(o) => values'[o] = values[o]
             /\ ~Given(o) => /\ values'[o].cell = Static
                             /\ values'[o].value = Default[o]
             /\ values'[o] \in Cell /\ Given(o)'
  <2>1. /\ Given(o) => values'[o] = values[o] /\ values[o] \in Cell
        /\ ~Given(o) => values'[o] = [cell |-> Static, value |-> Default[o]]
    BY <1>1, <1>3 DEF Given
  <2>2. values'[o] \in Cell
    BY <1>4, <2>1
  <2> QED
    BY <2>1, <2>2, ValuesAssumption DEF Given
<1>6. ParserTypes'
  <2>1. values' \in [Option -> Cell \union {NULL}]
    BY <1>1, <1>5
  <2>2. \A o \in Option \ StringOption : values'[o].value \in Long
    BY <1>3, <1>5, ValuesAssumption DEF ParserTypes
  <2>3. arguments' \in Seq(Argument)
    BY <1>1 DEF IInv, ParserTypes
  <2> QED
    BY <1>1, <1>2, <1>5, <2>1, <2>2, <2>3 DEF ParserTypes, Opening
<1>7. HeapInv'
  <2>1. Cells' \ {Static} = Cells \ {Static}
    <3>1. Cells' = {values'[o].cell : o \in Option}
      BY <1>5 DEF Cells
    <3>2. ASSUME NEW x \in Cells', x # Static PROVE x \in Cells
      BY <1>5, <3>1, <3>2 DEF Cells
    <3>3. ASSUME NEW x \in Cells PROVE x \in Cells'
      <4>1. PICK o \in Option : Given(o) /\ x = values[o].cell
        BY <3>3 DEF Cells
      <4> QED
        BY <1>5, <3>1, <4>1
    <3> QED
      BY <3>2, <3>3
  <2>2. ASSUME NEW o \in Option, NEW p \in Option, o # p,
               values'[o].cell = values'[p].cell
        PROVE  values'[o].cell = Static
    <3>1. CASE Given(o) /\ Given(p)
      BY <1>5, <2>2, <3>1 DEF IInv, HeapInv
    <3>2. CASE ~Given(o) \/ ~Given(p)
      BY <1>5, <2>2, <3>2
    <3> QED
      BY <3>1, <3>2
  <2>3. live' = Cells' \ {Static}
    BY <1>1, <2>1 DEF IInv, HeapInv
  <2> QED
    BY <1>2, <2>2, <2>3 DEF HeapInv
<1>8. ReadInv'
  BY <1>2 DEF ReadInv
<1>9. SaidInv'
  <2>1. ASSUME NEW o \in Option PROVE values'[o].value = Said(o)
    <3>1. Reflects(o)
      BY <1>1, <1>2 DEF IInv, ReadInv
    <3>2. CASE ~Given(o) /\ Places(o) = {}
      BY <1>5, <3>2 DEF Said
    <3>3. ASSUME Given(o), NEW i \in Nat, IsLast(o, i),
                 values[o].value = Parsed(o, arguments[i + 1])
          PROVE  values'[o].value = Said(o)
      <4>1. Places(o) # {} /\ Max(Places(o)) = i
        BY <3>3, LastIsMax DEF IInv, ParserTypes
      <4> QED
        BY <1>5, <3>3, <4>1 DEF Said
    <3> QED
      BY <3>1, <3>2, <3>3 DEF Reflects
  <2>2. \A o : Said(o)' = Said(o)
    BY <1>1 DEF Said, Places, Parsed
  <2> QED
    BY <1>1, <2>1, <2>2 DEF SaidInv, Configured
<1>10. OpenInv'
  BY <1>1 DEF IInv, OpenInv
<1> QED
  BY <1>6, <1>7, <1>8, <1>9, <1>10 DEF IInv

(* The calls of cache_server_open leave the values and the heap alone.      *)
LEMMA ValuesStay ==
  ASSUME IInv, phase \in Opening,
         phase' \in Opening \union {"serving", "exited"},
         UNCHANGED <<arguments, type, values, live, fault>>
  PROVE  /\ ParserTypes' /\ HeapInv' /\ ReadInv' /\ SaidInv'
         /\ \A o : Configured(o)' = Configured(o)
<1>1. ~Parsing /\ ~Parsing' /\ phase # "exited" /\ phase' # "value"
  BY DEF Parsing, Opening
<1>2. \A o : (Given(o)' <=> Given(o)) /\ Said(o)' = Said(o)
             /\ Configured(o)' = Configured(o)
  BY DEF Given, Said, Places, Parsed, Configured
<1>3. ParserTypes'
  BY <1>1, <1>2 DEF IInv, ParserTypes
<1>4. HeapInv'
  <2>1. Cells' = Cells
    BY DEF Cells, Given
  <2> QED
    BY <1>1, <1>2, <2>1 DEF IInv, HeapInv
<1>5. ReadInv' /\ SaidInv'
  BY <1>1, <1>2 DEF IInv, ReadInv, SaidInv
<1> QED
  BY <1>2, <1>3, <1>4, <1>5

LEMMA OpeningKeepsInv ==
  ASSUME IInv,
         \/ OpenFails \/ OpenMap \/ OpenQueue \/ OpenSocket \/ SetFlags
         \/ Bind \/ Listen
  PROVE  IInv'
<1>1. /\ phase \in Opening
      /\ phase' \in Opening \union {"serving", "exited"}
      /\ UNCHANGED <<arguments, type, values, live, fault>>
  BY DEF OpenFails, OpenMap, OpenQueue, OpenSocket, SetFlags, Bind, Listen,
         Running, Opening, parserVars
<1>2. ParserTypes' /\ HeapInv' /\ ReadInv' /\ SaidInv'
  BY <1>1, ValuesStay
<1>3. \A o : Configured(o)' = Configured(o)
  BY <1>1, ValuesStay
<1>4. OpenInv'
  <2>1. CASE OpenFails
    BY <2>1 DEF OpenFails, Close, IInv, OpenInv
  <2>2. CASE OpenMap
    BY <2>2 DEF OpenMap, Running, IInv, OpenInv
  <2>3. CASE OpenQueue
    <3>1. Configured("ENTRY_CAPACITY_BYTES") \in Long
      <4>1. "ENTRY_CAPACITY_BYTES" \in Option \ StringOption
        BY StartupAssumption, ValuesAssumption
      <4>2. Given("ENTRY_CAPACITY_BYTES")
        BY <2>3, <4>1 DEF OpenQueue, Running, Parsing, IInv, ParserTypes
      <4> QED
        BY <4>1, <4>2 DEF IInv, ParserTypes, Configured
    <3>2. buffer' \in Int
      BY <2>3, <3>1, StartupAssumption DEF OpenQueue, Long
    <3>3. buffer' # NULL
      BY <3>2, ValuesAssumption
    <3> QED
      BY <1>3, <2>3, <3>3 DEF OpenQueue, Running, IInv, OpenInv
  <2>4. CASE OpenSocket \/ SetFlags
    BY <1>3, <2>4 DEF OpenSocket, SetFlags, Running, serverVars, IInv, OpenInv
  <2>5. CASE Bind \/ Listen
    <3>1. /\ map_open' = map_open /\ buffer' = buffer
          /\ DOMAIN listener' = {"port", "address", "backlog"}
          /\ phase \in {"bind", "listen"} /\ phase' \in {"listen", "serving"}
          /\ listener'.port = Configured("PORT") % PortModulus
          /\ listener'.address = Configured("IP_ADDRESS")
      BY <2>5 DEF Bind, Listen, Running, IInv, OpenInv
    <3> QED
      BY <1>3, <3>1 DEF IInv, OpenInv
  <2> QED
    BY <2>1, <2>2, <2>3, <2>4, <2>5
<1> QED
  BY <1>2, <1>4 DEF IInv

LEMMA NextKeepsInv == IInv /\ [Next]_vars => IInv'
<1> SUFFICES ASSUME IInv, [Next]_vars PROVE IInv'
  OBVIOUS
<1>1. ASSUME NEW a \in Argument, ReadKey(a) PROVE IInv'
  BY <1>1, ReadKeyKeepsInv
<1>2. ASSUME NEW a \in Argument, ReadValue(a) PROVE IInv'
  BY <1>2, ReadValueKeepsInv
<1>3. CASE EndArguments
  BY <1>3, EndArgumentsKeepsInv
<1>4. CASE \/ OpenFails \/ OpenMap \/ OpenQueue \/ OpenSocket \/ SetFlags
           \/ Bind \/ Listen
  BY <1>4, OpeningKeepsInv
<1>5. CASE UNCHANGED vars
  <2>1. UNCHANGED <<phase, arguments, type, values, live, map_open, buffer,
                    listener, fault>>
    BY <1>5 DEF vars, parserVars, serverVars
  <2>2. Parsing' = Parsing /\ Cells' = Cells
        /\ \A o : /\ Given(o)' = Given(o) /\ Configured(o)' = Configured(o)
                  /\ Places(o)' = Places(o) /\ Said(o)' = Said(o)
    BY <2>1 DEF Parsing, Cells, Given, Configured, Places, Said, Parsed
  <2>3. \A o : Reflects(o)' <=> Reflects(o)
    BY <2>1, <2>2 DEF Reflects, IsLast, Parsed
  <2>4. ParserTypes' /\ HeapInv'
    BY <2>1, <2>2 DEF IInv, ParserTypes, HeapInv
  <2>5. ReadInv' /\ SaidInv' /\ OpenInv'
    BY <2>1, <2>2, <2>3 DEF IInv, ReadInv, SaidInv, OpenInv
  <2> QED
    BY <2>4, <2>5 DEF IInv
<1> QED
  BY <1>1, <1>2, <1>3, <1>4, <1>5 DEF Next

-----------------------------------------------------------------------------
LEMMA InvHolds == Spec => []IInv
  BY InitEstablishesInv, NextKeepsInv, PTL DEF Spec

(* What configuration_parse keeps on the heap are the values given, once    *)
(* each: parse_value frees a value before it replaces it, and never a       *)
(* default, whatever options the command line names, and in what order.     *)
THEOREM ValuesAreTheHeapHolds == Spec => []ValuesAreTheHeap
<1>1. IInv => ValuesAreTheHeap
  <2> SUFFICES ASSUME IInv PROVE ValuesAreTheHeap
    OBVIOUS
  <2>1. fault # "invalid_free"
    BY DEF IInv, ParserTypes
  <2> QED
    BY <2>1 DEF IInv, HeapInv, Cells, ValuesAreTheHeap
<1> QED
  BY <1>1, InvHolds, PTL

(* cache_server_open leaves neither map nor buffer when a call of it fails, *)
(* and main enters the loop only with both.                                 *)
THEOREM FailedStartsLeaveNothingHolds == Spec => []FailedStartsLeaveNothing
<1>1. IInv => FailedStartsLeaveNothing
  BY DEF IInv, OpenInv, FailedStartsLeaveNothing
<1> QED
  BY <1>1, InvHolds, PTL

(* configuration_parse reads the last value of each option that is given    *)
(* with one, and the default of the others, from a command line of any      *)
(* length; and the server is opened with what it read, the capacity as it   *)
(* is: an int64_t that is not negative is unchanged as a uint64_t.          *)
THEOREM ServesAsSaidHolds == Spec => []ServesAsSaid
<1>1. IInv => ServesAsSaid
  <2> SUFFICES ASSUME IInv, fault = "none", ~Parsing, phase # "exited"
               PROVE  /\ \A o \in Option : Configured(o) = Said(o)
                      /\ phase = "serving" =>
                           /\ buffer = Said("ENTRY_CAPACITY_BYTES")
                           /\ listener.port = Said("PORT") % PortModulus
                           /\ listener.address = Said("IP_ADDRESS")
    BY DEF ServesAsSaid
  <2>1. \A o \in Option : Configured(o) = Said(o)
    BY DEF IInv, SaidInv
  <2>2. ASSUME phase = "serving"
        PROVE  /\ buffer = Said("ENTRY_CAPACITY_BYTES")
               /\ listener.port = Said("PORT") % PortModulus
               /\ listener.address = Said("IP_ADDRESS")
    <3>1. /\ buffer = Configured("ENTRY_CAPACITY_BYTES") % WordModulus
          /\ Configured("ENTRY_CAPACITY_BYTES") >= 0
          /\ listener.port = Configured("PORT") % PortModulus
          /\ listener.address = Configured("IP_ADDRESS")
      BY <2>2 DEF IInv, OpenInv
    <3>2. {"ENTRY_CAPACITY_BYTES", "IP_ADDRESS", "PORT"} \subseteq Option
      BY StartupAssumption
    <3>3. Configured("ENTRY_CAPACITY_BYTES") \in Long
      <4>1. "ENTRY_CAPACITY_BYTES" \in Option \ StringOption
        BY <3>2, ValuesAssumption
      <4> QED
        BY <4>1 DEF IInv, ParserTypes, Configured
    <3>4. \A n \in Long : n >= 0 => (n % WordModulus) = n
      <4>1. WordModulus \in Nat \ {0}
        BY StartupAssumption
      <4>2. \A n \in Long : n \in Int /\ 2 * n < WordModulus
        BY DEF Long
      <4>3. \A n \in Int : n >= 0 /\ 2 * n < WordModulus => n < WordModulus
        BY <4>1
      <4>4. \A n \in Int : n >= 0 /\ n < WordModulus => (n % WordModulus) = n
        BY <4>1
      <4> QED
        BY <4>2, <4>3, <4>4
    <3> QED
      BY <2>1, <3>1, <3>2, <3>3, <3>4
  <2> QED
    BY <2>1, <2>2
<1> QED
  BY <1>1, InvHolds, PTL
=============================================================================
