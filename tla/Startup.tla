------------------------------- MODULE Startup -------------------------------
(***************************************************************************)
(* The program up to its loop: configuration_parse reads the command line, *)
(* cache_server_open builds the server from what it says, one call that    *)
(* can fail after the other, and main either enters the loop or exits.     *)
(*                                                                         *)
(* The arguments are chosen as they are read.  An argument is the name of  *)
(* an option or another text, and can be either where the parser expects a *)
(* name and where it expects a value.                                      *)
(***************************************************************************)
EXTENDS Integers, Sequences, FiniteSets, FiniteSetsExt

CONSTANTS
  Option,        \* configuration_type_t
  StringOption,  \* those whose values are kept as text; the others are int64_t
  Text,          \* arguments that name no option
  Number,        \* atoll of an argument: 0 of what is not a number
  Default,       \* default_values
  NULL,
  WordModulus, PortModulus,  \* 2^64 and 2^16
  MaxArguments,  \* bound: arguments of the command line
  MallocFails    \* {FALSE}, or BOOLEAN when the mallocs of the parser may fail

Argument == Option \union Text

ASSUME StartupAssumption ==
  /\ {"ENTRY_CAPACITY_BYTES", "IP_ADDRESS", "PORT"} \subseteq Option
  /\ StringOption \subseteq Option
  /\ Option \intersect Text = {}
  /\ DOMAIN Default = Option
  /\ WordModulus \in Nat \ {0} /\ PortModulus \in Nat \ {0}
  /\ MaxArguments \in Nat
  /\ MallocFails \in (SUBSET BOOLEAN) \ {{}}

(* What atoll makes of a text, and what an int64_t holds.                   *)
Long == {n \in Int : -WordModulus <= 2 * n /\ 2 * n < WordModulus}

(* A value lies in a cell: text, or a number where the option is one, and a *)
(* null pointer leads to none.                                              *)
Cell ==
  [cell : Nat,
   value : Long \union Argument \union {Default[o] : o \in Option}]

ASSUME ValuesAssumption ==
  /\ Number \in [Argument -> Long]
  /\ \A o \in Option \ StringOption : Default[o] \in Long
  /\ {"ENTRY_CAPACITY_BYTES", "PORT"} \intersect StringOption = {}
  /\ NULL \notin Int
  /\ NULL \notin Cell

VARIABLES
  phase,      \* where the program is; "serving" in the loop, or "exited"
  arguments,  \* history: the arguments read so far
  type,       \* configuration_parse: the option the next argument is for
  values,     \* context.values: NULL, or a pointer and what it points to
  live,       \* the cells of the heap that are allocated
  map_open,   \* context.hashmap of entry_hash_map.c is not NULL
  buffer,     \* memory_queue.c: the capacity of its buffer, NULL without one
  listener,   \* what the listening socket was told
  fault       \* "none", or what ended the program

parserVars == <<arguments, type, values, live>>
serverVars == <<map_open, buffer, listener>>
vars == <<phase, parserVars, serverVars, fault>>

Static == 0   \* the cell of a default value, which is not of the heap

Init ==
  /\ phase = "key"
  /\ arguments = << >>
  /\ type = NULL
  /\ values = [o \in Option |-> NULL]
  /\ live = {}
  /\ map_open = FALSE
  /\ buffer = NULL
  /\ listener = [port |-> NULL, address |-> NULL, backlog |-> NULL]
  /\ fault = "none"

Running(p) == fault = "none" /\ phase = p

Reads(a) ==
  /\ Len(arguments) < MaxArguments
  /\ arguments' = Append(arguments, a)

-----------------------------------------------------------------------------
(* configuration_parse, AWAITING_KEY.  parse_key exits at once at an        *)
(* argument that names no option.                                           *)
ReadKey(a) ==
  /\ Running("key")
  /\ Reads(a)
  /\ IF a \in Option THEN phase' = "value" /\ type' = a
                     ELSE phase' = "exited" /\ type' = type
  /\ UNCHANGED <<values, live, serverVars, fault>>

(* What parse_value makes of an argument. *)
Parsed(o, a) == IF o \in StringOption THEN a ELSE Number[a]

Given(o) == values[o] # NULL

(* A seeded slip, which a run must notice: the value given before stays     *)
(* allocated.                                                               *)
ReadValueWithoutFree(a) ==
  LET cell == Len(arguments) + 1 IN
  /\ Running("value")
  /\ Reads(a)
  /\ phase' = "key"
  /\ live' = live \union {cell}
  /\ values' = [values EXCEPT ![type] =
                  [cell |-> cell, value |-> Parsed(type, a)]]
  /\ UNCHANGED <<type, fault, serverVars>>

(* Another: the first value given wins. *)
ReadValueOnce(a) ==
  LET cell == Len(arguments) + 1 IN
  /\ Running("value")
  /\ Reads(a)
  /\ phase' = "key"
  /\ live' = IF Given(type) THEN live ELSE live \union {cell}
  /\ values' = IF Given(type) THEN values
               ELSE [values EXCEPT ![type] =
                       [cell |-> cell, value |-> Parsed(type, a)]]
  /\ UNCHANGED <<type, fault, serverVars>>

(* AWAITING_VALUE: parse_value frees the value given before, if any, and    *)
(* writes the new one to a new cell, which it takes malloc to have given.   *)
ReadValue(a) ==
  LET cell == Len(arguments) + 1 IN
  /\ Running("value")
  /\ Reads(a)
  /\ phase' = "key"
  /\ IF Given(type) /\ values[type].cell \notin live
     THEN /\ fault' = "invalid_free"
          /\ UNCHANGED <<values, live>>
     ELSE \E fails \in MallocFails :
            LET freed == IF Given(type) THEN live \ {values[type].cell} ELSE live
            IN  IF fails
                THEN /\ fault' = "null_write"
                     /\ live' = freed
                     /\ values' = [values EXCEPT ![type] = NULL]
                ELSE /\ fault' = "none"
                     /\ live' = freed \union {cell}
                     /\ values' = [values EXCEPT ![type] =
                                     [cell |-> cell, value |-> Parsed(type, a)]]
  /\ UNCHANGED <<type, serverVars>>

(* The arguments end, also behind a name without a value, and what was not  *)
(* given gets its default.                                                  *)
EndArguments ==
  /\ Running("key") \/ Running("value")
  /\ phase' = "open"
  /\ values' = [o \in Option |->
                  IF Given(o) THEN values[o]
                  ELSE [cell |-> Static, value |-> Default[o]]]
  /\ UNCHANGED <<arguments, type, live, serverVars, fault>>

-----------------------------------------------------------------------------
(* configuration_get_int and configuration_get_string *)
Configured(o) == values[o].value

(* Seeded slips: cache_server_close forgets the map, or the queue. *)
CloseQueueOnly == buffer' = NULL /\ UNCHANGED map_open
CloseMapOnly == map_open' = FALSE /\ UNCHANGED buffer

(* cache_server_close frees what is there.  A listening socket stays open.  *)
Close == map_open' = FALSE /\ buffer' = NULL

(* A call of cache_server_open fails: it closes the server, and main exits. *)
OpenFails ==
  /\ \E p \in {"open", "queue", "socket", "flags", "bind", "listen"} : Running(p)
  /\ Close
  /\ phase' = "exited"
  /\ UNCHANGED <<parserVars, listener, fault>>

(* connection_list_open, which cannot fail, and entry_hash_map_open. *)
OpenMap ==
  /\ Running("open")
  /\ map_open' = TRUE
  /\ phase' = "queue"
  /\ UNCHANGED <<parserVars, buffer, listener, fault>>

(* memory_queue_open is given the number as a uint64_t: a negative one is   *)
(* more than any malloc returns.                                            *)
OpenQueue ==
  /\ Running("queue")
  /\ Configured("ENTRY_CAPACITY_BYTES") >= 0
  /\ buffer' = Configured("ENTRY_CAPACITY_BYTES") % WordModulus
  /\ phase' = "socket"
  /\ UNCHANGED <<parserVars, map_open, listener, fault>>

OpenSocket ==
  /\ Running("socket")
  /\ phase' = "flags"
  /\ UNCHANGED <<parserVars, serverVars, fault>>

(* The two calls of fcntl. *)
SetFlags ==
  /\ Running("flags")
  /\ phase' = "bind"
  /\ UNCHANGED <<parserVars, serverVars, fault>>

(* The port is the number as a uint16_t, the address what inet_addr makes   *)
(* of the text.                                                             *)
Bind ==
  /\ Running("bind")
  /\ listener' = [listener EXCEPT !.port = Configured("PORT") % PortModulus,
                                  !.address = Configured("IP_ADDRESS")]
  /\ phase' = "listen"
  /\ UNCHANGED <<parserVars, map_open, buffer, fault>>

(* The macro, not the option of the same name, which nothing reads. *)
CONNECTION_BACKLOG_LIMIT == 32

Listen ==
  /\ Running("listen")
  /\ listener' = [listener EXCEPT !.backlog = CONNECTION_BACKLOG_LIMIT]
  /\ phase' = "serving"
  /\ UNCHANGED <<parserVars, map_open, buffer, fault>>

Next ==
  \/ \E a \in Argument : ReadKey(a) \/ ReadValue(a)
  \/ EndArguments
  \/ OpenFails
  \/ OpenMap \/ OpenQueue \/ OpenSocket \/ SetFlags \/ Bind \/ Listen

Spec == Init /\ [][Next]_vars

-----------------------------------------------------------------------------
(* What the command line says of an option: the argument behind the last    *)
(* place it is named in, or its default.  Names stand in the odd places, and*)
(* a name in the last place of all is without effect.                       *)
Places(o) ==
  {i \in DOMAIN arguments :
     i % 2 = 1 /\ arguments[i] = o /\ i + 1 \in DOMAIN arguments}

Said(o) ==
  IF Places(o) = {} THEN Default[o] ELSE Parsed(o, arguments[Max(Places(o)) + 1])

Parsing == phase \in {"key", "value"}

(* The loop of the parser, its two states, its frees and its defaults       *)
(* amount to that reading, for every command line without an unknown name:  *)
(* a value that looks like an option is a value, and a name may come twice. *)
(* The server is built from it: the buffer, the port modulo 2^16 and the    *)
(* address.                                                                 *)
ServesAsSaid ==
  fault = "none" /\ ~Parsing /\ phase # "exited" =>
    /\ \A o \in Option : Configured(o) = Said(o)
    /\ phase = "serving" =>
         /\ buffer = Said("ENTRY_CAPACITY_BYTES")
         /\ listener.port = Said("PORT") % PortModulus
         /\ listener.address = Said("IP_ADDRESS")

(* Options given again are freed and allocated again: no default, which is  *)
(* static, is ever freed, no value is freed twice, and none is lost.        *)
ValuesAreTheHeap ==
  /\ fault # "invalid_free"
  /\ live = {values[o].cell : o \in {p \in Option : Given(p)}} \ {Static}
  /\ \A o, p \in Option :
       Given(o) /\ Given(p) /\ o # p /\ values[o].cell = values[p].cell =>
         values[o].cell = Static

(* A start that fails, at whatever call, leaves neither map nor buffer, and *)
(* the loop is entered only with both.  The values of the options and the   *)
(* listening socket are not its matter: both stay until the process exits.  *)
FailedStartsLeaveNothing ==
  /\ phase = "exited" => ~map_open /\ buffer = NULL
  /\ phase = "serving" => map_open /\ buffer # NULL
=============================================================================
