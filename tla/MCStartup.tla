----------------------------- MODULE MCStartup -----------------------------
(***************************************************************************)
(* Instances of Startup: the options the server reads and two it does not, *)
(* and texts that are a number, a negative one, one beyond 2^16 (16 here), *)
(* and none.                                                               *)
(***************************************************************************)
EXTENDS Startup, TLC

Options == {"ACCEPT_PERIOD_MICROS", "CONNECTION_BACKLOG_LIMIT",
            "ENTRY_CAPACITY_BYTES", "IP_ADDRESS", "PORT"}

Numbers ==
  [a \in Options \union Text |->
     CASE a = "8" -> 8 [] a = "-1" -> -1 [] a = "20" -> 20 [] OTHER -> 0]

Defaults ==
  "ACCEPT_PERIOD_MICROS" :> 1000 @@ "CONNECTION_BACKLOG_LIMIT" :> 32
    @@ "ENTRY_CAPACITY_BYTES" :> 10 @@ "IP_ADDRESS" :> "localhost"
    @@ "PORT" :> 7
=============================================================================
