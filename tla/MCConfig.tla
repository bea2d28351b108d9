------------------------------ MODULE MCConfig ------------------------------
(***************************************************************************)
(* The instance of Config for TLC: a file like .env.example and one with   *)
(* odd lines, environments that add to them, contradict them or are empty, *)
(* a uint32_t of 16 bits.                                                  *)
(***************************************************************************)
EXTENDS Config

Text(t)      == [text |-> t, number |-> NotANumber, quoted |-> FALSE]
Quoted(t)    == [Text(t) EXCEPT !.quoted = TRUE]
Number(t, n) == [text |-> t, number |-> n, quoted |-> FALSE]
Line(k, v)   == [key |-> k, value |-> v]

ExampleFile ==
    <<Line("", Text("")),
      Line("YUREI_RPC_API_KEY", Text("your-helius-api-key-here")),
      Line("YUREI_RPC_MODE", Text("ws")),
      Line("YUREI_QUEUE_CAPACITY", Number("2048", 2048))>>

OddFile ==
    <<Line("YUREI_UNKNOWN", Text("1")),
      Line("YUREI_RATE_LIMIT", Text("ten")),
      Line("YUREI_POLL_INTERVAL_MS", Number("65536", 65536)),
      Line("YUREI_PG_CONN", Quoted("dbname=other"))>>

SomeFiles == {<<>>, ExampleFile, OddFile}

SomeEnvironments ==
    {[YUREI_RPC_MODE |-> Text("")],
     [YUREI_RPC_API_KEY |-> Text("secret"), YUREI_RPC_MODE |-> Text("dual")],
     [YUREI_RPC_API_KEY |-> Quoted(""), YUREI_PG_CONNINFO |-> Text("x")]}
=============================================================================
