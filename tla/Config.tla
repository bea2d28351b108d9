------------------------------- MODULE Config -------------------------------
(***************************************************************************)
(* src/config.c: defaults, then the lines of the file one after the other, *)
(* then the environment in a fixed order; and the address that the poller  *)
(* makes of the result.                                                    *)
(*                                                                         *)
(* A value is a record [text, number, quoted]: its text without blanks     *)
(* around it and without quotes, the number strtoul reads if that is all   *)
(* of the text, and whether there were quotes.  A text longer than its     *)
(* field is cut; such texts, and lines longer than the buffer, are left    *)
(* out.  Names and words that strcasecmp takes for equal are one string.   *)
(***************************************************************************)
EXTENDS Integers, Sequences

CONSTANTS
    Files,          \* what the file may hold; an unreadable one is <<>>
    Environments,   \* records from some of the keys to their values
    UInt32Values    \* how many values a uint32_t has

VARIABLES
    config,     \* YureiConfig
    todo,       \* lines of the file that have not been read
    env,        \* the environment
    next,       \* the position in EnvironmentKeys
    logLevel    \* of logging.c, "" before it is set

NotANumber == -1

vars == <<config, todo, env, next, logLevel>>

Defaults ==
    [rpc_endpoint |-> "https://mainnet.helius-rpc.com",
     wss_endpoint |-> "wss://mainnet.helius-rpc.com",
     rpc_api_key |-> "", rpc_mode |-> "ws",
     poll_interval_ms |-> 1000,
     ws_backoff_ms |-> 1000, ws_backoff_max_ms |-> 60000,
     queue_capacity |-> 1024, batch_size |-> 20, rate_limit_rps |-> 10,
     log_color |-> TRUE,
     pumpfun_program |-> "6EF8", raydium_program |-> "675k",
     pumpfun_table |-> "pumpfun_trades", raydium_table |-> "raydium_swaps",
     pg_conninfo |-> "host=127.0.0.1", log_level |-> "info"]

\* The field that each key sets; the connection string has two keys.
FieldOf ==
    [YUREI_RPC_ENDPOINT |-> "rpc_endpoint",
     YUREI_WSS_ENDPOINT |-> "wss_endpoint",
     YUREI_RPC_API_KEY |-> "rpc_api_key",
     YUREI_RPC_MODE |-> "rpc_mode",
     YUREI_POLL_INTERVAL_MS |-> "poll_interval_ms",
     YUREI_WS_BACKOFF_MS |-> "ws_backoff_ms",
     YUREI_WS_BACKOFF_MAX_MS |-> "ws_backoff_max_ms",
     YUREI_QUEUE_CAPACITY |-> "queue_capacity",
     YUREI_BATCH_SIZE |-> "batch_size",
     YUREI_RATE_LIMIT |-> "rate_limit_rps",
     YUREI_LOG_COLOR |-> "log_color",
     YUREI_PUMPFUN_PROGRAM |-> "pumpfun_program",
     YUREI_RAYDIUM_PROGRAM |-> "raydium_program",
     YUREI_PG_CONN |-> "pg_conninfo",
     YUREI_PG_CONNINFO |-> "pg_conninfo",
     YUREI_PUMPFUN_TABLE |-> "pumpfun_table",
     YUREI_RAYDIUM_TABLE |-> "raydium_table",
     YUREI_LOG_LEVEL |-> "log_level"]

EnvironmentKeys ==
    <<"YUREI_RPC_ENDPOINT", "YUREI_WSS_ENDPOINT", "YUREI_RPC_API_KEY",
      "YUREI_RPC_MODE", "YUREI_POLL_INTERVAL_MS", "YUREI_WS_BACKOFF_MS",
      "YUREI_WS_BACKOFF_MAX_MS", "YUREI_QUEUE_CAPACITY", "YUREI_BATCH_SIZE",
      "YUREI_RATE_LIMIT", "YUREI_LOG_COLOR", "YUREI_PUMPFUN_PROGRAM",
      "YUREI_RAYDIUM_PROGRAM", "YUREI_PG_CONN", "YUREI_PG_CONNINFO",
      "YUREI_PUMPFUN_TABLE", "YUREI_RAYDIUM_TABLE", "YUREI_LOG_LEVEL">>

UInt32Fields == {"poll_interval_ms", "ws_backoff_ms", "ws_backoff_max_ms",
                 "batch_size", "rate_limit_rps"}
SizeFields   == {"queue_capacity"}
-----------------------------------------------------------------------------
\* What a field is set to; a text that is not a number leaves a numeric one
\* as it was, and so does an empty one.
Converted(field, value) ==
    IF field \in UInt32Fields \cup SizeFields
    THEN IF value.number = NotANumber THEN config[field]
         ELSE IF field \in UInt32Fields THEN value.number % UInt32Values
         ELSE value.number
    ELSE IF field = "log_color" THEN value.text \in {"1", "true", "yes"}
    ELSE value.text

\* Unknown keys are ignored.
ApplyKeyValue(key, value) ==
    config' = IF key \in DOMAIN FieldOf
              THEN [config EXCEPT
                       ![FieldOf[key]] = Converted(FieldOf[key], value)]
              ELSE config

Init ==
    /\ config = Defaults
    /\ todo \in Files
    /\ env \in Environments
    /\ next = 1
    /\ logLevel = ""

\* A line of the file, [key, value]; comments and lines without an equals
\* sign have the key "".
ReadLine ==
    /\ todo # <<>>
    /\ todo' = Tail(todo)
    /\ IF Head(todo).key = "" THEN UNCHANGED config
       ELSE ApplyKeyValue(Head(todo).key, Head(todo).value)
    /\ UNCHANGED <<env, next, logLevel>>

\* A variable of the environment counts if it is not empty; quotes with
\* nothing between them are not.
IsSet(key) ==
    key \in DOMAIN env /\ (env[key].text # "" \/ env[key].quoted)

ReadVariable ==
    /\ todo = <<>> /\ next <= Len(EnvironmentKeys)
    /\ next' = next + 1
    /\ LET key == EnvironmentKeys[next]
       IN  IF IsSet(key) THEN ApplyKeyValue(key, env[key])
           ELSE UNCHANGED config
    /\ UNCHANGED <<todo, env, logLevel>>

\* Levels that are not known count as "error".
ConfigureLogLevel ==
    /\ todo = <<>> /\ next > Len(EnvironmentKeys)
    /\ logLevel = ""
    /\ logLevel' = IF config.log_level \in {"trace", "debug", "info", "warn"}
                   THEN config.log_level ELSE "error"
    /\ UNCHANGED <<config, todo, env, next>>

Loaded == logLevel # ""

Next ==
    \/ ReadLine \/ ReadVariable \/ ConfigureLogLevel
    \/ Loaded /\ UNCHANGED vars

Spec == Init /\ [][Next]_vars
-----------------------------------------------------------------------------
\* The address of the poller's requests, and what is appended to it.
RequestUrl == [base |-> config.rpc_endpoint, key |-> ""]

\* .env.example:12, "The API key will be appended as ?api-key=<key>": a key
\* that is configured, in the file or in the environment, reaches the node.
ApiKeyAppended == Loaded => RequestUrl.key = config.rpc_api_key
=============================================================================
