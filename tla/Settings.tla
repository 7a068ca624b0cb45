------------------------------ MODULE Settings ------------------------------
(***************************************************************************)
(* What a process makes of its environment:                                *)
(* ConfigurationManager (src/platform/config/configuration-manager.ts),    *)
(* the prefix rules, the settings limits.ts reads by itself, the checks of *)
(* the database adapter factory, and the arguments with which a client     *)
(* starts a connection server.                                             *)
(*                                                                         *)
(* An environment gives each variable a raw value: unset, empty, blank, a  *)
(* number, or a text, of which the model keeps what the code looks at: a   *)
(* word as it is written, where "TRUE" stands for every way to write true  *)
(* with a capital, and records of a prefix, a path and a url.  A reader    *)
(* that throws returns the empty set, one that does not a singleton.       *)
(***************************************************************************)
EXTENDS Integers, FiniteSets

CONSTANTS
    MaxPrefixLength, \* MAX_PREFIX_LENGTH
    Environments     \* what a process may be started in

VARIABLES
    environment, \* process.env
    loaded       \* what was made of it: nothing yet, or the settings

Unset == [is |-> "unset"]
Empty == [is |-> "empty"]
Blank == [is |-> "blank"]
Number(n) == [is |-> "number", n |-> n]
Text(t) == [is |-> "text", text |-> t]

Given(raw) == raw \notin {Unset, Empty}

-----------------------------------------------------------------------------
(* Single values                                                           *)

\* Number(raw): what is blank is zero, a text is not a number.
Parsed(raw) == CASE raw = Blank -> {0} [] raw.is = "number" -> {raw.n} [] OTHER -> {}

Least == [v \in {"LADYBUG_SERVER_IDLE_TTL_MS", "LADYBUG_DB_LOCK_RETRIES"} |-> 0]
Defaults ==
    [LADYBUG_SERVER_PORT |-> 7617, LADYBUG_GRPC_MAX_MESSAGE_BYTES |-> 67108864,
     LADYBUG_SERVER_MAX_CONCURRENCY |-> 4, LADYBUG_SERVER_MAX_QUEUE |-> 256,
     LADYBUG_SERVER_STARTUP_TIMEOUT_MS |-> 30000, LADYBUG_SERVER_IDLE_TTL_MS |-> 0,
     LADYBUG_SERVER_SHUTDOWN_GRACE_MS |-> 5000, LADYBUG_SERVER_SHUTDOWN_HARD_MS |-> 10000,
     LADYBUG_DB_LOCK_STALE_MS |-> 30000, LADYBUG_DB_LOCK_RETRIES |-> 10,
     OLLAMA_DIMENSIONS |-> 1024, HF_DIMENSIONS |-> 1024]
IntegerVars == DOMAIN Defaults
PathVars == {"LADYBUGDB_PATH", "LADYBUG_SERVER_LOCK_PATH", "LADYBUG_SERVER_DISCOVERY_PATH"}
UrlVars == {"OLLAMA_URL", "LADYBUG_SERVER_URL"}
Variables == IntegerVars \union PathVars \union UrlVars \union
    {"TYPOCOP_PREFIX", "OLLAMA_ENABLED", "EMBEDDING_PROVIDER", "HF_DTYPE", "HF_POOLING", "LADYBUG_RUNTIME_MODE",
     "LADYBUG_SERVER_HOST", "LADYBUG_SERVER_AUTH_TOKEN", "LADYBUG_SERVER_AUTOSTART", "EMBEDDING_BATCH_SIZE",
     "EMBEDDING_ENABLE_BATCH", "EMBEDDING_CACHE_MAX_ENTRIES"}

AtLeast(v) == IF v \in DOMAIN Least THEN Least[v] ELSE 1
AtMost(v, n) == v = "LADYBUG_SERVER_PORT" => n <= 65535

\* parsePositiveInt, parsePort and parseDimensions
Integer(env, v) ==
    IF Given(env[v]) THEN {n \in Parsed(env[v]) : n >= AtLeast(v) /\ AtMost(v, n)} ELSE {Defaults[v]}

\* A setting out of a list of words, as it is written.
OneOf(raw, words, default) ==
    IF ~Given(raw) THEN {default} ELSE {w \in words : raw = Text(w)}

\* parseBoolean: "true" in any case, and nothing around it.
ParseBoolean(raw) == raw \in {Text("true"), Text("TRUE")}

\* The flags of limits.ts: more words, and spaces around them do not matter.
Flag(raw) == raw \in {Number(1), Text("true"), Text("TRUE"), Text(" true "), Text("yes"), Text("on")}

\* The sizes of limits.ts that fall back to their default when they make no sense.
OrDefault(raw, default) ==
    IF Given(raw) /\ \E n \in Parsed(raw) : n >= 1 THEN CHOOSE n \in Parsed(raw) : n >= 1 ELSE default

Path(under, name) == [home |-> FALSE, under |-> under, name |-> name]

\* resolveConfiguredPath: a path that starts in ~/ is under the home directory.
ConfiguredPath(raw, default) ==
    IF ~Given(raw) THEN Text(default)
    ELSE IF raw.is # "text" THEN raw
    ELSE Text(Path(IF raw.text.home THEN "home" ELSE raw.text.under, raw.text.name))

-----------------------------------------------------------------------------
(* The prefix: what it starts with, the characters it has, whether it ends *)
(* in an underscore, and its length without that underscore.               *)

Lowered(p) == [p EXCEPT !.upper = FALSE]
Underscored(p) == [p EXCEPT !.hyphen = FALSE]
Truncated(p) == [p EXCEPT !.length = MaxPrefixLength - 1, !.tail = TRUE]

\* PrefixValidator.validate, and the prefix it suggests instead
Validate(p) ==
    CASE p.upper -> [valid |-> FALSE, suggestion |-> {Lowered(p)}]
      [] ~p.upper /\ (p.hyphen \/ p.special) ->
            [valid |-> FALSE, suggestion |-> IF p.letter /\ ~p.special THEN {Underscored(p)} ELSE {}]
      [] ~(p.upper \/ p.hyphen \/ p.special) /\ ~p.letter -> [valid |-> FALSE, suggestion |-> {}]
      [] OTHER -> IF p.length + 1 > MaxPrefixLength
                  THEN [valid |-> FALSE, suggestion |-> {Truncated(p)}]
                  ELSE [valid |-> TRUE, suggestion |-> {}]

Normalize(p) == [p EXCEPT !.tail = TRUE]

DefaultPrefix == [letter |-> TRUE, upper |-> FALSE, hyphen |-> FALSE, special |-> FALSE, tail |-> TRUE, length |-> 3]

LoadPrefix(raw) ==
    CASE ~Given(raw) -> {DefaultPrefix}
      [] raw = Blank -> {}
      [] raw.is = "number" -> {}
      [] OTHER -> IF Validate(raw.text).valid THEN {Normalize(raw.text)} ELSE {}

-----------------------------------------------------------------------------
(* URLs                                                                    *)

\* new URL: a text without a scheme is not one.
IsUrl(raw) == raw.is = "text" /\ raw.text.scheme # "none"

DefaultUrl == [scheme |-> "grpc", host |-> "loopback", port |-> {7617}]
DefaultOllama == [scheme |-> "http", host |-> "localhost", port |-> {11434}]
UrlGiven(raw, default) == IF Given(raw) THEN raw ELSE Text(default)

OllamaUrl(raw) ==
    {u \in {UrlGiven(raw, DefaultOllama)} : IsUrl(u) /\ u.text.scheme \in {"http", "https"}}

\* validateGrpcUrl of the manager, in client mode, and of the factory, which
\* wants a host too.
ServerUrl(raw, mode) ==
    {u \in {UrlGiven(raw, DefaultUrl)} : mode = "client" => IsUrl(u) /\ u.text.scheme = "grpc"}
HasHost(u) == u.text.host # "none"

-----------------------------------------------------------------------------
(* ConfigurationManager                                                    *)

\* loadEmbeddingConfig: without a provider, OLLAMA_ENABLED decides.
Provider(env) ==
    OneOf(env["EMBEDDING_PROVIDER"], {"huggingface", "ollama", "none"},
          IF ParseBoolean(env["OLLAMA_ENABLED"]) THEN "ollama" ELSE "huggingface")

LoadEmbedding(env) ==
    {[provider |-> p, dtype |-> d, pooling |-> l, dimensions |-> n] :
        p \in Provider(env), d \in OneOf(env["HF_DTYPE"], {"fp32", "fp16", "q8"}, "q8"),
        l \in OneOf(env["HF_POOLING"], {"cls", "mean"}, "cls"), n \in Integer(env, "HF_DIMENSIONS")}

LoadOllama(env) ==
    {[enabled |-> ParseBoolean(env["OLLAMA_ENABLED"]), url |-> u, dimensions |-> n] :
        u \in OllamaUrl(env["OLLAMA_URL"]), n \in Integer(env, "OLLAMA_DIMENSIONS")}

\* createEmbeddingAdapter: the dimensions of the adapter, none when it is off.
AdapterDimensions(embedding, ollama) ==
    CASE embedding.provider = "huggingface" -> {embedding.dimensions}
      [] embedding.provider = "ollama" -> {ollama.dimensions}
      [] embedding.provider = "none" -> {}

ServerIntegers == IntegerVars \ {"OLLAMA_DIMENSIONS", "HF_DIMENSIONS"}
Word(raw, default) == IF Given(raw) THEN raw ELSE default

\* loadLadybugDBConfig; the default paths are under a directory of the prefix.
LoadLadybugDB(env, prefix) ==
    {[dbPath    |-> ConfiguredPath(env["LADYBUGDB_PATH"], Path(prefix, "db")),
      lockPath  |-> ConfiguredPath(env["LADYBUG_SERVER_LOCK_PATH"], Path(prefix, "lock")),
      discoveryPath |-> ConfiguredPath(env["LADYBUG_SERVER_DISCOVERY_PATH"], Path(prefix, "discovery")),
      mode |-> mode, url |-> url,
      host |-> Word(env["LADYBUG_SERVER_HOST"], Text("loopback")),
      token |-> Word(env["LADYBUG_SERVER_AUTH_TOKEN"], Empty),
      autostart |-> ParseBoolean(env["LADYBUG_SERVER_AUTOSTART"]),
      integer |-> [v \in ServerIntegers |-> CHOOSE n \in Integer(env, v) : TRUE]] :
        mode \in {m \in OneOf(env["LADYBUG_RUNTIME_MODE"], {"server", "client"}, "server") :
                      \A v \in ServerIntegers : Integer(env, v) # {}},
        url \in UNION {ServerUrl(env["LADYBUG_SERVER_URL"], m) :
                      m \in OneOf(env["LADYBUG_RUNTIME_MODE"], {"server", "client"}, "server")}}

\* resolveSource: the names it looks for.
SourceVars == Variables \ {"LADYBUGDB_PATH", "EMBEDDING_BATCH_SIZE", "EMBEDDING_ENABLE_BATCH", "EMBEDDING_CACHE_MAX_ENTRIES"}

\* initialize: any part that cannot be read fails the whole.
Load(env) ==
    UNION {{[prefix |-> p, ollama |-> o, embedding |-> e, db |-> d,
             source |-> IF \E v \in SourceVars : env[v] # Unset THEN "environment" ELSE "default"] :
                o \in LoadOllama(env), e \in LoadEmbedding(env), d \in LoadLadybugDB(env, p)} :
           p \in LoadPrefix(env["TYPOCOP_PREFIX"])}

\* The readers of limits.ts: getConfiguredPositiveIntEnv and its like.
Configured(env, v) ==
    IF env[v] \in {Unset, Empty} THEN {Defaults[v]} ELSE {n \in Parsed(env[v]) : n >= AtLeast(v)}

AtLeastOne(n) == IF n < 1 THEN 1 ELSE n

\* deriveRpcPayloadBudgetBytes: three quarters of a message
PayloadBudget(bytes) == AtLeastOne((3 * bytes) \div 4)

\* deriveExportGraphReadPageSize
PageSize(bytes) == AtLeastOne(PayloadBudget(bytes) \div 64000)

\* What a run of the indexer takes from limits.ts.
Limits(env) ==
    {[bytes |-> b, budget |-> PayloadBudget(b), page |-> PageSize(b), stale |-> l, retries |-> r,
      batch |-> OrDefault(env["EMBEDDING_BATCH_SIZE"], 16), batching |-> Flag(env["EMBEDDING_ENABLE_BATCH"]),
      cache |-> OrDefault(env["EMBEDDING_CACHE_MAX_ENTRIES"], 200000)] :
        b \in Configured(env, "LADYBUG_GRPC_MAX_MESSAGE_BYTES"),
        l \in Configured(env, "LADYBUG_DB_LOCK_STALE_MS"), r \in Configured(env, "LADYBUG_DB_LOCK_RETRIES")}

-----------------------------------------------------------------------------
(* The adapter factory, and the server a client starts                     *)

\* validateAdapterFactoryConfig
FactoryAccepts(config) ==
    /\ Blank \notin {config.db.dbPath, config.db.host, config.db.lockPath, config.db.discoveryPath}
    /\ config.db.integer["LADYBUG_SERVER_PORT"] >= 1 /\ config.db.integer["LADYBUG_SERVER_PORT"] <= 65535
    /\ \A v \in {"LADYBUG_SERVER_MAX_CONCURRENCY", "LADYBUG_SERVER_MAX_QUEUE",
                 "LADYBUG_GRPC_MAX_MESSAGE_BYTES", "LADYBUG_SERVER_STARTUP_TIMEOUT_MS",
                 "LADYBUG_SERVER_IDLE_TTL_MS"} : config.db.integer[v] >= AtLeast(v)
    /\ config.db.mode = "client" => HasHost(config.db.url)

\* spawnConnectionServer: the flags of main.ts, by the variable each stands for
SpawnArgs(config) ==
    [LADYBUGDB_PATH |-> config.db.dbPath,
     TYPOCOP_PREFIX |-> Text(config.prefix),
     LADYBUG_SERVER_HOST |-> Text(config.db.url.text.host),
     LADYBUG_SERVER_PORT |-> IF config.db.url.text.port = {} THEN Number(7617)
                             ELSE Number(CHOOSE n \in config.db.url.text.port : TRUE),
     LADYBUG_SERVER_AUTH_TOKEN |-> config.db.token,
     LADYBUG_GRPC_MAX_MESSAGE_BYTES |-> Number(config.db.integer["LADYBUG_GRPC_MAX_MESSAGE_BYTES"]),
     LADYBUG_SERVER_DISCOVERY_PATH |-> config.db.discoveryPath]

\* Regression: the environment the child inherits goes before its arguments.
InheritedFirst(env, args) ==
    [v \in DOMAIN env |-> IF v \in DOMAIN args /\ ~Given(env[v]) THEN args[v] ELSE env[v]]

\* applyArgEnvOverrides: an argument goes before the environment the child
\* inherits; a flag with an empty value is skipped.
ArgEnvOverrides(env, args) ==
    [v \in DOMAIN env |-> IF v \in DOMAIN args /\ Given(args[v]) THEN args[v] ELSE env[v]]

\* main of the server: its mode is always the server's.
ServerLoads(env, args) ==
    Load([ArgEnvOverrides(env, args) EXCEPT !["LADYBUG_RUNTIME_MODE"] = Text("server")])

-----------------------------------------------------------------------------
(* A process that reads its environment once, when it starts               *)

\* What a text is, by the variable that holds it, where it is no word: a url
\* names one port at most.
PrefixText(p) ==
    p \in [letter : BOOLEAN, upper : BOOLEAN, hyphen : BOOLEAN, special : BOOLEAN, tail : BOOLEAN, length : Nat]
IsText(v, t) ==
    /\ v = "TYPOCOP_PREFIX" => PrefixText(t)
    /\ v \in PathVars => t.home \in BOOLEAN
    /\ v \in UrlVars => \A m, n \in t.port : m = n /\ n \in Nat /\ n <= 65535

IsRaw(v, raw) ==
    \/ raw \in {Unset, Empty, Blank}
    \/ raw.is = "number" /\ raw = Number(raw.n) /\ raw.n \in Int
    \/ raw.is = "text" /\ raw = Text(raw.text) /\ IsText(v, raw.text)

IsEnvironment(env) == DOMAIN env = Variables /\ \A v \in Variables : IsRaw(v, env[v])

ASSUME EnvironmentsAssumption == \A env \in Environments : IsEnvironment(env)
ASSUME PrefixAssumption == MaxPrefixLength \in Nat /\ MaxPrefixLength > DefaultPrefix.length

settingsVars == <<environment, loaded>>

SettingsInit == environment \in Environments /\ loaded = {}

LoadSettings ==
    /\ loaded = {}
    /\ loaded' = {[config |-> Load(environment), limits |-> Limits(environment)]}
    /\ UNCHANGED environment

SettingsSpec == SettingsInit /\ [][LoadSettings]_settingsVars

\* A client that spawns a server hands it its settings: whatever the client
\* was told by its environment, and accepted, the server it starts loads the
\* same settings, but for being a server on the port of the client's url.
\* And the two places that read the size of a message and the patience with
\* a lock agree (spawnConnectionServer(), applyArgEnvOverrides(), limits.ts).
SpawnedServerAgrees ==
    \A l \in loaded :
        /\ \A c \in {c \in l.config : c.db.mode = "client" /\ FactoryAccepts(c)} :
               LET port == c.db.url.text.port IN
               port \notin {{}, {0}} =>
                   ServerLoads(environment, SpawnArgs(c)) =
                       {[c EXCEPT !.source = "environment", !.db.mode = "server", !.db.host = Text(c.db.url.text.host),
                                  !.db.integer["LADYBUG_SERVER_PORT"] = CHOOSE n \in port : TRUE]}
        /\ \A c \in l.config, r \in l.limits :
               /\ c.db.integer["LADYBUG_GRPC_MAX_MESSAGE_BYTES"] = r.bytes
               /\ c.db.integer["LADYBUG_DB_LOCK_STALE_MS"] = r.stale
               /\ c.db.integer["LADYBUG_DB_LOCK_RETRIES"] = r.retries
        /\ l.config # {} => l.limits # {}
=============================================================================
