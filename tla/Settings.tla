------------------------------- MODULE Settings -------------------------------
(***************************************************************************)
(* Where the server's settings come from (internal/config), and what the   *)
(* driver makes of a database URL (internal/pgdriver, ParseDSN).           *)
(*                                                                         *)
(* A line of a .env file is [class, key, value]: a "pair", or a line that  *)
(* has no key.  Settings of a database are a sequence of [key, value]; a   *)
(* value is a name, or Blank.                                              *)
(***************************************************************************)
EXTENDS Integers, Sequences, FiniteSets, SequencesExt

CONSTANTS
    Blank,
    Absent,                 \* a part that a URL does not have
    Port                    \* value |-> the port it spells, or -1

-----------------------------------------------------------------------------
(* The .env file and the environment: functions from keys to values.       *)

ParseDotEnv(lines) ==
    LET pairs == {i \in DOMAIN lines : lines[i].class = "pair" /\ lines[i].key # Blank} IN
    [k \in {lines[i].key : i \in pairs} |->
        lines[CHOOSE i \in pairs : lines[i].key = k /\ \A j \in pairs : lines[j].key = k => j <= i].value]

Env(key, process, dotEnv) ==
    IF key \in DOMAIN process THEN process[key]
    ELSE IF key \in DOMAIN dotEnv THEN dotEnv[key] ELSE Blank

EnvOr(key, fallback, process, dotEnv) ==
    LET v == Env(key, process, dotEnv) IN IF v = Blank THEN fallback ELSE v

LoadServerConfig(process, dotEnv) ==
    LET portStr == EnvOr("SERVER_PORT", Env("MICRONAUT_SERVER_PORT", process, dotEnv), process, dotEnv)
        host == EnvOr("SERVER_HOST", Env("MICRONAUT_SERVER_HOST", process, dotEnv), process, dotEnv)
    IN  [host |-> IF host = Blank THEN "127.0.0.1" ELSE host,
         port |-> IF portStr # Blank /\ Port[portStr] >= 0 THEN Port[portStr] ELSE 8080,
         user |-> EnvOr("POSTGRES_USER", "agentviz", process, dotEnv)]

-----------------------------------------------------------------------------
(* The database's URL.                                                     *)

Defaults(fallbackUser, fallbackPassword) ==
    [host |-> "localhost", port |-> "5432", user |-> fallbackUser, password |-> fallbackPassword,
     database |-> "postgres"]

FieldOf(key) == CASE key \in {"user", "username"} -> "user"
                  [] key \in {"dbname", "database"} -> "database"
                  [] OTHER -> key

\* A query parameter; only a password may be blank.
Applied(cfg, key, value) ==
    IF value = Blank /\ FieldOf(key) # "password" THEN cfg ELSE [cfg EXCEPT ![FieldOf(key)] = value]

LastOf(params, k) == params[CHOOSE i \in DOMAIN params :
    params[i].key = k /\ \A j \in DOMAIN params : params[j].key = k => j <= i].value

\* The parameters are a map from keys to their last values, and a map is ranged
\* over in any order.
RangedOver(cfg, params, order) == FoldLeft(LAMBDA c, k : Applied(c, k, LastOf(params, k)), cfg, order)
applyQueryParams(cfg, params) ==
    {RangedOver(cfg, params, order) : order \in SetToSeqs({params[i].key : i \in DOMAIN params})}

WithUser(cfg) == IF cfg.user = Blank THEN [cfg EXCEPT !.user = "postgres"] ELSE cfg

\* The authority and path of a URL: its user, password, host, port and database.
ParseURL(dsn, cfg) ==
    LET given(field, old) == IF dsn[field] \in {Absent, Blank} THEN old ELSE dsn[field]
        base == [host |-> given("host", cfg.host), port |-> given("port", cfg.port),
                 user |-> given("user", cfg.user), database |-> given("database", cfg.database),
                 password |-> IF dsn.password = Absent THEN cfg.password ELSE dsn.password]
    IN  {WithUser(c) : c \in applyQueryParams(base, dsn.params)}

\* The last of several settings of one field counts, blank or not.
Put(cfg, param) == [cfg EXCEPT ![FieldOf(param.key)] = param.value]
PutAll(cfg, params) == FoldLeft(Put, cfg, params)
ParseKeywords(params, cfg) == {WithUser(PutAll(cfg, params))}

\* The configurations a DSN may give; none if it is refused.  The form in which
\* the tests name a pipe is left out.
ParseDSN(dsn, fallbackUser, fallbackPassword) ==
    LET cfg == Defaults(fallbackUser, fallbackPassword) IN
    CASE dsn.form \in {"jdbc", "url"} -> ParseURL(dsn, cfg)
      [] dsn.form = "keywords" /\ dsn.params # <<>> -> ParseKeywords(dsn.params, cfg)
      [] OTHER -> {}
=============================================================================
