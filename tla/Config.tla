------------------------------- MODULE Config -------------------------------
(***************************************************************************)
(* config.Load: the YAML file, and over it the environment.                *)
(*                                                                         *)
(* A name, of a key or of an environment variable, is the sequence of the  *)
(* words between its underscores, in the upper case that variables have:   *)
(* APP_MYSQL_DSN is <<"APP", "MYSQL", "DSN">>, and an underscore doubled   *)
(* leaves an empty word.  A text is what a file or a variable gives for a  *)
(* setting; text.as says which parsers of package strconv and time accept  *)
(* it.  The file is a function from the settings it has to their texts.    *)
(***************************************************************************)
EXTENDS Sequences

Setting(section, key, type) == [section |-> section, key |-> key, type |-> type]

\* The fields of Config with their yaml tags, and of the structs in it.
DSN  == Setting(<<"MYSQL">>, <<"DSN">>, "string")
Addr == Setting(<<"REDIS">>, <<"ADDR">>, "string")
Port == Setting(<<"HTTP">>, <<"PORT">>, "int")

Settings ==
  {DSN, Addr, Port} \cup
  {Setting(<<"HTTP">>, <<k, "TIMEOUT">>, "duration") : k \in {"READ", "WRITE", "SHUTDOWN"}} \cup
  {Setting(<<"MYSQL">>, <<"MAX", k, "CONNS">>, "int") : k \in {"OPEN", "IDLE"}} \cup
  {Setting(<<"MYSQL">>, <<"CONN", "MAX">> \o k, "duration") : k \in {<<"LIFETIME">>, <<"IDLE", "TIME">>}} \cup
  {Setting(<<"REDIS">>, <<"PASSWORD">>, "string"),
   Setting(<<"REDIS">>, <<"DB">>, "int"),
   Setting(<<"REDIS">>, <<"TASK", "LIST", "TTL">>, "duration"),
   Setting(<<"AUTH">>, <<"JWT", "SECRET">>, "string"),
   Setting(<<"AUTH">>, <<"TOKEN", "TTL">>, "duration"),
   Setting(<<"RATELIMIT">>, <<"REQUESTS", "PER", "MINUTE">>, "int"),
   Setting(<<"EMAIL">>, <<"FAILURE", "THRESHOLD">>, "int"),
   Setting(<<"EMAIL">>, <<"OPEN", "TIMEOUT">>, "duration"),
   Setting(<<"EMAIL">>, <<"FAIL", "RATE">>, "float")}

\* Mutant: the fields of a struct are looked up under the prefix of the struct.
EnvNameWithoutSection(s) == <<"APP">> \o s.key

\* applyEnvOverrides builds a field's variable by adding "_" and the tag to the
\* prefix, for a struct and again for the field in it.
EnvName(s) == <<"APP">> \o s.section \o s.key

\* What a setting that nobody gives is, the zero of its type.
Zero == [as |-> {"int", "duration", "float"}, host |-> "", multi |-> FALSE]

Overridden(s, env) == EnvName(s) \in DOMAIN env

\* setValue: a string is taken as it is.
Accepts(s, text) == s.type = "string" \/ s.type \in text.as

\* The first override that setValue refuses ends Load, and no Config is
\* returned.
LoadFails(env) == \E s \in Settings : Overridden(s, env) /\ ~Accepts(s, env[EnvName(s)])

Load(file, env) ==
  [s \in Settings |->
     IF Overridden(s, env) THEN env[EnvName(s)]
     ELSE IF s \in DOMAIN file THEN file[s]
     ELSE Zero]
=============================================================================
