----------------------------- MODULE MCLifecycle -----------------------------
(***************************************************************************)
(* Small instances of Lifecycle.  The variables are spelled out as they    *)
(* are in a shell, and so is what their author means by them.              *)
(***************************************************************************)
EXTENDS Lifecycle, TLC

\* A DSN or an address, and a number.
Text(host, multi) == [as |-> {}, host |-> host, multi |-> multi]
Number == [as |-> {"int", "float"}, host |-> "", multi |-> FALSE]

\* config.yaml, as far as the startup reads it.
MCFile == (DSN :> Text("localhost", FALSE)) @@ (Addr :> Text("localhost", FALSE)) @@ (Port :> Number)

APP_MYSQL_DSN  == <<"APP", "MYSQL", "DSN">>
APP_REDIS_ADDR == <<"APP", "REDIS", "ADDR">>
APP_HTTP_PORT  == <<"APP", "HTTP", "PORT">>

\* The api of docker-compose.yml, its variables named by the rule of the code.
Renamed(multi, hosts) ==
  [env   |-> (APP_MYSQL_DSN :> Text("mysql", multi)) @@ (APP_REDIS_ADDR :> Text("redis", FALSE)),
   means |-> (DSN :> Text("mysql", multi)) @@ (Addr :> Text("redis", FALSE)),
   reach |-> hosts]

\* `make run` beside a local MySQL and Redis.
MakeRun == [env |-> <<>>, means |-> <<>>, reach |-> {"localhost"}]

\* Two variables, of which one is a DSN that works and one a port that is no number.
BadPort ==
  [env   |-> (APP_MYSQL_DSN :> Text("mysql", TRUE)) @@ (APP_HTTP_PORT :> Text("http", FALSE)),
   means |-> (DSN :> Text("mysql", TRUE)) @@ (Port :> Text("http", FALSE)),
   reach |-> {"mysql", "localhost"}]

MCDeployments ==
  {Renamed(TRUE, {"mysql", "redis"}), Renamed(TRUE, {"mysql"}), Renamed(TRUE, {}),
   MakeRun, BadPort}

\* `make up` with docker-compose.yml as it is.
APP_MYSQL__DSN  == <<"APP", "MYSQL", "", "DSN">>
APP_REDIS__ADDR == <<"APP", "REDIS", "", "ADDR">>

MakeUp ==
  {[env   |-> (APP_MYSQL__DSN :> Text("mysql", FALSE)) @@ (APP_REDIS__ADDR :> Text("redis", FALSE)),
    means |-> (DSN :> Text("mysql", FALSE)) @@ (Addr :> Text("redis", FALSE)),
    reach |-> {"mysql", "redis"}]}
=============================================================================
