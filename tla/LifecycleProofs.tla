--------------------------- MODULE LifecycleProofs ---------------------------
(***************************************************************************)
(* The safety of Lifecycle, for any number of requests, tables and faults, *)
(* and however it is deployed from one run to the next; and, from the      *)
(* names of the variables, which of their settings deployments get.        *)
(***************************************************************************)
EXTENDS Lifecycle, TLAPS

\* What golang-migrate has recorded is what the database has, and a run that
\* is past Up has found or made it clean.
SchemaInv ==
  /\ schema = "empty" => tables = 0
  /\ schema = "clean" => tables = Tables
  /\ phase \in {"create", "record"} => schema = "dirty"
  /\ phase = "create" => tables < Tables
  /\ phase = "record" => tables = Tables
  /\ phase \in {"redis", "serve", "drain"} => schema = "clean"

\* Requests run in a process that came as far as to serve.
RunningInv ==
  /\ Running # {} => phase \in {"serve", "drain", "close"} /\ schema = "clean"
  /\ phase \in StartupPhases => \A r \in Requests : pc[r] = "none"

\* Up to the deferred calls the clients are open, and a clean stop leaves no
\* request to meet them closed.
Intact == \A r \in Requests : pc[r] \notin {"refused", "stale", "lost"}

CleanInv ==
  /\ phase \in {"serve", "drain"} => open = Clients /\ Intact
  /\ phase = "redis" => "mysql" \in open
  /\ phase \in {"migrate", "create", "record"} => "mysql" \in open
  /\ exit = "clean" => phase \in {"close", "down"} /\ CleanStop

IInv == TypeOK /\ SchemaInv /\ RunningInv /\ CleanInv

-----------------------------------------------------------------------------
LEMMA InitHolds == Init => IInv
  <1> SUFFICES ASSUME Init PROVE IInv
      OBVIOUS
  <1> USE ConstantsAssumption DEF Init
  <1>1. signalled \in BOOLEAN /\ place \in Deployments
        BY Zenon
  <1>2. 0 \in 0..Tables /\ 0 \in 0..MaxFaults
        OBVIOUS
  <1>3. TypeOK
        BY <1>1, <1>2, Zenon DEF TypeOK
  <1>4. Running = {}
        BY DEF Running
  <1>5. SchemaInv /\ RunningInv /\ CleanInv
        BY <1>4 DEF SchemaInv, RunningInv, CleanInv, StartupPhases
  <1> QED
      BY <1>3, <1>5 DEF IInv

\* Types are kept: the one that needs an argument is that of tables, whose
\* bound is SchemaInv's.
LEMMA TypeStep == IInv /\ [Next]_vars => TypeOK'
  <1> SUFFICES ASSUME IInv, [Next]_vars PROVE TypeOK'
      OBVIOUS
  <1> USE ConstantsAssumption DEF TypeOK, StartupPhases, Clients, process, database
  <1>1. CASE UNCHANGED vars
        BY <1>1 DEF IInv, vars
  <1>2. CASE Start
        BY <1>2 DEF IInv, Start
  <1>3. CASE Connect
        BY <1>3 DEF IInv, Connect, Goto
  <1>4. CASE LoadConfig \/ RefuseConnection \/ Up \/ RefuseFile \/ Record
        BY <1>4 DEF IInv, LoadConfig, RefuseConnection, Up, RefuseFile, Record, Goto, Return
  <1>5. CASE CreateTable
    <2>1. tables' \in 0..Tables
          BY <1>5 DEF IInv, SchemaInv, CreateTable
    <2>2. phase' \in {"record", "create"}
          BY <1>5 DEF CreateTable, Goto
    <2>3. UNCHANGED <<listener, open, signalled, place, exit, schema, pc, faults>>
          BY <1>5 DEF CreateTable, Goto
    <2> QED
        BY <2>1, <2>2, <2>3 DEF IInv
  <1>6. CASE ConnectRedis \/ RefusePing
        BY <1>6 DEF IInv, ConnectRedis, RefusePing, Goto, Return
  <1>7. CASE SelectError \/ SelectSignal \/ ShutDown \/ TimeOut \/ CloseRedis \/ CloseMySQL
        BY <1>7 DEF IInv, SelectError, SelectSignal, ShutDown, TimeOut, CloseRedis, CloseMySQL, Goto, Return
  <1>8. CASE Exit
        BY <1>8 DEF IInv, Exit, Dies
  <1>9. CASE Listen \/ Signal
        BY <1>9 DEF IInv, Listen, Signal
  <1>10. CASE \E r \in Requests : Request(r)
    <2>1. PICK r \in Requests : Request(r)
          BY <1>10
    <2>2. UNCHANGED <<phase, exit, listener, open, signalled, place, schema, tables, faults>>
          BY <2>1 DEF Request, Accept, Write, Invalidate
    <2>3. CASE Accept(r)
          BY <2>2, <2>3 DEF IInv, Accept
    <2>4. CASE Write(r)
          BY <2>2, <2>4 DEF IInv, Write
    <2>5. CASE Invalidate(r)
          BY <2>2, <2>5 DEF IInv, Invalidate
    <2> QED
        BY <2>1, <2>3, <2>4, <2>5 DEF Request
  <1>11. CASE FailStartup
    <2>1. schema' \in {"empty", "dirty", "clean"} /\ tables' \in 0..Tables
          BY <1>11 DEF IInv, FailStartup, Interrupted
    <2>2. open' \subseteq Clients /\ faults' \in 0..MaxFaults
          BY <1>11 DEF IInv, FailStartup, Fault
    <2> QED
        BY <1>11, <2>1, <2>2 DEF IInv, FailStartup, Return
  <1>12. CASE ListenFails
        BY <1>12 DEF IInv, ListenFails, Fault
  <1>13. CASE Crash
        BY <1>13 DEF IInv, Crash, Fault, Dies, Interrupted
  <1> QED
      BY <1>1, <1>2, <1>3, <1>4, <1>5, <1>6, <1>7, <1>8, <1>9, <1>10, <1>11, <1>12, <1>13 DEF Next, Run

\* Whatever of a step of Up happens, the record is never ahead of the tables.
LEMMA SchemaStep == IInv /\ [Next]_vars => SchemaInv'
  <1> SUFFICES ASSUME IInv, [Next]_vars PROVE SchemaInv'
      OBVIOUS
  <1> USE ConstantsAssumption DEF TypeOK, SchemaInv, StartupPhases, process, database
  <1>1. CASE UNCHANGED vars
        BY <1>1 DEF IInv, vars
  <1>2. CASE Start \/ Exit
        BY <1>2 DEF IInv, Start, Exit, Dies
  <1>3. CASE LoadConfig \/ Connect \/ RefuseConnection \/ Up \/ RefuseFile \/ Record
                \/ ConnectRedis \/ RefusePing
        BY <1>3 DEF IInv, LoadConfig, Connect, RefuseConnection, Up, RefuseFile, Record,
           ConnectRedis, RefusePing, Goto, Return
  <1>4. CASE CreateTable
        BY <1>4 DEF IInv, CreateTable, Goto
  <1>5. CASE SelectError \/ SelectSignal \/ ShutDown \/ TimeOut \/ CloseRedis \/ CloseMySQL
        BY <1>5 DEF IInv, SelectError, SelectSignal, ShutDown, TimeOut, CloseRedis, CloseMySQL, Goto, Return
  <1>6. CASE Listen \/ Signal \/ ListenFails \/ \E r \in Requests : Request(r)
        BY <1>6 DEF IInv, Listen, Signal, ListenFails, Request, Accept, Write, Invalidate
  <1>7. CASE FailStartup \/ Crash
        BY <1>7 DEF IInv, FailStartup, Crash, Interrupted, Return, Dies
  <1> QED
      BY <1>1, <1>2, <1>3, <1>4, <1>5, <1>6, <1>7 DEF Next, Run

\* A request begins in a process that serves, and none outlives its process.
LEMMA RunningStep == IInv /\ [Next]_vars => RunningInv'
  <1> SUFFICES ASSUME IInv, [Next]_vars PROVE RunningInv'
      OBVIOUS
  <1> USE DEF TypeOK, RunningInv, Running, StartupPhases, process, database
  <1>1. CASE UNCHANGED vars
        BY <1>1 DEF IInv, vars
  <1>2. CASE Start
        BY <1>2 DEF IInv, Start
  <1>3. CASE LoadConfig \/ Connect \/ RefuseConnection \/ Up \/ RefuseFile \/ CreateTable
                \/ Record \/ ConnectRedis \/ RefusePing
        BY <1>3 DEF IInv, LoadConfig, Connect, RefuseConnection, Up, RefuseFile, CreateTable,
           Record, ConnectRedis, RefusePing, Goto, Return
  <1>4. CASE SelectError \/ SelectSignal \/ ShutDown \/ TimeOut \/ CloseRedis \/ CloseMySQL
        BY <1>4 DEF IInv, SelectError, SelectSignal, ShutDown, TimeOut, CloseRedis, CloseMySQL, Goto, Return
  <1>5. CASE Exit \/ Crash
        BY <1>5 DEF IInv, Exit, Crash, Dies
  <1>6. CASE Listen \/ Signal \/ ListenFails
        BY <1>6 DEF IInv, Listen, Signal, ListenFails
  <1>7. CASE \E r \in Requests : Request(r)
        BY <1>7 DEF IInv, SchemaInv, Request, Accept, Write, Invalidate
  <1>8. CASE FailStartup
        BY <1>8 DEF IInv, FailStartup, Return
  <1> QED
      BY <1>1, <1>2, <1>3, <1>4, <1>5, <1>6, <1>7, <1>8 DEF Next, Run

\* Shutdown's nil is the only clean stop, and it comes when nothing runs.
LEMMA CleanStep == IInv /\ [Next]_vars => CleanInv'
  <1> SUFFICES ASSUME IInv, [Next]_vars PROVE CleanInv'
      OBVIOUS
  <1> USE DEF TypeOK, CleanInv, CleanStop, Intact, Clients, StartupPhases, process, database
  <1>1. CASE UNCHANGED vars
        BY <1>1 DEF IInv, vars
  <1>2. CASE Start
        BY <1>2 DEF IInv, Start
  <1>3. CASE LoadConfig \/ Connect \/ RefuseConnection \/ Up \/ RefuseFile \/ CreateTable
                \/ Record \/ RefusePing
        BY <1>3 DEF IInv, LoadConfig, Connect, RefuseConnection, Up, RefuseFile, CreateTable,
           Record, RefusePing, Goto, Return
  <1>4. CASE ConnectRedis
        BY <1>4 DEF IInv, RunningInv, ConnectRedis, Goto
  <1>5. CASE SelectError \/ SelectSignal \/ TimeOut \/ CloseRedis \/ CloseMySQL
        BY <1>5 DEF IInv, SelectError, SelectSignal, TimeOut, CloseRedis, CloseMySQL, Goto, Return
  <1>6. CASE ShutDown
        BY <1>6 DEF IInv, Running, ShutDown, Return
  <1>7. CASE Exit
        BY <1>7 DEF IInv, Running, Exit, Dies
  <1>8. CASE Crash
        BY <1>8 DEF IInv, Crash, Dies
  <1>9. CASE Listen \/ Signal \/ ListenFails
        BY <1>9 DEF IInv, Listen, Signal, ListenFails
  <1>10. CASE \E r \in Requests : Request(r)
        BY <1>10 DEF IInv, Request, Accept, Write, Invalidate
  <1>11. CASE FailStartup
        BY <1>11 DEF IInv, FailStartup, Return
  <1> QED
      BY <1>1, <1>2, <1>3, <1>4, <1>5, <1>6, <1>7, <1>8, <1>9, <1>10, <1>11 DEF Next, Run

\* The inductive invariant of the process and its database.
THEOREM Invariance == Spec => []IInv
  <1>1. IInv /\ [Next]_vars => IInv'
        BY TypeStep, SchemaStep, RunningStep, CleanStep DEF IInv
  <1> QED
      BY InitHolds, <1>1, PTL DEF Spec

\* Every variable keeps its type: no interruption of the migration makes it
\* create a table twice.
THEOREM TypeCorrect == Spec => []TypeOK
  <1>1. IInv => TypeOK
        BY DEF IInv
  <1> QED
      BY Invariance, <1>1, PTL

\* No request runs on a part of the schema (database.Migrate before the server).
THEOREM NothingServedUnmigrated == Spec => []ServesOnlyMigrated
  <1>1. IInv => ServesOnlyMigrated
        BY DEF IInv, RunningInv, SchemaInv, ServesOnlyMigrated
  <1> QED
      BY Invariance, <1>1, PTL

\* A run that reports a graceful stop has cut nothing short (main.go).
THEOREM CleanStopsLoseNothing == Spec => []CleanStop
  <1>1. IInv => CleanStop
        BY DEF IInv, CleanInv, CleanStop
  <1> QED
      BY Invariance, <1>1, PTL

-----------------------------------------------------------------------------
(* The names of the variables.  No two settings have the same one, since    *)
(* the words of a name are those of the section and of the key, and the     *)
(* last of them tells the type of the setting.                              *)

LEMMA Tuples ==
  ASSUME NEW W, NEW a \in W, NEW b \in W, NEW c \in W, NEW d \in W
  PROVE  /\ <<a>> \in Seq(W) /\ <<a, b>> \in Seq(W) /\ <<a, b, c>> \in Seq(W) /\ <<a, b, c, d>> \in Seq(W)
         /\ Len(<<a>>) = 1 /\ Len(<<a, b>>) = 2 /\ Len(<<a, b, c>>) = 3 /\ Len(<<a, b, c, d>>) = 4
  OBVIOUS

LEMMA SameElements ==
  ASSUME NEW W, NEW x \in Seq(W), NEW y \in Seq(W), Len(x) = Len(y), \A n \in 1..Len(x) : x[n] = y[n]
  PROVE  x = y
  OBVIOUS

LEMMA Elements ==
  ASSUME NEW W, NEW x \in Seq(W), NEW y \in Seq(W)
  PROVE  /\ x \o y \in Seq(W)
         /\ Len(x \o y) = Len(x) + Len(y)
         /\ \A n \in 1..Len(x) : (x \o y)[n] = x[n]
         /\ \A n \in 1..Len(y) : (x \o y)[Len(x) + n] = y[n]
  OBVIOUS

\* What has the elements of x and then those of y is their concatenation.
LEMMA IsConcat ==
  ASSUME NEW W, NEW x \in Seq(W), NEW y \in Seq(W), NEW z \in Seq(W),
         Len(z) = Len(x) + Len(y),
         \A n \in 1..Len(x) : z[n] = x[n],
         \A n \in 1..Len(y) : z[Len(x) + n] = y[n]
  PROVE  x \o y = z
  <1> DEFINE s == x \o y
  <1>1. s \in Seq(W) /\ Len(s) = Len(z)
        OBVIOUS
  <1>2. \A n \in 1..Len(x) : s[n] = x[n]
        OBVIOUS
  <1>3. \A n \in 1..Len(y) : s[Len(x) + n] = y[n]
        OBVIOUS
  <1> HIDE DEF s
  <1>4. ASSUME NEW k \in 1..Len(s) PROVE s[k] = z[k]
    <2>1. CASE k \in 1..Len(x)
          BY <1>2, <2>1
    <2>2. CASE k \notin 1..Len(x)
      <3> DEFINE m == k - Len(x)
      <3>1. m \in 1..Len(y) /\ k = Len(x) + m
            BY <1>1, <2>2
      <3> HIDE DEF m
      <3>2. s[Len(x) + m] = y[m]
            BY <1>3, <3>1
      <3>3. z[Len(x) + m] = y[m]
            BY <3>1
      <3> QED
          BY <3>1, <3>2, <3>3
    <2> QED
        BY <2>1, <2>2
  <1>5. s = z
        BY <1>1, <1>4, SameElements
  <1> QED
      BY <1>5 DEF s

LEMMA JoinedThree ==
  ASSUME NEW a, NEW b, NEW c
  PROVE  <<a, b>> \o <<c>> = <<a, b, c>>
  <1> DEFINE x == <<a, b>>
             y == <<c>>
             z == <<a, b, c>>
             W == {a, b, c}
  <1>1. /\ x \in Seq(W) /\ y \in Seq(W) /\ z \in Seq(W)
        /\ Len(x) = 2 /\ Len(y) = 1 /\ Len(z) = 3
    <2>1. a \in W /\ b \in W /\ c \in W
          OBVIOUS
    <2> HIDE DEF W
    <2> QED
        BY <2>1, Tuples
  <1>2. \A n \in 1..2 : z[n] = x[n]
        OBVIOUS
  <1>3. \A n \in 1..1 : z[2 + n] = y[n]
        OBVIOUS
  <1> HIDE DEF x, y, z, W
  <1>4. /\ Len(z) = Len(x) + Len(y)
        /\ \A n \in 1..Len(x) : z[n] = x[n]
        /\ \A n \in 1..Len(y) : z[Len(x) + n] = y[n]
        BY <1>1, <1>2, <1>3
  <1>5. x \o y = z
        BY <1>1, <1>4, IsConcat
  <1> QED
      BY <1>5 DEF x, y, z

LEMMA JoinedFour ==
  ASSUME NEW a, NEW b, NEW c, NEW d
  PROVE  <<a, b>> \o <<c, d>> = <<a, b, c, d>>
  <1> DEFINE x == <<a, b>>
             y == <<c, d>>
             z == <<a, b, c, d>>
             W == {a, b, c, d}
  <1>1. /\ x \in Seq(W) /\ y \in Seq(W) /\ z \in Seq(W)
        /\ Len(x) = 2 /\ Len(y) = 2 /\ Len(z) = 4
    <2>1. a \in W /\ b \in W /\ c \in W /\ d \in W
          OBVIOUS
    <2> HIDE DEF W
    <2> QED
        BY <2>1, Tuples
  <1>2. \A n \in 1..2 : z[n] = x[n]
        OBVIOUS
  <1>3. \A n \in 1..2 : z[2 + n] = y[n]
        OBVIOUS
  <1> HIDE DEF x, y, z, W
  <1>4. /\ Len(z) = Len(x) + Len(y)
        /\ \A n \in 1..Len(x) : z[n] = x[n]
        /\ \A n \in 1..Len(y) : z[Len(x) + n] = y[n]
        BY <1>1, <1>2, <1>3
  <1>5. x \o y = z
        BY <1>1, <1>4, IsConcat
  <1> QED
      BY <1>5 DEF x, y, z

\* The words of the yaml tags.
Words ==
  {"APP", "HTTP", "MYSQL", "REDIS", "AUTH", "RATELIMIT", "EMAIL",
   "ADDR", "CONN", "CONNS", "DB", "DSN", "FAIL", "FAILURE", "IDLE", "JWT", "LIFETIME", "LIST", "MAX",
   "MINUTE", "OPEN", "PASSWORD", "PER", "PORT", "RATE", "READ", "REQUESTS", "SECRET", "SHUTDOWN",
   "TASK", "THRESHOLD", "TIME", "TIMEOUT", "TOKEN", "TTL", "WRITE"}

TypeOfWord(word) ==
  CASE word \in {"TIMEOUT", "LIFETIME", "TIME", "TTL"} -> "duration"
    [] word \in {"DSN", "ADDR", "PASSWORD", "SECRET"} -> "string"
    [] word = "RATE" -> "float"
    [] OTHER -> "int"

\* What all settings have in common.
Shaped(s) ==
  /\ s = [section |-> s.section, key |-> s.key, type |-> s.type]
  /\ s.section \in Seq(Words) /\ Len(s.section) = 1
  /\ s.key \in Seq(Words) /\ Len(s.key) \in 1..4
  /\ s.type = TypeOfWord(s.key[Len(s.key)])

LEMMA ShapedBy ==
  ASSUME NEW section \in Words, NEW key \in Seq(Words), Len(key) \in 1..4, NEW type,
         type = TypeOfWord(key[Len(key)])
  PROVE  Shaped(Setting(<<section>>, key, type))
  <1>1. <<section>> \in Seq(Words) /\ Len(<<section>>) = 1
        BY Tuples
  <1> QED
      BY <1>1 DEF Setting, Shaped

LEMMA SettingsShaped ==
  ASSUME NEW s \in Settings
  PROVE  Shaped(s)
  <1>1. ASSUME NEW section \in Words, NEW a \in Words, NEW type, type = TypeOfWord(a)
        PROVE  Shaped(Setting(<<section>>, <<a>>, type))
    <2> DEFINE key == <<a>>
    <2>1. key \in Seq(Words) /\ Len(key) = 1 /\ key[1] = a
          BY Tuples
    <2> HIDE DEF key
    <2>2. Shaped(Setting(<<section>>, key, type))
      <3>1. Len(key) \in 1..4 /\ type = TypeOfWord(key[Len(key)])
            BY <1>1, <2>1
      <3> QED
          BY <2>1, <3>1, ShapedBy
    <2> QED
        BY <2>2 DEF key
  <1>2. ASSUME NEW section \in Words, NEW a \in Words, NEW b \in Words, NEW type, type = TypeOfWord(b)
        PROVE  Shaped(Setting(<<section>>, <<a, b>>, type))
    <2> DEFINE key == <<a, b>>
    <2>1. key \in Seq(Words) /\ Len(key) = 2 /\ key[2] = b
          BY Tuples
    <2> HIDE DEF key
    <2>2. Shaped(Setting(<<section>>, key, type))
      <3>1. Len(key) \in 1..4 /\ type = TypeOfWord(key[Len(key)])
            BY <1>2, <2>1
      <3> QED
          BY <2>1, <3>1, ShapedBy
    <2> QED
        BY <2>2 DEF key
  <1>3. ASSUME NEW section \in Words, NEW a \in Words, NEW b \in Words, NEW c \in Words,
               NEW type, type = TypeOfWord(c)
        PROVE  Shaped(Setting(<<section>>, <<a, b, c>>, type))
    <2> DEFINE key == <<a, b, c>>
    <2>1. key \in Seq(Words) /\ Len(key) = 3 /\ key[3] = c
          BY Tuples
    <2> HIDE DEF key
    <2>2. Shaped(Setting(<<section>>, key, type))
      <3>1. Len(key) \in 1..4 /\ type = TypeOfWord(key[Len(key)])
            BY <1>3, <2>1
      <3> QED
          BY <2>1, <3>1, ShapedBy
    <2> QED
        BY <2>2 DEF key
  <1>4. ASSUME NEW section \in Words, NEW a \in Words, NEW b \in Words, NEW c \in Words, NEW d \in Words,
               NEW type, type = TypeOfWord(d)
        PROVE  Shaped(Setting(<<section>>, <<a, b, c, d>>, type))
    <2> DEFINE key == <<a, b, c, d>>
    <2>1. key \in Seq(Words) /\ Len(key) = 4 /\ key[4] = d
          BY Tuples
    <2> HIDE DEF key
    <2>2. Shaped(Setting(<<section>>, key, type))
      <3>1. Len(key) \in 1..4 /\ type = TypeOfWord(key[Len(key)])
            BY <1>4, <2>1
      <3> QED
          BY <2>1, <3>1, ShapedBy
    <2> QED
        BY <2>2 DEF key
  <1>5. /\ "APP" \in Words /\ "HTTP" \in Words /\ "MYSQL" \in Words
        /\ "REDIS" \in Words /\ "AUTH" \in Words /\ "RATELIMIT" \in Words
        /\ "EMAIL" \in Words /\ "ADDR" \in Words /\ "CONN" \in Words
        /\ "CONNS" \in Words /\ "DB" \in Words /\ "DSN" \in Words /\ "FAIL" \in Words
        /\ "FAILURE" \in Words /\ "IDLE" \in Words /\ "JWT" \in Words
        /\ "LIFETIME" \in Words /\ "LIST" \in Words /\ "MAX" \in Words
        /\ "MINUTE" \in Words /\ "OPEN" \in Words /\ "PASSWORD" \in Words
        /\ "PER" \in Words /\ "PORT" \in Words /\ "RATE" \in Words /\ "READ" \in Words
        /\ "REQUESTS" \in Words /\ "SECRET" \in Words /\ "SHUTDOWN" \in Words
        /\ "TASK" \in Words /\ "THRESHOLD" \in Words /\ "TIME" \in Words
        /\ "TIMEOUT" \in Words /\ "TOKEN" \in Words /\ "TTL" \in Words
        /\ "WRITE" \in Words
        BY DEF Words
  <1>6. /\ TypeOfWord("TIMEOUT") = "duration"
        /\ TypeOfWord("LIFETIME") = "duration"
        /\ TypeOfWord("TIME") = "duration"
        /\ TypeOfWord("TTL") = "duration"
        /\ TypeOfWord("DSN") = "string"
        /\ TypeOfWord("ADDR") = "string"
        /\ TypeOfWord("PASSWORD") = "string"
        /\ TypeOfWord("SECRET") = "string"
        /\ TypeOfWord("PORT") = "int"
        /\ TypeOfWord("CONNS") = "int"
        /\ TypeOfWord("DB") = "int"
        /\ TypeOfWord("MINUTE") = "int"
        /\ TypeOfWord("THRESHOLD") = "int"
        /\ TypeOfWord("RATE") = "float"
        BY DEF TypeOfWord
  <1>7. Shaped(DSN) /\ Shaped(Addr) /\ Shaped(Port)
    <2>1. /\ Shaped(Setting(<<"MYSQL">>, <<"DSN">>, "string"))
          /\ Shaped(Setting(<<"REDIS">>, <<"ADDR">>, "string"))
          /\ Shaped(Setting(<<"HTTP">>, <<"PORT">>, "int"))
          BY <1>1, <1>5, <1>6
    <2> QED
        BY <2>1 DEF DSN, Addr, Port
  <1>8. \A k \in {"READ", "WRITE", "SHUTDOWN"} : Shaped(Setting(<<"HTTP">>, <<k, "TIMEOUT">>, "duration"))
        BY <1>2, <1>5, <1>6
  <1>9. \A k \in {"OPEN", "IDLE"} : Shaped(Setting(<<"MYSQL">>, <<"MAX", k, "CONNS">>, "int"))
        BY <1>3, <1>5, <1>6
  <1>10. \A k \in {<<"LIFETIME">>, <<"IDLE", "TIME">>} :
           Shaped(Setting(<<"MYSQL">>, <<"CONN", "MAX">> \o k, "duration"))
    <2>1. /\ <<"CONN", "MAX">> \o <<"LIFETIME">> = <<"CONN", "MAX", "LIFETIME">>
          /\ <<"CONN", "MAX">> \o <<"IDLE", "TIME">> = <<"CONN", "MAX", "IDLE", "TIME">>
      <3>1. <<"CONN", "MAX">> \o <<"LIFETIME">> = <<"CONN", "MAX", "LIFETIME">>
            BY JoinedThree, Zenon
      <3>2. <<"CONN", "MAX">> \o <<"IDLE", "TIME">> = <<"CONN", "MAX", "IDLE", "TIME">>
            BY JoinedFour, Zenon
      <3> QED
          BY <3>1, <3>2
    <2>2. Shaped(Setting(<<"MYSQL">>, <<"CONN", "MAX", "LIFETIME">>, "duration"))
          BY <1>3, <1>5, <1>6
    <2>3. Shaped(Setting(<<"MYSQL">>, <<"CONN", "MAX", "IDLE", "TIME">>, "duration"))
          BY <1>4, <1>5, <1>6
    <2> QED
        BY <2>1, <2>2, <2>3
  <1>11. /\ Shaped(Setting(<<"REDIS">>, <<"PASSWORD">>, "string"))
         /\ Shaped(Setting(<<"REDIS">>, <<"DB">>, "int"))
         BY <1>1, <1>5, <1>6
  <1>12. /\ Shaped(Setting(<<"AUTH">>, <<"JWT", "SECRET">>, "string"))
         /\ Shaped(Setting(<<"AUTH">>, <<"TOKEN", "TTL">>, "duration"))
         /\ Shaped(Setting(<<"EMAIL">>, <<"FAILURE", "THRESHOLD">>, "int"))
         /\ Shaped(Setting(<<"EMAIL">>, <<"OPEN", "TIMEOUT">>, "duration"))
         /\ Shaped(Setting(<<"EMAIL">>, <<"FAIL", "RATE">>, "float"))
         BY <1>2, <1>5, <1>6
  <1>13. /\ Shaped(Setting(<<"REDIS">>, <<"TASK", "LIST", "TTL">>, "duration"))
         /\ Shaped(Setting(<<"RATELIMIT">>, <<"REQUESTS", "PER", "MINUTE">>, "int"))
         BY <1>3, <1>5, <1>6
  <1> QED
      BY <1>7, <1>8, <1>9, <1>10, <1>11, <1>12, <1>13 DEF Settings

LEMMA ThreeParts ==
  ASSUME NEW W, NEW x \in Seq(W), NEW y \in Seq(W), NEW z \in Seq(W)
  PROVE  /\ Len((x \o y) \o z) = (Len(x) + Len(y)) + Len(z)
         /\ \A n \in 1..Len(y) : ((x \o y) \o z)[Len(x) + n] = y[n]
         /\ \A n \in 1..Len(z) : ((x \o y) \o z)[(Len(x) + Len(y)) + n] = z[n]
  <1> DEFINE head == x \o y
             name == head \o z
  <1>1. /\ head \in Seq(W) /\ Len(head) = Len(x) + Len(y)
        /\ \A n \in 1..Len(y) : head[Len(x) + n] = y[n]
        BY Elements
  <1> HIDE DEF head
  <1>2. head \in Seq(W)
        BY <1>1
  <1>3. /\ Len(name) = Len(head) + Len(z)
        /\ \A n \in 1..Len(head) : name[n] = head[n]
        /\ \A n \in 1..Len(z) : name[Len(head) + n] = z[n]
        BY <1>2, Elements
  <1>4. Len(x) \in Nat /\ Len(y) \in Nat
        OBVIOUS
  <1> HIDE DEF name
  <1>5. ASSUME NEW n \in 1..Len(y) PROVE name[Len(x) + n] = y[n]
    <2>1. Len(x) + n \in 1..Len(head)
          BY <1>1, <1>4
    <2> QED
        BY <1>1, <1>3, <2>1
  <1> QED
      BY <1>1, <1>3, <1>5 DEF name, head

LEMMA NameWords ==
  ASSUME NEW W, NEW x \in Seq(W), NEW y \in Seq(W), NEW z \in Seq(W)
  PROVE  Len(x) = 1 /\ Len(y) = 1 =>
           /\ Len((x \o y) \o z) = 2 + Len(z)
           /\ ((x \o y) \o z)[2] = y[1]
           /\ \A n \in 1..Len(z) : ((x \o y) \o z)[2 + n] = z[n]
  <1> DEFINE name == (x \o y) \o z
  <1>1. /\ Len(name) = (Len(x) + Len(y)) + Len(z)
        /\ \A n \in 1..Len(y) : name[Len(x) + n] = y[n]
        /\ \A n \in 1..Len(z) : name[(Len(x) + Len(y)) + n] = z[n]
        BY ThreeParts
  <1> HIDE DEF name
  <1>2. ASSUME Len(x) = 1, Len(y) = 1
        PROVE  /\ Len(name) = 2 + Len(z) /\ name[1 + 1] = y[1]
               /\ \A n \in 1..Len(z) : name[2 + n] = z[n]
        BY <1>1, <1>2
  <1> QED
      BY <1>2 DEF name

\* The words of the variable of a setting.
LEMMA EnvNameWords ==
  ASSUME NEW s \in Settings
  PROVE  /\ Len(EnvName(s)) = 2 + Len(s.key)
         /\ EnvName(s)[2] = s.section[1]
         /\ \A n \in 1..Len(s.key) : EnvName(s)[2 + n] = s.key[n]
  <1> DEFINE app == <<"APP">>
             sec == s.section
             key == s.key
  <1>1. sec \in Seq(Words) /\ key \in Seq(Words)
        BY SettingsShaped DEF Shaped
  <1>2. Len(sec) = 1
        BY SettingsShaped DEF Shaped
  <1>3. app \in Seq(Words) /\ Len(app) = 1
    <2>1. "APP" \in Words
          BY DEF Words
    <2> QED
        BY <2>1, Tuples
  <1>4. app \in Seq(Words)
        BY <1>3
  <1>5. EnvName(s) = (app \o sec) \o key
        BY DEF EnvName
  <1> DEFINE name == (app \o sec) \o key
  <1> HIDE DEF app, sec, key
  <1>6. Len(app) = 1 /\ Len(sec) = 1 =>
          /\ Len(name) = 2 + Len(key) /\ name[2] = sec[1]
          /\ \A n \in 1..Len(key) : name[2 + n] = key[n]
        BY <1>1, <1>4, NameWords
  <1>7. EnvName(s) = name
        BY <1>5
  <1> HIDE DEF name
  <1> QED
      BY <1>2, <1>3, <1>6, <1>7 DEF sec, key

LEMMA NamesDiffer ==
  ASSUME NEW s \in Settings, NEW t \in Settings, EnvName(s) = EnvName(t)
  PROVE  s = t
  <1>1. Shaped(s) /\ Shaped(t)
        BY SettingsShaped
  <1>2. /\ s.section \in Seq(Words) /\ t.section \in Seq(Words)
        /\ Len(s.section) = 1 /\ Len(t.section) = 1
        /\ s.key \in Seq(Words) /\ t.key \in Seq(Words)
        /\ Len(s.key) \in Nat /\ Len(t.key) \in Nat
        BY <1>1 DEF Shaped
  <1>3. Len(s.key) = Len(t.key) /\ s.section[1] = t.section[1]
        BY <1>2, EnvNameWords
  <1>4. \A n \in 1..Len(s.section) : s.section[n] = t.section[n]
        BY <1>2, <1>3
  <1>5. s.section = t.section
        BY <1>2, <1>4, SameElements
  <1>6. \A n \in 1..Len(s.key) : s.key[n] = t.key[n]
    <2>1. SUFFICES ASSUME NEW n \in 1..Len(s.key) PROVE s.key[n] = t.key[n]
          OBVIOUS
    <2>2. EnvName(s)[2 + n] = s.key[n]
          BY EnvNameWords, Zenon
    <2>3. n \in 1..Len(t.key)
          BY <1>3, Zenon
    <2>4. EnvName(t)[2 + n] = t.key[n]
          BY <2>3, EnvNameWords, Zenon
    <2> QED
        BY <2>2, <2>4, Zenon
  <1>7. s.key = t.key
        BY <1>2, <1>3, <1>6, SameElements
  <1>8. s.type = t.type
        BY <1>1, <1>7 DEF Shaped
  <1> QED
      BY <1>1, <1>5, <1>7, <1>8 DEF Shaped

-----------------------------------------------------------------------------
(* What a run is configured with.                                          *)

\* The deployment says what it means in variables named as applyEnvOverrides
\* names them; its other variables are for other programs.
NamedByTheRule(d) ==
  /\ DOMAIN d.means \subseteq Settings
  /\ \A s \in DOMAIN d.means : EnvName(s) \in DOMAIN d.env /\ d.env[EnvName(s)] = d.means[s]
  /\ \A name \in DOMAIN d.env : \/ name \in {EnvName(s) : s \in DOMAIN d.means}
                                \/ name \notin {EnvName(s) : s \in Settings}

\* The deployment names its variables as README.md and docker-compose.yml do,
\* with a doubled underscore, hence an empty word, after the section.
NamedByTheDocs(d) ==
  DOMAIN d.env \subseteq {<<"APP">> \o s.section \o <<"">> \o s.key : s \in Settings}

\* A run that goes on from Load has a configuration.
LoadedInv ==
  /\ place \in Deployments
  /\ phase \notin {"down", "load", "close"} => ~LoadFails(place.env)

LEMMA LoadedStep == LoadedInv /\ [Next]_vars => LoadedInv'
  <1> SUFFICES ASSUME LoadedInv, [Next]_vars PROVE LoadedInv'
      OBVIOUS
  <1>1. ASSUME UNCHANGED place, phase' \in {"down", "load", "close"} \/ phase \notin {"down", "load", "close"}
        PROVE  LoadedInv'
        BY <1>1 DEF LoadedInv
  <1>2. CASE UNCHANGED vars
        BY <1>1, <1>2 DEF vars, process, LoadedInv
  <1>3. CASE Start
        BY <1>3 DEF Start, LoadedInv
  <1>4. CASE LoadConfig
    <2>1. UNCHANGED place /\ (phase' = "close" \/ ~LoadFails(place.env))
          BY <1>4 DEF LoadConfig, Return, process
    <2> QED
        BY <2>1 DEF LoadedInv
  <1>5. CASE Connect \/ RefuseConnection \/ Up \/ CreateTable \/ RefuseFile \/ Record \/ ConnectRedis \/ RefusePing
        BY <1>1, <1>5 DEF Connect, RefuseConnection, Up, CreateTable, RefuseFile, Record,
           ConnectRedis, RefusePing, process
  <1>6. CASE SelectError \/ SelectSignal \/ ShutDown \/ TimeOut
        BY <1>1, <1>6 DEF SelectError, SelectSignal, ShutDown, TimeOut, process
  <1>7. CASE CloseRedis \/ CloseMySQL \/ Exit
        BY <1>1, <1>7 DEF CloseRedis, CloseMySQL, Exit, Dies, process
  <1>8. CASE Listen \/ Signal \/ ListenFails
        BY <1>1, <1>8 DEF Listen, Signal, ListenFails
  <1>9. CASE \E r \in Requests : Request(r)
    <2>1. PICK r \in Requests : Request(r)
          BY <1>9
    <2>2. phase' = phase /\ place' = place
          BY <2>1 DEF Request, Accept, Write, Invalidate, process
    <2> QED
        BY <2>2 DEF LoadedInv
  <1>10. CASE FailStartup \/ Crash
         BY <1>1, <1>10 DEF FailStartup, Crash, Return, Dies
  <1> QED
      BY <1>2, <1>3, <1>4, <1>5, <1>6, <1>7, <1>8, <1>9, <1>10 DEF Next, Run

LEMMA Loaded == Spec => []LoadedInv
  <1>1. Init => LoadedInv
        BY DEF Init, LoadedInv
  <1> QED
      BY <1>1, LoadedStep, PTL DEF Spec

\* A process that goes on to connect runs with what its deployment means, and
\* with the file for the rest, if its variables are named by the rule of the
\* code (config.Load, applyEnvOverrides): no variable is taken for another's.
THEOREM RunsAreAsMeant ==
  (\A d \in Deployments : NamedByTheRule(d)) => (Spec => []RunsAsMeant)
  <1> SUFFICES ASSUME \A d \in Deployments : NamedByTheRule(d)
               PROVE  Spec => []RunsAsMeant
      OBVIOUS
  <1>1. ASSUME LoadedInv PROVE RunsAsMeant
    <2> SUFFICES ASSUME phase \notin {"down", "load", "close"}, NEW s \in Settings
                 PROVE  IF s \in DOMAIN place.means
                        THEN cfg[s] = place.means[s] /\ (s.type # "string" => s.type \in cfg[s].as)
                        ELSE cfg[s] = IF s \in DOMAIN File THEN File[s] ELSE Zero
        BY DEF RunsAsMeant
    <2>1. NamedByTheRule(place) /\ ~LoadFails(place.env)
          BY <1>1 DEF LoadedInv
    <2>2. cfg[s] = IF Overridden(s, place.env) THEN place.env[EnvName(s)]
                   ELSE IF s \in DOMAIN File THEN File[s]
                   ELSE Zero
          BY DEF cfg, Load
    <2>3. CASE s \in DOMAIN place.means
      <3>1. Overridden(s, place.env) /\ place.env[EnvName(s)] = place.means[s]
            BY <2>1, <2>3 DEF NamedByTheRule, Overridden
      <3>2. Accepts(s, place.env[EnvName(s)])
            BY <2>1, <3>1 DEF LoadFails
      <3> QED
          BY <2>2, <2>3, <3>1, <3>2 DEF Accepts
    <2>4. CASE s \notin DOMAIN place.means
      <3>1. \A t \in DOMAIN place.means : EnvName(t) # EnvName(s)
            BY <2>1, <2>4, NamesDiffer DEF NamedByTheRule
      <3>2. ~Overridden(s, place.env)
            BY <2>1, <3>1 DEF NamedByTheRule, Overridden
      <3> QED
          BY <2>2, <2>4, <3>2
    <2> QED
        BY <2>3, <2>4
  <1> QED
      BY <1>1, Loaded, PTL

\* No name of the docs is one of the code.
LEMMA DocsNamesDiffer ==
  ASSUME NEW s \in Settings, NEW t \in Settings
  PROVE  EnvName(s) # <<"APP">> \o t.section \o <<"">> \o t.key
  <1> DEFINE none == ""
             W   == Words \cup {none}
             app == <<"APP">>
             sec == t.section
             gap == <<none>>
             key == t.key
             doc == ((app \o sec) \o gap) \o key
  <1>1. s.key \in Seq(Words) /\ Len(s.key) \in 1..4 /\ Shaped(t)
        BY SettingsShaped DEF Shaped
  <1>2. EnvName(s)[2 + 1] = s.key[1] /\ s.key[1] \in Words
        BY <1>1, EnvNameWords
  <1>3. none \notin Words /\ "APP" \in Words
        BY DEF Words
  <1> HIDE DEF none
  <1>4. app \in Seq(W) /\ Len(app) = 1 /\ gap \in Seq(W)
        BY <1>3, Tuples
  <1>5. sec \in Seq(W) /\ key \in Seq(W) /\ Len(sec) = 1
    <2>1. sec \in Seq(Words) /\ key \in Seq(Words) /\ Len(sec) = 1
          BY <1>1 DEF Shaped
    <2>2. Words \subseteq W
          OBVIOUS
    <2> HIDE DEF W, sec, key
    <2> QED
        BY <2>1, <2>2
  <1> HIDE DEF W, app, sec, gap, key
  <1> DEFINE three == (app \o sec) \o gap
  <1>6. three \in Seq(W)
    <2>1. app \o sec \in Seq(W)
          BY <1>4, <1>5, Elements
    <2> QED
        BY <1>4, <2>1, Elements
  <1>7. Len(three) = 2 + Len(gap)
        BY <1>4, <1>5, NameWords
  <1>8. \A n \in 1..Len(gap) : three[2 + n] = gap[n]
        BY <1>4, <1>5, NameWords, SMTT(60)
  <1> HIDE DEF three
  <1>9. three[2 + 1] = none /\ Len(three) = 3
    <2>1. gap[1] = none /\ Len(gap) = 1
          BY DEF gap
    <2>2. 1 \in 1..Len(gap)
          BY <1>4, <2>1
    <2>3. three[2 + 1] = gap[1]
          BY <1>8, <2>2
    <2> QED
        BY <1>4, <1>6, <1>7, <2>1, <2>3
  <1>10. doc[3] = none
    <2> DEFINE name == three \o key
    <2>1. \A n \in 1..Len(three) : name[n] = three[n]
          BY <1>5, <1>6, Elements
    <2> HIDE DEF name
    <2>2. 3 \in 1..Len(three) /\ 2 + 1 = 3
          BY <1>6, <1>9
    <2>3. name[3] = three[3]
          BY <2>1, <2>2
    <2>4. name[3] = none
          BY <1>9, <2>2, <2>3
    <2> QED
        BY <2>4 DEF name, three
  <1> HIDE DEF doc
  <1>11. EnvName(s)[3] # none
    <2> DEFINE name == EnvName(s)
    <2>1. name[2 + 1] = s.key[1]
          BY <1>2
    <2> HIDE DEF name
    <2>2. name[3] = s.key[1]
          BY <2>1
    <2>3. EnvName(s)[3] = s.key[1]
          BY <2>2 DEF name
    <2> QED
        BY <1>2, <1>3, <2>3
  <1>12. EnvName(s) # doc
         BY <1>10, <1>11
  <1> QED
      BY <1>12 DEF doc, app, sec, gap, key, none

\* The process looks for MySQL where the file says, and gets no further if it
\* cannot reach it there.
NotConnected == phase \notin {"migrate", "create", "record", "redis", "serve", "drain"}

\* A deployment whose variables are named as README.md and docker-compose.yml
\* name them sets nothing by them; where it does not reach the MySQL of
\* config.yaml, it never serves (config.Load, database.New).
THEOREM DocumentedNamesNeverServe ==
  (\A d \in Deployments : /\ NamedByTheDocs(d)
                          /\ (IF DSN \in DOMAIN File THEN File[DSN] ELSE Zero).host \notin d.reach)
    => (Spec => [](phase # "serve"))
  <1> SUFFICES ASSUME \A d \in Deployments :
                        /\ NamedByTheDocs(d)
                        /\ (IF DSN \in DOMAIN File THEN File[DSN] ELSE Zero).host \notin d.reach
               PROVE  Spec => [](phase # "serve")
      OBVIOUS
  <1>1. ASSUME LoadedInv PROVE cfg[DSN].host \notin place.reach
    <2>1. DSN \in Settings
          BY DEF Settings
    <2>2. NamedByTheDocs(place) /\ (IF DSN \in DOMAIN File THEN File[DSN] ELSE Zero).host \notin place.reach
          BY <1>1 DEF LoadedInv
    <2>3. ~Overridden(DSN, place.env)
          BY <2>1, <2>2, DocsNamesDiffer DEF NamedByTheDocs, Overridden
    <2>4. cfg[DSN] = IF DSN \in DOMAIN File THEN File[DSN] ELSE Zero
          BY <2>1, <2>3 DEF cfg, Load
    <2> QED
        BY <2>2, <2>4
  <1>2. LoadedInv /\ NotConnected /\ [Next]_vars => NotConnected'
    <2> SUFFICES ASSUME LoadedInv, NotConnected, [Next]_vars PROVE NotConnected'
        OBVIOUS
    <2>1. CASE UNCHANGED vars
          BY <2>1 DEF vars, NotConnected
    <2>2. CASE Start \/ LoadConfig \/ RefuseConnection
          BY <2>2 DEF Start, LoadConfig, RefuseConnection, Goto, Return, NotConnected
    <2>3. CASE Connect
          BY <1>1, <2>3 DEF Connect
    <2>4. CASE Up \/ CreateTable \/ RefuseFile \/ Record \/ ConnectRedis \/ RefusePing
          BY <2>4 DEF Up, CreateTable, RefuseFile, Record, ConnectRedis, RefusePing, NotConnected
    <2>5. CASE SelectError \/ SelectSignal \/ ShutDown \/ TimeOut \/ CloseRedis \/ CloseMySQL \/ Exit
          BY <2>5 DEF SelectError, SelectSignal, ShutDown, TimeOut, CloseRedis, CloseMySQL, Exit,
             Dies, NotConnected
    <2>6. CASE Listen \/ Signal \/ ListenFails \/ \E r \in Requests : Request(r)
          BY <2>6 DEF Listen, Signal, ListenFails, Request, Accept, Write, Invalidate, NotConnected
    <2>7. CASE FailStartup \/ Crash
          BY <2>7 DEF FailStartup, Crash, Return, Dies, NotConnected
    <2> QED
        BY <2>1, <2>2, <2>3, <2>4, <2>5, <2>6, <2>7 DEF Next, Run
  <1>3. Init => NotConnected
        BY DEF Init, NotConnected
  <1>4. NotConnected => phase # "serve"
        BY DEF NotConnected
  <1> QED
      BY <1>2, <1>3, <1>4, Loaded, PTL DEF Spec
-----------------------------------------------------------------------------
(* What a migration that was cut short leaves for the starts after it.     *)

\* The record says dirty, and no run is inside the file of the migration.
Stuck == schema = "dirty" /\ phase \notin {"create", "record"}

LEMMA StuckStep == Stuck /\ [Next]_vars => Stuck'
  <1> SUFFICES ASSUME Stuck, [Next]_vars PROVE Stuck'
      OBVIOUS
  <1> USE DEF Stuck, database
  <1>1. CASE UNCHANGED vars
        BY <1>1 DEF vars
  <1>2. CASE Start \/ LoadConfig \/ Connect \/ RefuseConnection
        BY <1>2 DEF Start, LoadConfig, Connect, RefuseConnection, Goto, Return
  <1>3. CASE Up \/ CreateTable \/ RefuseFile \/ Record \/ ConnectRedis \/ RefusePing
        BY <1>3 DEF Up, CreateTable, RefuseFile, Record, ConnectRedis, RefusePing, Goto, Return
  <1>4. CASE SelectError \/ SelectSignal \/ ShutDown \/ TimeOut \/ CloseRedis \/ CloseMySQL \/ Exit
        BY <1>4 DEF SelectError, SelectSignal, ShutDown, TimeOut, CloseRedis, CloseMySQL, Exit,
           Dies, Goto, Return
  <1>5. CASE Listen \/ Signal \/ ListenFails \/ \E r \in Requests : Request(r)
        BY <1>5 DEF Listen, Signal, ListenFails, Request, Accept, Write, Invalidate
  <1>6. CASE FailStartup \/ Crash
        BY <1>6 DEF FailStartup, Crash, Interrupted, Return, Dies
  <1> QED
      BY <1>1, <1>2, <1>3, <1>4, <1>5, <1>6 DEF Next, Run

\* Once a migration has failed or died inside its file, no later start repairs
\* it, however the process is deployed from then on: the schema is dirty and
\* nothing is served for ever (database.Migrate, ErrDirty).
THEOREM DirtyIsForGood == Spec => [](Stuck => [](schema = "dirty" /\ phase # "serve"))
  <1>1. IInv /\ Stuck => schema = "dirty" /\ phase # "serve"
        BY DEF IInv, SchemaInv, Stuck
  <1> QED
      BY <1>1, StuckStep, Invariance, PTL DEF Spec

\* No table, and nobody beyond the Exec that would make them.
NeverMigrated ==
  /\ schema # "clean"
  /\ tables = 0
  /\ phase \notin {"record", "redis", "serve", "drain"}

\* A deployment whose DSN has no multiStatements=true, such as that of
\* config.yaml, never has its schema migrated and never serves, from an empty
\* database on (database.Migrate).
THEOREM SingleStatementsNeverServe ==
  (\A d \in Deployments : ~Load(File, d.env)[DSN].multi)
    => (Spec => [](schema # "clean" /\ tables = 0 /\ phase # "serve"))
  <1> SUFFICES ASSUME \A d \in Deployments : ~Load(File, d.env)[DSN].multi
               PROVE  Spec => [](schema # "clean" /\ tables = 0 /\ phase # "serve")
      OBVIOUS
  <1>1. LoadedInv => ~cfg[DSN].multi
        BY DEF LoadedInv, cfg
  <1>2. LoadedInv /\ NeverMigrated /\ [Next]_vars => NeverMigrated'
    <2> SUFFICES ASSUME LoadedInv, NeverMigrated, [Next]_vars PROVE NeverMigrated'
        OBVIOUS
    <2> USE DEF NeverMigrated, database
    <2>1. CASE UNCHANGED vars
          BY <2>1 DEF vars
    <2>2. CASE Start \/ LoadConfig \/ Connect \/ RefuseConnection
          BY <2>2 DEF Start, LoadConfig, Connect, RefuseConnection, Goto, Return
    <2>3. CASE Up \/ RefuseFile \/ Record \/ ConnectRedis \/ RefusePing
          BY <2>3 DEF Up, RefuseFile, Record, ConnectRedis, RefusePing, Goto, Return
    <2>4. CASE CreateTable
          BY <1>1, <2>4 DEF CreateTable
    <2>5. CASE SelectError \/ SelectSignal \/ ShutDown \/ TimeOut \/ CloseRedis \/ CloseMySQL \/ Exit
          BY <2>5 DEF SelectError, SelectSignal, ShutDown, TimeOut, CloseRedis, CloseMySQL, Exit,
             Dies, Return
    <2>6. CASE Listen \/ Signal \/ ListenFails \/ \E r \in Requests : Request(r)
          BY <2>6 DEF Listen, Signal, ListenFails, Request, Accept, Write, Invalidate
    <2>7. CASE FailStartup \/ Crash
      <3>1. phase' \in {"close", "down"} /\ Interrupted
            BY <2>7 DEF FailStartup, Crash, Return, Dies
      <3>2. schema' # "clean" /\ tables' = tables
            BY <1>1, <3>1 DEF Interrupted
      <3> QED
          BY <3>1, <3>2
    <2> QED
        BY <2>1, <2>2, <2>3, <2>4, <2>5, <2>6, <2>7 DEF Next, Run
  <1>3. Init => NeverMigrated
        BY DEF Init, NeverMigrated
  <1>4. NeverMigrated => schema # "clean" /\ tables = 0 /\ phase # "serve"
        BY DEF NeverMigrated
  <1> QED
      BY <1>2, <1>3, <1>4, Loaded, PTL DEF Spec
=============================================================================
