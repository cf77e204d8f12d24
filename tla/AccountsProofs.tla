---------------------------- MODULE AccountsProofs ----------------------------
(***************************************************************************)
(* The safety of Accounts, for any emails, passwords, requests and ids,    *)
(* and that its table implements the book of accounts.                     *)
(***************************************************************************)
EXTENDS Accounts, TLAPS

Taken(i) == users[i] # NoUser

\* What is stored is in its normal form, and the unique key holds.
TableInv ==
  /\ \A i \in Ids : Taken(i) => Normal[users[i].email] = users[i].email
  /\ \A i, j \in Ids : Taken(i) /\ Taken(j) /\ Key[users[i].email] = Key[users[j].email] => i = j

\* A registration that has inserted finds its row, as long as it lives.
Has(r) == \E i \in Ids : users[i] = NewRow(r)

RegisterInv ==
  \A r \in Requests :
    /\ pc[r] \in {"created", "201"} => Has(r)
    /\ pc[r] = "409" => ByEmail(Address(r)) # {}

\* A login holds a row of its address, and a token only for its password.
Opened(r) ==
  /\ req[r].kind = "login"
  /\ found[r] \in Ids /\ Taken(found[r])
  /\ Key[Address(r)] = Key[users[found[r]].email]

LoginInv ==
  \A r \in Requests :
    /\ pc[r] = "compare" => Opened(r)
    /\ pc[r] \in {"idle", "login", "compare"} => issued[r] = Never
    /\ pc[r] = "call" => issued[r] = Never
    /\ issued[r] # Never => /\ Opened(r) /\ pc[r] = "200"
                            /\ Matches(req[r].password, users[found[r]].password)

\* A protected request that got past Auth has the uid of its token's login.
Carries(r) ==
  /\ req[r].token \in Requests
  /\ issued[req[r].token] # Never
  /\ found[r] = found[req[r].token]

KindInv ==
  \A r \in Requests :
    /\ pc[r] \in {"register", "insert", "created", "201", "409"} => req[r].kind = "register"
    /\ pc[r] \in {"login", "compare"} => req[r].kind = "login"
    /\ pc[r] \in {"call", "limit", "handle"} => req[r].kind = "call"

CallInv ==
  \A r \in Requests :
    req[r].kind = "call" /\ pc[r] \in {"limit", "handle", "429", "200", "other", "500"} => Carries(r)

FaultInv ==
  \A r \in Requests : pc[r] = "500" /\ req[r].kind # "call" =>
    \/ r \in faulted
    \/ /\ req[r].kind = "register"
       /\ Bytes[req[r].password] > MaxBytes \/ Oversized(r)

IInv == TypeOK /\ TableInv /\ RegisterInv /\ LoginInv /\ KindInv /\ CallInv /\ FaultInv

-----------------------------------------------------------------------------
LEMMA SomeInputTyped == SomeInput \in Inputs /\ SomeInput.kind = "register"
  BY ConstantsAssumption DEF SomeInput

LEMMA InitHolds == Init => IInv
  <1> SUFFICES ASSUME Init PROVE IInv
      OBVIOUS
  <1> USE ConstantsAssumption DEF Init
  <1>1. TypeOK
        BY SomeInputTyped DEF TypeOK
  <1>2. TableInv
        BY DEF TableInv, Taken
  <1>3. RegisterInv /\ LoginInv /\ KindInv /\ CallInv /\ FaultInv
        BY DEF RegisterInv, LoginInv, KindInv, CallInv, FaultInv
  <1> QED
      BY <1>1, <1>2, <1>3 DEF IInv

\* An input is what its kind says.
LEMMA InputShape ==
  ASSUME NEW in \in Inputs
  PROVE  /\ in.kind \in {"register", "login", "call"}
         /\ in.kind \in {"register", "login"} => in.email \in Raw /\ in.password \in Passwords
         /\ in.kind = "register" => in.name \in Names
         /\ in.kind = "call" => in.token \in Requests \cup {NoToken}
  BY ConstantsAssumption DEF Input

LEMMA AddressNormal ==
  ASSUME TypeOK, NEW r \in Requests, req[r].kind \in {"register", "login"}
  PROVE  /\ Address(r) \in Raw /\ Normal[Address(r)] = Address(r)
         /\ req[r].password \in Passwords
  <1>1. req[r].email \in Raw /\ req[r].password \in Passwords
        BY InputShape DEF TypeOK
  <1> QED
      BY <1>1, ConstantsAssumption DEF Address

\* What a registration stores: its address, its name and its password.
LEMMA NewRowTyped ==
  ASSUME TypeOK, NEW r \in Requests, req[r].kind = "register"
  PROVE  /\ NewRow(r) \in Row
         /\ NewRow(r).email = Address(r) /\ NewRow(r).name = Name(r)
         /\ NewRow(r).password = req[r].password
         /\ NewRow(r) # NoUser
  <1>1. Name(r) \in Names
        BY InputShape, ConstantsAssumption DEF TypeOK, Name
  <1>2. NewRow(r) \in Row
        BY <1>1, AddressNormal DEF NewRow, Row
  <1> QED
      BY <1>2, ConstantsAssumption DEF NewRow

LEMMA TypeStep == IInv /\ [Next]_vars => TypeOK'
  <1> SUFFICES ASSUME IInv, [Next]_vars PROVE TypeOK'
      OBVIOUS
  <1> USE ConstantsAssumption DEF TypeOK, InFlight, Done, Goto
  <1>1. CASE UNCHANGED vars
        BY <1>1 DEF IInv, vars
  <1>2. ASSUME NEW r \in Requests, NEW in \in Inputs, Send(r, in) PROVE TypeOK'
        BY <1>2, InputShape DEF IInv, Send
  <1>3. ASSUME NEW r \in Requests, Register(r) \/ Created(r) \/ Limit(r) \/ Handle(r) PROVE TypeOK'
        BY <1>3 DEF IInv, Register, Created, Limit, Handle
  <1>4. ASSUME NEW r \in Requests, Insert(r) PROVE TypeOK'
    <2>1. NewRow(r) \in Row
          BY <1>4, NewRowTyped DEF IInv, KindInv, Insert
    <2>2. users' \in [Ids -> Row \cup {NoUser}]
          BY <1>4, <2>1 DEF IInv, Insert, Inserts
    <2>3. pc' \in [Requests -> InFlight \cup Done \cup {"idle"}]
          BY <1>4 DEF IInv, Insert, Inserts
    <2> QED
        BY <1>4, <2>2, <2>3 DEF IInv, Insert
  <1>5. ASSUME NEW r \in Requests, Lookup(r) PROVE TypeOK'
        BY <1>5 DEF IInv, Lookup, ByEmail
  <1>6. ASSUME NEW r \in Requests, Compare(r) PROVE TypeOK'
        BY <1>6 DEF IInv, Compare
  <1>7. ASSUME NEW r \in Requests, Auth(r) PROVE TypeOK'
    <2>1. req[r].token \in Requests \cup {NoToken}
          BY <1>7, InputShape DEF IInv, KindInv, Auth
    <2> QED
        BY <1>7, <2>1 DEF IInv, Auth, Parses
  <1>8. ASSUME NEW r \in Requests, Fail(r) PROVE TypeOK'
        BY <1>8 DEF IInv, Fail
  <1>9. CASE Tick
        BY <1>9 DEF IInv, Tick
  <1>10. CASE Crash
        BY <1>10 DEF IInv, Crash
  <1> QED
      BY <1>1, <1>2, <1>3, <1>4, <1>5, <1>6, <1>7, <1>8, <1>9, <1>10 DEF Next, Serve

\* It is stored under a key that nobody has.
LEMMA Stored ==
  ASSUME IInv, NEW r \in Requests, Insert(r), users' # users
  PROVE  /\ ByEmail(Address(r)) = {}
         /\ pc' = [pc EXCEPT ![r] = "created"]
         /\ \E i \in Ids :
              /\ users[i] = NoUser
              /\ users' = [users EXCEPT ![i] = NewRow(r)]
  BY DEF Insert, Inserts, Goto

\* A step leaves the table alone, or is the INSERT of a registration.
LEMMA TableChanges ==
  ASSUME IInv, [Next]_vars
  PROVE  \/ users' = users
         \/ \E r \in Requests : Insert(r) /\ users' # users
  BY DEF Next, Serve, Send, Register, Created, Lookup, Compare, Auth, Limit, Handle, Fail, Tick, Crash, vars

\* Rows are never changed.
LEMMA RowsStay ==
  ASSUME IInv, [Next]_vars, NEW i \in Ids, Taken(i)
  PROVE  users'[i] = users[i]
  BY TableChanges, Stored DEF IInv, TypeOK, Taken

LEMMA TableStep == IInv /\ [Next]_vars => TableInv'
  <1> SUFFICES ASSUME IInv, [Next]_vars PROVE TableInv'
      OBVIOUS
  <1>1. CASE users' = users
        BY <1>1 DEF IInv, TableInv, Taken
  <1>2. ASSUME NEW r \in Requests, Insert(r), users' # users PROVE TableInv'
    <2> DEFINE row == NewRow(r)
    <2>1. PICK k \in Ids : users[k] = NoUser /\ users' = [users EXCEPT ![k] = row]
          BY <1>2, Stored
    <2>2. req[r].kind = "register"
          BY <1>2 DEF IInv, KindInv, Insert
    <2>3. row \in Row /\ row.email = Address(r) /\ Normal[Address(r)] = Address(r)
          BY <2>2, AddressNormal, NewRowTyped DEF IInv
    <2> HIDE DEF row
    <2>4. users'[k] = row /\ \A i \in Ids \ {k} : users'[i] = users[i]
          BY <2>1 DEF IInv, TypeOK
    <2>5. \A i \in Ids : Taken(i) => Key[users[i].email] # Key[Address(r)]
          BY <1>2, Stored DEF ByEmail, Taken
    <2> QED
        BY <2>3, <2>4, <2>5 DEF IInv, TableInv, Taken
  <1> QED
      BY <1>1, <1>2, TableChanges

\* An input is chosen once.
LEMMA InputsStay ==
  ASSUME IInv, [Next]_vars, NEW r \in Requests, pc[r] # "idle"
  PROVE  req'[r] = req[r]
  BY DEF IInv, TypeOK, Next, Serve, Send, Register, Insert, Created, Lookup, Compare, Auth, Limit,
         Handle, Fail, Tick, Crash, vars

\* What an address has found it finds again.
LEMMA FoundAgain ==
  ASSUME IInv, [Next]_vars, NEW text \in Raw, NEW i \in ByEmail(text)
  PROVE  i \in ByEmail(text)' /\ users'[i] = users[i]
  BY RowsStay DEF ByEmail, Taken

\* How a step moves one request: pc and inputs of the others stay, or all in
\* flight are lost.
LEMMA OtherPcs ==
  ASSUME IInv, [Next]_vars, NEW r \in Requests, pc'[r] \notin {pc[r], "lost"}
  PROVE  (\E in \in Inputs : Send(r, in)) \/ Serve(r) \/ Fail(r)
  BY DEF IInv, TypeOK, Next, Serve, Send, Register, Insert, Inserts, Created, Lookup, Compare, Auth, Limit,
         Handle, Fail, Tick, Crash, Goto, vars

\* A request that has ended stays as it ended.
LEMMA EndsStay ==
  ASSUME IInv, [Next]_vars, NEW r \in Requests, pc[r] \in Done
  PROVE  pc'[r] = pc[r]
  <1>1. pc'[r] = pc[r] \/ pc'[r] = "lost" \/ (\E in \in Inputs : Send(r, in)) \/ Serve(r) \/ Fail(r)
        BY OtherPcs
  <1>2. ~(\E in \in Inputs : Send(r, in)) /\ ~Serve(r) /\ ~Fail(r)
        BY DEF Done, Send, Serve, Register, Insert, Created, Lookup, Compare, Auth, Limit, Handle, Fail
  <1>3. pc'[r] = "lost" => pc'[r] = pc[r]
        BY <1>2 DEF IInv, TypeOK, Done, InFlight, Next, Serve, Send, Register, Insert, Inserts, Created,
           Lookup, Compare, Auth, Limit, Handle, Fail, Tick, Crash, Goto, vars
  <1> QED
      BY <1>1, <1>2, <1>3

LEMMA KindStep == IInv /\ [Next]_vars => KindInv'
  <1> SUFFICES ASSUME IInv, [Next]_vars, NEW r \in Requests
               PROVE  /\ pc'[r] \in {"register", "insert", "created", "201", "409"} => req'[r].kind = "register"
                      /\ pc'[r] \in {"login", "compare"} => req'[r].kind = "login"
                      /\ pc'[r] \in {"call", "limit", "handle"} => req'[r].kind = "call"
      BY DEF KindInv
  <1> USE DEF IInv, TypeOK, KindInv
  <1>1. CASE pc'[r] = pc[r] /\ pc[r] # "idle"
        BY <1>1, InputsStay
  <1>2. CASE pc'[r] \in {"lost", "idle"}
        BY <1>2
  <1>3. ASSUME NEW in \in Inputs, Send(r, in)
        PROVE  pc'[r] = req'[r].kind /\ req'[r].kind \in {"register", "login", "call"}
        BY <1>3, InputShape DEF Send, Goto
  <1>4. CASE Serve(r) \/ Fail(r)
    <2>1. pc[r] # "idle"
          BY <1>4 DEF Serve, Register, Insert, Created, Lookup, Compare, Auth, Limit, Handle, Fail
    <2>2. req'[r] = req[r]
          BY <2>1, InputsStay
    <2> QED
        BY <1>4, <2>2 DEF Serve, Register, Insert, Inserts, Created, Lookup, Compare, Auth, Limit,
           Handle, Fail, Goto
  <1> QED
      BY <1>1, <1>2, <1>3, <1>4, OtherPcs

LEMMA RegisterStep == IInv /\ [Next]_vars => RegisterInv'
  <1> SUFFICES ASSUME IInv, [Next]_vars, NEW r \in Requests
               PROVE  /\ pc'[r] \in {"created", "201"} => Has(r)'
                      /\ pc'[r] = "409" => ByEmail(Address(r))' # {}
      BY DEF RegisterInv
  <1>1. CASE pc[r] \in {"created", "201"} /\ pc'[r] \in {"created", "201"}
    <2>1. PICK i \in Ids : users[i] = NewRow(r)
          BY <1>1 DEF IInv, RegisterInv, Has
    <2>2. req[r].kind = "register"
          BY <1>1 DEF IInv, KindInv
    <2>3. Taken(i)
          BY <2>1, <2>2, NewRowTyped DEF IInv, Taken
    <2>4. users'[i] = users[i] /\ req'[r] = req[r]
          BY <1>1, <2>3, RowsStay, InputsStay
    <2> QED
        BY <1>1, <2>1, <2>4 DEF Has, NewRow, Address, Name
  <1>2. CASE pc[r] = "409" /\ pc'[r] = "409"
    <2>1. req[r].kind = "register" /\ req'[r] = req[r]
          BY <1>2, InputsStay DEF IInv, KindInv
    <2>2. PICK i : i \in ByEmail(Address(r))
          BY <1>2 DEF IInv, RegisterInv
    <2>3. i \in ByEmail(Address(r))'
      <3>1. PICK a \in Raw : a = Address(r)
            BY <2>1, AddressNormal DEF IInv
      <3>2. i \in ByEmail(a)'
            BY <2>2, <3>1, FoundAgain
      <3> QED
          BY <2>1, <3>1, <3>2 DEF ByEmail, Address
    <2> QED
        BY <1>2, <2>3
  <1>3. CASE Insert(r)
    <2>0. pc[r] = "insert" /\ req' = req /\ r \in DOMAIN pc /\ users \in [Ids -> Row \cup {NoUser}]
          BY <1>3 DEF IInv, TypeOK, Insert
    <2>1. CASE Inserts(r)
      <3>1. Has(r)'
            BY <2>0, <2>1 DEF Has, Inserts, NewRow, Address, Name
      <3>2. pc'[r] = "created"
            BY <2>0, <2>1 DEF Inserts, Goto
      <3> QED
          BY <3>1, <3>2
    <2>2. CASE ByEmail(Address(r)) # {} /\ users' = users
      <3>1. pc'[r] \notin {"created", "201"} \/ Inserts(r)
            BY <1>3, <2>0 DEF Insert, Goto
      <3>2. ByEmail(Address(r))' # {}
            BY <2>0, <2>2 DEF ByEmail, Address
      <3> QED
          BY <2>1, <3>1, <3>2
    <2>3. CASE pc'[r] = "500"
          BY <2>3
    <2> QED
        BY <1>3, <2>0, <2>1, <2>2, <2>3 DEF Insert, Goto
  <1>4. CASE pc'[r] \in {"created", "201", "409"} /\ pc'[r] # pc[r] /\ ~Insert(r)
    <2>1. Created(r)
          BY <1>4, OtherPcs, InputShape DEF IInv, TypeOK, Serve, Send, Register, Lookup, Compare, Auth, Limit,
             Handle, Fail, Goto
    <2> QED
        BY <2>1 DEF IInv, TypeOK, RegisterInv, Has, NewRow, Address, Name, Created, Goto
  <1> QED
      BY <1>1, <1>2, <1>3, <1>4 DEF IInv, RegisterInv

\* A step leaves what a request has found and been issued alone, but for the
\* request's own Lookup, Auth and Compare.
LEMMA Marks ==
  ASSUME IInv, [Next]_vars, NEW r \in Requests
  PROVE  /\ found'[r] = found[r] \/ Lookup(r) \/ Auth(r)
         /\ issued'[r] = issued[r] \/ Compare(r)
  BY DEF IInv, TypeOK, Next, Serve, Send, Register, Insert, Created, Lookup, Compare, Auth, Limit,
         Handle, Fail, Tick, Crash, vars

\* What a login has opened stays open.
LEMMA StaysOpen ==
  ASSUME IInv, [Next]_vars, NEW r \in Requests, Opened(r), pc[r] \in {"compare", "200"}
  PROVE  Opened(r)' /\ users'[found'[r]] = users[found[r]] /\ req'[r] = req[r] /\ found'[r] = found[r]
  <1>1. req'[r] = req[r]
        BY InputsStay
  <1>2. found'[r] = found[r]
        BY Marks DEF Lookup, Auth
  <1>3. users'[found[r]] = users[found[r]]
        BY RowsStay DEF Opened
  <1> QED
      BY <1>1, <1>2, <1>3 DEF Opened, Taken, Address

LEMMA LoginStep == IInv /\ [Next]_vars => LoginInv'
  <1> SUFFICES ASSUME IInv, [Next]_vars, NEW r \in Requests
               PROVE  /\ pc'[r] = "compare" => Opened(r)'
                      /\ pc'[r] \in {"idle", "login", "compare", "call"} => issued'[r] = Never
                      /\ issued'[r] # Never => /\ Opened(r)' /\ pc'[r] = "200"
                                               /\ Matches(req[r].password, users[found[r]].password)'
      BY DEF LoginInv
  <1> USE DEF IInv, TypeOK, LoginInv
  <1>1. CASE issued[r] # Never
    <2>1. Opened(r) /\ pc[r] = "200" /\ Matches(req[r].password, users[found[r]].password)
          BY <1>1
    <2>2. pc'[r] = "200"
          BY <2>1, EndsStay DEF Done
    <2>3. issued'[r] = issued[r]
          BY <2>1, Marks DEF Compare
    <2>4. Opened(r)' /\ users'[found'[r]] = users[found[r]] /\ req'[r] = req[r]
          BY <2>1, StaysOpen
    <2>5. Matches(req[r].password, users[found[r]].password)'
          BY <2>1, <2>4 DEF Matches
    <2> QED
        BY <2>2, <2>3, <2>4, <2>5
  <1>2. CASE Compare(r)
    <2>1. Opened(r) /\ pc[r] = "compare"
          BY <1>2 DEF Compare
    <2>2. pc'[r] \in {"200", "401"}
          BY <1>2 DEF Compare, Goto
    <2>3. issued'[r] # Never => pc'[r] = "200" /\ Matches(req[r].password, users[found[r]].password)
          BY <1>1, <1>2 DEF Compare, Goto
    <2> QED
        BY <2>1, <2>2, <2>3, StaysOpen DEF Matches
  <1>3. CASE issued[r] = Never /\ Lookup(r)
    <2>1. req[r].kind = "login"
          BY <1>3 DEF KindInv, Lookup
    <2>2. issued'[r] = Never /\ req'[r] = req[r] /\ users' = users
          BY <1>3 DEF Lookup
    <2>3. pc'[r] = "compare" => \E i \in ByEmail(Address(r)) : found'[r] = i
          BY <1>3 DEF Lookup, Goto
    <2>4. pc'[r] = "compare" => Opened(r)'
          BY <2>1, <2>2, <2>3 DEF Opened, Taken, ByEmail, Address
    <2> QED
        BY <2>2, <2>4
  <1>4. CASE issued[r] = Never /\ ~Compare(r) /\ ~Lookup(r)
    <2>1. issued'[r] = Never
          BY <1>4, Marks
    <2>2. CASE pc[r] = "compare"
          BY <2>1, <2>2, StaysOpen
    <2>3. CASE pc[r] # "compare"
      <3>1. pc'[r] # "compare"
            BY <1>4, <2>3, InputShape DEF Next, Serve, Send, Register, Insert, Inserts, Created, Auth, Limit,
               Handle, Fail, Tick, Crash, Goto, vars, Lookup, Compare
      <3> QED
          BY <2>1, <3>1
    <2> QED
        BY <2>2, <2>3
  <1> QED
      BY <1>1, <1>2, <1>3, <1>4

LEMMA CallStep == IInv /\ [Next]_vars => CallInv'
  <1> SUFFICES ASSUME IInv, [Next]_vars, NEW r \in Requests,
                      req'[r].kind = "call", pc'[r] \in {"limit", "handle", "429", "200", "other", "500"}
               PROVE  Carries(r)'
      BY DEF CallInv
  <1> USE DEF IInv, TypeOK, KindInv
  <1>1. \A q \in Requests : issued[q] # Never => issued'[q] = issued[q] /\ found'[q] = found[q]
        BY Marks, StaysOpen DEF LoginInv, Compare
  <1>2. pc[r] # "idle" /\ req'[r] = req[r]
    <2>1. pc[r] # "idle"
          BY InputShape DEF Next, Serve, Send, Register, Insert, Inserts, Created, Lookup, Compare, Auth, Limit,
             Handle, Fail, Tick, Crash, Goto, vars
    <2> QED
        BY <2>1, InputsStay
  <1>3. CASE Auth(r)
    <2>1. pc'[r] # "401"
          OBVIOUS
    <2>2. Parses(req[r].token) /\ found' = [found EXCEPT ![r] = found[req[r].token]]
          BY <1>3, <2>1 DEF Auth, Goto
    <2>3. req[r].token \in Requests /\ issued[req[r].token] # Never
          BY <1>2, <2>2, InputShape DEF Parses
    <2>4. found'[r] = found[req[r].token]
          BY <2>2
    <2> QED
        BY <1>1, <1>2, <2>3, <2>4 DEF Carries
  <1>4. CASE ~Auth(r)
    <2>1. pc[r] \in {"limit", "handle", "429", "200", "other", "500"}
      <3>1. pc'[r] = pc[r] \/ Serve(r) \/ Fail(r)
            BY <1>2, OtherPcs DEF Send
      <3> QED
          BY <1>2, <1>4, <3>1 DEF Serve, Register, Insert, Inserts, Created, Lookup, Compare, Limit,
             Handle, Fail, Goto
    <2>2. Carries(r) /\ found'[r] = found[r]
          BY <1>2, <1>4, <2>1, Marks DEF CallInv, Lookup
    <2> QED
        BY <1>1, <1>2, <2>2 DEF Carries
  <1> QED
      BY <1>3, <1>4

LEMMA FaultStep == IInv /\ [Next]_vars => FaultInv'
  <1> SUFFICES ASSUME IInv, [Next]_vars, NEW r \in Requests, pc'[r] = "500", req'[r].kind # "call"
               PROVE  \/ r \in faulted'
                      \/ /\ req'[r].kind = "register"
                         /\ Bytes[req'[r].password] > MaxBytes \/ Oversized(r)'
      BY DEF FaultInv
  <1> USE DEF IInv, TypeOK, KindInv, FaultInv
  <1>1. faulted \subseteq faulted'
        BY DEF Next, Serve, Send, Register, Insert, Created, Lookup, Compare, Auth, Limit,
           Handle, Fail, Tick, Crash, vars
  <1>2. CASE pc[r] = "500"
    <2>1. req'[r] = req[r]
          BY <1>2, InputsStay
    <2> QED
        BY <1>1, <1>2, <2>1 DEF Oversized, Address, Name
  <1>3. CASE Fail(r)
        BY <1>3 DEF Fail
  <1>4. CASE Register(r)
        BY <1>4 DEF Register, Goto
  <1>5. CASE Insert(r)
        BY <1>5 DEF Insert, Inserts, Goto, Oversized, Address, Name
  <1>6. CASE pc[r] # "500" /\ ~Fail(r) /\ ~Register(r) /\ ~Insert(r)
        BY <1>6, OtherPcs, InputShape DEF Serve, Send, Created, Lookup, Compare, Auth, Limit, Handle, Goto
  <1> QED
      BY <1>2, <1>3, <1>4, <1>5, <1>6

\* The inductive invariant of the accounts.
THEOREM Invariance == Spec => []IInv
  <1>1. IInv /\ [Next]_vars => IInv'
        BY TypeStep, TableStep, RegisterStep, LoginStep, KindStep, CallStep, FaultStep DEF IInv
  <1> QED
      BY InitHolds, <1>1, PTL DEF Spec

\* Every variable keeps its type, whatever requests race and fail: a login finds,
\* and a context holds, an id of the table or nothing.
THEOREM TypeCorrect == Spec => []TypeOK
  <1>1. IInv => TypeOK
        BY DEF IInv
  <1> QED
      BY Invariance, <1>1, PTL

\* Two spellings of an address never have an account each (UserRepo.Create).
THEOREM OneAccountEach == Spec => []OneAccount
  <1>1. IInv => OneAccount
        BY DEF IInv, TableInv, OneAccount, Taken
  <1> QED
      BY Invariance, <1>1, PTL

\* What Register has answered 201 to, Login accepts, and answers with the name
\* that Register was given (auth.go).
THEOREM RegistrationsStick == Spec => []RegistrationSticks
  <1>1. ASSUME IInv, NEW r \in Requests, pc[r] = "201"
        PROVE  /\ ByEmail(Address(r)) # {}
               /\ \A i \in ByEmail(Address(r)) : /\ Matches(req[r].password, users[i].password)
                                                 /\ users[i].name = Name(r)
    <2>1. PICK i \in Ids : users[i] = NewRow(r)
          BY <1>1 DEF IInv, RegisterInv, Has
    <2>2. req[r].kind = "register"
          BY <1>1 DEF IInv, KindInv
    <2>3. i \in ByEmail(Address(r))
          BY <1>1, <2>1, <2>2, AddressNormal, NewRowTyped DEF IInv, ByEmail
    <2>4. \A j \in ByEmail(Address(r)) : j = i
          BY <1>1, <2>3 DEF IInv, TableInv, ByEmail, Taken
    <2> QED
        BY <1>1, <2>1, <2>2, <2>3, <2>4, NewRowTyped DEF IInv, Matches
  <1>2. IInv => RegistrationSticks
        BY <1>1 DEF RegistrationSticks
  <1> QED
      BY Invariance, <1>2, PTL

\* A 409 names an address that somebody has (database.IsDuplicate).
THEOREM ConflictsHold == Spec => []ConflictsAreReal
  <1>1. IInv => ConflictsAreReal
        BY DEF IInv, RegisterInv, ConflictsAreReal
  <1> QED
      BY Invariance, <1>1, PTL

\* Nobody acts, nor is counted by the limiter, as a user whose password no
\* login has given (Auth, TokenManager.Parse, AuthService.Login).
THEOREM SessionsEarned == Spec => []SessionsAreEarned
  <1>1. ASSUME IInv, NEW r \in Requests, req[r].kind = "call",
               pc[r] \in {"limit", "handle", "429", "200", "other", "500"}
        PROVE  req[r].token \in Requests /\ Earned(req[r].token, found[r])
    <2>1. Carries(r)
          BY <1>1 DEF IInv, CallInv
    <2> QED
        BY <1>1, <2>1 DEF IInv, LoginInv, Carries, Opened, Taken, Earned
  <1>2. IInv => SessionsAreEarned
        BY <1>1 DEF SessionsAreEarned
  <1> QED
      BY Invariance, <1>2, PTL

\* A 500 of Register or Login that no call has failed for is one of the three
\* inputs that the validation forgets (auth.go, users.email, users.name).
THEOREM ServerErrorsExplained == Spec => []ServerErrorsAreExplained
  <1>1. IInv => ServerErrorsAreExplained
        BY DEF IInv, FaultInv, ServerErrorsAreExplained
  <1> QED
      BY Invariance, <1>1, PTL

\* What Register and Login answer can be believed (auth.go, writeError).
THEOREM AnswersTrue == Spec => []AnswersAreTrue
  <1>1. RegistrationSticks /\ ConflictsAreReal /\ ServerErrorsAreExplained => AnswersAreTrue
        BY DEF AnswersAreTrue
  <1> QED
      BY RegistrationsStick, ConflictsHold, ServerErrorsExplained, <1>1, PTL

-----------------------------------------------------------------------------
(* Expiry. *)

\* Cutting an instant down to whole seconds takes less than a second off it.
LEMMA WholeSeconds ==
  ASSUME NEW t \in Nat, NEW s \in Nat \ {0}
  PROVE  /\ (t \div s) * s \in Int
         /\ (t \div s) * s <= t /\ t < (t \div s) * s + s
  <1>1. t \div s \in Int /\ t = s * (t \div s) + (t % s) /\ t % s \in 0..(s - 1)
        BY SMTT(30)
  <1>2. (t \div s) * s = s * (t \div s) /\ s * (t \div s) \in Int
        BY <1>1, SMTT(30)
  <1> QED
      BY <1>1, <1>2

LEMMA Expiry ==
  ASSUME NEW at \in Nat
  PROVE  /\ TTL * Second \in Nat /\ (TTL - 1) * Second = TTL * Second - Second
         /\ Expires(at) \in Int
         /\ Expires(at) <= at + TTL * Second
         /\ at + TTL * Second < Expires(at) + Second
  <1>1. TTL * Second \in Nat /\ (TTL - 1) * Second = TTL * Second - Second
        BY ConstantsAssumption, SMTT(30)
  <1>2. at + TTL * Second \in Nat
        BY <1>1
  <1> QED
      BY <1>1, <1>2, WholeSeconds, ConstantsAssumption DEF Expires

\* A token is accepted for less than its TTL, and refused only in the last
\* second of it or later (TokenManager.Generate and Parse).
THEOREM TokensExpire == Spec => TokensExpireInTime
  <1> DEFINE Judged(r) == /\ pc[r] = "call" /\ pc'[r] \in {"limit", "401"}
                          /\ req[r].token \in Requests /\ issued[req[r].token] # Never
             Age(r) == now - issued[req[r].token]
             Timely == \A r \in Requests : Judged(r) =>
                         /\ pc'[r] = "limit" => Age(r) < TTL * Second
                         /\ pc'[r] = "401"   => Age(r) > (TTL - 1) * Second
  <1>1. ASSUME IInv, [Next]_vars, NEW r \in Requests, Judged(r)
        PROVE  /\ pc'[r] = "limit" => Age(r) < TTL * Second
               /\ pc'[r] = "401"   => Age(r) > (TTL - 1) * Second
    <2>1. (\E in \in Inputs : Send(r, in)) \/ Serve(r) \/ Fail(r)
          BY <1>1, OtherPcs
    <2>2. Auth(r)
          BY <1>1, <2>1 DEF Serve, Send, Register, Insert, Inserts, Created, Lookup, Compare, Limit, Handle, Fail
    <2>3. issued[req[r].token] \in Nat /\ now \in Nat
          BY <1>1, ConstantsAssumption DEF IInv, TypeOK
    <2>4. Parses(req[r].token) <=> now < Expires(issued[req[r].token])
          BY <1>1, ConstantsAssumption DEF Parses
    <2>5. /\ pc'[r] = "limit" => now < Expires(issued[req[r].token])
          /\ pc'[r] = "401"   => ~ (now < Expires(issued[req[r].token]))
          BY <1>1, <2>2, <2>4 DEF Auth, Goto, IInv, TypeOK
    <2>6. /\ TTL * Second \in Nat /\ (TTL - 1) * Second = TTL * Second - Second
          /\ Expires(issued[req[r].token]) \in Int
          /\ Expires(issued[req[r].token]) <= issued[req[r].token] + TTL * Second
          /\ issued[req[r].token] + TTL * Second < Expires(issued[req[r].token]) + Second
          BY <2>3, Expiry
    <2> HIDE DEF Judged
    <2>7. ASSUME pc'[r] = "limit" PROVE Age(r) < TTL * Second
          BY <2>3, <2>5, <2>6, <2>7
    <2>8. ASSUME pc'[r] = "401" PROVE Age(r) > (TTL - 1) * Second
          BY <2>3, <2>5, <2>6, <2>8, ConstantsAssumption
    <2> QED
        BY <2>7, <2>8
  <1>2. IInv /\ [Next]_vars => [Timely]_vars
        BY <1>1
  <1>3. [][Timely]_vars => TokensExpireInTime
        BY DEF TokensExpireInTime
  <1> HIDE DEF Timely
  <1> QED
      BY Invariance, <1>2, <1>3, PTL DEF Spec

-----------------------------------------------------------------------------
(* The refinement.  An address's password is that of the row its key finds. *)

Password(k) == IF Account(k) = {} THEN NoUser ELSE users[CHOOSE i \in Account(k) : TRUE].password

\* A registration takes the address that it stores, and no other.
LEMMA InsertTakes ==
  ASSUME IInv, NEW r \in Requests, Insert(r), users' # users
  PROVE  \E k \in Keys, p \in Passwords :
           Password(k) = NoUser /\ \A j \in Keys : Password(j)' = IF j = k THEN p ELSE Password(j)
  <1> DEFINE row == NewRow(r)
  <1>1. PICK i \in Ids : users[i] = NoUser /\ users' = [users EXCEPT ![i] = row]
        BY Stored
  <1>2. req[r].kind = "register"
        BY DEF IInv, KindInv, Insert
  <1>3. Address(r) \in Raw /\ row \in Row
        BY <1>2, AddressNormal, NewRowTyped DEF IInv
  <1>4. PICK k \in Keys : k = Key[Address(r)]
        BY <1>3, ConstantsAssumption
  <1>5. PICK p \in Passwords : p = req[r].password
        BY <1>2, AddressNormal DEF IInv
  <1>6. users'[i] = row /\ \A j \in Ids \ {i} : users'[j] = users[j]
        BY <1>1 DEF IInv, TypeOK
  <1>7. row # NoUser /\ row.email = Address(r) /\ row.password = p
        BY <1>2, <1>5, NewRowTyped DEF IInv
  <1> HIDE DEF row
  <1>8. Account(k) = {}
        BY <1>4, Stored DEF ByEmail, Account
  <1>9. Account(k)' = {i}
        BY <1>4, <1>6, <1>7, <1>8 DEF Account
  <1>10. ASSUME NEW j \in Keys, j # k PROVE Account(j)' = Account(j) /\ i \notin Account(j)
        BY <1>1, <1>4, <1>6, <1>7, <1>10 DEF Account
  <1>11. Password(k) = NoUser
        BY <1>8 DEF Password
  <1>12. Password(k)' = p
    <2>1. (CHOOSE j \in {i} : TRUE) = i
          OBVIOUS
    <2>2. Password(k)' = users'[CHOOSE j \in {i} : TRUE].password
          BY <1>9 DEF Password
    <2> QED
        BY <2>1, <2>2, <1>6, <1>7
  <1>13. ASSUME NEW j \in Keys, j # k PROVE Password(j)' = Password(j)
    <2>1. CASE Account(j) = {}
          BY <1>10, <1>13, <2>1 DEF Password
    <2>2. CASE Account(j) # {}
      <3>1. PICK c : c = CHOOSE x \in Account(j) : TRUE
            OBVIOUS
      <3>2. c \in Account(j) /\ c \in Ids \ {i}
            BY <1>10, <1>13, <2>2, <3>1 DEF Account
      <3>3. Password(j) = users[c].password /\ Password(j)' = users'[c].password
            BY <1>10, <1>13, <2>2, <3>1 DEF Password
      <3> QED
          BY <1>6, <3>2, <3>3
    <2> QED
        BY <2>1, <2>2
  <1> QED
      BY <1>11, <1>12, <1>13

\* The table of users is a book of accounts: an address is taken once, with its
\* password, whichever requests race for it (AccountBook).
THEOREM Refinement == Spec => ImplementsAccountBook
  <1> DEFINE book == [k \in Keys |-> Password(k)]
  <1>1. Init => Book!Init
        BY DEF Init, Book!Init, Account
  <1>2. ASSUME IInv, [Next]_vars PROVE Book!Next \/ book' = book
    <2>1. CASE users' = users
          BY <2>1 DEF Password, Account
    <2>2. ASSUME NEW r \in Requests, Insert(r), users' # users PROVE Book!Next
      <3>1. PICK k \in Keys, p \in Passwords :
              Password(k) = NoUser /\ \A j \in Keys : Password(j)' = IF j = k THEN p ELSE Password(j)
            BY <1>2, <2>2, InsertTakes
      <3>2. book[k] = NoUser /\ book' = [book EXCEPT ![k] = p]
            BY <3>1
      <3>3. Book!Take(k, p)
            BY <3>2 DEF Book!Take, Password
      <3> QED
          BY <3>3 DEF Book!Next
    <2> QED
        BY <1>2, <2>1, <2>2, TableChanges
  <1>3. IInv /\ [Next]_vars => [Book!Next]_book
        BY <1>2
  <1> QED
      BY <1>1, <1>3, Invariance, PTL DEF Spec, ImplementsAccountBook, Book!Spec, Password
=============================================================================
