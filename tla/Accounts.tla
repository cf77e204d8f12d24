------------------------------ MODULE Accounts ------------------------------
(***************************************************************************)
(* AuthService over UserRepo and TokenManager, and the middleware through  *)
(* which a request reaches a protected handler: Auth, then RateLimit.      *)
(* Register, Login and protected requests are served concurrently, and     *)
(* each call of the database is a step.                                    *)
(*                                                                         *)
(* An email is sent as a raw text.  The service trims it and lowers its    *)
(* case (Normal), and MySQL's unique key and its = compare what is stored  *)
(* by the collation of the column, which ignores case and accents: two     *)
(* texts are the same address when they have the same Key.  A name is      *)
(* trimmed, too, and must not be empty then.  Neither text is measured     *)
(* before MySQL measures it.  A password is its length in bytes and what   *)
(* of it bcrypt looks at (Significant, its first 72 bytes).  The secret    *)
(* comes from the configuration and survives a restart, and so do the      *)
(* tokens; the signature itself is not modelled.                           *)
(***************************************************************************)
EXTENDS Integers

CONSTANTS
  Requests,      \* HTTP requests, each served once; bounds the model
  Raw,           \* the emails as clients send them
  Normal,        \* [Raw -> Raw], ToLower and TrimSpace
  Wellformed,    \* the texts that validateEmail lets through
  Names,         \* the names as clients send them
  Trimmed,       \* [Names -> Names], TrimSpace
  NoName,        \* the name without a character
  TooLong,       \* the emails and names that do not fit into their column
  Keys, Key,     \* [Raw -> Keys], what the collation compares
  Passwords,
  Bytes,         \* [Passwords -> Nat], the length of each
  Significant,   \* [Passwords -> Passwords], the part that bcrypt hashes
  Ids,           \* ids that table users may give to a row; bounds the model
  NoUser,        \* no row
  Inputs,        \* what clients send; bounds the model
  NoToken,       \* no token, or one that another secret has signed
  Second,        \* how many ticks a second has
  TTL,           \* auth.token_ttl, in seconds
  MaxTime,       \* bounds the ticks
  Never          \* no token has been issued

MinBytes == 8    \* Register
MaxBytes == 72   \* bcrypt.GenerateFromPassword

Input ==
  [kind : {"register"}, email : Raw, name : Names, password : Passwords] \cup
  [kind : {"login"}, email : Raw, password : Passwords] \cup
  [kind : {"call"}, token : Requests \cup {NoToken}]

Row == [email : Raw, name : Names, password : Passwords]

ASSUME ConstantsAssumption ==
  /\ Normal \in [Raw -> Raw]
  /\ \A e \in Raw : Normal[Normal[e]] = Normal[e]
  /\ Trimmed \in [Names -> Names]
  /\ Key \in [Raw -> Keys]
  /\ Bytes \in [Passwords -> Nat]
  /\ Significant \in [Passwords -> Passwords]
  /\ \A p \in Passwords : Bytes[p] <= MaxBytes => Significant[p] = p
  /\ NoUser \notin Ids /\ NoUser \notin Row
  /\ Inputs \subseteq Input /\ \E in \in Inputs : in.kind = "register"
  /\ NoToken \notin Requests
  /\ Second \in Nat \ {0} /\ TTL \in Nat /\ MaxTime \in Nat
  /\ Never \notin 0..MaxTime

VARIABLES
  now,      \* ticks
  users,    \* table users: the row of each id, or NoUser
  pc,       \* what each request does next, or how it ended
  req,      \* the input of each request
  found,    \* the id that a login has read, or the uid in a call's context
  issued,   \* when each login was given its token, or Never
  faulted   \* auxiliary: the requests one of whose calls has failed

vars == <<now, users, pc, req, found, issued, faulted>>

InFlight == {"register", "insert", "created", "login", "compare", "call", "limit", "handle"}
Done     == {"200", "201", "400", "401", "409", "429", "other", "500", "lost"}

Goto(r, next) == pc' = [pc EXCEPT ![r] = next]

SomeInput == CHOOSE in \in Inputs : in.kind = "register"

Init ==
  /\ now = 0
  /\ users = [i \in Ids |-> NoUser]
  /\ pc = [r \in Requests |-> "idle"]
  /\ req = [r \in Requests |-> SomeInput]
  /\ found = [r \in Requests |-> NoUser]
  /\ issued = [r \in Requests |-> Never]
  /\ faulted = {}

Send(r, in) ==
  /\ pc[r] = "idle"
  /\ req' = [req EXCEPT ![r] = in]
  /\ Goto(r, in.kind)
  /\ UNCHANGED <<now, users, found, issued, faulted>>

-----------------------------------------------------------------------------
(* Register. *)

\* Mutant: what the client sent is stored as it is.
AddressAsSent(r) == req[r].email

Address(r) == Normal[req[r].email]

\* The rows that GetByEmail's WHERE and the unique key match a text with.
ByEmail(text) == {i \in Ids : users[i] # NoUser /\ Key[users[i].email] = Key[text]}

Name(r) == Trimmed[req[r].name]

Acceptable(r) ==
  /\ Address(r) \in Wellformed
  /\ Name(r) # NoName
  /\ Bytes[req[r].password] >= MinBytes

\* Validation and the hash: a password that is too long for bcrypt is an
\* error of its own kind.
Register(r) ==
  /\ pc[r] = "register"
  /\ \/ ~Acceptable(r) /\ Goto(r, "400")
     \/ Acceptable(r) /\ Bytes[req[r].password] > MaxBytes /\ Goto(r, "500")
     \/ Acceptable(r) /\ Bytes[req[r].password] <= MaxBytes /\ Goto(r, "insert")
  /\ UNCHANGED <<now, users, req, found, issued, faulted>>

\* What Create is given to insert.
NewRow(r) == [email |-> Address(r), name |-> Name(r), password |-> req[r].password]

\* A text that is longer than its column is an error, whoever has the address.
Oversized(r) == Address(r) \in TooLong \/ Name(r) \in TooLong

\* Mutant: INSERT ... ON DUPLICATE KEY UPDATE.
Upserts(r) ==
  /\ \E i \in Ids :
       /\ \/ i \in ByEmail(Address(r))
          \/ ByEmail(Address(r)) = {} /\ users[i] = NoUser
       /\ users' = [users EXCEPT ![i] = NewRow(r)]
  /\ Goto(r, "created")

\* UserRepo.Create: one INSERT, and the unique key decides.
Inserts(r) ==
  /\ ByEmail(Address(r)) = {}
  /\ \E i \in Ids :
       /\ users[i] = NoUser
       /\ users' = [users EXCEPT ![i] = NewRow(r)]
  /\ Goto(r, "created")

Insert(r) ==
  /\ pc[r] = "insert"
  /\ \/ Oversized(r) /\ Goto(r, "500") /\ UNCHANGED users
     \/ ~Oversized(r) /\ Inserts(r)
     \/ ~Oversized(r) /\ ByEmail(Address(r)) # {} /\ Goto(r, "409") /\ UNCHANGED users
  /\ UNCHANGED <<now, req, found, issued, faulted>>

Created(r) ==
  /\ pc[r] = "created"
  /\ Goto(r, "201")
  /\ UNCHANGED <<now, users, req, found, issued, faulted>>

-----------------------------------------------------------------------------
(* Login. *)

\* GetByEmail.  An address that nobody has is answered like a wrong password.
Lookup(r) ==
  /\ pc[r] = "login"
  /\ \/ /\ ByEmail(Address(r)) = {}
        /\ Goto(r, "401")
        /\ UNCHANGED found
     \/ \E i \in ByEmail(Address(r)) :
          /\ found' = [found EXCEPT ![r] = i]
          /\ Goto(r, "compare")
  /\ UNCHANGED <<now, users, req, issued, faulted>>

\* bcrypt compares what it hashed.
Matches(p, hashed) == Significant[p] = Significant[hashed]

\* Mutant: the account is enough.
CompareNothing(r) ==
  /\ pc[r] = "compare"
  /\ issued' = [issued EXCEPT ![r] = now]
  /\ Goto(r, "200")
  /\ UNCHANGED <<now, users, req, found, faulted>>

\* CompareHashAndPassword, and Generate.
Compare(r) ==
  /\ pc[r] = "compare"
  /\ IF Matches(req[r].password, users[found[r]].password)
     THEN issued' = [issued EXCEPT ![r] = now] /\ Goto(r, "200")
     ELSE UNCHANGED issued /\ Goto(r, "401")
  /\ UNCHANGED <<now, users, req, found, faulted>>

-----------------------------------------------------------------------------
(* Protected requests. *)

\* Mutant: an expiry is rounded up to the second.
ExpiresRoundedUp(at) == ((at + TTL * Second + Second - 1) \div Second) * Second

\* The claim exp is cut down to whole seconds.
Expires(at) == ((at + TTL * Second) \div Second) * Second

\* TokenManager.Parse
Parses(token) == token # NoToken /\ issued[token] # Never /\ now < Expires(issued[token])

\* Mutant: a request without a good token goes on as user 0.
AuthAnonymous(r) ==
  /\ pc[r] = "call"
  /\ found' = [found EXCEPT ![r] = IF Parses(req[r].token) THEN found[req[r].token] ELSE 0]
  /\ Goto(r, "limit")
  /\ UNCHANGED <<now, users, req, issued, faulted>>

\* Auth puts the token's uid into the context.
Auth(r) ==
  /\ pc[r] = "call"
  /\ \/ /\ Parses(req[r].token)
        /\ found' = [found EXCEPT ![r] = found[req[r].token]]
        /\ Goto(r, "limit")
     \/ /\ ~Parses(req[r].token)
        /\ Goto(r, "401")
        /\ UNCHANGED found
  /\ UNCHANGED <<now, users, req, issued, faulted>>

\* RateLimit asks the limiter of that uid (module RateLimit).
Limit(r) ==
  /\ pc[r] = "limit"
  /\ Goto(r, "handle") \/ Goto(r, "429")
  /\ UNCHANGED <<now, users, req, found, issued, faulted>>

\* The handler, whatever it answers without a fault.  It may be a 500: a team's
\* name and a task's title are not measured before MySQL measures them, either.
Handle(r) ==
  /\ pc[r] = "handle"
  /\ Goto(r, "200") \/ Goto(r, "other") \/ Goto(r, "500")
  /\ UNCHANGED <<now, users, req, found, issued, faulted>>

-----------------------------------------------------------------------------
(* Time and failures. *)

Tick ==
  /\ now < MaxTime
  /\ now' = now + 1
  /\ UNCHANGED <<users, pc, req, found, issued, faulted>>

\* Mutant: every error of the INSERT is taken for a duplicate.
FailAsDuplicate(r) ==
  /\ pc[r] \in {"insert", "created", "login", "handle"}
  /\ Goto(r, IF pc[r] = "insert" THEN "409" ELSE "500")
  /\ faulted' = faulted \cup {r}
  /\ UNCHANGED <<now, users, req, found, issued>>

\* A call of the database fails: the INSERT, without effect or, at "created",
\* with its answer lost; the SELECT; or one of a handler's.
Fail(r) ==
  /\ pc[r] \in {"insert", "created", "login", "handle"}
  /\ Goto(r, "500")
  /\ faulted' = faulted \cup {r}
  /\ UNCHANGED <<now, users, req, found, issued>>

\* The process dies and is started again.
Crash ==
  /\ \E r \in Requests : pc[r] \in InFlight
  /\ pc' = [r \in Requests |-> IF pc[r] \in InFlight THEN "lost" ELSE pc[r]]
  /\ UNCHANGED <<now, users, req, found, issued, faulted>>

-----------------------------------------------------------------------------
Serve(r) ==
  \/ Register(r) \/ Insert(r) \/ Created(r)
  \/ Lookup(r) \/ Compare(r)
  \/ Auth(r) \/ Limit(r) \/ Handle(r)

Next ==
  \/ \E r \in Requests : (\E in \in Inputs : Send(r, in)) \/ Serve(r) \/ Fail(r)
  \/ Tick
  \/ Crash

Spec == Init /\ [][Next]_vars

-----------------------------------------------------------------------------
(* Properties. *)

\* Every variable keeps its type.
TypeOK ==
  /\ now \in 0..MaxTime
  /\ users \in [Ids -> Row \cup {NoUser}]
  /\ pc \in [Requests -> InFlight \cup Done \cup {"idle"}]
  /\ req \in [Requests -> Inputs]
  /\ found \in [Requests -> Ids \cup {NoUser}]
  /\ issued \in [Requests -> 0..MaxTime \cup {Never}]
  /\ faulted \subseteq Requests

\* However registrations race and however an address is spelled, nobody has two
\* accounts under addresses that Login cannot tell apart.
OneAccount ==
  \A i, j \in Ids :
    /\ users[i] # NoUser /\ users[j] # NoUser
    /\ Key[Normal[users[i].email]] = Key[Normal[users[j].email]]
    => i = j

\* Once Register has answered 201, Login with that email and password finds the
\* account, accepts the password and answers with the name that was given,
\* whatever else is registered afterwards.
RegistrationSticks ==
  \A r \in Requests : pc[r] = "201" =>
    /\ ByEmail(Address(r)) # {}
    /\ \A i \in ByEmail(Address(r)) : /\ Matches(req[r].password, users[i].password)
                                      /\ users[i].name = Name(r)

\* A 409 tells the truth: somebody has that address.
ConflictsAreReal ==
  \A r \in Requests : pc[r] = "409" => ByEmail(Address(r)) # {}

\* A request that is counted by the limiter or handled for a user carries a
\* token of a login that gave that user's address and password.
Earned(q, i) ==
  /\ req[q].kind = "login" /\ pc[q] = "200"
  /\ users[i] # NoUser
  /\ Key[Address(q)] = Key[users[i].email]
  /\ Matches(req[q].password, users[i].password)

SessionsAreEarned ==
  \A r \in Requests :
    req[r].kind = "call" /\ pc[r] \in {"limit", "handle", "429", "200", "other", "500"} =>
      req[r].token \in Requests /\ Earned(req[r].token, found[r])

\* A token is good for less than its TTL, but for more than a second less.
TokensExpireInTime ==
  [][\A r \in Requests :
       /\ pc[r] = "call" /\ pc'[r] \in {"limit", "401"}
       /\ req[r].token \in Requests /\ issued[req[r].token] # Never
       => LET age == now - issued[req[r].token]
          IN  /\ pc'[r] = "limit" => age < TTL * Second
              /\ pc'[r] = "401"   => age > (TTL - 1) * Second]_vars

\* A 500 of Register or Login is a failed call, but for three inputs of Register
\* that the validation lets through: a password that bcrypt refuses, and an email
\* or a name that its column cannot hold.
ServerErrorsAreExplained ==
  \A r \in Requests : pc[r] = "500" /\ req[r].kind # "call" =>
    \/ r \in faulted
    \/ /\ req[r].kind = "register"
       /\ Bytes[req[r].password] > MaxBytes \/ Oversized(r)

\* An answer of Register or Login can be believed: a 201 lasts, a 409 has its
\* account, and a 500 its failed call or one of the three inputs that no 400
\* keeps out.
AnswersAreTrue == RegistrationSticks /\ ConflictsAreReal /\ ServerErrorsAreExplained

\* The table only makes the steps of the book of accounts, in which an address
\* is taken once and for good.
Account(k) == {i \in Ids : users[i] # NoUser /\ Key[users[i].email] = k}

Book == INSTANCE AccountBook WITH
          Keys <- Keys, Passwords <- Passwords, Free <- NoUser,
          book <- [k \in Keys |-> IF Account(k) = {} THEN NoUser
                                  ELSE users[CHOOSE i \in Account(k) : TRUE].password]

ImplementsAccountBook == Book!Spec
=============================================================================
