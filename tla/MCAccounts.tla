----------------------------- MODULE MCAccounts -----------------------------
(***************************************************************************)
(* A small instance of Accounts: ann spells her address in three ways, one *)
(* of them the address of somebody with an accent in his, and her name in  *)
(* two; somebody has no name, and somebody too long a one.                 *)
(***************************************************************************)
EXTENDS Accounts, TLC

MCRaw == {"ann", " Ann ", "a~nn", "", "longann"}

MCNormal == [e \in MCRaw |-> IF e = " Ann " THEN "ann" ELSE e]

MCKeys == {"ann", " ann ", "", "longann"}

MCKey == [e \in MCRaw |-> CASE e = "a~nn" -> "ann" [] e = " Ann " -> " ann " [] OTHER -> e]

\* Of full and its continuation bcrypt sees the same 72 bytes.
MCPasswords == {"short", "good", "full", "full+"}

MCBytes == [short |-> 7, good |-> 8, full |-> 72] @@ ("full+" :> 73)

MCSignificant == [p \in MCPasswords |-> IF p = "full+" THEN "full" ELSE p]

MCNames == {"Ann", "Ann ", "", " ", "Longname"}

MCTrimmed == [n \in MCNames |-> CASE n = "Ann " -> "Ann" [] n = " " -> "" [] OTHER -> n]

SignUp(email, name, password) ==
  [kind |-> "register", email |-> email, name |-> name, password |-> password]

SignIn(email, password) == [kind |-> "login", email |-> email, password |-> password]

MCInputs ==
  {SignUp("ann", "Ann ", "full"), SignUp(" Ann ", "Ann", "good"),
   SignUp("a~nn", "Ann", "full+"), SignUp("", "Ann", "good"), SignUp("ann", " ", "good"),
   SignUp("ann", "Longname", "good"), SignUp("longann", "Ann", "short"),
   SignUp("longann", "Ann", "good"),
   SignIn(" Ann ", "full+"), SignIn("a~nn", "good")} \cup
  {[kind |-> "call", token |-> t] : t \in Requests \cup {NoToken}}

Symmetry == Permutations(Requests) \cup Permutations(Ids)
=============================================================================
