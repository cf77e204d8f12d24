----------------------------- MODULE AccountBook -----------------------------
(***************************************************************************)
(* What the accounts promise, without requests, ids or failures: an        *)
(* address that is taken is taken once, for good, and keeps the password   *)
(* that it was taken with.                                                 *)
(***************************************************************************)
CONSTANTS
  Keys,        \* the addresses that count as different
  Passwords,
  Free         \* nobody has this address

VARIABLE book  \* the password of each address, or Free

Init == book = [k \in Keys |-> Free]

Take(k, p) ==
  /\ book[k] = Free
  /\ book' = [book EXCEPT ![k] = p]

Next == \E k \in Keys, p \in Passwords : Take(k, p)

Spec == Init /\ [][Next]_book
=============================================================================
