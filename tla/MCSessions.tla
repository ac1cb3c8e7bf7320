------------------------------ MODULE MCSessions ------------------------------
(***************************************************************************)
(* A small instance of Sessions for TLC: a tab with a read and a mutation, *)
(* and a tab with a read.                                                  *)
(***************************************************************************)
EXTENDS Sessions, TLC

CONSTANTS a, b

get1 == "get1"
post1 == "post1"
get2 == "get2"

SenderOf == [r \in Requests |-> IF r = get2 THEN b ELSE a]

\* What happens in one behaviour.
Happening == {{get1, post1, get2}, {get1, get2, "loss"}, {get1, post1, "reload"},
              {get1, get2, "signout"}, {get2, "mail", "loss"}}
=============================================================================
