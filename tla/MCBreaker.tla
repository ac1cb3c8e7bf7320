------------------------------ MODULE MCBreaker ------------------------------
(***************************************************************************)
(* A small circuit breaker for TLC: the limits keep their order (a history *)
(* longer than the consecutive limit, a rate limit of half the history).   *)
(***************************************************************************)
EXTENDS CircuitBreaker, TLC

CallSymmetry == Permutations(Calls)
=============================================================================
