------------------------------ MODULE Idempotency ------------------------------
(***************************************************************************)
(* The idempotency middleware: what a record of an earlier request means   *)
(* for a request with the same key.  A record is [key, request, answer];   *)
(* the request stands for method, path and body, the only things compared. *)
(* Records live for a day, longer than any behaviour here.                 *)
(***************************************************************************)
EXTENDS Integers

RecordsOf(records, key) == {r \in records : r.key = key}

\* What the lookup decides: run the route, refuse the key, or replay an answer.
LookedUp(records, key, request) ==
    IF RecordsOf(records, key) = {} THEN "run"
    ELSE LET r == CHOOSE r \in RecordsOf(records, key) : TRUE IN
         IF r.request = request THEN r.answer ELSE "reuse"

\* The key is the primary key of the table: the second of two requests that ran
\* with one key fails to store its answer, and that failure is its answer.
StoredAnswer(records, key, answer) ==
    IF RecordsOf(records, key) = {} THEN answer ELSE "server-error"

Stored(records, key, request, answer) ==
    IF RecordsOf(records, key) = {}
    THEN records \cup {[key |-> key, request |-> request, answer |-> answer]}
    ELSE records
=============================================================================
