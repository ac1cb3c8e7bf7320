----------------------------- MODULE CircuitBreaker -----------------------------
(***************************************************************************)
(* The in-process circuit breaker (backend/app/infra/circuit.py) and the   *)
(* way guarded_session (backend/app/infra/db.py) puts every database call  *)
(* of the API process between before_call and one of record_success and    *)
(* record_failure.                                                         *)
(*                                                                         *)
(* Each method holds the lock for all it reads and writes, so a method is  *)
(* one step; a call lasts from the first to the second, in which time the  *)
(* circuit may open, half-open and close again under it.  An instant is    *)
(* kept as its age, which stops growing once it is past every comparison:  *)
(* time itself is unbounded.                                               *)
(***************************************************************************)
EXTENDS Integers, Sequences, FiniteSets

CONSTANTS
    Calls,              \* the database calls that can be in flight at once
    HistorySize,        \* length of the history deque, 20
    ConsecutiveLimit,   \* consecutive failures that open the circuit, 5
    FailureLimit,       \* more failures than this in a full history open it, 10
    Pause,              \* seconds the circuit stays open, and of the history, 30
    ProbesToClose       \* successes that close a half-open circuit, 2

ASSUME BreakerAssumption ==
    /\ HistorySize \in Nat \ {0} /\ ConsecutiveLimit \in Nat \ {0}
    /\ FailureLimit \in Nat /\ Pause \in Nat \ {0}
    /\ ProbesToClose \in Nat \ {0}

VARIABLES
    state,      \* _state
    history,    \* _history: the outcomes recorded while closed, oldest first
    failures,   \* _consecutive_failures
    openFor,    \* the age of _opened_at
    probe,      \* _probe_in_flight
    successes,  \* _half_open_successes
    calls,      \* the calls inside guarded_session
    database,   \* whether the database can fail a call
    probes      \* history variable: calls admitted since the circuit half-opened

vars == <<state, history, failures, openFor, probe, successes, calls, database, probes>>

Outcome == [age : 0 .. Pause + 1, result : {"success", "failure"}]

Init ==
    /\ state = "closed" /\ history = <<>> /\ failures = 0 /\ openFor = 0
    /\ probe = "free" /\ successes = 0
    /\ calls = [c \in Calls |-> "idle"]
    /\ database = "sound" /\ probes = {}

-----------------------------------------------------------------------------

\* The guard of before_call: otherwise it raises CircuitOpenError and changes
\* nothing.
Admitted ==
    /\ state = "open" => openFor >= Pause
    /\ state = "half_open" => probe = "free"

\* before_call
BeforeCall(c) ==
    /\ calls[c] = "idle"
    /\ Admitted
    /\ calls' = [calls EXCEPT ![c] = "running"]
    /\ IF state = "closed"
       THEN UNCHANGED <<state, probe, successes, probes>>
       ELSE /\ state' = "half_open"
            /\ probe' = "taken"
            /\ successes' = IF state = "open" THEN 0 ELSE successes
            /\ probes' = IF state = "open" THEN {c} ELSE probes \cup {c}
    /\ UNCHANGED <<history, failures, openFor, database>>

\* _prune_history_locked: outcomes older than the window leave from the front.
Pruned(h) ==
    LET old == {i \in DOMAIN h : \A j \in 1 .. i : h[j].age > Pause}
    IN  SubSeq(h, Cardinality(old) + 1, Len(h))

\* The deque drops its oldest entry when it is full.
Recorded(h, result) ==
    LET new == Append(Pruned(h), [age |-> 0, result |-> result])
    IN  IF Len(new) > HistorySize THEN Tail(new) ELSE new

Failed(h) == Cardinality({i \in DOMAIN h : h[i].result = "failure"})
TooMany(h) == Len(h) = HistorySize /\ Failed(h) > FailureLimit

End(c) == calls[c] = "running" /\ calls' = [calls EXCEPT ![c] = "idle"]

\* Mutants of RecordSuccess: the counters of the closed state are not cleared
\* when the circuit closes; the probe slot is not given back.
RecordSuccessKeepingCounters(c) ==
    /\ End(c)
    /\ \/ /\ state = "half_open"
          /\ probe' = "free" /\ successes' = successes + 1
          /\ state' = IF successes + 1 >= ProbesToClose THEN "closed" ELSE state
          /\ probes' = IF state' = "closed" THEN {} ELSE probes \ {c}
          /\ failures' = IF state' = "closed" THEN 0 ELSE failures
          /\ UNCHANGED history
       \/ /\ state = "closed"
          /\ history' = Recorded(history, "success") /\ failures' = 0
          /\ UNCHANGED <<state, probe, successes, probes>>
       \/ /\ state = "open"
          /\ UNCHANGED <<state, history, failures, probe, successes, probes>>
    /\ UNCHANGED <<openFor, database>>

RecordSuccessKeepingProbe(c) ==
    /\ End(c)
    /\ \/ /\ state = "half_open"
          /\ successes' = successes + 1
          /\ state' = IF successes + 1 >= ProbesToClose THEN "closed" ELSE state
          /\ probes' = IF state' = "closed" THEN {} ELSE probes \ {c}
          /\ failures' = IF state' = "closed" THEN 0 ELSE failures
          /\ history' = IF state' = "closed" THEN <<>> ELSE history
          /\ UNCHANGED probe
       \/ /\ state = "closed"
          /\ history' = Recorded(history, "success") /\ failures' = 0
          /\ UNCHANGED <<state, probe, successes, probes>>
       \/ /\ state = "open"
          /\ UNCHANGED <<state, history, failures, probe, successes, probes>>
    /\ UNCHANGED <<openFor, database>>

\* record_success, in the state the circuit has now: the state the call was
\* admitted in is not known any more.
RecordSuccess(c) ==
    /\ End(c)
    /\ \/ /\ state = "half_open"
          /\ probe' = "free" /\ successes' = successes + 1
          /\ state' = IF successes + 1 >= ProbesToClose THEN "closed" ELSE state
          /\ probes' = IF state' = "closed" THEN {} ELSE probes \ {c}
          /\ failures' = IF state' = "closed" THEN 0 ELSE failures
          /\ history' = IF state' = "closed" THEN <<>> ELSE history
       \/ /\ state = "closed"
          /\ history' = Recorded(history, "success") /\ failures' = 0
          /\ UNCHANGED <<state, probe, successes, probes>>
       \/ /\ state = "open"
          /\ UNCHANGED <<state, history, failures, probe, successes, probes>>
    /\ UNCHANGED <<openFor, database>>

\* _open_locked
OpenCircuit ==
    /\ state' = "open" /\ openFor' = 0
    /\ probe' = "free" /\ successes' = 0 /\ probes' = {}

\* Mutants of RecordFailure: the consecutive limit is off by one; a half-open
\* circuit opens again and the probe slot stays taken.
RecordFailureLate(c) ==
    /\ database = "faulty"
    /\ End(c)
    /\ \/ /\ state = "half_open"
          /\ OpenCircuit
          /\ UNCHANGED <<history, failures>>
       \/ /\ state = "closed"
          /\ history' = Recorded(history, "failure") /\ failures' = failures + 1
          /\ IF failures + 1 > ConsecutiveLimit \/ TooMany(history')
             THEN OpenCircuit
             ELSE UNCHANGED <<state, openFor, probe, successes, probes>>
       \/ /\ state = "open"
          /\ UNCHANGED <<state, history, failures, openFor, probe, successes, probes>>
    /\ UNCHANGED database

RecordFailureKeepingProbe(c) ==
    /\ database = "faulty"
    /\ End(c)
    /\ \/ /\ state = "half_open"
          /\ state' = "open" /\ openFor' = 0 /\ successes' = 0 /\ probes' = {}
          /\ UNCHANGED <<history, failures, probe>>
       \/ /\ state = "closed"
          /\ history' = Recorded(history, "failure") /\ failures' = failures + 1
          /\ IF failures + 1 >= ConsecutiveLimit \/ TooMany(history')
             THEN OpenCircuit
             ELSE UNCHANGED <<state, openFor, probe, successes, probes>>
       \/ /\ state = "open"
          /\ UNCHANGED <<state, history, failures, openFor, probe, successes, probes>>
    /\ UNCHANGED database

\* record_failure: any SQLAlchemyError of the call.
RecordFailure(c) ==
    /\ database = "faulty"
    /\ End(c)
    /\ \/ /\ state = "half_open"
          /\ OpenCircuit
          /\ UNCHANGED <<history, failures>>
       \/ /\ state = "closed"
          /\ history' = Recorded(history, "failure") /\ failures' = failures + 1
          /\ IF failures + 1 >= ConsecutiveLimit \/ TooMany(history')
             THEN OpenCircuit
             ELSE UNCHANGED <<state, openFor, probe, successes, probes>>
       \/ /\ state = "open"
          /\ UNCHANGED <<state, history, failures, openFor, probe, successes, probes>>
    /\ UNCHANGED database

Older(age, limit) == IF age < limit THEN age + 1 ELSE age

Tick ==
    /\ openFor' = Older(openFor, Pause)
    /\ history' = [i \in DOMAIN history |->
                     [history[i] EXCEPT !.age = Older(@, Pause + 1)]]
    /\ UNCHANGED <<state, failures, probe, successes, calls, database, probes>>

\* The database becomes able, or unable, to fail calls.
Weather ==
    /\ database' = IF database = "sound" THEN "faulty" ELSE "sound"
    /\ UNCHANGED <<state, history, failures, openFor, probe, successes, calls, probes>>

Next ==
    \/ Tick \/ Weather
    \/ \E c \in Calls : BeforeCall(c) \/ RecordSuccess(c) \/ RecordFailure(c)

\* Time passes; the statement timeout ends every call; and calls keep coming,
\* if only the readiness checks of /readyz.
Fairness ==
    /\ WF_vars(Tick)
    /\ \A c \in Calls : WF_vars(RecordSuccess(c) \/ RecordFailure(c))
    /\ WF_vars(\E c \in Calls : BeforeCall(c))

Spec == Init /\ [][Next]_vars
FairSpec == Spec /\ Fairness

-----------------------------------------------------------------------------

\* Every variable has its type, and the counters stay below their limits in the
\* states that read them.
TypeOK ==
    /\ state \in {"closed", "open", "half_open"}
    /\ history \in Seq(Outcome) /\ Len(history) <= HistorySize
    /\ failures \in 0 .. ConsecutiveLimit
    /\ openFor \in 0 .. Pause
    /\ probe \in {"free", "taken"} /\ database \in {"sound", "faulty"}
    /\ successes \in 0 .. ProbesToClose
    /\ calls \in [Calls -> {"idle", "running"}]
    /\ probes \in SUBSET Calls

\* The probe slot of a half-open circuit is taken only while a call admitted by
\* that half-open circuit is still running, so it is always given back, whatever
\* older calls record in between; no other state leaves it taken.
ProbeAccounted ==
    /\ probe = "taken" => probes # {}
    /\ state # "half_open" => probe = "free" /\ probes = {}
    /\ \A c \in probes : calls[c] = "running"

\* The two failure counters tell one story: as long as the history remembers a
\* success, the failures after it are the consecutive failures.
CountersAgree ==
    \A i \in DOMAIN history :
        /\ history[i].result = "success"
        /\ \A j \in i + 1 .. Len(history) : history[j].result = "failure"
        => failures = Len(history) - i

\* A closed circuit is below its limits: the consecutive failures always, and the
\* failure rate since the last failure recorded.
ClosedBelowLimits ==
    state = "closed" =>
        /\ failures < ConsecutiveLimit
        /\ TooMany(history) => history[Len(history)].result = "success"

\* The inductive invariant: a half-open circuit is short of its last success, a
\* closed one of its last failure.
IInv ==
    /\ TypeOK /\ ProbeAccounted
    /\ state = "closed" => failures < ConsecutiveLimit
    /\ state = "half_open" => successes < ProbesToClose

\* Once the database no longer fails calls, the circuit closes and stays closed.
Recovers == <>[](database = "sound") => <>[](state = "closed")
=============================================================================
