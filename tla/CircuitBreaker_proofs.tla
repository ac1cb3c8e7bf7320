------------------------- MODULE CircuitBreaker_proofs -------------------------
(***************************************************************************)
(* Proofs about CircuitBreaker for any number of calls and any limits: its *)
(* types, that the probe slot of a half-open circuit is never lost, that   *)
(* the two failure counters agree, and that a closed circuit is below its  *)
(* limits.                                                                 *)
(***************************************************************************)
EXTENDS CircuitBreaker, FiniteSetTheorems, SequenceTheorems, TLAPS

\* Pruning drops some d outcomes from the front and nothing else.
LEMMA PrunedShift ==
    ASSUME NEW h \in Seq(Outcome)
    PROVE  \E d \in 0 .. Len(h) :
             /\ Pruned(h) \in Seq(Outcome) /\ Len(Pruned(h)) = Len(h) - d
             /\ \A i \in 1 .. Len(h) - d : Pruned(h)[i] = h[i + d]
<1> DEFINE old == {i \in DOMAIN h : \A j \in 1 .. i : h[j].age > Pause}
           d == Cardinality(old)
<1>0. Len(h) \in Nat /\ 1 \in Int /\ Len(h) \in Int
  OBVIOUS
<1>1. IsFiniteSet(1 .. Len(h)) /\ Cardinality(1 .. Len(h)) = Len(h)
  <2>1. /\ IsFiniteSet(1 .. Len(h))
        /\ Cardinality(1 .. Len(h)) = IF 1 > Len(h) THEN 0 ELSE Len(h) - 1 + 1
    BY <1>0, FS_Interval, Zenon
  <2>2. (IF 1 > Len(h) THEN 0 ELSE Len(h) - 1 + 1) = Len(h)
    BY <1>0
  <2> QED
    BY <2>1, <2>2
<1>2. old \in SUBSET (1 .. Len(h))
  OBVIOUS
<1>3. IsFiniteSet(old) /\ d <= Len(h)
  BY <1>1, <1>2, FS_Subset
<1>4. d \in 0 .. Len(h)
  BY <1>3, FS_CardinalityType
<1> HIDE DEF old, d
<1>5. \A i \in d + 1 .. Len(h) : h[i] \in Outcome
  BY <1>4
<1>6. /\ SubSeq(h, d + 1, Len(h)) \in Seq(Outcome)
      /\ Len(SubSeq(h, d + 1, Len(h))) = IF d + 1 <= Len(h) THEN Len(h) - (d + 1) + 1 ELSE 0
      /\ \A i \in 1 .. Len(h) - (d + 1) + 1 : SubSeq(h, d + 1, Len(h))[i] = h[(d + 1) + i - 1]
  BY <1>4, <1>5, SubSeqProperties
<1>7. Pruned(h) = SubSeq(h, d + 1, Len(h))
  BY DEF Pruned, d, old
<1>8. \A i \in 1 .. Len(h) - d : h[(d + 1) + i - 1] = h[i + d]
  <2> TAKE i \in 1 .. Len(h) - d
  <2>1. (d + 1) + i - 1 = i + d
    BY <1>4
  <2> QED
    BY <2>1
<1>9. Len(Pruned(h)) = Len(h) - d
  BY <1>4, <1>6, <1>7
<1>10. \A i \in 1 .. Len(h) - d : Pruned(h)[i] = h[i + d]
  <2> TAKE i \in 1 .. Len(h) - d
  <2>1. i \in 1 .. Len(h) - (d + 1) + 1
    BY <1>4
  <2> QED
    BY <1>6, <1>7, <1>8, <2>1
<1> QED
  BY <1>4, <1>6, <1>7, <1>9, <1>10

\* Recording an outcome does so too, and the outcome is then the last one.
LEMMA RecordedShift ==
    ASSUME NEW h \in Seq(Outcome), Len(h) <= HistorySize, NEW result \in {"success", "failure"}
    PROVE  LET n == Recorded(h, result) IN
           /\ n \in Seq(Outcome) /\ Len(n) \in 1 .. HistorySize
           /\ n[Len(n)].result = result
           /\ \E d \in 0 .. Len(h) :
                /\ Len(n) = Len(h) - d + 1
                /\ \A i \in 1 .. Len(n) - 1 : n[i] = h[i + d]
<1> DEFINE p == Pruned(h)
           e == [age |-> 0, result |-> result]
           m == Append(p, e)
           n == Recorded(h, result)
<1>1. PICK d \in 0 .. Len(h) :
        /\ p \in Seq(Outcome) /\ Len(p) = Len(h) - d
        /\ \A i \in 1 .. Len(h) - d : p[i] = h[i + d]
  BY PrunedShift
<1>2. e \in Outcome /\ e.result = result
  BY BreakerAssumption DEF Outcome
<1> HIDE DEF p, e
<1>3. /\ m \in Seq(Outcome) /\ Len(m) = Len(p) + 1 /\ m[Len(p) + 1] = e
      /\ \A i \in 1 .. Len(p) : m[i] = p[i]
  BY <1>1, <1>2
<1>4. n = IF Len(m) > HistorySize THEN Tail(m) ELSE m
  BY DEF Recorded, p, e
<1> HIDE DEF m, n
<1>5. CASE Len(m) <= HistorySize
  <2>1. n = m
    BY <1>1, <1>3, <1>4, <1>5, BreakerAssumption
  <2>2. Len(n) = Len(h) - d + 1 /\ \A i \in 1 .. Len(n) - 1 : n[i] = h[i + d]
    BY <1>1, <1>3, <2>1
  <2>3. Len(n) \in 1 .. HistorySize /\ n[Len(n)].result = result
    BY <1>1, <1>2, <1>3, <1>5, <2>1, BreakerAssumption
  <2> QED
    BY <1>3, <2>1, <2>2, <2>3 DEF n
<1>6. CASE Len(m) > HistorySize
  <2>1. n = Tail(m) /\ m # << >>
    BY <1>1, <1>3, <1>4, <1>6, BreakerAssumption
  <2>2. Len(p) = HistorySize /\ d = 0 /\ Len(h) = HistorySize
    BY <1>1, <1>3, <1>6, BreakerAssumption
  <2>3. /\ n \in Seq(Outcome) /\ Len(n) = Len(m) - 1
        /\ \A i \in 1 .. Len(n) : n[i] = m[i + 1]
    BY <1>3, <2>1, HeadTailProperties
  <2>4. Len(n) = Len(h) - 1 + 1 /\ 1 \in 0 .. Len(h)
    BY <1>3, <2>2, <2>3, BreakerAssumption
  <2>5. \A i \in 1 .. Len(n) - 1 : n[i] = h[i + 1]
    <3> TAKE i \in 1 .. Len(n) - 1
    <3>1. i \in 1 .. Len(n) /\ i + 1 \in 1 .. Len(p) /\ i + 1 \in 1 .. Len(h) - d
      BY <2>2, <2>4, BreakerAssumption
    <3>2. n[i] = m[i + 1] /\ m[i + 1] = p[i + 1]
      BY <1>3, <2>3, <3>1
    <3>3. p[i + 1] = h[(i + 1) + d] /\ (i + 1) + d = i + 1
      BY <1>1, <2>2, <3>1
    <3> QED
      BY <3>2, <3>3
  <2>6. Len(n) \in 1 .. HistorySize /\ n[Len(n)].result = result
    BY <1>2, <1>3, <2>2, <2>3, <2>4, BreakerAssumption
  <2> QED
    BY <2>3, <2>4, <2>5, <2>6 DEF n
<1> QED
  BY <1>1, <1>3, <1>5, <1>6, BreakerAssumption DEF n

-----------------------------------------------------------------------------
(* Types and the probe slot.                                               *)

LEMMA InvInit == Init => IInv
<1> SUFFICES ASSUME Init PROVE IInv
  OBVIOUS
<1>1. <<>> \in Seq(Outcome) /\ Len(<<>>) = 0
  OBVIOUS
<1> QED
  BY <1>1, BreakerAssumption DEF Init, IInv, TypeOK, ProbeAccounted

\* Admission: a probe takes the slot, and the pause opens it once.
LEMMA InvBeforeCall ==
    ASSUME IInv, NEW c \in Calls, BeforeCall(c)
    PROVE  IInv'
<1>1. TypeOK'
  BY BreakerAssumption DEF IInv, TypeOK, BeforeCall
<1>2. ProbeAccounted'
  BY DEF IInv, TypeOK, ProbeAccounted, BeforeCall, Admitted
<1> QED
  BY <1>1, <1>2, BreakerAssumption DEF IInv, TypeOK, BeforeCall

\* Recording keeps the history a history, so its content is left out below.
LEMMA InvRecordSuccess ==
    ASSUME IInv, NEW c \in Calls, RecordSuccess(c)
    PROVE  IInv'
<1>1. history' \in Seq(Outcome) /\ Len(history') <= HistorySize
  <2>1. history' = history \/ history' = <<>> \/ history' = Recorded(history, "success")
    BY DEF RecordSuccess
  <2>2. <<>> \in Seq(Outcome) /\ Len(<<>>) = 0
    OBVIOUS
  <2>3. /\ Recorded(history, "success") \in Seq(Outcome)
        /\ Len(Recorded(history, "success")) \in 1 .. HistorySize
    BY RecordedShift DEF IInv, TypeOK
  <2>4. CASE history' = <<>>
    BY <2>2, <2>4, BreakerAssumption
  <2>5. CASE history' = Recorded(history, "success")
    BY <2>3, <2>5, BreakerAssumption
  <2>6. CASE history' = history
    BY <2>6 DEF IInv, TypeOK
  <2> QED
    BY <2>1, <2>4, <2>5, <2>6
<1>2. TypeOK'
  BY <1>1, BreakerAssumption DEF IInv, TypeOK, RecordSuccess, End
<1>3. ProbeAccounted'
  BY DEF IInv, TypeOK, ProbeAccounted, RecordSuccess, End
<1>4. /\ state' = "closed" => failures' < ConsecutiveLimit
      /\ state' = "half_open" => successes' < ProbesToClose
  BY BreakerAssumption DEF IInv, TypeOK, RecordSuccess
<1> QED
  BY <1>2, <1>3, <1>4 DEF IInv

\* A failure that reaches a limit opens the circuit and frees the slot.
LEMMA InvRecordFailure ==
    ASSUME IInv, NEW c \in Calls, RecordFailure(c)
    PROVE  IInv'
<1>1. history' \in Seq(Outcome) /\ Len(history') <= HistorySize
  <2>1. history' = history \/ history' = Recorded(history, "failure")
    BY DEF RecordFailure
  <2>2. /\ Recorded(history, "failure") \in Seq(Outcome)
        /\ Len(Recorded(history, "failure")) \in 1 .. HistorySize
    BY RecordedShift DEF IInv, TypeOK
  <2> QED
    BY <2>1, <2>2, BreakerAssumption DEF IInv, TypeOK
<1>2. TypeOK'
  BY <1>1, BreakerAssumption DEF IInv, TypeOK, RecordFailure, End, OpenCircuit
<1>3. ProbeAccounted'
  BY DEF IInv, TypeOK, ProbeAccounted, RecordFailure, End, OpenCircuit
<1>4. /\ state' = "closed" => failures' < ConsecutiveLimit
      /\ state' = "half_open" => successes' < ProbesToClose
  BY BreakerAssumption DEF IInv, TypeOK, RecordFailure, OpenCircuit
<1> QED
  BY <1>2, <1>3, <1>4 DEF IInv

\* Time only ages what is there.
LEMMA TickShift ==
    ASSUME TypeOK, Tick
    PROVE  /\ history' \in Seq(Outcome) /\ Len(history') = Len(history)
           /\ \A i \in 1 .. Len(history) : history'[i].result = history[i].result
<1>1. history \in Seq(Outcome) /\ Len(history) \in Nat
      /\ DOMAIN history = 1 .. Len(history)
  BY DEF TypeOK
<1>2. \A i \in 1 .. Len(history) :
        /\ [history[i] EXCEPT !.age = Older(@, Pause + 1)] \in Outcome
        /\ [history[i] EXCEPT !.age = Older(@, Pause + 1)].result = history[i].result
  <2> TAKE i \in 1 .. Len(history)
  <2> DEFINE a == Older(history[i].age, Pause + 1)
  <2>1. history[i] \in Outcome
    BY <1>1
  <2>2. a \in 0 .. Pause + 1
    BY <2>1, BreakerAssumption DEF Outcome, Older
  <2> HIDE DEF a
  <2>3. /\ [history[i] EXCEPT !.age = a] \in Outcome
        /\ [history[i] EXCEPT !.age = a].result = history[i].result
    BY <2>1, <2>2 DEF Outcome
  <2> QED
    BY <2>3 DEF a
<1>3. history' = [i \in 1 .. Len(history) |->
                    [history[i] EXCEPT !.age = Older(@, Pause + 1)]]
  BY <1>1 DEF Tick
<1>4. history' \in [1 .. Len(history) -> Outcome]
  BY <1>2, <1>3
<1>5. history' \in Seq(Outcome) /\ Len(history') = Len(history)
  BY <1>1, <1>4
<1> QED
  BY <1>2, <1>3, <1>5

\* Every step of the breaker keeps its invariant.
LEMMA InvStep == IInv /\ [Next]_vars => IInv'
<1> SUFFICES ASSUME IInv, [Next]_vars PROVE IInv'
  OBVIOUS
<1>1. CASE Tick
  <2>1. openFor' \in 0 .. Pause
    BY <1>1, BreakerAssumption DEF IInv, TypeOK, Tick, Older
  <2>2. history' \in Seq(Outcome) /\ Len(history') <= HistorySize
    BY <1>1, TickShift DEF IInv, TypeOK
  <2> QED
    BY <1>1, <2>1, <2>2 DEF IInv, TypeOK, ProbeAccounted, Tick
<1>2. CASE Weather
  BY <1>2 DEF IInv, TypeOK, ProbeAccounted, Weather
<1>3. CASE UNCHANGED vars
  BY <1>3 DEF IInv, TypeOK, ProbeAccounted, vars
<1> QED
  BY <1>1, <1>2, <1>3, InvBeforeCall, InvRecordSuccess, InvRecordFailure DEF Next

\* The inductive invariant holds: types, the probe slot, and a closed or half-open
\* circuit short of the count that would move it.
THEOREM Invariant == Spec => []IInv
BY InvInit, InvStep, PTL DEF Spec

\* The probe slot of a half-open circuit is taken only while one of the calls it
\* admitted runs, whatever calls from before record in between: it is never lost.
THEOREM ProbeAccountedHolds == Spec => []ProbeAccounted
<1>1. IInv => ProbeAccounted
  BY DEF IInv
<1> QED
  BY <1>1, Invariant, PTL
-----------------------------------------------------------------------------
(* The two failure counters.                                               *)

\* A success recorded is the last outcome, and clears the consecutive failures.
LEMMA AgreeSuccess ==
    ASSUME TypeOK, CountersAgree, NEW c \in Calls, RecordSuccess(c)
    PROVE  CountersAgree'
<1>1. CASE history' = history /\ failures' = failures
  BY <1>1 DEF CountersAgree
<1>2. CASE history' = <<>>
  BY <1>2 DEF CountersAgree
<1>3. CASE history' = Recorded(history, "success") /\ failures' = 0
  <2>1. /\ history' \in Seq(Outcome) /\ Len(history') \in 1 .. HistorySize
        /\ history'[Len(history')].result = "success"
    BY <1>3, RecordedShift DEF TypeOK
  <2> SUFFICES ASSUME NEW i \in DOMAIN history',
                      \A j \in i + 1 .. Len(history') : history'[j].result = "failure"
               PROVE  failures' = Len(history') - i
    BY DEF CountersAgree
  <2>2. i \in 1 .. Len(history') /\ Len(history') \in Nat
    BY <2>1
  <2>3. i = Len(history')
    BY <2>1, <2>2
  <2> QED
    BY <1>3, <2>2, <2>3
<1> QED
  BY <1>1, <1>2, <1>3 DEF RecordSuccess

\* A failure recorded extends the run of failures after the last success.
LEMMA AgreeFailure ==
    ASSUME TypeOK, CountersAgree, NEW c \in Calls, RecordFailure(c)
    PROVE  CountersAgree'
<1>1. CASE history' = history /\ failures' = failures
  BY <1>1 DEF CountersAgree
<1>2. CASE history' = Recorded(history, "failure") /\ failures' = failures + 1
  <2>1. /\ history \in Seq(Outcome) /\ Len(history) \in Nat
        /\ DOMAIN history = 1 .. Len(history) /\ failures \in Nat
    BY BreakerAssumption DEF TypeOK
  <2>2. PICK d \in 0 .. Len(history) :
          /\ history' \in Seq(Outcome) /\ Len(history') = Len(history) - d + 1
          /\ history'[Len(history')].result = "failure"
          /\ \A i \in 1 .. Len(history') - 1 : history'[i] = history[i + d]
    BY <1>2, <2>1, RecordedShift DEF TypeOK
  <2> SUFFICES ASSUME NEW i \in DOMAIN history', history'[i].result = "success",
                      \A j \in i + 1 .. Len(history') : history'[j].result = "failure"
               PROVE  failures' = Len(history') - i
    BY DEF CountersAgree
  <2>3. i \in 1 .. Len(history') /\ i # Len(history')
    BY <2>2
  <2>4. i + d \in 1 .. Len(history) /\ history[i + d].result = "success"
    <3>1. Len(history') = Len(history) - d + 1 /\ Len(history) \in Nat /\ d \in 0 .. Len(history)
      BY <2>1, <2>2
    <3>2. i \in 1 .. Len(history') - 1 /\ i + d \in 1 .. Len(history)
      BY <2>3, <3>1
    <3>3. history'[i] = history[i + d]
      BY <2>2, <3>2
    <3> QED
      BY <3>2, <3>3
  <2>5. \A j \in i + d + 1 .. Len(history) : history[j].result = "failure"
    <3> TAKE j \in i + d + 1 .. Len(history)
    <3>1. j - d \in i + 1 .. Len(history') - 1 /\ (j - d) + d = j
      BY <2>1, <2>2, <2>3
    <3>2. history'[j - d] = history[j]
      BY <2>2, <3>1
    <3>3. j - d \in i + 1 .. Len(history')
      BY <2>1, <2>2, <3>1
    <3> QED
      BY <3>2, <3>3
  <2>6. failures = Len(history) - (i + d)
    BY <2>1, <2>4, <2>5 DEF CountersAgree
  <2> QED
    BY <1>2, <2>1, <2>2, <2>3, <2>6
<1> QED
  BY <1>1, <1>2 DEF RecordFailure

\* Ageing changes no result.
LEMMA AgreeTick ==
    ASSUME TypeOK, CountersAgree, Tick
    PROVE  CountersAgree'
<1>1. /\ history' \in Seq(Outcome) /\ Len(history') = Len(history)
      /\ \A i \in 1 .. Len(history) : history'[i].result = history[i].result
  BY TickShift
<1>2. DOMAIN history = 1 .. Len(history) /\ Len(history) \in Nat
  BY DEF TypeOK
<1>3. failures' = failures
  BY DEF Tick
<1> SUFFICES ASSUME NEW i \in DOMAIN history', history'[i].result = "success",
                    \A j \in i + 1 .. Len(history') : history'[j].result = "failure"
             PROVE  failures' = Len(history') - i
  BY DEF CountersAgree
<1>4. i \in 1 .. Len(history) /\ history[i].result = "success"
  BY <1>1, <1>2
<1>5. \A j \in i + 1 .. Len(history) : history[j].result = "failure"
  BY <1>1, <1>2, <1>4
<1> QED
  BY <1>1, <1>2, <1>3, <1>4, <1>5 DEF CountersAgree

\* The consecutive failures and the history, two counters of the same events kept
\* by different branches of the code, never contradict each other.
THEOREM CountersAgreeHolds == Spec => []CountersAgree
<1>1. Init => CountersAgree
  BY DEF Init, CountersAgree
<1>2. TypeOK /\ CountersAgree /\ [Next]_vars => CountersAgree'
  <2> SUFFICES ASSUME TypeOK, CountersAgree, [Next]_vars PROVE CountersAgree'
    OBVIOUS
  <2>1. CASE Weather
    BY <2>1 DEF CountersAgree, Weather
  <2>2. ASSUME NEW c \in Calls, BeforeCall(c) PROVE CountersAgree'
    BY <2>2 DEF CountersAgree, BeforeCall
  <2>3. CASE UNCHANGED vars
    BY <2>3 DEF CountersAgree, vars
  <2> QED
    BY <2>1, <2>2, <2>3, AgreeTick, AgreeSuccess, AgreeFailure DEF Next
<1>3. IInv => TypeOK
  BY DEF IInv
<1> QED
  BY <1>1, <1>2, <1>3, Invariant, PTL DEF Spec
-----------------------------------------------------------------------------
(* The limits of a closed circuit.                                         *)

\* The second part of ClosedBelowLimits, which the step lemmas preserve.
RateOK == state = "closed" /\ TooMany(history) => history[Len(history)].result = "success"

\* A history that is still bad after a success ends in that success.
LEMMA RateSuccess ==
    ASSUME TypeOK, RateOK, NEW c \in Calls, RecordSuccess(c)
    PROVE  RateOK'
<1>1. CASE history' = history /\ state' = state
  BY <1>1 DEF RateOK, TooMany, Failed
<1>2. CASE history' = <<>>
  <2>1. Len(history') # HistorySize
    BY <1>2, BreakerAssumption
  <2> QED
    BY <2>1 DEF RateOK, TooMany
<1>3. CASE history' = Recorded(history, "success")
  <2>1. history'[Len(history')].result = "success"
    BY <1>3, RecordedShift DEF TypeOK
  <2> QED
    BY <2>1 DEF RateOK
<1>4. state' = "half_open" => RateOK'
  BY DEF RateOK
<1> QED
  BY <1>1, <1>2, <1>3, <1>4 DEF RecordSuccess, TypeOK

\* A failure that leaves the circuit closed left the rate below its limit.
LEMMA RateFailure ==
    ASSUME TypeOK, RateOK, NEW c \in Calls, RecordFailure(c)
    PROVE  RateOK'
<1>1. CASE state' = "open"
  BY <1>1 DEF RateOK
<1>2. CASE history' = history /\ state' = state
  BY <1>2 DEF RateOK, TooMany, Failed
<1>3. CASE ~TooMany(history')
  <2>1. TooMany(history)' = TooMany(history')
    BY DEF TooMany, Failed
  <2> QED
    BY <1>3, <2>1 DEF RateOK
<1> QED
  BY <1>1, <1>2, <1>3 DEF RecordFailure, OpenCircuit, TypeOK

\* Ageing changes neither the number of failures nor the last outcome.
LEMMA RateTick ==
    ASSUME TypeOK, RateOK, Tick
    PROVE  RateOK'
<1>1. /\ history' \in Seq(Outcome) /\ Len(history') = Len(history)
      /\ \A i \in 1 .. Len(history) : history'[i].result = history[i].result
  BY TickShift
<1>2. /\ history \in Seq(Outcome) /\ DOMAIN history = 1 .. Len(history)
      /\ DOMAIN history' = 1 .. Len(history) /\ Len(history) \in Nat
  BY <1>1 DEF TypeOK
<1>3. {i \in DOMAIN history' : history'[i].result = "failure"}
        = {i \in DOMAIN history : history[i].result = "failure"}
  BY <1>1, <1>2
<1>4. TooMany(history)' = TooMany(history)
  BY <1>1, <1>3 DEF TooMany, Failed
<1> SUFFICES ASSUME state = "closed", TooMany(history)
             PROVE  history'[Len(history')].result = "success"
  BY <1>4 DEF RateOK, Tick
<1>5. history[Len(history)].result = "success"
  BY DEF RateOK
<1>6. Len(history) \in 1 .. Len(history)
  BY <1>2, BreakerAssumption DEF TooMany
<1> QED
  BY <1>1, <1>5, <1>6

\* A closed circuit is below its limits, for any limits and any number of calls: the
\* branch that closes clears both counters, and a failure that reaches one opens.
THEOREM ClosedBelowLimitsHolds == Spec => []ClosedBelowLimits
<1>1. Init => RateOK
  <2> SUFFICES ASSUME Init PROVE RateOK
    OBVIOUS
  <2>1. Len(history) # HistorySize
    BY BreakerAssumption DEF Init
  <2> QED
    BY <2>1 DEF RateOK, TooMany
<1>2. TypeOK /\ RateOK /\ [Next]_vars => RateOK'
  <2> SUFFICES ASSUME TypeOK, RateOK, [Next]_vars PROVE RateOK'
    OBVIOUS
  <2>1. CASE Weather
    BY <2>1 DEF RateOK, Weather, TooMany, Failed
  <2>2. ASSUME NEW c \in Calls, BeforeCall(c) PROVE RateOK'
    BY <2>2 DEF RateOK, BeforeCall, TooMany, Failed
  <2>3. CASE UNCHANGED vars
    BY <2>3 DEF RateOK, vars, TooMany, Failed
  <2> QED
    BY <2>1, <2>2, <2>3, RateTick, RateSuccess, RateFailure DEF Next
<1>3. IInv /\ RateOK => ClosedBelowLimits
  BY DEF IInv, RateOK, ClosedBelowLimits
<1>4. IInv => TypeOK
  BY DEF IInv
<1> QED
  BY <1>1, <1>2, <1>3, <1>4, Invariant, PTL DEF Spec
=============================================================================
