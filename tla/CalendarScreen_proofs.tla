------------------------- MODULE CalendarScreen_proofs -------------------------
(***************************************************************************)
(* The job table under the calendar page: proofs, for any sources,         *)
(* proposals, members, requests, rows and losses, that the polls of a      *)
(* source form one chain, that the reminders fit the confirmation until a  *)
(* request commits late, and that a press ends with a list that its effect *)
(* is in.                                                                  *)
(*                                                                         *)
(* The first two are about jobs that may still run.  What makes them       *)
(* inductive is what the worker has in hand: between the transactions of   *)
(* one job the table alone does not say whether the job will wait again.   *)
(* For the reminders it is also what a request that changes the            *)
(* confirmation has read, and may count on until another one commits.      *)
(***************************************************************************)
EXTENDS CalendarScreen, FiniteSetTheorems, SequenceTheorems, TLAPS

-----------------------------------------------------------------------------
(* The rows and the worker.                                                *)

PollIds == {<<s>> : s \in Sources}
ReminderIds == Members \X Proposals

Job == [state : {"free", "waiting", "locked", "done"}, kind : {"none", "poll", "reminder"},
        of : {NoKey} \cup PollIds \cup ReminderIds, key : {NoKey} \cup PollIds \cup ReminderIds]

\* What a row is of says what its kind is, and a key is what the row is of.
RowFits(x) ==
    /\ x.state = "free" <=> x.kind = "none"
    /\ x.kind = "none" => x.key = NoKey
    /\ x.kind = "poll" => x.of \in PollIds /\ x.key \in {NoKey, x.of}
    /\ x.kind = "reminder" => x.of \in ReminderIds /\ x.key = x.of

JobsTyped == jobs \in [JobIds -> Job] /\ \A j \in JobIds : RowFits(jobs[j])

\* A job that is due waits, and a reminder does so after its hour.
DueTyped == \A j \in JobIds : IsDue(j) => jobs[j].state = "waiting" /\ ~FirstRun(j)

Phases == {"idle", "down", "claimed", "fetching", "sending", "handled", "failed"}
Busy == worker.phase \notin {"idle", "down"}

\* The worker has a locked row in hand, or one that was taken back: only reminders are.
WorkerTyped ==
    /\ worker \in [phase : Phases, job : JobIds \cup {0}, kind : {"none", "poll", "reminder"},
                   of : {NoKey} \cup PollIds \cup ReminderIds]
    /\ ~Busy => worker.job = 0 /\ worker.kind = "none"
    /\ Busy => /\ worker.job \in JobIds /\ worker.kind # "none"
               /\ \/ /\ jobs[worker.job].state = "locked" /\ jobs[worker.job].kind = worker.kind
                     /\ jobs[worker.job].of = worker.of
                  \/ worker.kind = "reminder" /\ jobs[worker.job] = NoJob
    /\ worker.kind = "poll" => worker.of \in PollIds
    /\ worker.kind = "reminder" => worker.of \in ReminderIds
    /\ worker.phase = "fetching" => worker.kind = "poll"
    /\ worker.phase = "sending" => worker.kind = "reminder"

Source == [state : {"absent", "live", "deleted"}, kind : {"none", "url", "upload"},
           status : {"none", "pending", "ok", "error"}, cooling : BOOLEAN, etag : BOOLEAN]

Mishaps == {"died", "half sent"}

Ask == [phase : {"idle", "confirming", "reopening", "reopened"}, pid : Proposals \cup {"none"},
        plans : BOOLEAN, rows : SUBSET JobIds]

\* A request is about a proposal, and holds the rows that it has deleted.
GroupTyped ==
    /\ group \in [state : {"open", "confirmed", "deleted"}, pid : Proposals \cup {"none"},
                  asks : [Requests -> Ask], overtaken : SUBSET Requests, late : BOOLEAN]
    /\ group.state = "confirmed" <=> group.pid # "none"
    /\ \A r \in Requests : ~Asked(r, "idle") => group.asks[r].pid \in Proposals

CallShape == {"phase", "source", "answer"}

Typed ==
    /\ JobsTyped /\ DueTyped /\ WorkerTyped
    /\ sources \in [Sources -> Source]
    /\ GroupTyped
    /\ ahead \subseteq Proposals
    /\ mails \in [Members \X Proposals -> Nat]
    /\ history \in Seq(Mishaps)
    /\ DOMAIN calls = Kinds /\ \A kind \in Kinds : DOMAIN calls[kind] = CallShape
    /\ scene \in Scenes

\* There is a source left for each that is being created.
Creating == {kind \in {"create", "upload"} : calls[kind].phase \in {"sent", "read"}}
Absent == {s \in scene.sources : sources[s].state = "absent"}
SourcesLeft ==
    /\ \A kind \in Creating : Absent # {}
    /\ Creating = {"create", "upload"} => \E s, t \in Absent : s # t

-----------------------------------------------------------------------------
(* The polls.                                                              *)

InHand(j) == worker.kind = "poll" /\ worker.job = j
Working == worker.phase \in {"claimed", "fetching", "failed"}
Ending(j) == InHand(j) /\ worker.phase = "handled"
WaitingPoll(s, j) == jobs[j].kind = "poll" /\ jobs[j].of = <<s>> /\ jobs[j].state = "waiting"

\* A source that was not created has no poll.
NoneBefore ==
    \A s \in Sources : sources[s].state = "absent" =>
        /\ \A j \in JobIds : jobs[j].kind = "poll" => jobs[j].of # <<s>>
        /\ worker.kind = "poll" => worker.of # <<s>>

\* At most one poll waits, and none beside one that may wait again.
OneWaits ==
    \A s \in Sources : \A i \in JobIds : WaitingPoll(s, i) =>
        /\ \A j \in JobIds : WaitingPoll(s, j) => i = j
        /\ worker.kind = "poll" /\ Working => worker.of # <<s>>

\* The key of the first poll stays in the table.
KeyStays ==
    \A s \in Live : sources[s].kind = "url" => \E j \in JobIds : jobs[j].key = <<s>>

\* A poll is to come for a source that is pending, or has no tag.
OneComes ==
    \A s \in Live : sources[s].status = "pending" \/ (sources[s].kind = "url" /\ ~sources[s].etag) =>
        \E j \in PollsOf(s) : ~Ending(j)

\* A poll that is over has just begun a cooldown.
Cooled ==
    worker.kind = "poll" /\ worker.phase = "handled" =>
        \A s \in Live : worker.of = <<s>> => sources[s].cooling

\* There is no tag before the first poll has ended.
FirstTag ==
    \A s \in Live : \A j \in JobIds :
        jobs[j].key = <<s>> /\ (jobs[j].state = "waiting" \/ (InHand(j) /\ Working))
            => ~sources[s].etag

\* What a refresh has found has not run since: it is not due, or will not be the last.
FoundStays ==
    calls["refresh"].phase = "read" =>
        LET s == calls["refresh"].source IN
        /\ s \in Sources /\ sources[s].state # "absent"
        /\ s \in Live => /\ sources[s].kind = "url"
                         /\ calls["refresh"].answer # "none" /\ sources[s].etag =>
                               \E j \in PollsOf(s) : ~InHand(j) /\ ~IsDue(j)

PollInv == NoneBefore /\ OneWaits /\ KeyStays /\ OneComes /\ Cooled /\ FirstTag /\ FoundStays

-----------------------------------------------------------------------------
(* The reminders.                                                          *)

WaitingFor(m, p, j) ==
    jobs[j].kind = "reminder" /\ jobs[j].of = <<m, p>> /\ jobs[j].state = "waiting"
InMail(m, p) == worker.kind = "reminder" /\ worker.of = <<m, p>>
                  /\ worker.phase \in {"claimed", "sending", "failed"}

\* What the worker has begun with, has in hand or has mailed is after its hour.
AfterHour ==
    /\ \A j \in JobIds : jobs[j].kind = "reminder" /\ jobs[j].state # "waiting" =>
          jobs[j].of[2] \notin ahead
    /\ worker.kind = "reminder" => worker.of[2] \notin ahead
    /\ \A m \in Members, p \in Proposals : mails[<<m, p>>] > 0 => p \notin ahead

\* The rows that a request has deleted are reminders of its proposal, as they were; no two
\* requests have deleted the same.
HeldFits ==
    /\ \A r \in Requests : \A j \in group.asks[r].rows :
          jobs[j].kind = "reminder" /\ Unfinished(j) /\ jobs[j].of[2] = group.asks[r].pid
    /\ \A r, q \in Requests : r # q => group.asks[r].rows \cap group.asks[q].rows = {}

\* What a request has read of the group is so until another one commits, and what it has
\* deleted is all that may still run.
CurrentFits ==
    \A r \in Requests : Current(r) =>
        /\ Asked(r, "confirming") => group.state = "open"
        /\ ~Asked(r, "confirming") => group.state = "confirmed" /\ group.pid = group.asks[r].pid
        /\ Asked(r, "reopened") => Cancelled(group.asks[r].pid) \subseteq group.asks[r].rows

\* A job that may still run is of the proposal that is confirmed.
OfConfirmed ==
    \A j \in JobIds : jobs[j].kind = "reminder" /\ Unfinished(j) =>
        group.state = "deleted" \/ group.pid = jobs[j].of[2]

\* One job for each member and proposal, on the table or in hand, until it is mailed.
OneReminder ==
    \A m \in Members, p \in Proposals :
        /\ \A i, j \in JobIds : WaitingFor(m, p, i) /\ WaitingFor(m, p, j) => i = j
        /\ InMail(m, p) => \A j \in JobIds : ~WaitingFor(m, p, j)
        /\ mails[<<m, p>>] > 0 /\ ~Happened("half sent") =>
              ~InMail(m, p) /\ \A j \in JobIds : ~WaitingFor(m, p, j)
        /\ mails[<<m, p>>] > 1 => Happened("half sent")

\* There was never a reminder of the proposal for which a confirmation plans them.
PlansFit ==
    \A r \in Requests : Current(r) /\ group.asks[r].plans =>
        /\ \A j \in JobIds : jobs[j].kind = "reminder" => jobs[j].of[2] # group.asks[r].pid
        /\ worker.kind = "reminder" => worker.of[2] # group.asks[r].pid
        /\ \A m \in Members : ~(mails[<<m, group.asks[r].pid>>] > 0)

ReminderInv ==
    /\ AfterHour /\ HeldFits /\ CurrentFits
    /\ ~group.late => OfConfirmed /\ OneReminder /\ PlansFit

QueueInv == Typed /\ SourcesLeft /\ PollInv /\ ReminderInv

-----------------------------------------------------------------------------
(* What the operators of the table give.                                   *)

\* A job says of what it is: a source, or a member and a proposal, and never both.
LEMMA IdsApart ==
    /\ NoKey \notin PollIds \cup ReminderIds
    /\ \A x \in PollIds : x \notin ReminderIds
    /\ \A x \in PollIds : \E s \in Sources : x = <<s>> /\ x[1] = s
    /\ \A x \in ReminderIds : \E m \in Members, p \in Proposals : x = <<m, p>> /\ x[2] = p
    /\ \A s \in Sources : <<s>> \in PollIds
    /\ \A m \in Members, p \in Proposals : <<m, p>> \in ReminderIds
    /\ \A s, t : <<s>> = <<t>> => s = t
    /\ \A m, p, n, q : <<m, p>> = <<n, q>> => m = n /\ p = q
<1>1. \A s, m, p : <<s>> # <<m, p>> /\ <<s>> # <<>> /\ <<m, p>> # <<>>
  OBVIOUS
<1>2. \A s, t : <<s>> = <<t>> => s = t
  OBVIOUS
<1>3. \A m, p, n, q : <<m, p>> = <<n, q>> => m = n /\ p = q
  OBVIOUS
<1> QED
  BY <1>1, <1>2, <1>3 DEF PollIds, ReminderIds, NoKey

\* A new job takes a free row, and not that of the job in hand.
LEMMA NewIdIsFree ==
    ASSUME FreeIds # {}
    PROVE  NewId \in JobIds /\ jobs[NewId].state = "free" /\ NewId # worker.job
BY DEF FreeIds, NewId

\* confirm_group plans one reminder for each member, in free rows.
LEMMA PlannedRows ==
    ASSUME Rows # {}, NEW p
    PROVE  /\ DOMAIN Planned(p) = JobIds
           /\ \A j \in JobIds :
                \/ Planned(p)[j] = jobs[j]
                \/ j \in FreeIds /\ \E m \in Members : Planned(p)[j] = ReminderOf(m, p)
           /\ \A i, j \in FreeIds, m \in Members :
                Planned(p)[i] = ReminderOf(m, p) /\ Planned(p)[j] = ReminderOf(m, p)
                  /\ Planned(p)[i] # jobs[i] /\ Planned(p)[j] # jobs[j] => i = j
<1> DEFINE id == CHOOSE f \in Rows : TRUE
           who(j) == CHOOSE m \in Members : id[m] = j
<1>1. id \in [Members -> FreeIds]
  BY DEF Rows
<1>2. Planned(p) = [j \in JobIds |-> IF \E m \in Members : id[m] = j
                                     THEN ReminderOf(who(j), p) ELSE jobs[j]]
  BY DEF Planned
<1>3. \A j \in JobIds : (\E m \in Members : id[m] = j) =>
          who(j) \in Members /\ id[who(j)] = j /\ j \in FreeIds
  BY <1>1
<1> HIDE DEF id, who
<1>4. \A j \in JobIds :
        \/ Planned(p)[j] = jobs[j]
        \/ j \in FreeIds /\ who(j) \in Members /\ id[who(j)] = j /\ Planned(p)[j] = ReminderOf(who(j), p)
  BY <1>2, <1>3
<1>5. \A m, n : ReminderOf(m, p) = ReminderOf(n, p) => m = n
  <2> SUFFICES ASSUME NEW m, NEW n, ReminderOf(m, p) = ReminderOf(n, p) PROVE m = n
    OBVIOUS
  <2>1. ReminderOf(m, p).of = <<m, p>> /\ ReminderOf(n, p).of = <<n, p>>
    BY DEF ReminderOf
  <2> QED
    BY <2>1, IdsApart
<1>6. FreeIds \subseteq JobIds
  BY DEF FreeIds
<1>7. DOMAIN Planned(p) = JobIds
  BY <1>2
<1>8. \A i, j \in FreeIds, m \in Members :
        Planned(p)[i] = ReminderOf(m, p) /\ Planned(p)[j] = ReminderOf(m, p)
          /\ Planned(p)[i] # jobs[i] /\ Planned(p)[j] # jobs[j] => i = j
  BY <1>4, <1>5, <1>6
<1>9. \A j \in JobIds : \/ Planned(p)[j] = jobs[j]
                        \/ j \in FreeIds /\ \E m \in Members : Planned(p)[j] = ReminderOf(m, p)
  BY <1>4
<1> QED
  BY <1>7, <1>8, <1>9

-----------------------------------------------------------------------------
(* Types.                                                                  *)

\* What has happened stays in the history.
LEMMA HistoryGrows ==
    ASSUME history \in Seq(Mishaps), NEW what \in Mishaps, history' = Append(history, what)
    PROVE  /\ history' \in Seq(Mishaps)
           /\ \A other : Happened(other)' <=> Happened(other) \/ other = what
<1>1. /\ Append(history, what) \in Seq(Mishaps)
      /\ Len(Append(history, what)) = Len(history) + 1
      /\ \A i \in 1 .. Len(history) : Append(history, what)[i] = history[i]
      /\ Append(history, what)[Len(history) + 1] = what
  BY AppendProperties
<1>2. DOMAIN history = 1 .. Len(history) /\ Len(history) \in Nat
      /\ DOMAIN history' = 1 .. Len(history) + 1
  BY <1>1
<1> QED
  BY <1>1, <1>2 DEF Happened

\* A row of the job table changes its state only, as long as it is there.
LEMMA StateOfRow ==
    ASSUME JobsTyped, NEW j \in JobIds, jobs[j].state # "free",
           NEW state \in {"waiting", "locked", "done"}
    PROVE  LET x == [jobs[j] EXCEPT !.state = state] IN
           /\ x \in Job /\ RowFits(x) /\ x.state = state
           /\ x.kind = jobs[j].kind /\ x.of = jobs[j].of /\ x.key = jobs[j].key
BY DEF JobsTyped, Job, RowFits

\* One row of the table is written.
LEMMA OneRow ==
    ASSUME JobsTyped, NEW j \in JobIds, NEW x \in Job, RowFits(x), jobs' = [jobs EXCEPT ![j] = x]
    PROVE  /\ JobsTyped' /\ jobs'[j] = x
           /\ \A i \in JobIds \ {j} : jobs'[i] = jobs[i]
BY DEF JobsTyped

\* The rows that are inserted, and the one that is none.
LEMMA NewRows ==
    /\ NoJob \in Job /\ RowFits(NoJob) /\ NoJob.state = "free" /\ NoJob.kind = "none"
    /\ NoJob.key = NoKey /\ NoJob.of = NoKey
    /\ \A s \in Sources, key \in {NoKey} \cup PollIds : key \in {NoKey, <<s>>} =>
         /\ PollOf(s, key) \in Job /\ RowFits(PollOf(s, key))
         /\ PollOf(s, key).state = "waiting" /\ PollOf(s, key).kind = "poll"
         /\ PollOf(s, key).of = <<s>> /\ PollOf(s, key).key = key
    /\ \A m \in Members, p \in Proposals :
         /\ ReminderOf(m, p) \in Job /\ RowFits(ReminderOf(m, p))
         /\ ReminderOf(m, p).state = "waiting" /\ ReminderOf(m, p).kind = "reminder"
         /\ ReminderOf(m, p).of = <<m, p>> /\ ReminderOf(m, p).key = <<m, p>>
<1>1. \A s \in Sources, key \in {NoKey} \cup PollIds : key \in {NoKey, <<s>>} =>
         /\ PollOf(s, key) \in Job /\ RowFits(PollOf(s, key))
         /\ PollOf(s, key).state = "waiting" /\ PollOf(s, key).kind = "poll"
         /\ PollOf(s, key).of = <<s>> /\ PollOf(s, key).key = key
  BY IdsApart DEF PollOf, Job, RowFits
<1>2. \A m \in Members, p \in Proposals :
         /\ ReminderOf(m, p) \in Job /\ RowFits(ReminderOf(m, p))
         /\ ReminderOf(m, p).state = "waiting" /\ ReminderOf(m, p).kind = "reminder"
         /\ ReminderOf(m, p).of = <<m, p>> /\ ReminderOf(m, p).key = <<m, p>>
  BY IdsApart DEF ReminderOf, Job, RowFits
<1>3. /\ NoJob \in Job /\ RowFits(NoJob) /\ NoJob.state = "free" /\ NoJob.kind = "none"
      /\ NoJob.key = NoKey /\ NoJob.of = NoKey
  BY DEF NoJob, Job, RowFits, NoKey
<1> QED
  BY <1>1, <1>2, <1>3

\* Nothing is there at first.
LEMMA TypedInit == Init => Typed /\ SourcesLeft
<1> SUFFICES ASSUME Init PROVE Typed /\ SourcesLeft
  OBVIOUS
<1>1. JobsTyped
  BY NewRows DEF Init, QueueInit, JobsTyped
<1>2. DueTyped
  BY DEF Init, QueueInit, DueTyped, IsDue
<1>3. WorkerTyped
  BY DEF Init, QueueInit, WorkerTyped, Idle, Busy, Phases, NoKey
<1>4. sources \in [Sources -> Source]
  BY DEF Init, QueueInit, NoSource, Source
<1>5. /\ GroupTyped
      /\ ahead \subseteq Proposals /\ history \in Seq(Mishaps) /\ scene \in Scenes
  BY DEF Init, QueueInit, GroupTyped, Ask, NoAsk, Asked
<1>6. mails \in [Members \X Proposals -> Nat]
  BY DEF Init, QueueInit
<1>7. DOMAIN calls = Kinds /\ \A kind \in Kinds : DOMAIN calls[kind] = CallShape
      /\ calls[kind].phase = "idle"
  BY DEF Init, NoCall, CallShape
<1>8. SourcesLeft
  BY <1>7 DEF SourcesLeft, Creating, Kinds
<1> QED
  BY <1>1, <1>2, <1>3, <1>4, <1>5, <1>6, <1>7, <1>8 DEF Typed

\* claim_job locks a job that is due.
LEMMA TypedClaim ==
    ASSUME Typed, ClaimJob
    PROVE  /\ JobsTyped' /\ DueTyped' /\ WorkerTyped'
           /\ \E j \in JobIds :
                /\ jobs[j].state = "waiting" /\ ~FirstRun(j) /\ IsDue(j)
                /\ jobs' = [jobs EXCEPT ![j].state = "locked"]
                /\ jobs'[j].state = "locked" /\ jobs'[j].kind = jobs[j].kind
                /\ jobs'[j].of = jobs[j].of /\ jobs'[j].key = jobs[j].key
                /\ \A i \in JobIds \ {j} : jobs'[i] = jobs[i]
                /\ worker'.phase = "claimed" /\ worker'.job = j
                /\ worker'.kind = jobs[j].kind /\ worker'.of = jobs[j].of
                /\ \A i \in JobIds : IsDue(i)' => IsDue(i)
                /\ ~Busy
<1>1. PICK j \in JobIds \ Held :
        /\ IsDue(j) /\ jobs' = [jobs EXCEPT ![j].state = "locked"]
        /\ worker' = [phase |-> "claimed", job |-> j, kind |-> jobs[j].kind, of |-> jobs[j].of]
        /\ due' = {e \in due : e[1] # j}
  BY DEF ClaimJob
<1>2. jobs[j].state = "waiting" /\ ~FirstRun(j) /\ ~Busy
  BY <1>1 DEF Typed, DueTyped, ClaimJob, At, Busy
<1> DEFINE x == [jobs[j] EXCEPT !.state = "locked"]
<1>3. /\ x \in Job /\ RowFits(x) /\ x.state = "locked"
      /\ x.kind = jobs[j].kind /\ x.of = jobs[j].of /\ x.key = jobs[j].key
  BY <1>2, StateOfRow DEF Typed
<1>4. jobs' = [jobs EXCEPT ![j] = x]
  BY <1>1
<1> HIDE DEF x
<1>5. JobsTyped' /\ jobs'[j] = x /\ \A i \in JobIds \ {j} : jobs'[i] = jobs[i]
  BY <1>3, <1>4, OneRow DEF Typed
<1>6. \A i \in JobIds : IsDue(i)' => IsDue(i) /\ i # j
  <2> SUFFICES ASSUME NEW i \in JobIds, IsDue(i)' PROVE IsDue(i) /\ i # j
    OBVIOUS
  <2>1. <<i, i>> \in due /\ <<i, i>>[1] # j
    BY <1>1 DEF IsDue
  <2> QED
    BY <2>1 DEF IsDue
<1>7. DueTyped'
  BY <1>5, <1>6 DEF Typed, DueTyped, FirstRun, ClaimJob
<1>8. jobs[j] \in Job /\ RowFits(jobs[j]) /\ jobs[j].kind # "none"
  BY <1>2 DEF Typed, JobsTyped, RowFits
<1>9. WorkerTyped'
  BY <1>1, <1>3, <1>5, <1>8 DEF WorkerTyped, Job, RowFits, Busy, Phases
<1> QED
  BY <1>1, <1>2, <1>3, <1>5, <1>6, <1>7, <1>9

\* complete_job and retry_job release the row, if it is still there.
LEMMA TypedRelease ==
    ASSUME Typed, CompleteJob \/ RetryJob
    PROVE  /\ JobsTyped' /\ DueTyped' /\ WorkerTyped'
           /\ worker'.kind = "none" /\ worker'.job = 0 /\ worker'.phase \in {"idle", "down"}
           /\ worker.job \in JobIds
           /\ \A i \in JobIds \ {worker.job} : jobs'[i] = jobs[i]
           /\ \/ jobs'[worker.job] = jobs[worker.job] /\ worker.kind = "reminder"
              \/ /\ jobs[worker.job].kind = worker.kind /\ jobs[worker.job].of = worker.of
                 /\ jobs[worker.job].state = "locked"
                 /\ \/ jobs'[worker.job] = NoJob /\ jobs[worker.job].key = NoKey /\ CompleteJob
                    \/ /\ jobs'[worker.job].kind = worker.kind /\ jobs'[worker.job].of = worker.of
                       /\ jobs'[worker.job].key = jobs[worker.job].key
                       /\ \/ CompleteJob /\ jobs'[worker.job].state = "done"
                          \/ RetryJob /\ jobs'[worker.job].state = "waiting"
<1> DEFINE w == worker.job
           done == [jobs[w] EXCEPT !.state = "done"]
           again == [jobs[w] EXCEPT !.state = "waiting"]
<1>1. w \in JobIds /\ Busy
      /\ \/ /\ jobs[w].state = "locked" /\ jobs[w].kind = worker.kind /\ jobs[w].of = worker.of
         \/ worker.kind = "reminder" /\ jobs[w] = NoJob
  BY DEF Typed, WorkerTyped, CompleteJob, RetryJob, At, Busy
<1>2. worker' \in {Idle, Down} /\ UNCHANGED <<due, ahead>>
  BY DEF CompleteJob, RetryJob
<1>3. /\ worker'.kind = "none" /\ worker'.job = 0 /\ worker'.phase \in {"idle", "down"}
      /\ WorkerTyped'
  BY <1>2 DEF Idle, Down, WorkerTyped, Busy, Phases, NoKey
<1>4. CASE jobs[w].state # "locked"
  <2>1. jobs' = jobs
    BY <1>4 DEF CompleteJob, RetryJob, Row
  <2>2. JobsTyped' /\ DueTyped'
    BY <2>1, <1>2 DEF Typed, JobsTyped, DueTyped, IsDue, FirstRun
  <2> QED
    BY <1>1, <1>3, <1>4, <2>1, <2>2
<1>5. CASE jobs[w].state = "locked"
  <2>1. /\ done \in Job /\ RowFits(done) /\ done.state = "done"
        /\ done.kind = jobs[w].kind /\ done.of = jobs[w].of /\ done.key = jobs[w].key
        /\ again \in Job /\ RowFits(again) /\ again.state = "waiting"
        /\ again.kind = jobs[w].kind /\ again.of = jobs[w].of /\ again.key = jobs[w].key
    BY <1>1, <1>5, StateOfRow DEF Typed
  <2>2. \/ CompleteJob /\ jobs[w].key = NoKey /\ jobs' = [jobs EXCEPT ![w] = NoJob]
        \/ CompleteJob /\ jobs' = [jobs EXCEPT ![w] = done]
        \/ RetryJob /\ jobs' = [jobs EXCEPT ![w] = again]
    BY <1>1, <1>5 DEF CompleteJob, RetryJob, Row
  <2>3. jobs[w].kind = worker.kind /\ jobs[w].of = worker.of
    BY <1>1, <1>5, NewRows
  <2> HIDE DEF done, again
  <2>4. JobsTyped' /\ \A i \in JobIds \ {w} : jobs'[i] = jobs[i]
    BY <1>1, <2>1, <2>2, NewRows, OneRow DEF Typed
  <2>5. \/ jobs'[w] = NoJob /\ jobs[w].key = NoKey /\ CompleteJob
        \/ jobs'[w] = done /\ CompleteJob
        \/ jobs'[w] = again /\ RetryJob
    BY <1>1, <2>2 DEF Typed, JobsTyped
  <2>6. ~IsDue(w)
    BY <1>1, <1>5 DEF Typed, DueTyped
  <2>7. DueTyped'
    BY <1>2, <2>4, <2>6 DEF Typed, DueTyped, IsDue, FirstRun
  <2> QED
    BY <1>1, <1>3, <1>5, <2>1, <2>3, <2>4, <2>5, <2>7
<1> QED
  BY <1>4, <1>5

\* The worker dies, or is started again.
LEMMA TypedDown ==
    ASSUME Typed, Die \/ Restart
    PROVE  /\ JobsTyped' /\ DueTyped' /\ WorkerTyped'
           /\ worker'.kind = "none" /\ worker'.job = 0 /\ worker'.phase \in {"idle", "down"}
           /\ UNCHANGED <<jobs, due, sources, group, ahead, mails>>
<1>1. worker' \in {Idle, Down} /\ UNCHANGED <<jobs, due, sources, group, ahead, mails>>
  BY DEF Die, Restart
<1>2. /\ worker'.kind = "none" /\ worker'.job = 0 /\ worker'.phase \in {"idle", "down"}
      /\ WorkerTyped'
  BY <1>1 DEF Idle, Down, WorkerTyped, Busy, Phases, NoKey
<1>3. JobsTyped' /\ DueTyped'
  BY <1>1 DEF Typed, JobsTyped, DueTyped, IsDue, FirstRun
<1> QED
  BY <1>1, <1>2, <1>3

\* The handlers move on to another phase with the same job in hand.
LEMMA NextPhase ==
    ASSUME Typed, NEW phase \in Phases, Becomes(phase), Busy, phase \notin {"idle", "down"},
           phase = "fetching" => worker.kind = "poll", phase = "sending" => worker.kind = "reminder",
           jobs'[worker.job] = jobs[worker.job]
    PROVE  /\ WorkerTyped' /\ worker'.phase = phase /\ worker'.job = worker.job
           /\ worker'.kind = worker.kind /\ worker'.of = worker.of
BY DEF Typed, WorkerTyped, Becomes, Busy

\* handle_ics_poll and handle_reminder_send look for the source, or the group.
LEMMA TypedStart ==
    ASSUME Typed, StartPoll \/ StartReminder
    PROVE  /\ JobsTyped' /\ DueTyped' /\ WorkerTyped'
           /\ worker.phase = "claimed" /\ UNCHANGED <<jobs, due, sources, group, ahead, mails, history>>
           /\ worker'.job = worker.job /\ worker'.kind = worker.kind /\ worker'.of = worker.of
           /\ \/ /\ worker.kind = "poll" /\ worker.of[1] \in Live /\ worker'.phase = "fetching"
              \/ /\ worker.kind = "poll" /\ worker.of[1] \notin Live /\ worker'.phase = "handled"
              \/ worker.kind = "reminder" /\ worker'.phase \in {"handled", "sending"}
<1>1. worker.phase = "claimed" /\ Busy /\ UNCHANGED <<jobs, due, sources, group, ahead, mails, history>>
  BY DEF StartPoll, StartReminder, At, Busy
<1>2. JobsTyped' /\ DueTyped'
  BY <1>1 DEF Typed, JobsTyped, DueTyped, IsDue, FirstRun
<1>3. CASE StartPoll
  <2>1. worker.kind = "poll" /\ Becomes(IF worker.of[1] \in Live THEN "fetching" ELSE "handled")
    BY <1>3 DEF StartPoll
  <2>2. CASE worker.of[1] \in Live
    BY <1>1, <1>2, <2>1, <2>2, NextPhase DEF Phases
  <2>3. CASE worker.of[1] \notin Live
    BY <1>1, <1>2, <2>1, <2>3, NextPhase DEF Phases
  <2> QED
    BY <2>2, <2>3
<1>4. CASE StartReminder
  <2>1. worker.kind = "reminder" /\ \E phase \in {"handled", "sending"} : Becomes(phase)
    BY <1>4 DEF StartReminder
  <2>2. PICK phase \in {"handled", "sending"} : Becomes(phase)
    BY <2>1
  <2> QED
    BY <1>1, <1>2, <2>1, <2>2, NextPhase DEF Phases
<1> QED
  BY <1>3, <1>4

\* A poll that is parsed plans the next one, one that is not modified does not, one that
\* fails, whatever it says in the source, waits again, and one without its source ends the
\* process.
LEMMA TypedEndPoll ==
    ASSUME Typed, EndPoll
    PROVE  /\ JobsTyped' /\ DueTyped' /\ WorkerTyped' /\ sources' \in [Sources -> Source]
           /\ worker.phase = "fetching" /\ worker.kind = "poll" /\ worker.job \in JobIds
           /\ jobs[worker.job].state = "locked" /\ jobs[worker.job].kind = "poll"
           /\ jobs[worker.job].of = worker.of
           /\ UNCHANGED <<due, group, ahead, mails, history>>
           /\ \/ /\ worker.of[1] \notin Live /\ UNCHANGED <<jobs, sources>>
                 /\ worker'.kind = "none" /\ worker'.job = 0 /\ worker'.phase = "down"
              \/ \E s \in Sources :
                   /\ worker.of = <<s>> /\ s \in Live
                   /\ worker'.job = worker.job /\ worker'.kind = "poll" /\ worker'.of = worker.of
                   /\ \A t \in Sources \ {s} : sources'[t] = sources[t]
                   /\ sources'[s].state = "live" /\ sources'[s].kind = sources[s].kind
                   /\ worker'.phase = "handled" =>
                        sources'[s].cooling /\ sources'[s].status # "pending"
                   /\ \/ /\ worker'.phase = "handled"
                         /\ \E j \in JobIds \ {worker.job} :
                              /\ jobs[j].state = "free" /\ jobs'[j].state = "waiting"
                              /\ jobs'[j].kind = "poll" /\ jobs'[j].of = <<s>>
                              /\ jobs'[j].key = NoKey
                              /\ \A i \in JobIds \ {j} : jobs'[i] = jobs[i]
                      \/ /\ worker'.phase = "handled" /\ jobs' = jobs
                         /\ sources[s].etag /\ sources'[s].etag
                      \/ /\ worker'.phase = "failed" /\ jobs' = jobs
                         /\ sources'[s].etag = sources[s].etag
<1>1. /\ worker.phase = "fetching" /\ worker.kind = "poll" /\ worker.job \in JobIds
      /\ jobs[worker.job].state = "locked" /\ jobs[worker.job].kind = "poll"
      /\ jobs[worker.job].of = worker.of /\ UNCHANGED <<due, group, ahead, mails, history>>
      /\ Busy /\ worker.of \in PollIds
  BY DEF Typed, WorkerTyped, EndPoll, At, Busy
<1>2. PICK s \in Sources : worker.of = <<s>> /\ worker.of[1] = s
  BY <1>1, IdsApart
<1>3. CASE s \notin Live
  <2>1. worker' = Down /\ UNCHANGED <<jobs, sources>>
    BY <1>2, <1>3 DEF EndPoll
  <2>2. worker'.kind = "none" /\ worker'.job = 0 /\ worker'.phase = "down" /\ WorkerTyped'
    BY <2>1 DEF Idle, Down, WorkerTyped, Busy, Phases, NoKey
  <2>3. JobsTyped' /\ DueTyped' /\ sources' \in [Sources -> Source]
    BY <1>1, <2>1 DEF Typed, JobsTyped, DueTyped, IsDue, FirstRun
  <2> QED
    BY <1>1, <1>2, <1>3, <2>1, <2>2, <2>3
<1>4. CASE s \in Live
  <2>1. PollParsed \/ PollUnchanged \/ PollFailed \/ PollRaised
    BY <1>2, <1>4 DEF EndPoll
  <2>2. sources[s] \in Source /\ sources[s].state = "live"
    BY <1>4 DEF Typed, Live
  <2>3. ASSUME NEW status \in {"ok", "error"}, NEW etag \in BOOLEAN, Polled(status, etag)
        PROVE  /\ sources' \in [Sources -> Source] /\ \A t \in Sources \ {s} : sources'[t] = sources[t]
               /\ sources'[s].state = "live" /\ sources'[s].kind = sources[s].kind
               /\ sources'[s].cooling /\ sources'[s].status # "pending" /\ sources'[s].etag = etag
    <3>1. sources' = [sources EXCEPT ![s] = [sources[s] EXCEPT !.status = status,
                                               !.cooling = TRUE, !.etag = etag]]
      BY <1>2, <2>3 DEF Polled
    <3> QED
      BY <2>2, <3>1 DEF Typed, Source
  <2>4. CASE PollParsed
    <3>1. PICK etag \in BOOLEAN : Polled("ok", etag)
      BY <2>4 DEF PollParsed
    <3>2. PICK j \in JobIds \ {worker.job} :
            jobs[j].state = "free" /\ jobs' = [jobs EXCEPT ![j] = PollOf(s, NoKey)]
      BY <1>2, <2>4, NewIdIsFree DEF PollParsed
    <3>3. JobsTyped' /\ jobs'[j] = PollOf(s, NoKey) /\ \A i \in JobIds \ {j} : jobs'[i] = jobs[i]
      BY <3>2, NewRows, OneRow DEF Typed
    <3>4. DueTyped'
      BY <1>1, <3>2, <3>3 DEF Typed, DueTyped, IsDue, FirstRun
    <3>5. /\ WorkerTyped' /\ worker'.phase = "handled" /\ worker'.job = worker.job
          /\ worker'.kind = "poll" /\ worker'.of = worker.of
      BY <1>1, <2>4, <3>2, <3>3, NextPhase DEF PollParsed, Phases
    <3>6. /\ jobs'[j].state = "waiting" /\ jobs'[j].kind = "poll" /\ jobs'[j].of = <<s>>
          /\ jobs'[j].key = NoKey
      BY <3>3, NewRows
    <3> QED
      BY <1>1, <1>2, <1>4, <2>3, <3>1, <3>2, <3>3, <3>4, <3>5, <3>6
  <2>5. CASE PollUnchanged
    <3>1. Polled("ok", TRUE) /\ jobs' = jobs /\ sources[s].etag
      BY <1>2, <2>5 DEF PollUnchanged
    <3>2. JobsTyped' /\ DueTyped'
      BY <1>1, <3>1 DEF Typed, JobsTyped, DueTyped, IsDue, FirstRun
    <3>3. /\ WorkerTyped' /\ worker'.phase = "handled" /\ worker'.job = worker.job
          /\ worker'.kind = "poll" /\ worker'.of = worker.of
      BY <1>1, <2>5, <3>1, NextPhase DEF PollUnchanged, Phases
    <3> QED
      BY <1>1, <1>2, <1>4, <2>3, <3>1, <3>2, <3>3
  <2>6. CASE PollFailed
    <3>1. Polled("error", sources[s].etag) /\ jobs' = jobs /\ sources[s].etag \in BOOLEAN
      BY <1>2, <2>2, <2>6 DEF PollFailed, Source
    <3>2. JobsTyped' /\ DueTyped'
      BY <1>1, <3>1 DEF Typed, JobsTyped, DueTyped, IsDue, FirstRun
    <3>3. /\ WorkerTyped' /\ worker'.phase = "failed" /\ worker'.job = worker.job
          /\ worker'.kind = "poll" /\ worker'.of = worker.of
      BY <1>1, <2>6, <3>1, NextPhase DEF PollFailed, Phases
    <3> QED
      BY <1>1, <1>2, <1>4, <2>3, <3>1, <3>2, <3>3
  <2>7. CASE PollRaised
    <3>1. jobs' = jobs /\ sources' = sources
      BY <2>7 DEF PollRaised
    <3>2. JobsTyped' /\ DueTyped' /\ sources' \in [Sources -> Source]
      BY <1>1, <3>1 DEF Typed, JobsTyped, DueTyped, IsDue, FirstRun
    <3>3. /\ WorkerTyped' /\ worker'.phase = "failed" /\ worker'.job = worker.job
          /\ worker'.kind = "poll" /\ worker'.of = worker.of
      BY <1>1, <2>7, <3>1, NextPhase DEF PollRaised, Phases
    <3> QED
      BY <1>1, <1>2, <1>4, <2>2, <3>1, <3>2, <3>3
  <2> QED
    BY <2>1, <2>4, <2>5, <2>6, <2>7
<1> QED
  BY <1>3, <1>4

\* A mail is sent, or not, or reported as failed although it was sent.
LEMMA TypedEndReminder ==
    ASSUME Typed, EndReminder
    PROVE  /\ JobsTyped' /\ DueTyped' /\ WorkerTyped' /\ mails' \in [Members \X Proposals -> Nat]
           /\ history' \in Seq(Mishaps) /\ UNCHANGED <<jobs, due, sources, group, ahead>>
           /\ worker.phase = "sending" /\ worker.kind = "reminder"
           /\ worker'.job = worker.job /\ worker'.kind = "reminder" /\ worker'.of = worker.of
           /\ \/ /\ worker'.phase = "handled" /\ history' = history
                 /\ mails' = [mails EXCEPT ![worker.of] = @ + 1]
              \/ worker'.phase = "failed" /\ UNCHANGED <<mails, history>>
              \/ /\ worker'.phase = "failed" /\ history' = Append(history, "half sent")
                 /\ mails' = [mails EXCEPT ![worker.of] = @ + 1]
<1>1. /\ worker.phase = "sending" /\ worker.kind = "reminder" /\ Busy
      /\ worker.of \in Members \X Proposals /\ UNCHANGED <<jobs, due, sources, group, ahead>>
  BY DEF Typed, WorkerTyped, EndReminder, At, Busy, ReminderIds
<1>2. JobsTyped' /\ DueTyped'
  BY <1>1 DEF Typed, JobsTyped, DueTyped, IsDue, FirstRun
<1>3. PICK phase \in {"handled", "failed"} :
        /\ Becomes(phase)
        /\ \/ /\ phase = "handled" /\ history' = history
              /\ mails' = [mails EXCEPT ![worker.of] = @ + 1]
           \/ phase = "failed" /\ UNCHANGED <<mails, history>>
           \/ /\ phase = "failed" /\ history' = Append(history, "half sent")
              /\ mails' = [mails EXCEPT ![worker.of] = @ + 1]
  BY DEF EndReminder
<1>4. /\ WorkerTyped' /\ worker'.phase = phase /\ worker'.job = worker.job
      /\ worker'.kind = "reminder" /\ worker'.of = worker.of
  BY <1>1, <1>3, NextPhase DEF Phases
<1>5. mails' \in [Members \X Proposals -> Nat]
  <2>1. mails \in [Members \X Proposals -> Nat] /\ mails[worker.of] + 1 \in Nat
    BY <1>1 DEF Typed
  <2>2. mails' = mails \/ mails' = [mails EXCEPT ![worker.of] = mails[worker.of] + 1]
    BY <1>3
  <2> QED
    BY <1>1, <2>1, <2>2, Zenon
<1>6. history' \in Seq(Mishaps)
  BY <1>3, HistoryGrows DEF Typed, Mishaps
<1> QED
  BY <1>1, <1>2, <1>3, <1>4, <1>5, <1>6

\* run_after passes for one job, and for no other.
LEMMA DueSinceAdds ==
    ASSUME NEW j, due' = DueSince(j)
    PROVE  \A i : IsDue(i)' => IsDue(i) \/ i = j
<1> SUFFICES ASSUME NEW i, <<i, i>> \in due' PROVE <<i, i>> \in due \/ i = j
  BY DEF IsDue
<1>1. <<i, i>> \in due \/ \E k : <<i, i>> = <<k, j>>
  BY DEF DueSince
<1> QED
  BY <1>1

\* run_after passes for a job that waits, a cooldown ends, or the hour of reminders comes.
LEMMA TypedTime ==
    ASSUME Typed,
           \/ \E j \in JobIds : BecomesDue(j)
           \/ \E s \in Sources : CooldownEnds(s)
           \/ \E p \in Proposals : ReminderHour(p)
    PROVE  /\ JobsTyped' /\ DueTyped' /\ WorkerTyped' /\ sources' \in [Sources -> Source]
           /\ UNCHANGED <<jobs, worker, group, mails, history>>
           /\ ahead' \subseteq ahead
<1>1. UNCHANGED <<jobs, worker, group, mails, history>> /\ ahead' \subseteq ahead
  BY DEF BecomesDue, CooldownEnds, ReminderHour
<1>2. sources' \in [Sources -> Source]
  <2>1. CASE \E s \in Sources : CooldownEnds(s)
    <3>1. PICK s \in Sources : sources' = [sources EXCEPT ![s].cooling = FALSE]
      BY <2>1 DEF CooldownEnds
    <3>2. sources[s] \in Source
      BY DEF Typed
    <3>3. [sources[s] EXCEPT !.cooling = FALSE] \in Source
      BY <3>2 DEF Source
    <3> QED
      BY <3>1, <3>3 DEF Typed
  <2>2. CASE UNCHANGED sources
    BY <2>2 DEF Typed
  <2> QED
    BY <2>1, <2>2 DEF BecomesDue, ReminderHour
<1>3. JobsTyped' /\ WorkerTyped'
  BY <1>1 DEF Typed, JobsTyped, WorkerTyped, Busy
<1>4. \A i \in JobIds : IsDue(i)' => jobs[i].state = "waiting" /\ ~FirstRun(i)
  <2>1. CASE \E j \in JobIds : BecomesDue(j)
    <3>1. PICK j \in JobIds : jobs[j].state = "waiting" /\ ~FirstRun(j) /\ due' = DueSince(j)
      BY <2>1 DEF BecomesDue
    <3> QED
      BY <3>1, DueSinceAdds DEF Typed, DueTyped
  <2>2. CASE UNCHANGED due
    BY <2>2 DEF Typed, DueTyped, IsDue
  <2> QED
    BY <2>1, <2>2 DEF CooldownEnds, ReminderHour
<1>5. DueTyped'
  BY <1>1, <1>4 DEF DueTyped, FirstRun
<1> QED
  BY <1>1, <1>2, <1>3, <1>5

\* What a request has read, and the rows it holds, are its own.
LEMMA AskTyped ==
    ASSUME GroupTyped, NEW r \in Requests, NEW ask \in Ask, Asks(r, ask),
           ask.phase # "idle" => ask.pid \in Proposals
    PROVE  /\ GroupTyped' /\ group'.asks[r] = ask
           /\ \A q \in Requests \ {r} : group'.asks[q] = group.asks[q]
           /\ group'.state = group.state /\ group'.pid = group.pid
           /\ group'.overtaken = group.overtaken /\ group'.late = group.late
<1> USE DEF GroupTyped
<1>1. group' = [group EXCEPT !.asks = [group.asks EXCEPT ![r] = ask]]
  BY DEF Asks
<1>2. [group.asks EXCEPT ![r] = ask] \in [Requests -> Ask]
  OBVIOUS
<1>3. /\ group'.asks[r] = ask /\ \A q \in Requests \ {r} : group'.asks[q] = group.asks[q]
      /\ group'.state = group.state /\ group'.pid = group.pid
      /\ group'.overtaken = group.overtaken /\ group'.late = group.late
      /\ group'.asks \in [Requests -> Ask]
  BY <1>1, <1>2
<1>4. group' \in [state : {"open", "confirmed", "deleted"}, pid : Proposals \cup {"none"},
                  asks : [Requests -> Ask], overtaken : SUBSET Requests, late : BOOLEAN]
  BY <1>1, <1>2
<1>5. \A q \in Requests : ~Asked(q, "idle")' => group'.asks[q].pid \in Proposals
  BY <1>3 DEF Asked
<1> QED
  BY <1>3, <1>4, <1>5

\* No request is asked for is one that may begin.
LEMMA NoAskTyped ==
    /\ NoAsk \in Ask /\ NoAsk.phase = "idle" /\ NoAsk.rows = {} /\ ~NoAsk.plans
    /\ \A r : ~Current(r) \/ ~Asked(r, "idle")
BY DEF NoAsk, Ask, Current

\* The request that commits overtakes all that are on their way.
LEMMA SettledTyped ==
    ASSUME GroupTyped, NEW r \in Requests, NEW state \in {"open", "confirmed"},
           NEW pid \in Proposals \cup {"none"}, state = "confirmed" <=> pid # "none",
           Settled(r, state, pid)
    PROVE  /\ GroupTyped' /\ group'.state = state /\ group'.pid = pid
           /\ group'.asks[r] = NoAsk
           /\ \A q \in Requests \ {r} : group'.asks[q] = group.asks[q]
           /\ \A q \in Requests : ~Current(q)'
           /\ ~group'.late => ~group.late /\ r \notin group.overtaken
<1> USE DEF GroupTyped
<1>1. /\ group'.state = state /\ group'.pid = pid /\ group'.asks = [group.asks EXCEPT ![r] = NoAsk]
      /\ group'.overtaken = InFlight \ {r} /\ group'.late = (group.late \/ r \in group.overtaken)
  BY DEF Settled
<1>2. /\ group'.asks[r] = NoAsk /\ \A q \in Requests \ {r} : group'.asks[q] = group.asks[q]
      /\ group'.asks \in [Requests -> Ask]
  BY <1>1, NoAskTyped
<1>3. group' \in [state : {"open", "confirmed", "deleted"}, pid : Proposals \cup {"none"},
                  asks : [Requests -> Ask], overtaken : SUBSET Requests, late : BOOLEAN]
  BY <1>1, <1>2 DEF Settled, InFlight
<1>4. \A q \in Requests : ~Asked(q, "idle")' => group'.asks[q].pid \in Proposals /\ q \in InFlight \ {r}
  BY <1>2, NoAskTyped DEF Asked, InFlight
<1>5. \A q \in Requests : ~Current(q)'
  BY <1>1, <1>4 DEF Current
<1> QED
  BY <1>1, <1>2, <1>3, <1>4, <1>5

\* confirm_group plans the reminders in free rows, or drops them.
LEMMA TypedConfirm ==
    ASSUME Typed, NEW r \in Requests, ConfirmGroup(r), NEW p, p = group.asks[r].pid
    PROVE  /\ JobsTyped' /\ DueTyped' /\ WorkerTyped' /\ p \in Proposals
           /\ Asked(r, "confirming") /\ Settled(r, "confirmed", p)
           /\ UNCHANGED <<due, worker, sources, ahead, mails, history>>
           /\ \/ jobs' = jobs
              \/ /\ group.asks[r].plans
                 /\ \A j \in JobIds :
                      \/ jobs'[j] = jobs[j]
                      \/ /\ jobs[j].state = "free" /\ j # worker.job
                         /\ \E m \in Members : jobs'[j] = ReminderOf(m, p)
                 /\ \A i, j \in JobIds, m \in Members :
                      jobs'[i] = ReminderOf(m, p) /\ jobs'[j] = ReminderOf(m, p) => i = j
<1>1. /\ UNCHANGED <<due, worker, sources, ahead, mails, history>>
      /\ Asked(r, "confirming") /\ Settled(r, "confirmed", p)
  BY DEF ConfirmGroup
<1>2. p \in Proposals
  BY <1>1 DEF Typed, GroupTyped, Asked
<1>3. CASE jobs' = jobs
  BY <1>1, <1>2, <1>3 DEF Typed, JobsTyped, DueTyped, WorkerTyped, Busy, IsDue, FirstRun
<1>4. CASE jobs' # jobs
  <2>1. /\ jobs' = Planned(p) /\ group.asks[r].plans
        /\ (\A m \in Members : ~HasKey(<<m, p>>)) /\ Rows # {}
    BY <1>4 DEF ConfirmGroup, Collides
  <2>2. /\ DOMAIN jobs' = JobIds
        /\ \A j \in JobIds :
              \/ jobs'[j] = jobs[j]
              \/ j \in FreeIds /\ \E m \in Members : jobs'[j] = ReminderOf(m, p)
        /\ \A i, j \in FreeIds, m \in Members :
              jobs'[i] = ReminderOf(m, p) /\ jobs'[j] = ReminderOf(m, p)
                /\ jobs'[i] # jobs[i] /\ jobs'[j] # jobs[j] => i = j
    BY <1>1, <2>1, PlannedRows
  <2>3. \A j \in FreeIds : j \in JobIds /\ jobs[j].state = "free" /\ j # worker.job
    BY DEF FreeIds
  <2>4. \A j \in JobIds, m \in Members : jobs[j] # ReminderOf(m, p)
    BY <1>2, <2>1, NewRows DEF HasKey
  <2>5. \A j \in JobIds : jobs'[j] \in Job /\ RowFits(jobs'[j])
    BY <1>2, <2>2, NewRows DEF Typed, JobsTyped
  <2>6. jobs' = Planned(p) /\ Planned(p) = [j \in JobIds |-> Planned(p)[j]]
    BY <2>1 DEF Planned
  <2>7. JobsTyped'
    BY <2>1, <2>5, <2>6 DEF JobsTyped
  <2>8. \A j \in JobIds : jobs[j].state # "free" \/ j = worker.job => jobs'[j] = jobs[j]
    BY <2>2, <2>3
  <2>9. DueTyped'
    BY <1>1, <2>8 DEF Typed, DueTyped, IsDue, FirstRun
  <2>10. WorkerTyped'
    BY <1>1, <2>8 DEF Typed, WorkerTyped, Busy
  <2>11. \A i, j \in JobIds, m \in Members :
           jobs'[i] = ReminderOf(m, p) /\ jobs'[j] = ReminderOf(m, p) => i = j
    BY <2>2, <2>3, <2>4
  <2> QED
    BY <1>1, <1>2, <2>1, <2>2, <2>3, <2>7, <2>9, <2>10, <2>11
<1> QED
  BY <1>3, <1>4

\* unconfirm_group takes back the jobs that it has deleted, and no other.
LEMMA TypedUnconfirm ==
    ASSUME Typed, HeldFits, NEW r \in Requests, UnconfirmGroup(r)
    PROVE  /\ JobsTyped' /\ DueTyped' /\ WorkerTyped'
           /\ UNCHANGED <<worker, sources, ahead, mails, history>>
           /\ Asked(r, "reopened") /\ Settled(r, "open", "none")
           /\ \A j \in JobIds : IF j \in group.asks[r].rows THEN jobs'[j] = NoJob
                                                         ELSE jobs'[j] = jobs[j]
           /\ \A j \in JobIds : IsDue(j)' => IsDue(j)
<1> DEFINE gone == group.asks[r].rows
<1>1. /\ UNCHANGED <<worker, sources, ahead, mails, history>>
      /\ Asked(r, "reopened") /\ Settled(r, "open", "none")
      /\ jobs' = [j \in JobIds |-> IF j \in gone THEN NoJob ELSE jobs[j]]
      /\ due' = {e \in due : e[1] \notin gone /\ e[2] \notin gone}
  BY DEF UnconfirmGroup
<1>2. \A j \in gone : jobs[j].kind = "reminder"
  BY DEF HeldFits
<1> HIDE DEF gone
<1>3. \A j \in JobIds : IsDue(j)' => IsDue(j) /\ j \notin gone
  <2> SUFFICES ASSUME NEW j \in JobIds, <<j, j>> \in due' PROVE <<j, j>> \in due /\ j \notin gone
    BY DEF IsDue
  <2>1. <<j, j>> \in due /\ <<j, j>>[1] \notin gone
    BY <1>1
  <2> QED
    BY <2>1
<1>4. JobsTyped'
  BY <1>1, NewRows DEF Typed, JobsTyped
<1>5. DueTyped'
  BY <1>1, <1>3 DEF Typed, DueTyped, FirstRun
<1>6. WorkerTyped'
  BY <1>1, <1>2, NewRows DEF Typed, WorkerTyped, Busy
<1>7. \A j \in JobIds : IF j \in gone THEN jobs'[j] = NoJob ELSE jobs'[j] = jobs[j]
  BY <1>1
<1> QED
  BY <1>1, <1>3, <1>4, <1>5, <1>6, <1>7 DEF gone

\* A button and an answer of the API write one mutation of the page.
LEMMA OneCall ==
    ASSUME Typed, NEW kind \in Kinds, NEW c, DOMAIN c = CallShape,
           calls' = [calls EXCEPT ![kind] = c]
    PROVE  /\ DOMAIN calls' = Kinds /\ \A k \in Kinds : DOMAIN calls'[k] = CallShape
           /\ calls'[kind] = c /\ \A k \in Kinds \ {kind} : calls'[k] = calls[k]
BY DEF Typed

\* The page's own steps leave the API's tables alone, and have no request sent.
LEMMA PageAlone ==
    ASSUME Typed,
           \/ \E kind \in Kinds : Receive(kind) \/ LoseCall(kind)
           \/ Refetch \/ ServeList \/ ShowList \/ FailList
    PROVE  /\ UNCHANGED <<queueVars, scene>>
           /\ DOMAIN calls' = Kinds /\ \A k \in Kinds : DOMAIN calls'[k] = CallShape
           /\ \A k \in Kinds : calls'[k] = calls[k] \/ calls'[k].phase \notin {"sent", "read"}
<1>1. UNCHANGED <<queueVars, scene>>
  BY DEF Receive, LoseCall, Refetch, ServeList, ShowList, FailList
<1>2. /\ DOMAIN NoCall = CallShape /\ NoCall.phase = "idle"
      /\ DOMAIN Failed = CallShape /\ Failed.phase = "error"
  BY DEF NoCall, Failed, CallShape
<1>3. \A k \in Kinds : DOMAIN calls[k] = CallShape
  BY DEF Typed
<1>4. CASE UNCHANGED calls
  BY <1>1, <1>4 DEF Typed
<1>5. CASE calls' = ReadEnds
  BY <1>1, <1>2, <1>3, <1>5 DEF ReadEnds
<1>6. CASE \E kind \in Kinds : calls' = Invalidated(calls, kind)
  <2>1. PICK kind \in Kinds : calls' = Invalidated(calls, kind)
    BY <1>6
  <2>2. /\ DOMAIN [calls[kind] EXCEPT !.phase = "reading"] = CallShape
        /\ [calls[kind] EXCEPT !.phase = "reading"].phase = "reading"
    BY <1>3 DEF CallShape
  <2> QED
    BY <1>1, <1>2, <1>3, <2>1, <2>2 DEF Invalidated
<1>7. CASE \E kind \in Kinds : calls' = [calls EXCEPT ![kind] = Failed]
  <2>1. PICK kind \in Kinds : calls' = [calls EXCEPT ![kind] = Failed]
    BY <1>7
  <2> QED
    BY <1>1, <1>2, <2>1, OneCall
<1> QED
  BY <1>4, <1>5, <1>6, <1>7 DEF Receive, LoseCall, Refetch, ServeList, ShowList, FailList

\* A press of Create or Upload finds a source left for it.
LEMMA Presses ==
    ASSUME Typed, SourcesLeft, NEW kind \in Kinds, NEW s, Press(kind, s)
    PROVE  /\ UNCHANGED <<queueVars, scene>>
           /\ DOMAIN calls' = Kinds /\ \A k \in Kinds : DOMAIN calls'[k] = CallShape
           /\ calls'[kind].phase = "sent" /\ \A k \in Kinds \ {kind} : calls'[k] = calls[k]
           /\ SourcesLeft'
<1>1. UNCHANGED <<queueVars, scene>>
  BY DEF Press
<1> DEFINE c == [NoCall EXCEPT !.phase = "sent", !.source = s]
<1>2. DOMAIN c = CallShape /\ c.phase = "sent"
  BY DEF NoCall, CallShape
<1>3. calls' = [calls EXCEPT ![kind] = c]
  BY DEF Press
<1> HIDE DEF c
<1>4. /\ DOMAIN calls' = Kinds /\ \A k \in Kinds : DOMAIN calls'[k] = CallShape
      /\ calls'[kind].phase = "sent" /\ \A k \in Kinds \ {kind} : calls'[k] = calls[k]
  BY <1>2, <1>3, OneCall
<1>5. Absent' = Absent
  BY <1>1 DEF Absent, queueVars
<1>6. CASE kind \notin {"create", "upload"}
  <2>1. Creating' = Creating
    BY <1>4, <1>6 DEF Creating, Kinds
  <2> QED
    BY <1>1, <1>4, <1>5, <2>1 DEF SourcesLeft
<1>7. CASE kind \in {"create", "upload"}
  <2>1. Cardinality(Absent) - Cardinality(Creating) > 0 /\ kind \notin Creating
    BY <1>7 DEF Press, Left, Absent, Creating, Pending
  <2>2. IsFiniteSet(Absent)
    <3>1. scene.sources \subseteq Sources
      BY SceneAssumption DEF Typed
    <3> QED
      BY <3>1, JobAssumption, FS_Subset DEF Absent
  <2>3. Creating = {} \/ \E k \in {"create", "upload"} : Creating = {k}
    BY <1>7, <2>1 DEF Creating
  <2>4. Cardinality({}) = 0 /\ \A k : IsFiniteSet({k}) /\ Cardinality({k}) = 1
    BY FS_EmptySet, FS_Singleton
  <2>5. /\ Creating = {} => Cardinality(Creating) = 0
        /\ Creating # {} => Cardinality(Creating) = 1
    BY <2>3, <2>4, Zenon
  <2>6. Cardinality(Absent) > 0 /\ (Creating # {} => Cardinality(Absent) > 1) /\ Absent # {}
    <3>1. Cardinality(Absent) \in Nat
      BY <2>2, FS_CardinalityType
    <3> QED
      BY <2>1, <2>4, <2>5, <3>1
  <2>7. CASE Creating = {}
    <3>1. Creating' \subseteq {kind}
      BY <1>4, <1>7, <2>7 DEF Creating, Kinds
    <3>2. Creating' # {"create", "upload"}
      BY <1>7, <3>1
    <3> QED
      BY <1>1, <1>4, <1>5, <2>6, <3>2 DEF SourcesLeft
  <2>8. CASE \E k \in {"create", "upload"} : Creating = {k}
    <3>1. Cardinality(Absent) > 1
      BY <2>6, <2>8
    <3>2. PICK t : t \in Absent
      BY <2>6
    <3>3. Absent # {t}
      BY <2>4, <3>1
    <3>4. \E u \in Absent : u # t
      BY <3>2, <3>3
    <3> QED
      BY <1>1, <1>4, <1>5, <2>6, <3>2, <3>4 DEF SourcesLeft
  <2> QED
    BY <2>3, <2>7, <2>8
<1> QED
  BY <1>1, <1>4, <1>6, <1>7

\* create_calendar_source reads the limit.
LEMMA ServesNewSource ==
    ASSUME Typed, NEW kind \in Kinds, ServeNewSource(kind)
    PROVE  /\ UNCHANGED <<queueVars, scene>>
           /\ DOMAIN calls' = Kinds /\ \A k \in Kinds : DOMAIN calls'[k] = CallShape
           /\ kind \in {"create", "upload"} /\ calls[kind].phase = "sent"
           /\ \A k \in Kinds \ {kind} : calls'[k] = calls[k]
<1>1. /\ UNCHANGED <<queueVars, scene>> /\ kind \in {"create", "upload"} /\ calls[kind].phase = "sent"
  BY DEF ServeNewSource, Refused, Read, queueVars
<1>2. \E c : DOMAIN c = CallShape /\ calls' = [calls EXCEPT ![kind] = c]
  <2>1. CASE \E answer : Answered(kind, calls[kind].source, answer)
    <3>1. PICK answer : Answered(kind, calls[kind].source, answer)
      BY <2>1
    <3>2. DOMAIN [phase |-> "answered", source |-> calls[kind].source, answer |-> answer] = CallShape
      BY DEF CallShape
    <3> QED
      BY <3>1, <3>2 DEF Answered
  <2>2. CASE Read(kind, "none")
    <3>1. calls' = [calls EXCEPT ![kind] = [calls[kind] EXCEPT !.phase = "read", !.answer = "none"]]
      BY <2>2 DEF Read, Typed
    <3>2. DOMAIN [calls[kind] EXCEPT !.phase = "read", !.answer = "none"] = CallShape
      BY DEF Typed
    <3> QED
      BY <3>1, <3>2
  <2> QED
    BY <2>1, <2>2 DEF ServeNewSource, Refused
<1> QED
  BY <1>1, <1>2, OneCall

\* refresh_calendar_source reads, and refuses or goes on with what it has read.
LEMMA ServesRefresh ==
    ASSUME Typed, ServeRefresh
    PROVE  /\ UNCHANGED <<queueVars, scene>>
           /\ DOMAIN calls' = Kinds /\ \A k \in Kinds : DOMAIN calls'[k] = CallShape
           /\ \A k \in Kinds \ {"refresh"} : calls'[k] = calls[k]
           /\ \/ calls'["refresh"].phase = "answered"
              \/ /\ calls'["refresh"].source = calls["refresh"].source
                 /\ calls'["refresh"].answer = RefreshRead(calls["refresh"].source)
                 /\ RefreshRead(calls["refresh"].source) \notin {"not_found", "rate_limited"}
<1> DEFINE s == calls["refresh"].source
           answer == RefreshRead(s)
           no == [phase |-> "answered", source |-> s, answer |-> answer]
           yes == [calls["refresh"] EXCEPT !.phase = "read", !.answer = answer]
<1>1. "refresh" \in Kinds /\ DOMAIN calls["refresh"] = CallShape /\ "refresh" \in DOMAIN calls
  BY DEF Typed, Kinds
<1>2. /\ DOMAIN no = CallShape /\ no.phase = "answered"
      /\ DOMAIN yes = CallShape /\ yes.source = s /\ yes.answer = answer
  BY <1>1 DEF CallShape
<1>3. UNCHANGED <<queueVars, scene>>
  BY DEF ServeRefresh, Refused, Read, queueVars
<1>4. CASE answer \in {"not_found", "rate_limited"}
  <2>1. calls' = [calls EXCEPT !["refresh"] = no]
    BY <1>4 DEF ServeRefresh, Refused, Answered
  <2> HIDE DEF no, answer, s
  <2> QED
    BY <1>1, <1>2, <1>3, <2>1, OneCall
<1>5. CASE answer \notin {"not_found", "rate_limited"}
  <2>1. calls' = [calls EXCEPT !["refresh"] = yes]
    BY <1>1, <1>5 DEF ServeRefresh, Read
  <2> HIDE DEF yes
  <2>2. /\ calls'["refresh"] = yes /\ DOMAIN calls' = Kinds
        /\ \A k \in Kinds : DOMAIN calls'[k] = CallShape
        /\ \A k \in Kinds \ {"refresh"} : calls'[k] = calls[k]
    BY <1>1, <1>2, <2>1, OneCall
  <2> QED
    BY <1>2, <1>3, <1>5, <2>2
<1> QED
  BY <1>4, <1>5

\* delete_calendar_source marks the source, and leaves its jobs.
LEMMA TypedRemove ==
    ASSUME Typed, ServeRemove
    PROVE  /\ sources' \in [Sources -> Source]
           /\ UNCHANGED <<jobs, due, worker, group, ahead, mails, history, scene>>
           /\ DOMAIN calls' = Kinds /\ \A k \in Kinds : DOMAIN calls'[k] = CallShape
           /\ calls'["remove"].phase = "answered"
           /\ \A k \in Kinds \ {"remove"} : calls'[k] = calls[k]
           /\ \A t \in Sources : \/ sources'[t] = sources[t]
                                 \/ sources[t].state = "live" /\ sources'[t].state = "deleted"
<1> DEFINE s == calls["remove"].source
           gone == [NoSource EXCEPT !.state = "deleted"]
           c(answer) == [phase |-> "answered", source |-> s, answer |-> answer]
<1>1. /\ UNCHANGED <<jobs, due, worker, group, ahead, mails, history, scene>>
      /\ \E answer : calls' = [calls EXCEPT !["remove"] = c(answer)]
      /\ \/ sources' = sources
         \/ s \in Live /\ sources' = [sources EXCEPT ![s] = gone]
  BY DEF ServeRemove, DeleteSource, Refused, Answered
<1>2. \A answer : DOMAIN c(answer) = CallShape /\ c(answer).phase = "answered"
  BY DEF CallShape
<1>3. gone \in Source /\ gone.state = "deleted"
  BY DEF NoSource, Source
<1> HIDE DEF gone, c
<1>4. "remove" \in Kinds
  BY DEF Kinds
<1>5. PICK answer : calls' = [calls EXCEPT !["remove"] = c(answer)]
  BY <1>1
<1>6. /\ DOMAIN calls' = Kinds /\ \A k \in Kinds : DOMAIN calls'[k] = CallShape
      /\ calls'["remove"].phase = "answered"
      /\ \A k \in Kinds \ {"remove"} : calls'[k] = calls[k]
  BY <1>2, <1>4, <1>5, OneCall
<1>7. /\ sources' \in [Sources -> Source]
      /\ \A t \in Sources : \/ sources'[t] = sources[t]
                            \/ sources[t].state = "live" /\ sources'[t].state = "deleted"
  BY <1>1, <1>3 DEF Typed, Live
<1> QED
  BY <1>1, <1>6, <1>7

\* The commit of a refresh.  Where it has found no poll, the key of the first one refuses
\* the insert: nothing is ever added here.
LEMMA TypedRefresh ==
    ASSUME Typed, KeyStays, FoundStays, CommitRefresh
    PROVE  /\ sources' \in [Sources -> Source]
           /\ UNCHANGED <<jobs, due, worker, group, ahead, mails, history, scene>>
           /\ DOMAIN calls' = Kinds /\ \A k \in Kinds : DOMAIN calls'[k] = CallShape
           /\ calls'["refresh"].phase = "answered"
           /\ \A k \in Kinds \ {"refresh"} : calls'[k] = calls[k]
           /\ \/ sources' = sources
              \/ \E s \in Live :
                   /\ s = calls["refresh"].source /\ calls["refresh"].phase = "read"
                   /\ calls["refresh"].answer # "none"
                   /\ \A t \in Sources \ {s} : sources'[t] = sources[t]
                   /\ sources'[s].state = "live" /\ sources'[s].kind = sources[s].kind
                   /\ sources'[s].etag = sources[s].etag /\ sources'[s].cooling = sources[s].cooling
<1> DEFINE s == calls["refresh"].source
           found == calls["refresh"].answer
           c(answer) == [phase |-> "answered", source |-> s, answer |-> answer]
           asked == [sources[s] EXCEPT !.status = "pending"]
<1>1. /\ calls["refresh"].phase = "read"
      /\ UNCHANGED <<worker, group, ahead, mails, history, scene>>
      /\ \E answer : calls' = [calls EXCEPT !["refresh"] = c(answer)]
  BY DEF CommitRefresh, Refused, Answered
<1>2. \A answer : DOMAIN c(answer) = CallShape /\ c(answer).phase = "answered"
  BY DEF CallShape
<1>3. s \in Sources /\ (s \in Live => sources[s].kind = "url")
  BY <1>1 DEF FoundStays
<1>4. s \in Live => HasKey(<<s>>)
  BY <1>3 DEF KeyStays, HasKey
<1>5. CASE s \notin Live \/ found = "none"
  <2>1. UNCHANGED <<sources, jobs, due>>
    BY <1>4, <1>5 DEF CommitRefresh, RefreshFails, Refused
  <2> HIDE DEF c
  <2>2. "refresh" \in Kinds
    BY DEF Kinds
  <2>3. PICK answer : calls' = [calls EXCEPT !["refresh"] = c(answer)]
    BY <1>1
  <2>4. /\ DOMAIN calls' = Kinds /\ \A k \in Kinds : DOMAIN calls'[k] = CallShape
        /\ calls'["refresh"].phase = "answered"
        /\ \A k \in Kinds \ {"refresh"} : calls'[k] = calls[k]
    BY <1>2, <2>2, <2>3, OneCall
  <2> QED
    BY <1>1, <2>1, <2>4 DEF Typed
<1>6. CASE s \in Live /\ found # "none"
  <2>1. UNCHANGED <<jobs, due>> /\ sources' = [sources EXCEPT ![s] = asked]
    BY <1>6 DEF CommitRefresh, RefreshFails, RefreshCommit
  <2>2. sources[s] \in Source /\ sources[s].state = "live"
    BY <1>3, <1>6 DEF Typed, Live
  <2>3. /\ asked \in Source /\ asked.state = "live" /\ asked.kind = sources[s].kind
        /\ asked.etag = sources[s].etag /\ asked.cooling = sources[s].cooling
    BY <2>2 DEF Source
  <2> HIDE DEF c, asked
  <2>4. "refresh" \in Kinds
    BY DEF Kinds
  <2>5. PICK answer : calls' = [calls EXCEPT !["refresh"] = c(answer)]
    BY <1>1
  <2>6. /\ DOMAIN calls' = Kinds /\ \A k \in Kinds : DOMAIN calls'[k] = CallShape
        /\ calls'["refresh"].phase = "answered"
        /\ \A k \in Kinds \ {"refresh"} : calls'[k] = calls[k]
    BY <1>2, <2>4, <2>5, OneCall
  <2>7. /\ sources' \in [Sources -> Source] /\ sources'[s] = asked
        /\ \A t \in Sources \ {s} : sources'[t] = sources[t]
    BY <1>3, <2>1, <2>3 DEF Typed
  <2> QED
    BY <1>1, <1>6, <2>1, <2>3, <2>6, <2>7
<1> QED
  BY <1>5, <1>6

\* create_calendar_source takes a source that is left; one with a URL gets its first poll,
\* whose key is the source's.
LEMMA TypedNewSource ==
    ASSUME Typed, SourcesLeft, NEW kind \in Kinds, CommitNewSource(kind)
    PROVE  /\ JobsTyped' /\ DueTyped' /\ WorkerTyped' /\ sources' \in [Sources -> Source]
           /\ UNCHANGED <<worker, group, ahead, mails, history, scene>>
           /\ DOMAIN calls' = Kinds /\ \A k \in Kinds : DOMAIN calls'[k] = CallShape
           /\ kind \in {"create", "upload"} /\ calls'[kind].phase = "answered"
           /\ \A k \in Kinds \ {kind} : calls'[k] = calls[k]
           /\ SourcesLeft'
           /\ \E s \in Sources :
                /\ sources[s].state = "absent" /\ sources'[s].state = "live" /\ ~sources'[s].etag
                /\ \A t \in Sources \ {s} : sources'[t] = sources[t]
                /\ \/ /\ sources'[s].kind = "upload" /\ sources'[s].status = "ok"
                      /\ UNCHANGED <<jobs, due>>
                   \/ /\ sources'[s].kind = "url"
                      /\ \E j \in JobIds \ {worker.job} :
                           /\ jobs[j].state = "free" /\ jobs'[j].state = "waiting"
                           /\ jobs'[j].kind = "poll" /\ jobs'[j].of = <<s>>
                           /\ jobs'[j].key = <<s>>
                           /\ \A i \in JobIds \ {j} : jobs'[i] = jobs[i]
                           /\ \A i : IsDue(i)' => IsDue(i) \/ i = j
<1> DEFINE s == CHOOSE x \in scene.sources : sources[x].state = "absent"
           c == [phase |-> "answered", source |-> s, answer |-> "ok"]
           url == NewSource("url", "pending")
           file == NewSource("upload", "ok")
<1>1. /\ kind \in {"create", "upload"} /\ calls[kind].phase = "read"
      /\ calls' = [calls EXCEPT ![kind] = c]
      /\ IF kind = "create" THEN CreateSource(s) ELSE UploadSource(s)
      /\ UNCHANGED <<worker, group, ahead, mails, history, scene>>
  BY DEF CommitNewSource, Answered
<1>2. scene.sources \subseteq Sources
  BY SceneAssumption DEF Typed
<1>3. kind \in Creating
  BY <1>1 DEF Creating
<1>4. s \in Absent /\ s \in Sources /\ sources[s].state = "absent"
  BY <1>2, <1>3 DEF SourcesLeft, Absent
<1>5. DOMAIN c = CallShape /\ c.phase = "answered"
  BY DEF CallShape
<1> HIDE DEF c, s
<1>6. /\ DOMAIN calls' = Kinds /\ \A k \in Kinds : DOMAIN calls'[k] = CallShape
      /\ calls'[kind].phase = "answered" /\ \A k \in Kinds \ {kind} : calls'[k] = calls[k]
  BY <1>1, <1>5, OneCall
<1>7. /\ url \in Source /\ url.state = "live" /\ ~url.etag /\ url.kind = "url"
      /\ file \in Source /\ file.state = "live" /\ ~file.etag /\ file.kind = "upload"
      /\ file.status = "ok"
  BY DEF NewSource, NoSource, Source
<1> HIDE DEF url, file
<1>8. SourcesLeft'
  <2>1. Creating' = Creating \ {kind}
    BY <1>1, <1>6 DEF Creating, Kinds
  <2>2. Absent \ {s} \subseteq Absent'
    BY <1>1, <1>2 DEF Absent, CreateSource, UploadSource, Typed
  <2>3. Creating # {kind} => \E x \in Absent : x # s
    <3>1. Creating \subseteq {"create", "upload"}
      BY DEF Creating
    <3>2. CASE Creating = {"create", "upload"}
      BY <3>2 DEF SourcesLeft
    <3> QED
      BY <1>1, <1>3, <3>1, <3>2
  <2> QED
    BY <1>1, <2>1, <2>2, <2>3 DEF SourcesLeft
<1>9. CASE kind = "upload"
  <2>1. UNCHANGED <<jobs, due>> /\ sources' = [sources EXCEPT ![s] = file]
    BY <1>1, <1>9 DEF UploadSource, file
  <2>2. /\ sources' \in [Sources -> Source] /\ sources'[s] = file
        /\ \A t \in Sources \ {s} : sources'[t] = sources[t]
    BY <1>4, <1>7, <2>1 DEF Typed
  <2>3. JobsTyped' /\ DueTyped' /\ WorkerTyped'
    BY <1>1, <2>1 DEF Typed, JobsTyped, DueTyped, WorkerTyped, Busy, IsDue, FirstRun
  <2> QED
    BY <1>1, <1>4, <1>6, <1>7, <1>8, <2>1, <2>2, <2>3
<1>10. CASE kind = "create"
  <2>1. /\ sources' = [sources EXCEPT ![s] = url] /\ FreeIds # {}
        /\ jobs' = [jobs EXCEPT ![NewId] = PollOf(s, <<s>>)] /\ due' = DueSince(NewId)
    BY <1>1, <1>10 DEF CreateSource, url
  <2>2. /\ sources' \in [Sources -> Source] /\ sources'[s] = url
        /\ \A t \in Sources \ {s} : sources'[t] = sources[t]
    BY <1>4, <1>7, <2>1 DEF Typed
  <2>3. PICK j \in JobIds \ {worker.job} :
          /\ jobs[j].state = "free" /\ jobs' = [jobs EXCEPT ![j] = PollOf(s, <<s>>)]
          /\ due' = DueSince(j)
    BY <2>1, NewIdIsFree
  <2>4. /\ PollOf(s, <<s>>) \in Job /\ RowFits(PollOf(s, <<s>>))
        /\ PollOf(s, <<s>>).state = "waiting" /\ PollOf(s, <<s>>).kind = "poll"
        /\ PollOf(s, <<s>>).of = <<s>> /\ PollOf(s, <<s>>).key = <<s>>
    BY <1>4, NewRows, IdsApart
  <2>5. /\ JobsTyped' /\ jobs'[j] = PollOf(s, <<s>>)
        /\ \A i \in JobIds \ {j} : jobs'[i] = jobs[i]
    BY <2>3, <2>4, OneRow DEF Typed
  <2>6. \A i : IsDue(i)' => IsDue(i) \/ i = j
    BY <2>3, DueSinceAdds
  <2>7. DueTyped'
    BY <1>1, <2>3, <2>4, <2>5, <2>6 DEF Typed, DueTyped, FirstRun
  <2>8. WorkerTyped'
    BY <1>1, <2>3, <2>5 DEF Typed, WorkerTyped, Busy
  <2> QED
    BY <1>1, <1>4, <1>6, <1>7, <1>8, <2>2, <2>3, <2>4, <2>5, <2>6, <2>7, <2>8
<1> QED
  BY <1>1, <1>9, <1>10

-----------------------------------------------------------------------------
(* The chain of polls.                                                     *)

\* A key that is a source's is on a row of its polls.
LEMMA KeyOfPoll ==
    \A x \in Job, s \in Sources : RowFits(x) /\ x.key = <<s>> =>
       x.kind = "poll" /\ x.of = <<s>> /\ x.state # "free"
<1> SUFFICES ASSUME NEW x \in Job, NEW s \in Sources, RowFits(x), x.key = <<s>>
             PROVE  x.kind = "poll" /\ x.of = <<s>> /\ x.state # "free"
  OBVIOUS
<1>1. <<s>> # NoKey /\ <<s>> \notin ReminderIds
  BY IdsApart
<1>2. x.kind \in {"none", "poll", "reminder"}
  BY DEF Job
<1> QED
  BY <1>1, <1>2 DEF RowFits

\* Nothing is there at first, and no refresh has read.
LEMMA PollInit == Init => PollInv
<1> SUFFICES ASSUME Init PROVE PollInv
  OBVIOUS
<1>1. Live = {} /\ \A j \in JobIds : jobs[j].kind = "none"
  BY DEF Init, QueueInit, NoSource, NoJob, Live
<1>2. worker.kind = "none" /\ calls["refresh"].phase = "idle"
  BY DEF Init, QueueInit, Idle, NoCall, Kinds
<1> QED
  BY <1>1, <1>2 DEF PollInv, NoneBefore, OneWaits, WaitingPoll, KeyStays, OneComes, Cooled, FirstTag,
                    FoundStays

\* The chain is not touched by what leaves the polls, their worker, the sources and the
\* refresh that has read alone: reminders, confirmation and the page.
LEMMA PollsAlone ==
    ASSUME Typed, JobsTyped', PollInv, sources' = sources,
           \A j \in JobIds : jobs'[j] = jobs[j] \/ (jobs[j].kind # "poll" /\ jobs'[j].kind # "poll"),
           worker' = worker \/ (worker.kind # "poll" /\ worker'.kind # "poll"),
           \A j \in JobIds : jobs[j].kind = "poll" /\ IsDue(j)' => IsDue(j),
           calls'["refresh"] = calls["refresh"] \/ calls'["refresh"].phase # "read"
    PROVE  PollInv'
<1>1. \A j \in JobIds : jobs[j].kind = "poll" \/ jobs'[j].kind = "poll" => jobs'[j] = jobs[j]
  OBVIOUS
<1>2. \A j \in JobIds, s \in Sources : jobs[j].key = <<s>> \/ jobs'[j].key = <<s>> =>
        jobs'[j] = jobs[j]
  <2>1. \A j \in JobIds : /\ jobs[j] \in Job /\ RowFits(jobs[j])
                          /\ jobs'[j] \in Job /\ RowFits(jobs'[j])
    BY DEF Typed, JobsTyped
  <2> QED
    BY <1>1, <2>1, KeyOfPoll
<1>3. Live' = Live /\ Live \subseteq Sources
  BY DEF Live
<1>4. \A s \in Sources : PollsOf(s)' = PollsOf(s)
  BY <1>1 DEF PollsOf, Unfinished
<1>5. /\ worker.kind = "poll" \/ worker'.kind = "poll" => worker' = worker
      /\ \A j : Ending(j)' <=> Ending(j)
      /\ \A j : InHand(j)' <=> InHand(j)
  BY DEF Ending, InHand
<1>6. NoneBefore'
  BY <1>1, <1>5 DEF PollInv, NoneBefore
<1>7. OneWaits'
  BY <1>1, <1>5 DEF PollInv, OneWaits, WaitingPoll, Working
<1>8. KeyStays'
  BY <1>2, <1>3 DEF PollInv, KeyStays
<1>9. OneComes'
  BY <1>3, <1>4, <1>5 DEF PollInv, OneComes
<1>10. Cooled'
  BY <1>3, <1>5 DEF PollInv, Cooled
<1>11. FirstTag'
  BY <1>2, <1>3, <1>5 DEF PollInv, FirstTag, InHand, Working
<1>12. FoundStays'
  <2>1. \A s \in Sources : \A j \in PollsOf(s) : j \in JobIds /\ jobs[j].kind = "poll"
    BY DEF PollsOf
  <2>2. \A s \in Sources :
          (\E j \in PollsOf(s) : ~InHand(j) /\ ~IsDue(j))
             => \E j \in PollsOf(s)' : ~InHand(j)' /\ ~IsDue(j)'
    BY <1>4, <1>5, <2>1
  <2>3. CASE calls'["refresh"] = calls["refresh"] /\ calls["refresh"].phase = "read"
    BY <1>3, <2>2, <2>3 DEF PollInv, FoundStays
  <2> QED
    BY <2>3 DEF PollInv, FoundStays
<1> QED
  BY <1>6, <1>7, <1>8, <1>9, <1>10, <1>11, <1>12 DEF PollInv

\* claim_job takes a poll: the only one of its source that waits.
LEMMA PollClaim ==
    ASSUME Typed, PollInv, ClaimJob, worker'.kind = "poll",
           sources' = sources, calls' = calls
    PROVE  PollInv'
<1>1. PICK j0 \in JobIds :
        /\ jobs[j0].state = "waiting" /\ IsDue(j0)
        /\ jobs'[j0].state = "locked" /\ jobs'[j0].kind = jobs[j0].kind
        /\ jobs'[j0].of = jobs[j0].of /\ jobs'[j0].key = jobs[j0].key
        /\ \A i \in JobIds \ {j0} : jobs'[i] = jobs[i]
        /\ worker'.phase = "claimed" /\ worker'.job = j0
        /\ worker'.kind = jobs[j0].kind /\ worker'.of = jobs[j0].of
        /\ \A i \in JobIds : IsDue(i)' => IsDue(i)
        /\ ~Busy
  BY TypedClaim
<1>2. worker.kind = "none" /\ jobs[j0].kind = "poll"
  BY <1>1 DEF Typed, WorkerTyped
<1>3. \A j \in JobIds : /\ jobs'[j].kind = jobs[j].kind /\ jobs'[j].of = jobs[j].of
                        /\ jobs'[j].key = jobs[j].key
                        /\ Unfinished(j)' <=> Unfinished(j)
                        /\ jobs'[j].state = "waiting" => jobs[j].state = "waiting" /\ j # j0
  BY <1>1 DEF Unfinished
<1>4. Live' = Live /\ Live \subseteq Sources
  BY DEF Live
<1>5. \A s \in Sources : PollsOf(s)' = PollsOf(s) /\ PollsOf(s) \subseteq JobIds
  BY <1>3 DEF PollsOf
<1>6. NoneBefore'
  BY <1>1, <1>2, <1>3 DEF PollInv, NoneBefore
<1>7. OneWaits'
  <2> SUFFICES ASSUME NEW s \in Sources, NEW i \in JobIds, WaitingPoll(s, i)'
               PROVE  /\ \A j \in JobIds : WaitingPoll(s, j)' => i = j
                      /\ worker'.of # <<s>>
    BY DEF OneWaits
  <2>1. \A j \in JobIds : WaitingPoll(s, j)' => WaitingPoll(s, j) /\ j # j0
    BY <1>3 DEF WaitingPoll
  <2>2. \A j \in JobIds : WaitingPoll(s, j) => i = j
    BY <2>1 DEF PollInv, OneWaits
  <2>3. ~WaitingPoll(s, j0)
    BY <2>1, <2>2
  <2> QED
    BY <1>1, <1>2, <2>1, <2>2, <2>3 DEF WaitingPoll
<1>8. KeyStays'
  BY <1>3, <1>4 DEF PollInv, KeyStays
<1>9. OneComes'
  <2>1. \A j \in JobIds : ~Ending(j)'
    BY <1>1 DEF Ending
  <2> QED
    BY <1>4, <1>5, <2>1 DEF PollInv, OneComes
<1>10. Cooled'
  BY <1>1 DEF Cooled
<1>11. FirstTag'
  BY <1>1, <1>3, <1>4 DEF PollInv, FirstTag, InHand
<1>12. FoundStays'
  <2>1. \A s \in Sources : \A j \in PollsOf(s) :
          ~InHand(j) /\ ~IsDue(j) => ~InHand(j)' /\ ~IsDue(j)'
    BY <1>1, <1>5 DEF InHand
  <2>2. \A s \in Sources : (\E j \in PollsOf(s) : ~InHand(j) /\ ~IsDue(j))
             => \E j \in PollsOf(s)' : ~InHand(j)' /\ ~IsDue(j)'
    BY <1>5, <2>1
  <2> QED
    BY <1>4, <2>2 DEF PollInv, FoundStays
<1> QED
  BY <1>6, <1>7, <1>8, <1>9, <1>10, <1>11, <1>12 DEF PollInv

\* The worker lets its poll go: a completed poll has planned the next one or has found
\* a tag, one that has failed waits again, and one that it dies with stays locked.
LEMMA PollLeft ==
    ASSUME Typed, PollInv, worker.kind = "poll",
           CompleteJob \/ RetryJob \/ Die \/ (EndPoll /\ worker'.phase = "down"),
           sources' = sources, calls' = calls
    PROVE  PollInv'
<1> DEFINE w == worker.job
<1>1. /\ worker'.kind = "none" /\ w \in JobIds /\ \A i \in JobIds \ {w} : jobs'[i] = jobs[i]
      /\ jobs[w].kind = "poll" /\ jobs[w].of = worker.of /\ jobs[w].state = "locked"
      /\ due' = due /\ worker.of \in PollIds
      /\ \/ jobs'[w] = jobs[w] /\ ~At("handled")
         \/ jobs'[w] = jobs[w] /\ Die
         \/ jobs'[w] = NoJob /\ jobs[w].key = NoKey /\ At("handled")
         \/ /\ jobs'[w].kind = "poll" /\ jobs'[w].of = worker.of /\ jobs'[w].key = jobs[w].key
            /\ jobs'[w].state = "done" /\ At("handled")
         \/ /\ jobs'[w].kind = "poll" /\ jobs'[w].of = worker.of /\ jobs'[w].key = jobs[w].key
            /\ jobs'[w].state = "waiting" /\ At("failed")
  <2>1. /\ w \in JobIds /\ worker.of \in PollIds
        /\ jobs[w].kind = "poll" /\ jobs[w].of = worker.of /\ jobs[w].state = "locked"
    BY DEF Typed, WorkerTyped
  <2>2. CASE Die
    BY <2>1, <2>2, TypedDown DEF Die
  <2>3. CASE EndPoll /\ worker'.phase = "down"
    BY <2>1, <2>3, TypedEndPoll DEF At
  <2>4. CASE CompleteJob \/ RetryJob
    <3>1. due' = due /\ (CompleteJob => At("handled")) /\ (RetryJob => At("failed"))
      BY <2>4 DEF CompleteJob, RetryJob
    <3> QED
      BY <2>1, <2>4, <3>1, TypedRelease
  <2> QED
    BY <2>2, <2>3, <2>4
<1>2. Live' = Live /\ Live \subseteq Sources
  BY DEF Live
<1>3. InHand(w) /\ \A j \in JobIds : (InHand(j) <=> j = w) /\ ~InHand(j)' /\ ~Ending(j)'
  BY <1>1 DEF InHand, Ending
<1>4. NoJob.kind = "none" /\ NoJob.state = "free"
  BY NewRows
<1>5. \A s \in Sources : \A j \in PollsOf(s) :
        /\ j # w => j \in PollsOf(s)'
        /\ j = w /\ ~Ending(j) => j \in PollsOf(s)'
  <2> SUFFICES ASSUME NEW s \in Sources, NEW j \in PollsOf(s)
               PROVE  /\ j # w => j \in PollsOf(s)'
                      /\ j = w /\ ~Ending(j) => j \in PollsOf(s)'
    OBVIOUS
  <2>1. j \in JobIds /\ jobs[j].kind = "poll" /\ jobs[j].of = <<s>> /\ Unfinished(j)
    BY DEF PollsOf
  <2>2. j # w => j \in PollsOf(s)'
    BY <1>1, <2>1 DEF PollsOf, Unfinished
  <2>3. ASSUME j = w, ~Ending(j) PROVE j \in PollsOf(s)'
    <3>1. ~At("handled") \/ jobs'[w] = jobs[w]
      BY <1>3, <2>3 DEF Ending, At
    <3>2. jobs'[w].kind = "poll" /\ jobs'[w].of = <<s>> /\ jobs'[w].state \in {"locked", "waiting"}
      BY <1>1, <2>1, <2>3, <3>1
    <3> QED
      BY <2>1, <2>3, <3>2 DEF PollsOf, Unfinished
  <2> QED
    BY <2>2, <2>3
<1>6. NoneBefore'
  BY <1>1, <1>4 DEF PollInv, NoneBefore
<1>7. OneWaits'
  <2> SUFFICES ASSUME NEW s \in Sources, NEW i \in JobIds, NEW j \in JobIds,
                      WaitingPoll(s, i)', WaitingPoll(s, j)'
               PROVE  i = j
    BY <1>1 DEF OneWaits
  <2>1. \A k \in JobIds : WaitingPoll(s, k)' =>
          IF k = w THEN Working /\ worker.of = <<s>> ELSE WaitingPoll(s, k)
    BY <1>1, <1>4 DEF WaitingPoll, Working, At
  <2>2. /\ WaitingPoll(s, i) => ~(Working /\ worker.of = <<s>>)
        /\ WaitingPoll(s, j) => ~(Working /\ worker.of = <<s>>)
        /\ WaitingPoll(s, i) /\ WaitingPoll(s, j) => i = j
    BY DEF PollInv, OneWaits
  <2> QED
    BY <2>1, <2>2
<1>8. KeyStays'
  <2> SUFFICES ASSUME NEW s \in Live, sources[s].kind = "url"
               PROVE  \E j \in JobIds : jobs'[j].key = <<s>>
    BY <1>2 DEF KeyStays
  <2>1. PICK j \in JobIds : jobs[j].key = <<s>>
    BY DEF PollInv, KeyStays
  <2>2. <<s>> # NoKey
    BY <1>2, IdsApart
  <2>3. jobs'[j].key = <<s>>
    BY <1>1, <2>1, <2>2
  <2> QED
    BY <2>3
<1>9. OneComes'
  <2> SUFFICES ASSUME NEW s \in Live, sources[s].status = "pending"
                                        \/ (sources[s].kind = "url" /\ ~sources[s].etag)
               PROVE  \E j \in PollsOf(s)' : ~Ending(j)'
    BY <1>2 DEF OneComes
  <2>1. PICK j \in PollsOf(s) : ~Ending(j)
    BY DEF PollInv, OneComes
  <2> QED
    BY <1>2, <1>3, <1>5, <2>1 DEF PollsOf
<1>10. Cooled'
  BY <1>1 DEF Cooled
<1>11. FirstTag'
  <2> SUFFICES ASSUME NEW s \in Live, NEW j \in JobIds, jobs'[j].key = <<s>>,
                      jobs'[j].state = "waiting"
               PROVE  ~sources[s].etag
    BY <1>2, <1>3 DEF FirstTag
  <2>1. CASE j # w
    BY <1>1, <2>1 DEF PollInv, FirstTag
  <2>2. CASE j = w
    <3>1. Working /\ jobs[w].key = <<s>>
      BY <1>1, <1>4, <2>2 DEF Working, At
    <3> QED
      BY <1>1, <1>3, <2>2, <3>1 DEF PollInv, FirstTag
  <2> QED
    BY <2>1, <2>2
<1>12. FoundStays'
  <2>1. \A s \in Sources : (\E j \in PollsOf(s) : ~InHand(j) /\ ~IsDue(j))
             => \E j \in PollsOf(s)' : ~InHand(j)' /\ ~IsDue(j)'
    BY <1>1, <1>3, <1>5 DEF PollsOf, IsDue
  <2> QED
    BY <1>2, <2>1 DEF PollInv, FoundStays
<1> QED
  BY <1>6, <1>7, <1>8, <1>9, <1>10, <1>11, <1>12 DEF PollInv

\* handle_ics_poll goes on only for a source that is there.
LEMMA PollStart ==
    ASSUME Typed, PollInv, StartPoll, calls' = calls
    PROVE  PollInv'
<1> DEFINE w == worker.job
<1>1. /\ worker.phase = "claimed" /\ UNCHANGED <<jobs, due, sources>>
      /\ w' = w /\ worker'.kind = worker.kind /\ worker'.of = worker.of /\ worker.kind = "poll"
      /\ \/ worker.of[1] \in Live /\ worker'.phase = "fetching"
         \/ worker.of[1] \notin Live /\ worker'.phase = "handled"
  BY TypedStart DEF StartPoll
<1>2. Live' = Live /\ (\A s : PollsOf(s)' = PollsOf(s)) /\ Live \subseteq Sources
      /\ \A j : (InHand(j)' <=> InHand(j)) /\ (IsDue(j)' <=> IsDue(j))
  BY <1>1 DEF Live, PollsOf, Unfinished, InHand, IsDue
<1>3. \A s \in Live : worker'.phase = "handled" => worker.of # <<s>>
  <2> SUFFICES ASSUME NEW s \in Live, worker.of = <<s>> PROVE worker'.phase # "handled"
    OBVIOUS
  <2>1. worker.of[1] = s
    OBVIOUS
  <2> QED
    BY <1>1, <2>1
<1>4. NoneBefore' /\ OneWaits' /\ KeyStays'
  BY <1>1, <1>2 DEF PollInv, NoneBefore, OneWaits, WaitingPoll, Working, KeyStays
<1>5. OneComes'
  <2>1. \A s \in Live : \A j \in PollsOf(s) : ~Ending(j)'
    <3> SUFFICES ASSUME NEW s \in Live, NEW j \in PollsOf(s), Ending(j)' PROVE FALSE
      OBVIOUS
    <3>1. j = w /\ worker'.phase = "handled" /\ jobs[j].of = <<s>> /\ jobs[j].kind = "poll"
      BY <1>1 DEF Ending, InHand, PollsOf
    <3>2. jobs[w].of = worker.of
      BY <1>1 DEF Typed, WorkerTyped, Busy
    <3> QED
      BY <1>3, <3>1, <3>2
  <2> QED
    BY <1>1, <1>2, <2>1 DEF PollInv, OneComes
<1>6. Cooled'
  BY <1>1, <1>2, <1>3 DEF Cooled
<1>7. FirstTag'
  BY <1>1, <1>2 DEF PollInv, FirstTag, Working
<1>8. FoundStays'
  BY <1>1, <1>2 DEF PollInv, FoundStays
<1> QED
  BY <1>4, <1>5, <1>6, <1>7, <1>8 DEF PollInv

\* replace_blocks and schedule_next_poll in one transaction: while a poll is on its way no
\* other waits, so the next one is alone, and a tag is new only beside it.
LEMMA PollEnds ==
    ASSUME Typed, PollInv, JobsTyped', EndPoll, worker'.phase # "down", calls' = calls
    PROVE  PollInv'
<1> DEFINE w == worker.job
           parsed(s, n) ==
             /\ worker'.phase = "handled" /\ n # w
             /\ jobs[n].state = "free" /\ jobs'[n].state = "waiting"
             /\ jobs'[n].kind = "poll" /\ jobs'[n].of = <<s>> /\ jobs'[n].key = NoKey
             /\ \A i \in JobIds \ {n} : jobs'[i] = jobs[i]
<1>1. /\ worker.phase = "fetching" /\ worker.kind = "poll" /\ w \in JobIds /\ due' = due
      /\ jobs[w].state = "locked" /\ jobs[w].kind = "poll" /\ jobs[w].of = worker.of
  BY TypedEndPoll
<1>2. PICK s \in Sources :
        /\ worker.of = <<s>> /\ s \in Live /\ w' = w /\ worker'.kind = "poll"
        /\ worker'.of = worker.of /\ \A t \in Sources \ {s} : sources'[t] = sources[t]
        /\ sources'[s].state = "live" /\ sources'[s].kind = sources[s].kind
        /\ worker'.phase = "handled" => sources'[s].cooling /\ sources'[s].status # "pending"
        /\ \/ \E n \in JobIds : parsed(s, n)
           \/ worker'.phase = "handled" /\ jobs' = jobs /\ sources[s].etag /\ sources'[s].etag
           \/ worker'.phase = "failed" /\ jobs' = jobs /\ sources'[s].etag = sources[s].etag
  BY TypedEndPoll
<1>3. /\ Live' = Live /\ Live \subseteq Sources
      /\ \A j : (InHand(j)' <=> InHand(j)) /\ (IsDue(j)' <=> IsDue(j))
  BY <1>1, <1>2 DEF Live, InHand, IsDue
<1>4. \A j \in JobIds : ~WaitingPoll(s, j)
  BY <1>1, <1>2 DEF PollInv, OneWaits, Working
<1>5. \A j \in JobIds : /\ jobs[j] \in Job /\ RowFits(jobs[j])
                        /\ jobs'[j] \in Job /\ RowFits(jobs'[j])
  BY DEF Typed, JobsTyped
<1>6. \A t \in Sources : t # s => <<t>> # <<s>>
  BY IdsApart
<1>7. \A j \in JobIds : jobs[j].state # "free" => jobs'[j] = jobs[j]
  BY <1>2
<1>8. \A t \in Sources : \A j \in PollsOf(t) : j \in PollsOf(t)' /\ (t # s => j # w)
  <2> SUFFICES ASSUME NEW t \in Sources, NEW j \in PollsOf(t)
               PROVE  j \in PollsOf(t)' /\ (t # s => j # w)
    OBVIOUS
  <2>1. j \in JobIds /\ jobs[j].kind = "poll" /\ jobs[j].of = <<t>> /\ Unfinished(j)
    BY DEF PollsOf
  <2>2. jobs'[j] = jobs[j]
    BY <1>7, <2>1 DEF Unfinished
  <2> QED
    BY <1>1, <1>2, <1>6, <2>1, <2>2 DEF PollsOf, Unfinished
<1>9. \A j \in JobIds, t \in Sources : jobs'[j].key = <<t>> => jobs'[j] = jobs[j]
  <2> SUFFICES ASSUME NEW j \in JobIds, NEW t \in Sources, jobs'[j].key = <<t>>
               PROVE  jobs'[j] = jobs[j]
    OBVIOUS
  <2>1. <<t>> # NoKey
    BY IdsApart
  <2> QED
    BY <1>2, <2>1
<1>10. NoneBefore'
  BY <1>2, <1>6 DEF PollInv, NoneBefore, Live
<1>11. OneWaits'
  <2> SUFFICES ASSUME NEW t \in Sources, NEW i \in JobIds, WaitingPoll(t, i)'
               PROVE  /\ \A j \in JobIds : WaitingPoll(t, j)' => i = j
                      /\ worker'.phase = "failed" => worker'.of # <<t>>
    BY <1>2 DEF OneWaits, Working
  <2>1. CASE \E n \in JobIds : parsed(s, n)
    <3>1. PICK n \in JobIds : parsed(s, n)
      BY <2>1
    <3>2. \A j \in JobIds : WaitingPoll(t, j)' => WaitingPoll(t, j) \/ (j = n /\ t = s)
      BY <1>6, <3>1 DEF WaitingPoll
    <3> QED
      BY <1>4, <3>1, <3>2 DEF PollInv, OneWaits
  <2>2. CASE jobs' = jobs
    <3>1. \A j : WaitingPoll(t, j)' <=> WaitingPoll(t, j)
      BY <2>2 DEF WaitingPoll
    <3> QED
      BY <1>2, <1>4, <1>6, <3>1 DEF PollInv, OneWaits
  <2> QED
    BY <1>2, <2>1, <2>2
<1>12. KeyStays'
  <2> SUFFICES ASSUME NEW t \in Live, sources'[t].kind = "url"
               PROVE  \E j \in JobIds : jobs'[j].key = <<t>>
    BY <1>3 DEF KeyStays
  <2>1. sources[t].kind = "url"
    BY <1>2, <1>3
  <2>2. PICK j \in JobIds : jobs[j].key = <<t>>
    BY <2>1 DEF PollInv, KeyStays
  <2>3. jobs[j].state # "free"
    BY <1>3, <1>5, <2>2, KeyOfPoll
  <2> QED
    BY <1>7, <2>2, <2>3
<1>13. OneComes'
  <2> SUFFICES ASSUME NEW t \in Live, sources'[t].status = "pending"
                                        \/ (sources'[t].kind = "url" /\ ~sources'[t].etag)
               PROVE  \E j \in PollsOf(t)' : ~Ending(j)'
    BY <1>3 DEF OneComes
  <2>1. CASE t # s
    <3>1. sources'[t] = sources[t]
      BY <1>2, <1>3, <2>1
    <3>2. PICK j \in PollsOf(t) : ~Ending(j)
      BY <3>1 DEF PollInv, OneComes
    <3>3. j # w /\ j \in PollsOf(t)'
      BY <1>3, <1>8, <2>1
    <3> QED
      BY <1>2, <3>3 DEF Ending, InHand
  <2>2. CASE t = s /\ \E n \in JobIds : parsed(s, n)
    <3>1. PICK n \in JobIds : parsed(s, n)
      BY <2>2
    <3>2. n \in PollsOf(s)'
      BY <3>1 DEF PollsOf, Unfinished
    <3> QED
      BY <1>2, <2>2, <3>1, <3>2 DEF Ending, InHand
  <2>3. CASE t = s /\ jobs' = jobs
    <3>1. worker'.phase = "failed"
      BY <1>2, <2>2, <2>3
    <3>2. w \in PollsOf(s)
      BY <1>1, <1>2 DEF PollsOf, Unfinished
    <3>3. w \in PollsOf(s)'
      BY <1>8, <3>2
    <3> QED
      BY <2>3, <3>1, <3>3 DEF Ending
  <2> QED
    BY <1>2, <2>1, <2>2, <2>3
<1>14. Cooled'
  <2> SUFFICES ASSUME NEW t \in Live, worker'.of = <<t>>, worker'.phase = "handled"
               PROVE  sources'[t].cooling
    BY <1>3 DEF Cooled
  <2> QED
    BY <1>2, <1>3, <1>6
<1>15. FirstTag'
  <2> SUFFICES ASSUME NEW t \in Live, NEW j \in JobIds, jobs'[j].key = <<t>>,
                      jobs'[j].state = "waiting" \/ (InHand(j)' /\ Working')
               PROVE  ~sources'[t].etag
    BY <1>3 DEF FirstTag
  <2>1. jobs'[j] = jobs[j] /\ jobs[j].kind = "poll" /\ jobs[j].of = <<t>>
    BY <1>3, <1>5, <1>9, KeyOfPoll
  <2>2. ~sources[t].etag
    BY <1>1, <1>3, <2>1 DEF PollInv, FirstTag, Working
  <2>3. CASE t # s
    BY <1>2, <1>3, <2>2, <2>3
  <2>4. CASE t = s
    <3>1. InHand(j)' /\ Working'
      BY <1>4, <2>1, <2>4 DEF WaitingPoll
    <3>2. worker'.phase = "failed"
      BY <1>2, <3>1 DEF Working
    <3> QED
      BY <1>2, <2>2, <2>4, <3>2
  <2> QED
    BY <2>3, <2>4
<1>16. FoundStays'
  <2> DEFINE r == calls["refresh"].source
  <2> SUFFICES ASSUME calls["refresh"].phase = "read", r \in Live,
                      calls["refresh"].answer # "none", sources'[r].etag
               PROVE  \E j \in PollsOf(r)' : ~InHand(j)' /\ ~IsDue(j)'
    <3>1. calls["refresh"].phase = "read" =>
            /\ r \in Sources /\ sources[r].state # "absent" /\ (r \in Live => sources[r].kind = "url")
      BY DEF PollInv, FoundStays
    <3>2. calls["refresh"].phase = "read" =>
            /\ r \in Sources /\ sources'[r].state # "absent" /\ (r \in Live => sources'[r].kind = "url")
      BY <1>2, <3>1
    <3> QED
      BY <1>3, <3>2 DEF FoundStays
  <2>1. CASE sources[r].etag
    <3>1. PICK j \in PollsOf(r) : ~InHand(j) /\ ~IsDue(j)
      BY <2>1 DEF PollInv, FoundStays
    <3> QED
      BY <1>3, <1>8, <3>1
  <2>2. CASE ~sources[r].etag
    <3>1. r = s /\ \E n \in JobIds : parsed(s, n)
      BY <1>2, <1>3, <2>2
    <3>2. PICK n \in JobIds : parsed(s, n)
      BY <3>1
    <3>3. n \in PollsOf(s)' /\ ~IsDue(n)
      BY <3>2 DEF PollsOf, Unfinished, Typed, DueTyped
    <3> QED
      BY <1>2, <1>3, <3>1, <3>2, <3>3 DEF InHand
  <2> QED
    BY <2>1, <2>2
<1> QED
  BY <1>10, <1>11, <1>12, <1>13, <1>14, <1>15, <1>16 DEF PollInv

\* A cooldown, and the hour of a poll, do not come between the reads and the commit of a
\* refresh, nor between a handler and the end of its job.
LEMMA PollMoment ==
    ASSUME Typed, PollInv, ~Moment, UNCHANGED <<jobs, worker, calls>>,
           \/ sources' = sources
           \/ \E s \in Sources : sources' = [sources EXCEPT ![s].cooling = FALSE]
    PROVE  PollInv'
<1>1. \A t \in Sources : /\ sources'[t].state = sources[t].state /\ sources'[t].kind = sources[t].kind
                         /\ sources'[t].status = sources[t].status
                         /\ sources'[t].etag = sources[t].etag
  <2>1. \A t \in Sources : sources[t] \in Source
    BY DEF Typed
  <2> QED
    BY <2>1 DEF Typed, Source
<1>2. /\ calls'["refresh"].phase # "read" /\ worker'.phase # "handled"
      /\ Live' = Live /\ Live \subseteq Sources
      /\ \A s : PollsOf(s)' = PollsOf(s)
  BY <1>1 DEF Moment, Live, PollsOf, Unfinished
<1>3. NoneBefore' /\ OneWaits'
  BY <1>1 DEF PollInv, NoneBefore, OneWaits, WaitingPoll, Working
<1>4. KeyStays'
  BY <1>1, <1>2 DEF PollInv, KeyStays
<1>5. OneComes'
  BY <1>1, <1>2 DEF PollInv, OneComes, Ending, InHand
<1>6. FirstTag'
  BY <1>1, <1>2 DEF PollInv, FirstTag, InHand, Working
<1>7. Cooled' /\ FoundStays'
  BY <1>2 DEF Cooled, FoundStays
<1> QED
  BY <1>3, <1>4, <1>5, <1>6, <1>7 DEF PollInv

\* A source that is created has no poll but its first.
LEMMA PollNewSource ==
    ASSUME Typed, SourcesLeft, PollInv, NEW kind \in Kinds, CommitNewSource(kind)
    PROVE  PollInv'
<1>1. /\ worker' = worker /\ calls'["refresh"] = calls["refresh"] /\ JobsTyped'
  BY TypedNewSource DEF Kinds
<1>2. PICK s \in Sources :
        /\ sources[s].state = "absent" /\ sources'[s].state = "live" /\ ~sources'[s].etag
        /\ \A t \in Sources \ {s} : sources'[t] = sources[t]
        /\ \/ /\ sources'[s].kind = "upload" /\ sources'[s].status = "ok"
              /\ UNCHANGED <<jobs, due>>
           \/ /\ sources'[s].kind = "url"
              /\ \E n \in JobIds \ {worker.job} :
                   /\ jobs[n].state = "free" /\ jobs'[n].state = "waiting"
                   /\ jobs'[n].kind = "poll" /\ jobs'[n].of = <<s>> /\ jobs'[n].key = <<s>>
                   /\ \A i \in JobIds \ {n} : jobs'[i] = jobs[i]
                   /\ \A i : IsDue(i)' => IsDue(i) \/ i = n
  BY TypedNewSource
<1> DEFINE first(n) ==
             /\ sources'[s].kind = "url" /\ n # worker.job
             /\ jobs[n].state = "free" /\ jobs'[n].state = "waiting"
             /\ jobs'[n].kind = "poll" /\ jobs'[n].of = <<s>> /\ jobs'[n].key = <<s>>
             /\ \A i \in JobIds \ {n} : jobs'[i] = jobs[i]
             /\ \A i : IsDue(i)' => IsDue(i) \/ i = n
<1>3. \/ sources'[s].kind = "upload" /\ sources'[s].status = "ok" /\ UNCHANGED <<jobs, due>>
      \/ \E n \in JobIds : first(n)
  BY <1>2
<1>4. Live' = Live \cup {s} /\ s \notin Live /\ Live \subseteq Sources
  BY <1>2 DEF Live
<1>5. /\ \A j \in JobIds : jobs[j].kind = "poll" => jobs[j].of # <<s>>
      /\ worker.kind = "poll" => worker.of # <<s>>
  BY <1>2 DEF PollInv, NoneBefore
<1>6. \A t \in Sources : t # s => <<t>> # <<s>> /\ sources'[t] = sources[t]
  BY <1>2, IdsApart
<1>7. \A j \in JobIds : jobs[j].state # "free" => jobs'[j] = jobs[j]
  BY <1>3
<1>8. \A j \in JobIds : /\ jobs[j] \in Job /\ RowFits(jobs[j])
                        /\ jobs'[j] \in Job /\ RowFits(jobs'[j])
  BY <1>1 DEF Typed, JobsTyped
<1>9. \A t \in Sources : \A j \in PollsOf(t) : j \in PollsOf(t)' /\ (~IsDue(j) => ~IsDue(j)')
  <2> SUFFICES ASSUME NEW t \in Sources, NEW j \in PollsOf(t)
               PROVE  j \in PollsOf(t)' /\ (~IsDue(j) => ~IsDue(j)')
    OBVIOUS
  <2>1. j \in JobIds /\ Unfinished(j) /\ jobs[j].state # "free"
    BY DEF PollsOf, Unfinished
  <2>2. jobs'[j] = jobs[j] /\ (IsDue(j)' => IsDue(j))
    BY <1>3, <1>7, <2>1 DEF IsDue
  <2> QED
    BY <2>1, <2>2 DEF PollsOf, Unfinished
<1>10. \A t \in Sources, j \in JobIds : WaitingPoll(t, j)' =>
         IF t = s THEN first(j) ELSE WaitingPoll(t, j)
  BY <1>3, <1>5, <1>6 DEF WaitingPoll
<1>11. NoneBefore'
  BY <1>1, <1>2, <1>3, <1>6 DEF PollInv, NoneBefore
<1>12. OneWaits'
  <2> SUFFICES ASSUME NEW t \in Sources, NEW i \in JobIds, WaitingPoll(t, i)'
               PROVE  /\ \A j \in JobIds : WaitingPoll(t, j)' => i = j
                      /\ worker.kind = "poll" /\ Working => worker.of # <<t>>
    BY <1>1 DEF OneWaits, Working
  <2>1. CASE t = s
    BY <1>5, <1>10, <2>1
  <2>2. CASE t # s
    BY <1>10, <2>2 DEF PollInv, OneWaits
  <2> QED
    BY <2>1, <2>2
<1>13. KeyStays'
  <2> SUFFICES ASSUME NEW t \in Live \cup {s}, sources'[t].kind = "url"
               PROVE  \E j \in JobIds : jobs'[j].key = <<t>>
    BY <1>4 DEF KeyStays
  <2>1. CASE t = s
    BY <1>3, <2>1
  <2>2. CASE t # s
    <3>1. sources[t].kind = "url" /\ t \in Live
      BY <1>4, <1>6, <2>2
    <3>2. PICK j \in JobIds : jobs[j].key = <<t>>
      BY <3>1 DEF PollInv, KeyStays
    <3>3. jobs[j].state # "free"
      BY <1>4, <1>8, <3>1, <3>2, KeyOfPoll
    <3> QED
      BY <1>7, <3>2, <3>3
  <2> QED
    BY <2>1, <2>2
<1>14. OneComes'
  <2> SUFFICES ASSUME NEW t \in Live \cup {s},
                      sources'[t].status = "pending" \/ (sources'[t].kind = "url" /\ ~sources'[t].etag)
               PROVE  \E j \in PollsOf(t)' : ~Ending(j)
    BY <1>1, <1>4 DEF OneComes, Ending, InHand
  <2>1. CASE t = s
    <3>1. PICK n \in JobIds : first(n)
      BY <1>3, <2>1
    <3>2. n \in PollsOf(s)'
      BY <3>1 DEF PollsOf, Unfinished
    <3> QED
      BY <2>1, <3>1, <3>2 DEF Ending, InHand
  <2>2. CASE t # s
    <3>1. sources'[t] = sources[t] /\ t \in Live
      BY <1>4, <1>6, <2>2
    <3>2. PICK j \in PollsOf(t) : ~Ending(j)
      BY <3>1 DEF PollInv, OneComes
    <3> QED
      BY <1>4, <1>9, <3>1, <3>2
  <2> QED
    BY <2>1, <2>2
<1>15. Cooled'
  <2>1. worker.kind = "poll" /\ worker.phase = "handled" =>
          \A t \in Live \cup {s} : worker.of = <<t>> => sources'[t].cooling
    BY <1>4, <1>5, <1>6 DEF PollInv, Cooled
  <2> QED
    BY <1>1, <1>4, <2>1 DEF Cooled
<1>16. FirstTag'
  <2> SUFFICES ASSUME NEW t \in Live, NEW j \in JobIds, jobs'[j].key = <<t>>, t # s,
                      jobs'[j].state = "waiting" \/ (InHand(j) /\ Working)
               PROVE  ~sources[t].etag
    BY <1>1, <1>2, <1>4, <1>6 DEF FirstTag, InHand, Working
  <2>1. jobs'[j] = jobs[j]
    BY <1>3, <1>4, <1>6
  <2> QED
    BY <2>1 DEF PollInv, FirstTag
<1>17. FoundStays'
  <2> DEFINE r == calls["refresh"].source
  <2>1. calls["refresh"].phase = "read" =>
          /\ r \in Sources /\ sources[r].state # "absent" /\ r # s /\ (r \in Live => sources[r].kind = "url")
    BY <1>2 DEF PollInv, FoundStays
  <2>2. ASSUME calls["refresh"].phase = "read", r \in Live, calls["refresh"].answer # "none",
               sources[r].etag
        PROVE  \E j \in PollsOf(r)' : ~InHand(j)' /\ ~IsDue(j)'
    <3>1. PICK j \in PollsOf(r) : ~InHand(j) /\ ~IsDue(j)
      BY <2>2 DEF PollInv, FoundStays
    <3>2. ~InHand(j)'
      BY <1>1, <3>1 DEF InHand
    <3>3. r' = r
      BY <1>1
    <3> QED
      BY <1>4, <1>9, <2>2, <3>1, <3>2, <3>3
  <2>3. calls["refresh"].phase = "read" => sources'[r] = sources[r] /\ (r \in Live' <=> r \in Live)
    BY <1>4, <1>6, <2>1
  <2> QED
    BY <1>1, <2>1, <2>2, <2>3 DEF FoundStays
<1> QED
  BY <1>11, <1>12, <1>13, <1>14, <1>15, <1>16, <1>17 DEF PollInv

\* delete_calendar_source asks no more of a source that is gone.
LEMMA PollRemoved ==
    ASSUME Typed, PollInv, ServeRemove
    PROVE  PollInv'
<1>1. /\ UNCHANGED <<jobs, due, worker>> /\ calls'["refresh"] = calls["refresh"]
      /\ \A t \in Sources : \/ sources'[t] = sources[t]
                            \/ sources[t].state = "live" /\ sources'[t].state = "deleted"
  BY TypedRemove DEF Kinds
<1>2. /\ Live' \subseteq Live /\ Live \subseteq Sources /\ \A s \in Live' : sources'[s] = sources[s]
      /\ \A s \in Sources : sources'[s].state = "absent" <=> sources[s].state = "absent"
      /\ \A s : PollsOf(s)' = PollsOf(s)
      /\ \A j : (InHand(j)' <=> InHand(j)) /\ (IsDue(j)' <=> IsDue(j))
  BY <1>1 DEF Live, PollsOf, Unfinished, InHand, IsDue
<1>3. NoneBefore' /\ OneWaits'
  BY <1>1, <1>2 DEF PollInv, NoneBefore, OneWaits, WaitingPoll, Working
<1>4. KeyStays' /\ OneComes'
  BY <1>1, <1>2 DEF PollInv, KeyStays, OneComes, Ending
<1>5. Cooled' /\ FirstTag'
  BY <1>1, <1>2 DEF PollInv, Cooled, FirstTag, Working
<1>6. FoundStays'
  BY <1>1, <1>2 DEF PollInv, FoundStays
<1> QED
  BY <1>3, <1>4, <1>5, <1>6 DEF PollInv

\* What refresh_calendar_source finds is the first poll.  Without a tag another will come;
\* with one it has ended its run, and the cooldown says so, or it is one whose worker died.
LEMMA PollFound ==
    ASSUME Typed, PollInv, ServeRefresh
    PROVE  PollInv'
<1> DEFINE s == calls["refresh"].source
<1>1. UNCHANGED queueVars
      /\ \/ calls'["refresh"].phase = "answered"
         \/ /\ calls'["refresh"].source = s
            /\ calls'["refresh"].answer = RefreshRead(s)
            /\ RefreshRead(s) \notin {"not_found", "rate_limited"}
  BY ServesRefresh
<1>2. UNCHANGED <<jobs, due, worker, sources>>
  BY <1>1 DEF queueVars
<1>3. /\ Live' = Live /\ Live \subseteq Sources /\ (\A t : PollsOf(t)' = PollsOf(t))
      /\ \A j : (InHand(j)' <=> InHand(j)) /\ (IsDue(j)' <=> IsDue(j))
  BY <1>2 DEF Live, PollsOf, Unfinished, InHand, IsDue
<1>4. NoneBefore' /\ OneWaits' /\ KeyStays' /\ OneComes' /\ Cooled' /\ FirstTag'
  BY <1>2, <1>3 DEF PollInv, NoneBefore, OneWaits, WaitingPoll, Working, KeyStays, OneComes, Ending,
                    Cooled, FirstTag
<1>5. FoundStays'
  <2>1. CASE calls'["refresh"].phase = "answered"
    BY <2>1 DEF FoundStays
  <2>2. CASE RefreshRead(s) \notin {"not_found", "rate_limited"} /\ calls'["refresh"].source = s
               /\ calls'["refresh"].answer = RefreshRead(s)
    <3>1. s \in Live /\ sources[s].kind = "url" /\ ~sources[s].cooling
      BY <2>2 DEF RefreshRead
    <3>2. RefreshRead(s) # "none" => \E j \in PollsOf(s) : jobs[j].key = <<s>>
      BY <3>1 DEF RefreshRead
    <3>3. ASSUME RefreshRead(s) # "none", sources[s].etag
          PROVE  \E j \in PollsOf(s) : ~InHand(j) /\ ~IsDue(j)
      <4>1. PICK j \in PollsOf(s) : jobs[j].key = <<s>>
        BY <3>2, <3>3
      <4>2. j \in JobIds /\ jobs[j].state \in {"waiting", "locked"} /\ jobs[j].of = <<s>>
        BY DEF PollsOf, Unfinished
      <4>3. jobs[j].state # "waiting" /\ ~(InHand(j) /\ Working)
        BY <3>1, <3>3, <4>1, <4>2 DEF PollInv, FirstTag
      <4>4. ~IsDue(j)
        BY <4>2, <4>3 DEF Typed, DueTyped
      <4>5. ~InHand(j)
        <5>1. SUFFICES ASSUME InHand(j) PROVE FALSE
          OBVIOUS
        <5>2. worker.kind = "poll" /\ worker.job = j /\ worker.of = <<s>>
          BY <4>2, <4>3, <5>1 DEF InHand, Typed, WorkerTyped
        <5>3. worker.phase = "handled"
          BY <4>3, <5>1, <5>2 DEF Working, Typed, WorkerTyped, Busy, Phases
        <5> QED
          BY <3>1, <5>2, <5>3 DEF PollInv, Cooled
      <4> QED
        BY <4>4, <4>5
    <3>4. s \in Sources /\ sources[s].state # "absent"
      BY <3>1 DEF Live
    <3> QED
      BY <1>2, <1>3, <2>2, <3>1, <3>3, <3>4 DEF FoundStays
  <2> QED
    BY <1>1, <2>1, <2>2
<1> QED
  BY <1>4, <1>5 DEF PollInv

\* A refresh that says pending has a poll to end that.
LEMMA PollRefreshed ==
    ASSUME Typed, PollInv, CommitRefresh
    PROVE  PollInv'
<1>1. /\ UNCHANGED <<jobs, due, worker>> /\ calls'["refresh"].phase = "answered"
      /\ \/ sources' = sources
         \/ \E s \in Live :
              /\ s = calls["refresh"].source /\ calls["refresh"].phase = "read"
              /\ calls["refresh"].answer # "none"
              /\ \A t \in Sources \ {s} : sources'[t] = sources[t]
              /\ sources'[s].state = "live" /\ sources'[s].kind = sources[s].kind
              /\ sources'[s].etag = sources[s].etag /\ sources'[s].cooling = sources[s].cooling
  BY TypedRefresh DEF PollInv
<1>2. \A t \in Sources : /\ sources'[t].state = sources[t].state /\ sources'[t].kind = sources[t].kind
                         /\ sources'[t].etag = sources[t].etag
                         /\ sources'[t].cooling = sources[t].cooling
  BY <1>1 DEF Live
<1>3. /\ Live' = Live /\ Live \subseteq Sources /\ (\A t : PollsOf(t)' = PollsOf(t))
      /\ \A j : (InHand(j)' <=> InHand(j)) /\ (Ending(j)' <=> Ending(j))
  BY <1>1, <1>2 DEF Live, PollsOf, Unfinished, InHand, Ending
<1>4. NoneBefore' /\ OneWaits' /\ KeyStays'
  BY <1>1, <1>2, <1>3 DEF PollInv, NoneBefore, OneWaits, WaitingPoll, Working, KeyStays
<1>5. Cooled' /\ FirstTag' /\ FoundStays'
  BY <1>1, <1>2, <1>3 DEF PollInv, Cooled, FirstTag, Working, FoundStays
<1>6. OneComes'
  <2>1. CASE sources' = sources
    BY <1>3, <2>1 DEF PollInv, OneComes
  <2>2. CASE sources' # sources
    <3>1. PICK s \in Live : /\ s = calls["refresh"].source /\ calls["refresh"].phase = "read"
                            /\ calls["refresh"].answer # "none"
                            /\ \A t \in Sources \ {s} : sources'[t] = sources[t]
      BY <1>1, <2>2
    <3>2. sources[s].kind = "url" /\ (sources[s].etag => \E j \in PollsOf(s) : ~InHand(j))
      BY <3>1 DEF PollInv, FoundStays
    <3>3. \E j \in PollsOf(s) : ~Ending(j)
      BY <3>2 DEF PollInv, OneComes, Ending
    <3> QED
      BY <1>3, <3>1, <3>3 DEF PollInv, OneComes
  <2> QED
    BY <2>1, <2>2
<1> QED
  BY <1>4, <1>5, <1>6 DEF PollInv

-----------------------------------------------------------------------------
(* The reminders and the confirmation.                                     *)

\* A reminder says what it is of, and a key of a reminder is on its row.
LEMMA KeyOfReminder ==
    \A x \in Job : RowFits(x) =>
       /\ x.kind = "reminder" =>
            \E m \in Members, p \in Proposals : x.of = <<m, p>> /\ x.of[2] = p /\ x.key = <<m, p>>
       /\ \A m \in Members, p \in Proposals : x.key = <<m, p>> =>
            x.kind = "reminder" /\ x.of = <<m, p>> /\ x.of[2] = p
<1> SUFFICES ASSUME NEW x \in Job, RowFits(x)
             PROVE  /\ x.kind = "reminder" =>
                         \E m \in Members, p \in Proposals :
                            x.of = <<m, p>> /\ x.of[2] = p /\ x.key = <<m, p>>
                    /\ \A m \in Members, p \in Proposals : x.key = <<m, p>> =>
                         x.kind = "reminder" /\ x.of = <<m, p>> /\ x.of[2] = p
  OBVIOUS
<1>1. x.kind \in {"none", "poll", "reminder"}
  BY DEF Job
<1>2. \A m \in Members, p \in Proposals :
        <<m, p>> # NoKey /\ <<m, p>> \notin PollIds /\ <<m, p>>[2] = p
  <2>1. \A m, p : <<m, p>>[2] = p
    OBVIOUS
  <2>2. \A m \in Members, p \in Proposals : <<m, p>> \in ReminderIds
    BY IdsApart
  <2>3. NoKey \notin ReminderIds /\ \A y \in PollIds : y \notin ReminderIds
    BY IdsApart
  <2> QED
    BY <2>1, <2>2, <2>3
<1>3. x.kind = "reminder" => x.of \in ReminderIds /\ x.key = x.of
  BY DEF RowFits
<1>4. x.kind = "reminder" => \E m \in Members, p \in Proposals :
                               x.of = <<m, p>> /\ x.of[2] = p /\ x.key = <<m, p>>
  BY <1>3, IdsApart
<1>5. \A m \in Members, p \in Proposals : x.key = <<m, p>> =>
        x.kind = "reminder" /\ x.of = <<m, p>> /\ x.of[2] = p
  BY <1>1, <1>2 DEF RowFits
<1> QED
  BY <1>4, <1>5

\* Nothing is planned at first.
LEMMA ReminderInit == Init => ReminderInv
<1> SUFFICES ASSUME Init PROVE ReminderInv
  OBVIOUS
<1>1. \A j \in JobIds : jobs[j].kind = "none"
  BY DEF Init, QueueInit, NoJob
<1>2. worker.kind = "none" /\ history = <<>> /\ \A r \in Requests : group.asks[r] = NoAsk
  BY DEF Init, QueueInit, Idle
<1>3. \A m \in Members, p \in Proposals : mails[<<m, p>>] = 0
  <2> SUFFICES ASSUME NEW m \in Members, NEW p \in Proposals PROVE mails[<<m, p>>] = 0
    OBVIOUS
  <2>1. <<m, p>> \in Members \X Proposals
    OBVIOUS
  <2>2. mails = [of \in Members \X Proposals |-> 0]
    BY DEF Init, QueueInit
  <2> QED
    BY <2>1, <2>2
<1>4. HeldFits /\ CurrentFits /\ PlansFit
  BY <1>2, NoAskTyped DEF HeldFits, CurrentFits, PlansFit, Current, Asked
<1>5. AfterHour /\ OfConfirmed /\ OneReminder
  BY <1>1, <1>2, <1>3 DEF OfConfirmed, AfterHour, OneReminder, WaitingFor, InMail, Happened
<1> QED
  BY <1>4, <1>5 DEF ReminderInv

\* What requests have read and hold stays as long as the group does, and no row that may
\* still run is added or taken away.
LEMMA HeldStays ==
    ASSUME HeldFits, CurrentFits, group' = group,
           \A j \in JobIds : j \in Held \/ (jobs'[j].kind = "reminder" /\ Unfinished(j)') =>
              /\ jobs'[j].kind = jobs[j].kind /\ jobs'[j].of = jobs[j].of
              /\ Unfinished(j)' <=> Unfinished(j),
           \A r \in Requests : group.asks[r].rows \subseteq JobIds
    PROVE  HeldFits' /\ CurrentFits'
<1>1. \A r \in Requests : \A j \in group.asks[r].rows : j \in Held
  BY DEF Held
<1>2. HeldFits'
  BY <1>1 DEF HeldFits
<1>3. \A p : Cancelled(p)' \subseteq Cancelled(p)
  BY DEF Cancelled
<1>4. CurrentFits'
  BY <1>3 DEF CurrentFits, Current, Asked
<1> QED
  BY <1>2, <1>4

\* The rows that requests hold are in the table.
LEMMA RowsInTable ==
    ASSUME Typed
    PROVE  \A r \in Requests : group.asks[r] \in Ask /\ group.asks[r].rows \subseteq JobIds
BY DEF Typed, GroupTyped, Ask

\* Reminders are not touched by what leaves their rows, their worker, the mails and the
\* group alone: polls, sources and the page; nor by the passing of an hour.
LEMMA RemindersAlone ==
    ASSUME Typed, ReminderInv, UNCHANGED <<group, mails>>, ahead' \subseteq ahead,
           \A j \in JobIds :
              jobs'[j] = jobs[j] \/ (jobs[j].kind # "reminder" /\ jobs'[j].kind # "reminder"),
           worker' = worker \/ (worker.kind # "reminder" /\ worker'.kind # "reminder"),
           Happened("half sent")' <=> Happened("half sent")
    PROVE  ReminderInv'
<1>1. \A j \in JobIds : jobs[j].kind = "reminder" \/ jobs'[j].kind = "reminder" => jobs'[j] = jobs[j]
  OBVIOUS
<1>2. worker.kind = "reminder" \/ worker'.kind = "reminder" => worker' = worker
  OBVIOUS
<1>3. HeldFits' /\ CurrentFits'
  <2>1. \A j \in JobIds : j \in Held => jobs[j].kind = "reminder"
    <3> SUFFICES ASSUME NEW j \in JobIds, NEW r \in Requests, j \in group.asks[r].rows
                 PROVE  jobs[j].kind = "reminder"
      BY DEF Held
    <3> QED
      BY DEF ReminderInv, HeldFits
  <2> QED
    BY <1>1, <2>1, HeldStays, RowsInTable DEF ReminderInv, Unfinished
<1>4. AfterHour'
  BY <1>1, <1>2 DEF ReminderInv, AfterHour
<1>5. \A m, p : /\ \A j \in JobIds : WaitingFor(m, p, j)' <=> WaitingFor(m, p, j)
                /\ InMail(m, p)' <=> InMail(m, p)
  BY <1>1, <1>2 DEF WaitingFor, InMail
<1>6. OneReminder => OneReminder'
  BY <1>5 DEF OneReminder
<1>7. OfConfirmed => OfConfirmed'
  BY <1>1 DEF OfConfirmed, Unfinished
<1>8. PlansFit => PlansFit'
  BY <1>1, <1>2 DEF PlansFit, Current, Asked
<1> QED
  BY <1>3, <1>4, <1>6, <1>7, <1>8 DEF ReminderInv

\* claim_job takes a reminder after its hour, and none else waits for the same mail.
LEMMA ReminderClaim ==
    ASSUME Typed, ReminderInv, ClaimJob, worker'.kind = "reminder"
    PROVE  ReminderInv'
<1>1. PICK j0 \in JobIds :
        /\ jobs[j0].state = "waiting" /\ ~FirstRun(j0)
        /\ jobs'[j0].state = "locked" /\ jobs'[j0].kind = jobs[j0].kind
        /\ jobs'[j0].of = jobs[j0].of
        /\ \A i \in JobIds \ {j0} : jobs'[i] = jobs[i]
        /\ worker'.kind = jobs[j0].kind /\ worker'.of = jobs[j0].of
  BY TypedClaim
<1>2. UNCHANGED <<group, ahead, mails, history>> /\ jobs[j0].kind = "reminder"
      /\ jobs[j0].of[2] \notin ahead
  BY <1>1 DEF ClaimJob, FirstRun
<1>3. /\ \A j \in JobIds : jobs'[j].kind = jobs[j].kind /\ jobs'[j].of = jobs[j].of
                           /\ (Unfinished(j)' <=> Unfinished(j))
      /\ HeldFits' /\ CurrentFits'
  <2>1. \A j \in JobIds : jobs'[j].kind = jobs[j].kind /\ jobs'[j].of = jobs[j].of
                          /\ (Unfinished(j)' <=> Unfinished(j))
    BY <1>1 DEF Unfinished
  <2> QED
    BY <1>2, <2>1, HeldStays, RowsInTable DEF ReminderInv
<1>4. AfterHour'
  BY <1>1, <1>2 DEF ReminderInv, AfterHour
<1>5. ASSUME NEW m \in Members, NEW p \in Proposals
      PROVE  /\ \A j \in JobIds : WaitingFor(m, p, j)' => WaitingFor(m, p, j) /\ j # j0
             /\ InMail(m, p)' => WaitingFor(m, p, j0)
  BY <1>1, <1>2 DEF WaitingFor, InMail
<1>6. OneReminder => OneReminder'
  BY <1>2, <1>5 DEF OneReminder, Happened
<1>7. OfConfirmed => OfConfirmed'
  BY <1>2, <1>3 DEF OfConfirmed
<1>8. PlansFit => PlansFit'
  BY <1>1, <1>2, <1>3 DEF PlansFit, Current, Asked
<1> QED
  BY <1>2, <1>3, <1>4, <1>6, <1>7, <1>8 DEF ReminderInv

\* A reminder is completed once it is mailed, waits again if the mail has failed, and is
\* left locked by a worker that dies.
LEMMA ReminderLeft ==
    ASSUME Typed, ReminderInv, worker.kind = "reminder", CompleteJob \/ RetryJob \/ Die,
           Happened("half sent")' <=> Happened("half sent")
    PROVE  ReminderInv'
<1> DEFINE w == worker.job
<1>1. /\ worker'.kind = "none" /\ w \in JobIds /\ \A i \in JobIds \ {w} : jobs'[i] = jobs[i]
      /\ \/ jobs'[w] = jobs[w]
         \/ /\ jobs[w].kind = "reminder" /\ jobs[w].of = worker.of /\ jobs[w].state = "locked"
            /\ jobs'[w].kind = "reminder" /\ jobs'[w].of = worker.of /\ w \notin Held
            /\ jobs'[w].state = "done" \/ (jobs'[w].state = "waiting" /\ At("failed"))
  <2>1. CASE Die
    BY <2>1, TypedDown DEF Die, Typed, WorkerTyped, Busy
  <2>2. CASE CompleteJob \/ RetryJob
    <3>1. jobs[w] \in Job /\ RowFits(jobs[w])
      BY <2>2, TypedRelease DEF Typed, JobsTyped
    <3>2. jobs[w].kind = "reminder" => jobs[w].key # NoKey
      BY <3>1, IdsApart DEF RowFits
    <3>3. (RetryJob => At("failed")) /\ w \notin Held
      BY <2>2 DEF RetryJob, CompleteJob
    <3> QED
      BY <2>2, <3>2, <3>3, TypedRelease
  <2> QED
    BY <2>1, <2>2
<1>2. UNCHANGED <<group, ahead, mails>>
  BY DEF CompleteJob, RetryJob, Die
<1>3. /\ HeldFits' /\ CurrentFits'
      /\ \A j \in JobIds : jobs'[j].kind = jobs[j].kind /\ jobs'[j].of = jobs[j].of
                           /\ (Unfinished(j)' => Unfinished(j))
                           /\ (j \in Held => jobs'[j] = jobs[j])
  <2>1. \A j \in JobIds : jobs'[j].kind = jobs[j].kind /\ jobs'[j].of = jobs[j].of
                          /\ (Unfinished(j)' => Unfinished(j))
                          /\ (j \in Held => jobs'[j] = jobs[j])
    BY <1>1 DEF Unfinished
  <2>2. \A j \in JobIds : j \in Held => (Unfinished(j)' <=> Unfinished(j))
    BY <2>1 DEF Unfinished
  <2> QED
    BY <1>2, <2>1, <2>2, HeldStays, RowsInTable DEF ReminderInv
<1>4. AfterHour'
  BY <1>1, <1>2 DEF ReminderInv, AfterHour
<1>5. ASSUME NEW m \in Members, NEW p \in Proposals
      PROVE  /\ \A j \in JobIds : WaitingFor(m, p, j)' =>
                  WaitingFor(m, p, j) \/ (j = w /\ InMail(m, p))
             /\ ~InMail(m, p)'
  <2>1. \A j \in JobIds \ {w} : WaitingFor(m, p, j)' <=> WaitingFor(m, p, j)
    BY <1>1 DEF WaitingFor
  <2>2. \A j \in JobIds : j = w /\ WaitingFor(m, p, j)' => WaitingFor(m, p, j) \/ InMail(m, p)
    BY <1>1 DEF WaitingFor, InMail, At
  <2>3. ~InMail(m, p)'
    BY <1>1 DEF InMail
  <2> QED
    BY <2>1, <2>2, <2>3
<1>6. ASSUME OneReminder PROVE OneReminder'
  <2> SUFFICES ASSUME NEW m \in Members, NEW p \in Proposals
               PROVE  /\ \A i, j \in JobIds : WaitingFor(m, p, i)' /\ WaitingFor(m, p, j)' => i = j
                      /\ mails[<<m, p>>] > 0 /\ ~Happened("half sent") =>
                            \A j \in JobIds : ~WaitingFor(m, p, j)'
                      /\ mails[<<m, p>>] > 1 => Happened("half sent")
    BY <1>2, <1>5 DEF OneReminder
  <2>1. /\ \A i, j \in JobIds : WaitingFor(m, p, i) /\ WaitingFor(m, p, j) => i = j
        /\ InMail(m, p) => \A j \in JobIds : ~WaitingFor(m, p, j)
        /\ mails[<<m, p>>] > 0 /\ ~Happened("half sent") =>
              ~InMail(m, p) /\ \A j \in JobIds : ~WaitingFor(m, p, j)
        /\ mails[<<m, p>>] > 1 => Happened("half sent")
    BY <1>6 DEF OneReminder
  <2> QED
    BY <1>5, <2>1
<1>7. OfConfirmed => OfConfirmed'
  BY <1>2, <1>3 DEF OfConfirmed
<1>8. PlansFit => PlansFit'
  BY <1>1, <1>2, <1>3 DEF PlansFit, Current, Asked
<1> QED
  BY <1>2, <1>3, <1>4, <1>6, <1>7, <1>8 DEF ReminderInv

\* handle_reminder_send mails the reminder in hand: once, unless the mail was reported as
\* failed although it was sent.
LEMMA ReminderHandled ==
    ASSUME Typed, ReminderInv, StartReminder \/ EndReminder
    PROVE  ReminderInv'
<1>1. /\ UNCHANGED <<jobs, group, ahead>> /\ worker.kind = "reminder"
      /\ worker'.kind = "reminder" /\ worker'.of = worker.of /\ worker.of \in Members \X Proposals
      /\ worker.phase \in {"claimed", "sending"}
  BY TypedStart, TypedEndReminder DEF Typed, WorkerTyped, ReminderIds, StartReminder
<1>2. /\ HeldFits' /\ CurrentFits' /\ (OfConfirmed => OfConfirmed')
      /\ \A m, p : \A j : WaitingFor(m, p, j)' <=> WaitingFor(m, p, j)
  <2>1. HeldFits' /\ CurrentFits'
    BY <1>1, HeldStays, RowsInTable DEF ReminderInv, Unfinished
  <2> QED
    BY <1>1, <2>1 DEF OfConfirmed, Unfinished, WaitingFor
<1>3. PICK m0 \in Members, p0 \in Proposals :
        worker.of = <<m0, p0>> /\ worker.of[2] = p0 /\ p0 \notin ahead
  <2>1. worker.of \in ReminderIds
    BY <1>1 DEF ReminderIds
  <2> QED
    BY <1>1, <2>1, IdsApart DEF ReminderInv, AfterHour
<1>4. InMail(m0, p0)
  BY <1>1, <1>3 DEF InMail
<1>5. \A m, p : InMail(m, p)' => InMail(m, p)
  BY <1>1 DEF InMail
<1>6. CASE UNCHANGED <<mails, history>>
  <2>1. AfterHour' /\ (OneReminder => OneReminder') /\ (PlansFit => PlansFit')
    BY <1>1, <1>2, <1>5, <1>6
       DEF ReminderInv, AfterHour, OneReminder, Happened, PlansFit, Current, Asked
  <2> QED
    BY <1>1, <1>2, <2>1 DEF ReminderInv
<1>7. CASE /\ mails' = [mails EXCEPT ![worker.of] = @ + 1]
           /\ \/ worker'.phase = "handled" /\ history' = history
              \/ history' = Append(history, "half sent")
  <2>1. /\ Happened("half sent") => Happened("half sent")'
        /\ \/ Happened("half sent")'
           \/ worker'.phase = "handled" /\ ~Happened("half sent")
    <3>1. CASE worker'.phase = "handled" /\ history' = history
      BY <3>1 DEF Happened
    <3>2. CASE history' = Append(history, "half sent")
      <4>1. history \in Seq(Mishaps) /\ "half sent" \in Mishaps
        BY DEF Typed, Mishaps
      <4>2. \A other : Happened(other)' <=> Happened(other) \/ other = "half sent"
        BY <3>2, <4>1, HistoryGrows
      <4> QED
        BY <4>2
    <3> QED
      BY <1>7, <3>1, <3>2
  <2>2. \A of \in Members \X Proposals :
          mails[of] \in Nat /\ mails'[of] = IF of = worker.of THEN mails[of] + 1 ELSE mails[of]
    BY <1>1, <1>7 DEF Typed
  <2>3. \A m \in Members, p \in Proposals :
          /\ mails[<<m, p>>] \in Nat
          /\ <<m, p>> # <<m0, p0>> => mails'[<<m, p>>] = mails[<<m, p>>]
          /\ <<m, p>> = <<m0, p0>> => mails'[<<m, p>>] = mails[<<m, p>>] + 1 /\ m = m0 /\ p = p0
    <3> SUFFICES ASSUME NEW m \in Members, NEW p \in Proposals
                 PROVE  /\ mails[<<m, p>>] \in Nat
                        /\ <<m, p>> # <<m0, p0>> => mails'[<<m, p>>] = mails[<<m, p>>]
                        /\ <<m, p>> = <<m0, p0>> =>
                             mails'[<<m, p>>] = mails[<<m, p>>] + 1 /\ m = m0 /\ p = p0
      OBVIOUS
    <3>1. <<m, p>> \in Members \X Proposals
      OBVIOUS
    <3>2. <<m, p>> = <<m0, p0>> => m = m0 /\ p = p0
      BY IdsApart
    <3> HIDE DEF IdsApart
    <3> QED
      BY <1>3, <2>2, <3>1, <3>2
  <2>4. AfterHour'
    BY <1>1, <1>3, <2>3 DEF ReminderInv, AfterHour
  <2>5. ASSUME OneReminder, NEW m \in Members, NEW p \in Proposals
        PROVE  /\ mails'[<<m, p>>] > 0 /\ ~Happened("half sent")' =>
                    ~InMail(m, p)' /\ \A j \in JobIds : ~WaitingFor(m, p, j)
               /\ mails'[<<m, p>>] > 1 => Happened("half sent")'
    <3>1. CASE <<m, p>> # <<m0, p0>>
      <4>1. mails'[<<m, p>>] = mails[<<m, p>>] /\ (Happened("half sent") => Happened("half sent")')
        BY <2>1, <2>3, <3>1
      <4> QED
        BY <1>5, <2>5, <4>1 DEF OneReminder
    <3>2. CASE <<m, p>> = <<m0, p0>>
      <4>1. mails'[<<m, p>>] = mails[<<m, p>>] + 1 /\ mails[<<m, p>>] \in Nat /\ m = m0 /\ p = p0
        BY <2>3, <3>2
      <4>2. \A j \in JobIds : ~WaitingFor(m, p, j)
        BY <1>4, <2>5, <4>1 DEF OneReminder
      <4>3. mails[<<m, p>>] > 0 => Happened("half sent")
        BY <1>4, <2>5, <4>1 DEF OneReminder
      <4>4. ~Happened("half sent")' => ~InMail(m, p)' /\ ~Happened("half sent")
        BY <2>1 DEF InMail
      <4>5. mails'[<<m, p>>] > 1 => mails[<<m, p>>] > 0
        BY <4>1
      <4> QED
        BY <2>1, <4>2, <4>3, <4>4, <4>5
    <3> QED
      BY <3>1, <3>2
  <2>6. OneReminder => OneReminder'
    BY <1>2, <1>5, <2>5 DEF OneReminder
  <2>7. ASSUME PlansFit PROVE PlansFit'
    <3> SUFFICES ASSUME NEW r \in Requests, Current(r), group.asks[r].plans, NEW m \in Members,
                        mails'[<<m, group.asks[r].pid>>] > 0
                 PROVE  FALSE
      BY <1>1, <2>7 DEF PlansFit, Current, Asked
    <3>1. group.asks[r].pid \in Proposals
      BY DEF Typed, GroupTyped, Current
    <3>2. group.asks[r].pid # p0 /\ ~(mails[<<m, group.asks[r].pid>>] > 0)
      BY <1>1, <1>3, <2>7 DEF PlansFit
    <3>3. <<m, group.asks[r].pid>> # <<m0, p0>>
      BY <3>2, IdsApart
    <3> QED
      BY <2>3, <3>1, <3>2, <3>3
  <2> QED
    BY <1>1, <1>2, <2>4, <2>6, <2>7 DEF ReminderInv
<1> QED
  BY <1>1, <1>6, <1>7, TypedStart, TypedEndReminder

\* A commit takes nothing from the requests that it overtakes.
LEMMA ReminderSettled ==
    ASSUME Typed, ReminderInv, NEW r \in Requests, group'.asks[r] = NoAsk,
           \A q \in Requests \ {r} : group'.asks[q] = group.asks[q],
           \A q \in Requests : ~Current(q)',
           \A j \in JobIds : j \in Held \ group.asks[r].rows => jobs'[j] = jobs[j]
    PROVE  HeldFits' /\ CurrentFits' /\ PlansFit'
<1>1. CurrentFits' /\ PlansFit'
  BY DEF CurrentFits, PlansFit
<1>2. ASSUME NEW q \in Requests, NEW j \in group'.asks[q].rows
      PROVE  q # r /\ j \in JobIds /\ j \in group.asks[q].rows /\ jobs'[j] = jobs[j]
  <2>1. q # r
    BY <1>2, NoAskTyped
  <2>2. j \in group.asks[q].rows /\ j \in JobIds
    BY <1>2, <2>1, RowsInTable
  <2>3. j \in Held /\ j \notin group.asks[r].rows
    BY <2>1, <2>2 DEF Held, ReminderInv, HeldFits
  <2> QED
    BY <2>1, <2>2, <2>3
<1>3. HeldFits'
  <2>1. \A q \in Requests : \A j \in group'.asks[q].rows :
          jobs'[j].kind = "reminder" /\ Unfinished(j)' /\ jobs'[j].of[2] = group'.asks[q].pid
    BY <1>2 DEF ReminderInv, HeldFits, Unfinished
  <2>2. \A q, u \in Requests : q # u => group'.asks[q].rows \cap group'.asks[u].rows = {}
    BY <1>2 DEF ReminderInv, HeldFits
  <2> QED
    BY <2>1, <2>2 DEF HeldFits
<1> QED
  BY <1>1, <1>3

\* While the group is not confirmed no reminder may still run, so a confirmation that no
\* request has overtaken adds to none.
LEMMA ReminderConfirm ==
    ASSUME Typed, JobsTyped', ReminderInv, NEW r \in Requests, ConfirmGroup(r)
    PROVE  ReminderInv' /\ GroupTyped'
<1> DEFINE p == group.asks[r].pid
<1>1. /\ p \in Proposals /\ Asked(r, "confirming") /\ Settled(r, "confirmed", p)
      /\ UNCHANGED <<worker, ahead, mails, history>>
      /\ \A j \in JobIds : \/ jobs'[j] = jobs[j]
                           \/ /\ jobs[j].state = "free"
                              /\ \E m \in Members : jobs'[j] = ReminderOf(m, p)
      /\ \/ jobs' = jobs
         \/ /\ group.asks[r].plans
            /\ \A i, j \in JobIds, m \in Members :
                 jobs'[i] = ReminderOf(m, p) /\ jobs'[j] = ReminderOf(m, p) => i = j
  BY TypedConfirm
<1> HIDE DEF p
<1>2. "none" \notin Proposals
  BY JobAssumption
<1>3. /\ GroupTyped' /\ group'.state = "confirmed" /\ group'.pid = p
      /\ group'.asks[r] = NoAsk
      /\ \A q \in Requests \ {r} : group'.asks[q] = group.asks[q]
      /\ \A q \in Requests : ~Current(q)'
      /\ ~group'.late => ~group.late /\ r \notin group.overtaken
  BY <1>1, <1>2, SettledTyped DEF Typed
<1>4. \A m \in Members :
        /\ ReminderOf(m, p).state = "waiting" /\ ReminderOf(m, p).kind = "reminder"
        /\ ReminderOf(m, p).of = <<m, p>> /\ <<m, p>>[2] = p
  BY <1>1, NewRows
<1>5. HeldFits' /\ CurrentFits' /\ PlansFit'
  <2>1. \A j \in Held : jobs[j].state # "free"
    BY DEF Held, ReminderInv, HeldFits, Unfinished
  <2> QED
    BY <1>1, <1>3, <2>1, ReminderSettled
<1>6. AfterHour'
  <2>1. \A j \in JobIds : jobs'[j].kind = "reminder" /\ jobs'[j].state # "waiting" => jobs'[j] = jobs[j]
    BY <1>1, <1>4
  <2> QED
    BY <1>1, <2>1 DEF ReminderInv, AfterHour
<1>7. ASSUME ~group'.late PROVE OfConfirmed' /\ OneReminder'
  <2>1. /\ OfConfirmed /\ OneReminder /\ PlansFit /\ Current(r) /\ group.state = "open"
        /\ group.pid = "none"
    BY <1>1, <1>3, <1>7 DEF ReminderInv, CurrentFits, Current, Asked, Typed, GroupTyped
  <2>2. \A j \in JobIds : jobs[j].kind = "reminder" => ~Unfinished(j)
    <3> SUFFICES ASSUME NEW j \in JobIds, jobs[j].kind = "reminder" PROVE ~Unfinished(j)
      OBVIOUS
    <3>1. jobs[j].of[2] \in Proposals
      BY KeyOfReminder DEF Typed, JobsTyped
    <3> QED
      BY <1>2, <2>1, <3>1 DEF OfConfirmed
  <2>3. OfConfirmed'
    <3> SUFFICES ASSUME NEW j \in JobIds, jobs'[j].kind = "reminder",
                        jobs'[j].state \in {"waiting", "locked"}
                 PROVE  p = jobs'[j].of[2]
      BY <1>3 DEF OfConfirmed, Unfinished
    <3>1. jobs'[j] # jobs[j]
      BY <2>2 DEF Unfinished
    <3> QED
      BY <1>1, <1>4, <3>1
  <2>4. \A m \in Members, q \in Proposals, j \in JobIds :
          WaitingFor(m, q, j)' => q = p /\ jobs'[j] = ReminderOf(m, p) /\ jobs' # jobs
    <3> SUFFICES ASSUME NEW m \in Members, NEW q \in Proposals, NEW j \in JobIds,
                        WaitingFor(m, q, j)'
                 PROVE  q = p /\ jobs'[j] = ReminderOf(m, p) /\ jobs' # jobs
      OBVIOUS
    <3>1. jobs'[j] # jobs[j]
      BY <2>2 DEF WaitingFor, Unfinished
    <3>2. PICK n \in Members : jobs'[j] = ReminderOf(n, p)
      BY <1>1, <3>1
    <3>3. <<m, q>> = <<n, p>>
      BY <1>4, <3>2 DEF WaitingFor
    <3> QED
      BY <3>1, <3>2, <3>3, IdsApart
  <2>5. jobs' # jobs => \A m \in Members : ~(mails[<<m, p>>] > 0) /\ ~InMail(m, p)
    <3>1. ASSUME jobs' # jobs, NEW m \in Members, InMail(m, p) PROVE worker.of[2] = p
      <4>1. worker.of = <<m, p>> /\ <<m, p>>[2] = p
        BY <3>1 DEF InMail
      <4> QED
        BY <4>1
    <3> QED
      BY <1>1, <2>1, <3>1 DEF PlansFit, InMail, p
  <2>6. \A m, q : InMail(m, q)' <=> InMail(m, q)
    BY <1>1 DEF InMail
  <2>7. OneReminder'
    <3> SUFFICES ASSUME NEW m \in Members, NEW q \in Proposals
                 PROVE  /\ \A i, j \in JobIds : WaitingFor(m, q, i)' /\ WaitingFor(m, q, j)' => i = j
                        /\ InMail(m, q)' => \A j \in JobIds : ~WaitingFor(m, q, j)'
                        /\ mails[<<m, q>>] > 0 /\ ~Happened("half sent") =>
                              ~InMail(m, q)' /\ \A j \in JobIds : ~WaitingFor(m, q, j)'
                        /\ mails[<<m, q>>] > 1 => Happened("half sent")
      BY <1>1 DEF OneReminder, Happened
    <3>1. \A i, j \in JobIds : WaitingFor(m, q, i)' /\ WaitingFor(m, q, j)' => i = j
      BY <1>1, <2>4
    <3>2. InMail(m, q)' => \A j \in JobIds : ~WaitingFor(m, q, j)'
      BY <2>4, <2>5, <2>6
    <3>3. mails[<<m, q>>] > 0 /\ ~Happened("half sent") =>
             ~InMail(m, q)' /\ \A j \in JobIds : ~WaitingFor(m, q, j)'
      BY <2>1, <2>4, <2>5, <2>6 DEF OneReminder
    <3>4. mails[<<m, q>>] > 1 => Happened("half sent")
      BY <2>1 DEF OneReminder
    <3> QED
      BY <3>1, <3>2, <3>3, <3>4
  <2> QED
    BY <2>3, <2>7
<1> QED
  BY <1>3, <1>5, <1>6, <1>7 DEF ReminderInv

\* A reopening that no request has overtaken takes back all that may still run: a reminder
\* in hand is mailed, and its end finds no row.
LEMMA ReminderUnconfirm ==
    ASSUME Typed, ReminderInv, NEW r \in Requests, UnconfirmGroup(r)
    PROVE  ReminderInv' /\ GroupTyped'
<1> DEFINE gone == group.asks[r].rows
<1>1. /\ UNCHANGED <<worker, ahead, mails, history>> /\ Asked(r, "reopened")
      /\ Settled(r, "open", "none")
      /\ \A j \in JobIds : IF j \in gone THEN jobs'[j] = NoJob ELSE jobs'[j] = jobs[j]
  BY TypedUnconfirm DEF ReminderInv
<1>2. /\ GroupTyped' /\ group'.state = "open" /\ group'.pid = "none"
      /\ group'.asks[r] = NoAsk
      /\ \A q \in Requests \ {r} : group'.asks[q] = group.asks[q]
      /\ \A q \in Requests : ~Current(q)'
      /\ ~group'.late => ~group.late /\ r \notin group.overtaken
  BY <1>1, SettledTyped DEF Typed
<1>3. HeldFits' /\ CurrentFits' /\ PlansFit'
  BY <1>1, <1>2, ReminderSettled
<1>4. \A j \in JobIds : jobs'[j].kind = "reminder" => jobs'[j] = jobs[j] /\ j \notin gone
  BY <1>1, NewRows
<1>5. AfterHour'
  BY <1>1, <1>4 DEF ReminderInv, AfterHour
<1>6. ASSUME ~group'.late PROVE OfConfirmed' /\ OneReminder'
  <2>1. /\ OfConfirmed /\ OneReminder /\ group.state = "confirmed" /\ group.pid = group.asks[r].pid
        /\ Cancelled(group.pid) \subseteq gone
    BY <1>1, <1>2, <1>6 DEF ReminderInv, CurrentFits, Current, Asked
  <2>2. \A j \in JobIds : jobs'[j].kind = "reminder" => ~Unfinished(j)'
    <3> SUFFICES ASSUME NEW j \in JobIds, jobs'[j].kind = "reminder", Unfinished(j)' PROVE FALSE
      OBVIOUS
    <3>1. jobs[j].kind = "reminder" /\ Unfinished(j) /\ j \notin gone
      BY <1>4 DEF Unfinished
    <3>2. j \in Cancelled(group.pid)
      BY <2>1, <3>1 DEF Cancelled, OfConfirmed
    <3> QED
      BY <2>1, <3>1, <3>2
  <2>3. OfConfirmed'
    BY <2>2 DEF OfConfirmed
  <2>4. \A m, p : /\ \A j \in JobIds : ~WaitingFor(m, p, j)'
                  /\ InMail(m, p)' <=> InMail(m, p)
    BY <1>1, <2>2 DEF WaitingFor, InMail, Unfinished
  <2>5. OneReminder'
    BY <1>1, <2>1, <2>4 DEF OneReminder, Happened
  <2> QED
    BY <2>3, <2>5
<1> QED
  BY <1>2, <1>3, <1>5, <1>6 DEF ReminderInv

\* delete_group leaves the reminders, which then find no group.
LEMMA ReminderDelete ==
    ASSUME Typed, ReminderInv, DeleteGroup
    PROVE  ReminderInv' /\ GroupTyped'
<1>1. /\ UNCHANGED <<jobs, worker, ahead, mails, history>>
      /\ group' = [group EXCEPT !.state = "deleted", !.pid = "none", !.overtaken = InFlight]
  BY DEF DeleteGroup
<1>2. /\ group'.state = "deleted" /\ group'.pid = "none" /\ group'.asks = group.asks
      /\ group'.overtaken = InFlight /\ group'.late = group.late
  BY <1>1 DEF Typed, GroupTyped
<1>3. GroupTyped'
  <2>1. InFlight \subseteq Requests
    BY DEF InFlight
  <2> QED
    BY <1>1, <1>2, <2>1 DEF Typed, GroupTyped, Asked
<1>4. \A q \in Requests : ~Current(q)'
  BY <1>2 DEF Current, InFlight, Asked
<1>5. HeldFits' /\ CurrentFits' /\ PlansFit'
  BY <1>1, <1>2, <1>4 DEF ReminderInv, HeldFits, CurrentFits, PlansFit, Unfinished
<1>6. AfterHour' /\ OfConfirmed' /\ (OneReminder => OneReminder')
  <2>1. AfterHour' /\ OfConfirmed'
    BY <1>1, <1>2 DEF ReminderInv, OfConfirmed, AfterHour
  <2>2. OneReminder => OneReminder'
    BY <1>1 DEF OneReminder, WaitingFor, InMail, Happened
  <2> QED
    BY <2>1, <2>2
<1> QED
  BY <1>2, <1>3, <1>5, <1>6 DEF ReminderInv

\* A request reads, deletes reminders that it alone holds, or is undone: the group is as it
\* was, and so are the rows that others see.
LEMMA ReminderAsked ==
    ASSUME Typed, ReminderInv, NEW r \in Requests,
           \/ \E p \in Proposals, reminders \in BOOLEAN : ReadConfirm(r, p, reminders)
           \/ ReadUnconfirm(r) \/ CancelReminders(r) \/ AbortAsk(r)
    PROVE  ReminderInv' /\ GroupTyped'
<1>1. UNCHANGED <<jobs, due, worker, sources, ahead, mails, history>>
  BY DEF ReadConfirm, ReadUnconfirm, CancelReminders, AbortAsk
<1>2. PICK ask \in Ask :
        /\ group'.asks[r] = ask /\ GroupTyped'
        /\ \A q \in Requests \ {r} : group'.asks[q] = group.asks[q]
        /\ group'.state = group.state /\ group'.pid = group.pid /\ group'.late = group.late
        /\ \A q \in Requests \ {r} : q \in group'.overtaken <=> q \in group.overtaken
        /\ ask # NoAsk => group'.overtaken = group.overtaken
        /\ \/ /\ ask.phase = "confirming" /\ group.state = "open" /\ ask.rows = {}
              /\ ask.plans => ask.pid \in ahead
           \/ /\ ask.phase = "reopening" /\ group.state = "confirmed" /\ ask.rows = {}
              /\ ask.pid = group.pid /\ ~ask.plans
           \/ /\ Asked(r, "reopening") /\ ask.phase = "reopened" /\ ask.rows = Cancelled(ask.pid)
              /\ ask.rows \cap Held = {}
              /\ ask.pid = group.asks[r].pid /\ ask.plans = group.asks[r].plans
           \/ ask = NoAsk
  <2>1. CASE \E p \in Proposals, reminders \in BOOLEAN : ReadConfirm(r, p, reminders)
    <3>1. PICK p \in Proposals, reminders \in BOOLEAN : ReadConfirm(r, p, reminders)
      BY <2>1
    <3> DEFINE ask == [NoAsk EXCEPT !.phase = "confirming", !.pid = p,
                                    !.plans = reminders /\ p \in ahead]
    <3>2. /\ ask \in Ask /\ ask.phase = "confirming" /\ ask.pid = p /\ ask.rows = {}
          /\ ask.plans => p \in ahead
      BY DEF NoAsk, Ask
    <3>3. Asks(r, ask) /\ group.state = "open"
      BY <3>1 DEF ReadConfirm
    <3> HIDE DEF ask
    <3> QED
      BY <3>2, <3>3, AskTyped DEF Typed
  <2>2. CASE ReadUnconfirm(r)
    <3> DEFINE ask == [NoAsk EXCEPT !.phase = "reopening", !.pid = group.pid]
    <3>1. Asks(r, ask) /\ group.state = "confirmed" /\ group.pid \in Proposals
      BY <2>2 DEF ReadUnconfirm, Typed, GroupTyped
    <3>2. /\ ask \in Ask /\ ask.phase = "reopening" /\ ask.pid = group.pid /\ ask.rows = {}
          /\ ~ask.plans
      BY <3>1 DEF NoAsk, Ask
    <3> HIDE DEF ask
    <3> QED
      BY <3>1, <3>2, AskTyped DEF Typed
  <2>3. CASE CancelReminders(r)
    <3> DEFINE ask == [group.asks[r] EXCEPT !.phase = "reopened",
                                            !.rows = Cancelled(group.asks[r].pid)]
    <3>1. /\ Asks(r, ask) /\ Asked(r, "reopening")
          /\ Cancelled(group.asks[r].pid) \cap Held = {}
      BY <2>3 DEF CancelReminders
    <3>2. /\ ask \in Ask /\ ask.phase = "reopened" /\ ask.pid = group.asks[r].pid
          /\ ask.rows = Cancelled(group.asks[r].pid) /\ ask.plans = group.asks[r].plans
          /\ ask.pid \in Proposals
      <4>1. group.asks[r] \in Ask /\ group.asks[r].pid \in Proposals
        BY <3>1, RowsInTable DEF Typed, GroupTyped, Asked
      <4>2. Cancelled(group.asks[r].pid) \subseteq JobIds
        BY DEF Cancelled
      <4> QED
        BY <4>1, <4>2 DEF Ask
    <3> HIDE DEF ask
    <3> QED
      BY <3>1, <3>2, AskTyped DEF Typed
  <2>4. CASE AbortAsk(r)
    <3>1. group' = [group EXCEPT !.asks = [group.asks EXCEPT ![r] = NoAsk],
                                 !.overtaken = group.overtaken \ {r}]
      BY <2>4 DEF AbortAsk, Typed, GroupTyped
    <3>2. [group.asks EXCEPT ![r] = NoAsk] \in [Requests -> Ask]
      BY NoAskTyped DEF Typed, GroupTyped
    <3>3. /\ group'.asks[r] = NoAsk /\ group'.asks \in [Requests -> Ask]
          /\ \A q \in Requests \ {r} : group'.asks[q] = group.asks[q]
          /\ group'.state = group.state /\ group'.pid = group.pid /\ group'.late = group.late
          /\ group'.overtaken = group.overtaken \ {r}
      BY <3>1, <3>2 DEF Typed, GroupTyped
    <3>4. GroupTyped'
      BY <3>1, <3>3, NoAskTyped DEF Typed, GroupTyped, Asked
    <3> QED
      BY <3>3, <3>4, NoAskTyped
  <2> QED
    BY <2>1, <2>2, <2>3, <2>4
<1>3. /\ \A p : Cancelled(p)' = Cancelled(p)
      /\ \A j : Unfinished(j)' <=> Unfinished(j)
      /\ \A q \in Requests \ {r} : Current(q)' <=> Current(q)
  BY <1>1, <1>2 DEF Cancelled, Unfinished, Current, Asked
<1>4. HeldFits'
  <2>1. /\ \A j \in ask.rows : jobs[j].kind = "reminder" /\ Unfinished(j) /\ jobs[j].of[2] = ask.pid
        /\ ask.rows \cap Held = {}
    BY <1>2, NoAskTyped DEF Cancelled
  <2>2. \A q \in Requests : group.asks[q].rows \subseteq Held
    BY DEF Held
  <2>3. \A q \in Requests : \A j \in group'.asks[q].rows :
          jobs'[j].kind = "reminder" /\ Unfinished(j)' /\ jobs'[j].of[2] = group'.asks[q].pid
    BY <1>1, <1>2, <1>3, <2>1 DEF ReminderInv, HeldFits
  <2>4. \A q, u \in Requests : q # u => group'.asks[q].rows \cap group'.asks[u].rows = {}
    BY <1>2, <2>1, <2>2 DEF ReminderInv, HeldFits
  <2> QED
    BY <2>3, <2>4 DEF HeldFits
<1>5. CurrentFits'
  <2>1. ASSUME Current(r)'
        PROVE  /\ ask.phase = "confirming" => group.state = "open"
               /\ ask.phase # "confirming" => group.state = "confirmed" /\ group.pid = ask.pid
               /\ ask.phase = "reopened" => Cancelled(ask.pid) \subseteq ask.rows
    <3>1. ask # NoAsk
      BY <1>2, <2>1, NoAskTyped DEF Current, Asked
    <3>2. CASE ask.phase = "reopened"
      <4>1. Current(r) /\ ~Asked(r, "confirming")
        BY <1>2, <2>1, <3>1, <3>2, NoAskTyped DEF Current, Asked
      <4> QED
        BY <1>2, <3>1, <3>2, <4>1 DEF ReminderInv, CurrentFits
    <3> QED
      BY <1>2, <3>1, <3>2, NoAskTyped
  <2>2. ASSUME NEW q \in Requests \ {r}, Current(q)'
        PROVE  /\ Asked(q, "confirming") => group.state = "open"
               /\ ~Asked(q, "confirming") => group.state = "confirmed" /\ group.pid = group.asks[q].pid
               /\ Asked(q, "reopened") => Cancelled(group.asks[q].pid) \subseteq group.asks[q].rows
    BY <1>3, <2>2 DEF ReminderInv, CurrentFits
  <2> QED
    BY <1>2, <1>3, <2>1, <2>2 DEF CurrentFits, Asked
<1>6. AfterHour' /\ (OneReminder => OneReminder') /\ (OfConfirmed => OfConfirmed')
  BY <1>1, <1>2 DEF ReminderInv, AfterHour, OneReminder, OfConfirmed, WaitingFor, InMail, Happened,
                    Unfinished
<1>7. ASSUME PlansFit, OfConfirmed PROVE PlansFit'
  <2>1. ASSUME Current(r)', ask.plans
        PROVE  /\ \A j \in JobIds : jobs[j].kind = "reminder" => jobs[j].of[2] # ask.pid
               /\ worker.kind = "reminder" => worker.of[2] # ask.pid
               /\ \A m \in Members : ~(mails[<<m, ask.pid>>] > 0)
    <3>1. CASE ask.phase = "confirming" /\ group.state = "open" /\ ask.pid \in ahead
      <4>1. \A j \in JobIds : jobs[j].kind = "reminder" => jobs[j].of[2] # ask.pid
        <5> SUFFICES ASSUME NEW j \in JobIds, jobs[j].kind = "reminder", jobs[j].of[2] = ask.pid
                     PROVE  FALSE
          OBVIOUS
        <5>1. jobs[j].state = "waiting"
          BY <3>1 DEF ReminderInv, AfterHour
        <5>2. group.pid = ask.pid /\ group.pid = "none"
          BY <1>7, <3>1, <5>1 DEF OfConfirmed, Unfinished, Typed, GroupTyped
        <5>3. ask.pid \in Proposals
          BY <3>1 DEF Typed
        <5> QED
          BY <5>2, <5>3, JobAssumption
      <4>2. worker.kind = "reminder" => worker.of[2] # ask.pid
        BY <3>1 DEF ReminderInv, AfterHour
      <4>3. \A m \in Members : ~(mails[<<m, ask.pid>>] > 0)
        BY <3>1 DEF ReminderInv, AfterHour, Typed
      <4> QED
        BY <4>1, <4>2, <4>3
    <3>2. CASE /\ Asked(r, "reopening") /\ ask.phase = "reopened" /\ ask.pid = group.asks[r].pid
               /\ ask.plans = group.asks[r].plans
      <4>1. Current(r)
        <5>1. ask # NoAsk
          BY <3>2, NoAskTyped
        <5> QED
          BY <1>2, <2>1, <3>2, <5>1 DEF Current, Asked
      <4> QED
        BY <1>7, <2>1, <3>2, <4>1 DEF PlansFit
    <3> QED
      BY <1>2, <2>1, <3>1, <3>2, NoAskTyped
  <2> QED
    BY <1>1, <1>2, <1>3, <1>7, <2>1 DEF PlansFit
<1> QED
  BY <1>2, <1>4, <1>5, <1>6, <1>7 DEF ReminderInv

-----------------------------------------------------------------------------
(* The steps of the system.                                                *)

\* The API's tables and the calls stay of their types.
LEMMA TypesTogether ==
    ASSUME JobsTyped', DueTyped', WorkerTyped', sources' \in [Sources -> Source],
           GroupTyped', ahead' \subseteq Proposals, mails' \in [Members \X Proposals -> Nat],
           history' \in Seq(Mishaps), scene' \in Scenes,
           DOMAIN calls' = Kinds, \A k \in Kinds : DOMAIN calls'[k] = CallShape
    PROVE  Typed'
BY DEF Typed

\* The sources that are left are left by what creates none and begins no creation.
LEMMA LeftAlone ==
    ASSUME Typed, SourcesLeft, scene' = scene,
           \A s \in Sources : sources'[s].state = "absent" <=> sources[s].state = "absent",
           \A k \in {"create", "upload"} :
              calls'[k] = calls[k] \/ calls'[k].phase \notin {"sent", "read"}
                \/ calls[k].phase \in {"sent", "read"}
    PROVE  SourcesLeft'
<1>1. scene.sources \subseteq Sources
  BY SceneAssumption DEF Typed
<1>2. Absent' = Absent
  BY <1>1 DEF Absent
<1>3. Creating' \subseteq Creating /\ Creating \subseteq {"create", "upload"}
  BY DEF Creating
<1>4. Creating' = {"create", "upload"} => Creating = {"create", "upload"}
  BY <1>3
<1> QED
  BY <1>2, <1>3, <1>4 DEF SourcesLeft

\* What a step of the worker may not do to what it has nothing to do with.
LEMMA WorkerFrame ==
    ASSUME Typed, WorkerStep \/ Die
    PROVE  /\ UNCHANGED <<group, ahead>>
           /\ EndPoll \/ sources' = sources
           /\ EndReminder \/ mails' = mails
           /\ ClaimJob \/ (\A j : IsDue(j)' <=> IsDue(j))
           /\ history' \in Seq(Mishaps)
           /\ EndReminder \/ (Happened("half sent")' <=> Happened("half sent"))
           /\ GroupTyped'
<1>1. /\ UNCHANGED <<group, ahead>>
      /\ EndPoll \/ sources' = sources
      /\ EndReminder \/ mails' = mails
      /\ ClaimJob \/ due' = due
      /\ EndReminder \/ history' = history \/ history' = Append(history, "died")
  BY DEF WorkerStep, ClaimJob, StartPoll, EndPoll, StartReminder, EndReminder, CompleteJob, RetryJob,
         Restart, Die
<1>2. history \in Seq(Mishaps) /\ "died" \in Mishaps /\ GroupTyped'
  BY <1>1 DEF Typed, Mishaps, GroupTyped, Asked
<1>3. CASE EndReminder
  BY <1>1, <1>2, <1>3, TypedEndReminder DEF IsDue
<1>4. CASE history' = history
  BY <1>1, <1>2, <1>4 DEF IsDue, Happened
<1>5. CASE history' = Append(history, "died")
  <2>1. /\ history' \in Seq(Mishaps)
        /\ \A other : Happened(other)' <=> Happened(other) \/ other = "died"
    BY <1>2, <1>5, HistoryGrows
  <2>2. Happened("half sent")' <=> Happened("half sent")
    BY <2>1
  <2> QED
    BY <1>1, <1>2, <2>1, <2>2 DEF IsDue
<1> QED
  BY <1>1, <1>3, <1>4, <1>5

\* What the worker does with a job leaves the jobs of the other kind alone.
LEMMA WorkerKeeps ==
    ASSUME QueueInv, WorkerStep \/ Die, UNCHANGED <<scene, calls>>
    PROVE  QueueInv'
<1>1. Typed /\ SourcesLeft /\ PollInv /\ ReminderInv
  BY DEF QueueInv
<1>2. /\ UNCHANGED <<group, ahead>>
      /\ EndPoll \/ sources' = sources
      /\ EndReminder \/ mails' = mails
      /\ ClaimJob \/ (\A j : IsDue(j)' <=> IsDue(j))
      /\ history' \in Seq(Mishaps)
      /\ EndReminder \/ (Happened("half sent")' <=> Happened("half sent"))
      /\ GroupTyped'
  BY <1>1, WorkerFrame
<1>3. ClaimJob \/ StartPoll \/ EndPoll \/ StartReminder \/ EndReminder \/ CompleteJob \/ RetryJob
        \/ Restart \/ Die
  BY DEF WorkerStep
<1>4. worker.kind \in {"none", "poll", "reminder"} /\ (Busy => worker.kind # "none")
  BY <1>1 DEF Typed, WorkerTyped
<1>5. JobsTyped' /\ DueTyped' /\ WorkerTyped'
  BY <1>1, <1>3, TypedClaim, TypedRelease, TypedDown, TypedStart, TypedEndPoll, TypedEndReminder
<1>6. /\ sources' \in [Sources -> Source] /\ mails' \in [Members \X Proposals -> Nat]
      /\ \A s \in Sources : sources'[s].state = "absent" <=> sources[s].state = "absent"
  <2>1. CASE EndPoll
    <3>1. mails' = mails
      BY <2>1 DEF EndPoll
    <3> QED
      BY <1>1, <2>1, <3>1, TypedEndPoll DEF Typed, Live
  <2>2. CASE EndReminder
    <3>1. sources' = sources
      BY <2>2 DEF EndReminder
    <3> QED
      BY <1>1, <2>2, <3>1, TypedEndReminder DEF Typed
  <2> QED
    BY <1>1, <1>2, <2>1, <2>2 DEF Typed
<1>7. Typed'
  BY <1>1, <1>2, <1>5, <1>6, TypesTogether DEF Typed, GroupTyped, Asked
<1>8. SourcesLeft'
  BY <1>1, <1>6, LeftAlone
<1>9. CASE ClaimJob
  <2>1. PICK j0 \in JobIds :
          /\ jobs'[j0].kind = jobs[j0].kind /\ \A i \in JobIds \ {j0} : jobs'[i] = jobs[i]
          /\ worker'.kind = jobs[j0].kind /\ (\A i \in JobIds : IsDue(i)' => IsDue(i))
          /\ ~Busy /\ jobs[j0].state = "waiting"
    BY <1>1, <1>9, TypedClaim
  <2>2. worker.kind = "none" /\ UNCHANGED <<sources, mails, history>>
    BY <1>1, <1>9, <2>1 DEF Typed, WorkerTyped, ClaimJob
  <2>3. worker'.kind \in {"poll", "reminder"}
    BY <1>1, <2>1 DEF Typed, JobsTyped, Job, RowFits
  <2>4. CASE worker'.kind = "poll"
    <3>1. PollInv'
      BY <1>1, <1>9, <2>2, <2>4, PollClaim
    <3>2. ReminderInv'
      BY <1>1, <1>2, <2>1, <2>2, <2>4, RemindersAlone DEF Happened
    <3> QED
      BY <1>7, <1>8, <3>1, <3>2 DEF QueueInv
  <2>5. CASE worker'.kind = "reminder"
    <3>1. PollInv'
      BY <1>1, <1>5, <2>1, <2>2, <2>5, PollsAlone
    <3>2. ReminderInv'
      BY <1>1, <1>9, <2>5, ReminderClaim
    <3> QED
      BY <1>7, <1>8, <3>1, <3>2 DEF QueueInv
  <2> QED
    BY <2>3, <2>4, <2>5
<1>10. CASE StartPoll
  <2>1. PollInv'
    BY <1>1, <1>10, PollStart
  <2>2. jobs' = jobs /\ worker.kind = "poll" /\ worker'.kind = "poll" /\ UNCHANGED <<mails, history>>
    BY <1>1, <1>10, TypedStart DEF StartPoll
  <2>3. ReminderInv'
    BY <1>1, <1>2, <2>2, RemindersAlone DEF Happened
  <2> QED
    BY <1>7, <1>8, <2>1, <2>3 DEF QueueInv
<1>11. CASE EndPoll
  <2>1. /\ worker.kind = "poll" /\ worker'.kind \in {"none", "poll"} /\ UNCHANGED <<mails, history>>
        /\ worker'.phase = "down" => sources' = sources
        /\ \A j \in JobIds : \/ jobs'[j] = jobs[j]
                             \/ jobs[j].state = "free" /\ jobs'[j].kind = "poll"
    BY <1>1, <1>11, TypedEndPoll
  <2>2. PollInv'
    BY <1>1, <1>5, <1>11, <2>1, PollLeft, PollEnds
  <2>3. \A j \in JobIds : jobs[j].state = "free" => jobs[j].kind = "none"
    BY <1>1 DEF Typed, JobsTyped, RowFits
  <2>4. ReminderInv'
    BY <1>1, <1>2, <2>1, <2>3, RemindersAlone DEF Happened
  <2> QED
    BY <1>7, <1>8, <2>2, <2>4 DEF QueueInv
<1>12. CASE StartReminder \/ EndReminder
  <2>1. /\ UNCHANGED <<jobs, due, sources>> /\ worker.kind = "reminder"
        /\ worker'.kind = "reminder"
    BY <1>1, <1>12, TypedStart, TypedEndReminder DEF StartReminder
  <2>2. PollInv'
    BY <1>1, <1>5, <2>1, PollsAlone DEF IsDue
  <2>3. ReminderInv'
    BY <1>1, <1>12, ReminderHandled
  <2> QED
    BY <1>7, <1>8, <2>2, <2>3 DEF QueueInv
<1>13. CASE CompleteJob \/ RetryJob \/ Die
  <2>1. /\ worker'.kind = "none" /\ UNCHANGED <<sources, mails, due>>
        /\ Busy /\ ~EndReminder
    <3>1. UNCHANGED <<sources, mails, due>> /\ Busy
      BY <1>13 DEF CompleteJob, RetryJob, Die, At, Busy
    <3>2. worker'.kind = "none"
      BY <1>1, <1>13, TypedRelease, TypedDown
    <3>3. ~EndReminder
      BY <1>1, <3>2, TypedEndReminder
    <3> QED
      BY <3>1, <3>2, <3>3
  <2>2. \A j \in JobIds : jobs'[j] = jobs[j]
          \/ (jobs[j].kind = worker.kind /\ jobs'[j].kind \in {"none", worker.kind})
    BY <1>1, <1>13, TypedRelease, TypedDown, NewRows
  <2>3. CASE worker.kind = "poll"
    <3>1. PollInv'
      BY <1>1, <1>13, <2>1, <2>3, PollLeft
    <3>2. ReminderInv'
      BY <1>1, <1>2, <2>1, <2>2, <2>3, RemindersAlone
    <3> QED
      BY <1>7, <1>8, <3>1, <3>2 DEF QueueInv
  <2>4. CASE worker.kind = "reminder"
    <3>1. PollInv'
      BY <1>1, <1>5, <2>1, <2>2, <2>4, PollsAlone DEF IsDue
    <3>2. ReminderInv'
      BY <1>1, <1>2, <1>13, <2>1, <2>4, ReminderLeft
    <3> QED
      BY <1>7, <1>8, <3>1, <3>2 DEF QueueInv
  <2> QED
    BY <1>4, <2>1, <2>3, <2>4
<1>14. CASE Restart
  <2>1. /\ UNCHANGED <<jobs, due, sources, mails, history>> /\ worker.kind = "none"
        /\ worker'.kind = "none"
    BY <1>1, <1>14, TypedDown DEF Restart, At, Typed, WorkerTyped, Busy
  <2>2. PollInv'
    BY <1>1, <1>5, <2>1, PollsAlone DEF IsDue
  <2>3. ReminderInv'
    BY <1>1, <1>2, <2>1, RemindersAlone DEF Happened
  <2> QED
    BY <1>7, <1>8, <2>2, <2>3 DEF QueueInv
<1> QED
  BY <1>3, <1>9, <1>10, <1>11, <1>12, <1>13, <1>14

\* Time passes for the jobs, the sources and the reminders.
LEMMA TimeKeeps ==
    ASSUME QueueInv, UNCHANGED <<scene, calls>>,
           \/ \E j \in JobIds : HourComes(j)
           \/ \E s \in Sources : CooldownOver(s)
           \/ \E p \in Proposals : ReminderHour(p)
    PROVE  QueueInv'
<1>1. Typed /\ SourcesLeft /\ PollInv /\ ReminderInv
  BY DEF QueueInv
<1>2. \/ \E j \in JobIds : BecomesDue(j)
      \/ \E s \in Sources : CooldownEnds(s)
      \/ \E p \in Proposals : ReminderHour(p)
  BY DEF HourComes, CooldownOver
<1>3. /\ JobsTyped' /\ DueTyped' /\ WorkerTyped' /\ sources' \in [Sources -> Source]
      /\ UNCHANGED <<jobs, worker, group, mails, history>> /\ ahead' \subseteq ahead
  BY <1>1, <1>2, TypedTime
<1>4. Typed'
  BY <1>1, <1>3, TypesTogether DEF Typed, GroupTyped, Asked
<1>5. ReminderInv'
  BY <1>1, <1>3, RemindersAlone DEF Happened
<1>6. \A s \in Sources : sources'[s].state = "absent" <=> sources[s].state = "absent"
  <2>1. CASE \E t \in Sources : CooldownEnds(t)
    <3>1. PICK t \in Sources : sources' = [sources EXCEPT ![t].cooling = FALSE]
      BY <2>1 DEF CooldownEnds
    <3>2. \A s \in Sources : sources[s] \in Source
      BY <1>1 DEF Typed
    <3> QED
      BY <1>1, <3>1, <3>2 DEF Typed, Source
  <2> QED
    BY <1>2, <2>1 DEF BecomesDue, ReminderHour
<1>7. SourcesLeft'
  BY <1>1, <1>6, LeftAlone
<1>8. PollInv'
  <2>1. CASE \E p \in Proposals : ReminderHour(p)
    <3>1. UNCHANGED <<sources, due>>
      BY <2>1 DEF ReminderHour
    <3> QED
      BY <1>1, <1>3, <3>1, PollsAlone DEF IsDue
  <2>2. CASE (\E j \in JobIds : HourComes(j)) \/ (\E s \in Sources : CooldownOver(s))
    <3>1. ~Moment
      BY <2>2 DEF HourComes, CooldownOver
    <3>2. \/ sources' = sources
          \/ \E s \in Sources : sources' = [sources EXCEPT ![s].cooling = FALSE]
      BY <2>2 DEF HourComes, CooldownOver, BecomesDue, CooldownEnds
    <3> QED
      BY <1>1, <1>3, <3>1, <3>2, PollMoment
  <2> QED
    BY <2>1, <2>2
<1> QED
  BY <1>4, <1>5, <1>7, <1>8 DEF QueueInv

\* A request about the confirmation reads, deletes, commits or is undone, or the group is
\* deleted: polls and sources are not concerned.
LEMMA GroupKeeps ==
    ASSUME QueueInv, UNCHANGED <<scene, calls>>,
           (\E r \in Requests : GroupStep(r)) \/ DeleteGroup
    PROVE  QueueInv'
<1>1. Typed /\ SourcesLeft /\ PollInv /\ ReminderInv
  BY DEF QueueInv
<1>2. /\ JobsTyped' /\ DueTyped' /\ WorkerTyped' /\ GroupTyped' /\ ReminderInv'
      /\ UNCHANGED <<worker, sources, ahead, mails, history>>
      /\ \A j \in JobIds : IsDue(j)' => IsDue(j)
      /\ \A j \in JobIds : jobs'[j] = jobs[j] \/ (jobs[j].kind # "poll" /\ jobs'[j].kind # "poll")
  <2>1. CASE \E r \in Requests : ConfirmGroup(r)
    <3>1. PICK r \in Requests : ConfirmGroup(r)
      BY <2>1
    <3> DEFINE p == group.asks[r].pid
    <3>2. /\ JobsTyped' /\ DueTyped' /\ WorkerTyped' /\ p \in Proposals
          /\ UNCHANGED <<due, worker, sources, ahead, mails, history>>
          /\ \A j \in JobIds : \/ jobs'[j] = jobs[j]
                               \/ /\ jobs[j].state = "free"
                                  /\ \E m \in Members : jobs'[j] = ReminderOf(m, p)
      BY <1>1, <3>1, TypedConfirm
    <3> HIDE DEF p
    <3>3. \A m \in Members : ReminderOf(m, p).kind = "reminder"
      BY <3>2, NewRows
    <3>4. \A j \in JobIds : jobs[j].state = "free" => jobs[j].kind = "none"
      BY <1>1 DEF Typed, JobsTyped, RowFits
    <3>5. ReminderInv' /\ GroupTyped'
      BY <1>1, <3>1, <3>2, ReminderConfirm
    <3> QED
      BY <3>2, <3>3, <3>4, <3>5 DEF IsDue
  <2>2. CASE \E r \in Requests : UnconfirmGroup(r)
    <3>1. PICK r \in Requests : UnconfirmGroup(r)
      BY <2>2
    <3>2. ReminderInv' /\ GroupTyped'
      BY <1>1, <3>1, ReminderUnconfirm
    <3>3. /\ JobsTyped' /\ DueTyped' /\ WorkerTyped'
          /\ UNCHANGED <<worker, sources, ahead, mails, history>>
          /\ \A j \in JobIds : IF j \in group.asks[r].rows THEN jobs'[j] = NoJob
                                                        ELSE jobs'[j] = jobs[j]
          /\ \A j \in JobIds : IsDue(j)' => IsDue(j)
      BY <1>1, <3>1, TypedUnconfirm DEF ReminderInv
    <3>4. \A j \in group.asks[r].rows : jobs[j].kind = "reminder"
      BY <1>1 DEF ReminderInv, HeldFits
    <3> QED
      BY <3>2, <3>3, <3>4, NewRows
  <2>3. CASE DeleteGroup
    <3>1. UNCHANGED <<jobs, due, worker, sources, ahead, mails, history>>
      BY <2>3 DEF DeleteGroup
    <3>2. JobsTyped' /\ DueTyped' /\ WorkerTyped'
      BY <1>1, <3>1 DEF Typed, JobsTyped, DueTyped, WorkerTyped, Busy, IsDue, FirstRun
    <3>3. ReminderInv' /\ GroupTyped'
      BY <1>1, <2>3, ReminderDelete
    <3> QED
      BY <3>1, <3>2, <3>3 DEF IsDue
  <2>4. CASE \E r \in Requests :
               \/ \E p \in Proposals, reminders \in BOOLEAN : ReadConfirm(r, p, reminders)
               \/ ReadUnconfirm(r) \/ CancelReminders(r) \/ AbortAsk(r)
    <3>1. UNCHANGED <<jobs, due, worker, sources, ahead, mails, history>>
      BY <2>4 DEF ReadConfirm, ReadUnconfirm, CancelReminders, AbortAsk
    <3>2. JobsTyped' /\ DueTyped' /\ WorkerTyped'
      BY <1>1, <3>1 DEF Typed, JobsTyped, DueTyped, WorkerTyped, Busy, IsDue, FirstRun
    <3>3. ReminderInv' /\ GroupTyped'
      BY <1>1, <2>4, ReminderAsked
    <3> QED
      BY <3>1, <3>2, <3>3 DEF IsDue
  <2> QED
    BY <2>1, <2>2, <2>3, <2>4 DEF GroupStep
<1>3. Typed'
  BY <1>1, <1>2, TypesTogether DEF Typed
<1>4. SourcesLeft'
  BY <1>1, <1>2, LeftAlone
<1>5. PollInv'
  BY <1>1, <1>2, PollsAlone
<1> QED
  BY <1>2, <1>3, <1>4, <1>5 DEF QueueInv

\* Requests, answers and reads leave the tables of the API alone.
LEMMA QuietKeeps ==
    ASSUME QueueInv, SourcesLeft', UNCHANGED <<queueVars, scene>>,
           DOMAIN calls' = Kinds, \A k \in Kinds : DOMAIN calls'[k] = CallShape
    PROVE  /\ Typed' /\ ReminderInv'
           /\ (calls'["refresh"] = calls["refresh"] \/ calls'["refresh"].phase # "read") => QueueInv'
           /\ PollInv' => QueueInv'
<1>1. Typed /\ SourcesLeft /\ PollInv /\ ReminderInv
  BY DEF QueueInv
<1>2. UNCHANGED <<jobs, due, worker, sources, group, ahead, mails, history>>
  BY DEF queueVars
<1>3. Typed'
  BY <1>1, <1>2 DEF Typed, JobsTyped, DueTyped, WorkerTyped, Busy, IsDue, FirstRun, GroupTyped, Asked
<1>4. ReminderInv'
  BY <1>1, <1>2, RemindersAlone DEF Happened
<1>5. calls'["refresh"] = calls["refresh"] \/ calls'["refresh"].phase # "read" => PollInv'
  BY <1>1, <1>2, <1>3, PollsAlone DEF Typed, IsDue
<1> QED
  BY <1>3, <1>4, <1>5 DEF QueueInv

\* What the page asks of the API and what the API does for it.
LEMMA PageKeeps ==
    ASSUME QueueInv,
           \/ PageStep
           \/ \E kind \in Kinds, s \in Sources \cup {"none"} : Press(kind, s)
           \/ \E kind \in Kinds : LoseCall(kind)
           \/ Refetch \/ FailList
    PROVE  QueueInv'
<1>1. Typed /\ SourcesLeft /\ PollInv /\ ReminderInv
  BY DEF QueueInv
<1>2. CASE \/ \E kind \in Kinds : Receive(kind) \/ LoseCall(kind)
           \/ Refetch \/ ServeList \/ ShowList \/ FailList
  <2>1. /\ UNCHANGED <<queueVars, scene>>
        /\ DOMAIN calls' = Kinds /\ \A k \in Kinds : DOMAIN calls'[k] = CallShape
        /\ \A k \in Kinds : calls'[k] = calls[k] \/ calls'[k].phase \notin {"sent", "read"}
    BY <1>1, <1>2, PageAlone
  <2>2. SourcesLeft'
    BY <1>1, <2>1, LeftAlone DEF queueVars, Kinds
  <2>3. calls'["refresh"] = calls["refresh"] \/ calls'["refresh"].phase # "read"
    BY <2>1 DEF Kinds
  <2> QED
    BY <2>1, <2>2, <2>3, QuietKeeps
<1>3. CASE \E kind \in Kinds, s \in Sources \cup {"none"} : Press(kind, s)
  <2>1. PICK kind \in Kinds, s \in Sources \cup {"none"} : Press(kind, s)
    BY <1>3
  <2>2. /\ UNCHANGED <<queueVars, scene>>
        /\ DOMAIN calls' = Kinds /\ \A k \in Kinds : DOMAIN calls'[k] = CallShape
        /\ calls'[kind].phase = "sent" /\ \A k \in Kinds \ {kind} : calls'[k] = calls[k]
        /\ SourcesLeft'
    BY <1>1, <2>1, Presses
  <2>3. calls'["refresh"] = calls["refresh"] \/ calls'["refresh"].phase # "read"
    BY <2>2 DEF Kinds
  <2> QED
    BY <2>2, <2>3, QuietKeeps
<1>4. CASE \E kind \in Kinds : ServeNewSource(kind)
  <2>1. PICK kind \in Kinds : ServeNewSource(kind)
    BY <1>4
  <2>2. /\ UNCHANGED <<queueVars, scene>>
        /\ DOMAIN calls' = Kinds /\ \A k \in Kinds : DOMAIN calls'[k] = CallShape
        /\ kind \in {"create", "upload"} /\ calls[kind].phase = "sent"
        /\ \A k \in Kinds \ {kind} : calls'[k] = calls[k]
    BY <1>1, <2>1, ServesNewSource
  <2>3. SourcesLeft'
    BY <1>1, <2>2, LeftAlone DEF queueVars, Kinds
  <2>4. calls'["refresh"] = calls["refresh"]
    BY <2>2 DEF Kinds
  <2> QED
    BY <2>2, <2>3, <2>4, QuietKeeps
<1>5. CASE \E kind \in Kinds : CommitNewSource(kind)
  <2>1. PICK kind \in Kinds : CommitNewSource(kind)
    BY <1>5
  <2>2. /\ JobsTyped' /\ DueTyped' /\ WorkerTyped' /\ sources' \in [Sources -> Source]
        /\ UNCHANGED <<worker, group, ahead, mails, history, scene>>
        /\ DOMAIN calls' = Kinds /\ \A k \in Kinds : DOMAIN calls'[k] = CallShape
        /\ SourcesLeft'
        /\ \A j \in JobIds : jobs'[j] = jobs[j] \/ (jobs[j].state = "free" /\ jobs'[j].kind = "poll")
    BY <1>1, <2>1, TypedNewSource
  <2>3. Typed'
    BY <1>1, <2>2, TypesTogether DEF Typed, GroupTyped, Asked
  <2>4. \A j \in JobIds : jobs[j].state = "free" => jobs[j].kind = "none"
    BY <1>1 DEF Typed, JobsTyped, RowFits
  <2>5. ReminderInv'
    BY <1>1, <2>2, <2>4, RemindersAlone DEF Happened
  <2>6. PollInv'
    BY <1>1, <2>1, PollNewSource
  <2> QED
    BY <2>2, <2>3, <2>5, <2>6 DEF QueueInv
<1>6. CASE ServeRemove
  <2>1. /\ sources' \in [Sources -> Source]
        /\ UNCHANGED <<jobs, due, worker, group, ahead, mails, history, scene>>
        /\ DOMAIN calls' = Kinds /\ \A k \in Kinds : DOMAIN calls'[k] = CallShape
        /\ \A k \in Kinds \ {"remove"} : calls'[k] = calls[k]
        /\ \A s \in Sources : sources'[s].state = "absent" <=> sources[s].state = "absent"
    BY <1>1, <1>6, TypedRemove
  <2>2. JobsTyped' /\ DueTyped' /\ WorkerTyped'
    BY <1>1, <2>1 DEF Typed, JobsTyped, DueTyped, WorkerTyped, Busy, IsDue, FirstRun
  <2>3. Typed'
    BY <1>1, <2>1, <2>2, TypesTogether DEF Typed, GroupTyped, Asked
  <2>4. SourcesLeft'
    BY <1>1, <2>1, LeftAlone DEF Kinds
  <2>5. ReminderInv'
    BY <1>1, <2>1, RemindersAlone DEF Happened
  <2>6. PollInv'
    BY <1>1, <1>6, PollRemoved
  <2> QED
    BY <2>3, <2>4, <2>5, <2>6 DEF QueueInv
<1>7. CASE ServeRefresh
  <2>1. /\ UNCHANGED <<queueVars, scene>>
        /\ DOMAIN calls' = Kinds /\ \A k \in Kinds : DOMAIN calls'[k] = CallShape
        /\ \A k \in Kinds \ {"refresh"} : calls'[k] = calls[k]
    BY <1>1, <1>7, ServesRefresh
  <2>2. SourcesLeft'
    BY <1>1, <2>1, LeftAlone DEF queueVars, Kinds
  <2>3. PollInv'
    BY <1>1, <1>7, PollFound
  <2> QED
    BY <2>1, <2>2, <2>3, QuietKeeps
<1>8. CASE CommitRefresh
  <2>1. /\ sources' \in [Sources -> Source]
        /\ UNCHANGED <<jobs, due, worker, group, ahead, mails, history, scene>>
        /\ DOMAIN calls' = Kinds /\ \A k \in Kinds : DOMAIN calls'[k] = CallShape
        /\ \A k \in Kinds \ {"refresh"} : calls'[k] = calls[k]
        /\ \A s \in Sources : sources'[s].state = "absent" <=> sources[s].state = "absent"
    BY <1>1, <1>8, TypedRefresh DEF PollInv, Live
  <2>2. JobsTyped' /\ DueTyped' /\ WorkerTyped'
    BY <1>1, <2>1 DEF Typed, JobsTyped, DueTyped, WorkerTyped, Busy, IsDue, FirstRun
  <2>3. Typed'
    BY <1>1, <2>1, <2>2, TypesTogether DEF Typed, GroupTyped, Asked
  <2>4. SourcesLeft'
    BY <1>1, <2>1, LeftAlone DEF Kinds
  <2>5. ReminderInv'
    BY <1>1, <2>1, RemindersAlone DEF Happened
  <2>6. PollInv'
    BY <1>1, <1>8, PollRefreshed
  <2> QED
    BY <2>3, <2>4, <2>5, <2>6 DEF QueueInv
<1> QED
  BY <1>2, <1>3, <1>4, <1>5, <1>6, <1>7, <1>8 DEF PageStep

\* A step that changes nothing keeps everything.
LEMMA StutterKeeps == QueueInv /\ UNCHANGED vars => QueueInv'
<1> SUFFICES ASSUME QueueInv, UNCHANGED vars PROVE QueueInv'
  OBVIOUS
<1>1. UNCHANGED <<queueVars, scene, calls>>
  BY DEF vars
<1>2. SourcesLeft'
  BY <1>1 DEF QueueInv, SourcesLeft, Creating, Absent, queueVars
<1>3. DOMAIN calls' = Kinds /\ \A k \in Kinds : DOMAIN calls'[k] = CallShape
  BY <1>1 DEF QueueInv, Typed
<1> QED
  BY <1>1, <1>2, <1>3, QuietKeeps

-----------------------------------------------------------------------------
(* The list.                                                               *)

Listed == Kinds \ {"refresh"}
PageShape == {"shown", "error", "read", "answer"}

\* What a mutation has done to its source.  No step takes it back.
Done(kind, s) ==
    /\ s \in Sources
    /\ IF kind = "remove" THEN sources[s].state = "deleted" ELSE sources[s].state # "absent"

\* A list shows it, or what was created has been removed since.
Shows(kind, s, list) ==
    IF kind = "remove" THEN list[s] = "absent" ELSE list[s] # "absent" \/ sources[s].state = "deleted"

Succeeded(kind) == calls[kind].phase = "answered" /\ calls[kind].answer = "ok"

\* A mutation that waits for the list was carried out before the list was asked for: an
\* older read was given up.
ListInv ==
    /\ DOMAIN page = PageShape
    /\ \A kind \in Listed :
         /\ Succeeded(kind) \/ calls[kind].phase = "reading" => Done(kind, calls[kind].source)
         /\ calls[kind].phase = "reading" /\ page.read = "answered" =>
               Shows(kind, calls[kind].source, page.answer)

\* A source that was created is not absent again, and one that was removed stays so.
SourcesStay ==
    \A s \in Sources : /\ sources[s].state # "absent" => sources'[s].state # "absent"
                       /\ sources[s].state = "deleted" => sources'[s].state = "deleted"

\* The worker and time change what a source says of itself.
LEMMA QueueLeavesSources == QueueInv /\ QueueStep => SourcesStay
<1> SUFFICES ASSUME QueueInv, QueueStep PROVE SourcesStay
  OBVIOUS
<1>1. Typed /\ \A s \in Sources : sources[s] \in Source
  BY DEF QueueInv, Typed
<1>2. CASE EndPoll
  <2>1. \/ sources' = sources
        \/ \E s \in Live : /\ \A t \in Sources \ {s} : sources'[t] = sources[t]
                           /\ sources'[s].state = "live"
    BY <1>1, <1>2, TypedEndPoll
  <2> QED
    BY <2>1 DEF SourcesStay, Live
<1>3. CASE \E s \in Sources : CooldownEnds(s)
  <2>1. PICK s \in Sources : sources' = [sources EXCEPT ![s].cooling = FALSE]
    BY <1>3 DEF CooldownEnds
  <2>2. \A t \in Sources : sources'[t].state = sources[t].state
    BY <1>1, <2>1 DEF Typed, Source
  <2> QED
    BY <2>2 DEF SourcesStay
<1>4. CASE UNCHANGED sources
  BY <1>4 DEF SourcesStay
<1>5. WorkerStep \/ Die => EndPoll \/ sources' = sources
  BY <1>1, WorkerFrame
<1> QED
  BY <1>2, <1>3, <1>4, <1>5 DEF QueueStep, HourComes, CooldownOver, BecomesDue, ReminderHour,
     GroupStep, ReadConfirm, ReadUnconfirm, CancelReminders, ConfirmGroup, UnconfirmGroup, AbortAsk,
     DeleteGroup

\* The invariant needs of a step that sources stay, that what succeeds is done, and that a
\* mutation begins to wait for a list that is still to be asked for.
LEMMA ListFrame ==
    ASSUME ListInv, SourcesStay, DOMAIN page' = PageShape,
           page'.read # "answered" \/ (page'.read = page.read /\ page'.answer = page.answer),
           \A kind \in Listed :
              \/ calls'[kind] = calls[kind]
              \/ calls'[kind].phase \notin {"answered", "reading"}
              \/ /\ calls'[kind].phase = "answered"
                 /\ calls'[kind].answer = "ok" => Done(kind, calls[kind].source)'
              \/ /\ calls'[kind].phase = "reading" /\ calls'[kind].source = calls[kind].source
                 /\ Succeeded(kind) /\ page'.read # "answered"
    PROVE  ListInv'
<1>1. \A kind, s : Done(kind, s) => Done(kind, s)'
  BY DEF Done, SourcesStay
<1>2. \A kind, s, list : s \in Sources /\ Shows(kind, s, list) => Shows(kind, s, list)'
  BY DEF Shows, SourcesStay
<1> SUFFICES ASSUME NEW kind \in Listed
             PROVE  /\ Succeeded(kind)' \/ calls'[kind].phase = "reading" => Done(kind, calls[kind].source)'
                    /\ calls'[kind].phase = "reading" /\ page'.read = "answered" =>
                          Shows(kind, calls[kind].source, page.answer)'
  BY DEF ListInv
<1>3. /\ Succeeded(kind) \/ calls[kind].phase = "reading" => Done(kind, calls[kind].source)
      /\ calls[kind].phase = "reading" /\ page.read = "answered" =>
            Shows(kind, calls[kind].source, page.answer)
  BY DEF ListInv
<1>4. CASE calls'[kind] = calls[kind]
  <2>1. Succeeded(kind)' <=> Succeeded(kind)
    BY <1>4 DEF Succeeded
  <2>2. Done(kind, calls[kind].source) => calls[kind].source \in Sources
    BY DEF Done
  <2> QED
    BY <1>1, <1>2, <1>3, <1>4, <2>1, <2>2
<1>5. CASE calls'[kind].phase \notin {"answered", "reading"}
  BY <1>5 DEF Succeeded
<1>6. CASE /\ calls'[kind].phase = "answered"
           /\ calls'[kind].answer = "ok" => Done(kind, calls[kind].source)'
  BY <1>6 DEF Succeeded
<1>7. CASE /\ calls'[kind].phase = "reading" /\ calls'[kind].source = calls[kind].source
           /\ Succeeded(kind) /\ page'.read # "answered"
  BY <1>1, <1>3, <1>7 DEF Succeeded
<1> QED
  BY <1>4, <1>5, <1>6, <1>7

\* The API answers "ok" for what it has done.
LEMMA ListServed ==
    ASSUME QueueInv, ListInv,
           \/ \E kind \in Kinds : ServeNewSource(kind) \/ CommitNewSource(kind)
           \/ ServeRemove \/ ServeRefresh \/ CommitRefresh
    PROVE  ListInv'
<1>1. Typed /\ SourcesLeft /\ PollInv /\ ListInv
  BY DEF QueueInv
<1>2. UNCHANGED page
  BY DEF ServeNewSource, CommitNewSource, ServeRemove, ServeRefresh, CommitRefresh
<1>3. CASE \E kind \in Kinds : ServeNewSource(kind)
  <2>1. PICK kind \in Kinds : ServeNewSource(kind)
    BY <1>3
  <2>2. UNCHANGED sources /\ \A k \in Kinds \ {kind} : calls'[k] = calls[k]
    BY <1>1, <2>1, ServesNewSource DEF queueVars
  <2>3. kind \in DOMAIN calls /\ DOMAIN calls[kind] = CallShape
    BY <1>1 DEF Typed
  <2>4. \/ calls'[kind].phase = "read"
        \/ calls'[kind].phase = "answered" /\ calls'[kind].answer # "ok"
    <3>1. \/ Read(kind, "none") \/ Refused(kind, "calendar_source_limit_reached")
          \/ Refused(kind, "ics_parse_failed")
      BY <2>1 DEF ServeNewSource
    <3>2. CASE Read(kind, "none")
      BY <2>3, <3>2 DEF Read, CallShape
    <3>3. ASSUME NEW answer, answer # "ok", Refused(kind, answer)
          PROVE  calls'[kind].phase = "answered" /\ calls'[kind].answer # "ok"
      BY <2>3, <3>3 DEF Refused, Answered
    <3> QED
      BY <3>1, <3>2, <3>3
  <2>5. SourcesStay
    BY <2>2 DEF SourcesStay
  <2> QED
    BY <1>1, <1>2, <2>2, <2>4, <2>5, ListFrame DEF ListInv, Listed
<1>4. CASE \E kind \in Kinds : CommitNewSource(kind)
  <2>1. PICK kind \in Kinds : CommitNewSource(kind)
    BY <1>4
  <2> DEFINE s == CHOOSE x \in scene.sources : sources[x].state = "absent"
  <2>2. /\ kind \in {"create", "upload"} /\ calls[kind].phase = "read" /\ Answered(kind, s, "ok")
        /\ CreateSource(s) \/ UploadSource(s)
    BY <2>1 DEF CommitNewSource
  <2>3. s \in Sources /\ sources[s].state = "absent"
    <3>1. kind \in Creating /\ scene.sources \subseteq Sources
      BY <1>1, <2>2, SceneAssumption DEF Creating, Typed
    <3>2. \E x \in scene.sources : sources[x].state = "absent"
      BY <1>1, <3>1 DEF SourcesLeft, Absent
    <3> QED
      BY <3>1, <3>2
  <2> HIDE DEF s
  <2>4. \A k, status : NewSource(k, status).state = "live"
    BY DEF NewSource, NoSource
  <2>5. sources'[s].state = "live" /\ \A t \in Sources \ {s} : sources'[t] = sources[t]
    BY <1>1, <2>2, <2>3, <2>4 DEF CreateSource, UploadSource, Typed
  <2>6. SourcesStay
    BY <2>3, <2>5 DEF SourcesStay
  <2>7. /\ \A k \in Kinds \ {kind} : calls'[k] = calls[k]
        /\ calls'[kind].phase = "answered" /\ calls'[kind].source = s
    BY <1>1, <2>2 DEF Answered, Typed
  <2>8. Done(kind, calls[kind].source)'
    BY <2>2, <2>3, <2>5, <2>7 DEF Done
  <2> QED
    BY <1>1, <1>2, <2>6, <2>7, <2>8, ListFrame DEF ListInv, Listed
<1>5. CASE ServeRemove
  <2> DEFINE s == calls["remove"].source
  <2>1. \/ s \in Live /\ DeleteSource(s) /\ Answered("remove", s, "ok")
        \/ Refused("remove", "not_found")
    BY <1>5 DEF ServeRemove
  <2>2. SourcesStay
    BY <1>1, <1>5, TypedRemove DEF SourcesStay
  <2>3. /\ \A k \in Kinds \ {"remove"} : calls'[k] = calls[k]
        /\ calls'["remove"].phase = "answered"
    BY <1>1, <1>5, TypedRemove
  <2>4. calls'["remove"].answer = "ok" => Done("remove", calls["remove"].source)'
    <3>1. "remove" \in DOMAIN calls
      BY <1>1 DEF Typed, Kinds
    <3>2. CASE s \in Live /\ DeleteSource(s) /\ Answered("remove", s, "ok")
      <4>1. s \in Sources /\ sources'[s].state = "deleted"
        BY <1>1, <3>2 DEF DeleteSource, Live, NoSource, Typed
      <4>2. calls'["remove"].source = s
        BY <3>1, <3>2 DEF Answered
      <4> QED
        BY <4>1, <4>2 DEF Done
    <3>3. CASE Refused("remove", "not_found")
      BY <3>1, <3>3 DEF Refused, Answered
    <3> QED
      BY <2>1, <3>2, <3>3
  <2> QED
    BY <1>1, <1>2, <2>2, <2>3, <2>4, ListFrame DEF ListInv, Listed
<1>6. CASE ServeRefresh \/ CommitRefresh
  <2>1. /\ \A k \in Kinds \ {"refresh"} : calls'[k] = calls[k]
        /\ \/ sources' = sources
           \/ \E s \in Live : /\ \A t \in Sources \ {s} : sources'[t] = sources[t]
                              /\ sources'[s].state = "live"
    BY <1>1, <1>6, ServesRefresh, TypedRefresh DEF PollInv, queueVars
  <2>2. SourcesStay
    BY <2>1 DEF SourcesStay, Live
  <2> QED
    BY <1>1, <1>2, <2>1, <2>2, ListFrame DEF ListInv, Listed
<1> QED
  BY <1>3, <1>4, <1>5, <1>6

\* The page gives up a read that is older than what it waits for.
LEMMA ListOnPage ==
    ASSUME QueueInv, ListInv,
           \/ \E kind \in Kinds : Receive(kind) \/ LoseCall(kind)
           \/ \E kind \in Kinds, s \in Sources \cup {"none"} : Press(kind, s)
           \/ Refetch \/ ServeList \/ ShowList \/ FailList
    PROVE  ListInv'
<1>1. Typed /\ SourcesLeft
  BY DEF QueueInv
<1>2. UNCHANGED sources /\ SourcesStay
  BY DEF Receive, LoseCall, Press, Refetch, ServeList, ShowList, FailList, queueVars, SourcesStay
<1>3. DOMAIN page = PageShape /\ DOMAIN page' = PageShape
  BY DEF ListInv, PageShape, Receive, LoseCall, Press, Refetch, ServeList, ShowList, FailList, Reread
<1>4. /\ NoCall.phase = "idle" /\ Failed.phase = "error"
      /\ \A k \in Kinds : DOMAIN calls[k] = CallShape
  BY <1>1 DEF NoCall, Failed, Typed
<1>5. Reread => page'.read = "sent"
  BY <1>3 DEF Reread, PageShape
<1>6. CASE \E kind \in Kinds : Receive(kind)
  <2>1. PICK kind \in Kinds : Receive(kind)
    BY <1>6
  <2>2. CASE calls[kind].answer = "ok"
    <3>1. Succeeded(kind) /\ calls' = Invalidated(calls, kind) /\ page'.read = "sent"
      BY <1>5, <2>1, <2>2 DEF Receive, Succeeded
    <3>2. calls'[kind].phase = "reading" /\ calls'[kind].source = calls[kind].source
      BY <1>4, <3>1 DEF Invalidated, CallShape
    <3>3. \A k \in Kinds \ {kind} : calls'[k] = calls[k] \/ calls'[k].phase = "idle"
      BY <1>4, <3>1 DEF Invalidated
    <3> QED
      BY <1>2, <1>3, <3>1, <3>2, <3>3, ListFrame DEF Listed
  <2>3. CASE calls[kind].answer # "ok"
    <3>1. calls' = [calls EXCEPT ![kind] = Failed] /\ UNCHANGED page
      BY <2>1, <2>3 DEF Receive
    <3>2. \A k \in Kinds : calls'[k] = calls[k] \/ calls'[k].phase = "error"
      BY <1>1, <1>4, <3>1 DEF Typed
    <3> QED
      BY <1>2, <1>3, <3>1, <3>2, ListFrame DEF Listed
  <2> QED
    BY <2>2, <2>3
<1>7. CASE \E kind \in Kinds : LoseCall(kind)
  <2>1. PICK kind \in Kinds : calls' = [calls EXCEPT ![kind] = Failed] /\ UNCHANGED page
    BY <1>7 DEF LoseCall
  <2>2. \A k \in Kinds : calls'[k] = calls[k] \/ calls'[k].phase = "error"
    BY <1>1, <1>4, <2>1 DEF Typed
  <2> QED
    BY <1>2, <1>3, <2>1, <2>2, ListFrame DEF Listed
<1>8. CASE \E kind \in Kinds, s \in Sources \cup {"none"} : Press(kind, s)
  <2>1. PICK kind \in Kinds, s \in Sources \cup {"none"} : Press(kind, s)
    BY <1>8
  <2>2. calls'[kind].phase = "sent" /\ \A k \in Kinds \ {kind} : calls'[k] = calls[k]
    BY <1>1, <2>1, Presses
  <2>3. UNCHANGED page
    BY <2>1 DEF Press
  <2> QED
    BY <1>2, <1>3, <2>2, <2>3, ListFrame DEF Listed
<1>9. CASE Refetch
  BY <1>2, <1>3, <1>5, <1>9, ListFrame DEF Refetch
<1>10. CASE ServeList
  <2>1. calls' = calls /\ page'.read = "answered" /\ page'.answer = Listing
    BY <1>3, <1>10 DEF ServeList, PageShape
  <2>2. \A s \in Sources : /\ sources[s].state = "deleted" => Listing[s] = "absent"
                           /\ sources[s].state = "live" => Listing[s] # "absent"
                           /\ sources[s].state \in {"absent", "live", "deleted"}
    BY <1>1 DEF Listing, Live, Typed, Source
  <2>3. \A kind \in Listed, s \in Sources : Done(kind, s) => Shows(kind, s, Listing)
    BY <2>2 DEF Done, Shows
  <2>4. \A kind, s : Done(kind, s) => s \in Sources
    BY DEF Done
  <2> QED
    BY <1>2, <1>3, <2>1, <2>3, <2>4 DEF ListInv, Succeeded, Done, Shows
<1>11. CASE ShowList \/ FailList
  <2>1. calls' = ReadEnds /\ page'.read = "none"
    BY <1>3, <1>11 DEF ShowList, FailList, PageShape
  <2>2. \A k \in Kinds : calls'[k] = calls[k] \/ calls'[k].phase = "idle"
    BY <1>4, <2>1 DEF ReadEnds
  <2> QED
    BY <1>2, <1>3, <2>1, <2>2, ListFrame DEF Listed
<1> QED
  BY <1>6, <1>7, <1>8, <1>9, <1>10, <1>11

-----------------------------------------------------------------------------
(* The theorems.                                                           *)

\* What is known of the rows, the job in hand, the sources and the refresh is true at first
\* and kept by every step of the worker, the API, the page and time.
THEOREM QueueInvariant == Spec => []QueueInv
<1>1. Init => QueueInv
  BY TypedInit, PollInit, ReminderInit DEF QueueInv
<1>2. QueueInv /\ [Next]_vars => QueueInv'
  <2> SUFFICES ASSUME QueueInv, [Next]_vars PROVE QueueInv'
    OBVIOUS
  <2>1. CASE UNCHANGED vars
    BY <2>1, StutterKeeps
  <2>2. CASE QueueStep /\ UNCHANGED <<scene, calls, page, losses>>
    BY <2>2, WorkerKeeps, TimeKeeps, GroupKeeps DEF QueueStep
  <2>3. CASE Next /\ ~(QueueStep /\ UNCHANGED <<scene, calls, page, losses>>)
    BY <2>3, PageKeeps DEF Next
  <2> QED
    BY <2>1, <2>2, <2>3
<1> QED
  BY <1>1, <1>2, PTL DEF Spec

\* The polls of a source form one chain, for any number of sources and rows: two that may
\* still run are never on the table at once, and a source that is pending, or has no tag,
\* has one to come.  services/calendars.py against worker/calendar.py.
THEOREM PollChainHolds == Spec => []PollChain
<1>1. QueueInv => PollChain
  <2> SUFFICES ASSUME QueueInv, NEW s \in Sources
               PROVE  /\ Cardinality({j \in PollsOf(s) : ~Stuck(j) /\ worker.job # j}) <= 1
                      /\ (s \in Live /\ sources[s].status = "pending") => PollsOf(s) # {}
                      /\ (s \in Live /\ sources[s].kind = "url" /\ ~sources[s].etag) => PollsOf(s) # {}
    BY DEF PollChain
  <2> DEFINE may == {j \in PollsOf(s) : ~Stuck(j) /\ worker.job # j}
  <2>1. \A j \in may : j \in JobIds /\ WaitingPoll(s, j)
    BY DEF PollsOf, Unfinished, Stuck, WaitingPoll
  <2>2. \A i, j \in may : i = j
    BY <2>1 DEF QueueInv, PollInv, OneWaits
  <2>3. may = {} \/ \E j : may = {j}
    BY <2>2
  <2>4. Cardinality(may) = 0 \/ Cardinality(may) = 1
    BY <2>3, FS_EmptySet, FS_Singleton, Zenon
  <2>5. (s \in Live /\ (sources[s].status = "pending" \/ (sources[s].kind = "url" /\ ~sources[s].etag)))
          => PollsOf(s) # {}
    BY DEF QueueInv, PollInv, OneComes
  <2> QED
    BY <2>4, <2>5
<1> QED
  BY <1>1, QueueInvariant, PTL

\* For any members, proposals and requests that overlap: no reminder goes out before its
\* hour.  And until a request commits on a group that another has changed since it was read,
\* what may still run is of the proposal that is confirmed, nobody is reminded twice without
\* a mail reported as failed, and no confirmation fails on an old key.
\* services/confirmation.py against worker/jobs.py and worker/email.py.
THEOREM RemindersFitHolds == Spec => []RemindersFit
<1>1. ASSUME QueueInv PROVE RemindersFit
  <2>1. \A j \in JobIds : jobs[j] \in Job /\ RowFits(jobs[j])
    BY <1>1 DEF QueueInv, Typed, JobsTyped
  <2>2. ASSUME PlansFit, NEW r \in Requests, Current(r) PROVE ~Collides(group.asks[r])
    <3>1. group.asks[r].pid \in Proposals
      BY <1>1, <2>2 DEF QueueInv, Typed, GroupTyped, Current
    <3> QED
      BY <2>1, <2>2, <3>1, KeyOfReminder DEF PlansFit, Collides, HasKey
  <2>3. group.late \/ (OfConfirmed /\ OneReminder /\ PlansFit)
    BY <1>1 DEF QueueInv, ReminderInv
  <2> QED
    BY <1>1, <2>2, <2>3 DEF QueueInv, ReminderInv, AfterHour, OfConfirmed, OneReminder, RemindersFit
<1> QED
  BY <1>1, QueueInvariant, PTL

\* When a press ends with its list read, for any sources and losses, what it created is
\* listed, or was removed since, and what it removed is not: a read that was on its way when
\* the press was carried out does not end it.  CalendarSourcesPage.tsx, invalidateQueries.
THEOREM SettledIsListedHolds == Spec => SettledIsListed
<1> DEFINE Ends(kind) ==
             LET s == calls[kind].source IN
             (calls[kind].phase = "reading" /\ calls'[kind].phase = "idle" /\ page.read = "answered"
                /\ ~page'.error /\ page'.read = "none") =>
                /\ kind \in {"create", "upload"} =>
                     page'.shown[s] # "absent" \/ sources[s].state = "deleted"
                /\ kind = "remove" => page'.shown[s] = "absent"
<1>1. Init => ListInv
  BY DEF Init, ListInv, PageShape, Listed, Succeeded, NoCall
<1>2. QueueInv /\ ListInv /\ [Next]_vars => ListInv'
  <2> SUFFICES ASSUME QueueInv, ListInv, [Next]_vars PROVE ListInv'
    OBVIOUS
  <2>1. CASE UNCHANGED vars
    <3>1. UNCHANGED <<sources, calls, page>>
      BY <2>1 DEF vars, queueVars
    <3> QED
      BY <3>1 DEF ListInv, Succeeded, Done, Shows
  <2>2. CASE QueueStep /\ UNCHANGED <<scene, calls, page, losses>>
    BY <2>2, QueueLeavesSources, ListFrame DEF ListInv
  <2>3. CASE Next /\ ~(QueueStep /\ UNCHANGED <<scene, calls, page, losses>>)
    BY <2>3, ListServed, ListOnPage DEF Next, PageStep
  <2> QED
    BY <2>1, <2>2, <2>3
<1>3. QueueInv /\ ListInv /\ [Next]_vars => [\A kind \in Kinds : Ends(kind)]_vars
  <2> SUFFICES ASSUME QueueInv, ListInv, Next, NEW kind \in Kinds,
                      calls[kind].phase = "reading", calls'[kind].phase = "idle",
                      page.read = "answered", ~page'.error, page'.read = "none"
               PROVE  Ends(kind)
    OBVIOUS
  <2>1. page' # page
    OBVIOUS
  <2>2. DOMAIN page = PageShape
    BY DEF ListInv
  <2>3. ~Reread /\ ~FailList /\ ~ServeList
    BY <2>2 DEF Reread, FailList, ServeList, PageShape
  <2>4. ShowList
    <3>1. \/ \E k \in Kinds : calls[k].answer = "ok" /\ Receive(k)
          \/ ShowList
      BY <2>1, <2>3 DEF Next, PageStep, ServeNewSource, CommitNewSource, Receive, ServeRemove,
         ServeRefresh, CommitRefresh, Press, LoseCall, Refetch
    <3> QED
      BY <2>3, <3>1 DEF Receive
  <2>5. page'.shown = page.answer
    BY <2>2, <2>4 DEF ShowList, PageShape
  <2>6. kind # "refresh" => Shows(kind, calls[kind].source, page.answer)
    BY DEF ListInv, Listed
  <2> QED
    BY <2>5, <2>6 DEF Shows
<1> QED
  BY <1>1, <1>2, <1>3, QueueInvariant, PTL DEF Spec, SettledIsListed
=============================================================================
