-------------------------------- MODULE JobQueue --------------------------------
(***************************************************************************)
(* The job table and the worker (app/worker), with the two producers that  *)
(* take jobs back or depend on them: confirmation, which plans and cancels *)
(* reminders, and the calendar sources of one user, which are polled.      *)
(*                                                                         *)
(* The worker claims a job in one transaction, handles it in others, and   *)
(* completes it in a last one.  Between them the API may delete the job,   *)
(* its source or its group, and the process may die.                       *)
(*                                                                         *)
(* A completed job matters only by its dedupe_key, so one without a key is *)
(* forgotten.  run_after is whether the job is due, and the order in which *)
(* jobs became due.  Mails with a sign-in link go the same way as          *)
(* reminders that nobody cancels, and have no jobs of their own.           *)
(***************************************************************************)
EXTENDS Integers, Sequences, FiniteSets

CONSTANTS
    Sources,        \* the calendar sources, each created at most once
    Proposals,      \* the proposals that the group may confirm
    Members,        \* its members with notify_email
    Requests,       \* the requests of its owner that may be in flight
    JobIds,         \* bounds the rows of the table that matter
    MaxSources,     \* max_calendar_sources
    MaxDeaths       \* bounds the deaths of the worker and the mails sent half

ASSUME JobAssumption ==
    /\ 0 \notin JobIds /\ IsFiniteSet(JobIds) /\ IsFiniteSet(Sources)
    /\ "none" \notin Sources \cup Proposals
    /\ MaxSources \in Nat /\ MaxDeaths \in Nat

VARIABLES
    jobs,       \* the rows of the job table
    due,        \* the waiting jobs whose run_after has passed, in its order: <<i, j>> when
                \* i is j or was due before it
    worker,     \* what the worker is doing
    sources,    \* the calendar sources
    group,      \* whether the group is confirmed, and with which proposal; the requests
                \* that are changing that (asks), those of them that another has
                \* overtaken, and whether an overtaken one has committed (late)
    ahead,      \* the proposals whose reminders would be in the future
    mails,      \* how often a member was reminded of a proposal
    history     \* the deaths, and the other things that lose or repeat work

queueVars == <<jobs, due, worker, sources, group, ahead, mails, history>>

-----------------------------------------------------------------------------
(* The table.                                                              *)

\* A job is of a source, <<s>>, or of a member and a proposal, <<m, p>>; so is its key.
NoKey == <<>>
NoJob == [state |-> "free", kind |-> "none", of |-> <<>>, key |-> NoKey]
PollOf(s, key) == [state |-> "waiting", kind |-> "poll", of |-> <<s>>, key |-> key]
ReminderOf(m, p) == [state |-> "waiting", kind |-> "reminder", of |-> <<m, p>>, key |-> <<m, p>>]

Unfinished(j) == jobs[j].state \in {"waiting", "locked"}
PollsOf(s) == {j \in JobIds : jobs[j].kind = "poll" /\ jobs[j].of = <<s>> /\ Unfinished(j)}
HasKey(key) == \E j \in JobIds : jobs[j].key = key
\* A worker that has lost its row does not get another one in its place.
FreeIds == {j \in JobIds : jobs[j].state = "free"} \ {worker.job}
NewId == CHOOSE j \in FreeIds : TRUE

IsDue(j) == <<j, j>> \in due
DueSince(j) == due \cup {<<i, j>> : i \in {i \in JobIds : i = j \/ IsDue(i)}}

NoSource == [state |-> "absent", kind |-> "none", status |-> "none", cooling |-> FALSE,
             etag |-> FALSE]
NewSource(kind, status) ==
    [NoSource EXCEPT !.state = "live", !.kind = kind, !.status = status,
                     !.cooling = (kind = "upload")]
Live == {s \in Sources : sources[s].state = "live"}

NoAsk == [phase |-> "idle", pid |-> "none", plans |-> FALSE, rows |-> {}]

Idle == [phase |-> "idle", job |-> 0, kind |-> "none", of |-> <<>>]
Down == [Idle EXCEPT !.phase = "down"]

QueueInit ==
    /\ jobs = [j \in JobIds |-> NoJob] /\ due = {}
    /\ worker = Idle
    /\ sources = [s \in Sources |-> NoSource]
    /\ group = [state |-> "open", pid |-> "none", asks |-> [r \in Requests |-> NoAsk],
                overtaken |-> {}, late |-> FALSE]
    /\ ahead = Proposals
    /\ mails = [of \in Members \X Proposals |-> 0]
    /\ history = <<>>

Happened(what) == \E i \in DOMAIN history : history[i] = what

-----------------------------------------------------------------------------
(* The worker: worker/main.py and worker/jobs.py.                          *)

At(phase) == worker.phase = phase
Row == jobs[worker.job]
Becomes(phase) == worker' = [worker EXCEPT !.phase = phase]

\* The rows that a request has deleted and not committed: nobody else may write them.
Held == UNION {group.asks[r].rows : r \in Requests}

\* claim_job: the due job with the earliest run_after, but for rows that are held.
ClaimJob ==
    /\ At("idle")
    /\ \E j \in JobIds \ Held :
         /\ IsDue(j) /\ \A i \in JobIds \ Held : IsDue(i) => <<j, i>> \in due
         /\ jobs' = [jobs EXCEPT ![j].state = "locked"]
         /\ worker' = [phase |-> "claimed", job |-> j, kind |-> jobs[j].kind, of |-> jobs[j].of]
         /\ due' = {e \in due : e[1] # j}
    /\ UNCHANGED <<sources, group, ahead, mails, history>>

\* complete_job.  It waits for a row that is held.  One that was deleted meanwhile cannot
\* be updated: the error ends the process.
CompleteJob ==
    /\ At("handled") /\ worker.job \notin Held
    /\ IF Row.state = "locked"
       THEN /\ jobs' = [jobs EXCEPT ![worker.job] =
                          IF @.key = NoKey THEN NoJob ELSE [@ EXCEPT !.state = "done"]]
            /\ worker' = Idle
       ELSE UNCHANGED jobs /\ worker' = Down
    /\ UNCHANGED <<due, sources, group, ahead, mails, history>>

\* Mutant of RetryJob: the lock is kept.
RetryJobLocked ==
    /\ At("failed")
    /\ worker' = Idle
    /\ UNCHANGED <<jobs, due, sources, group, ahead, mails, history>>

\* retry_job: the job waits again, for a delay that doubles up to an hour.
RetryJob ==
    /\ At("failed") /\ worker.job \notin Held
    /\ IF Row.state = "locked"
       THEN jobs' = [jobs EXCEPT ![worker.job].state = "waiting"] /\ worker' = Idle
       ELSE UNCHANGED jobs /\ worker' = Down
    /\ UNCHANGED <<due, sources, group, ahead, mails, history>>

\* The process dies with a job in hand.  The row stays locked, and claim_job passes
\* over it from then on.
Die ==
    /\ worker.phase \notin {"idle", "down"}
    /\ Len(history) < MaxDeaths
    /\ worker' = Down /\ history' = Append(history, "died")
    /\ UNCHANGED <<jobs, due, sources, group, ahead, mails>>

Restart ==
    /\ At("down") /\ worker' = Idle
    /\ UNCHANGED <<jobs, due, sources, group, ahead, mails, history>>

-----------------------------------------------------------------------------
(* The handlers: worker/calendar.py and worker/email.py.                   *)

\* handle_ics_poll reads the source and fetches its URL.
StartPoll ==
    /\ At("claimed") /\ worker.kind = "poll"
    /\ Becomes(IF worker.of[1] \in Live THEN "fetching" ELSE "handled")
    /\ UNCHANGED <<jobs, due, sources, group, ahead, mails, history>>

Polled(status, etag) ==
    sources' = [sources EXCEPT ![worker.of[1]] =
                  [@ EXCEPT !.status = status, !.cooling = TRUE, !.etag = etag]]

\* Mutant of PollParsed: the next poll waits for the manual refresh.
PollParsedOnce ==
    /\ \E etag \in BOOLEAN : Polled("ok", etag)
    /\ Becomes("handled") /\ UNCHANGED jobs

\* The busy blocks are replaced and the next poll is planned, in one transaction.
PollParsed ==
    /\ \E etag \in BOOLEAN : Polled("ok", etag)
    /\ FreeIds # {}
    /\ jobs' = [jobs EXCEPT ![NewId] = PollOf(worker.of[1], NoKey)]
    /\ Becomes("handled")

\* Not Modified: no next poll is planned.
PollUnchanged ==
    /\ sources[worker.of[1]].etag
    /\ Polled("ok", TRUE)
    /\ Becomes("handled") /\ UNCHANGED jobs

\* IcsFetchError, IcsParseError: the source says so, and the job is tried again.
PollFailed ==
    /\ Polled("error", sources[worker.of[1]].etag)
    /\ Becomes("failed") /\ UNCHANGED jobs

\* Any other exception, of the URL or of the calendar, says nothing in the source.
PollRaised == Becomes("failed") /\ UNCHANGED <<jobs, sources>>

\* The source may be gone by now: the flush fails, retry_job finds the session without a
\* transaction, and the process ends.
EndPoll ==
    /\ At("fetching")
    /\ IF worker.of[1] \in Live THEN PollParsed \/ PollUnchanged \/ PollFailed \/ PollRaised
       ELSE worker' = Down /\ UNCHANGED <<jobs, sources>>
    /\ UNCHANGED <<due, group, ahead, mails, history>>

\* handle_reminder_send asks only whether the user, the group and the proposal exist.
StartReminder ==
    /\ At("claimed") /\ worker.kind = "reminder"
    /\ Becomes(IF group.state = "deleted" THEN "handled" ELSE "sending")
    /\ UNCHANGED <<jobs, due, sources, group, ahead, mails, history>>

\* The mail is sent, or not, or it is sent and the answer of the mail server is lost.
EndReminder ==
    /\ At("sending")
    /\ \/ /\ mails' = [mails EXCEPT ![worker.of] = @ + 1]
          /\ Becomes("handled") /\ UNCHANGED history
       \/ Becomes("failed") /\ UNCHANGED <<mails, history>>
       \/ /\ Len(history) < MaxDeaths
          /\ mails' = [mails EXCEPT ![worker.of] = @ + 1]
          /\ Becomes("failed") /\ history' = Append(history, "half sent")
    /\ UNCHANGED <<jobs, due, sources, group, ahead>>

WorkerStep ==
    \/ ClaimJob \/ StartPoll \/ EndPoll \/ StartReminder \/ EndReminder
    \/ CompleteJob \/ RetryJob \/ Restart

-----------------------------------------------------------------------------
(* Time.                                                                   *)

\* A reminder that waits for its first run waits for its hour.
FirstRun(j) == jobs[j].kind = "reminder" /\ jobs[j].of[2] \in ahead

BecomesDue(j) ==
    /\ jobs[j].state = "waiting" /\ ~IsDue(j) /\ ~FirstRun(j)
    /\ due' = DueSince(j)
    /\ UNCHANGED <<jobs, worker, sources, group, ahead, mails, history>>

ReminderHour(p) ==
    /\ p \in ahead
    /\ ahead' = ahead \ {p}
    /\ UNCHANGED <<jobs, due, worker, sources, group, mails, history>>

CooldownEnds(s) ==
    /\ sources[s].cooling
    /\ sources' = [sources EXCEPT ![s].cooling = FALSE]
    /\ UNCHANGED <<jobs, due, worker, group, ahead, mails, history>>

-----------------------------------------------------------------------------
(* Confirmation: services/confirmation.py.  A request reads the group, and *)
(* commits later what it has decided on; nothing locks the group between.  *)

Asked(r, phase) == group.asks[r].phase = phase
InFlight == {r \in Requests : ~Asked(r, "idle")}
Asks(r, ask) == group' = [group EXCEPT !.asks[r] = ask]

\* The request ends with the group in a new state: the others have seen the old one.
Settled(r, state, pid) ==
    group' = [state |-> state, pid |-> pid, asks |-> [group.asks EXCEPT ![r] = NoAsk],
              overtaken |-> InFlight \ {r}, late |-> group.late \/ r \in group.overtaken]

\* The rows that a reminder for each member may take.
Rows == {f \in [Members -> FreeIds] : \A m, n \in Members : f[m] = f[n] => m = n}

Planned(p) ==
    LET id == CHOOSE f \in Rows : TRUE
    IN  [j \in JobIds |-> IF \E m \in Members : id[m] = j
                          THEN ReminderOf(CHOOSE m \in Members : id[m] = j, p) ELSE jobs[j]]

\* confirm_group, the reads: a reminder whose hour has passed is dropped.
ReadConfirm(r, p, reminders) ==
    /\ Asked(r, "idle") /\ group.state = "open"
    /\ Asks(r, [NoAsk EXCEPT !.phase = "confirming", !.pid = p,
                             !.plans = reminders /\ p \in ahead])
    /\ UNCHANGED <<jobs, due, worker, sources, ahead, mails, history>>

\* The key of a reminder that is still in the table refuses the insert.
Collides(ask) == ask.plans /\ \E m \in Members : HasKey(<<m, ask.pid>>)

\* The commit writes state and proposal over what is there, unless the group is gone.
ConfirmGroup(r) ==
    LET ask == group.asks[r] IN
    /\ Asked(r, "confirming") /\ group.state # "deleted" /\ ~Collides(ask)
    /\ IF ask.plans THEN Rows # {} /\ jobs' = Planned(ask.pid) ELSE UNCHANGED jobs
    /\ Settled(r, "confirmed", ask.pid)
    /\ UNCHANGED <<due, worker, sources, ahead, mails, history>>

\* Mutant of Cancelled: a job that the worker has claimed is spared.
CancelledWaiting(p) ==
    {j \in JobIds : jobs[j].kind = "reminder" /\ jobs[j].of[2] = p /\ jobs[j].state = "waiting"
                    /\ ~IsDue(j)}

\* The reminders that are not completed, claimed ones included.
Cancelled(p) ==
    {j \in JobIds : jobs[j].kind = "reminder" /\ jobs[j].of[2] = p /\ Unfinished(j)}

\* unconfirm_group, the reads.
ReadUnconfirm(r) ==
    /\ Asked(r, "idle") /\ group.state = "confirmed"
    /\ Asks(r, [NoAsk EXCEPT !.phase = "reopening", !.pid = group.pid])
    /\ UNCHANGED <<jobs, due, worker, sources, ahead, mails, history>>

\* The DELETE of the reminders of the proposal it has read; it waits for rows that are
\* held.
CancelReminders(r) ==
    LET gone == Cancelled(group.asks[r].pid) IN
    /\ Asked(r, "reopening") /\ gone \cap Held = {}
    /\ Asks(r, [group.asks[r] EXCEPT !.phase = "reopened", !.rows = gone])
    /\ UNCHANGED <<jobs, due, worker, sources, ahead, mails, history>>

UnconfirmGroup(r) ==
    LET gone == group.asks[r].rows IN
    /\ Asked(r, "reopened") /\ group.state # "deleted"
    /\ jobs' = [j \in JobIds |-> IF j \in gone THEN NoJob ELSE jobs[j]]
    /\ due' = {e \in due : e[1] \notin gone /\ e[2] \notin gone}
    /\ Settled(r, "open", "none")
    /\ UNCHANGED <<worker, sources, ahead, mails, history>>

\* The flush fails, or the request is lost: everything it did is undone.
AbortAsk(r) ==
    /\ ~Asked(r, "idle")
    /\ group' = [group EXCEPT !.asks[r] = NoAsk, !.overtaken = @ \ {r}]
    /\ UNCHANGED <<jobs, due, worker, sources, ahead, mails, history>>

\* delete_group leaves the jobs.
DeleteGroup ==
    /\ group.state # "deleted"
    /\ group' = [group EXCEPT !.state = "deleted", !.pid = "none", !.overtaken = InFlight]
    /\ UNCHANGED <<jobs, due, worker, sources, ahead, mails, history>>

GroupStep(r) ==
    \/ \E p \in Proposals, reminders \in BOOLEAN : ReadConfirm(r, p, reminders)
    \/ ReadUnconfirm(r) \/ CancelReminders(r)
    \/ ConfirmGroup(r) \/ UnconfirmGroup(r) \/ AbortAsk(r)

-----------------------------------------------------------------------------
(* The calendar sources: services/calendars.py.                            *)

LimitReached == Cardinality(Live) >= MaxSources

CreateSource(s) ==
    /\ FreeIds # {}
    /\ sources' = [sources EXCEPT ![s] = NewSource("url", "pending")]
    /\ jobs' = [jobs EXCEPT ![NewId] = PollOf(s, <<s>>)]
    /\ due' = DueSince(NewId)

UploadSource(s) ==
    /\ sources' = [sources EXCEPT ![s] = NewSource("upload", "ok")]
    /\ UNCHANGED <<jobs, due>>

DeleteSource(s) ==
    /\ sources' = [sources EXCEPT ![s] = [NoSource EXCEPT !.state = "deleted"]]
    /\ UNCHANGED <<jobs, due>>

\* refresh_calendar_source, the reads: why it is refused, or whether it has found an
\* unfinished poll with its key.
RefreshRead(s) ==
    IF s \notin Live \/ sources[s].kind # "url" THEN "not_found"
    ELSE IF sources[s].cooling THEN "rate_limited"
    ELSE IF \E j \in PollsOf(s) : jobs[j].key = <<s>> THEN "found"
    ELSE "none"

\* The commit.  The key of a completed poll is still in the table: its unique index
\* refuses the insert.
RefreshFails(s, found) == s \notin Live \/ (found = "none" /\ HasKey(<<s>>))

RefreshCommit(s, found) ==
    /\ sources' = [sources EXCEPT ![s].status = "pending"]
    /\ IF found = "none"
       THEN /\ FreeIds # {}
            /\ jobs' = [jobs EXCEPT ![NewId] = PollOf(s, <<s>>)] /\ due' = DueSince(NewId)
       ELSE UNCHANGED <<jobs, due>>
=============================================================================
