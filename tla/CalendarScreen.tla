------------------------------ MODULE CalendarScreen ------------------------------
(***************************************************************************)
(* The page of a user's calendar sources (pages/CalendarSourcesPage.tsx)   *)
(* on top of the job queue: its list, its four mutations, and the answers  *)
(* of the API to them.                                                     *)
(*                                                                         *)
(* Every press of a button sends a new Idempotency-Key, so a press after a *)
(* lost answer is another request.  A mutation whose answer says yes has   *)
(* the list read again, and is pending until that read has ended.          *)
(***************************************************************************)
EXTENDS JobQueue

CONSTANTS
    Scenes          \* what may happen in one behaviour, and its bounds: [does |-> a set of
                    \* Kinds, "group" and "late", sources |-> those that may be created,
                    \* losses |-> how many answers, reads and workers may be lost]

ASSUME SceneAssumption == \A given \in Scenes : given.sources \subseteq Sources

VARIABLES
    scene,      \* what may happen
    calls,      \* the mutation of each kind
    page,       \* the list shown, and its read
    losses      \* what has been used of the bound

vars == <<queueVars, scene, calls, page, losses>>

MayLose == losses + Len(history) < scene.losses

Kinds == {"create", "upload", "refresh", "remove"}

NoCall == [phase |-> "idle", source |-> "none", answer |-> "none"]
Failed == [NoCall EXCEPT !.phase = "error"]
Pending(kind) == calls[kind].phase \notin {"idle", "error"}
Listing == [s \in Sources |-> IF s \in Live THEN sources[s].status ELSE "absent"]

Init ==
    /\ QueueInit
    /\ scene \in Scenes
    /\ calls = [kind \in Kinds |-> NoCall]
    /\ page = [shown |-> Listing, error |-> FALSE, read |-> "none", answer |-> Listing]
    /\ losses = 0

-----------------------------------------------------------------------------
(* The buttons.  Each is disabled while its mutation is pending, the file  *)
(* input is not: that one upload runs at a time is a bound.                *)

\* The sources that are left for those that are being created: a bound.
Left ==
    Cardinality({s \in scene.sources : sources[s].state = "absent"})
      - Cardinality({kind \in {"create", "upload"} : calls[kind].phase \in {"sent", "read"}})

Press(kind, s) ==
    /\ kind \in scene.does /\ ~page.error /\ ~Pending(kind)
    /\ IF kind \in {"create", "upload"} THEN s = "none" /\ Left > 0
       ELSE s \in Sources /\ page.shown[s] # "absent"
    /\ calls' = [calls EXCEPT ![kind] = [NoCall EXCEPT !.phase = "sent", !.source = s]]
    /\ UNCHANGED <<queueVars, scene, page, losses>>

Answered(kind, s, answer) ==
    calls' = [calls EXCEPT ![kind] = [phase |-> "answered", source |-> s, answer |-> answer]]

Refused(kind, answer) == Answered(kind, calls[kind].source, answer) /\ UNCHANGED <<sources, jobs, due>>

Read(kind, found) ==
    /\ calls' = [calls EXCEPT ![kind].phase = "read", ![kind].answer = found]
    /\ UNCHANGED <<sources, jobs, due>>

\* The limit is read, and the file that was uploaded, which may not be a calendar.
ServeNewSource(kind) ==
    /\ kind \in {"create", "upload"} /\ calls[kind].phase = "sent"
    /\ IF LimitReached THEN Refused(kind, "calendar_source_limit_reached")
       ELSE \/ Read(kind, "none")
            \/ kind = "upload" /\ Refused(kind, "ics_parse_failed")
    /\ UNCHANGED <<worker, group, ahead, mails, history, scene, page, losses>>

\* The source gets an id of its own, whatever was created since the limit was read.
CommitNewSource(kind) ==
    LET s == CHOOSE x \in scene.sources : sources[x].state = "absent" IN
    /\ kind \in {"create", "upload"} /\ calls[kind].phase = "read"
    /\ Answered(kind, s, "ok")
    /\ IF kind = "create" THEN CreateSource(s) ELSE UploadSource(s)
    /\ UNCHANGED <<worker, group, ahead, mails, history, scene, page, losses>>

ServeRemove ==
    LET s == calls["remove"].source IN
    /\ calls["remove"].phase = "sent"
    /\ IF s \in Live THEN DeleteSource(s) /\ Answered("remove", s, "ok")
       ELSE Refused("remove", "not_found")
    /\ UNCHANGED <<worker, group, ahead, mails, history, scene, page, losses>>

\* A refresh reads, and later commits what it has read.
ServeRefresh ==
    LET s == calls["refresh"].source
        read == RefreshRead(s)
    IN
    /\ calls["refresh"].phase = "sent"
    /\ IF read \in {"not_found", "rate_limited"} THEN Refused("refresh", read)
       ELSE Read("refresh", read)
    /\ UNCHANGED <<worker, group, ahead, mails, history, scene, page, losses>>

CommitRefresh ==
    LET s == calls["refresh"].source
        found == calls["refresh"].answer
    IN
    /\ calls["refresh"].phase = "read"
    /\ IF RefreshFails(s, found) THEN Refused("refresh", "failed")
       ELSE RefreshCommit(s, found) /\ Answered("refresh", s, "ok")
    /\ UNCHANGED <<worker, group, ahead, mails, history, scene, page, losses>>

\* invalidateQueries: a read on its way is given up for a new one, and what waited for
\* it goes on.
Invalidated(cs, kind) ==
    [k \in Kinds |-> IF k = kind THEN [cs[k] EXCEPT !.phase = "reading"]
                     ELSE IF cs[k].phase = "reading" THEN NoCall ELSE cs[k]]

\* Mutant of Reread: a read on its way is waited for instead.
RereadJoining == page' = [page EXCEPT !.read = IF @ = "none" THEN "sent" ELSE @]

Reread == page' = [page EXCEPT !.read = "sent"]

\* onSuccess, or the error that the page describes.
Receive(kind) ==
    /\ calls[kind].phase = "answered"
    /\ IF calls[kind].answer = "ok"
       THEN calls' = Invalidated(calls, kind) /\ Reread
       ELSE calls' = [calls EXCEPT ![kind] = Failed] /\ UNCHANGED page
    /\ UNCHANGED <<queueVars, scene, losses>>

\* The network fails, before the API has seen the request or after it has answered.
LoseCall(kind) ==
    /\ calls[kind].phase \in {"sent", "answered"} /\ MayLose
    /\ losses' = losses + 1
    /\ calls' = [calls EXCEPT ![kind] = Failed]
    /\ UNCHANGED <<queueVars, scene, page>>

-----------------------------------------------------------------------------
(* The list.                                                               *)

\* A press of Retry, or a look at the window, which has the list read again.
Refetch ==
    /\ scene.does \cap Kinds # {} /\ page.read = "none" /\ Reread
    /\ UNCHANGED <<queueVars, scene, calls, losses>>

ServeList ==
    /\ page.read = "sent"
    /\ page' = [page EXCEPT !.read = "answered", !.answer = Listing]
    /\ UNCHANGED <<queueVars, scene, calls, losses>>

ReadEnds == [k \in Kinds |-> IF calls[k].phase = "reading" THEN NoCall ELSE calls[k]]

ShowList ==
    /\ page.read = "answered"
    /\ page' = [page EXCEPT !.read = "none", !.shown = page.answer, !.error = FALSE]
    /\ calls' = ReadEnds
    /\ UNCHANGED <<queueVars, scene, losses>>

\* A read that fails takes the place of the list; the mutations end all the same.
FailList ==
    /\ page.read # "none" /\ MayLose
    /\ losses' = losses + 1
    /\ page' = [page EXCEPT !.read = "none", !.answer = page.shown, !.error = TRUE]
    /\ calls' = ReadEnds
    /\ UNCHANGED <<queueVars, scene>>

-----------------------------------------------------------------------------

PageStep ==
    \/ \E kind \in Kinds : ServeNewSource(kind) \/ CommitNewSource(kind) \/ Receive(kind)
    \/ ServeRemove \/ ServeRefresh \/ CommitRefresh
    \/ ServeList \/ ShowList

\* A cooldown, and the wait of a job, are longer than a request that has read, and than
\* the moment between the end of a handler and that of its job.
Moment == calls["refresh"].phase = "read" \/ worker.phase \in {"handled", "failed"}
HourComes(j) == ~Moment /\ BecomesDue(j)
PollHourComes(s) == \E j \in PollsOf(s) : HourComes(j)
CooldownOver(s) == ~Moment /\ CooldownEnds(s)

\* What follows a late commit is bounded: a request starts only where the scene says so.
Goes(r) == Asked(r, "idle") /\ group.late => "late" \in scene.does

QueueStep ==
    \/ WorkerStep \/ (MayLose /\ Die)
    \/ \E j \in JobIds : HourComes(j)
    \/ \E s \in Sources : CooldownOver(s)
    \/ /\ "group" \in scene.does
       /\ \/ \E r \in Requests : Goes(r) /\ GroupStep(r)
          \/ \E p \in Proposals : ReminderHour(p)
          \/ DeleteGroup

Next ==
    \/ PageStep
    \/ \E kind \in Kinds, s \in Sources \cup {"none"} : Press(kind, s)
    \/ \E kind \in Kinds : LoseCall(kind)
    \/ Refetch \/ FailList
    \/ QueueStep /\ UNCHANGED <<scene, calls, page, losses>>

\* The API ends what it has begun, the worker works and is started again, and the hours of
\* the jobs come, however often the user presses.
Fairness ==
    /\ WF_vars(CommitRefresh)
    /\ WF_vars(WorkerStep /\ UNCHANGED <<scene, calls, page, losses>>)
    /\ \A s \in Sources : SF_vars(PollHourComes(s) /\ UNCHANGED <<scene, calls, page, losses>>)

Spec == Init /\ [][Next]_vars /\ Fairness

-----------------------------------------------------------------------------
(* Properties.                                                             *)

Stuck(j) == jobs[j].state = "locked" /\ worker.job # j

\* The polls of a source form one chain: never two polls that may still run, however
\* refreshes, retries and the worker meet; while it is pending there is one to end that;
\* and the chain breaks only where the server of the calendar has said Not Modified or
\* the worker has died.  services/calendars.py against worker/calendar.py.
PollChain ==
    \A s \in Sources :
        /\ Cardinality({j \in PollsOf(s) : ~Stuck(j) /\ worker.job # j}) <= 1
        /\ (s \in Live /\ sources[s].status = "pending") => PollsOf(s) # {}
        /\ (s \in Live /\ sources[s].kind = "url" /\ ~sources[s].etag) => PollsOf(s) # {}

\* A request that no other has overtaken.
Current(r) == ~Asked(r, "idle") /\ r \notin group.overtaken

\* No reminder goes out before its hour.  And as long as no request of the owner has
\* committed late, on a group that another has changed since it was read, the reminders
\* fit the confirmation: one that may still run is of the proposal that the group is
\* confirmed with, a second mail only follows one that was reported as failed, and no
\* confirmation is refused for the key of an old reminder.
RemindersFit ==
    /\ \A j \in JobIds : jobs[j].kind = "reminder" /\ jobs[j].state # "waiting" =>
          jobs[j].of[2] \notin ahead
    /\ \A m \in Members, p \in Proposals : mails[<<m, p>>] > 0 => p \notin ahead
    /\ ~group.late =>
          /\ \A j \in JobIds : jobs[j].kind = "reminder" /\ Unfinished(j) =>
                group.state = "deleted" \/ group.pid = jobs[j].of[2]
          /\ \A m \in Members, p \in Proposals :
                mails[<<m, p>>] > 1 => Happened("half sent")
          /\ \A r \in Requests : Current(r) => ~Collides(group.asks[r])

Raised(s) == At("fetching") /\ worker.of = <<s>> /\ worker'.phase = "failed" /\ UNCHANGED sources

\* A source is not pending for ever, unless the worker has died with a job in hand, or its
\* polls raise what the handler does not know for ever.
PendingEnds ==
    \A s \in Sources : \/ []<>(sources[s].status # "pending" \/ Happened("died"))
                       \/ []<><<Raised(s)>>_vars

\* When a press ends with its list read, the list is one that its effect is in: what was
\* created is listed and what was removed is not.
SettledIsListed ==
    [][\A kind \in Kinds :
         LET s == calls[kind].source IN
         (calls[kind].phase = "reading" /\ calls'[kind].phase = "idle" /\ page.read = "answered"
            /\ ~page'.error /\ page'.read = "none") =>
            /\ kind \in {"create", "upload"} =>
                 page'.shown[s] # "absent" \/ sources[s].state = "deleted"
            /\ kind = "remove" => page'.shown[s] = "absent"]_vars

\* contracts/openapi.yaml, refreshCalendarSource: "Enqueue an immediate re-poll".  A
\* refresh of a source that is there and was not polled lately does so.
RefreshEnqueuesPoll ==
    [][(calls["refresh"].phase = "read" /\ calls'["refresh"].phase = "answered"
          /\ calls["refresh"].source \in Live) => calls'["refresh"].answer = "ok"]_vars
=============================================================================
