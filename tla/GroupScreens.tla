------------------------------ MODULE GroupScreens ------------------------------
(***************************************************************************)
(* The pages of one user about groups: the page of a group (GroupDetail,   *)
(* MembersPanel and the owner's and the member's actions), the form that   *)
(* creates a group and the page behind an invite link, over the query      *)
(* cache, the idempotency middleware and the group on the server.          *)
(*                                                                         *)
(* Renaming and creating keep the key of the last body they sent; a        *)
(* rotation has a fresh key every time; leaving, removing, deleting and    *)
(* joining carry no key and read a 404 or already_member as the wanted     *)
(* outcome where the code does.  Cancelling a panel, editing the creation  *)
(* form and a refresh that arrives late detach the control from a mutation *)
(* that goes on.                                                           *)
(***************************************************************************)
EXTENDS Idempotency, Sequences, FiniteSets

CONSTANTS
    Names,          \* the names a user types, for a group or for a new one
    Invalid,        \* those of them that the server refuses for a new group
    FirstName,      \* the name of the group at the start
    Links,          \* the sequence of invite links the group may come to have
    OthersMay,      \* a bound: what the others may do on the page of each control
    Pages,          \* the pages a behaviour may be about: a role and the controls
                    \* the user works with
    CallIds,        \* bounds the requests on their way
    MaxVersion,     \* bounds the changes of the group, on the page of each control
    MaxAttempts     \* bounds the keys of a form

AllControls == {"rename", "rotate", "delete", "remove", "leave", "create", "join"}
Keyed == {"rename", "create"}

\* What a request may be answered with; a rotation that succeeds answers with a link.
Answers == {"ok", "gone", "forbidden", "conflict", "invalid", "already-member", "reuse",
            "server-error"}

\* Links are random and never repeat; "none" is what no input holds; the form that
\* creates a group and the page behind an invite link are pages of their own.
ASSUME GroupScreenAssumption ==
    /\ FirstName \notin Names /\ Invalid \subseteq Names /\ "none" \notin Names \cup {FirstName}
    /\ Links \in Seq(STRING) /\ Len(Links) > 0
    /\ \A m \in DOMAIN Links : /\ Links[m] \notin Answers
                               /\ \A n \in DOMAIN Links : Links[m] = Links[n] => m = n
    /\ \A page \in Pages : /\ page.role \in {"owner", "member", "none"}
                           /\ \/ page.works \in {{"create"}, {"join"}}
                              \/ page.works \in (SUBSET (AllControls \ {"create", "join"})) \ {{}}
    /\ MaxVersion \in [AllControls -> Nat \ {0}] /\ MaxAttempts \in Nat
    /\ CallIds \subseteq Nat /\ IsFiniteSet(CallIds)

VARIABLES
    server,     \* the group: alive, version, name, invite, this user's role, the other
                \* member
    records,    \* the idempotency records
    detail,     \* the cached read of the group with its error
    roster,     \* the cached read of the members with its error
    ctl,        \* the state of each control
    calls,      \* the mutations on their way
    place,      \* the page that is shown: here, or where it navigated to
    made        \* history: what the requests of each press did

vars == <<server, records, detail, roster, ctl, calls, place, made>>

NoGroup == [tag |-> 0, name |-> "none", role |-> "none"]
NoCall == [phase |-> "none", control |-> "none", body |-> "none", gen |-> 0, streak |-> 0,
           tag |-> 0, shown |-> "none", floor |-> 0, answer |-> "none", client |-> "deaf"]
\* open: the panel or the form; refreshing: a refresh whose end resets the control;
\* held: inFlightRef of the creation form, startedToken of the join page.
NewControl == [status |-> "idle", open |-> FALSE, typed |-> "none", body |-> "none",
               gen |-> 0, streak |-> 0, held |-> FALSE, refreshing |-> FALSE,
               link |-> "none"]

Init ==
    /\ \E page \in Pages :
         /\ server = [alive |-> TRUE, version |-> 1, name |-> FirstName, invite |-> 1,
                      role |-> page.role, other |-> TRUE]
         /\ ctl = [c \in page.works |-> NewControl]
    /\ records = {}
    /\ detail = [read |-> NoGroup, error |-> "none"]
    /\ roster = [known |-> FALSE, other |-> FALSE, error |-> "none"]
    /\ calls = [i \in CallIds |-> NoCall]
    /\ place = "here"
    /\ made = [once |-> {}, raced |-> {}, twice |-> {}, blind |-> {}, stale |-> {}]

Controls == DOMAIN ctl
Flying == {i \in CallIds : calls[i].phase # "none"}
OnGroupPage == Controls \cap {"create", "join"} = {}

-----------------------------------------------------------------------------
(* What is shown.                                                          *)

\* A read that has not answered, that found nothing, that failed, or that has data:
\* a failed refetch leaves the data, and with it the whole page, on screen.
DetailView ==
    IF detail.read # NoGroup THEN "group"
    ELSE IF detail.error = "none" THEN "loading"
    ELSE IF detail.error = "gone" THEN "not-found" ELSE "notice"

RosterView ==
    IF DetailView \in {"loading", "not-found"} THEN "hidden"
    ELSE IF roster.known THEN "members" ELSE IF roster.error = "none" THEN "loading" ELSE "notice"

\* The role in the cached read decides which controls the page has.
Mounted(c) ==
    /\ place = "here" /\ c \in Controls
    /\ c \in {"rename", "rotate", "delete"} => detail.read.role = "owner"
    /\ c = "leave" => detail.read.role = "member"
    /\ c = "remove" => detail.read.role = "owner" /\ RosterView = "members" /\ roster.other

Idle(c) == Mounted(c) /\ ctl[c].status # "pending"

\* The page behind an invite link.
JoinView == IF ctl["join"].status = "notice" THEN "notice" ELSE "joining"

-----------------------------------------------------------------------------
(* The controls.                                                           *)

\* What becomes of the mutations of a control that is reset, unmounted or left.
Detached(cs, controls) ==
    [i \in CallIds |-> IF cs[i].client = "observed" /\ cs[i].control \in controls
                       THEN [cs[i] EXCEPT !.client = "unobserved"] ELSE cs[i]]

\* A bound: the version and the links stay in range whatever the requests do, and the
\* others leave room for one more request.
Highest == LET Smallest(S) == CHOOSE n \in S : \A m \in S : n <= m
           IN Smallest({MaxVersion[c] : c \in Controls})
Unserved == {i \in Flying : calls[i].phase \in {"sent", "admitted"}}
MayChange == server.version + Cardinality(Unserved) < Highest
MayRotate == server.invite + Cardinality({i \in Flying : calls[i].control = "rotate"}) < Len(Links)

\* A history of the forms: submissions of one body with no other between them.
Streak(c, body) == IF ctl[c].body = body THEN ctl[c].streak ELSE ctl[c].streak + 1

\* A mutation starts.  It carries the tag of the cached read, and remembers the name
\* shown and the link in force.
Send(c, body, gen, control) ==
    /\ Flying # CallIds /\ (MayChange \/ (c = "join" /\ server.role # "none"))
    /\ LET i == CHOOSE j \in CallIds \ Flying : \A k \in CallIds \ Flying : j <= k
       IN calls' = [calls EXCEPT ![i] =
                      [phase |-> "sent", control |-> c, body |-> body, gen |-> gen,
                       streak |-> Streak(c, body),
                       tag |-> IF c \in {"rename", "rotate"} THEN detail.read.tag ELSE 0,
                       shown |-> detail.read.name, floor |-> server.invite,
                       answer |-> "none", client |-> "observed"]]
    /\ ctl' = [ctl EXCEPT ![c] = [control EXCEPT !.status = "pending", !.body = body, !.gen = gen,
                                              !.streak = Streak(c, body)]]
    /\ UNCHANGED <<server, records, detail, roster, place, made>>

\* Mutant of AttemptGen: a key of its own for every submission.
AttemptGenFresh(c, body) == ctl[c].gen + 1

\* The key of the last attempt, when it had this body, and a new one otherwise.
AttemptGen(c, body) == IF ctl[c].body = body THEN ctl[c].gen ELSE ctl[c].gen + 1

Only(control) == UNCHANGED <<server, records, detail, roster, place, made>> /\ ctl' = control

OpenRename ==
    /\ Idle("rename") /\ ~ctl["rename"].open
    /\ Only([ctl EXCEPT !["rename"].open = TRUE, !["rename"].typed = detail.read.name,
                        !["rename"].status = "idle"])
    /\ UNCHANGED calls

CloseRename ==
    /\ Idle("rename") /\ ctl["rename"].open
    /\ Only([ctl EXCEPT !["rename"].open = FALSE, !["rename"].typed = "none",
                        !["rename"].status = "idle"])
    /\ UNCHANGED calls

\* The input is never disabled, and typing leaves the error where it is.
TypeName(name) ==
    /\ Mounted("rename") /\ ctl["rename"].open /\ ctl["rename"].typed # name
    /\ Only([ctl EXCEPT !["rename"].typed = name])
    /\ UNCHANGED calls

\* Submitting the name that is shown closes the form (CloseRename).
SubmitRename ==
    LET c == ctl["rename"] IN
    /\ Idle("rename") /\ c.open /\ c.typed # detail.read.name
    /\ AttemptGen("rename", c.typed) <= MaxAttempts
    /\ Send("rename", c.typed, AttemptGen("rename", c.typed), c)

\* Retry repeats the last attempt, with the tag of the latest read.
RetryRename ==
    LET c == ctl["rename"] IN
    /\ Idle("rename") /\ c.open /\ c.status = "notice"
    /\ Send("rename", c.body, c.gen, c)

\* Rotating and deleting have a panel; a deletion wants the name typed.
OpenPanel(c) ==
    /\ c \in {"rotate", "delete", "leave", "remove"}
    /\ Mounted(c) /\ ~ctl[c].open /\ ctl[c].link = "none"
    /\ Only([ctl EXCEPT ![c].open = TRUE, ![c].status = "idle",
                        ![c].typed = IF c = "delete" THEN detail.read.name ELSE "none"])
    /\ calls' = Detached(calls, {c})

\* Mutant of CancelPanel: the control stays with its mutation.
CancelPanelObserving(c) ==
    /\ c \in {"rotate", "delete", "leave", "remove"}
    /\ Mounted(c) /\ ctl[c].open
    /\ Only([ctl EXCEPT ![c] = [NewControl EXCEPT !.refreshing = ctl[c].refreshing]])
    /\ UNCHANGED calls

\* Cancel is enabled while the mutation runs and resets it.
CancelPanel(c) ==
    /\ c \in {"rotate", "delete", "leave", "remove"}
    /\ Mounted(c) /\ ctl[c].open
    /\ Only([ctl EXCEPT ![c] = [NewControl EXCEPT !.refreshing = ctl[c].refreshing]])
    /\ calls' = Detached(calls, {c})

\* Mutant of PressRotate: one key for the life of the control.
PressRotateOneKey ==
    LET c == ctl["rotate"] IN
    /\ Idle("rotate") /\ c.open /\ MayRotate
    /\ Send("rotate", "rotate", 1, c)

\* rotate(), pressed in the panel or as Retry.  Its key is fresh: 0 stands for a key
\* that no record has.
PressRotate ==
    LET c == ctl["rotate"] IN
    /\ Idle("rotate") /\ c.open /\ MayRotate
    /\ Send("rotate", "rotate", 0, c)

PressDelete ==
    /\ Idle("delete") /\ ctl["delete"].open /\ ctl["delete"].typed = detail.read.name
    /\ Send("delete", "delete", 0, ctl["delete"])

PressLeave ==
    /\ Idle("leave") /\ ctl["leave"].open
    /\ Send("leave", "me", 0, ctl["leave"])

PressRemove ==
    /\ Idle("remove") /\ ctl["remove"].open
    /\ Send("remove", "other", 0, ctl["remove"])

\* "Refresh the group" after a conflict; the control is reset when it has ended.
PressRefresh(c) ==
    /\ c \in {"rename", "rotate"} /\ Mounted(c) /\ ctl[c].status = "conflict"
    /\ ~ctl[c].refreshing
    /\ Only([ctl EXCEPT ![c].refreshing = TRUE])
    /\ UNCHANGED calls

\* update() of the creation form resets the mutation, and with it the callback that
\* would release inFlightRef.
EditCreation(name) ==
    /\ Mounted("create") /\ ctl["create"].link = "none" /\ ctl["create"].typed # name
    /\ Only([ctl EXCEPT !["create"].typed = name, !["create"].status = "idle"])
    /\ calls' = Detached(calls, {"create"})

\* onSubmit() of a form that validates.
SubmitCreation ==
    LET c == ctl["create"] IN
    /\ Idle("create") /\ c.link = "none" /\ ~c.held /\ c.typed # "none"
    /\ AttemptGen("create", c.typed) <= MaxAttempts
    /\ Send("create", c.typed, AttemptGen("create", c.typed), [c EXCEPT !.held = TRUE])

\* Retry on the notice sends the last attempt.
RetryCreation ==
    LET c == ctl["create"] IN
    /\ Mounted("create") /\ c.status = "notice" /\ ~c.held
    /\ Send("create", c.body, c.gen, [c EXCEPT !.held = TRUE])

\* The effect of the page behind an invite link, once per token.
StartJoin ==
    LET c == ctl["join"] IN
    /\ Mounted("join") /\ ~c.held /\ c.status = "idle"
    /\ Send("join", Links[1], 0, [c EXCEPT !.held = TRUE])

\* Mutant of RetryJoin: the ref still says that this token was sent.
RetryJoinStarted ==
    /\ Mounted("join") /\ ctl["join"].status = "notice"
    /\ Only([ctl EXCEPT !["join"].status = "idle"])
    /\ UNCHANGED calls

RetryJoin ==
    /\ Mounted("join") /\ ctl["join"].status = "notice"
    /\ Only([ctl EXCEPT !["join"].status = "idle", !["join"].held = FALSE])
    /\ UNCHANGED calls

-----------------------------------------------------------------------------
(* A request.                                                              *)

Move(i, call) == calls' = [calls EXCEPT ![i] = call]

Key(call) == <<call.control, call.gen>>
Press(call) == <<call.control, call.streak>>
HasKey(call) == call.gen > 0
Twins(i) == {j \in Flying \ {i} : Key(calls[j]) = Key(calls[i])}

\* Mutant of PatchRefusal: If-Match is not looked at.
PatchRefusalUnconditional(call) ==
    IF ~server.alive \/ server.role = "none" THEN "gone"
    ELSE IF server.role # "owner" THEN "forbidden" ELSE "ok"

PatchRefusal(call) ==
    IF ~server.alive \/ server.role = "none" THEN "gone"
    ELSE IF server.role # "owner" THEN "forbidden"
    ELSE IF call.tag # 0 /\ call.tag # server.version THEN "conflict" ELSE "ok"

DeleteRefusal == IF ~server.alive THEN "gone" ELSE IF server.role # "owner" THEN "forbidden" ELSE "ok"

RemoveRefusal(call) ==
    IF ~server.alive \/ server.role = "none" \/ (call.body = "other" /\ ~server.other) THEN "gone"
    ELSE IF call.body = "me" /\ server.role = "owner" THEN "forbidden" ELSE "ok"

JoinRefusal(call) ==
    IF ~server.alive \/ call.body # Links[server.invite] THEN "gone"
    ELSE IF server.role # "none" THEN "already-member" ELSE "ok"

Refusal(call) ==
    CASE call.control \in {"rename", "rotate"} -> PatchRefusal(call)
      [] call.control = "delete" -> DeleteRefusal
      [] call.control \in {"leave", "remove"} -> RemoveRefusal(call)
      [] call.control = "join" -> JoinRefusal(call)
      [] call.control = "create" -> IF call.body \in Invalid THEN "invalid" ELSE "ok"

Changed(call) ==
    CASE call.control = "rename" -> [server EXCEPT !.name = call.body, !.version = @ + 1]
      [] call.control = "rotate" -> [server EXCEPT !.invite = @ + 1, !.version = @ + 1]
      [] call.control = "delete" -> [server EXCEPT !.alive = FALSE]
      [] call.control = "leave" -> [server EXCEPT !.role = "none", !.version = @ + 1]
      [] call.control = "remove" -> [server EXCEPT !.other = FALSE, !.version = @ + 1]
      [] call.control = "join" -> [server EXCEPT !.role = "member", !.version = @ + 1]
      [] call.control = "create" -> server

\* A rotation answers with the link, which is in no read.
Answer(call) ==
    IF call.control = "rotate" /\ Refusal(call) = "ok" THEN Links[server.invite + 1] ELSE Refusal(call)

Succeeded(answer) == answer = "ok" \/ answer \in {Links[n] : n \in DOMAIN Links}

LookUp(i) ==
    LET found == LookedUp(records, Key(calls[i]), calls[i].body)
        racing == \E j \in Twins(i) : calls[j].phase \in {"admitted", "ran"}
    IN
    /\ calls[i].phase = "sent" /\ HasKey(calls[i])
    /\ Move(i, IF found = "run" THEN [calls[i] EXCEPT !.phase = "admitted"]
               ELSE [calls[i] EXCEPT !.phase = "answered", !.answer = found])
    /\ made' = IF found = "run" /\ racing
               THEN [made EXCEPT !.raced = @ \cup {Press(calls[i])}] ELSE made
    /\ UNCHANGED <<server, records, detail, roster, ctl, place>>

Run(i) ==
    LET call == calls[i]
        press == Press(call)
        done == Refusal(call) = "ok"
    IN
    /\ call.phase = IF HasKey(call) THEN "admitted" ELSE "sent"
    /\ server' = IF done THEN Changed(call) ELSE server
    /\ Move(i, [call EXCEPT !.phase = IF HasKey(call) THEN "ran" ELSE "answered",
                            !.answer = Answer(call)])
    /\ made' = IF ~done \/ call.control \notin Keyed THEN made
               ELSE [made EXCEPT !.once = @ \cup {press},
                                 !.twice = IF press \in made.once THEN @ \cup {press} ELSE @,
                                 !.blind = IF call.control = "rename" /\ server.name # call.shown
                                           THEN @ \cup {press} ELSE @]
    /\ UNCHANGED <<records, detail, roster, ctl, place>>

Record(i) ==
    /\ calls[i].phase = "ran"
    /\ records' = Stored(records, Key(calls[i]), calls[i].body, calls[i].answer)
    /\ Move(i, [calls[i] EXCEPT !.phase = "answered",
                    !.answer = StoredAnswer(records, Key(calls[i]), @)])
    /\ UNCHANGED <<server, detail, roster, ctl, place, made>>

\* A request whose client has given up is lost on its way or with its process.
Vanish(i) ==
    /\ calls[i].phase # "none" /\ calls[i].client = "deaf"
    /\ Move(i, NoCall)
    /\ made' = IF calls[i].phase \in {"admitted", "ran"}
               THEN [made EXCEPT !.raced = @ \cup {Press(calls[i])}] ELSE made
    /\ UNCHANGED <<server, records, detail, roster, ctl, place>>

-----------------------------------------------------------------------------
(* The mutation ends.                                                      *)

\* The control, when it still observes the mutation.
Ended(i, control) ==
    IF calls[i].client = "observed" THEN [ctl EXCEPT ![calls[i].control] = control] ELSE ctl

Observer(i) == ctl[calls[i].control]
Awaited(i) == calls[i].client # "deaf"

\* onSettled of the creation form lets its ref go; the ref of the join page is kept.
Failed(control, c, status) ==
    [control EXCEPT !.status = status, !.held = IF c = "create" THEN FALSE ELSE @]

\* The request fails for the client, by the network or by its patience.
GiveUp(i) ==
    /\ calls[i].phase \in {"sent", "admitted", "ran", "answered"} /\ Awaited(i)
    /\ Move(i, [calls[i] EXCEPT !.client = "deaf"])
    /\ ctl' = Ended(i, Failed(Observer(i), calls[i].control, "notice"))
    /\ UNCHANGED <<server, records, detail, roster, place, made>>

\* How a refusal is presented: what is gone is what a removal wanted, what is invalid
\* is shown at the fields, and only a notice offers Retry.
Outcome(call) ==
    CASE call.answer = "conflict" -> "conflict"
      [] call.answer = "forbidden" /\ call.control # "join" -> "message"
      [] call.answer = "invalid" -> "fields"
      [] call.answer = "gone" /\ call.control \in {"leave", "remove"} -> "gone"
      [] call.answer = "already-member" -> "gone"
      [] OTHER -> "notice"

\* A removal that found nothing closes its panel and reads the members again;
\* leaving and joining go where a success would have gone.
Refused(i) ==
    LET c == calls[i].control
        outcome == Outcome(calls[i])
        heard == calls[i].client = "observed"
    IN
    /\ calls[i].phase = "answered" /\ Awaited(i) /\ ~Succeeded(calls[i].answer)
    /\ ctl' = Ended(i, IF outcome = "gone" THEN [NewControl EXCEPT !.held = Observer(i).held]
                       ELSE Failed(Observer(i), c, outcome))
    /\ place' = IF heard /\ outcome = "gone" /\ c = "leave" THEN "groups"
                ELSE IF heard /\ outcome = "gone" /\ c = "join" THEN "group" ELSE place
    /\ IF heard /\ outcome = "gone" /\ c = "remove"
       THEN Move(i, [calls[i] EXCEPT !.phase = "roster", !.client = "unobserved"])
       ELSE Move(i, NoCall)
    /\ UNCHANGED <<server, records, detail, roster, made>>

\* What a success reads again before its callbacks: a removal the members and the
\* group, a patch the group; a deletion drops both reads from the cache.
NextRead(c) ==
    CASE c \in {"leave", "remove"} -> "roster"
      [] c \in {"rename", "rotate"} -> "detail"
      [] OTHER -> "settled"

Accepted(i) ==
    /\ calls[i].phase = "answered" /\ Awaited(i) /\ Succeeded(calls[i].answer)
    /\ Move(i, [calls[i] EXCEPT !.phase = NextRead(calls[i].control)])
    /\ UNCHANGED <<server, records, detail, roster, ctl, place, made>>

\* The callbacks: a form or a panel closes, a link is shown, the page is left.
Settled(i) ==
    LET c == calls[i].control
        heard == calls[i].client = "observed"
        shown == IF c = "rotate" THEN calls[i].answer ELSE IF c = "create" THEN "made" ELSE "none"
        old == c = "rotate" /\ calls[i].answer \in {Links[n] : n \in 1 .. calls[i].floor}
    IN
    /\ calls[i].phase = "settled"
    /\ Move(i, NoCall)
    /\ ctl' = Ended(i, [Observer(i) EXCEPT !.status = "idle", !.open = FALSE, !.link = shown,
                            !.held = IF c = "create" THEN FALSE ELSE @])
    /\ place' = IF heard /\ c \in {"leave", "delete"} THEN "groups"
                ELSE IF heard /\ c = "join" THEN "group" ELSE place
    /\ made' = IF heard /\ old THEN [made EXCEPT !.stale = @ \cup {Press(calls[i])}] ELSE made
    /\ UNCHANGED <<server, records, detail, roster>>

-----------------------------------------------------------------------------
(* The reads.  Each is of one row or one table at one version.             *)

AfterRead(from, to) ==
    [i \in CallIds |-> IF calls[i].phase = from THEN [calls[i] EXCEPT !.phase = to] ELSE calls[i]]

Refreshing == {c \in Controls : ctl[c].refreshing}

\* The controls whose refresh has ended are reset, with whatever they had started
\* in the meantime.
Refreshed ==
    [c \in Controls |-> IF ctl[c].refreshing
                        THEN [ctl[c] EXCEPT !.status = "idle", !.refreshing = FALSE] ELSE ctl[c]]

Current == [tag |-> server.version, name |-> server.name, role |-> server.role]

\* The group: a success replaces the read, a 404 or a failure only adds an error.
ReadDetail(result) ==
    /\ OnGroupPage /\ result \in {"answer", "network"}
    /\ \/ \E i \in CallIds : calls[i].phase = "detail"
       \/ place = "here" /\ (DetailView = "loading" \/ Refreshing # {})
       \/ place = "here" /\ result = "answer" /\ (detail.read # Current \/ detail.error # "none")
    /\ detail' = IF result = "network" THEN [detail EXCEPT !.error = "network"]
                 ELSE IF ~server.alive \/ server.role = "none" THEN [detail EXCEPT !.error = "gone"]
                 ELSE [read |-> Current, error |-> "none"]
    /\ ctl' = Refreshed
    /\ calls' = Detached(AfterRead("detail", "settled"), Refreshing)
    /\ UNCHANGED <<server, records, roster, place, made>>

\* A bound: the members are read only where a control depends on them.
RosterMatters == Controls \cap {"remove", "leave"} # {}

\* The members.
ReadRoster(result) ==
    /\ OnGroupPage /\ result \in {"answer", "network"}
    /\ \/ \E i \in CallIds : calls[i].phase = "roster"
       \/ RosterMatters /\ place = "here" /\ (~roster.known \/ roster.other # server.other)
    /\ roster' = IF result = "network" THEN [roster EXCEPT !.error = "network"]
                 ELSE IF ~server.alive \/ server.role = "none" THEN [roster EXCEPT !.error = "gone"]
                 ELSE [known |-> TRUE, other |-> server.other, error |-> "none"]
    /\ calls' = AfterRead("roster", "detail")
    /\ UNCHANGED <<server, records, detail, ctl, place, made>>

-----------------------------------------------------------------------------
(* The others, and this user in another tab.                               *)

Elsewhere ==
    /\ server.version + Cardinality(Unserved) + 1 < Highest /\ server.alive
    /\ \E c \in Controls : \E change \in OthersMay[c] :
         \/ change = "rename" /\ \E n \in Names \cup {FirstName} :
               n # server.name /\ server' = [server EXCEPT !.name = n, !.version = @ + 1]
         \/ /\ change = "rotate" /\ MayRotate
            /\ server' = [server EXCEPT !.invite = @ + 1, !.version = @ + 1]
         \/ /\ change = "remove" /\ server.other
            /\ server' = [server EXCEPT !.other = FALSE, !.version = @ + 1]
         \/ /\ change = "expel" /\ server.role = "member"
            /\ server' = [server EXCEPT !.role = "none", !.version = @ + 1]
         \/ change = "delete" /\ server' = [server EXCEPT !.alive = FALSE]
    /\ UNCHANGED <<records, detail, roster, ctl, calls, place, made>>

RenameForm ==
    \/ OpenRename \/ CloseRename \/ SubmitRename \/ RetryRename
    \/ \E n \in Names : TypeName(n)

GroupActions ==
    \/ \E c \in Controls : OpenPanel(c) \/ CancelPanel(c) \/ PressRefresh(c)
    \/ PressRotate \/ PressDelete \/ PressLeave \/ PressRemove

CreationForm == SubmitCreation \/ RetryCreation \/ \E n \in Names : EditCreation(n)

Requests == \E i \in CallIds : LookUp(i) \/ Run(i) \/ Record(i) \/ Vanish(i)

Endings == \E i \in CallIds : GiveUp(i) \/ Refused(i) \/ Accepted(i) \/ Settled(i)

Reads == \E r \in {"answer", "network"} : ReadDetail(r) \/ ReadRoster(r)

Next ==
    \/ RenameForm \/ GroupActions \/ CreationForm \/ StartJoin \/ RetryJoin
    \/ Requests \/ Endings \/ Reads \/ Elsewhere

\* Requests are served and their answers arrive, or the client gives up; a read that
\* somebody waits for ends; the page behind an invite link runs its effect.
Fairness ==
    /\ \A i \in CallIds : WF_vars(LookUp(i) \/ Run(i) \/ Record(i) \/ Vanish(i)
                                  \/ Refused(i) \/ Accepted(i) \/ Settled(i))
    /\ WF_vars(\E r \in {"answer", "network"} : ReadDetail(r))
    /\ WF_vars(\E r \in {"answer", "network"} : ReadRoster(r))
    /\ WF_vars(StartJoin)

Spec == Init /\ [][Next]_vars /\ Fairness

-----------------------------------------------------------------------------
(* Properties.                                                             *)

Phases == {"none", "sent", "admitted", "ran", "answered", "roster", "detail", "settled"}

\* Every variable has its type, and only a control that observes a mutation is pending.
TypeOK ==
    /\ server.version \in 1 .. Highest /\ server.invite \in DOMAIN Links
    /\ server.role \in {"owner", "member", "none"}
    /\ detail.read.tag \in 0 .. server.version
    /\ \A i \in CallIds : calls[i].phase \in Phases /\ calls[i].gen \in 0 .. MaxAttempts
    /\ \A c \in Controls : (ctl[c].status = "pending") =
          (\E i \in Flying : calls[i].control = c /\ calls[i].client = "observed")

\* One body is one request however often it is submitted or retried, as long as no
\* other body is submitted between: the group is renamed, or created, a second time
\* only when two of the requests were past the lookup at one time or one died before
\* its record was written (CreateGroupForm.tsx, RenameGroupForm.tsx).
OncePerBody == made.twice \subseteq made.raced

\* A rename that is carried out replaces the name that the page showed when it was
\* sent, never one that the user had no way to see (groupMutations.ts).
RenamesTheNameShown == made.blind = {}

\* A link shown after a rotation came into force after the press, so it is never the
\* replayed answer of an earlier rotation (RotateInviteAction.tsx).
LinkShownIsFresh == made.stale = {}

\* Nothing spins for ever: every mutation ends, and so does "Joining group".
Running(i) == calls[i].phase # "none" /\ Awaited(i)
Spinning == "join" \in Controls /\ place = "here" /\ JoinView = "joining"
PressEnds == (\A i \in CallIds : Running(i) ~> ~Running(i)) /\ (Spinning ~> ~Spinning)
=============================================================================
